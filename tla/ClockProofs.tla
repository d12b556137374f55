----------------------------- MODULE ClockProofs -----------------------------
(***************************************************************************)
(* Theorems about the virtual clock, for every set of callbacks, every     *)
(* time asked for and every bound on nesting: first the clock itself, then *)
(* its history and the alarm book that it implements, then the harness     *)
(* that advances it for a test.                                            *)
(***************************************************************************)
EXTENDS ClockHistory, SimRun, SeqLemmas

-----------------------------------------------------------------------------
(* What the operations do to the schedule and to the stack.                *)

(* schedule_at puts one entry, not in the past, after all that are not     *)
(* later, and shifts those that are.                                       *)
LEMMA ScheduleEffect ==
  ASSUME TypeOK, NEW at \in Nat, NEW cb \in Callbacks, ScheduleAt(at, cb)
  PROVE  \E p \in 1..(Len(schedule) + 1), e \in Entries :
           /\ e = [at |-> NotPast(at), h |-> nextHandle, cb |-> cb]
           /\ now <= e.at
           /\ UpperBound(p, e.at)
           /\ schedule' \in Seq(Entries)
           /\ Len(schedule') = Len(schedule) + 1
           /\ \A i \in 1..(Len(schedule) + 1) :
                schedule'[i] = IF i < p THEN schedule[i]
                               ELSE IF i = p THEN e ELSE schedule[i - 1]
<1> DEFINE e == [at |-> NotPast(at), h |-> nextHandle, cb |-> cb]
<1>1. NotPast(at) \in Nat /\ now <= NotPast(at)
  BY DEF NotPast, TypeOK
<1>2. e \in Entries /\ e.at = NotPast(at)
  BY <1>1 DEF Entries, TypeOK
<1>3. PICK p \in 1..(Len(schedule) + 1) :
        UpperBound(p, e.at) /\ schedule' = InsertAt(schedule, p, e)
  BY DEF ScheduleAt
<1> HIDE DEF e
<1>4. schedule \in Seq(Entries)
  BY DEF TypeOK
<1>5. /\ schedule' \in Seq(Entries)
      /\ Len(schedule') = Len(schedule) + 1
      /\ \A i \in 1..(Len(schedule) + 1) :
           schedule'[i] = IF i < p THEN schedule[i]
                          ELSE IF i = p THEN e ELSE schedule[i - 1]
  <2> HIDE DEF Entries
  <2>1. e \in Entries
    BY <1>2
  <2>2. schedule' \in Seq(Entries) /\ IsInsertion(schedule', schedule, p, e)
    BY <1>3, <1>4, <2>1, InsertAtProperties
  <2> QED
    BY <2>2 DEF IsInsertion
<1> QED
  BY <1>1, <1>2, <1>3, <1>5 DEF e

(* cancel closes the gap one entry leaves, or does nothing.                *)
LEMMA CancelEffect ==
  ASSUME TypeOK, NEW h, CancelHandle(h)
  PROVE  \/ \E p \in 1..Len(schedule) :
              /\ schedule[p].h = h
              /\ schedule' \in Seq(Entries)
              /\ Len(schedule') = Len(schedule) - 1
              /\ \A i \in 1..(Len(schedule) - 1) :
                   schedule'[i] = IF i < p THEN schedule[i] ELSE schedule[i + 1]
         \/ schedule' = schedule /\ \A i \in 1..Len(schedule) : schedule[i].h # h
<1>1. schedule \in Seq(Entries) /\ DOMAIN schedule = 1..Len(schedule)
  BY LenProperties DEF TypeOK
<1>2. CASE \E i \in DOMAIN schedule : schedule[i].h = h /\ schedule' = RemoveAt(schedule, i)
  <2>1. PICK p \in 1..Len(schedule) : schedule[p].h = h /\ schedule' = RemoveAt(schedule, p)
    BY <1>1, <1>2
  <2>2. /\ schedule' \in Seq(Entries)
        /\ Len(schedule') = Len(schedule) - 1
        /\ \A i \in 1..(Len(schedule) - 1) :
             schedule'[i] = IF i < p THEN schedule[i] ELSE schedule[i + 1]
    BY <1>1, <2>1, RemoveAtProperties
  <2> QED
    BY <2>1, <2>2
<1>3. CASE (\A i \in DOMAIN schedule : schedule[i].h # h) /\ schedule' = schedule
  BY <1>1, <1>3
<1> QED
  BY <1>2, <1>3 DEF CancelHandle

(* The loop of advance_us takes the first entry.                           *)
LEMMA FireEffect ==
  ASSUME TypeOK, FireNext
  PROVE  /\ stack # <<>>
         /\ schedule # <<>> /\ Len(schedule) \in Nat \ {0}
         /\ Head(schedule) = schedule[1] /\ schedule[1] \in Entries
         /\ schedule[1].at <= Last(stack).target
         /\ now' = schedule[1].at
         /\ schedule' \in Seq(Entries)
         /\ Len(schedule') = Len(schedule) - 1
         /\ \A i \in 1..(Len(schedule) - 1) : schedule'[i] = schedule[i + 1]
<1>1. schedule # <<>> /\ schedule \in Seq(Entries)
  BY DEF FireNext, Due, TypeOK
<1>2. Len(schedule) \in Nat \ {0} /\ Head(schedule) = schedule[1]
  BY <1>1, EmptySeq
<1>3. schedule[1] \in Entries
  BY <1>1, <1>2, ElementOfSeq
<1>4. /\ schedule' \in Seq(Entries)
      /\ Len(schedule') = Len(schedule) - 1
      /\ \A i \in 1..Len(schedule') : schedule'[i] = schedule[i + 1]
  BY <1>1, HeadTailProperties DEF FireNext
<1>5. /\ stack # <<>> /\ Head(schedule).at <= Last(stack).target
      /\ now' = Head(schedule).at
  BY DEF FireNext, InLoop, Due
<1> QED
  BY <1>1, <1>2, <1>3, <1>4, <1>5

(* A callback that starts or returns leaves every target as it is.         *)
LEMMA SetTopEffect ==
  ASSUME TypeOK, stack # <<>>, NEW cb \in Callbacks \cup {NoCallback}, SetTop(cb)
  PROVE  /\ stack' \in Seq(Frames)
         /\ Len(stack') = Len(stack)
         /\ \A i \in 1..Len(stack) : stack'[i].target = stack[i].target
<1>1. stack \in Seq(Frames) /\ Len(stack) \in Nat \ {0}
  BY EmptySeq DEF TypeOK
<1> DEFINE n == Len(stack)
           f == [stack[n] EXCEPT !.running = cb]
<1>2. n \in 1..n /\ stack[n] \in Frames
  BY <1>1, ElementOfSeq
<1>3. f \in Frames /\ f.target = stack[n].target
  BY <1>2 DEF Frames
<1>4. stack' = [stack EXCEPT ![n] = f]
  BY DEF SetTop
<1> HIDE DEF f
<1>5. /\ stack' \in Seq(Frames)
      /\ Len(stack') = n
      /\ \A i \in 1..n : stack'[i] = IF i = n THEN f ELSE stack[i]
  BY <1>1, <1>2, <1>3, <1>4, ExceptSeq
<1> QED
  BY <1>3, <1>5

(* The innermost call, and what its return leaves.                         *)
LEMMA TopFrame ==
  ASSUME TypeOK, stack # <<>>
  PROVE  /\ Len(stack) \in Nat \ {0}
         /\ Last(stack) = stack[Len(stack)]
         /\ Last(stack) \in Frames
         /\ Last(stack).target \in Nat
<1>1. stack \in Seq(Frames) /\ Len(stack) \in Nat \ {0}
  BY EmptySeq DEF TypeOK
<1>2. Len(stack) \in 1..Len(stack)
  BY <1>1
<1>3. stack[Len(stack)] \in Frames
  BY <1>1, <1>2, ElementOfSeq
<1>4. Last(stack) = stack[Len(stack)]
  BY DEF Last
<1> QED
  BY <1>1, <1>3, <1>4 DEF Frames

-----------------------------------------------------------------------------
(* Type correctness.                                                       *)

LEMMA InitType == Init => TypeOK
BY EmptySeq DEF Init, TypeOK

LEMMA NextType == TypeOK /\ [Next]_clockVars => TypeOK'
<1> SUFFICES ASSUME TypeOK, [Next]_clockVars
             PROVE  TypeOK'
  OBVIOUS
<1>0. /\ now \in Nat /\ nextHandle \in Nat \ {0}
      /\ schedule \in Seq(Entries) /\ stack \in Seq(Frames)
  BY DEF TypeOK
<1>1. ASSUME NEW at \in 0..MaxTime, NEW cb \in Callbacks, Schedule(at, cb)
      PROVE  TypeOK'
  <2>1. schedule' \in Seq(Entries)
    BY <1>1, ScheduleEffect, ClockAssumption DEF Schedule
  <2> QED
    BY <1>0, <1>1, <2>1 DEF Schedule, ScheduleAt, TypeOK
<1>2. ASSUME NEW h \in 1..MaxHandle, Cancel(h)
      PROVE  TypeOK'
  <2>1. schedule' \in Seq(Entries)
    BY <1>0, <1>2, CancelEffect DEF Cancel
  <2> QED
    BY <1>0, <1>2, <2>1 DEF Cancel, CancelHandle, TypeOK
<1>3. ASSUME NEW us \in Delays, Advance(us)
      PROVE  TypeOK'
  <2>1. [target |-> now + us, running |-> NoCallback] \in Frames
    BY <1>0, ClockAssumption DEF Frames
  <2>2. stack' \in Seq(Frames)
    BY <1>0, <1>3, <2>1, AppendProperties DEF Advance, EnterAdvance
  <2> QED
    BY <1>0, <1>3, <2>2 DEF Advance, EnterAdvance, TypeOK
<1>4. CASE FireNext
  <2>1. now' \in Nat /\ schedule' \in Seq(Entries)
    BY <1>4, FireEffect DEF Entries
  <2>2. stack' \in Seq(Frames)
    <3>1. stack # <<>> /\ Head(schedule).cb \in Callbacks
      BY <1>4, FireEffect DEF Entries
    <3> QED
      BY <1>4, <3>1, SetTopEffect DEF FireNext
  <2> QED
    BY <1>0, <1>4, <2>1, <2>2 DEF FireNext, TypeOK
<1>5. CASE LeaveAdvance
  <2>1. stack # <<>>
    BY <1>5 DEF LeaveAdvance, InLoop
  <2>2. now' \in Nat
    BY <1>5, <2>1, TopFrame DEF LeaveAdvance
  <2>3. stack' \in Seq(Frames)
    BY <1>0, <1>5, <2>1, FrontProperties DEF LeaveAdvance
  <2> QED
    BY <1>0, <1>5, <2>2, <2>3 DEF LeaveAdvance, TypeOK
<1>6. CASE CallbackReturn
  <2>1. stack' \in Seq(Frames)
    BY <1>6, SetTopEffect DEF CallbackReturn
  <2> QED
    BY <1>0, <1>6, <2>1 DEF CallbackReturn, TypeOK
<1>7. CASE Reset
  BY <1>0, <1>7, EmptySeq DEF Reset, ResetClock, TypeOK
<1>8. CASE UNCHANGED clockVars
  BY <1>0, <1>8 DEF clockVars, TypeOK
<1> QED
  BY <1>1, <1>2, <1>3, <1>4, <1>5, <1>6, <1>7, <1>8 DEF Next

(* The variables of the clock keep their types.                            *)
THEOREM TypeCorrect == Spec => []TypeOK
BY InitType, NextType, PTL DEF Spec

-----------------------------------------------------------------------------
(* Nothing is overdue.  NothingOverdue is not inductive: that the first    *)
(* entry is not overdue after FireNext, and that LeaveAdvance overtakes no *)
(* later entry, needs the order of the multimap.                           *)

Precedes(e, f) == e.at < f.at \/ (e.at = f.at /\ e.h < f.h)

Sorted == \A i, j \in DOMAIN schedule : i < j => Precedes(schedule[i], schedule[j])

Issued == \A i \in DOMAIN schedule : schedule[i].h < nextHandle

ClockInv == Sorted /\ Issued /\ NothingOverdue

(* The inductive invariant, over the indices of the sequence.              *)
LEMMA ClockInvByIndex ==
  ASSUME TypeOK
  PROVE  /\ DOMAIN schedule = 1..Len(schedule) /\ Len(schedule) \in Nat
         /\ \A i \in 1..Len(schedule) :
              /\ schedule[i] \in Entries
              /\ schedule[i].at \in Nat /\ schedule[i].h \in Nat
<1>1. schedule \in Seq(Entries)
  BY DEF TypeOK
<1>2. DOMAIN schedule = 1..Len(schedule) /\ Len(schedule) \in Nat
  BY <1>1, LenProperties
<1>3. \A i \in 1..Len(schedule) : schedule[i] \in Entries
  BY <1>1, ElementOfSeq
<1> QED
  BY <1>2, <1>3 DEF Entries

LEMMA InitClockInv == Init => ClockInv
BY DEF Init, ClockInv, Sorted, Issued, NothingOverdue

LEMMA ScheduleClockInv ==
  ASSUME TypeOK, TypeOK', ClockInv, NEW at \in Nat, NEW cb \in Callbacks, ScheduleAt(at, cb)
  PROVE  ClockInv'
<1> DEFINE n == Len(schedule)
<1>1. PICK p \in 1..(n + 1), e \in Entries :
        /\ e.h = nextHandle
        /\ now <= e.at
        /\ UpperBound(p, e.at)
        /\ Len(schedule') = n + 1
        /\ \A i \in 1..(n + 1) :
             schedule'[i] = IF i < p THEN schedule[i]
                            ELSE IF i = p THEN e ELSE schedule[i - 1]
  <2>1. \E p \in 1..(n + 1), e \in Entries :
          /\ e = [at |-> NotPast(at), h |-> nextHandle, cb |-> cb]
          /\ now <= e.at
          /\ UpperBound(p, e.at)
          /\ schedule' \in Seq(Entries)
          /\ Len(schedule') = n + 1
          /\ \A i \in 1..(n + 1) :
               schedule'[i] = IF i < p THEN schedule[i]
                              ELSE IF i = p THEN e ELSE schedule[i - 1]
    BY ScheduleEffect
  <2> QED
    BY <2>1
<1>2. DOMAIN schedule = 1..n /\ DOMAIN schedule' = 1..(n + 1) /\ n \in Nat /\ p \in Nat
  BY <1>1, ClockInvByIndex, LenProperties DEF TypeOK
<1>3. /\ \A i \in 1..n : schedule[i].at \in Nat /\ schedule[i].h \in Nat
      /\ e.at \in Nat /\ e.h \in Nat /\ nextHandle \in Nat /\ now \in Nat
  BY ClockInvByIndex DEF Entries, TypeOK
<1>4. now' = now /\ nextHandle' = nextHandle + 1
  BY DEF ScheduleAt
<1>5. /\ \A i \in 1..n : i < p => schedule[i].at <= e.at
      /\ \A i \in 1..n : p <= i => e.at < schedule[i].at
  BY <1>1, <1>2 DEF UpperBound
<1>6. /\ \A i, j \in 1..n : i < j => Precedes(schedule[i], schedule[j])
      /\ \A i \in 1..n : schedule[i].h < nextHandle /\ now <= schedule[i].at
  BY <1>2 DEF ClockInv, Sorted, Issued, NothingOverdue
<1> HIDE DEF n
<1>7. ASSUME NEW i \in 1..(n + 1)
      PROVE  \/ i < p /\ i \in 1..n /\ schedule'[i] = schedule[i]
             \/ i = p /\ schedule'[i] = e
             \/ p < i /\ i - 1 \in 1..n /\ schedule'[i] = schedule[i - 1]
  BY <1>1, <1>2
<1>8. Sorted'
  <2> SUFFICES ASSUME NEW i \in 1..(n + 1), NEW j \in 1..(n + 1), i < j
               PROVE  Precedes(schedule'[i], schedule'[j])
    BY <1>2 DEF Sorted
  <2>1. CASE j < p
    BY <2>1, <1>2, <1>6, <1>7
  <2>2. CASE j = p
    <3>1. i \in 1..n /\ i < p /\ schedule'[i] = schedule[i] /\ schedule'[j] = e
      BY <2>2, <1>2, <1>7
    <3> QED
      BY <3>1, <1>1, <1>3, <1>5, <1>6 DEF Precedes
  <2>3. CASE p < j /\ i = p
    <3>1. j - 1 \in 1..n /\ p <= j - 1 /\ schedule'[i] = e /\ schedule'[j] = schedule[j - 1]
      BY <2>3, <1>2, <1>7
    <3> QED
      BY <3>1, <1>5 DEF Precedes
  <2>4. CASE p < j /\ i < p
    <3>1. /\ i \in 1..n /\ j - 1 \in 1..n /\ i < j - 1
          /\ schedule'[i] = schedule[i] /\ schedule'[j] = schedule[j - 1]
      BY <2>4, <1>2, <1>7
    <3> QED
      BY <3>1, <1>6
  <2>5. CASE p < j /\ p < i
    <3>1. /\ i - 1 \in 1..n /\ j - 1 \in 1..n /\ i - 1 < j - 1
          /\ schedule'[i] = schedule[i - 1] /\ schedule'[j] = schedule[j - 1]
      BY <2>5, <1>2, <1>7
    <3> QED
      BY <3>1, <1>6
  <2> QED
    BY <2>1, <2>2, <2>3, <2>4, <2>5, <1>2
<1>9. Issued'
  <2> SUFFICES ASSUME NEW i \in 1..(n + 1)
               PROVE  schedule'[i].h < nextHandle + 1
    BY <1>2, <1>4 DEF Issued
  <2> QED
    BY <1>1, <1>3, <1>6, <1>7
<1>10. NothingOverdue'
  <2> SUFFICES ASSUME NEW i \in 1..(n + 1)
               PROVE  now <= schedule'[i].at
    BY <1>2, <1>4 DEF NothingOverdue
  <2> QED
    BY <1>1, <1>3, <1>6, <1>7
<1> QED
  BY <1>8, <1>9, <1>10 DEF ClockInv

LEMMA CancelClockInv ==
  ASSUME TypeOK, ClockInv, NEW h, CancelHandle(h)
  PROVE  ClockInv'
<1>0. now' = now /\ nextHandle' = nextHandle
  BY DEF CancelHandle
<1>1. CASE schedule' = schedule
  BY <1>0, <1>1 DEF ClockInv, Sorted, Issued, NothingOverdue
<1>2. ASSUME NEW p \in 1..Len(schedule),
             schedule' \in Seq(Entries),
             Len(schedule') = Len(schedule) - 1,
             \A i \in 1..(Len(schedule) - 1) :
               schedule'[i] = IF i < p THEN schedule[i] ELSE schedule[i + 1]
      PROVE  ClockInv'
  <2> DEFINE old(i) == IF i < p THEN i ELSE i + 1
  <2>1. DOMAIN schedule = 1..Len(schedule) /\ Len(schedule) \in Nat
    BY ClockInvByIndex
  <2>2. DOMAIN schedule' = 1..(Len(schedule) - 1)
    BY <1>2, LenProperties
  <2>3. \A i \in DOMAIN schedule' : old(i) \in DOMAIN schedule /\ schedule'[i] = schedule[old(i)]
    BY <1>2, <2>1, <2>2
  <2>4. \A i, j \in DOMAIN schedule' : i < j => old(i) < old(j)
    BY <2>1, <2>2
  <2> HIDE DEF old
  <2>5. Sorted'
    BY <2>3, <2>4 DEF ClockInv, Sorted
  <2>6. Issued' /\ NothingOverdue'
    BY <2>3, <1>0 DEF ClockInv, Issued, NothingOverdue
  <2> QED
    BY <2>5, <2>6 DEF ClockInv
<1> QED
  BY <1>1, <1>2, CancelEffect

LEMMA FireClockInv ==
  ASSUME TypeOK, ClockInv, FireNext
  PROVE  ClockInv'
<1>1. DOMAIN schedule = 1..Len(schedule) /\ Len(schedule) \in Nat \ {0}
  BY ClockInvByIndex, FireEffect
<1>2. DOMAIN schedule' = 1..(Len(schedule) - 1)
  BY FireEffect, LenProperties
<1>3. \A i \in DOMAIN schedule' :
        1 < i + 1 /\ i + 1 \in DOMAIN schedule /\ schedule'[i] = schedule[i + 1]
  BY <1>1, <1>2, FireEffect
<1>4. Sorted'
  <2>1. \A i, j \in DOMAIN schedule' : i < j => i + 1 < j + 1
    BY <1>1, <1>2
  <2> QED
    BY <1>3, <2>1 DEF ClockInv, Sorted
<1>5. Issued'
  BY <1>3 DEF FireNext, ClockInv, Issued
<1>6. NothingOverdue'
  <2>1. 1 \in DOMAIN schedule
    BY <1>1
  <2>2. \A i \in DOMAIN schedule' : Precedes(schedule[1], schedule[i + 1])
    BY <1>3, <2>1 DEF ClockInv, Sorted
  <2>3. \A i \in DOMAIN schedule' : schedule[1].at <= schedule[i + 1].at
    BY <1>1, <1>2, <1>3, <2>1, <2>2, ClockInvByIndex DEF Precedes
  <2> QED
    BY <1>3, <2>3, FireEffect DEF NothingOverdue
<1> QED
  BY <1>4, <1>5, <1>6 DEF ClockInv

(* When the loop of advance_us ends, every entry is later than its target. *)
LEMMA AllLater ==
  ASSUME TypeOK, ClockInv, LeaveAdvance
  PROVE  \A i \in DOMAIN schedule : Last(stack).target < schedule[i].at
<1> SUFFICES ASSUME NEW i \in DOMAIN schedule
             PROVE  Last(stack).target < schedule[i].at
  OBVIOUS
<1>1. DOMAIN schedule = 1..Len(schedule) /\ Len(schedule) \in Nat
  BY ClockInvByIndex
<1>2. 1 \in DOMAIN schedule /\ 1 <= i /\ i \in Nat /\ schedule # <<>>
  BY <1>1, EmptySeq DEF TypeOK
<1>3. Last(stack).target \in Nat
  BY TopFrame DEF LeaveAdvance, InLoop
<1>4. /\ schedule[1].at \in Nat /\ schedule[i].at \in Nat
      /\ Head(schedule) = schedule[1]
  BY <1>1, <1>2, ClockInvByIndex DEF TypeOK
<1>5. Last(stack).target < schedule[1].at
  BY <1>2, <1>3, <1>4 DEF LeaveAdvance, Due
<1>6. i = 1 \/ Precedes(schedule[1], schedule[i])
  BY <1>2 DEF ClockInv, Sorted
<1> QED
  BY <1>3, <1>4, <1>5, <1>6 DEF Precedes

LEMMA LeaveClockInv ==
  ASSUME TypeOK, ClockInv, LeaveAdvance
  PROVE  ClockInv'
<1>1. schedule' = schedule /\ nextHandle' = nextHandle /\ now' = Last(stack).target
  BY DEF LeaveAdvance
<1>2. Sorted' /\ Issued'
  BY <1>1 DEF ClockInv, Sorted, Issued
<1>3. NothingOverdue'
  <2> SUFFICES ASSUME NEW i \in DOMAIN schedule
               PROVE  Last(stack).target <= schedule[i].at
    BY <1>1 DEF NothingOverdue
  <2>1. Last(stack).target < schedule[i].at
    BY AllLater
  <2>2. Last(stack).target \in Nat /\ schedule[i].at \in Nat
    BY ClockInvByIndex, TopFrame DEF LeaveAdvance, InLoop
  <2> QED
    BY <2>1, <2>2
<1> QED
  BY <1>2, <1>3 DEF ClockInv

LEMMA NextClockInv == TypeOK /\ TypeOK' /\ ClockInv /\ [Next]_clockVars => ClockInv'
<1> SUFFICES ASSUME TypeOK, TypeOK', ClockInv, [Next]_clockVars
             PROVE  ClockInv'
  OBVIOUS
<1>1. ASSUME NEW at \in 0..MaxTime, NEW cb \in Callbacks, Schedule(at, cb)
      PROVE  ClockInv'
  BY <1>1, ScheduleClockInv, ClockAssumption DEF Schedule
<1>2. ASSUME NEW h \in 1..MaxHandle, Cancel(h)
      PROVE  ClockInv'
  BY <1>2, CancelClockInv DEF Cancel
<1>3. ASSUME NEW us \in Delays, Advance(us)
      PROVE  ClockInv'
  BY <1>3 DEF Advance, EnterAdvance, ClockInv, Sorted, Issued, NothingOverdue
<1>4. CASE FireNext
  BY <1>4, FireClockInv
<1>5. CASE LeaveAdvance
  BY <1>5, LeaveClockInv
<1>6. CASE CallbackReturn
  BY <1>6 DEF CallbackReturn, ClockInv, Sorted, Issued, NothingOverdue
<1>7. CASE Reset
  BY <1>7 DEF Reset, ResetClock, ClockInv, Sorted, Issued, NothingOverdue
<1>8. CASE UNCHANGED clockVars
  BY <1>8 DEF clockVars, ClockInv, Sorted, Issued, NothingOverdue
<1> QED
  BY <1>1, <1>2, <1>3, <1>4, <1>5, <1>6, <1>7, <1>8 DEF Next

(* The multimap is in firing order and nothing in it is overdue.           *)
THEOREM ClockInvariant == Spec => [](TypeOK /\ ClockInv)
<1>1. Init => TypeOK /\ ClockInv
  BY InitType, InitClockInv
<1>2. TypeOK /\ ClockInv /\ [Next]_clockVars => (TypeOK /\ ClockInv)'
  BY NextType, NextClockInv
<1> QED
  BY <1>1, <1>2, PTL DEF Spec

(* No callback is overdue at any moment, overshooting nested advances      *)
(* included.                                                               *)
THEOREM NeverOverdue == Spec => []NothingOverdue
<1>1. TypeOK /\ ClockInv => NothingOverdue
  BY DEF ClockInv
<1> QED
  BY <1>1, ClockInvariant, PTL

(* An advance_us returns with everything fired that was due by the time it *)
(* sets.                                                                   *)
THEOREM NothingDueOnReturn == Spec => ReturnsWithNothingDue
<1> DEFINE A == Len(stack') < Len(stack) =>
                  \A i \in DOMAIN schedule' : now' < schedule'[i].at
<1>1. TypeOK /\ ClockInv /\ [Next]_clockVars => [A]_clockVars
  <2> SUFFICES ASSUME TypeOK, ClockInv, Next
               PROVE  A
    OBVIOUS
  <2>0. Len(stack) \in Nat
    BY LenProperties DEF TypeOK
  <2>1. ASSUME NEW at \in 0..MaxTime, NEW cb \in Callbacks, Schedule(at, cb)
        PROVE  A
    BY <2>0, <2>1 DEF Schedule
  <2>2. ASSUME NEW h \in 1..MaxHandle, Cancel(h)
        PROVE  A
    BY <2>0, <2>2 DEF Cancel
  <2>3. ASSUME NEW us \in Delays, Advance(us)
        PROVE  A
    <3>1. stack' = Append(stack, [target |-> now + us, running |-> NoCallback])
      BY <2>3 DEF Advance, EnterAdvance
    <3>2. [target |-> now + us, running |-> NoCallback] \in Frames
      BY ClockAssumption DEF Frames, TypeOK
    <3>3. Len(stack') = Len(stack) + 1
      BY <3>1, <3>2, AppendProperties DEF TypeOK
    <3> QED
      BY <2>0, <3>3
  <2>4. CASE FireNext
    <3>1. stack # <<>> /\ Head(schedule).cb \in Callbacks
      BY <2>4, FireEffect DEF Entries
    <3>2. Len(stack') = Len(stack)
      BY <2>4, <3>1, SetTopEffect DEF FireNext
    <3> QED
      BY <2>0, <3>2
  <2>5. CASE LeaveAdvance
    BY <2>5, AllLater DEF LeaveAdvance
  <2>6. CASE CallbackReturn
    <3>1. Len(stack') = Len(stack)
      BY <2>6, SetTopEffect DEF CallbackReturn
    <3> QED
      BY <2>0, <3>1
  <2>7. CASE Reset
    BY <2>0, <2>7 DEF Reset
  <2> QED
    BY <2>1, <2>2, <2>3, <2>4, <2>5, <2>6, <2>7 DEF Next
<1> QED
  BY <1>1, ClockInvariant, PTL DEF Spec, ReturnsWithNothingDue

-----------------------------------------------------------------------------
(* Callbacks that advance no further than the call that runs them.         *)

LEMMA InitNested == Init => TargetsNested
BY DEF Init, TargetsNested

LEMMA NextNested ==
  ~Overshoot => (TypeOK /\ TypeOK' /\ ClockInv /\ TargetsNested /\ [Next]_clockVars
                   => TargetsNested')
<1> SUFFICES ASSUME ~Overshoot, TypeOK, TypeOK', ClockInv, TargetsNested, [Next]_clockVars
             PROVE  TargetsNested'
  OBVIOUS
<1> DEFINE n == Len(stack)
<1>0. /\ n \in Nat /\ DOMAIN stack = 1..n /\ now \in Nat
      /\ \A i \in 1..n : stack[i].target \in Nat
  <2>1. n \in Nat /\ DOMAIN stack = 1..n
    BY LenProperties DEF TypeOK
  <2>2. \A i \in 1..n : stack[i] \in Frames
    BY ElementOfSeq DEF TypeOK
  <2> QED
    BY <2>1, <2>2 DEF Frames, TypeOK
<1>1. /\ \A i, j \in 1..n : i < j => stack[j].target <= stack[i].target
      /\ \A i \in 1..n : now <= stack[i].target
  BY <1>0 DEF TargetsNested
<1>2. stack # <<>> => \A i \in 1..n : Last(stack).target <= stack[i].target
  <2> SUFFICES ASSUME stack # <<>>, NEW i \in 1..n
               PROVE  Last(stack).target <= stack[i].target
    OBVIOUS
  <2>1. Last(stack) = stack[n] /\ n \in 1..n
    BY <1>0, TopFrame
  <2> QED
    BY <2>1, <1>0, <1>1
<1>3. ASSUME now' = now, stack' = stack
      PROVE  TargetsNested'
  BY <1>3 DEF TargetsNested
<1>4. ASSUME stack' \in Seq(Frames), Len(stack') = n,
             \A i \in 1..n : stack'[i].target = stack[i].target,
             \A i \in 1..n : now' <= stack[i].target
      PROVE  TargetsNested'
  <2>1. DOMAIN stack' = 1..n
    BY <1>4, LenProperties
  <2> QED
    BY <1>1, <1>4, <2>1 DEF TargetsNested
<1>5. ASSUME NEW at \in 0..MaxTime, NEW cb \in Callbacks, Schedule(at, cb)
      PROVE  TargetsNested'
  BY <1>3, <1>5 DEF Schedule, ScheduleAt
<1>6. ASSUME NEW h \in 1..MaxHandle, Cancel(h)
      PROVE  TargetsNested'
  BY <1>3, <1>6 DEF Cancel, CancelHandle
<1>7. ASSUME NEW us \in Delays, Advance(us)
      PROVE  TargetsNested'
  <2> DEFINE f == [target |-> now + us, running |-> NoCallback]
  <2>1. us \in Nat /\ f \in Frames /\ f.target = now + us
    BY <1>0, ClockAssumption DEF Frames
  <2>2. \A i \in 1..n : f.target <= stack[i].target
    <3> SUFFICES ASSUME NEW i \in 1..n
                 PROVE  now + us <= stack[i].target
      BY <2>1
    <3>1. stack # <<>>
      BY <1>0
    <3>2. now + us <= Last(stack).target /\ Last(stack).target \in Nat
      BY <3>1, <1>7, TopFrame DEF Advance, EnterAdvance
    <3> QED
      BY <3>1, <3>2, <2>1, <1>0, <1>2
  <2>3. stack' = Append(stack, f) /\ now' = now
    BY <1>7 DEF Advance, EnterAdvance
  <2> HIDE DEF f
  <2>4. /\ stack' \in Seq(Frames) /\ Len(stack') = n + 1
        /\ \A i \in 1..n : stack'[i] = stack[i]
        /\ stack'[n + 1] = f
    BY <2>1, <2>3, AppendProperties DEF TypeOK
  <2>5. DOMAIN stack' = 1..(n + 1)
    BY <2>4, LenProperties
  <2>6. ASSUME NEW i \in 1..(n + 1), NEW j \in 1..(n + 1), i < j
        PROVE  stack'[j].target <= stack'[i].target
    <3>1. i \in 1..n /\ (j \in 1..n \/ j = n + 1)
      BY <1>0, <2>6
    <3> QED
      BY <3>1, <2>2, <2>4, <2>6, <1>1
  <2>7. ASSUME NEW i \in 1..(n + 1)
        PROVE  now' <= stack'[i].target
    <3>1. i \in 1..n \/ i = n + 1
      BY <1>0
    <3> QED
      BY <3>1, <2>1, <2>3, <2>4, <1>0, <1>1
  <2> QED
    BY <2>5, <2>6, <2>7 DEF TargetsNested
<1>8. CASE FireNext
  <2>1. stack # <<>> /\ Head(schedule).cb \in Callbacks
    BY <1>8, FireEffect DEF Entries
  <2>2. /\ stack' \in Seq(Frames) /\ Len(stack') = n
        /\ \A i \in 1..n : stack'[i].target = stack[i].target
    BY <1>8, <2>1, SetTopEffect DEF FireNext
  <2>3. \A i \in 1..n : now' <= stack[i].target
    <3>1. now' \in Nat /\ now' <= Last(stack).target /\ Last(stack).target \in Nat
      BY <1>8, FireEffect, TopFrame DEF Entries
    <3> QED
      BY <2>1, <3>1, <1>0, <1>2
  <2> QED
    BY <2>2, <2>3, <1>4
<1>9. CASE LeaveAdvance
  <2>1. stack # <<>> /\ n \in Nat \ {0}
    BY <1>9, TopFrame DEF LeaveAdvance, InLoop
  <2>2. /\ stack' \in Seq(Frames) /\ Len(stack') = n - 1
        /\ \A i \in 1..(n - 1) : stack'[i] = stack[i]
    BY <1>9, <2>1, FrontProperties DEF LeaveAdvance, TypeOK
  <2>3. DOMAIN stack' = 1..(n - 1) /\ 1..(n - 1) \subseteq 1..n
    BY <2>1, <2>2, LenProperties
  <2>4. \A i \in 1..(n - 1) : now' <= stack[i].target
    BY <1>9, <2>1, <2>3, <1>2 DEF LeaveAdvance
  <2> QED
    BY <2>2, <2>3, <2>4, <1>1 DEF TargetsNested
<1>10. CASE CallbackReturn
  <2>1. /\ stack' \in Seq(Frames) /\ Len(stack') = n
        /\ \A i \in 1..n : stack'[i].target = stack[i].target
    BY <1>10, SetTopEffect DEF CallbackReturn
  <2>2. now' = now
    BY <1>10 DEF CallbackReturn
  <2> QED
    BY <2>1, <2>2, <1>1, <1>4
<1>11. CASE Reset
  BY <1>11 DEF Reset, TargetsNested
<1>12. CASE UNCHANGED clockVars
  BY <1>3, <1>12 DEF clockVars
<1> QED
  BY <1>5, <1>6, <1>7, <1>8, <1>9, <1>10, <1>11, <1>12 DEF Next

(* The calls of advance_us in progress are nested in time as on the stack  *)
(* and the clock has overtaken none of them.                               *)
THEOREM NestedInTime == ~Overshoot => (Spec => []TargetsNested)
<1> SUFFICES ASSUME ~Overshoot
             PROVE  Spec => []TargetsNested
  OBVIOUS
<1>1. TypeOK /\ TypeOK' /\ ClockInv /\ TargetsNested /\ [Next]_clockVars => TargetsNested'
  BY NextNested
<1> QED
  BY <1>1, InitNested, ClockInvariant, PTL DEF Spec

LEMMA TimeGoesOn ==
  ASSUME TypeOK, ClockInv, TargetsNested, FireNext \/ LeaveAdvance
  PROVE  now <= now'
<1>1. CASE FireNext
  <2>1. 1 \in DOMAIN schedule /\ now' = schedule[1].at
    BY <1>1, FireEffect, ClockInvByIndex
  <2> QED
    BY <2>1 DEF ClockInv, NothingOverdue
<1>2. CASE LeaveAdvance
  <2>1. stack # <<>> /\ now' = Last(stack).target
    BY <1>2 DEF LeaveAdvance, InLoop
  <2>2. Len(stack) \in DOMAIN stack /\ Last(stack) = stack[Len(stack)]
    BY <2>1, TopFrame, LenProperties DEF TypeOK
  <2> QED
    BY <2>1, <2>2 DEF TargetsNested
<1> QED
  BY <1>1, <1>2

(* The clock is monotonic between resets.                                  *)
THEOREM Monotonic == ~Overshoot => (Spec => ClockMonotone)
<1> SUFFICES ASSUME ~Overshoot
             PROVE  Spec => ClockMonotone
  OBVIOUS
<1>1. TypeOK /\ ClockInv /\ TargetsNested /\ [Next]_clockVars
        => [now <= now' \/ Reset]_clockVars
  <2> SUFFICES ASSUME TypeOK, ClockInv, TargetsNested, Next
               PROVE  now <= now' \/ Reset
    OBVIOUS
  <2>0. now \in Nat
    BY DEF TypeOK
  <2>1. ASSUME now' = now
        PROVE  now <= now'
    BY <2>0, <2>1
  <2>2. CASE FireNext \/ LeaveAdvance
    BY <2>2, TimeGoesOn
  <2>4. ASSUME NEW at \in 0..MaxTime, NEW cb \in Callbacks, Schedule(at, cb)
        PROVE  now <= now'
    BY <2>1, <2>4 DEF Schedule, ScheduleAt
  <2>5. ASSUME NEW h \in 1..MaxHandle, Cancel(h)
        PROVE  now <= now'
    BY <2>1, <2>5 DEF Cancel, CancelHandle
  <2>6. ASSUME NEW us \in Delays, Advance(us)
        PROVE  now <= now'
    BY <2>1, <2>6 DEF Advance, EnterAdvance
  <2>7. CASE CallbackReturn
    BY <2>1, <2>7 DEF CallbackReturn
  <2> QED
    BY <2>2, <2>4, <2>5, <2>6, <2>7 DEF Next
<1> QED
  BY <1>1, ClockInvariant, NestedInTime, PTL DEF Spec, ClockMonotone

-----------------------------------------------------------------------------
(* The record only watches the clock.                                      *)
LEMMA HistoryStep == [HNext]_historyVars => [Next]_clockVars
BY DEF HNext, HSchedule, HCancel, HAdvance, HFireNext, HLeaveAdvance, HCallbackReturn,
       HReset, historyVars, Next

(* The record adds no behaviour, so the invariants of the clock hold.      *)
LEMMA HistoryClock == HSpec => [](TypeOK /\ ClockInv)
<1>1. HSpec => Spec
  BY HistoryStep, PTL DEF HSpec, HInit, Spec
<1> QED
  BY <1>1, ClockInvariant, PTL

-----------------------------------------------------------------------------
(* The operations of the clock on the set of pending entries.              *)

LEMMA PendingSet ==
  ASSUME TypeOK
  PROVE  /\ ToSet(schedule) = {schedule[i] : i \in 1..Len(schedule)}
         /\ Pending = {a.h : a \in ToSet(schedule)}
         /\ ToSet(schedule) \subseteq Entries
BY ClockInvByIndex DEF ToSet, Pending

LEMMA ScheduledSet ==
  ASSUME TypeOK, TypeOK', NEW at \in Nat, NEW cb \in Callbacks, ScheduleAt(at, cb)
  PROVE  \E e \in Entries :
           /\ e.h = nextHandle
           /\ now <= e.at
           /\ ToSet(schedule') = ToSet(schedule) \cup {e}
<1> DEFINE n == Len(schedule)
<1>1. PICK p \in 1..(n + 1), e \in Entries :
        /\ e = [at |-> NotPast(at), h |-> nextHandle, cb |-> cb]
        /\ now <= e.at
        /\ UpperBound(p, e.at)
        /\ schedule' \in Seq(Entries)
        /\ Len(schedule') = n + 1
        /\ \A i \in 1..(n + 1) :
             schedule'[i] = IF i < p THEN schedule[i]
                            ELSE IF i = p THEN e ELSE schedule[i - 1]
  BY ScheduleEffect
<1>2. DOMAIN schedule = 1..n /\ DOMAIN schedule' = 1..(n + 1) /\ n \in Nat
  BY <1>1, ClockInvByIndex, LenProperties
<1> HIDE DEF n
<1>3. ASSUME NEW i \in 1..(n + 1)
      PROVE  schedule'[i] = e \/ \E j \in 1..n : schedule'[i] = schedule[j]
  <2>1. CASE i < p
    BY <1>1, <1>2, <2>1
  <2>2. CASE i = p
    BY <1>1, <2>2
  <2>3. CASE p < i
    <3>1. i - 1 \in 1..n /\ schedule'[i] = schedule[i - 1]
      BY <1>1, <1>2, <2>3
    <3> QED
      BY <3>1
  <2> QED
    BY <2>1, <2>2, <2>3, <1>2
<1>4. ASSUME NEW j \in 1..n
      PROVE  \E i \in 1..(n + 1) : schedule'[i] = schedule[j]
  <2>1. CASE j < p
    BY <1>1, <1>2, <2>1
  <2>2. CASE p <= j
    <3>1. j + 1 \in 1..(n + 1) /\ ~(j + 1 < p) /\ j + 1 # p /\ (j + 1) - 1 = j
      BY <1>2, <2>2
    <3>2. schedule'[j + 1] = schedule[j]
      BY <3>1, <1>1
    <3> QED
      BY <3>1, <3>2
  <2> QED
    BY <2>1, <2>2, <1>2
<1>5. \E i \in 1..(n + 1) : schedule'[i] = e
  BY <1>1
<1>6. ToSet(schedule') = ToSet(schedule) \cup {e}
  <2>1. /\ ToSet(schedule') = {schedule'[i] : i \in 1..(n + 1)}
        /\ ToSet(schedule) = {schedule[j] : j \in 1..n}
    BY <1>2 DEF ToSet
  <2>2. ToSet(schedule') \subseteq ToSet(schedule) \cup {e}
    BY <2>1, <1>3
  <2>3. ToSet(schedule) \cup {e} \subseteq ToSet(schedule')
    BY <2>1, <1>4, <1>5
  <2> QED
    BY <2>2, <2>3
<1> QED
  BY <1>1, <1>6

LEMMA SortedDistinct ==
  ASSUME TypeOK, Sorted, NEW i \in 1..Len(schedule), NEW j \in 1..Len(schedule),
         schedule[i] = schedule[j]
  PROVE  i = j
<1>1. schedule[i].at \in Nat /\ schedule[i].h \in Nat
  BY ClockInvByIndex
<1>2. ~Precedes(schedule[i], schedule[i])
  BY <1>1 DEF Precedes
<1>3. ~(i < j) /\ ~(j < i)
  BY <1>2, ClockInvByIndex DEF Sorted
<1> QED
  BY <1>3, ClockInvByIndex

LEMMA CancelledSet ==
  ASSUME TypeOK, TypeOK', Sorted, NEW h, CancelHandle(h)
  PROVE  \/ \E a \in ToSet(schedule) :
              a.h = h /\ ToSet(schedule') = ToSet(schedule) \ {a}
         \/ schedule' = schedule /\ h \notin Pending
<1>1. DOMAIN schedule = 1..Len(schedule) /\ Len(schedule) \in Nat
  BY ClockInvByIndex
<1>2. ASSUME NEW p \in 1..Len(schedule),
             schedule[p].h = h,
             schedule' \in Seq(Entries),
             Len(schedule') = Len(schedule) - 1,
             \A i \in 1..(Len(schedule) - 1) :
               schedule'[i] = IF i < p THEN schedule[i] ELSE schedule[i + 1]
      PROVE  ToSet(schedule') = ToSet(schedule) \ {schedule[p]}
  <2>1. DOMAIN schedule' = 1..(Len(schedule) - 1)
    BY <1>2, LenProperties
  <2>2. ASSUME NEW i \in DOMAIN schedule'
        PROVE  \E j \in DOMAIN schedule : j # p /\ schedule'[i] = schedule[j]
    <3>1. CASE i < p
      <4>1. i \in DOMAIN schedule /\ i # p /\ schedule'[i] = schedule[i]
        BY <3>1, <2>1, <1>1, <1>2
      <4> QED
        BY <4>1
    <3>2. CASE ~(i < p)
      <4>1. i + 1 \in DOMAIN schedule /\ i + 1 # p /\ schedule'[i] = schedule[i + 1]
        BY <3>2, <2>1, <1>1, <1>2
      <4> QED
        BY <4>1
    <3> QED
      BY <3>1, <3>2
  <2>3. ASSUME NEW j \in DOMAIN schedule, j # p
        PROVE  \E i \in DOMAIN schedule' : schedule'[i] = schedule[j]
    <3>1. CASE j < p
      <4>1. j \in DOMAIN schedule' /\ schedule'[j] = schedule[j]
        BY <3>1, <2>1, <1>1, <1>2
      <4> QED
        BY <4>1
    <3>2. CASE p < j
      <4>1. j - 1 \in 1..(Len(schedule) - 1) /\ ~(j - 1 < p) /\ (j - 1) + 1 = j
        BY <3>2, <1>1
      <4>2. schedule'[j - 1] = schedule[j]
        BY <4>1, <1>2
      <4> QED
        BY <4>1, <4>2, <2>1
    <3> QED
      BY <3>1, <3>2, <2>3, <1>1
  <2>4. \A j \in DOMAIN schedule : j # p => schedule[j] # schedule[p]
    BY <1>1, SortedDistinct
  <2> QED
    BY <2>2, <2>3, <2>4 DEF ToSet
<1>3. CASE schedule' = schedule /\ \A i \in 1..Len(schedule) : schedule[i].h # h
  BY <1>1, <1>3 DEF Pending
<1>4. \A p \in 1..Len(schedule) : schedule[p] \in ToSet(schedule)
  BY <1>1 DEF ToSet
<1> QED
  BY <1>2, <1>3, <1>4, CancelEffect

LEMMA FiredSet ==
  ASSUME TypeOK, TypeOK', Sorted, FireNext
  PROVE  /\ Head(schedule) \in ToSet(schedule)
         /\ ToSet(schedule') = ToSet(schedule) \ {Head(schedule)}
         /\ \A b \in ToSet(schedule') : Precedes(Head(schedule), b)
<1>1. DOMAIN schedule = 1..Len(schedule) /\ Len(schedule) \in Nat \ {0}
  BY ClockInvByIndex, FireEffect
<1>2. DOMAIN schedule' = 1..(Len(schedule) - 1)
  BY FireEffect, LenProperties
<1>3. Head(schedule) = schedule[1] /\ 1 \in DOMAIN schedule
  BY <1>1, FireEffect
<1>4. \A i \in DOMAIN schedule' : i + 1 \in DOMAIN schedule /\ i + 1 > 1 /\ schedule'[i] = schedule[i + 1]
  BY <1>1, <1>2, FireEffect
<1>5. \A b \in ToSet(schedule') : Precedes(schedule[1], b)
  BY <1>3, <1>4 DEF ToSet, Sorted
<1>6. ASSUME NEW j \in DOMAIN schedule, j # 1
      PROVE  \E i \in DOMAIN schedule' : schedule'[i] = schedule[j]
  <2>1. j - 1 \in DOMAIN schedule' /\ (j - 1) + 1 = j
    BY <1>1, <1>2, <1>6
  <2> QED
    BY <2>1, <1>4
<1>7. \A j \in DOMAIN schedule : j # 1 => schedule[j] # schedule[1]
  BY <1>1, <1>3, SortedDistinct
<1>8. ToSet(schedule') = ToSet(schedule) \ {schedule[1]}
  BY <1>1, <1>3, <1>4, <1>6, <1>7 DEF ToSet
<1> QED
  BY <1>3, <1>5, <1>8 DEF ToSet

-----------------------------------------------------------------------------
(* The schedule implements the alarm book.                                 *)

LEMMA BookStep ==
  TypeOK /\ TypeOK' /\ ClockInv /\ [HNext]_historyVars
    => [Book!Next]_<<nextHandle - 1, ToSet(schedule), fired>>
<1> SUFFICES ASSUME TypeOK, TypeOK', ClockInv, HNext \/ UNCHANGED historyVars
             PROVE  Book!Next \/ UNCHANGED <<nextHandle - 1, ToSet(schedule), fired>>
  OBVIOUS
<1>0. Sorted /\ nextHandle \in Nat /\ nextHandle' \in Nat
  BY DEF ClockInv, TypeOK
<1>1. ASSUME NEW at \in 0..MaxTime, NEW cb \in Callbacks, HSchedule(at, cb)
      PROVE  Book!BookAlarm
  <2>1. ScheduleAt(at, cb) /\ fired' = fired /\ nextHandle' = nextHandle + 1
    BY <1>1 DEF HSchedule, Schedule, ScheduleAt
  <2>2. PICK e \in Entries : e.h = nextHandle /\ ToSet(schedule') = ToSet(schedule) \cup {e}
    BY <2>1, ScheduledSet, ClockAssumption
  <2>3. nextHandle' - 1 = nextHandle /\ nextHandle' - 1 = (nextHandle - 1) + 1
    BY <2>1, <1>0
  <2> QED
    BY <2>1, <2>2, <2>3 DEF Book!BookAlarm
<1>2. ASSUME NEW h \in 1..MaxHandle, HCancel(h)
      PROVE  Book!Drop \/ UNCHANGED <<nextHandle - 1, ToSet(schedule), fired>>
  <2>1. CancelHandle(h) /\ fired' = fired /\ nextHandle' = nextHandle
    BY <1>2 DEF HCancel, Cancel, CancelHandle
  <2>2. CASE \E a \in ToSet(schedule) : a.h = h /\ ToSet(schedule') = ToSet(schedule) \ {a}
    BY <2>1, <2>2 DEF Book!Drop
  <2>3. CASE schedule' = schedule
    BY <2>1, <2>3
  <2> QED
    BY <2>1, <2>2, <2>3, <1>0, CancelledSet
<1>3. ASSUME HFireNext
      PROVE  Book!Ring
  <2>1. FireNext /\ fired' = Append(fired, Head(schedule)) /\ nextHandle' = nextHandle
    BY <1>3 DEF HFireNext, FireNext
  <2>2. \A b \in ToSet(schedule) \ {Head(schedule)} : Book!Earlier(Head(schedule), b)
    BY <2>1, <1>0, FiredSet DEF Precedes, Book!Earlier
  <2> QED
    BY <2>1, <2>2, <1>0, FiredSet DEF Book!Ring
<1>4. ASSUME NEW us \in Delays, HAdvance(us)
      PROVE  UNCHANGED <<nextHandle - 1, ToSet(schedule), fired>>
  BY <1>4 DEF HAdvance, Advance, EnterAdvance
<1>5. ASSUME HLeaveAdvance \/ HCallbackReturn \/ UNCHANGED historyVars
      PROVE  UNCHANGED <<nextHandle - 1, ToSet(schedule), fired>>
  BY <1>5 DEF HLeaveAdvance, LeaveAdvance, HCallbackReturn, CallbackReturn, historyVars, clockVars
<1>6. ASSUME HReset
      PROVE  Book!Clear
  <2>1. ToSet(<<>>) = {}
    BY DEF ToSet
  <2> QED
    BY <2>1, <1>6 DEF HReset, Reset, ResetClock, Book!Clear
<1> QED
  BY <1>1, <1>2, <1>3, <1>4, <1>5, <1>6 DEF HNext, Book!Next

(* What fires next is the earliest pending entry and the oldest of those,  *)
(* at every depth of nesting.                                              *)
THEOREM ImplementsBook == HSpec => BookSpec
<1>1. HInit => Book!Init
  BY DEF HInit, Init, Book!Init, ToSet
<1> QED
  BY <1>1, BookStep, HistoryClock, PTL DEF HSpec, BookSpec, Book!Spec

-----------------------------------------------------------------------------
(* Every handle is accounted for.  The invariant speaks of the set of      *)
(* pending entries, which the operations change in one place.              *)

UniqueHandles == \A a, b \in ToSet(schedule) : a.h = b.h => a = b

Accounted ==
  /\ Pending \cup FiredOnes \cup cancelled = 1..(nextHandle - 1)
  /\ Pending \cap FiredOnes = {}
  /\ cancelled \cap (Pending \cup FiredOnes) = {}
  /\ UniqueHandles
  /\ \A i, j \in DOMAIN fired : fired[i].h = fired[j].h => i = j

LEMMA HistoryType ==
  TypeOK /\ HTypeOK /\ TypeOK' /\ [HNext]_historyVars => HTypeOK'
<1> SUFFICES ASSUME TypeOK, HTypeOK, TypeOK', HNext \/ UNCHANGED historyVars
             PROVE  HTypeOK'
  OBVIOUS
<1>1. fired \in Seq(Entries) /\ cancelled \in SUBSET Nat
  BY DEF HTypeOK
<1>2. ASSUME fired' = fired, cancelled' = cancelled
      PROVE  HTypeOK'
  BY <1>1, <1>2 DEF HTypeOK
<1>3. ASSUME NEW at \in 0..MaxTime, NEW cb \in Callbacks, HSchedule(at, cb)
      PROVE  HTypeOK'
  BY <1>2, <1>3 DEF HSchedule
<1>4. ASSUME NEW h \in 1..MaxHandle, HCancel(h)
      PROVE  HTypeOK'
  <2>1. h \in Nat
    BY ClockAssumption
  <2>2. cancelled' \subseteq cancelled \cup {h} /\ fired' = fired
    BY <1>4 DEF HCancel
  <2> QED
    BY <1>1, <2>1, <2>2 DEF HTypeOK
<1>5. ASSUME NEW us \in Delays, HAdvance(us)
      PROVE  HTypeOK'
  BY <1>2, <1>5 DEF HAdvance
<1>6. CASE HFireNext
  <2>1. Head(schedule) \in Entries /\ cancelled' = cancelled
    BY <1>6, FireEffect DEF HFireNext
  <2>2. fired' \in Seq(Entries)
    BY <1>1, <1>6, <2>1, AppendProperties DEF HFireNext
  <2> QED
    BY <1>1, <2>1, <2>2 DEF HTypeOK
<1>7. CASE HLeaveAdvance \/ HCallbackReturn
  BY <1>2, <1>7 DEF HLeaveAdvance, HCallbackReturn
<1>8. CASE HReset
  BY <1>8, EmptySeq DEF HReset, HTypeOK
<1>9. CASE UNCHANGED historyVars
  BY <1>2, <1>9 DEF historyVars
<1> QED
  BY <1>3, <1>4, <1>5, <1>6, <1>7, <1>8, <1>9 DEF HNext

(* The record keeps its types.                                             *)
THEOREM HistoryTypeCorrect == HSpec => []HTypeOK
<1>1. HInit => HTypeOK
  BY InitType, EmptySeq DEF HInit, HTypeOK
<1> QED
  BY <1>1, HistoryType, HistoryClock, PTL DEF HSpec

LEMMA FiredRecord ==
  ASSUME TypeOK, HTypeOK, HFireNext
  PROVE  /\ Len(fired) \in Nat
         /\ DOMAIN fired = 1..Len(fired)
         /\ DOMAIN fired' = 1..(Len(fired) + 1)
         /\ \A i \in DOMAIN fired : fired'[i] = fired[i]
         /\ fired'[Len(fired) + 1] = Head(schedule)
         /\ \A i \in DOMAIN fired : fired[i] \in Entries
         /\ Head(schedule) \in Entries
         /\ FiredOnes' = FiredOnes \cup {Head(schedule).h}
<1>1. Head(schedule) \in Entries /\ fired \in Seq(Entries)
  BY FireEffect DEF HFireNext, HTypeOK
<1>2. /\ fired' \in Seq(Entries) /\ Len(fired') = Len(fired) + 1
      /\ \A i \in 1..Len(fired) : fired'[i] = fired[i]
      /\ fired'[Len(fired) + 1] = Head(schedule)
  BY <1>1, AppendProperties DEF HFireNext
<1>3. /\ Len(fired) \in Nat /\ DOMAIN fired = 1..Len(fired)
      /\ DOMAIN fired' = 1..(Len(fired) + 1)
  BY <1>1, <1>2, LenProperties
<1>4. \A i \in DOMAIN fired : fired[i] \in Entries
  BY <1>1, <1>3, ElementOfSeq
<1>5. FiredOnes' = FiredOnes \cup {Head(schedule).h}
  <2>1. DOMAIN fired' = DOMAIN fired \cup {Len(fired) + 1}
    BY <1>3
  <2> QED
    BY <2>1, <1>2, <1>3 DEF FiredOnes
<1> QED
  BY <1>1, <1>2, <1>3, <1>4, <1>5

LEMMA AccountedStep ==
  TypeOK /\ TypeOK' /\ HTypeOK /\ ClockInv /\ Accounted /\ [HNext]_historyVars => Accounted'
<1> SUFFICES ASSUME TypeOK, TypeOK', HTypeOK, ClockInv, Accounted, HNext \/ UNCHANGED historyVars
             PROVE  Accounted'
  OBVIOUS
<1>0. Sorted /\ nextHandle \in Nat \ {0}
  BY DEF ClockInv, TypeOK
<1>1. ASSUME schedule' = schedule, nextHandle' = nextHandle, fired' = fired, cancelled' = cancelled
      PROVE  Accounted'
  BY <1>1 DEF Accounted, Pending, FiredOnes, UniqueHandles
<1>2. /\ Pending = {a.h : a \in ToSet(schedule)}
      /\ Pending' = {a.h : a \in ToSet(schedule')}
  <2>1. Pending' = {schedule'[i].h : i \in DOMAIN schedule'}
    BY DEF Pending
  <2> QED
    BY <2>1, PendingSet DEF ToSet
<1>3. ASSUME NEW at \in 0..MaxTime, NEW cb \in Callbacks, HSchedule(at, cb)
      PROVE  Accounted'
  <2>1. /\ ScheduleAt(at, cb) /\ nextHandle' = nextHandle + 1
        /\ fired' = fired /\ cancelled' = cancelled
    BY <1>3 DEF HSchedule, Schedule, ScheduleAt
  <2>2. PICK e \in Entries : e.h = nextHandle /\ ToSet(schedule') = ToSet(schedule) \cup {e}
    BY <2>1, ScheduledSet, ClockAssumption
  <2>3. Pending' = Pending \cup {nextHandle} /\ FiredOnes' = FiredOnes
    BY <2>1, <2>2, <1>2 DEF FiredOnes
  <2>4. 1..(nextHandle' - 1) = 1..(nextHandle - 1) \cup {nextHandle}
    BY <2>1, <1>0
  <2>5. nextHandle \notin Pending \cup FiredOnes \cup cancelled
    BY <1>0 DEF Accounted
  <2>6. UniqueHandles'
    <3>1. \A a \in ToSet(schedule) : a.h # e.h
      BY <2>2, <2>5, <1>2
    <3> QED
      BY <3>1, <2>2 DEF Accounted, UniqueHandles
  <2> QED
    BY <2>1, <2>3, <2>4, <2>5, <2>6 DEF Accounted
<1>4. ASSUME NEW h \in 1..MaxHandle, HCancel(h)
      PROVE  Accounted'
  <2>1. /\ CancelHandle(h) /\ nextHandle' = nextHandle /\ fired' = fired
        /\ cancelled' = cancelled \cup (Pending \cap {h})
    BY <1>4 DEF HCancel, Cancel, CancelHandle
  <2>2. FiredOnes' = FiredOnes
    BY <2>1 DEF FiredOnes
  <2>3. CASE schedule' = schedule /\ h \notin Pending
    <3>1. cancelled' = cancelled
      BY <2>1, <2>3
    <3> QED
      BY <2>1, <2>3, <3>1, <1>1
  <2>4. ASSUME NEW a \in ToSet(schedule), a.h = h, ToSet(schedule') = ToSet(schedule) \ {a}
        PROVE  Accounted'
    <3>1. Pending' = Pending \ {h} /\ h \in Pending
      BY <2>4, <1>2 DEF Accounted, UniqueHandles
    <3>2. cancelled' = cancelled \cup {h}
      BY <2>1, <3>1
    <3>3. UniqueHandles'
      BY <2>4 DEF Accounted, UniqueHandles
    <3> QED
      BY <2>1, <2>2, <3>1, <3>2, <3>3 DEF Accounted
  <2> QED
    BY <2>1, <2>3, <2>4, <1>0, CancelledSet
<1>5. CASE HFireNext
  <2> DEFINE a == Head(schedule)
  <2>1. /\ a \in ToSet(schedule) /\ ToSet(schedule') = ToSet(schedule) \ {a}
        /\ nextHandle' = nextHandle /\ cancelled' = cancelled
    BY <1>0, <1>5, FiredSet DEF HFireNext, FireNext
  <2>2. Pending' = Pending \ {a.h} /\ a.h \in Pending
    BY <2>1, <1>2 DEF Accounted, UniqueHandles
  <2>3. /\ FiredOnes' = FiredOnes \cup {a.h}
        /\ Len(fired) \in Nat
        /\ DOMAIN fired = 1..Len(fired)
        /\ DOMAIN fired' = 1..(Len(fired) + 1)
        /\ \A i \in DOMAIN fired : fired'[i] = fired[i]
        /\ fired'[Len(fired) + 1] = a
    BY <1>5, FiredRecord
  <2> HIDE DEF a
  <2>4. UniqueHandles'
    BY <2>1 DEF Accounted, UniqueHandles
  <2>5. \A i \in DOMAIN fired : fired[i].h # a.h
    BY <2>2 DEF Accounted, FiredOnes
  <2>6. DOMAIN fired' = DOMAIN fired \cup {Len(fired) + 1}
    BY <2>3
  <2>7. \A i, j \in DOMAIN fired' : fired'[i].h = fired'[j].h => i = j
    BY <2>3, <2>5, <2>6 DEF Accounted
  <2> QED
    BY <2>1, <2>2, <2>3, <2>4, <2>7 DEF Accounted
<1>6. ASSUME NEW us \in Delays, HAdvance(us)
      PROVE  Accounted'
  BY <1>1, <1>6 DEF HAdvance, Advance, EnterAdvance
<1>7. CASE HLeaveAdvance
  BY <1>1, <1>7 DEF HLeaveAdvance, LeaveAdvance
<1>8. CASE HCallbackReturn
  BY <1>1, <1>8 DEF HCallbackReturn, CallbackReturn
<1>9. CASE HReset
  <2>1. schedule' = <<>> /\ nextHandle' = 1 /\ fired' = <<>> /\ cancelled' = {}
    BY <1>9 DEF HReset, Reset, ResetClock
  <2>2. ToSet(schedule') = {} /\ Pending' = {} /\ FiredOnes' = {} /\ DOMAIN fired' = {}
    BY <2>1 DEF ToSet, Pending, FiredOnes
  <2>3. 1..(nextHandle' - 1) = {}
    BY <2>1
  <2> QED
    BY <2>1, <2>2, <2>3 DEF Accounted, UniqueHandles
<1>10. CASE UNCHANGED historyVars
  BY <1>1, <1>10 DEF historyVars, clockVars
<1> QED
  BY <1>3, <1>4, <1>5, <1>6, <1>7, <1>8, <1>9, <1>10 DEF HNext

(* No callback is lost, fires twice, or fires after its cancel returned    *)
(* true.                                                                   *)
THEOREM EveryHandleAccounted == HSpec => []HandlesAccounted
<1>1. HInit => Accounted
  <2>1. HInit => ToSet(schedule) = {} /\ Pending = {} /\ FiredOnes = {} /\ 1..(nextHandle - 1) = {}
    BY DEF HInit, Init, ToSet, Pending, FiredOnes
  <2> QED
    BY <2>1 DEF HInit, Accounted, UniqueHandles
<1>2. TypeOK /\ ClockInv /\ Accounted => HandlesAccounted
  <2> SUFFICES ASSUME TypeOK, ClockInv, Accounted
               PROVE  \A i, j \in DOMAIN schedule : schedule[i].h = schedule[j].h => i = j
    BY DEF Accounted, HandlesAccounted
  <2>1. Sorted /\ DOMAIN schedule = 1..Len(schedule)
    BY ClockInvByIndex DEF ClockInv
  <2>2. \A i, j \in DOMAIN schedule : schedule[i].h = schedule[j].h => schedule[i] = schedule[j]
    BY DEF Accounted, UniqueHandles, ToSet
  <2> QED
    BY <2>1, <2>2, SortedDistinct
<1> QED
  BY <1>1, <1>2, AccountedStep, HistoryClock, HistoryTypeCorrect, PTL DEF HSpec

-----------------------------------------------------------------------------
(* The order of firing.  FiringOrder is not inductive: the entry that      *)
(* fires next must also come after all that have fired, which needs that   *)
(* no fired entry is in the future and that new entries get new handles.   *)

FiredBefore ==
  /\ \A i \in DOMAIN fired : fired[i].at <= now /\ fired[i].h < nextHandle
  /\ \A i \in DOMAIN fired : \A e \in ToSet(schedule) : Before(fired[i], e)

LEMMA FiredBeforeStep ==
  TypeOK /\ TypeOK' /\ HTypeOK /\ ClockInv /\ FiredBefore /\ FiringOrder
    /\ (now <= now' \/ Reset) /\ [HNext]_historyVars => FiredBefore' /\ FiringOrder'
<1> SUFFICES ASSUME TypeOK, TypeOK', HTypeOK, ClockInv, FiredBefore, FiringOrder,
                    now <= now' \/ Reset, HNext \/ UNCHANGED historyVars
             PROVE  FiredBefore' /\ FiringOrder'
  OBVIOUS
<1>0. /\ Sorted /\ now \in Nat /\ now' \in Nat /\ nextHandle \in Nat
      /\ DOMAIN fired = 1..Len(fired)
      /\ \A i \in DOMAIN fired : fired[i].at \in Nat /\ fired[i].h \in Nat
  <2>1. DOMAIN fired = 1..Len(fired)
    BY LenProperties DEF HTypeOK
  <2>2. \A i \in DOMAIN fired : fired[i] \in Entries
    BY <2>1, ElementOfSeq DEF HTypeOK
  <2> QED
    BY <2>1, <2>2 DEF Entries, TypeOK, ClockInv
<1>1. CASE HReset
  BY <1>1 DEF HReset, Reset, ResetClock, FiredBefore, FiringOrder
<1>2. ASSUME ~HReset, now <= now', fired' = fired, nextHandle' = nextHandle,
             ToSet(schedule') \subseteq ToSet(schedule)
      PROVE  FiredBefore' /\ FiringOrder'
  <2>1. \A i \in DOMAIN fired : fired[i].at <= now'
    BY <1>0, <1>2 DEF FiredBefore
  <2> QED
    BY <2>1, <1>2 DEF FiredBefore, FiringOrder
<1>3. ASSUME NEW at \in 0..MaxTime, NEW cb \in Callbacks, HSchedule(at, cb)
      PROVE  FiredBefore' /\ FiringOrder'
  <2>1. ScheduleAt(at, cb) /\ fired' = fired /\ nextHandle' = nextHandle + 1 /\ now' = now
    BY <1>3 DEF HSchedule, Schedule, ScheduleAt
  <2>2. PICK e \in Entries :
          e.h = nextHandle /\ now <= e.at /\ ToSet(schedule') = ToSet(schedule) \cup {e}
    BY <2>1, ScheduledSet, ClockAssumption
  <2>3. e.at \in Nat
    BY DEF Entries
  <2>4. \A i \in DOMAIN fired : Before(fired[i], e)
    BY <1>0, <2>2, <2>3 DEF FiredBefore, Before
  <2>5. \A i \in DOMAIN fired : fired[i].at <= now' /\ fired[i].h < nextHandle'
    BY <1>0, <2>1 DEF FiredBefore
  <2> QED
    BY <2>1, <2>2, <2>4, <2>5 DEF FiredBefore, FiringOrder
<1>4. CASE HFireNext
  <2> DEFINE a == Head(schedule)
  <2>1. /\ a \in ToSet(schedule) /\ ToSet(schedule') = ToSet(schedule) \ {a}
        /\ nextHandle' = nextHandle /\ now' = a.at
        /\ \A b \in ToSet(schedule') : Precedes(a, b)
    BY <1>0, <1>4, FiredSet DEF HFireNext, FireNext
  <2>2. /\ Len(fired) \in Nat
        /\ DOMAIN fired = 1..Len(fired)
        /\ DOMAIN fired' = 1..(Len(fired) + 1)
        /\ \A i \in DOMAIN fired : fired'[i] = fired[i]
        /\ fired'[Len(fired) + 1] = a
    BY <1>4, FiredRecord
  <2>3. a.at \in Nat /\ a.h \in Nat /\ a.h < nextHandle
    <3>1. \A e \in ToSet(schedule) : e \in Entries /\ e.h < nextHandle
      BY PendingSet, ClockInvByIndex DEF ClockInv, Issued, ToSet
    <3> QED
      BY <3>1, <2>1 DEF Entries
  <2>4. now <= a.at
    <3>1. \A e \in ToSet(schedule) : now <= e.at
      BY DEF ClockInv, NothingOverdue, ToSet
    <3> QED
      BY <3>1, <2>1
  <2> HIDE DEF a
  <2>5. DOMAIN fired' = DOMAIN fired \cup {Len(fired) + 1}
    BY <2>2
  <2>6. \A i \in DOMAIN fired : fired[i].at <= a.at /\ fired[i].h < nextHandle
    BY <1>0, <2>3, <2>4 DEF FiredBefore
  <2>7. \A i \in DOMAIN fired' : fired'[i].at <= now' /\ fired'[i].h < nextHandle'
    BY <2>1, <2>2, <2>3, <2>5, <2>6
  <2>8. \A i \in DOMAIN fired' : \A e \in ToSet(schedule') : Before(fired'[i], e)
    BY <2>1, <2>2, <2>5 DEF FiredBefore, Before, Precedes
  <2>9. \A i \in DOMAIN fired : Before(fired[i], a)
    BY <2>1 DEF FiredBefore
  <2>10. FiringOrder'
    <3> SUFFICES ASSUME NEW i \in DOMAIN fired', NEW j \in DOMAIN fired', i < j
                 PROVE  Before(fired'[i], fired'[j])
      BY DEF FiringOrder
    <3>1. i \in DOMAIN fired /\ (j \in DOMAIN fired \/ j = Len(fired) + 1)
      BY <2>2
    <3> QED
      BY <3>1, <2>2, <2>9 DEF FiringOrder
  <2> QED
    BY <2>7, <2>8, <2>10 DEF FiredBefore
<1>5. ASSUME NEW h \in 1..MaxHandle, HCancel(h)
      PROVE  FiredBefore' /\ FiringOrder'
  <2>1. /\ CancelHandle(h) /\ fired' = fired /\ nextHandle' = nextHandle /\ now' = now
    BY <1>5 DEF HCancel, Cancel, CancelHandle
  <2>2. ToSet(schedule') \subseteq ToSet(schedule)
    BY <1>0, <2>1, CancelledSet
  <2> QED
    BY <2>1, <2>2, <1>0, <1>1, <1>2
<1>6. ASSUME NEW us \in Delays, HAdvance(us)
      PROVE  FiredBefore' /\ FiringOrder'
  BY <1>0, <1>1, <1>2, <1>6 DEF HAdvance, Advance, EnterAdvance
<1>7. CASE HLeaveAdvance
  <2>1. stack # <<>>
    BY <1>7 DEF HLeaveAdvance, LeaveAdvance, InLoop
  <2>2. now <= now'
    BY <2>1 DEF Reset
  <2> QED
    BY <2>2, <1>1, <1>2, <1>7 DEF HLeaveAdvance, LeaveAdvance
<1>8. CASE HCallbackReturn
  BY <1>0, <1>1, <1>2, <1>8 DEF HCallbackReturn, CallbackReturn
<1>9. CASE UNCHANGED historyVars
  BY <1>0, <1>1, <1>2, <1>9 DEF historyVars, clockVars
<1> QED
  BY <1>1, <1>3, <1>4, <1>5, <1>6, <1>7, <1>8, <1>9 DEF HNext

(* Callbacks fire in timestamp order, and in insertion order at the same   *)
(* timestamp, across nested advances.                                      *)
THEOREM FiresInOrder == ~Overshoot => (HSpec => []FiringOrder)
<1> SUFFICES ASSUME ~Overshoot
             PROVE  HSpec => []FiringOrder
  OBVIOUS
<1>1. HInit => FiredBefore /\ FiringOrder
  BY DEF HInit, FiredBefore, FiringOrder
<1>2. HSpec => Spec
  BY HistoryStep, PTL DEF HSpec, HInit, Spec
<1>3. HSpec => [][now <= now' \/ Reset]_clockVars
  BY <1>2, Monotonic, PTL DEF ClockMonotone
<1>4. TypeOK /\ [now <= now' \/ Reset]_clockVars => (now <= now' \/ Reset)
  BY DEF TypeOK, clockVars
<1> QED
  BY <1>1, <1>3, <1>4, FiredBeforeStep, HistoryClock, HistoryTypeCorrect, PTL DEF HSpec

-----------------------------------------------------------------------------
(* The Unity harness, a client of the clock.                               *)

LEMMA SimTypes ==
  /\ Millisecond \in Nat \ {0} /\ Millisecond \in Delays
  /\ Timeouts \subseteq Nat /\ Holds \subseteq Nat
  /\ SketchDelays \subseteq Delays
  /\ \A ms \in Holds : ms * Millisecond \in Delays
  /\ Delays \subseteq Nat
BY ClockAssumption, SimAssumption

(* A pulse in progress has one of the lengths that the harness is tried    *)
(* with.                                                                   *)
HoldKnown == pc = "rise" => hold \in Delays

LEMMA HoldKnownStep == HoldKnown /\ [SimNext]_simVars => HoldKnown'
<1> SUFFICES ASSUME HoldKnown, [SimNext]_simVars, pc' = "rise" PROVE hold' \in Delays
  BY DEF HoldKnown
<1>1. CASE \E v \in {0, 1}, ms \in Holds : Pulse(v, ms)
  BY <1>1, SimTypes DEF Pulse
<1>2. CASE pc' = pc /\ hold' = hold
  BY <1>2 DEF HoldKnown
<1>3. CASE \/ \E ms \in Timeouts : RunUntil(ms)
           \/ CallLoop \/ LoopReturns \/ StepReturns \/ TimeOut
           \/ PulseHolds \/ PulseRestores \/ PulseEnds
  BY <1>3 DEF RunUntil, CallLoop, LoopReturns, StepReturns, TimeOut, PulseHolds,
              PulseRestores, PulseEnds, CallEnds
<1>4. CASE \/ \E v \in {0, 1} : Write(v)
           \/ \E at \in 0..MaxTime, cb \in Callbacks : SimSchedule(at, cb)
           \/ \E us \in SketchDelays : Delay(us)
           \/ Attach \/ IsrReturns
           \/ SimCallbackReturn \/ SimFireNext \/ SimLeaveAdvance \/ SimReset
  BY <1>2, <1>4 DEF Write, SimSchedule, Delay, Attach, IsrReturns, SimCallbackReturn,
                    SimFireNext, SimLeaveAdvance, SimReset, call
<1> QED
  BY <1>1, <1>2, <1>3, <1>4 DEF SimNext, simVars, call

LEMMA HoldsKnown == SimSpec => []HoldKnown
<1>1. SimInit => HoldKnown
  BY DEF SimInit, HoldKnown
<1> QED
  BY <1>1, HoldKnownStep, PTL DEF SimSpec

(* Each step of the harness is a step of the clock or leaves it alone.     *)
LEMMA HarnessStep == HoldKnown /\ [SimNext]_simVars => [Next]_clockVars
<1> SUFFICES ASSUME HoldKnown, [SimNext]_simVars PROVE [Next]_clockVars
  OBVIOUS
<1> USE DEF clockVars, call
<1>1. CASE (\E v \in {0, 1} : Write(v)) \/ Attach \/ IsrReturns
  BY <1>1 DEF Write, Attach, IsrReturns, clockVars
<1>2. CASE \E at \in 0..MaxTime, cb \in Callbacks : SimSchedule(at, cb)
  BY <1>2 DEF SimSchedule, Next
<1>3. CASE \E us \in SketchDelays : Delay(us)
  BY <1>3, SimTypes DEF Delay, Next
<1>4. CASE SimCallbackReturn \/ SimFireNext \/ SimLeaveAdvance
  BY <1>4 DEF SimCallbackReturn, SimFireNext, SimLeaveAdvance, Next
<1>5. CASE \/ \E ms \in Timeouts : RunUntil(ms)
           \/ \E v \in {0, 1}, ms \in Holds : Pulse(v, ms)
           \/ CallLoop \/ StepReturns \/ TimeOut \/ PulseRestores \/ PulseEnds
  BY <1>5 DEF RunUntil, Pulse, CallLoop, StepReturns, TimeOut,
              PulseRestores, PulseEnds, clockVars
<1>6. CASE LoopReturns
  <2>1. UNCHANGED clockVars \/ (Idle /\ EnterAdvance(Millisecond))
    BY <1>6 DEF LoopReturns, clockVars
  <2>2. Idle /\ EnterAdvance(Millisecond) => Advance(Millisecond)
    BY DEF Idle, Advance, InCode
  <2> QED
    BY <2>1, <2>2, SimTypes DEF Next
<1>7. CASE PulseHolds
  <2>1. hold \in Delays /\ Idle /\ EnterAdvance(hold)
    BY <1>7 DEF PulseHolds, HoldKnown
  <2> QED
    BY <2>1 DEF Idle, Advance, InCode, Next
<1>8. CASE SimReset
  BY <1>8 DEF SimReset, Next
<1>9. CASE UNCHANGED simVars
  BY <1>9 DEF simVars, clockVars
<1> QED
  BY <1>1, <1>2, <1>3, <1>4, <1>5, <1>6, <1>7, <1>8, <1>9 DEF SimNext

(* The harness uses the clock as the clock's specification allows, so that *)
(* nothing is overdue in it and the advances in progress are nested.       *)
THEOREM HarnessUsesClock == SimSpec => Spec
<1>1. SimInit => Init
  BY DEF SimInit
<1> QED
  BY <1>1, HarnessStep, HoldsKnown, PTL DEF SimSpec, Spec

(* Where the outermost advance in progress takes the clock.                *)
Goal == IF stack = <<>> THEN now ELSE stack[1].target

LEMMA GoalKept ==
  ASSUME TypeOK, [Next]_clockVars, stack # <<>>
  PROVE  Goal' = Goal
<1>0. /\ stack \in Seq(Frames) /\ Len(stack) \in Nat \ {0} /\ 1 \in 1..Len(stack)
      /\ DOMAIN stack = 1..Len(stack)
  BY TopFrame, LenProperties DEF TypeOK
<1>1. ASSUME stack' \in Seq(Frames), Len(stack') \in Nat \ {0},
             stack'[1].target = stack[1].target
      PROVE  Goal' = Goal
  BY <1>1, EmptySeq DEF Goal
<1>2. CASE stack' = stack
  BY <1>2 DEF Goal
<1>3. ASSUME NEW cb \in Callbacks \cup {NoCallback}, SetTop(cb) PROVE Goal' = Goal
  BY <1>0, <1>1, <1>3, SetTopEffect
<1>4. ASSUME NEW us \in Delays, Advance(us) PROVE Goal' = Goal
  <2> DEFINE f == [target |-> now + us, running |-> NoCallback]
  <2>1. f \in Frames
    BY ClockAssumption DEF Frames, TypeOK
  <2>2. stack' = Append(stack, f)
    BY <1>4 DEF Advance, EnterAdvance
  <2> HIDE DEF f
  <2>3. /\ stack' \in Seq(Frames) /\ Len(stack') = Len(stack) + 1
        /\ \A i \in 1..Len(stack) : stack'[i] = stack[i]
    BY <1>0, <2>1, <2>2, AppendProperties
  <2> QED
    BY <1>0, <1>1, <2>3
<1>5. CASE FireNext
  <2>1. Head(schedule).cb \in Callbacks /\ SetTop(Head(schedule).cb)
    BY <1>5, FireEffect DEF Entries, FireNext
  <2> QED
    BY <1>3, <2>1
<1>6. CASE LeaveAdvance
  <2>1. /\ stack' \in Seq(Frames) /\ Len(stack') = Len(stack) - 1
        /\ \A i \in 1..(Len(stack) - 1) : stack'[i] = stack[i]
    BY <1>0, <1>6, FrontProperties DEF LeaveAdvance
  <2>2. now' = stack[Len(stack)].target
    BY <1>6, TopFrame DEF LeaveAdvance
  <2>3. CASE Len(stack) = 1
    <3>1. stack' = <<>>
      BY <2>1, <2>3, EmptySeq
    <3> QED
      BY <2>2, <2>3, <3>1 DEF Goal
  <2>4. CASE Len(stack) # 1
    <3>1. 1 \in 1..(Len(stack) - 1) /\ Len(stack') \in Nat \ {0}
      BY <1>0, <2>1, <2>4
    <3> QED
      BY <1>1, <2>1, <3>1
  <2> QED
    BY <2>3, <2>4
<1>7. CASE CallbackReturn
  BY <1>3, <1>7 DEF CallbackReturn
<1> QED
  BY <1>2, <1>3, <1>4, <1>5, <1>6, <1>7 DEF Next, Schedule, Cancel, Reset, clockVars

LEMMA MsType ==
  ASSUME NEW us \in Nat
  PROVE  Ms(us) \in Nat /\ Ms(us + Millisecond) = Ms(us) + 1
<1>1. Millisecond \in Nat \ {0}
  BY SimTypes
<1>2. us \div Millisecond \in Nat
  BY <1>1
<1>3. (us + Millisecond) \div Millisecond = (us \div Millisecond) + 1
  BY <1>1
<1> QED
  BY <1>2, <1>3 DEF Ms

-----------------------------------------------------------------------------
(* The invariant of the harness, by where it is: in runUntil the           *)
(* milliseconds gone by are the iterations as long as loop() has not moved *)
(* the time; a pulse is on its way to the time at which it restores the    *)
(* pin, and then past it.  No interrupt routine runs directly under the    *)
(* harness while it waits or looks about.                                  *)

HarnessTypes ==
  /\ pc \in {"test", "until", "loop", "step", "rise", "pulse", "fall"}
  /\ deadline \in Nat /\ hold \in Nat
  /\ prev \in {0, 1} /\ level \in {0, 1}
  /\ begun \in Nat /\ loops \in Nat /\ slept \in BOOLEAN
  /\ isrs \in [0..MaxDepth -> Nat]

Outside == pc \in {"test", "rise", "pulse", "fall"} => loops = 0 /\ ~slept

NoRoutine == pc \in {"until", "step", "pulse"} => isrs[0] = 0

InUntil ==
  pc = "until" =>
    /\ stack = <<>>
    /\ loops > 0 => level # 1
    /\ ~slept => Ms(now) = Ms(begun) + loops /\ Ms(now) <= deadline

InLoopCode ==
  pc = "loop" /\ ~slept =>
    /\ stack = <<>>
    /\ Ms(now) + 1 = Ms(begun) + loops
    /\ Ms(now) + 1 <= deadline

InStep ==
  pc = "step" /\ ~slept =>
    Ms(Goal) = Ms(begun) + loops /\ Ms(Goal) <= deadline

InPulse == pc = "pulse" => Goal = begun + hold

InFall == pc = "fall" => Goal >= begun + hold /\ (level = prev \/ rewritten)

HarnessInv ==
  /\ HarnessTypes /\ Outside /\ NoRoutine
  /\ InUntil /\ InLoopCode /\ InStep /\ InPulse /\ InFall

LEMMA FirstAdvance ==
  ASSUME NEW us \in Nat, now \in Nat, stack = <<>>, EnterAdvance(us)
  PROVE  Goal' = now + us
<1> DEFINE f == [target |-> now + us, running |-> NoCallback]
<1>1. f \in Frames /\ f.target = now + us
  BY DEF Frames
<1>2. stack' = Append(<<>>, f)
  BY DEF EnterAdvance
<1> HIDE DEF f
<1>3. Len(stack') = 1 /\ stack'[1] = f
  BY <1>1, <1>2
<1>4. stack' # <<>>
  BY <1>3, EmptySeq
<1> QED
  BY <1>1, <1>3, <1>4 DEF Goal

(* What a write does to the routines: they run on top of the advances in   *)
(* progress.                                                               *)
LEMMA LevelSet ==
  ASSUME TypeOK, HarnessTypes, NEW v \in {0, 1}, SetLevel(v)
  PROVE  /\ level' = v /\ level' \in {0, 1}
         /\ isrs' \in [0..MaxDepth -> Nat]
         /\ stack # <<>> => isrs'[0] = isrs[0]
<1>1. /\ level' = v
      /\ isrs' = isrs \/ isrs' = [isrs EXCEPT ![Len(stack)] = @ + 1]
  BY DEF SetLevel
<1>2. stack # <<>> => Len(stack) # 0
  BY EmptySeq DEF TypeOK
<1>3. /\ isrs \in [0..MaxDepth -> Nat] /\ MaxDepth \in Nat /\ 0 \in 0..MaxDepth
      /\ \A d \in 0..MaxDepth : isrs[d] + 1 \in Nat
  BY ClockAssumption DEF HarnessTypes
<1> QED
  BY <1>1, <1>2, <1>3

LEMMA RoutineReturns ==
  ASSUME TypeOK, HarnessTypes, IsrReturns
  PROVE  /\ isrs' \in [0..MaxDepth -> Nat]
         /\ stack # <<>> => isrs'[0] = isrs[0]
<1>1. isrs[Len(stack)] > 0 /\ isrs' = [isrs EXCEPT ![Len(stack)] = @ - 1]
  BY DEF IsrReturns
<1>2. stack # <<>> => Len(stack) # 0
  BY EmptySeq DEF TypeOK
<1>3. /\ isrs \in [0..MaxDepth -> Nat] /\ MaxDepth \in Nat /\ 0 \in 0..MaxDepth
  BY ClockAssumption DEF HarnessTypes
<1>4. Len(stack) \in 0..MaxDepth => isrs[Len(stack)] - 1 \in Nat
  BY <1>1, <1>3
<1> QED
  BY <1>1, <1>2, <1>3, <1>4

Running ==
  \/ \E v \in {0, 1} : Write(v)
  \/ \E at \in 0..MaxTime, cb \in Callbacks : SimSchedule(at, cb)
  \/ \E us \in SketchDelays : Delay(us)
  \/ Attach \/ IsrReturns
  \/ SimCallbackReturn \/ SimFireNext \/ SimLeaveAdvance

(* What sketch code and the clock leave alone, and when they run.          *)
LEMMA RunningKeeps ==
  ASSUME TypeOK, HarnessTypes, Running
  PROVE  /\ UNCHANGED <<pc, deadline, hold, prev, begun, loops>>
         /\ level' \in {0, 1} /\ isrs' \in [0..MaxDepth -> Nat]
         /\ stack # <<>> => isrs'[0] = isrs[0]
         /\ stack = <<>> => pc \in {"test", "loop"} \/ isrs[0] > 0
         /\ pc = "fall" => \/ rewritten'
                           \/ level' = level /\ rewritten' = rewritten
         /\ slept' = slept \/ \E us \in SketchDelays : Delay(us)
         /\ slept' = slept \/ (slept' = TRUE /\ pc = "loop")
<1>0. level \in {0, 1} /\ isrs \in [0..MaxDepth -> Nat] /\ slept \in BOOLEAN
  BY DEF HarnessTypes
<1>1. ASSUME NEW v \in {0, 1}, Write(v) PROVE rewritten' = (pc = "fall")
  BY <1>1 DEF Write
<1>2. ASSUME NEW v \in {0, 1}, Write(v)
      PROVE  /\ SetLevel(v) /\ SketchCode
             /\ UNCHANGED <<pc, deadline, hold, prev, begun, loops, slept>>
  BY <1>2 DEF Write
<1>3. CASE \E v \in {0, 1} : Write(v)
  BY <1>1, <1>2, <1>3, LevelSet DEF SketchCode
<1>4. ASSUME NEW us \in SketchDelays, Delay(us)
      PROVE  /\ SketchCode
             /\ slept' = (slept \/ (stack = <<>> /\ pc = "loop"))
             /\ UNCHANGED <<pc, deadline, hold, prev, begun, loops, rewritten, level, isrs>>
  BY <1>4 DEF Delay, pin
<1>5. CASE \E us \in SketchDelays : Delay(us)
  BY <1>0, <1>4, <1>5 DEF SketchCode
<1>6. CASE \E at \in 0..MaxTime, cb \in Callbacks : SimSchedule(at, cb)
  BY <1>0, <1>6 DEF SimSchedule, SketchCode, call, pin
<1>7. CASE Attach
  BY <1>0, <1>7 DEF Attach, SketchCode, call
<1>8. CASE IsrReturns
  <2>1. UNCHANGED <<pc, deadline, hold, prev, begun, loops, rewritten, level, slept>>
    BY <1>8 DEF IsrReturns, call
  <2>2. stack = <<>> => isrs[0] > 0
    BY <1>8, EmptySeq DEF IsrReturns, TypeOK
  <2> QED
    BY <1>0, <1>8, <2>1, <2>2, RoutineReturns
<1>9. CASE SimCallbackReturn \/ SimFireNext \/ SimLeaveAdvance
  BY <1>0, <1>9 DEF SimCallbackReturn, SimFireNext, SimLeaveAdvance,
     CallbackReturn, FireNext, LeaveAdvance, InLoop, call, pin
<1> QED
  BY <1>3, <1>5, <1>6, <1>7, <1>8, <1>9 DEF Running

(* Sketch code does not move the time while nothing of the clock runs, but *)
(* by a delay.                                                             *)
LEMMA RunningIdle ==
  ASSUME TypeOK, Running, stack = <<>>, ~(\E us \in SketchDelays : Delay(us))
  PROVE  stack' = stack /\ now' = now
<1>1. CASE (\E v \in {0, 1} : Write(v)) \/ Attach \/ IsrReturns
  BY <1>1 DEF Write, Attach, IsrReturns, clockVars
<1>2. CASE \E at \in 0..MaxTime, cb \in Callbacks : SimSchedule(at, cb)
  <2>1. PICK at \in 0..MaxTime, cb \in Callbacks : Schedule(at, cb)
    BY <1>2 DEF SimSchedule
  <2> QED
    BY <2>1 DEF Schedule, ScheduleAt
<1>3. CASE SimCallbackReturn \/ SimFireNext \/ SimLeaveAdvance
  BY <1>3 DEF SimCallbackReturn, SimFireNext, SimLeaveAdvance,
     CallbackReturn, FireNext, LeaveAdvance, InLoop
<1> QED
  BY <1>1, <1>2, <1>3 DEF Running

(* Such a delay takes the clock no further back.                           *)
LEMMA RunningGoal ==
  ASSUME TypeOK, HoldKnown, Running
  PROVE  /\ stack # <<>> => Goal' = Goal
         /\ stack = <<>> => Goal \in Nat /\ Goal' \in Nat /\ Goal' >= Goal
<1>1. [Next]_clockVars
  BY HarnessStep DEF SimNext, Running
<1>2. stack # <<>> => Goal' = Goal
  BY <1>1, GoalKept
<1>3. ASSUME stack = <<>> PROVE Goal \in Nat /\ Goal' \in Nat /\ Goal' >= Goal
  <2>1. Goal = now /\ now \in Nat
    BY <1>3 DEF Goal, TypeOK
  <2>2. ASSUME NEW us \in SketchDelays, Delay(us) PROVE Goal' = now + us /\ us \in Nat
    BY <1>3, <2>1, <2>2, SimTypes, FirstAdvance DEF Delay, Advance
  <2>3. CASE \E us \in SketchDelays : Delay(us)
    BY <2>1, <2>2, <2>3
  <2>4. CASE ~(\E us \in SketchDelays : Delay(us))
    <3>1. stack' = <<>> /\ now' = now
      BY <1>3, <2>4, RunningIdle
    <3> QED
      BY <2>1, <3>1 DEF Goal
  <2> QED
    BY <2>3, <2>4
<1> QED
  BY <1>2, <1>3

LEMMA RunningStep ==
  ASSUME TypeOK, HoldKnown, HarnessInv, Running
  PROVE  HarnessInv'
<1>0. HarnessTypes /\ begun + hold \in Nat
  BY DEF HarnessInv, HarnessTypes
<1> DEFINE Slow == \E us \in SketchDelays : Delay(us)
<1>1. /\ UNCHANGED <<pc, deadline, hold, prev, begun, loops>>
      /\ level' \in {0, 1} /\ isrs' \in [0..MaxDepth -> Nat]
      /\ stack # <<>> => isrs'[0] = isrs[0]
      /\ stack = <<>> => pc \in {"test", "loop"} \/ isrs[0] > 0
      /\ slept' = slept \/ Slow
      /\ slept' = slept \/ (slept' = TRUE /\ pc = "loop")
  BY <1>0, RunningKeeps
<1>2. pc = "fall" => \/ rewritten'
                     \/ level' = level /\ rewritten' = rewritten
  BY <1>0, RunningKeeps
<1>3. /\ stack # <<>> => Goal' = Goal
      /\ stack = <<>> => Goal \in Nat /\ Goal' \in Nat /\ Goal' >= Goal
  BY RunningGoal
<1>4. HarnessTypes'
  BY <1>0, <1>1 DEF HarnessTypes
<1>5. Outside'
  BY <1>1 DEF HarnessInv, Outside
<1>6. pc \in {"until", "step", "pulse"} => stack # <<>> /\ isrs[0] = 0
  BY <1>1 DEF HarnessInv, NoRoutine
<1>7. NoRoutine' /\ InUntil'
  BY <1>1, <1>6 DEF HarnessInv, NoRoutine, InUntil
<1>8. InPulse'
  BY <1>1, <1>3, <1>6 DEF HarnessInv, InPulse
<1>9. InStep'
  BY <1>1, <1>3, <1>6 DEF HarnessInv, InStep, Ms
<1>10. InFall'
  <2> SUFFICES ASSUME pc = "fall"
               PROVE  Goal' >= begun + hold /\ (level' = prev \/ rewritten')
    BY <1>1 DEF InFall
  <2>1. Goal >= begun + hold
    BY DEF HarnessInv, InFall
  <2>2. level = prev \/ rewritten
    BY DEF HarnessInv, InFall
  <2>3. Goal' >= begun + hold
    BY <1>0, <1>3, <2>1
  <2>4. level' = prev \/ rewritten'
    BY <1>2, <2>2
  <2> QED
    BY <2>3, <2>4
<1>11. InLoopCode'
  <2> SUFFICES ASSUME pc = "loop", ~slept'
               PROVE  ~slept /\ stack' = stack /\ now' = now
    BY <1>1 DEF HarnessInv, InLoopCode, Ms
  <2>1. ~slept
    BY <1>1 DEF HarnessInv
  <2>2. stack = <<>>
    BY <2>1 DEF HarnessInv, InLoopCode
  <2>3. ~Slow
    BY <2>2 DEF Delay
  <2> QED
    BY <2>1, <2>2, <2>3, RunningIdle
<1> QED
  BY <1>4, <1>5, <1>7, <1>8, <1>9, <1>10, <1>11 DEF HarnessInv

LEMMA CallsEnd ==
  ASSUME HarnessTypes, level' \in {0, 1}, isrs' = isrs, CallEnds
  PROVE  HarnessInv'
<1>1. HarnessTypes' /\ Outside'
  BY DEF CallEnds, HarnessTypes, Outside
<1> QED
  BY <1>1 DEF CallEnds, HarnessInv, NoRoutine, InUntil, InLoopCode, InStep, InPulse, InFall

LEMMA HarnessInvStep ==
  ASSUME TypeOK, HoldKnown, HarnessInv, [SimNext]_simVars
  PROVE  HarnessInv'
<1> DEFINE M(us) == Ms(us)
<1>0. /\ now \in Nat /\ HarnessTypes
      /\ \A us \in Nat : M(us) \in Nat /\ M(us + Millisecond) = M(us) + 1
      /\ Millisecond \in Nat
  BY MsType, SimTypes DEF TypeOK, HarnessInv
<1>1. CASE Running
  BY <1>1, RunningStep
<1>2. ASSUME NEW ms \in Timeouts, RunUntil(ms) PROVE HarnessInv'
  <2>1. /\ pc = "test" /\ stack = <<>> /\ isrs[0] = 0
        /\ pc' = "until" /\ deadline' = M(now) + ms /\ begun' = now
        /\ UNCHANGED <<now, stack, hold, prev, loops, slept, level, isrs>>
    BY <1>2 DEF RunUntil, Idle, clockVars, pin
  <2>2. ms \in Nat /\ M(now) \in Nat /\ loops = 0
    BY <1>0, <2>1, SimTypes DEF HarnessInv, Outside
  <2>3. HarnessTypes'
    <3>1. deadline' \in Nat /\ begun' \in Nat
      <4> HIDE DEF M
      <4>1. M(now) + ms \in Nat
        BY <2>2
      <4> QED
        BY <1>0, <2>1, <4>1
    <3> QED
      BY <1>0, <2>1, <3>1 DEF HarnessTypes
  <2>6. Outside' /\ NoRoutine' /\ InLoopCode' /\ InStep' /\ InPulse' /\ InFall'
    BY <2>1 DEF Outside, NoRoutine, InLoopCode, InStep, InPulse, InFall
  <2>4. M(now) = M(now) + 0 /\ M(now) <= M(now) + ms
    BY <2>2
  <2>5. InUntil'
    BY <2>1, <2>2, <2>4 DEF InUntil, Ms
  <2> QED
    BY <2>3, <2>5, <2>6 DEF HarnessInv
<1>3. CASE CallLoop
  <2>1. /\ pc = "until" /\ M(now) < deadline /\ pc' = "loop" /\ loops' = loops + 1
        /\ UNCHANGED <<now, stack, deadline, hold, prev, begun, slept, level, isrs>>
    BY <1>3 DEF CallLoop, InTime, clockVars, pin
  <2>2. /\ HarnessTypes' /\ Outside' /\ NoRoutine'
        /\ InUntil' /\ InStep' /\ InPulse' /\ InFall'
    BY <1>0, <2>1 DEF HarnessTypes, Outside, NoRoutine, InUntil, InStep, InPulse, InFall
  <2>3. M(now) \in Nat /\ M(begun) \in Nat /\ deadline \in Nat /\ loops \in Nat
    BY <1>0 DEF HarnessTypes
  <2>4. ~slept => stack = <<>> /\ M(now) = M(begun) + loops
    BY <2>1 DEF HarnessInv, InUntil
  <2> HIDE DEF M
  <2>5. ~slept => M(now) + 1 = M(begun) + (loops + 1) /\ M(now) + 1 <= deadline
    BY <2>1, <2>3, <2>4
  <2>6. InLoopCode'
    BY <2>1, <2>4, <2>5 DEF InLoopCode, Ms, M
  <2> QED
    BY <2>2, <2>6 DEF HarnessInv
<1>4. CASE LoopReturns
  <2>0. UNCHANGED <<level, isrs>>
    BY <1>4 DEF LoopReturns, pin
  <2>1. CASE CallEnds
    BY <1>0, <2>0, <2>1, CallsEnd DEF HarnessTypes
  <2>2. CASE ~CallEnds
    <3>1. /\ pc = "loop" /\ stack = <<>> /\ isrs[0] = 0
          /\ pc' = "step" /\ EnterAdvance(Millisecond)
          /\ UNCHANGED <<deadline, hold, prev, begun, loops, slept, level, isrs>>
      BY <1>4, <2>0, <2>2 DEF LoopReturns, Idle
    <3>2. Goal' = now + Millisecond
      BY <1>0, <3>1, FirstAdvance
    <3>3. /\ HarnessTypes' /\ Outside' /\ NoRoutine'
          /\ InUntil' /\ InLoopCode' /\ InPulse' /\ InFall'
      BY <1>0, <3>1 DEF HarnessTypes, Outside, NoRoutine, InUntil, InLoopCode, InPulse, InFall
    <3>4. InStep'
      <4> SUFFICES ASSUME ~slept
                   PROVE  M(now + Millisecond) = M(begun) + loops /\ M(now + Millisecond) <= deadline
        BY <3>1, <3>2 DEF InStep, Ms
      <4>1. M(now) + 1 = M(begun) + loops /\ M(now) + 1 <= deadline
        BY <3>1 DEF HarnessInv, InLoopCode
      <4> QED
        BY <1>0, <4>1
    <3> QED
      BY <3>3, <3>4 DEF HarnessInv
  <2> QED
    BY <2>1, <2>2
<1>5. CASE StepReturns
  <2>1. CASE CallEnds
    BY <1>0, <1>5, <2>1, CallsEnd DEF HarnessTypes, StepReturns, pin
  <2>2. CASE ~CallEnds
    <3>1. /\ pc = "step" /\ stack = <<>> /\ isrs[0] = 0 /\ level # 1 /\ pc' = "until"
          /\ UNCHANGED <<now, stack, deadline, hold, prev, begun, loops, slept, level, isrs>>
      BY <1>5, <2>2 DEF StepReturns, Idle, AfterStep, Pred, clockVars, pin
    <3>2. /\ HarnessTypes' /\ Outside' /\ NoRoutine'
          /\ InLoopCode' /\ InStep' /\ InPulse' /\ InFall'
      BY <1>0, <3>1 DEF HarnessTypes, Outside, NoRoutine, InLoopCode, InStep, InPulse, InFall
    <3>3. InUntil'
      BY <3>1 DEF HarnessInv, InUntil, InStep, Goal, Ms
    <3> QED
      BY <3>2, <3>3 DEF HarnessInv
  <2> QED
    BY <2>1, <2>2
<1>6. CASE TimeOut
  BY <1>0, <1>6, CallsEnd DEF HarnessTypes, TimeOut, pin
<1>7. ASSUME NEW v \in {0, 1}, NEW ms \in Holds, Pulse(v, ms) PROVE HarnessInv'
  <2>1. /\ pc = "test" /\ pc' = "rise" /\ prev' = level /\ hold' = ms * Millisecond
        /\ UNCHANGED <<deadline, begun, loops, slept>>
    BY <1>7 DEF Pulse
  <2>2. level' \in {0, 1} /\ isrs' \in [0..MaxDepth -> Nat]
    BY <1>0, <1>7, LevelSet DEF Pulse
  <2>3. ms * Millisecond \in Nat
    BY SimTypes
  <2>4. HarnessTypes' /\ Outside'
    BY <1>0, <2>1, <2>2, <2>3 DEF HarnessTypes, HarnessInv, Outside
  <2> QED
    BY <2>1, <2>4 DEF HarnessInv, NoRoutine, InUntil, InLoopCode, InStep, InPulse, InFall
<1>8. CASE PulseHolds
  <2>1. /\ pc = "rise" /\ stack = <<>> /\ isrs[0] = 0
        /\ pc' = "pulse" /\ EnterAdvance(hold) /\ begun' = now
        /\ UNCHANGED <<deadline, hold, prev, loops, slept, level, isrs>>
    BY <1>8 DEF PulseHolds, Idle, pin
  <2>2. Goal' = begun' + hold'
    BY <1>0, <2>1, FirstAdvance DEF HarnessTypes
  <2>3. HarnessTypes' /\ Outside'
    BY <1>0, <2>1 DEF HarnessTypes, HarnessInv, Outside
  <2> QED
    BY <2>1, <2>2, <2>3
       DEF HarnessInv, NoRoutine, InUntil, InLoopCode, InStep, InPulse, InFall
<1>11. CASE PulseRestores
  <2>1. /\ pc = "pulse" /\ pc' = "fall" /\ level' = prev
        /\ UNCHANGED <<now, stack, deadline, hold, prev, begun, loops, slept>>
    BY <1>11 DEF PulseRestores, SetLevel, Restored, clockVars
  <2>2. level' \in {0, 1} /\ isrs' \in [0..MaxDepth -> Nat]
    BY <1>0, <1>11, LevelSet DEF PulseRestores, Restored, HarnessTypes
  <2>3. HarnessTypes' /\ Outside'
    BY <1>0, <2>1, <2>2 DEF HarnessTypes, HarnessInv, Outside
  <2>4. Goal' = begun' + hold' /\ begun' + hold' \in Nat
    BY <1>0, <2>1 DEF HarnessInv, InPulse, Goal, HarnessTypes
  <2>5. InFall'
    BY <2>1, <2>4 DEF InFall
  <2> QED
    BY <2>1, <2>3, <2>5 DEF HarnessInv, NoRoutine, InUntil, InLoopCode, InStep, InPulse
<1>12. CASE PulseEnds
  BY <1>0, <1>12, CallsEnd DEF HarnessTypes, PulseEnds, pin
<1>9. CASE SimReset
  <2>1. /\ pc = "test" /\ level' = 0
        /\ UNCHANGED <<pc, deadline, hold, prev, begun, loops, slept, isrs>>
    BY <1>9 DEF SimReset, call
  <2>2. HarnessTypes' /\ Outside'
    BY <1>0, <2>1 DEF HarnessTypes, HarnessInv, Outside
  <2> QED
    BY <2>1, <2>2 DEF HarnessInv, NoRoutine, InUntil, InLoopCode, InStep, InPulse, InFall
<1>10. CASE UNCHANGED simVars
  <2>1. UNCHANGED <<now, stack, pc, deadline, hold, prev, begun, loops, slept, rewritten,
                    level, isrs>>
    BY <1>10 DEF simVars, call, clockVars, pin
  <2>2. HarnessTypes' /\ Outside' /\ NoRoutine' /\ InFall'
    BY <2>1 DEF HarnessTypes, HarnessInv, Outside, NoRoutine, InFall, Goal
  <2> QED
    BY <2>1, <2>2 DEF HarnessInv, InUntil, InLoopCode, InStep, InPulse, Goal, Ms
<1> QED
  BY <1>1, <1>2, <1>3, <1>4, <1>5, <1>6, <1>7, <1>8, <1>9, <1>10, <1>11, <1>12
     DEF SimNext, Running

LEMMA HarnessInvariant == SimSpec => [](TypeOK /\ ClockInv /\ HoldKnown /\ HarnessInv)
<1>1. SimInit => HarnessInv
  <2> SUFFICES ASSUME SimInit PROVE HarnessInv
    OBVIOUS
  <2>1. /\ pc = "test" /\ deadline = 0 /\ hold = 0 /\ prev = 0 /\ begun = 0 /\ loops = 0
        /\ slept = FALSE /\ level = 0 /\ isrs = [d \in 0..MaxDepth |-> 0]
    BY DEF SimInit
  <2>2. HarnessTypes
    BY <2>1 DEF HarnessTypes
  <2>3. Outside /\ NoRoutine /\ InUntil /\ InLoopCode /\ InStep /\ InPulse /\ InFall
    BY <2>1 DEF Outside, NoRoutine, InUntil, InLoopCode, InStep, InPulse, InFall
  <2> QED
    BY <2>2, <2>3 DEF HarnessInv
<1>2. TypeOK /\ HoldKnown /\ HarnessInv /\ [SimNext]_simVars => HarnessInv'
  BY HarnessInvStep
<1>3. SimSpec => Spec
  BY HarnessUsesClock
<1> QED
  BY <1>1, <1>2, <1>3, HoldsKnown, ClockInvariant, PTL DEF SimSpec

(* runUntil calls loop() once a millisecond and does not overrun its       *)
(* deadline, whatever callbacks fire meanwhile, overshooting ones too.     *)
THEOREM LoopOnceAMillisecond == SimSpec => []OneLoopPerMillisecond
<1>1. HarnessInv => OneLoopPerMillisecond
  BY DEF HarnessInv, InUntil, OneLoopPerMillisecond
<1> QED
  BY <1>1, HarnessInvariant, PTL

(* A runUntil that gives up has looked at the predicate after the last     *)
(* thing that could make it true.                                          *)
THEOREM TimeoutsAreReal == SimSpec => []NoFalseTimeout
<1>1. HarnessInv => NoFalseTimeout
  BY DEF HarnessInv, InUntil, NoFalseTimeout, Pred
<1> QED
  BY <1>1, HarnessInvariant, PTL

(* A pulse restores the pin exactly its length after its first write has   *)
(* returned, and leaves it as it found it unless code of the second        *)
(* write's interrupt routine rewrites it.                                  *)
THEOREM PulsesAreExact == SimSpec => PulseExact
<1> DEFINE A == /\ pc = "pulse" /\ pc' = "fall" => now' = begun + hold
                /\ pc = "fall" /\ pc' = "test" => /\ now' >= begun + hold
                                                  /\ level' = prev \/ rewritten
<1>1. TypeOK /\ HarnessInv /\ [SimNext]_simVars => [A]_(simVars)
  <2> SUFFICES ASSUME TypeOK, HarnessInv, SimNext, pc \in {"pulse", "fall"}, pc' # pc PROVE A
    OBVIOUS
  <2>1. CASE PulseRestores
    <3>1. stack = <<>> /\ now' = now /\ pc = "pulse"
      BY <2>1 DEF PulseRestores, Idle, clockVars
    <3>2. Goal = begun + hold
      BY <3>1 DEF HarnessInv, InPulse
    <3> QED
      BY <3>1, <3>2 DEF Goal
  <2>2. CASE PulseEnds
    <3>1. stack = <<>> /\ now' = now /\ level' = level /\ pc = "fall"
      BY <2>2 DEF PulseEnds, Idle, clockVars, pin
    <3>2. Goal >= begun + hold
      BY <3>1 DEF HarnessInv, InFall
    <3>3. level = prev \/ rewritten
      BY <3>1 DEF HarnessInv, InFall
    <3>4. now' >= begun + hold
      BY <3>1, <3>2 DEF Goal
    <3>5. level' = prev \/ rewritten
      BY <3>1, <3>3
    <3> QED
      BY <3>1, <3>4, <3>5
  <2>3. ASSUME ~PulseRestores, ~PulseEnds PROVE FALSE
    <3>1. CASE Running
      BY <3>1, RunningKeeps DEF HarnessInv
    <3>2. CASE \/ \E ms \in Timeouts : RunUntil(ms)
               \/ CallLoop \/ LoopReturns \/ StepReturns
               \/ TimeOut \/ PulseHolds
               \/ \E v \in {0, 1}, ms \in Holds : Pulse(v, ms)
               \/ SimReset
      BY <3>2 DEF RunUntil, CallLoop, LoopReturns, StepReturns,
         TimeOut, Pulse, PulseHolds, SimReset
    <3> QED
      BY <2>3, <3>1, <3>2 DEF SimNext, Running
  <2> QED
    BY <2>1, <2>2, <2>3
<1> QED
  BY <1>1, HarnessInvariant, PTL DEF SimSpec, PulseExact

-----------------------------------------------------------------------------
(* The event log.  Its order needs that the time has not gone back since   *)
(* the last event, and so the nesting of the advances in progress.         *)

LogInv ==
  /\ events \in Seq(Nat)
  /\ \A i \in DOMAIN events : events[i] <= now
  /\ EventsInTimeOrder

LEMMA LogLater ==
  ASSUME now \in Nat, LogInv, now' \in Nat, now <= now', events' = events
  PROVE  LogInv'
<1>1. \A i \in DOMAIN events : events[i] \in Nat
  BY ElementOfSeq, LenProperties DEF LogInv
<1>2. \A i \in DOMAIN events' : events'[i] <= now'
  BY <1>1 DEF LogInv
<1> QED
  BY <1>2 DEF LogInv, EventsInTimeOrder

LEMMA Logged ==
  ASSUME now \in Nat, LogInv, now' = now, events' = Append(events, now)
  PROVE  LogInv'
<1>1. /\ events' \in Seq(Nat) /\ Len(events') = Len(events) + 1
      /\ \A i \in 1..Len(events) : events'[i] = events[i]
      /\ events'[Len(events) + 1] = now
  BY AppendProperties DEF LogInv
<1>2. /\ DOMAIN events' = 1..(Len(events) + 1) /\ DOMAIN events = 1..Len(events)
      /\ Len(events) \in Nat
  BY <1>1, LenProperties DEF LogInv
<1>3. \A i \in DOMAIN events' : i \in DOMAIN events \/ i = Len(events) + 1
  BY <1>2
<1>4. \A i \in DOMAIN events' : events'[i] <= now
  BY <1>1, <1>2, <1>3 DEF LogInv
<1>5. ASSUME NEW i \in DOMAIN events', NEW j \in DOMAIN events', i < j
      PROVE  events'[i] <= events'[j]
  <2>1. i \in DOMAIN events
    BY <1>2, <1>5
  <2>2. CASE j \in DOMAIN events
    BY <1>1, <1>2, <1>5, <2>1, <2>2 DEF LogInv, EventsInTimeOrder
  <2>3. CASE j = Len(events) + 1
    BY <1>1, <1>4, <2>3
  <2> QED
    BY <1>3, <2>2, <2>3
<1> QED
  BY <1>1, <1>4, <1>5 DEF LogInv, EventsInTimeOrder

LEMMA LogStep ==
  ASSUME TypeOK, TypeOK', ClockInv, TargetsNested, LogInv,
         [SimNext]_simVars
  PROVE  LogInv'
<1>0. now \in Nat /\ now' \in Nat
  BY DEF TypeOK
<1>1. ASSUME now' = now, events' = events PROVE LogInv'
  BY <1>0, <1>1, LogLater
<1>2. CASE \/ \E v \in {0, 1} : Write(v)
           \/ \E v \in {0, 1}, ms \in Holds : Pulse(v, ms)
           \/ PulseRestores
  <2>1. now' = now /\ events' = Append(events, now)
    BY <1>2 DEF Write, Pulse, PulseRestores, SetLevel, Stamp, clockVars
  <2> QED
    BY <1>0, <2>1, Logged
<1>5. CASE SimFireNext \/ SimLeaveAdvance
  <2>1. (FireNext \/ LeaveAdvance) /\ events' = events
    BY <1>5 DEF SimFireNext, SimLeaveAdvance
  <2>2. now <= now'
    BY <2>1, TimeGoesOn
  <2> QED
    BY <1>0, <2>1, <2>2, LogLater
<1>6. CASE SimReset
  <2>1. events' = <<>>
    BY <1>6 DEF SimReset
  <2> QED
    BY <2>1, EmptySeq DEF LogInv, EventsInTimeOrder
<1>7. CASE \E at \in 0..MaxTime, cb \in Callbacks : SimSchedule(at, cb)
  <2>1. PICK at \in 0..MaxTime, cb \in Callbacks : Schedule(at, cb) /\ events' = events
    BY <1>7 DEF SimSchedule
  <2> QED
    BY <1>1, <2>1 DEF Schedule, ScheduleAt
<1>8. CASE (\E us \in SketchDelays : Delay(us)) \/ LoopReturns \/ PulseHolds
  <2>1. now' = now /\ events' = events
    BY <1>8 DEF Delay, LoopReturns, PulseHolds, clockVars, Advance, EnterAdvance
  <2> QED
    BY <1>1, <2>1
<1>9. CASE \/ SimCallbackReturn \/ CallLoop \/ StepReturns \/ TimeOut
           \/ Attach \/ IsrReturns \/ PulseEnds
           \/ \E ms \in Timeouts : RunUntil(ms)
  <2>1. now' = now /\ events' = events
    BY <1>9 DEF SimCallbackReturn, CallbackReturn, CallLoop,
       StepReturns, TimeOut, RunUntil, Attach, IsrReturns, PulseEnds, clockVars
  <2> QED
    BY <1>1, <2>1
<1>10. CASE UNCHANGED simVars
  BY <1>1, <1>10 DEF simVars, clockVars
<1> QED
  BY <1>2, <1>5, <1>6, <1>7, <1>8, <1>9, <1>10 DEF SimNext

(* The event log is in the order of its timestamps, when callbacks advance *)
(* no further than the call that runs them.                                *)
THEOREM LogInTimeOrder == ~Overshoot => (SimSpec => []EventsInTimeOrder)
<1> SUFFICES ASSUME ~Overshoot PROVE SimSpec => []EventsInTimeOrder
  OBVIOUS
<1>1. SimInit => LogInv
  BY EmptySeq DEF SimInit, LogInv, EventsInTimeOrder
<1>2. TypeOK /\ TypeOK' /\ ClockInv /\ TargetsNested /\ LogInv /\ [SimNext]_simVars
        => LogInv'
  BY LogStep
<1>3. LogInv => EventsInTimeOrder
  BY DEF LogInv
<1>4. SimSpec => [](TypeOK /\ ClockInv) /\ []TargetsNested
  <2>1. SimSpec => Spec
    BY HarnessUsesClock
  <2>2. Spec => []TargetsNested
    BY NestedInTime
  <2> QED
    BY <2>1, <2>2, ClockInvariant, PTL
<1> QED
  BY <1>1, <1>2, <1>3, <1>4, PTL DEF SimSpec
=============================================================================
