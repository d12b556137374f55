---------------------------- MODULE HwTimerProofs ----------------------------
(***************************************************************************)
(* Theorems about the hardware timers, for any timers, dividers, alarms    *)
(* and nesting of ISRs: a timer has one alarm booked or none, its ISR is   *)
(* called when it asked for, and no timer call cancels what is not its own.*)
(***************************************************************************)
EXTENDS HwTimer, SeqLemmas

-----------------------------------------------------------------------------
(* The clock's operations, on the set of entries and on the stack.         *)

LEMMA Names ==
  /\ \A t, u \in Timers : /\ Alarm(t) = Alarm(u) => t = u
                          /\ Isr(t) = Isr(u) => t = u
                          /\ Alarm(t) # Isr(u)
  /\ \A t \in Timers : /\ Alarm(t) \in Callbacks /\ Isr(t) \in Callbacks
                       /\ Alarm(t) # Other /\ Isr(t) # Other
                       /\ Alarm(t) # None /\ Isr(t) # None
  /\ Other \in Callbacks /\ Other # None /\ None \notin Callbacks
BY DEF Alarm, Isr, Other, None, Callbacks

(* Every entry has a number of its own, below the next one.                *)
Handles ==
  /\ Distinct(schedule)
  /\ \A e \in ToSet(schedule) : e.h \in 1..(nextHandle - 1)

LEMMA EntriesOfSchedule ==
  ASSUME TypeOK
  PROVE  /\ now \in Nat /\ nextHandle \in Nat \ {0} /\ schedule \in Seq(Clock!Entries)
         /\ ToSet(schedule) \subseteq Clock!Entries
         /\ \A e \in Clock!Entries : e.at \in Nat /\ e.h \in Nat /\ e.cb \in Callbacks
<1>1. now \in Nat /\ nextHandle \in Nat \ {0} /\ schedule \in Seq(Clock!Entries)
  BY DEF TypeOK, Clock!TypeOK
<1>2. \A i \in DOMAIN schedule : schedule[i] \in Clock!Entries
  BY <1>1, ElementOfSeq, LenProperties
<1> QED
  BY <1>1, <1>2 DEF ToSet, Clock!Entries

LEMMA ScheduleEffect ==
  ASSUME TypeOK, Handles, NEW at \in Nat, NEW cb \in Callbacks, Clock!ScheduleAt(at, cb)
  PROVE  \E e \in Clock!Entries :
           /\ e.h = nextHandle /\ e.cb = cb /\ (now <= at => e.at = at)
           /\ schedule' \in Seq(Clock!Entries) /\ ToSet(schedule') = ToSet(schedule) \cup {e}
           /\ nextHandle' = nextHandle + 1 /\ now' = now
           /\ Handles'
<1> DEFINE e == [at |-> Clock!NotPast(at), h |-> nextHandle, cb |-> cb]
           n == nextHandle
<1>0. /\ now \in Nat /\ n \in Nat \ {0} /\ schedule \in Seq(Clock!Entries)
      /\ ToSet(schedule) \subseteq Clock!Entries
      /\ \A x \in Clock!Entries : x.h \in Nat
  BY EntriesOfSchedule
<1>1. Clock!NotPast(at) \in Nat /\ (now <= at => Clock!NotPast(at) = at)
  BY <1>0 DEF Clock!NotPast
<1>2. e \in Clock!Entries /\ e.h = n /\ e.cb = cb /\ (now <= at => e.at = at)
  BY <1>0, <1>1 DEF Clock!Entries
<1>3. PICK p \in 1..(Len(schedule) + 1) : schedule' = InsertAt(schedule, p, e)
  BY DEF Clock!ScheduleAt, Clock!InsertAt, InsertAt
<1>4. nextHandle' = n + 1 /\ now' = now
  BY DEF Clock!ScheduleAt
<1> HIDE DEF e, n
<1>5. Distinct(schedule) /\ \A x \in ToSet(schedule) : x.h \in 1..(n - 1)
  BY DEF Handles, n
<1>6. \A x \in ToSet(schedule) : x.h # e.h
  BY <1>0, <1>2, <1>5
<1>7. /\ schedule' \in Seq(Clock!Entries) /\ Distinct(schedule')
      /\ ToSet(schedule') = ToSet(schedule) \cup {e}
  BY <1>0, <1>2, <1>3, <1>5, <1>6, DistinctInsert
<1>8. Handles'
  <2>1. \A x \in ToSet(schedule') : x.h \in 1..((n + 1) - 1)
    BY <1>0, <1>2, <1>5, <1>7
  <2> QED
    BY <1>4, <1>7, <2>1 DEF Handles
<1> QED
  BY <1>2, <1>4, <1>7, <1>8 DEF n

LEMMA CancelEffect ==
  ASSUME TypeOK, Handles, NEW h, Clock!CancelHandle(h)
  PROVE  /\ schedule' \in Seq(Clock!Entries)
         /\ ToSet(schedule') = {e \in ToSet(schedule) : e.h # h}
         /\ nextHandle' = nextHandle /\ now' = now
         /\ Handles'
<1>0. schedule \in Seq(Clock!Entries) /\ DOMAIN schedule = 1..Len(schedule) /\ Distinct(schedule)
  BY EntriesOfSchedule, LenProperties DEF Handles
<1>1. CASE \A i \in DOMAIN schedule : schedule[i].h # h
  <2>1. UNCHANGED <<now, nextHandle, schedule>>
    BY <1>1 DEF Clock!CancelHandle
  <2>2. \A e \in ToSet(schedule) : e.h # h
    BY <1>1 DEF ToSet
  <2> QED
    BY <1>0, <2>1, <2>2 DEF Handles
<1>2. CASE ~ \A i \in DOMAIN schedule : schedule[i].h # h
  <2>1. PICK i \in DOMAIN schedule : schedule[i].h = h /\ schedule' = RemoveAt(schedule, i)
    BY <1>2 DEF Clock!CancelHandle, Clock!RemoveAt, RemoveAt
  <2>2. nextHandle' = nextHandle /\ now' = now
    BY <1>2 DEF Clock!CancelHandle
  <2>3. /\ schedule' \in Seq(Clock!Entries) /\ Distinct(schedule')
        /\ ToSet(schedule') = ToSet(schedule) \ {schedule[i]}
    BY <1>0, <2>1, DistinctRemove
  <2>4. \A e \in ToSet(schedule) : e.h = h => e = schedule[i]
    BY <1>0, <2>1 DEF Distinct, ToSet
  <2>5. ToSet(schedule') = {e \in ToSet(schedule) : e.h # h}
    BY <2>1, <2>3, <2>4
  <2> QED
    BY <2>2, <2>3, <2>5 DEF Handles
<1> QED
  BY <1>1, <1>2

LEMMA FireEffect ==
  ASSUME TypeOK, Handles, Clock!FireNext
  PROVE  /\ schedule # <<>> /\ Head(schedule) \in ToSet(schedule)
         /\ schedule' \in Seq(Clock!Entries)
         /\ ToSet(schedule') = ToSet(schedule) \ {Head(schedule)}
         /\ nextHandle' = nextHandle /\ now' = Head(schedule).at
         /\ Handles'
<1>1. /\ schedule # <<>> /\ schedule' = Tail(schedule) /\ nextHandle' = nextHandle
      /\ now' = Head(schedule).at
  BY DEF Clock!FireNext, Clock!Due
<1>2. schedule \in Seq(Clock!Entries) /\ Distinct(schedule)
  BY EntriesOfSchedule DEF Handles
<1>3. /\ schedule' \in Seq(Clock!Entries) /\ Distinct(schedule') /\ Head(schedule) \in ToSet(schedule)
      /\ ToSet(schedule') = ToSet(schedule) \ {Head(schedule)}
  BY <1>1, <1>2, DistinctTail
<1> QED
  BY <1>1, <1>3 DEF Handles

LEMMA TopOfStack ==
  ASSUME TypeOK, stack # <<>>
  PROVE  /\ stack \in Seq(Clock!Frames) /\ Len(stack) \in Nat \ {0}
         /\ DOMAIN stack = 1..Len(stack) /\ Len(stack) \in DOMAIN stack
         /\ Last(stack) = stack[Len(stack)] /\ Last(stack).target \in Nat
<1>1. stack \in Seq(Clock!Frames)
  BY DEF TypeOK, Clock!TypeOK
<1>2. Len(stack) \in Nat \ {0} /\ DOMAIN stack = 1..Len(stack)
  BY <1>1, EmptySeq, LenProperties
<1>3. Len(stack) \in DOMAIN stack /\ stack[Len(stack)] \in Clock!Frames
  BY <1>1, <1>2, ElementOfSeq
<1> QED
  BY <1>1, <1>2, <1>3 DEF Last, Clock!Frames

LEMMA SetTopEffect ==
  ASSUME TypeOK, stack # <<>>, NEW cb \in Callbacks \cup {None}, Clock!SetTop(cb)
  PROVE  /\ stack' \in Seq(Clock!Frames) /\ Len(stack') = Len(stack)
         /\ DOMAIN stack' = DOMAIN stack
         /\ stack'[Len(stack)].running = cb
         /\ \A i \in DOMAIN stack : i # Len(stack) => stack'[i] = stack[i]
<1> DEFINE l == Len(stack)
           f == [stack[l] EXCEPT !.running = cb]
<1>1. stack \in Seq(Clock!Frames) /\ DOMAIN stack = 1..l /\ l \in DOMAIN stack
  BY TopOfStack
<1>2. stack[l] \in Clock!Frames
  BY <1>1, ElementOfSeq
<1>3. f \in Clock!Frames /\ f.running = cb
  BY <1>2 DEF Clock!Frames
<1>4. stack' = [stack EXCEPT ![l] = f]
  BY <1>1 DEF Clock!SetTop
<1> HIDE DEF l, f
<1>5. /\ stack' \in Seq(Clock!Frames) /\ Len(stack') = Len(stack)
      /\ \A i \in 1..Len(stack) : stack'[i] = IF i = l THEN f ELSE stack[i]
  BY <1>1, <1>3, <1>4, ExceptSeq DEF l
<1> QED
  BY <1>1, <1>3, <1>5, LenProperties DEF l

LEMMA EnterEffect ==
  ASSUME TypeOK, NEW us \in Nat, Clock!EnterAdvance(us)
  PROVE  /\ stack' \in Seq(Clock!Frames) /\ Len(stack) \in Nat /\ DOMAIN stack = 1..Len(stack)
         /\ DOMAIN stack' = 1..(Len(stack) + 1) /\ Len(stack') = Len(stack) + 1
         /\ \A i \in DOMAIN stack : stack'[i] = stack[i]
         /\ stack'[Len(stack) + 1].running = None
         /\ UNCHANGED <<now, nextHandle, schedule>>
<1> DEFINE f == [target |-> now + us, running |-> None]
<1>1. stack \in Seq(Clock!Frames) /\ now \in Nat
  BY DEF TypeOK, Clock!TypeOK
<1>2. f \in Clock!Frames /\ f.running = None
  BY <1>1 DEF Clock!Frames
<1>3. stack' = Append(stack, f) /\ UNCHANGED <<now, nextHandle, schedule>>
  BY DEF Clock!EnterAdvance
<1> HIDE DEF f
<1>4. /\ stack' \in Seq(Clock!Frames) /\ Len(stack') = Len(stack) + 1
      /\ \A i \in 1..Len(stack) : stack'[i] = stack[i]
      /\ stack'[Len(stack) + 1] = f
  BY <1>1, <1>2, <1>3, AppendProperties
<1> QED
  BY <1>1, <1>2, <1>3, <1>4, LenProperties

LEMMA LeaveEffect ==
  ASSUME TypeOK, Clock!LeaveAdvance
  PROVE  /\ stack # <<>> /\ Last(stack).running = None
         /\ stack' \in Seq(Clock!Frames) /\ DOMAIN stack' = 1..(Len(stack) - 1)
         /\ Len(stack') = Len(stack) - 1
         /\ \A i \in DOMAIN stack' : i \in DOMAIN stack /\ stack'[i] = stack[i]
         /\ now' \in Nat /\ UNCHANGED <<nextHandle, schedule>>
<1>1. /\ stack # <<>> /\ Last(stack).running = None /\ stack' = Front(stack)
      /\ now' = Last(stack).target /\ UNCHANGED <<nextHandle, schedule>>
  BY DEF Clock!LeaveAdvance, Clock!InLoop, Clock!Last, Last, Clock!Front, Front
<1>2. stack \in Seq(Clock!Frames) /\ Len(stack) \in Nat \ {0} /\ DOMAIN stack = 1..Len(stack)
      /\ Last(stack).target \in Nat
  BY <1>1, TopOfStack
<1>3. /\ stack' \in Seq(Clock!Frames) /\ Len(stack') = Len(stack) - 1
      /\ \A i \in 1..(Len(stack) - 1) : stack'[i] = stack[i]
  BY <1>1, <1>2, FrontProperties
<1>4. DOMAIN stack' = 1..(Len(stack) - 1) /\ \A i \in 1..(Len(stack) - 1) : i \in DOMAIN stack
  BY <1>2, <1>3, LenProperties
<1> QED
  BY <1>1, <1>2, <1>3, <1>4

LEMMA TicksToUsType ==
  ASSUME NEW ticks \in Nat, NEW divider \in Nat
  PROVE  TicksToUs(ticks, divider) \in Nat
<1>1. ticks * divider \in Nat
  OBVIOUS
<1> DEFINE x == ticks * divider
<1> HIDE DEF x
<1>2. x \in Nat => x \div 80 \in Nat
  OBVIOUS
<1> QED
  BY <1>1, <1>2 DEF TicksToUs, x

TimerState == [divider : Nat \ {0}, isr : BOOLEAN, alarm : Nat, autoreload : BOOLEAN,
               enabled : BOOLEAN, handle : Nat]

(* What schedule_alarm does with the timer's entry in pool p.              *)
LEMMA ScheduleAlarmEffect ==
  ASSUME TypeOK, Handles, NEW t \in Timers, NEW p \in [Timers -> TimerState], ScheduleAlarm(t, p)
  PROVE  \E at \in Nat : \E e \in Clock!Entries :
           /\ e.h = nextHandle /\ e.cb = Alarm(t) /\ e.at = at
           /\ schedule' \in Seq(Clock!Entries) /\ ToSet(schedule') = ToSet(schedule) \cup {e}
           /\ nextHandle' = nextHandle + 1 /\ now' = now
           /\ Handles'
           /\ pool' = [p EXCEPT ![t].handle = nextHandle]
           /\ due' = [due EXCEPT ![t] = at]
<1> DEFINE at == now + TicksToUs(p[t].alarm, p[t].divider)
<1>1. TicksToUs(p[t].alarm, p[t].divider) \in Nat
  <2>1. p[t] \in TimerState
    OBVIOUS
  <2>2. p[t].alarm \in Nat /\ p[t].divider \in Nat
    BY <2>1 DEF TimerState
  <2> QED
    BY <2>2, TicksToUsType
<1>2. now \in Nat
  BY EntriesOfSchedule
<1>3. at \in Nat /\ now <= at
  BY <1>1, <1>2
<1>4. /\ Clock!ScheduleAt(at, Alarm(t)) /\ pool' = [p EXCEPT ![t].handle = nextHandle]
      /\ due' = [due EXCEPT ![t] = at]
  BY DEF ScheduleAlarm
<1>5. Alarm(t) \in Callbacks
  BY Names
<1> HIDE DEF at
<1> QED
  BY <1>3, <1>4, <1>5, ScheduleEffect, ZenonT(40)

LEMMA PoolTypes ==
  ASSUME TypeOK
  PROVE  /\ pool \in [Timers -> TimerState] /\ owned \in SUBSET Timers /\ due \in [Timers -> Nat]
         /\ \A t \in Timers : /\ pool[t].divider \in Nat \ {0} /\ pool[t].isr \in BOOLEAN
                              /\ pool[t].alarm \in Nat /\ pool[t].autoreload \in BOOLEAN
                              /\ pool[t].enabled \in BOOLEAN /\ pool[t].handle \in Nat
<1>1. pool \in [Timers -> TimerState] /\ owned \in SUBSET Timers /\ due \in [Timers -> Nat]
  BY DEF TypeOK, TimerState
<1>2. \A t \in Timers : pool[t] \in TimerState
  BY <1>1
<1> QED
  BY <1>1, <1>2 DEF TimerState

LEMMA FreshType ==
  ASSUME NEW divider \in Nat
  PROVE  LET f == [Fresh EXCEPT !.divider = DividerOr80(divider)]
         IN  f \in TimerState /\ f.handle = 0 /\ ~f.enabled
             /\ Fresh \in TimerState /\ Fresh.handle = 0 /\ ~Fresh.enabled
<1> DEFINE d == DividerOr80(divider)
<1>1. d \in Nat \ {0}
  BY DEF DividerOr80
<1> HIDE DEF d
<1>2. Fresh \in TimerState /\ Fresh.handle = 0 /\ ~Fresh.enabled
  BY DEF Fresh, TimerState
<1> DEFINE f == [Fresh EXCEPT !.divider = d]
<1>3. f \in TimerState
  <2>1. \A x \in TimerState : [x EXCEPT !.divider = d] \in TimerState
    BY <1>1 DEF TimerState
  <2> QED
    BY <1>2, <2>1
<1>4. f.handle = Fresh.handle /\ f.enabled = Fresh.enabled
  <2>1. \A x \in TimerState : /\ [x EXCEPT !.divider = d].handle = x.handle
                              /\ [x EXCEPT !.divider = d].enabled = x.enabled
    BY DEF TimerState
  <2> QED
    BY <1>2, <2>1
<1> QED
  BY <1>2, <1>3, <1>4 DEF d

LEMMA TypesListed ==
  ASSUME now' \in Nat, nextHandle' \in Nat \ {0}, schedule' \in Seq(Clock!Entries),
         stack' \in Seq(Clock!Frames), pool' \in [Timers -> TimerState],
         owned' \in SUBSET Timers, due' \in [Timers -> Nat]
  PROVE  TypeOK'
BY DEF TypeOK, Clock!TypeOK, TimerState, Clock!Entries, Clock!Frames

-----------------------------------------------------------------------------
(* The inductive invariant.  A timer that the sketch holds has its alarm   *)
(* booked under its handle, or its callback in one frame of the stack, or  *)
(* neither; and no older handle of a timer can name what others booked.    *)

Booked(t) == {e \in ToSet(schedule) : e.cb = Alarm(t)}
FramesOf(t) == {i \in DOMAIN stack : stack[i].running \in {Alarm(t), Isr(t)}}

OnlyAlarms ==
  \A e \in ToSet(schedule) : e.cb = Other \/ \E t \in Timers : e.cb = Alarm(t)

(* Only the innermost call is between taking an alarm and calling its ISR. *)
StartsOnTop ==
  \A i \in DOMAIN stack, t \in Timers :
    stack[i].running = Alarm(t) => i = Len(stack) /\ now = due[t]

OneFrame == \A t \in Timers : \A i, j \in FramesOf(t) : i = j

Armed(t) ==
  \E e \in ToSet(schedule) :
    Booked(t) = {e} /\ e.h = pool[t].handle /\ e.at = due[t]

Held(t) ==
  /\ pool[t].enabled /\ FramesOf(t) = {} => Armed(t)
  /\ ~pool[t].enabled \/ FramesOf(t) # {} => Booked(t) = {}
  /\ pool[t].handle < nextHandle
  /\ \A e \in ToSet(schedule) : e.h = pool[t].handle => e.cb = Alarm(t)

TimerOK(t) ==
  /\ t \in owned => Held(t)
  /\ t \notin owned => Booked(t) = {} /\ FramesOf(t) = {}

-----------------------------------------------------------------------------
(* Types, numbers and what is booked, step by step.                        *)

Basics == TypeOK /\ Handles /\ OnlyAlarms

LEMMA AddedAlarm ==
  ASSUME Basics, NEW t \in Timers, NEW p \in [Timers -> TimerState], ScheduleAlarm(t, p)
  PROVE  /\ now' \in Nat /\ nextHandle' \in Nat \ {0} /\ schedule' \in Seq(Clock!Entries)
         /\ pool' \in [Timers -> TimerState] /\ due' \in [Timers -> Nat]
         /\ Handles' /\ OnlyAlarms'
<1>1. now \in Nat /\ nextHandle \in Nat \ {0} /\ due \in [Timers -> Nat]
  BY EntriesOfSchedule, PoolTypes DEF Basics
<1>2. PICK at \in Nat, e \in Clock!Entries :
        /\ e.h = nextHandle /\ e.cb = Alarm(t) /\ e.at = at
        /\ schedule' \in Seq(Clock!Entries) /\ ToSet(schedule') = ToSet(schedule) \cup {e}
        /\ nextHandle' = nextHandle + 1 /\ now' = now
        /\ Handles'
        /\ pool' = [p EXCEPT ![t].handle = nextHandle]
        /\ due' = [due EXCEPT ![t] = at]
  BY ScheduleAlarmEffect DEF Basics
<1>3. OnlyAlarms'
  BY <1>2 DEF OnlyAlarms, Basics, Alarm
<1>4. pool' \in [Timers -> TimerState]
  <2>1. p[t] \in TimerState
    OBVIOUS
  <2>2. [p[t] EXCEPT !.handle = nextHandle] \in TimerState
    BY <1>1, <2>1 DEF TimerState
  <2> QED
    BY <1>2, <2>2
<1> QED
  BY <1>1, <1>2, <1>3, <1>4

LEMMA CancelledAlarm ==
  ASSUME Basics, NEW t \in Timers, CancelAlarm(t)
  PROVE  /\ now' = now /\ nextHandle' = nextHandle /\ schedule' \in Seq(Clock!Entries)
         /\ ToSet(schedule') = {e \in ToSet(schedule) : e.h # pool[t].handle}
         /\ Handles' /\ OnlyAlarms'
<1>1. CASE pool[t].handle # 0
  <2>1. Clock!CancelHandle(pool[t].handle)
    BY <1>1 DEF CancelAlarm
  <2>2. /\ now' = now /\ nextHandle' = nextHandle /\ schedule' \in Seq(Clock!Entries)
        /\ ToSet(schedule') = {e \in ToSet(schedule) : e.h # pool[t].handle}
        /\ Handles'
    BY <2>1, CancelEffect DEF Basics
  <2> QED
    BY <2>2 DEF OnlyAlarms, Basics, Alarm
<1>2. CASE pool[t].handle = 0
  <2>1. now' = now /\ nextHandle' = nextHandle /\ schedule' = schedule
    BY <1>2 DEF CancelAlarm
  <2>2. \A e \in ToSet(schedule) : e.h # 0
    BY EntriesOfSchedule DEF Basics, Handles
  <2>3. schedule' \in Seq(Clock!Entries) /\ Handles' /\ OnlyAlarms'
    BY <2>1, EntriesOfSchedule DEF Basics, Handles, OnlyAlarms, Alarm
  <2>4. ToSet(schedule') = {e \in ToSet(schedule) : e.h # pool[t].handle}
    BY <1>2, <2>1, <2>2
  <2> QED
    BY <2>1, <2>3, <2>4
<1> QED
  BY <1>1, <1>2

(* Every update that the calls make to a timer keeps its type.             *)
LEMMA PoolUpdates ==
  ASSUME TypeOK, NEW t \in Timers
  PROVE  /\ [pool EXCEPT ![t].enabled = TRUE] \in [Timers -> TimerState]
         /\ [pool EXCEPT ![t].enabled = FALSE] \in [Timers -> TimerState]
         /\ [pool EXCEPT ![t].enabled = FALSE, ![t].handle = 0] \in [Timers -> TimerState]
         /\ \A isr \in BOOLEAN : [pool EXCEPT ![t].isr = isr] \in [Timers -> TimerState]
         /\ \A ticks \in Nat, autoreload \in BOOLEAN :
              [pool EXCEPT ![t].alarm = ticks, ![t].autoreload = autoreload]
                \in [Timers -> TimerState]
         /\ \A x \in TimerState : [pool EXCEPT ![t] = x] \in [Timers -> TimerState]
<1>1. pool \in [Timers -> TimerState] /\ pool[t] \in TimerState
  BY PoolTypes
<1>2. /\ [pool[t] EXCEPT !.enabled = TRUE] \in TimerState
      /\ [pool[t] EXCEPT !.enabled = FALSE] \in TimerState
      /\ [pool[t] EXCEPT !.enabled = FALSE, !.handle = 0] \in TimerState
      /\ \A isr \in BOOLEAN : [pool[t] EXCEPT !.isr = isr] \in TimerState
      /\ \A ticks \in Nat, autoreload \in BOOLEAN :
           [pool[t] EXCEPT !.alarm = ticks, !.autoreload = autoreload] \in TimerState
  BY <1>1 DEF TimerState
<1>3. [pool EXCEPT ![t].enabled = FALSE, ![t].handle = 0] \in [Timers -> TimerState]
  BY <1>1, <1>2
<1>4. \A ticks \in Nat, autoreload \in BOOLEAN :
        [pool EXCEPT ![t].alarm = ticks, ![t].autoreload = autoreload] \in [Timers -> TimerState]
  BY <1>1, <1>2
<1> QED
  BY <1>1, <1>2, <1>3, <1>4

(* The calls of the sketch on one timer.                                   *)
Call(t) ==
  \/ \E divider \in Dividers : Begin(t, divider)
  \/ End(t)
  \/ \E isr \in BOOLEAN : Attach(t, isr)
  \/ \E ticks \in Ticks, autoreload \in BOOLEAN : AlarmWrite(t, ticks, autoreload)
  \/ AlarmEnable(t)
  \/ AlarmDisable(t)

LEMMA CallKeepsBasics ==
  ASSUME Basics, NEW t \in Timers, Call(t)
  PROVE  Basics'
<1>0. /\ now \in Nat /\ nextHandle \in Nat \ {0} /\ schedule \in Seq(Clock!Entries)
      /\ stack \in Seq(Clock!Frames) /\ pool \in [Timers -> TimerState] /\ owned \in SUBSET Timers
      /\ due \in [Timers -> Nat] /\ TypeOK
  BY EntriesOfSchedule, PoolTypes DEF Basics, TypeOK, Clock!TypeOK
<1>1. ASSUME UNCHANGED <<now, nextHandle, schedule>> PROVE Handles' /\ OnlyAlarms'
  BY <1>1 DEF Basics, Handles, OnlyAlarms, Alarm
<1>2. CASE \E divider \in Dividers : Begin(t, divider)
  <2>1. PICK divider \in Dividers : Begin(t, divider)
    BY <1>2
  <2>2. divider \in Nat
    BY TimerAssumption
  <2>3. /\ pool' = [pool EXCEPT ![t] = [Fresh EXCEPT !.divider = DividerOr80(divider)]]
        /\ owned' = owned \cup {t}
        /\ UNCHANGED <<now, nextHandle, schedule, stack, due>>
    BY <2>1 DEF Begin, clockVars
  <2>4. [Fresh EXCEPT !.divider = DividerOr80(divider)] \in TimerState
    BY <2>2, FreshType
  <2>5. pool' \in [Timers -> TimerState] /\ owned' \in SUBSET Timers
    BY <1>0, <2>3, <2>4, PoolUpdates
  <2>6. TypeOK'
    BY <1>0, <2>3, <2>5, TypesListed
  <2> QED
    BY <1>1, <2>3, <2>6 DEF Basics
<1>3. CASE End(t)
  <2>1. CancelAlarm(t) /\ pool' = [pool EXCEPT ![t] = Fresh] /\ UNCHANGED <<stack, owned, due>>
    BY <1>3 DEF End
  <2>2. Fresh \in TimerState
    BY FreshType
  <2>3. pool' \in [Timers -> TimerState]
    BY <1>0, <2>1, <2>2, PoolUpdates
  <2>4. /\ now' = now /\ nextHandle' = nextHandle /\ schedule' \in Seq(Clock!Entries)
        /\ Handles' /\ OnlyAlarms'
    BY <2>1, CancelledAlarm
  <2> QED
    BY <1>0, <2>1, <2>3, <2>4, TypesListed DEF Basics
<1>4. CASE \E isr \in BOOLEAN : Attach(t, isr)
  <2>1. PICK isr \in BOOLEAN : Attach(t, isr)
    BY <1>4
  <2>2. /\ pool' = [pool EXCEPT ![t].isr = isr]
        /\ UNCHANGED <<now, nextHandle, schedule, stack, owned, due>>
    BY <2>1 DEF Attach, clockVars
  <2>3. pool' \in [Timers -> TimerState]
    BY <1>0, <2>2, PoolUpdates
  <2> QED
    BY <1>0, <1>1, <2>2, <2>3, TypesListed DEF Basics
<1>5. CASE \E ticks \in Ticks, autoreload \in BOOLEAN : AlarmWrite(t, ticks, autoreload)
  <2>1. PICK ticks \in Ticks, autoreload \in BOOLEAN : AlarmWrite(t, ticks, autoreload)
    BY <1>5
  <2>2. /\ pool' = [pool EXCEPT ![t].alarm = ticks, ![t].autoreload = autoreload]
        /\ UNCHANGED <<now, nextHandle, schedule, stack, owned, due>>
    BY <2>1 DEF AlarmWrite, clockVars
  <2>3. ticks \in Nat
    BY TimerAssumption
  <2>4. pool' \in [Timers -> TimerState]
    BY <1>0, <2>2, <2>3, PoolUpdates
  <2> QED
    BY <1>0, <1>1, <2>2, <2>4, TypesListed DEF Basics
<1>6. CASE AlarmEnable(t)
  <2>1. ScheduleAlarm(t, [pool EXCEPT ![t].enabled = TRUE]) /\ UNCHANGED <<stack, owned>>
    BY <1>6 DEF AlarmEnable
  <2>2. [pool EXCEPT ![t].enabled = TRUE] \in [Timers -> TimerState]
    BY <1>0, PoolUpdates
  <2>3. /\ now' \in Nat /\ nextHandle' \in Nat \ {0} /\ schedule' \in Seq(Clock!Entries)
        /\ pool' \in [Timers -> TimerState] /\ due' \in [Timers -> Nat]
        /\ Handles' /\ OnlyAlarms'
    BY <2>1, <2>2, AddedAlarm
  <2> QED
    BY <1>0, <2>1, <2>3, TypesListed DEF Basics
<1>7. CASE AlarmDisable(t)
  <2>1. /\ CancelAlarm(t) /\ UNCHANGED <<stack, owned, due>>
        /\ pool' = [pool EXCEPT ![t].enabled = FALSE, ![t].handle = 0]
    BY <1>7 DEF AlarmDisable
  <2>2. pool' \in [Timers -> TimerState]
    BY <1>0, <2>1, PoolUpdates
  <2>3. /\ now' = now /\ nextHandle' = nextHandle /\ schedule' \in Seq(Clock!Entries)
        /\ Handles' /\ OnlyAlarms'
    BY <2>1, CancelledAlarm
  <2> QED
    BY <1>0, <2>1, <2>2, <2>3, TypesListed DEF Basics
<1> QED
  BY <1>2, <1>3, <1>4, <1>5, <1>6, <1>7 DEF Call

(* The steps that the clock and the callbacks take.                        *)
LEMMA AlarmKeepsBasics ==
  ASSUME Basics, NEW t \in Timers, CallIsr(t) \/ AlarmEnds(t)
  PROVE  Basics'
<1>0. /\ now \in Nat /\ nextHandle \in Nat \ {0} /\ schedule \in Seq(Clock!Entries)
      /\ stack \in Seq(Clock!Frames) /\ pool \in [Timers -> TimerState] /\ owned \in SUBSET Timers
      /\ due \in [Timers -> Nat] /\ TypeOK
  BY EntriesOfSchedule, PoolTypes DEF Basics, TypeOK, Clock!TypeOK
<1>1. ASSUME UNCHANGED <<now, nextHandle, schedule>> PROVE Handles' /\ OnlyAlarms'
  BY <1>1 DEF Basics, Handles, OnlyAlarms, Alarm
<1>2. Isr(t) \in Callbacks \cup {None} /\ None \in Callbacks \cup {None}
  BY Names
<1>3. CASE CallIsr(t)
  <2>1. /\ stack # <<>> /\ Clock!SetTop(Isr(t))
        /\ UNCHANGED <<now, nextHandle, schedule, pool, owned, due>>
    BY <1>3 DEF CallIsr, AlarmStarts
  <2>2. stack' \in Seq(Clock!Frames)
    BY <1>0, <1>2, <2>1, SetTopEffect
  <2> QED
    BY <1>0, <1>1, <2>1, <2>2, TypesListed DEF Basics
<1>4. CASE AlarmEnds(t)
  <2>1. stack # <<>> /\ Rearm(t) /\ Clock!SetTop(None) /\ owned' = owned
    BY <1>4 DEF AlarmEnds, AlarmStarts
  <2>2. stack' \in Seq(Clock!Frames)
    BY <1>0, <1>2, <2>1, SetTopEffect
  <2>3. /\ now' \in Nat /\ nextHandle' \in Nat \ {0} /\ schedule' \in Seq(Clock!Entries)
        /\ pool' \in [Timers -> TimerState] /\ due' \in [Timers -> Nat]
        /\ Handles' /\ OnlyAlarms'
    <3>1. CASE ScheduleAlarm(t, pool)
      BY <1>0, <3>1, AddedAlarm
    <3>2. CASE /\ pool' = [pool EXCEPT ![t].enabled = FALSE]
               /\ UNCHANGED <<now, nextHandle, schedule, due>>
      <4>1. pool' \in [Timers -> TimerState]
        BY <1>0, <3>2, PoolUpdates
      <4> QED
        BY <1>0, <1>1, <3>2, <4>1
    <3>3. CASE UNCHANGED <<now, nextHandle, schedule, pool, due>>
      BY <1>0, <1>1, <3>3
    <3> QED
      BY <2>1, <3>1, <3>2, <3>3 DEF Rearm
  <2> QED
    BY <1>0, <2>1, <2>2, <2>3, TypesListed DEF Basics
<1> QED
  BY <1>3, <1>4

LEMMA ClockKeepsBasics ==
  ASSUME Basics,
         \/ \E at \in 0..MaxTime : ScheduleOther(at)
         \/ \E us \in Delays : Advance(us)
         \/ OtherReturns
         \/ FireNext
         \/ LeaveAdvance
         \/ Reset
  PROVE  Basics'
<1>0. /\ now \in Nat /\ nextHandle \in Nat \ {0} /\ schedule \in Seq(Clock!Entries)
      /\ stack \in Seq(Clock!Frames) /\ pool \in [Timers -> TimerState] /\ owned \in SUBSET Timers
      /\ due \in [Timers -> Nat] /\ TypeOK /\ Handles
  BY EntriesOfSchedule, PoolTypes DEF Basics, TypeOK, Clock!TypeOK
<1>1. ASSUME UNCHANGED <<nextHandle, schedule>> PROVE Handles' /\ OnlyAlarms'
  BY <1>1 DEF Basics, Handles, OnlyAlarms, Alarm
<1>2. None \in Callbacks \cup {None}
  BY Names
<1>3. CASE \E at \in 0..MaxTime : ScheduleOther(at)
  <2>1. PICK at \in 0..MaxTime : ScheduleOther(at)
    BY <1>3
  <2>2. Clock!ScheduleAt(at, Other) /\ UNCHANGED <<stack, pool, owned, due>>
    BY <2>1 DEF ScheduleOther
  <2>3. at \in Nat /\ Other \in Callbacks
    BY Names, TimerAssumption
  <2>4. PICK e \in Clock!Entries :
          /\ e.h = nextHandle /\ e.cb = Other
          /\ schedule' \in Seq(Clock!Entries) /\ ToSet(schedule') = ToSet(schedule) \cup {e}
          /\ nextHandle' = nextHandle + 1 /\ now' = now
          /\ Handles'
    BY <1>0, <2>2, <2>3, ScheduleEffect
  <2>5. OnlyAlarms'
    BY <2>4 DEF OnlyAlarms, Basics, Alarm, Other
  <2>6. nextHandle' \in Nat \ {0}
    BY <1>0, <2>4
  <2> QED
    BY <1>0, <2>2, <2>4, <2>5, <2>6, TypesListed DEF Basics
<1>4. CASE \E us \in Delays : Advance(us)
  <2>1. PICK us \in Delays : Advance(us)
    BY <1>4
  <2>2. us \in Nat /\ Clock!EnterAdvance(us) /\ UNCHANGED <<pool, owned, due>>
    BY <2>1, TimerAssumption DEF Advance
  <2>3. stack' \in Seq(Clock!Frames) /\ UNCHANGED <<now, nextHandle, schedule>>
    BY <1>0, <2>2, EnterEffect
  <2> QED
    BY <1>0, <1>1, <2>2, <2>3, TypesListed DEF Basics
<1>5. CASE OtherReturns
  <2>1. /\ stack # <<>> /\ Clock!SetTop(None)
        /\ UNCHANGED <<now, nextHandle, schedule, pool, owned, due>>
    BY <1>5 DEF OtherReturns
  <2>2. stack' \in Seq(Clock!Frames)
    BY <1>0, <1>2, <2>1, SetTopEffect
  <2> QED
    BY <1>0, <1>1, <2>1, <2>2, TypesListed DEF Basics
<1>6. CASE FireNext
  <2>1. Clock!FireNext /\ UNCHANGED <<pool, owned, due>>
    BY <1>6 DEF FireNext
  <2>2. /\ Head(schedule) \in ToSet(schedule) /\ schedule' \in Seq(Clock!Entries)
        /\ ToSet(schedule') = ToSet(schedule) \ {Head(schedule)}
        /\ nextHandle' = nextHandle /\ now' = Head(schedule).at
        /\ Handles'
    BY <1>0, <2>1, FireEffect
  <2>3. Head(schedule).at \in Nat /\ Head(schedule).cb \in Callbacks
    BY <1>0, <2>2, EntriesOfSchedule
  <2>4. stack # <<>> /\ Clock!SetTop(Head(schedule).cb)
    BY <2>1 DEF Clock!FireNext, Clock!InLoop
  <2>5. stack' \in Seq(Clock!Frames)
    BY <1>0, <2>3, <2>4, SetTopEffect
  <2>6. OnlyAlarms'
    BY <2>2 DEF OnlyAlarms, Basics, Alarm
  <2> QED
    BY <1>0, <2>1, <2>2, <2>3, <2>5, <2>6, TypesListed DEF Basics
<1>7. CASE LeaveAdvance
  <2>1. Clock!LeaveAdvance /\ UNCHANGED <<pool, owned, due>>
    BY <1>7 DEF LeaveAdvance
  <2>2. now' \in Nat /\ stack' \in Seq(Clock!Frames) /\ UNCHANGED <<nextHandle, schedule>>
    BY <1>0, <2>1, LeaveEffect
  <2> QED
    BY <1>0, <1>1, <2>1, <2>2, TypesListed DEF Basics
<1>8. CASE Reset
  <2>1. /\ now' = 0 /\ nextHandle' = 1 /\ schedule' = <<>> /\ stack' = stack
        /\ owned' \in {owned, {}} /\ UNCHANGED <<pool, due>>
    BY <1>8 DEF Reset, Clock!Reset, Clock!ResetClock
  <2>2. schedule' \in Seq(Clock!Entries) /\ owned' \in SUBSET Timers
    BY <1>0, <2>1, EmptySeq
  <2>3. Handles' /\ OnlyAlarms'
    BY <2>1 DEF Handles, Distinct, OnlyAlarms, ToSet
  <2> QED
    BY <1>0, <2>1, <2>2, <2>3, TypesListed DEF Basics
<1> QED
  BY <1>3, <1>4, <1>5, <1>6, <1>7, <1>8

LEMMA BasicsKept ==
  ASSUME Basics, [Next]_vars
  PROVE  Basics'
<1>1. CASE \E t \in Timers : Call(t) \/ CallIsr(t) \/ AlarmEnds(t)
  BY <1>1, CallKeepsBasics, AlarmKeepsBasics
<1>2. CASE \/ \E at \in 0..MaxTime : ScheduleOther(at)
           \/ \E us \in Delays : Advance(us)
           \/ OtherReturns \/ FireNext \/ LeaveAdvance \/ Reset
  BY <1>2, ClockKeepsBasics
<1>3. CASE UNCHANGED vars
  <2>1. UNCHANGED <<now, nextHandle, schedule, stack, pool, owned, due>>
    BY <1>3 DEF vars, clockVars
  <2>2. /\ now \in Nat /\ nextHandle \in Nat \ {0} /\ schedule \in Seq(Clock!Entries)
        /\ stack \in Seq(Clock!Frames) /\ pool \in [Timers -> TimerState]
        /\ owned \in SUBSET Timers /\ due \in [Timers -> Nat]
    BY EntriesOfSchedule, PoolTypes DEF Basics, TypeOK, Clock!TypeOK
  <2>3. TypeOK'
    BY <2>1, <2>2, TypesListed
  <2>4. Handles' /\ OnlyAlarms'
    BY <2>1 DEF Basics, Handles, OnlyAlarms, Alarm
  <2> QED
    BY <2>3, <2>4 DEF Basics
<1> QED
  BY <1>1, <1>2, <1>3 DEF Next, Call

-----------------------------------------------------------------------------
(* The stack: what a step does to the frames that run a timer's callback.  *)

(* No frame is between taking an alarm and calling the ISR while sketch    *)
(* code runs.                                                              *)
LEMMA SketchRuns ==
  ASSUME Basics, StartsOnTop, InSketch
  PROVE  \A i \in DOMAIN stack, t \in Timers : stack[i].running # Alarm(t)
<1> SUFFICES ASSUME NEW i \in DOMAIN stack, NEW t \in Timers, stack[i].running = Alarm(t)
             PROVE  FALSE
  OBVIOUS
<1>1. i = Len(stack)
  BY DEF StartsOnTop
<1>2. stack # <<>>
  OBVIOUS
<1>3. Last(stack).running = Alarm(t)
  BY <1>1, <1>2, TopOfStack DEF Basics
<1> QED
  BY <1>2, <1>3 DEF InSketch

LEMMA StackAlone ==
  ASSUME Basics, StartsOnTop, OneFrame, InSketch, stack' = stack
  PROVE  StartsOnTop' /\ OneFrame' /\ \A t \in Timers : FramesOf(t)' = FramesOf(t)
<1>1. \A i \in DOMAIN stack, t \in Timers : stack[i].running # Alarm(t)
  BY SketchRuns
<1>2. StartsOnTop'
  BY <1>1 DEF StartsOnTop, Alarm
<1>3. \A t \in Timers : FramesOf(t)' = FramesOf(t)
  BY DEF FramesOf, Alarm, Isr
<1>4. OneFrame'
  BY <1>3 DEF OneFrame
<1> QED
  BY <1>2, <1>3, <1>4

(* A step that leaves a timer's state, alarm and frames as they are.       *)
LEMMA Untouched ==
  ASSUME Basics, NEW t \in Timers, TimerOK(t),
         pool'[t].enabled = pool[t].enabled, pool'[t].handle = pool[t].handle,
         due'[t] = due[t], t \in owned' <=> t \in owned,
         nextHandle' \in Nat, nextHandle <= nextHandle',
         Booked(t)' = Booked(t), FramesOf(t)' = {} <=> FramesOf(t) = {},
         \A e \in ToSet(schedule') : e \in ToSet(schedule) \/ e.h >= nextHandle
  PROVE  TimerOK(t)'
<1>0. nextHandle \in Nat /\ pool[t].handle \in Nat
  BY EntriesOfSchedule, PoolTypes DEF Basics
<1>1. CASE t \notin owned
  BY <1>1 DEF TimerOK
<1>2. CASE t \in owned
  <2>1. Held(t)
    BY <1>2 DEF TimerOK
  <2>2. Armed(t) => Armed(t)'
    <3> SUFFICES ASSUME Armed(t) PROVE Armed(t)'
      OBVIOUS
    <3>1. PICK e \in ToSet(schedule) :
            Booked(t) = {e} /\ e.h = pool[t].handle /\ e.at = due[t]
      BY DEF Armed
    <3>2. e \in ToSet(schedule')
      <4>1. e \in Booked(t)'
        BY <3>1
      <4> QED
        BY <4>1 DEF Booked
    <3> QED
      BY <3>1, <3>2 DEF Armed
  <2>3. pool'[t].handle < nextHandle'
    BY <1>0, <2>1 DEF Held
  <2>4. \A e \in ToSet(schedule') : e.h = pool'[t].handle => e.cb = Alarm(t)
    <3> SUFFICES ASSUME NEW e \in ToSet(schedule'), e.h = pool'[t].handle PROVE e.cb = Alarm(t)
      OBVIOUS
    <3>1. e.h = pool[t].handle /\ pool[t].handle < nextHandle
      BY <2>1 DEF Held
    <3>2. ~(e.h >= nextHandle)
      BY <1>0, <3>1
    <3>3. e \in ToSet(schedule)
      BY <3>2
    <3> QED
      BY <2>1, <3>1, <3>3 DEF Held
  <2>5. Held(t)'
    BY <2>1, <2>2, <2>3, <2>4 DEF Held, Alarm
  <2> QED
    BY <1>2, <2>5 DEF TimerOK
<1> QED
  BY <1>1, <1>2

-----------------------------------------------------------------------------
(* The timers, step by step.                                               *)

IInv ==
  /\ Basics
  /\ StartsOnTop
  /\ OneFrame
  /\ \A t \in Timers : TimerOK(t)

(* An alarm is booked for a timer that has none and no callback running.   *)
LEMMA BooksOne ==
  ASSUME IInv, NEW t \in Timers, NEW p \in [Timers -> TimerState], ScheduleAlarm(t, p),
         p[t].enabled, \A u \in Timers \ {t} : p[u] = pool[u],
         t \in owned, Booked(t) = {}, owned' = owned, FramesOf(t)' = {},
         \A u \in Timers \ {t} : FramesOf(u)' = {} <=> FramesOf(u) = {}
  PROVE  \A u \in Timers : TimerOK(u)'
<1>0. /\ Basics /\ TypeOK /\ Handles /\ nextHandle \in Nat \ {0} /\ due \in [Timers -> Nat]
      /\ \A x \in ToSet(schedule) : x.h \in 1..(nextHandle - 1)
  BY EntriesOfSchedule, PoolTypes DEF IInv, Basics, Handles
<1>1. PICK at \in Nat, e \in Clock!Entries :
        /\ e.h = nextHandle /\ e.cb = Alarm(t) /\ e.at = at
        /\ schedule' \in Seq(Clock!Entries) /\ ToSet(schedule') = ToSet(schedule) \cup {e}
        /\ nextHandle' = nextHandle + 1 /\ now' = now
        /\ Handles'
        /\ pool' = [p EXCEPT ![t].handle = nextHandle]
        /\ due' = [due EXCEPT ![t] = at]
  BY <1>0, ScheduleAlarmEffect
<1>2. ASSUME NEW u \in Timers, u # t PROVE TimerOK(u)'
  <2>1. TimerOK(u)
    BY DEF IInv
  <2>2. e.cb # Alarm(u)
    BY <1>1, <1>2, Names
  <2>3. Booked(u)' = Booked(u)
    BY <1>1, <2>2 DEF Booked, Alarm
  <2>4. pool'[u] = pool[u] /\ due'[u] = due[u]
    BY <1>0, <1>1, <1>2
  <2>5. nextHandle' \in Nat /\ nextHandle <= nextHandle' /\ e.h >= nextHandle
    BY <1>0, <1>1
  <2>6. \A x \in ToSet(schedule') : x \in ToSet(schedule) \/ x.h >= nextHandle
    BY <1>1, <2>5
  <2> QED
    BY <1>0, <1>2, <2>1, <2>3, <2>4, <2>5, <2>6, Untouched
<1>3. TimerOK(t)'
  <2>0. p[t] \in TimerState
    OBVIOUS
  <2>1. pool'[t].handle = nextHandle /\ pool'[t].enabled = p[t].enabled /\ due'[t] = at
    BY <1>0, <1>1, <2>0 DEF TimerState
  <2>2. Booked(t)' = {e}
    BY <1>1 DEF Booked, Alarm
  <2>3. e \in ToSet(schedule')
    BY <1>1
  <2>4. Armed(t)'
    BY <1>1, <2>1, <2>2, <2>3 DEF Armed
  <2>5. pool'[t].handle < nextHandle'
    BY <1>0, <1>1, <2>1
  <2>6. \A x \in ToSet(schedule) : x.h # nextHandle
    BY <1>0
  <2>7. \A x \in ToSet(schedule') : x.h = pool'[t].handle => x.cb = Alarm(t)
    BY <1>1, <2>1, <2>6
  <2>8. Held(t)'
    BY <2>1, <2>4, <2>5, <2>7 DEF Held, Alarm
  <2> QED
    BY <2>8 DEF TimerOK
<1> QED
  BY <1>2, <1>3

(* A stop removes what is booked for the timer, and nothing else.          *)
LEMMA StopsOne ==
  ASSUME IInv, NEW t \in Timers, CancelAlarm(t), t \in owned,
         pool' \in [Timers -> TimerState], ~pool'[t].enabled, pool'[t].handle = 0,
         \A u \in Timers \ {t} : pool'[u] = pool[u],
         UNCHANGED <<stack, owned, due>>
  PROVE  \A u \in Timers : TimerOK(u)'
<1>0. /\ Basics /\ nextHandle \in Nat \ {0}
      /\ \A x \in ToSet(schedule) : x.h \in 1..(nextHandle - 1)
  BY EntriesOfSchedule DEF IInv, Basics, Handles
<1>1. /\ now' = now /\ nextHandle' = nextHandle
      /\ ToSet(schedule') = {e \in ToSet(schedule) : e.h # pool[t].handle}
  BY <1>0, CancelledAlarm
<1>2. Held(t)
  BY DEF IInv, TimerOK
<1>3. \A u \in Timers : FramesOf(u)' = FramesOf(u)
  BY DEF FramesOf, Alarm, Isr
<1>4. ASSUME NEW u \in Timers, u # t PROVE TimerOK(u)'
  <2>1. TimerOK(u)
    BY DEF IInv
  <2>2. \A e \in Booked(u) : e.h # pool[t].handle
    <3> SUFFICES ASSUME NEW e \in Booked(u), e.h = pool[t].handle PROVE FALSE
      OBVIOUS
    <3>1. e \in ToSet(schedule) /\ e.cb = Alarm(u)
      BY DEF Booked
    <3>2. e.cb = Alarm(t)
      BY <1>2, <3>1 DEF Held
    <3> QED
      BY <1>4, <3>1, <3>2, Names
  <2>3. Booked(u)' = Booked(u)
    BY <1>1, <2>2 DEF Booked, Alarm
  <2>4. nextHandle' \in Nat /\ nextHandle <= nextHandle' /\ pool'[u] = pool[u]
        /\ due'[u] = due[u] /\ (u \in owned' <=> u \in owned)
    BY <1>0, <1>1, <1>4
  <2>5. \A x \in ToSet(schedule') : x \in ToSet(schedule)
    BY <1>1
  <2> QED
    BY <1>0, <1>3, <2>1, <2>3, <2>4, <2>5, Untouched
<1>5. TimerOK(t)'
  <2>1. Booked(t)' = {}
    <3>1. \A e \in Booked(t) : e.h = pool[t].handle
      <4>1. CASE Booked(t) = {}
        BY <4>1
      <4>2. CASE Booked(t) # {}
        <5>1. Armed(t)
          BY <1>2, <4>2, PoolTypes DEF Held, IInv, Basics
        <5> QED
          BY <5>1 DEF Armed
      <4> QED
        BY <4>1, <4>2
    <3> QED
      BY <1>1, <3>1 DEF Booked, Alarm
  <2>2. pool'[t].handle < nextHandle'
    BY <1>0, <1>1
  <2>3. \A x \in ToSet(schedule') : x.h # 0
    BY <1>0, <1>1
  <2>4. Held(t)'
    BY <2>1, <2>2, <2>3 DEF Held, Alarm
  <2> QED
    BY <2>4 DEF TimerOK
<1> QED
  BY <1>4, <1>5

(* Nothing of the clock changes, and the timers keep `enabled` and handle. *)
LEMMA SettingsOnly ==
  ASSUME IInv, UNCHANGED <<nextHandle, schedule, owned, due>>,
         \A u \in Timers : /\ pool'[u].enabled = pool[u].enabled
                           /\ pool'[u].handle = pool[u].handle
                           /\ FramesOf(u)' = {} <=> FramesOf(u) = {}
  PROVE  \A u \in Timers : TimerOK(u)'
<1> SUFFICES ASSUME NEW u \in Timers PROVE TimerOK(u)'
  OBVIOUS
<1>1. Basics /\ TimerOK(u) /\ nextHandle \in Nat
  BY EntriesOfSchedule DEF IInv, Basics
<1>2. nextHandle' \in Nat /\ nextHandle <= nextHandle'
  BY <1>1
<1>3. Booked(u)' = Booked(u)
  BY DEF Booked, Alarm
<1> QED
  BY <1>1, <1>2, <1>3, Untouched

LEMMA CallKeepsTimers ==
  ASSUME IInv, Liberties = {}, NEW t \in Timers, Call(t)
  PROVE  StartsOnTop' /\ OneFrame' /\ \A u \in Timers : TimerOK(u)'
<1>0. /\ Basics /\ TypeOK /\ StartsOnTop /\ OneFrame /\ TimerOK(t) /\ nextHandle \in Nat \ {0}
      /\ pool \in [Timers -> TimerState] /\ pool[t] \in TimerState
      /\ \A x \in ToSet(schedule) : x.h \in 1..(nextHandle - 1)
  BY EntriesOfSchedule, PoolTypes DEF IInv, Basics, Handles
<1>1. InSketch /\ stack' = stack
  BY DEF Call, Begin, End, Attach, AlarmWrite, AlarmEnable, AlarmDisable, clockVars
<1>2. StartsOnTop' /\ OneFrame' /\ \A u \in Timers : FramesOf(u)' = FramesOf(u)
  BY <1>0, <1>1, StackAlone
<1>3. ASSUME NEW divider \in Dividers, Begin(t, divider) PROVE \A u \in Timers : TimerOK(u)'
  <2> DEFINE x == [Fresh EXCEPT !.divider = DividerOr80(divider)]
  <2>1. /\ Pending(t) = {} /\ pool' = [pool EXCEPT ![t] = x] /\ owned' = owned \cup {t}
        /\ UNCHANGED <<now, nextHandle, schedule, due>>
    BY <1>3 DEF Begin, clockVars
  <2>2. x.handle = 0 /\ ~x.enabled
    BY TimerAssumption, FreshType
  <2> HIDE DEF x
  <2>3. pool'[t] = x /\ \A u \in Timers \ {t} : pool'[u] = pool[u]
    BY <1>0, <2>1
  <2>4. Booked(t) = {}
    BY <2>1 DEF Booked, Pending, ToSet
  <2>5. \A u \in Timers : Booked(u)' = Booked(u)
    BY <2>1 DEF Booked, Alarm
  <2>6. ASSUME NEW u \in Timers, u # t PROVE TimerOK(u)'
    <3>1. TimerOK(u)
      BY DEF IInv
    <3>2. nextHandle' \in Nat /\ nextHandle <= nextHandle' /\ (u \in owned' <=> u \in owned)
      BY <1>0, <2>1, <2>6
    <3> QED
      BY <1>0, <1>2, <2>1, <2>3, <2>5, <2>6, <3>1, <3>2, Untouched
  <2>7. TimerOK(t)'
    <3>1. Booked(t)' = {}
      BY <2>4, <2>5
    <3>2. pool'[t].handle < nextHandle' /\ \A e \in ToSet(schedule') : e.h # 0
      BY <1>0, <2>1, <2>2, <2>3
    <3>3. Held(t)'
      BY <2>2, <2>3, <3>1, <3>2 DEF Held, Alarm
    <3> QED
      BY <2>1, <3>3 DEF TimerOK
  <2> QED
    BY <2>6, <2>7
<1>4. ASSUME End(t) PROVE \A u \in Timers : TimerOK(u)'
  <2>1. /\ t \in owned /\ CancelAlarm(t) /\ pool' = [pool EXCEPT ![t] = Fresh]
        /\ UNCHANGED <<stack, owned, due>>
    BY <1>4 DEF End
  <2>2. Fresh \in TimerState /\ Fresh.handle = 0 /\ ~Fresh.enabled
    BY FreshType
  <2>3. /\ pool' \in [Timers -> TimerState] /\ pool'[t] = Fresh
        /\ \A u \in Timers \ {t} : pool'[u] = pool[u]
    BY <1>0, <2>1, <2>2
  <2> QED
    BY <2>1, <2>2, <2>3, StopsOne
<1>5. ASSUME NEW isr \in BOOLEAN, Attach(t, isr) PROVE \A u \in Timers : TimerOK(u)'
  <2>1. pool' = [pool EXCEPT ![t].isr = isr] /\ UNCHANGED <<nextHandle, schedule, owned, due>>
    BY <1>5 DEF Attach, clockVars
  <2>2. \A u \in Timers : pool'[u].enabled = pool[u].enabled /\ pool'[u].handle = pool[u].handle
    BY <1>0, <2>1 DEF TimerState
  <2> QED
    BY <1>2, <2>1, <2>2, SettingsOnly
<1>6. ASSUME NEW ticks \in Ticks, NEW autoreload \in BOOLEAN, AlarmWrite(t, ticks, autoreload)
      PROVE  \A u \in Timers : TimerOK(u)'
  <2>1. /\ pool' = [pool EXCEPT ![t].alarm = ticks, ![t].autoreload = autoreload]
        /\ UNCHANGED <<nextHandle, schedule, owned, due>>
    BY <1>6 DEF AlarmWrite, clockVars
  <2>2. \A u \in Timers : pool'[u].enabled = pool[u].enabled /\ pool'[u].handle = pool[u].handle
    BY <1>0, <2>1 DEF TimerState
  <2> QED
    BY <1>2, <2>1, <2>2, SettingsOnly
<1>7. ASSUME AlarmEnable(t) PROVE \A u \in Timers : TimerOK(u)'
  <2> DEFINE p == [pool EXCEPT ![t].enabled = TRUE]
  <2>1. /\ t \in owned /\ ~pool[t].enabled /\ ~InProgress(Isr(t))
        /\ ScheduleAlarm(t, p) /\ UNCHANGED <<stack, owned>>
    BY <1>7 DEF AlarmEnable
  <2>2. p \in [Timers -> TimerState]
    BY <1>0, PoolUpdates
  <2>3. p[t].enabled /\ \A u \in Timers \ {t} : p[u] = pool[u]
    BY <1>0 DEF TimerState
  <2> HIDE DEF p
  <2>4. FramesOf(t) = {}
    BY <1>0, <1>1, <2>1, SketchRuns DEF FramesOf, InProgress
  <2>5. Booked(t) = {}
    BY <1>0, <2>1 DEF TimerOK, Held
  <2> QED
    BY <1>2, <2>1, <2>2, <2>3, <2>4, <2>5, BooksOne
<1>8. ASSUME AlarmDisable(t) PROVE \A u \in Timers : TimerOK(u)'
  <2>1. /\ t \in owned /\ CancelAlarm(t) /\ UNCHANGED <<stack, owned, due>>
        /\ pool' = [pool EXCEPT ![t].enabled = FALSE, ![t].handle = 0]
    BY <1>8 DEF AlarmDisable
  <2>2. pool' \in [Timers -> TimerState]
    BY <1>0, <2>1, PoolUpdates
  <2>3. ~pool'[t].enabled /\ pool'[t].handle = 0 /\ \A u \in Timers \ {t} : pool'[u] = pool[u]
    BY <1>0, <2>1 DEF TimerState
  <2> QED
    BY <2>1, <2>2, <2>3, StopsOne
<1> QED
  BY <1>2, <1>3, <1>4, <1>5, <1>6, <1>7, <1>8 DEF Call

LEMMA TopReplaced ==
  ASSUME Basics, StartsOnTop, stack # <<>>, NEW cb \in Callbacks \cup {None}, Clock!SetTop(cb)
  PROVE  /\ \A t \in Timers :
              FramesOf(t)' = IF cb \in {Alarm(t), Isr(t)} THEN FramesOf(t) \cup {Len(stack)}
                                                          ELSE FramesOf(t) \ {Len(stack)}
         /\ \A t \in Timers, i \in DOMAIN stack' :
              stack'[i].running = Alarm(t) => i = Len(stack') /\ cb = Alarm(t)
<1> DEFINE l == Len(stack)
<1>1. l \in DOMAIN stack
  BY TopOfStack DEF Basics
<1>2. /\ Len(stack') = l /\ DOMAIN stack' = DOMAIN stack /\ stack'[l].running = cb
      /\ \A i \in DOMAIN stack : i # l => stack'[i] = stack[i]
  BY SetTopEffect DEF Basics
<1>3. \A i \in DOMAIN stack, t \in Timers : stack[i].running = Alarm(t) => i = l
  BY DEF StartsOnTop
<1> HIDE DEF l
<1>4. ASSUME NEW t \in Timers
      PROVE  FramesOf(t)' = IF cb \in {Alarm(t), Isr(t)} THEN FramesOf(t) \cup {l}
                                                          ELSE FramesOf(t) \ {l}
  <2>1. FramesOf(t)' = {i \in DOMAIN stack : stack'[i].running \in {Alarm(t), Isr(t)}}
    BY <1>2 DEF FramesOf, Alarm, Isr
  <2> DEFINE new == {i \in DOMAIN stack : stack'[i].running \in {Alarm(t), Isr(t)}}
             old == {i \in DOMAIN stack : stack[i].running \in {Alarm(t), Isr(t)}}
  <2>2. CASE cb \in {Alarm(t), Isr(t)}
    <3>1. \A i \in DOMAIN stack : stack'[i].running \in {Alarm(t), Isr(t)} <=>
                                  i = l \/ stack[i].running \in {Alarm(t), Isr(t)}
      BY <1>2, <2>2
    <3>2. new = old \cup {l}
      BY <1>1, <3>1
    <3> QED
      BY <2>1, <2>2, <3>2 DEF FramesOf
  <2>3. CASE cb \notin {Alarm(t), Isr(t)}
    <3>1. \A i \in DOMAIN stack : stack'[i].running \in {Alarm(t), Isr(t)} <=>
                                  i # l /\ stack[i].running \in {Alarm(t), Isr(t)}
      BY <1>2, <2>3
    <3>2. new = old \ {l}
      BY <3>1
    <3> QED
      BY <2>1, <2>3, <3>2 DEF FramesOf
  <2> QED
    BY <2>2, <2>3
<1>5. ASSUME NEW t \in Timers, NEW i \in DOMAIN stack', stack'[i].running = Alarm(t)
      PROVE  i = Len(stack') /\ cb = Alarm(t)
  BY <1>2, <1>3, <1>5
<1> QED
  BY <1>4, <1>5 DEF l

LEMMA AlarmKeepsTimers ==
  ASSUME IInv, NEW t \in Timers, CallIsr(t) \/ AlarmEnds(t)
  PROVE  StartsOnTop' /\ OneFrame' /\ \A u \in Timers : TimerOK(u)'
<1> DEFINE l == Len(stack)
<1>0. /\ Basics /\ TypeOK /\ StartsOnTop /\ OneFrame /\ TimerOK(t)
      /\ pool \in [Timers -> TimerState] /\ pool[t] \in TimerState
  BY PoolTypes DEF IInv, Basics
<1>1. stack # <<>> /\ Last(stack).running \in {Alarm(t), Isr(t)} /\ owned' = owned
  BY DEF CallIsr, AlarmEnds, AlarmStarts
<1>2. l \in DOMAIN stack /\ stack[l].running \in {Alarm(t), Isr(t)}
  BY <1>0, <1>1, TopOfStack
<1> HIDE DEF l
<1>3. FramesOf(t) = {l}
  BY <1>0, <1>2 DEF OneFrame, FramesOf
<1>4. \A u \in Timers \ {t} : l \notin FramesOf(u)
  BY <1>2, Names DEF FramesOf
<1>5. t \in owned /\ Held(t) /\ Booked(t) = {}
  BY <1>0, <1>3 DEF TimerOK, Held
<1>6. CASE CallIsr(t)
  <2>1. Clock!SetTop(Isr(t)) /\ UNCHANGED <<nextHandle, schedule, pool, owned, due>>
    BY <1>6 DEF CallIsr
  <2>2. Isr(t) \in Callbacks \cup {None}
    BY Names
  <2>3. /\ \A u \in Timers :
             FramesOf(u)' = IF Isr(t) \in {Alarm(u), Isr(u)} THEN FramesOf(u) \cup {l}
                                                             ELSE FramesOf(u) \ {l}
        /\ \A u \in Timers, i \in DOMAIN stack' :
             stack'[i].running = Alarm(u) => i = Len(stack') /\ Isr(t) = Alarm(u)
    BY <1>0, <1>1, <2>1, <2>2, TopReplaced DEF l
  <2>4. \A u \in Timers : FramesOf(u)' = FramesOf(u)
    <3> SUFFICES ASSUME NEW u \in Timers PROVE FramesOf(u)' = FramesOf(u)
      OBVIOUS
    <3>1. CASE u = t
      <4>1. FramesOf(t)' = FramesOf(t) \cup {l}
        BY <2>3
      <4> QED
        BY <1>3, <3>1, <4>1
    <3>2. CASE u # t
      <4>1. Isr(t) \notin {Alarm(u), Isr(u)} /\ l \notin FramesOf(u)
        BY <1>4, <3>2, Names
      <4>2. FramesOf(u)' = FramesOf(u) \ {l}
        BY <2>3, <4>1
      <4> QED
        BY <4>1, <4>2
    <3> QED
      BY <3>1, <3>2
  <2>5. StartsOnTop'
    BY <2>3, Names DEF StartsOnTop, Alarm, Isr
  <2>6. OneFrame'
    BY <1>0, <2>4 DEF OneFrame
  <2> QED
    BY <2>1, <2>4, <2>5, <2>6, SettingsOnly
<1>7. CASE AlarmEnds(t)
  <2>1. Rearm(t) /\ Clock!SetTop(None)
    BY <1>7 DEF AlarmEnds
  <2>2. None \in Callbacks \cup {None} /\ \A u \in Timers : None \notin {Alarm(u), Isr(u)}
    BY Names
  <2>3. /\ \A u \in Timers : FramesOf(u)' = FramesOf(u) \ {l}
        /\ \A u \in Timers, i \in DOMAIN stack' : stack'[i].running # Alarm(u)
    BY <1>0, <1>1, <2>1, <2>2, TopReplaced DEF l
  <2>4. FramesOf(t)' = {} /\ \A u \in Timers \ {t} : FramesOf(u)' = FramesOf(u)
    BY <1>3, <1>4, <2>3
  <2>5. StartsOnTop'
    BY <2>3 DEF StartsOnTop, Alarm
  <2>6. OneFrame'
    BY <1>0, <2>3 DEF OneFrame
  <2>7. \A u \in Timers : TimerOK(u)'
    <3>1. CASE pool[t].enabled /\ ScheduleAlarm(t, pool)
      BY <1>0, <1>1, <1>5, <2>4, <3>1, BooksOne
    <3>2. CASE /\ UNCHANGED <<now, nextHandle, schedule, due>>
               /\ \/ pool' = [pool EXCEPT ![t].enabled = FALSE]
                  \/ ~pool[t].enabled /\ pool' = pool
      <4>1. ~pool'[t].enabled /\ pool'[t].handle = pool[t].handle
        BY <1>0, <3>2 DEF TimerState
      <4>2. \A u \in Timers \ {t} : pool'[u] = pool[u]
        BY <1>0, <3>2
      <4>3. \A u \in Timers : Booked(u)' = Booked(u)
        BY <3>2 DEF Booked, Alarm
      <4>4. ASSUME NEW u \in Timers, u # t PROVE TimerOK(u)'
        <5>1. TimerOK(u) /\ nextHandle \in Nat
          BY EntriesOfSchedule DEF IInv, Basics
        <5>2. /\ pool'[u] = pool[u] /\ due' = due /\ schedule' = schedule /\ nextHandle' = nextHandle
              /\ FramesOf(u)' = FramesOf(u)
          BY <2>4, <3>2, <4>2, <4>4
        <5> QED
          BY <1>0, <1>1, <4>3, <5>1, <5>2, Untouched
      <4>5. TimerOK(t)'
        <5>1. pool'[t].handle < nextHandle' /\ Booked(t)' = {}
          BY <1>5, <3>2, <4>1, <4>3 DEF Held
        <5>2. \A e \in ToSet(schedule') : e.h = pool'[t].handle => e.cb = Alarm(t)
          BY <1>5, <3>2, <4>1 DEF Held
        <5>3. Held(t)'
          BY <4>1, <5>1, <5>2 DEF Held, Alarm
        <5> QED
          BY <1>1, <1>5, <5>3 DEF TimerOK
      <4> QED
        BY <4>4, <4>5
    <3> QED
      BY <2>1, <3>1, <3>2 DEF Rearm
  <2> QED
    BY <2>5, <2>6, <2>7
<1> QED
  BY <1>6, <1>7

LEMMA FireKeepsTimers ==
  ASSUME IInv, FireNext
  PROVE  StartsOnTop' /\ OneFrame' /\ \A u \in Timers : TimerOK(u)'
<1> DEFINE l == Len(stack)
           e == Head(schedule)
<1>0. Basics /\ TypeOK /\ Handles /\ OnlyAlarms /\ StartsOnTop /\ OneFrame /\ nextHandle \in Nat
  BY EntriesOfSchedule DEF IInv, Basics
<1>1. Clock!FireNext /\ UNCHANGED <<pool, owned, due>>
  BY DEF FireNext
<1>2. stack # <<>> /\ Last(stack).running = None /\ Clock!SetTop(e.cb)
  BY <1>1 DEF Clock!FireNext, Clock!InLoop, Clock!Last, Last
<1>3. /\ e \in ToSet(schedule) /\ ToSet(schedule') = ToSet(schedule) \ {e}
      /\ nextHandle' = nextHandle /\ now' = e.at
  BY <1>0, <1>1, FireEffect
<1>4. e.cb \in Callbacks \cup {None}
  BY <1>0, <1>3, EntriesOfSchedule
<1>5. l \in DOMAIN stack /\ stack[l].running = None
  BY <1>0, <1>2, TopOfStack
<1> HIDE DEF l, e
<1>6. \A u \in Timers : l \notin FramesOf(u)
  BY <1>5, Names DEF FramesOf
<1>7. /\ \A u \in Timers :
           FramesOf(u)' = IF e.cb \in {Alarm(u), Isr(u)} THEN FramesOf(u) \cup {l}
                                                         ELSE FramesOf(u) \ {l}
      /\ \A u \in Timers, i \in DOMAIN stack' :
           stack'[i].running = Alarm(u) => i = Len(stack') /\ e.cb = Alarm(u)
  BY <1>0, <1>2, <1>4, TopReplaced DEF l
<1>8. ASSUME NEW u \in Timers, e.cb # Alarm(u) PROVE TimerOK(u)' /\ FramesOf(u)' = FramesOf(u)
  <2>1. e.cb # Isr(u)
    BY <1>0, <1>3, Names DEF OnlyAlarms
  <2>2. FramesOf(u)' = FramesOf(u)
    BY <1>6, <1>7, <1>8, <2>1
  <2>3. Booked(u)' = Booked(u)
    BY <1>3, <1>8 DEF Booked, Alarm
  <2>4. TimerOK(u)
    BY DEF IInv
  <2>5. nextHandle' \in Nat /\ nextHandle <= nextHandle'
    BY <1>0, <1>3
  <2>6. \A x \in ToSet(schedule') : x \in ToSet(schedule)
    BY <1>3
  <2>7. TimerOK(u)'
    BY <1>0, <1>1, <2>2, <2>3, <2>4, <2>5, <2>6, Untouched
  <2> QED
    BY <2>2, <2>7
<1>9. CASE \A u \in Timers : e.cb # Alarm(u)
  <2>1. StartsOnTop'
    BY <1>7, <1>9 DEF StartsOnTop, Alarm
  <2>2. OneFrame'
    BY <1>0, <1>8, <1>9 DEF OneFrame
  <2> QED
    BY <1>8, <1>9, <2>1, <2>2
<1>10. CASE \E t \in Timers : e.cb = Alarm(t)
  <2>1. PICK t \in Timers : e.cb = Alarm(t)
    BY <1>10
  <2>2. \A u \in Timers \ {t} : e.cb # Alarm(u)
    BY <2>1, Names
  <2>3. e \in Booked(t)
    BY <1>3, <2>1 DEF Booked
  <2>4. TimerOK(t)
    BY DEF IInv
  <2>5. t \in owned /\ Held(t)
    BY <2>3, <2>4 DEF TimerOK
  <2>6. pool[t].enabled /\ FramesOf(t) = {}
    BY <2>3, <2>5, PoolTypes, <1>0 DEF Held
  <2>7. PICK x \in ToSet(schedule) : Booked(t) = {x} /\ x.h = pool[t].handle /\ x.at = due[t]
    BY <2>5, <2>6 DEF Held, Armed
  <2>8. x = e
    BY <2>3, <2>7
  <2>9. FramesOf(t)' = {l}
    BY <1>7, <2>1, <2>6
  <2>10. Booked(t)' = {}
    BY <1>3, <2>7, <2>8 DEF Booked, Alarm
  <2>11. TimerOK(t)'
    <3>1. pool'[t].handle < nextHandle'
      BY <1>1, <1>3, <2>5 DEF Held
    <3>2. \A y \in ToSet(schedule') : y.h = pool'[t].handle => y.cb = Alarm(t)
      BY <1>1, <1>3, <2>5 DEF Held
    <3>3. Held(t)'
      BY <2>9, <2>10, <3>1, <3>2 DEF Held, Alarm
    <3> QED
      BY <1>1, <2>5, <3>3 DEF TimerOK
  <2>12. StartsOnTop'
    <3> SUFFICES ASSUME NEW i \in DOMAIN stack', NEW u \in Timers, stack'[i].running = Alarm(u)
                 PROVE  i = Len(stack') /\ now' = due'[u]
      BY DEF StartsOnTop, Alarm
    <3>1. i = Len(stack') /\ e.cb = Alarm(u)
      BY <1>7
    <3>2. u = t
      BY <2>2, <3>1
    <3> QED
      BY <1>1, <1>3, <2>7, <2>8, <3>1, <3>2
  <2>13. OneFrame'
    <3>1. \A u \in Timers \ {t} : FramesOf(u)' = FramesOf(u)
      BY <1>8, <2>2
    <3> QED
      BY <1>0, <2>9, <3>1 DEF OneFrame
  <2> QED
    BY <1>8, <2>2, <2>11, <2>12, <2>13
<1> QED
  BY <1>9, <1>10

LEMMA ClockKeepsTimers ==
  ASSUME IInv, Liberties = {},
         \/ \E at \in 0..MaxTime : ScheduleOther(at)
         \/ \E us \in Delays : Advance(us)
         \/ OtherReturns \/ FireNext \/ LeaveAdvance \/ Reset
  PROVE  StartsOnTop' /\ OneFrame' /\ \A u \in Timers : TimerOK(u)'
<1>0. /\ Basics /\ TypeOK /\ Handles /\ OnlyAlarms /\ StartsOnTop /\ OneFrame
      /\ nextHandle \in Nat \ {0} /\ stack \in Seq(Clock!Frames) /\ DOMAIN stack = 1..Len(stack)
  BY EntriesOfSchedule, LenProperties DEF IInv, Basics, TypeOK, Clock!TypeOK
<1>1. ASSUME NEW at \in 0..MaxTime, ScheduleOther(at)
      PROVE  StartsOnTop' /\ OneFrame' /\ \A u \in Timers : TimerOK(u)'
  <2>1. InSketch /\ Clock!ScheduleAt(at, Other) /\ UNCHANGED <<stack, pool, owned, due>>
    BY <1>1 DEF ScheduleOther
  <2>2. StartsOnTop' /\ OneFrame' /\ \A u \in Timers : FramesOf(u)' = FramesOf(u)
    BY <1>0, <2>1, StackAlone
  <2>3. at \in Nat /\ Other \in Callbacks
    BY Names, TimerAssumption
  <2>4. PICK e \in Clock!Entries :
          /\ e.h = nextHandle /\ e.cb = Other
          /\ ToSet(schedule') = ToSet(schedule) \cup {e}
          /\ nextHandle' = nextHandle + 1
    BY <1>0, <2>1, <2>3, ScheduleEffect
  <2>5. nextHandle' \in Nat /\ nextHandle <= nextHandle' /\ e.h >= nextHandle
    BY <1>0, <2>4
  <2>6. ASSUME NEW u \in Timers PROVE TimerOK(u)'
    <3>1. TimerOK(u)
      BY DEF IInv
    <3>2. e.cb # Alarm(u)
      BY <2>4, Names
    <3>3. Booked(u)' = Booked(u)
      BY <2>4, <3>2 DEF Booked, Alarm
    <3>4. \A x \in ToSet(schedule') : x \in ToSet(schedule) \/ x.h >= nextHandle
      BY <2>4, <2>5
    <3> QED
      BY <1>0, <2>1, <2>2, <2>5, <3>1, <3>3, <3>4, Untouched
  <2> QED
    BY <2>2, <2>6
<1>2. ASSUME NEW us \in Delays, Advance(us)
      PROVE  StartsOnTop' /\ OneFrame' /\ \A u \in Timers : TimerOK(u)'
  <2>1. InSketch /\ Clock!EnterAdvance(us) /\ us \in Nat /\ UNCHANGED <<pool, owned, due>>
    BY <1>2, TimerAssumption DEF Advance
  <2>2. /\ Len(stack) \in Nat /\ DOMAIN stack' = 1..(Len(stack) + 1)
        /\ \A i \in DOMAIN stack : stack'[i] = stack[i]
        /\ stack'[Len(stack) + 1].running = None
        /\ UNCHANGED <<now, nextHandle, schedule>>
    BY <1>0, <2>1, EnterEffect
  <2>3. DOMAIN stack' = DOMAIN stack \cup {Len(stack) + 1} /\ Len(stack) + 1 \notin DOMAIN stack
    BY <1>0, <2>2
  <2>4. \A u \in Timers : FramesOf(u)' = FramesOf(u)
    BY <2>2, <2>3, Names DEF FramesOf, Alarm, Isr, None
  <2>5. \A i \in DOMAIN stack, u \in Timers : stack[i].running # Alarm(u)
    BY <1>0, <2>1, SketchRuns
  <2>6. \A i \in DOMAIN stack', u \in Timers : stack'[i].running # Alarm(u)
    BY <2>2, <2>3, <2>5, Names
  <2>7. StartsOnTop'
    BY <2>6 DEF StartsOnTop, Alarm
  <2>8. OneFrame'
    BY <1>0, <2>4 DEF OneFrame
  <2> QED
    BY <2>1, <2>2, <2>4, <2>7, <2>8, SettingsOnly
<1>3. CASE OtherReturns
  <2>1. /\ stack # <<>> /\ Last(stack).running = Other /\ Clock!SetTop(None)
        /\ UNCHANGED <<nextHandle, schedule, pool, owned, due>>
    BY <1>3 DEF OtherReturns
  <2>2. Len(stack) \in DOMAIN stack /\ stack[Len(stack)].running = Other
    BY <1>0, <2>1, TopOfStack
  <2>3. None \in Callbacks \cup {None} /\ \A u \in Timers : None \notin {Alarm(u), Isr(u)}
    BY Names
  <2>4. /\ \A u \in Timers : FramesOf(u)' = FramesOf(u) \ {Len(stack)}
        /\ \A u \in Timers, i \in DOMAIN stack' : stack'[i].running # Alarm(u)
    BY <1>0, <2>1, <2>3, TopReplaced
  <2>5. \A u \in Timers : Len(stack) \notin FramesOf(u)
    BY <2>2, Names DEF FramesOf
  <2>6. \A u \in Timers : FramesOf(u)' = FramesOf(u)
    BY <2>4, <2>5
  <2>7. StartsOnTop'
    BY <2>4 DEF StartsOnTop, Alarm
  <2>8. OneFrame'
    BY <1>0, <2>6 DEF OneFrame
  <2> QED
    BY <2>1, <2>6, <2>7, <2>8, SettingsOnly
<1>4. CASE LeaveAdvance
  <2>1. Clock!LeaveAdvance /\ UNCHANGED <<pool, owned, due>>
    BY <1>4 DEF LeaveAdvance
  <2>2. /\ stack # <<>> /\ Last(stack).running = None /\ DOMAIN stack' = 1..(Len(stack) - 1)
        /\ \A i \in DOMAIN stack' : i \in DOMAIN stack /\ stack'[i] = stack[i]
        /\ UNCHANGED <<nextHandle, schedule>>
    BY <1>0, <2>1, LeaveEffect
  <2>3. Len(stack) \in Nat \ {0} /\ stack[Len(stack)].running = None
    BY <1>0, <2>2, TopOfStack
  <2>4. DOMAIN stack = DOMAIN stack' \cup {Len(stack)} /\ Len(stack) \notin DOMAIN stack'
    BY <1>0, <2>2, <2>3
  <2>5. \A u \in Timers : FramesOf(u)' = FramesOf(u)
    BY <2>2, <2>3, <2>4, Names DEF FramesOf, Alarm, Isr, None
  <2>6. \A u \in Timers, i \in DOMAIN stack' : stack'[i].running # Alarm(u)
    BY <1>0, <2>2, <2>4 DEF StartsOnTop
  <2>7. StartsOnTop'
    BY <2>6 DEF StartsOnTop, Alarm
  <2>8. OneFrame'
    BY <1>0, <2>5 DEF OneFrame
  <2> QED
    BY <2>1, <2>2, <2>5, <2>7, <2>8, SettingsOnly
<1>5. CASE Reset
  <2>1. /\ stack = <<>> /\ stack' = stack /\ schedule' = <<>> /\ owned' = {}
    BY <1>5 DEF Reset, Clock!Reset, Clock!ResetClock
  <2>2. \A u \in Timers : FramesOf(u)' = {} /\ Booked(u)' = {}
    BY <2>1 DEF FramesOf, Booked, ToSet
  <2>3. StartsOnTop'
    BY <2>1 DEF StartsOnTop
  <2>4. OneFrame'
    BY <2>2 DEF OneFrame
  <2> QED
    BY <2>1, <2>2, <2>3, <2>4 DEF TimerOK
<1> QED
  BY <1>1, <1>2, <1>3, <1>4, <1>5, FireKeepsTimers

LEMMA Inductive ==
  ASSUME Liberties = {}
  PROVE  /\ Init => IInv
         /\ IInv /\ [Next]_vars => IInv'
<1>1. ASSUME Init PROVE IInv
  <2>1. /\ now = 0 /\ nextHandle = 1 /\ schedule = <<>> /\ stack = <<>>
        /\ pool = [t \in Timers |-> Fresh] /\ owned = {} /\ due = [t \in Timers |-> 0]
    BY <1>1 DEF Init, Clock!Init
  <2>2. TypeOK
    <3>1. Fresh \in TimerState
      BY FreshType
    <3>2. pool \in [Timers -> TimerState] /\ due \in [Timers -> Nat]
      BY <2>1, <3>1
    <3>3. schedule \in Seq(Clock!Entries) /\ stack \in Seq(Clock!Frames)
      BY <2>1, EmptySeq
    <3> QED
      BY <2>1, <3>2, <3>3 DEF TypeOK, Clock!TypeOK, TimerState
  <2>3. ToSet(schedule) = {} /\ DOMAIN schedule = {} /\ DOMAIN stack = {}
    BY <2>1 DEF ToSet
  <2>4. Handles /\ OnlyAlarms /\ StartsOnTop
    BY <2>3 DEF Handles, Distinct, OnlyAlarms, StartsOnTop
  <2>5. \A t \in Timers : FramesOf(t) = {} /\ Booked(t) = {}
    BY <2>3 DEF FramesOf, Booked
  <2>6. OneFrame /\ \A t \in Timers : TimerOK(t)
    BY <2>1, <2>5 DEF OneFrame, TimerOK
  <2> QED
    BY <2>2, <2>4, <2>6 DEF IInv, Basics
<1>2. ASSUME IInv, [Next]_vars PROVE IInv'
  <2>1. Basics'
    BY <1>2, BasicsKept DEF IInv
  <2>2. CASE \E t \in Timers : Call(t) \/ CallIsr(t) \/ AlarmEnds(t)
    BY <1>2, <2>1, <2>2, CallKeepsTimers, AlarmKeepsTimers DEF IInv
  <2>3. CASE \/ \E at \in 0..MaxTime : ScheduleOther(at)
             \/ \E us \in Delays : Advance(us)
             \/ OtherReturns \/ FireNext \/ LeaveAdvance \/ Reset
    BY <1>2, <2>1, <2>3, ClockKeepsTimers DEF IInv
  <2>4. CASE UNCHANGED vars
    <3>1. UNCHANGED <<now, nextHandle, schedule, stack, pool, owned, due>>
      BY <2>4 DEF vars, clockVars
    <3>2. \A u \in Timers : FramesOf(u)' = FramesOf(u)
      BY <3>1 DEF FramesOf, Alarm, Isr
    <3>3. StartsOnTop' /\ OneFrame'
      BY <1>2, <3>1, <3>2 DEF IInv, StartsOnTop, OneFrame, Alarm
    <3>4. \A u \in Timers : TimerOK(u)'
      BY <1>2, <3>1, <3>2, SettingsOnly
    <3> QED
      BY <2>1, <3>3, <3>4 DEF IInv
  <2> QED
    BY <1>2, <2>2, <2>3, <2>4 DEF Next, Call
<1> QED
  BY <1>1, <1>2

LEMMA InvariantMeans ==
  ASSUME IInv
  PROVE  OneAlarm /\ AlarmOnTime
<1>0. /\ Basics /\ TypeOK /\ Distinct(schedule) /\ StartsOnTop
      /\ \A t \in Timers : TimerOK(t) /\ pool[t].enabled \in BOOLEAN
  BY PoolTypes DEF IInv, Basics, Handles
<1>1. ASSUME NEW t \in owned
      PROVE  /\ pool[t].enabled /\ ~InFlight(t) =>
                  \E i \in Pending(t) : Pending(t) = {i} /\ schedule[i].h = pool[t].handle
             /\ ~pool[t].enabled \/ InFlight(t) => Pending(t) = {}
  <2>1. t \in Timers /\ Held(t)
    BY <1>0, PoolTypes DEF TimerOK
  <2>2. InFlight(t) <=> FramesOf(t) # {}
    BY DEF InFlight, InProgress, FramesOf
  <2>3. ASSUME pool[t].enabled, ~InFlight(t)
        PROVE  \E i \in Pending(t) : Pending(t) = {i} /\ schedule[i].h = pool[t].handle
    <3>1. PICK e \in ToSet(schedule) : Booked(t) = {e} /\ e.h = pool[t].handle
      BY <2>1, <2>2, <2>3 DEF Held, Armed
    <3>2. PICK i \in DOMAIN schedule : schedule[i] = e
      BY DEF ToSet
    <3>3. i \in Pending(t)
      BY <3>1, <3>2 DEF Pending, Booked
    <3>4. ASSUME NEW j \in Pending(t) PROVE j = i
      <4>1. j \in DOMAIN schedule /\ schedule[j] \in Booked(t)
        BY DEF Pending, Booked, ToSet
      <4>2. schedule[j].h = schedule[i].h
        BY <3>1, <3>2, <4>1
      <4> QED
        BY <1>0, <4>1, <4>2 DEF Distinct
    <3> QED
      BY <3>1, <3>2, <3>3, <3>4
  <2>4. ASSUME ~pool[t].enabled \/ InFlight(t) PROVE Pending(t) = {}
    <3>1. Booked(t) = {}
      BY <2>1, <2>2, <2>4 DEF Held
    <3> QED
      BY <3>1 DEF Pending, Booked, ToSet
  <2> QED
    BY <2>3, <2>4
<1>2. ASSUME NEW t \in owned, AlarmStarts(t) PROVE now = due[t]
  <2>1. t \in Timers /\ stack # <<>> /\ Last(stack).running = Alarm(t)
    BY <1>0, <1>2, PoolTypes DEF AlarmStarts
  <2>2. Len(stack) \in DOMAIN stack /\ stack[Len(stack)].running = Alarm(t)
    BY <1>0, <2>1, TopOfStack
  <2> QED
    BY <1>0, <2>1, <2>2 DEF StartsOnTop
<1> QED
  BY <1>1, <1>2 DEF OneAlarm, AlarmOnTime

-----------------------------------------------------------------------------
(* Theorems.                                                               *)

(* Every field keeps its type, whatever uses the sketch allows itself.     *)
THEOREM TypeCorrect == Spec => []TypeOK
<1>1. Init => Basics
  <2> SUFFICES ASSUME Init PROVE Basics
    OBVIOUS
  <2>1. /\ now = 0 /\ nextHandle = 1 /\ schedule = <<>> /\ stack = <<>>
        /\ pool = [t \in Timers |-> Fresh] /\ owned = {} /\ due = [t \in Timers |-> 0]
    BY DEF Init, Clock!Init
  <2>2. pool \in [Timers -> TimerState] /\ due \in [Timers -> Nat]
    BY <2>1, FreshType
  <2>3. schedule \in Seq(Clock!Entries) /\ stack \in Seq(Clock!Frames)
    BY <2>1, EmptySeq
  <2>4. TypeOK
    BY <2>1, <2>2, <2>3 DEF TypeOK, Clock!TypeOK, TimerState
  <2>5. ToSet(schedule) = {} /\ DOMAIN schedule = {}
    BY <2>1 DEF ToSet
  <2> QED
    BY <2>4, <2>5 DEF Basics, Handles, Distinct, OnlyAlarms
<1>2. Basics /\ [Next]_vars => Basics'
  BY BasicsKept
<1>3. Basics => TypeOK
  BY DEF Basics
<1> QED
  BY <1>1, <1>2, <1>3, PTL DEF Spec

(* A timer that the sketch holds has one alarm booked, the one its handle  *)
(* names, when it is enabled and its callback is not running, and none     *)
(* otherwise (hwtimer.cpp:29-43, 83-100): for any number of timers and any *)
(* nesting of their ISRs, when the sketch takes none of the liberties that *)
(* the code does not refuse (see TimerAssumption).                         *)
THEOREM ChainOfAlarms == Liberties = {} => (Spec => []OneAlarm)
<1> SUFFICES ASSUME Liberties = {} PROVE Spec => []OneAlarm
  OBVIOUS
<1>1. Init => IInv
  BY Inductive
<1>2. IInv /\ [Next]_vars => IInv'
  BY Inductive
<1>3. IInv => OneAlarm
  BY InvariantMeans
<1> QED
  BY <1>1, <1>2, <1>3, PTL DEF Spec

(* An ISR is called at the time its timer last asked for, also when ISRs   *)
(* of other timers advance the clock past the time their caller waits for. *)
THEOREM IsrsOnTime == Liberties = {} => (Spec => []AlarmOnTime)
<1> SUFFICES ASSUME Liberties = {} PROVE Spec => []AlarmOnTime
  OBVIOUS
<1>1. Init => IInv
  BY Inductive
<1>2. IInv /\ [Next]_vars => IInv'
  BY Inductive
<1>3. IInv => AlarmOnTime
  BY InvariantMeans
<1> QED
  BY <1>1, <1>2, <1>3, PTL DEF Spec

(* No timer call cancels a callback of others: the handles that the timers *)
(* keep, however old, name only alarms of their own.                       *)
THEOREM OthersLeftAlone == Liberties = {} => (Spec => OthersUntouched)
<1> SUFFICES ASSUME Liberties = {} PROVE Spec => OthersUntouched
  OBVIOUS
<1> DEFINE Leaves == \A i \in DOMAIN schedule :
                       schedule[i].cb = Other /\ ~Contains(schedule', schedule[i]) =>
                         FireNext \/ Reset
<1>1. Init => IInv
  BY Inductive
<1>2. IInv /\ [Next]_vars => IInv'
  BY Inductive
<1>3. IInv /\ [Next]_vars => [Leaves]_vars
  <2> SUFFICES ASSUME IInv, Next PROVE Leaves
    OBVIOUS
  <2>10. schedule' \in Seq(Clock!Entries) /\ DOMAIN schedule' = 1..Len(schedule')
    <3>1. Basics /\ [Next]_vars
      BY DEF IInv
    <3>2. Basics'
      BY <3>1, BasicsKept
    <3> QED
      BY <3>2, LenProperties DEF Basics, TypeOK, Clock!TypeOK, Clock!Entries
  <2> SUFFICES ASSUME ~(FireNext \/ Reset), NEW e \in ToSet(schedule), e.cb = Other
               PROVE  e \in ToSet(schedule')
    BY <2>10 DEF Leaves, Contains, ToSet
  <2>0. Basics /\ TypeOK /\ Handles
    BY DEF IInv, Basics
  <2>1. ASSUME NEW t \in Timers, t \in owned, CancelAlarm(t) PROVE e \in ToSet(schedule')
    <3>1. Held(t)
      BY <2>1 DEF IInv, TimerOK
    <3>2. e.h # pool[t].handle
      BY <3>1, Names DEF Held
    <3> QED
      BY <2>0, <2>1, <3>2, CancelledAlarm
  <2>2. ASSUME NEW t \in Timers, NEW p \in [Timers -> TimerState], ScheduleAlarm(t, p)
        PROVE  e \in ToSet(schedule')
    BY <2>0, <2>2, ScheduleAlarmEffect
  <2>3. CASE \E t \in Timers : End(t) \/ AlarmDisable(t)
    BY <2>1, <2>3 DEF End, AlarmDisable
  <2>4. CASE \E t \in Timers : AlarmEnable(t) \/ AlarmEnds(t)
    <3>1. PICK t \in Timers : AlarmEnable(t) \/ AlarmEnds(t)
      BY <2>4
    <3>2. pool \in [Timers -> TimerState] /\ [pool EXCEPT ![t].enabled = TRUE] \in [Timers -> TimerState]
      BY <2>0, PoolTypes, PoolUpdates
    <3>3. \/ ScheduleAlarm(t, pool) \/ ScheduleAlarm(t, [pool EXCEPT ![t].enabled = TRUE])
          \/ schedule' = schedule
      BY <3>1 DEF AlarmEnable, AlarmEnds, Rearm
    <3> QED
      BY <2>2, <3>2, <3>3
  <2>5. CASE \E at \in 0..MaxTime : ScheduleOther(at)
    <3>1. PICK at \in 0..MaxTime : Clock!ScheduleAt(at, Other)
      BY <2>5 DEF ScheduleOther
    <3>2. at \in Nat /\ Other \in Callbacks
      BY Names, TimerAssumption
    <3> QED
      BY <2>0, <3>1, <3>2, ScheduleEffect
  <2>6. CASE \/ \E t \in Timers : \/ \E divider \in Dividers : Begin(t, divider)
                                  \/ \E isr \in BOOLEAN : Attach(t, isr)
                                  \/ \E ticks \in Ticks, autoreload \in BOOLEAN :
                                       AlarmWrite(t, ticks, autoreload)
                                  \/ CallIsr(t)
             \/ OtherReturns
    <3>1. schedule' = schedule
      BY <2>6 DEF Begin, Attach, AlarmWrite, CallIsr, OtherReturns, clockVars
    <3> QED
      BY <3>1
  <2>7. CASE (\E us \in Delays : Advance(us)) \/ LeaveAdvance
    <3>1. schedule' = schedule
      BY <2>7 DEF Advance, Clock!EnterAdvance, LeaveAdvance, Clock!LeaveAdvance
    <3> QED
      BY <3>1
  <2> QED
    BY <2>3, <2>4, <2>5, <2>6, <2>7 DEF Next
<1> QED
  BY <1>1, <1>2, <1>3, PTL DEF Spec, OthersUntouched
=============================================================================
