---------------------------- MODULE VirtualClock ----------------------------
(***************************************************************************)
(* esp32sim::VirtualClock (src/core/clock.cpp): the one notion of time of  *)
(* the simulator, and the schedule of callbacks that advance_us fires      *)
(* synchronously while it moves the time.                                  *)
(*                                                                         *)
(* advance_us is not atomic: each callback it fires is sketch code, which  *)
(* may schedule, cancel or advance the clock again.  A call in progress is *)
(* a frame of `stack`, innermost last: the time it was asked to reach and  *)
(* the callback it is running, or NoCallback while it is in its loop.      *)
(***************************************************************************)
EXTENDS Naturals, Sequences, SequencesExt

CONSTANTS
  Callbacks,    \* the std::function values a caller may schedule
  NoCallback,   \* no callback is running: the frame is in its loop
  Delays,       \* the arguments of advance_us that are tried
  Overshoot,    \* may a callback advance past the time its caller waits for?
  MaxTime,      \* bound: no call asks for a time after this one
  MaxHandle,    \* bound: handles that may be issued between two resets
  MaxDepth      \* bound: nested advance_us calls

ASSUME ClockAssumption ==
  /\ NoCallback \notin Callbacks
  /\ Delays \subseteq Nat
  /\ Overshoot \in BOOLEAN
  /\ MaxTime \in Nat /\ MaxHandle \in Nat /\ MaxDepth \in Nat

VARIABLES
  now,          \* now_us_
  nextHandle,   \* next_handle_
  schedule,     \* schedule_: the multimap, as the sequence it iterates over
  stack         \* the advance_us calls in progress, innermost last

clockVars == <<now, nextHandle, schedule, stack>>

Entries == [at : Nat, h : Nat, cb : Callbacks]
Frames  == [target : Nat, running : Callbacks \cup {NoCallback}]

TypeOK ==
  /\ now \in Nat
  /\ nextHandle \in Nat \ {0}
  /\ schedule \in Seq(Entries)
  /\ stack \in Seq(Frames)

Init ==
  /\ now = 0
  /\ nextHandle = 1
  /\ schedule = <<>>
  /\ stack = <<>>

-----------------------------------------------------------------------------
(* Where control is.  Sketch or test code runs when no advance_us is in    *)
(* progress or when the innermost one is running a callback.               *)

InCode == stack # <<>> => Last(stack).running # NoCallback
InLoop == stack # <<>> /\ Last(stack).running = NoCallback

SetTop(cb) == stack' = [stack EXCEPT ![Len(stack)].running = cb]

-----------------------------------------------------------------------------
(* Mutated forms of the operators below, used by no definition: an insert  *)
(* before equal keys, a past time kept as it is, the strict comparison of  *)
(* the loop's exit, an entry erased only after its callback, a loop that   *)
(* goes on over entries that are not due, a handle counter that starts at  *)
(* the value callers take for "no handle".                                 *)

LowerBound(p, at) ==
  /\ \A i \in 1..(p - 1) : schedule[i].at < at
  /\ \A i \in p..Len(schedule) : at <= schedule[i].at

AsAsked(at) == at

DueBefore == schedule # <<>> /\ Head(schedule).at < Last(stack).target

FireInPlace ==
  /\ InLoop
  /\ schedule # <<>>
  /\ Head(schedule).at <= Last(stack).target
  /\ now' = Head(schedule).at
  /\ SetTop(Head(schedule).cb)
  /\ UNCHANGED <<nextHandle, schedule>>

LeaveWhenEmpty ==
  /\ InLoop
  /\ schedule = <<>>
  /\ now' = Last(stack).target
  /\ stack' = Front(stack)
  /\ UNCHANGED <<nextHandle, schedule>>

ResetToZero ==
  /\ now' = 0
  /\ nextHandle' = 0
  /\ schedule' = <<>>

-----------------------------------------------------------------------------
(* The operations of the clock.                                            *)

(* std::multimap::emplace: after every entry that is not later.            *)
UpperBound(p, at) ==
  /\ \A i \in 1..(p - 1) : schedule[i].at <= at
  /\ \A i \in p..Len(schedule) : at < schedule[i].at

(* A time in the past becomes the present.                                 *)
NotPast(at) == IF at < now THEN now ELSE at

(* schedule_at *)
ScheduleAt(at, cb) ==
  LET e == [at |-> NotPast(at), h |-> nextHandle, cb |-> cb]
  IN  /\ \E p \in 1..(Len(schedule) + 1) :
           /\ UpperBound(p, e.at)
           /\ schedule' = InsertAt(schedule, p, e)
      /\ nextHandle' = nextHandle + 1
      /\ UNCHANGED now

(* cancel, of a handle that is pending and of one that is not.             *)
CancelHandle(h) ==
  \/ \E i \in DOMAIN schedule :
       /\ schedule[i].h = h
       /\ \A j \in 1..(i - 1) : schedule[j].h # h
       /\ schedule' = RemoveAt(schedule, i)
       /\ UNCHANGED <<now, nextHandle>>
  \/ /\ \A i \in DOMAIN schedule : schedule[i].h # h
     /\ UNCHANGED <<now, nextHandle, schedule>>

(* advance_us is entered: the target is fixed now, once.                   *)
EnterAdvance(us) ==
  /\ Len(stack) < MaxDepth
  /\ now + us <= MaxTime
  /\ ~Overshoot /\ stack # <<>> => now + us <= Last(stack).target
  /\ stack' = Append(stack, [target |-> now + us, running |-> NoCallback])
  /\ UNCHANGED <<now, nextHandle, schedule>>

(* The loop of advance_us goes on while its first entry is due.            *)
Due == schedule # <<>> /\ Head(schedule).at <= Last(stack).target

(* The loop of advance_us takes the first entry, moves the time to it,     *)
(* erases it, and only then calls it.                                      *)
FireNext ==
  /\ InLoop
  /\ Due
  /\ now' = Head(schedule).at
  /\ schedule' = Tail(schedule)
  /\ SetTop(Head(schedule).cb)
  /\ UNCHANGED nextHandle

(* The loop ends: advance_us sets the time it was asked for and returns.   *)
LeaveAdvance ==
  /\ InLoop
  /\ ~Due
  /\ now' = Last(stack).target
  /\ stack' = Front(stack)
  /\ UNCHANGED <<nextHandle, schedule>>

ResetClock ==
  /\ now' = 0
  /\ nextHandle' = 1
  /\ schedule' = <<>>

-----------------------------------------------------------------------------
(* What callers do: tests, sketches and their callbacks.                   *)

Schedule(at, cb) ==
  /\ InCode
  /\ nextHandle <= MaxHandle
  /\ ScheduleAt(at, cb)
  /\ UNCHANGED stack

Cancel(h) ==
  /\ InCode
  /\ CancelHandle(h)
  /\ UNCHANGED stack

Advance(us) == InCode /\ EnterAdvance(us)

CallbackReturn ==
  /\ stack # <<>>
  /\ InCode
  /\ SetTop(NoCallback)
  /\ UNCHANGED <<now, nextHandle, schedule>>

(* setUp() resets between tests, when no call is in progress.              *)
Reset ==
  /\ stack = <<>>
  /\ ResetClock
  /\ UNCHANGED stack

Next ==
  \/ \E at \in 0..MaxTime, cb \in Callbacks : Schedule(at, cb)
  \/ \E h \in 1..MaxHandle : Cancel(h)
  \/ \E us \in Delays : Advance(us)
  \/ FireNext
  \/ LeaveAdvance
  \/ CallbackReturn
  \/ Reset

Spec == Init /\ [][Next]_clockVars

-----------------------------------------------------------------------------
(* Properties.                                                             *)

(* No pending entry is ever overdue, even when a nested advance_us has     *)
(* moved the time past the target of the calls around it.                  *)
NothingOverdue == \A i \in DOMAIN schedule : now <= schedule[i].at

(* When an advance_us returns, everything due by the time it set has been  *)
(* fired or cancelled, also what callbacks scheduled meanwhile.            *)
ReturnsWithNothingDue ==
  [][Len(stack') < Len(stack) =>
       \A i \in DOMAIN schedule' : now' < schedule'[i].at]_clockVars

(* When callbacks advance no further than the call that runs them, the     *)
(* calls in progress are nested in time as they are on the stack, and the  *)
(* clock has overtaken none of them.                                       *)
TargetsNested ==
  /\ \A i, j \in DOMAIN stack : i < j => stack[j].target <= stack[i].target
  /\ \A i \in DOMAIN stack : now <= stack[i].target

(* "A monotonic virtual clock" (the Tier 1 plan): the time never goes back *)
(* between two resets.                                                     *)
ClockMonotone == [][now <= now' \/ Reset]_clockVars
=============================================================================
