---------------------------- MODULE ClockHistory ----------------------------
(***************************************************************************)
(* The virtual clock with a record of what it has done: which entries it   *)
(* fired, in which order, and which handles were cancelled.  The record    *)
(* adds no behaviour; what clock.h promises of callbacks is stated on it.  *)
(***************************************************************************)
EXTENDS VirtualClock

VARIABLES
  fired,        \* the entries fired since the last reset, in order
  cancelled     \* the handles for which cancel returned true

historyVars == <<clockVars, fired, cancelled>>

HInit == Init /\ fired = <<>> /\ cancelled = {}

Pending   == {schedule[i].h : i \in DOMAIN schedule}
FiredOnes == {fired[i].h : i \in DOMAIN fired}

HSchedule(at, cb) == Schedule(at, cb) /\ UNCHANGED <<fired, cancelled>>

HCancel(h) ==
  /\ Cancel(h)
  /\ cancelled' = cancelled \cup (Pending \cap {h})
  /\ UNCHANGED fired

HAdvance(us) == Advance(us) /\ UNCHANGED <<fired, cancelled>>

HFireNext ==
  /\ FireNext
  /\ fired' = Append(fired, Head(schedule))
  /\ UNCHANGED cancelled

HLeaveAdvance == LeaveAdvance /\ UNCHANGED <<fired, cancelled>>

HCallbackReturn == CallbackReturn /\ UNCHANGED <<fired, cancelled>>

HReset == Reset /\ fired' = <<>> /\ cancelled' = {}

HNext ==
  \/ \E at \in 0..MaxTime, cb \in Callbacks : HSchedule(at, cb)
  \/ \E h \in 1..MaxHandle : HCancel(h)
  \/ \E us \in Delays : HAdvance(us)
  \/ HFireNext
  \/ HLeaveAdvance
  \/ HCallbackReturn
  \/ HReset

HSpec == HInit /\ [][HNext]_historyVars

(* The simulator is one thread: a loop that can step does, and a callback, *)
(* a finite piece of code, returns however often it is suspended by an     *)
(* advance of its own.                                                     *)
Fairness ==
  /\ WF_historyVars(HFireNext)
  /\ WF_historyVars(HLeaveAdvance)
  /\ SF_historyVars(HCallbackReturn)

HFairSpec == HSpec /\ Fairness

HTypeOK ==
  /\ TypeOK
  /\ fired \in Seq(Entries)
  /\ cancelled \in SUBSET Nat

-----------------------------------------------------------------------------
(* Properties.                                                             *)

(* Every handle schedule_at issued is pending, was fired or was cancelled, *)
(* exactly one of the three and once: no callback is lost, fires twice, or *)
(* fires after cancel returned true, whatever callbacks do to the schedule *)
(* that advance_us is iterating over.                                      *)
HandlesAccounted ==
  /\ Pending \cup FiredOnes \cup cancelled = 1..(nextHandle - 1)
  /\ Pending \cap FiredOnes = {}
  /\ cancelled \cap (Pending \cup FiredOnes) = {}
  /\ \A i, j \in DOMAIN schedule : schedule[i].h = schedule[j].h => i = j
  /\ \A i, j \in DOMAIN fired : fired[i].h = fired[j].h => i = j

(* Before(e, f): e is to fire before f, by time and then by insertion.     *)
Before(e, f) == e.at < f.at \/ (e.at = f.at /\ e.h < f.h)

(* "Callbacks fire in timestamp order; if multiple at the same timestamp,  *)
(* insertion order" (clock.h), over all the callbacks fired since a reset. *)
FiringOrder ==
  \A i, j \in DOMAIN fired : i < j => Before(fired[i], fired[j])

(* The schedule keeps the promise of an alarm book: what fires next is the *)
(* earliest pending alarm and the oldest of those, and a cancelled one is  *)
(* gone, at every depth of nesting.                                        *)
Book == INSTANCE AlarmBook WITH
          issued <- nextHandle - 1,
          pending <- ToSet(schedule),
          rung <- fired
BookSpec == Book!Spec

(* Every advance_us returns, provided callbacks return and schedule        *)
(* finitely often, although each may refill the schedule being drained.    *)
AdvanceTerminates == (stack # <<>>) ~> (stack = <<>>)
=============================================================================
