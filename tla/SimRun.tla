------------------------------- MODULE SimRun -------------------------------
(***************************************************************************)
(* The Unity harness (src/harness/unity/sim.cpp) over the virtual clock:   *)
(* Sim::runUntil drives the sketch's loop() a millisecond at a time until  *)
(* a predicate holds, GpioRef::pulse holds a pin for a while.  Both give   *)
(* control away in the middle: to loop(), which may delay, to the callbacks *)
(* that the clock fires, and to the interrupt routine that set_level runs  *)
(* when a write changes the pin.  Callbacks and routines may write the     *)
(* pin, schedule and advance the clock themselves.  Of the pins there is   *)
(* one, with at most one listener, of the event log                        *)
(* (src/core/event_log.cpp) its timestamps.                                *)
(***************************************************************************)
EXTENDS VirtualClock

CONSTANTS
  Millisecond,  \* the microseconds in one
  Timeouts,     \* the timeouts of runUntil, in milliseconds
  Holds,        \* the lengths of pulses, in milliseconds
  SketchDelays, \* the delays of loop(), callbacks and test, in microseconds
  MaxEvents     \* bound: the sketch writes no pin once this many are logged

(* The sketch and the harness are callers of the clock: how far they       *)
(* advance it is among the advances that the clock is tried with.          *)
ASSUME SimAssumption ==
  /\ Millisecond \in Nat \ {0}
  /\ Timeouts \subseteq Nat /\ Holds \subseteq Nat /\ MaxEvents \in Nat
  /\ SketchDelays \cup {Millisecond} \cup {ms * Millisecond : ms \in Holds} \subseteq Delays

VARIABLES
  pc,        \* where the harness is
  deadline,  \* runUntil's local: when it gives up, in milliseconds
  hold,      \* pulse's argument, in microseconds
  prev,      \* pulse's local: the level it found
  level,     \* the level of the pin
  listening, \* has the pin a listener?
  isrs,      \* the interrupt routines running on top of so many advances
  events,    \* the timestamps in the event log
  begun,     \* history: the time at which runUntil or pulse began to wait
  loops,     \* history: how often runUntil has called loop()
  slept,     \* history: has loop() moved the time in this runUntil?
  rewritten  \* history: has code written the pin since pulse restored it?

call    == <<pc, deadline, hold, prev, begun, loops, slept, rewritten>>
pin     == <<level, listening, isrs>>
simVars == <<clockVars, call, pin, events>>

SimTypeOK ==
  /\ TypeOK
  /\ pc \in {"test", "until", "loop", "step", "rise", "pulse", "fall"}
  /\ deadline \in Nat /\ hold \in Nat
  /\ prev \in {0, 1} /\ level \in {0, 1}
  /\ listening \in BOOLEAN /\ isrs \in [0..MaxDepth -> Nat]
  /\ events \in Seq(Nat)
  /\ begun \in Nat /\ loops \in Nat /\ slept \in BOOLEAN /\ rewritten \in BOOLEAN

(* No call of the harness is in progress: it has no locals.                *)
SimInit ==
  /\ Init
  /\ pc = "test"
  /\ deadline = 0 /\ hold = 0 /\ prev = 0
  /\ begun = 0 /\ loops = 0 /\ slept = FALSE /\ rewritten = FALSE
  /\ level = 0 /\ listening = FALSE /\ isrs = [d \in 0..MaxDepth |-> 0]
  /\ events = <<>>

CallEnds ==
  /\ pc' = "test"
  /\ deadline' = 0 /\ hold' = 0 /\ prev' = 0
  /\ begun' = 0 /\ loops' = 0 /\ slept' = FALSE /\ rewritten' = FALSE

Ms(us) == us \div Millisecond

(* No advance and no interrupt routine runs: control is where pc says.     *)
Idle == stack = <<>> /\ isrs[0] = 0

(* The predicate of the test: the sketch has raised the pin.               *)
Pred == level = 1

-----------------------------------------------------------------------------
(* Mutated forms of the operators below, used by no definition: a deadline *)
(* that is still in time, a pulse that ends low, a log that takes the time *)
(* of the innermost call's target.                                         *)

InTimeInclusive == Ms(now) <= deadline

Low == 0

TargetTime == IF stack = <<>> THEN now ELSE Last(stack).target

-----------------------------------------------------------------------------
(* EventLog::emit stamps an event with the present.                        *)
Stamp == now

(* PinRegistry::set_level logs every write, also one that changes nothing, *)
(* and calls the listener when the level has changed: the interrupt        *)
(* routine runs on top of the advances in progress, before it returns.     *)
SetLevel(v) ==
  /\ level' = v
  /\ events' = Append(events, Stamp)
  /\ isrs' = IF listening /\ v # level THEN [isrs EXCEPT ![Len(stack)] = @ + 1]
                                       ELSE isrs
  /\ UNCHANGED listening

-----------------------------------------------------------------------------
(* Sketch and test code, wherever it has control.                          *)

SketchCode ==
  /\ InCode
  /\ stack = <<>> => pc \in {"test", "loop"} \/ isrs[0] > 0

Write(v) ==
  /\ SketchCode
  /\ Len(events) + 1 < MaxEvents
  /\ SetLevel(v)
  /\ rewritten' = (pc = "fall")
  /\ UNCHANGED <<clockVars, pc, deadline, hold, prev, begun, loops, slept>>

(* attachInterrupt, while the loop over the listeners is not running.      *)
Attach ==
  /\ SketchCode
  /\ ~listening /\ \A d \in 0..MaxDepth : isrs[d] = 0
  /\ listening' = TRUE
  /\ UNCHANGED <<clockVars, call, level, isrs, events>>

IsrReturns ==
  /\ InCode
  /\ isrs[Len(stack)] > 0
  /\ isrs' = [isrs EXCEPT ![Len(stack)] = @ - 1]
  /\ UNCHANGED <<clockVars, call, level, listening, events>>

SimSchedule(at, cb) ==
  /\ SketchCode
  /\ Schedule(at, cb)
  /\ UNCHANGED <<call, pin, events>>

(* The bound leaves runUntil the millisecond it goes on by, and a pulse    *)
(* that has yet to begin its hold.                                         *)
Delay(us) ==
  /\ SketchCode
  /\ now + us + Millisecond <= MaxTime
  /\ pc = "rise" => now + us + hold <= MaxTime
  /\ Advance(us)
  /\ slept' = (slept \/ (stack = <<>> /\ pc = "loop"))
  /\ UNCHANGED <<pc, deadline, hold, prev, begun, loops, rewritten, pin, events>>

SimCallbackReturn ==
  /\ isrs[Len(stack)] = 0
  /\ CallbackReturn
  /\ UNCHANGED <<call, pin, events>>

SimFireNext ==
  /\ FireNext
  /\ UNCHANGED <<call, pin, events>>

SimLeaveAdvance ==
  /\ LeaveAdvance
  /\ UNCHANGED <<call, pin, events>>

-----------------------------------------------------------------------------
(* Sim::runUntil.                                                          *)

RunUntil(ms) ==
  /\ pc = "test" /\ Idle
  /\ (Ms(now) + ms + 1) * Millisecond <= MaxTime
  /\ pc' = "until"
  /\ deadline' = Ms(now) + ms
  /\ begun' = now
  /\ UNCHANGED <<clockVars, hold, prev, loops, slept, rewritten, pin, events>>

InTime == Ms(now) < deadline

CallLoop ==
  /\ pc = "until"
  /\ InTime
  /\ pc' = "loop"
  /\ loops' = loops + 1
  /\ UNCHANGED <<clockVars, deadline, hold, prev, begun, slept, rewritten, pin, events>>

(* loop() has returned: the predicate is looked at, and if it does not     *)
(* hold the clock goes on by a millisecond.                                *)
LoopReturns ==
  /\ pc = "loop" /\ Idle
  /\ \/ /\ Pred
        /\ CallEnds
        /\ UNCHANGED clockVars
     \/ /\ ~Pred
        /\ pc' = "step"
        /\ EnterAdvance(Millisecond)
        /\ UNCHANGED <<deadline, hold, prev, begun, loops, slept, rewritten>>
  /\ UNCHANGED <<pin, events>>

(* The millisecond is over: the predicate is looked at again.              *)
AfterStep == Pred

StepReturns ==
  /\ pc = "step" /\ Idle
  /\ \/ AfterStep /\ CallEnds
     \/ /\ ~AfterStep
        /\ pc' = "until"
        /\ UNCHANGED <<deadline, hold, prev, begun, loops, slept, rewritten>>
  /\ UNCHANGED <<clockVars, pin, events>>

TimeOut ==
  /\ pc = "until"
  /\ ~InTime
  /\ CallEnds
  /\ UNCHANGED <<clockVars, pin, events>>

-----------------------------------------------------------------------------
(* GpioRef::pulse.                                                         *)

(* The first write, which may run the interrupt routine.                   *)
Pulse(v, ms) ==
  /\ pc = "test" /\ Idle
  /\ Len(events) + 1 < MaxEvents
  /\ now + ms * Millisecond <= MaxTime
  /\ pc' = "rise"
  /\ prev' = level
  /\ hold' = ms * Millisecond
  /\ SetLevel(v)
  /\ UNCHANGED <<clockVars, deadline, begun, loops, slept, rewritten>>

PulseHolds ==
  /\ pc = "rise" /\ Idle
  /\ pc' = "pulse"
  /\ EnterAdvance(hold)
  /\ begun' = now
  /\ UNCHANGED <<deadline, hold, prev, loops, slept, rewritten, pin, events>>

Restored == prev

(* The second write, which may run it again.                               *)
PulseRestores ==
  /\ pc = "pulse" /\ Idle
  /\ pc' = "fall"
  /\ SetLevel(Restored)
  /\ UNCHANGED <<clockVars, deadline, hold, prev, begun, loops, slept, rewritten>>

PulseEnds ==
  /\ pc = "fall" /\ Idle
  /\ CallEnds
  /\ UNCHANGED <<clockVars, pin, events>>

(* Sim::reset, from setUp().                                               *)
SimReset ==
  /\ pc = "test" /\ Idle
  /\ Reset
  /\ level' = 0 /\ listening' = FALSE
  /\ events' = <<>>
  /\ UNCHANGED <<call, isrs>>

-----------------------------------------------------------------------------
SimNext ==
  \/ \E v \in {0, 1} : Write(v)
  \/ \E at \in 0..MaxTime, cb \in Callbacks : SimSchedule(at, cb)
  \/ \E us \in SketchDelays : Delay(us)
  \/ Attach \/ IsrReturns
  \/ SimCallbackReturn \/ SimFireNext \/ SimLeaveAdvance
  \/ \E ms \in Timeouts : RunUntil(ms)
  \/ CallLoop \/ LoopReturns \/ StepReturns \/ TimeOut
  \/ \E v \in {0, 1}, ms \in Holds : Pulse(v, ms)
  \/ PulseHolds \/ PulseRestores \/ PulseEnds
  \/ SimReset

SimSpec == SimInit /\ [][SimNext]_simVars

(* The harness takes every step it can; loop(), callbacks and interrupt    *)
(* routines are finite code, which a delay of their own may suspend.       *)
SimFairness ==
  /\ WF_simVars(SimFireNext) /\ WF_simVars(SimLeaveAdvance)
  /\ WF_simVars(CallLoop) /\ WF_simVars(StepReturns) /\ WF_simVars(TimeOut)
  /\ WF_simVars(PulseHolds) /\ WF_simVars(PulseRestores) /\ WF_simVars(PulseEnds)
  /\ SF_simVars(SimCallbackReturn) /\ SF_simVars(LoopReturns) /\ SF_simVars(IsrReturns)

SimFairSpec == SimSpec /\ SimFairness

-----------------------------------------------------------------------------
(* Properties.                                                             *)

(* runUntil calls loop() once for each millisecond (sim.cpp:47-52): unless *)
(* loop() itself moves the time, after any number of iterations exactly as *)
(* many milliseconds have gone by, whatever callbacks fired meanwhile, and *)
(* the deadline is not overrun.                                            *)
OneLoopPerMillisecond ==
  pc = "until" /\ ~slept => /\ Ms(now) = Ms(begun) + loops
                            /\ Ms(now) <= deadline

(* A runUntil that gives up after at least one iteration does so in a      *)
(* state in which the predicate does not hold, however late a callback     *)
(* made it true (sim.cpp:51-53).                                           *)
NoFalseTimeout == pc = "until" /\ loops > 0 => ~Pred

(* pulse restores the pin exactly its length after the first write has     *)
(* returned, and returns with the level it found (sim.cpp:65-70), even if  *)
(* callbacks write the pin or move the clock meanwhile, unless the         *)
(* interrupt routine of the second write, or a callback that it lets fire  *)
(* by delaying, writes the pin again.                                      *)
PulseExact ==
  [][/\ pc = "pulse" /\ pc' = "fall" => now' = begun + hold
     /\ pc = "fall" /\ pc' = "test" => /\ now' >= begun + hold
                                       /\ level' = prev \/ rewritten]_simVars

(* The event log is in the order of its timestamps, so that               *)
(* events().after(t) and between() are stretches of it, as long as         *)
(* callbacks advance no further than the call that runs them.              *)
EventsInTimeOrder ==
  \A i, j \in DOMAIN events : i < j => events[i] <= events[j]

(* runUntil and pulse return: the deadline comes nearer with every         *)
(* iteration, whatever loop() and the callbacks do.                        *)
RunReturns == pc # "test" ~> pc = "test"
=============================================================================
