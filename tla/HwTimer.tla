------------------------------- MODULE HwTimer -------------------------------
(***************************************************************************)
(* The hardware timers (src/platforms/arduino_esp32/hwtimer.cpp) on top of *)
(* the virtual clock: timerAlarmEnable books an alarm, and the alarm's     *)
(* callback runs the sketch's ISR and books the next one.  The ISR is      *)
(* sketch code: it may stop its own timer, touch the others, or advance    *)
(* the clock while the callback that runs it has not returned.             *)
(***************************************************************************)
EXTENDS Naturals, Sequences, SequencesExt, FiniteSets

CONSTANTS
  Timers,      \* the timers of the pool that the sketch uses
  Dividers,    \* the clock dividers passed to timerBegin
  Ticks,       \* the alarm values passed to timerAlarmWrite
  Delays,      \* the arguments of advance_us
  Overshoot,   \* may an ISR advance past the time its caller waits for?
  Liberties,   \* the careless uses the sketch allows itself, see below
  Resets,      \* are there tests after the first, each begun by a reset?
  MaxTime, MaxDepth,
  MaxUser,     \* bound: a call of the sketch issues no handle after this one
  MaxHandle    \* bound: an alarm's own re-arming issues no handle after this

(* Three uses that the code does not refuse: arming a timer again from its *)
(* own ISR, timerBegin on a timer whose alarm is pending, and keeping the  *)
(* hw_timer_t* of one test into the next, after Sim::reset.                *)
ASSUME TimerAssumption ==
  /\ Dividers \subseteq Nat /\ Ticks \subseteq Nat /\ Delays \subseteq Nat
  /\ Overshoot \in BOOLEAN /\ Resets \in BOOLEAN
  /\ Liberties \subseteq {"rearm", "rebegin", "keep"}
  /\ MaxTime \in Nat /\ MaxDepth \in Nat /\ MaxUser \in Nat /\ MaxHandle \in Nat

VARIABLES
  now, nextHandle, schedule, stack,   \* of the clock
  pool,    \* pool[]: the TimerState of each timer
  owned,   \* the timers whose pointer the sketch holds
  due      \* history: the time schedule_alarm last asked for, per timer

(* What the clock runs: the lambda of schedule_alarm, the ISR that it      *)
(* calls, or a callback that a test scheduled itself.                      *)
Alarm(t) == <<t, "alarm">>
Isr(t)   == <<t, "isr">>
Other    == <<"test", "other">>
Callbacks == (Timers \X {"alarm", "isr"}) \cup {Other}
None      == <<"none", "none">>

Clock == INSTANCE VirtualClock WITH NoCallback <- None

clockVars == <<now, nextHandle, schedule, stack>>
vars      == <<clockVars, pool, owned, due>>

(* TimerState{}: divider 80 is one tick per microsecond.                   *)
Fresh == [divider |-> 80, isr |-> FALSE, alarm |-> 0, autoreload |-> FALSE,
          enabled |-> FALSE, handle |-> 0]

TypeOK ==
  /\ Clock!TypeOK
  /\ pool \in [Timers -> [divider : Nat \ {0}, isr : BOOLEAN, alarm : Nat,
                          autoreload : BOOLEAN, enabled : BOOLEAN,
                          handle : Nat]]
  /\ owned \in SUBSET Timers
  /\ due \in [Timers -> Nat]

Init ==
  /\ Clock!Init
  /\ pool = [t \in Timers |-> Fresh]
  /\ owned = {}
  /\ due = [t \in Timers |-> 0]

-----------------------------------------------------------------------------
InProgress(cb) == \E i \in DOMAIN stack : stack[i].running = cb

(* The sketch runs: between callbacks, in an ISR, or in a test's callback. *)
InSketch ==
  /\ Clock!InCode
  /\ stack # <<>> => \A t \in Timers : Last(stack).running # Alarm(t)

Pending(t) == {i \in DOMAIN schedule : schedule[i].cb = Alarm(t)}

-----------------------------------------------------------------------------
(* The conversion of ticks in milliseconds: a mutated form of the next.    *)
TicksToMs(ticks, divider) == (ticks * divider) \div 80000

(* ticks_to_us: 80 MHz, the fraction of a microsecond is dropped.          *)
TicksToUs(ticks, divider) == (ticks * divider) \div 80

(* Mutated forms of the operators below, used by no definition: a stop     *)
(* that leaves the alarm booked, a handle taken after its increment, a     *)
(* re-arming that ignores the ISR's stop.                                  *)

ForgetAlarm(t) == UNCHANGED <<now, nextHandle, schedule>>

ScheduleAlarmHandleAfter(t, p) ==
  LET at == now + TicksToUs(p[t].alarm, p[t].divider)
  IN  /\ Clock!ScheduleAt(at, Alarm(t))
      /\ pool' = [p EXCEPT ![t].handle = nextHandle + 1]
      /\ due' = [due EXCEPT ![t] = at]

RearmStopped(t) ==
  IF pool[t].autoreload
  THEN /\ Clock!ScheduleAt(now + TicksToUs(pool[t].alarm, pool[t].divider), Alarm(t))
       /\ pool' = [pool EXCEPT ![t].handle = nextHandle]
       /\ UNCHANGED due
  ELSE /\ pool' = [pool EXCEPT ![t].enabled = FALSE]
       /\ UNCHANGED <<now, nextHandle, schedule, due>>

-----------------------------------------------------------------------------
(* The divider of a timer that is given none is one tick per microsecond.  *)
DividerOr80(divider) == IF divider = 0 THEN 80 ELSE divider

(* schedule_alarm, for a timer that is enabled in pool `p`.                *)
ScheduleAlarm(t, p) ==
  LET at == now + TicksToUs(p[t].alarm, p[t].divider)
  IN  /\ Clock!ScheduleAt(at, Alarm(t))
      /\ pool' = [p EXCEPT ![t].handle = nextHandle]
      /\ due' = [due EXCEPT ![t] = at]

(* The cancel of timerEnd and timerAlarmDisable: handle 0 is no alarm.     *)
CancelAlarm(t) ==
  IF pool[t].handle # 0
  THEN Clock!CancelHandle(pool[t].handle)
  ELSE UNCHANGED <<now, nextHandle, schedule>>

(* timerBegin takes the timer over without a look at what it was doing.    *)
Begin(t, divider) ==
  /\ InSketch
  /\ "rebegin" \in Liberties \/ Pending(t) = {}
  /\ pool' = [pool EXCEPT ![t] =
                [Fresh EXCEPT !.divider = DividerOr80(divider)]]
  /\ owned' = owned \cup {t}
  /\ UNCHANGED <<clockVars, due>>

End(t) ==
  /\ InSketch
  /\ t \in owned
  /\ CancelAlarm(t)
  /\ pool' = [pool EXCEPT ![t] = Fresh]
  /\ UNCHANGED <<stack, owned, due>>

(* timerAttachInterrupt, and timerDetachInterrupt with FALSE.              *)
Attach(t, isr) ==
  /\ InSketch
  /\ t \in owned
  /\ pool' = [pool EXCEPT ![t].isr = isr]
  /\ UNCHANGED <<clockVars, owned, due>>

AlarmWrite(t, ticks, autoreload) ==
  /\ InSketch
  /\ t \in owned
  /\ pool' = [pool EXCEPT ![t].alarm = ticks, ![t].autoreload = autoreload]
  /\ UNCHANGED <<clockVars, owned, due>>

(* timerAlarmEnable does nothing to a timer that is already enabled.       *)
AlarmEnable(t) ==
  /\ InSketch
  /\ t \in owned
  /\ ~pool[t].enabled
  /\ nextHandle <= MaxUser
  /\ "rearm" \in Liberties \/ ~InProgress(Isr(t))
  /\ ScheduleAlarm(t, [pool EXCEPT ![t].enabled = TRUE])
  /\ UNCHANGED <<stack, owned>>

AlarmDisable(t) ==
  /\ InSketch
  /\ t \in owned
  /\ CancelAlarm(t)
  /\ pool' = [pool EXCEPT ![t].enabled = FALSE, ![t].handle = 0]
  /\ UNCHANGED <<stack, owned, due>>

(* A test schedules a callback of its own on the same clock.               *)
ScheduleOther(at) ==
  /\ InSketch
  /\ nextHandle <= MaxUser
  /\ Clock!ScheduleAt(at, Other)
  /\ UNCHANGED <<stack, pool, owned, due>>

Advance(us) ==
  /\ InSketch
  /\ Clock!EnterAdvance(us)
  /\ UNCHANGED <<pool, owned, due>>

-----------------------------------------------------------------------------
(* The lambda of schedule_alarm.  It reads the timer after the clock has   *)
(* called it and again after the ISR, which may have changed it.           *)

AlarmStarts(t) == stack # <<>> /\ Last(stack).running = Alarm(t)

CallIsr(t) ==
  /\ AlarmStarts(t)
  /\ pool[t].enabled /\ pool[t].isr
  /\ Clock!SetTop(Isr(t))
  /\ UNCHANGED <<now, nextHandle, schedule, pool, owned, due>>

(* After the ISR, or without it.                                           *)
Rearm(t) ==
  \/ /\ pool[t].enabled /\ pool[t].autoreload
     /\ nextHandle <= MaxHandle
     /\ ScheduleAlarm(t, pool)
  \/ /\ pool[t].enabled /\ ~pool[t].autoreload
     /\ pool' = [pool EXCEPT ![t].enabled = FALSE]
     /\ UNCHANGED <<now, nextHandle, schedule, due>>
  \/ /\ ~pool[t].enabled
     /\ UNCHANGED <<now, nextHandle, schedule, pool, due>>

AlarmEnds(t) ==
  /\ \/ AlarmStarts(t) /\ ~(pool[t].enabled /\ pool[t].isr)
     \/ stack # <<>> /\ Last(stack).running = Isr(t)
  /\ Rearm(t)
  /\ Clock!SetTop(None)
  /\ UNCHANGED owned

OtherReturns ==
  /\ stack # <<>>
  /\ Last(stack).running = Other
  /\ Clock!SetTop(None)
  /\ UNCHANGED <<now, nextHandle, schedule, pool, owned, due>>

FireNext     == Clock!FireNext /\ UNCHANGED <<pool, owned, due>>
LeaveAdvance == Clock!LeaveAdvance /\ UNCHANGED <<pool, owned, due>>

(* Sim::reset resets the clock and leaves the timers as they are.          *)
Reset ==
  /\ Resets
  /\ Clock!Reset
  /\ owned' = IF "keep" \in Liberties THEN owned ELSE {}
  /\ UNCHANGED <<pool, due>>

Next ==
  \/ \E t \in Timers :
       \/ \E divider \in Dividers : Begin(t, divider)
       \/ End(t)
       \/ \E isr \in BOOLEAN : Attach(t, isr)
       \/ \E ticks \in Ticks, autoreload \in BOOLEAN : AlarmWrite(t, ticks, autoreload)
       \/ AlarmEnable(t)
       \/ AlarmDisable(t)
       \/ CallIsr(t)
       \/ AlarmEnds(t)
  \/ \E at \in 0..MaxTime : ScheduleOther(at)
  \/ \E us \in Delays : Advance(us)
  \/ OtherReturns
  \/ FireNext
  \/ LeaveAdvance
  \/ Reset

Spec == Init /\ [][Next]_vars

(* One thread: the loop of advance_us steps, and sketch code returns       *)
(* however often an advance of its own suspends it.                        *)
Fairness ==
  /\ WF_vars(FireNext)
  /\ WF_vars(LeaveAdvance)
  /\ SF_vars(OtherReturns)
  /\ \A t \in Timers : WF_vars(CallIsr(t)) /\ SF_vars(AlarmEnds(t))

FairSpec == Spec /\ Fairness
-----------------------------------------------------------------------------
(* Properties.                                                             *)

InFlight(t) == InProgress(Alarm(t)) \/ InProgress(Isr(t))

(* The chain of alarms of a timer neither breaks nor forks: an enabled     *)
(* timer has exactly one alarm booked, the one its handle names, unless    *)
(* its callback is running and is yet to book the next; a disabled one has *)
(* none.  Each call changes `enabled` and the schedule in separate places  *)
(* (hwtimer.cpp:29-43, 83-100), and ISRs of other timers come between.     *)
OneAlarm ==
  \A t \in owned :
    /\ pool[t].enabled /\ ~InFlight(t) =>
         \E i \in Pending(t) : Pending(t) = {i} /\ schedule[i].h = pool[t].handle
    /\ ~pool[t].enabled \/ InFlight(t) => Pending(t) = {}

(* An ISR is called at the time its timer last asked for, never early and  *)
(* never by an alarm that was meant to be gone: "shouldn't fire again",    *)
(* "every 500us" (test/test_hwtimer/test_hwtimer.cpp).                     *)
AlarmOnTime ==
  \A t \in owned : AlarmStarts(t) /\ pool[t].enabled /\ pool[t].isr => now = due[t]

(* A callback that a test scheduled leaves the schedule by firing or by a  *)
(* reset: no timer call, with whatever handle it still holds, cancels it.  *)
OthersUntouched ==
  [][\A i \in DOMAIN schedule :
       schedule[i].cb = Other /\ ~Contains(schedule', schedule[i]) =>
         FireNext \/ Reset]_vars

(* advance_us returns although periodic timers refill the schedule it is   *)
(* draining, as long as no period is rounded to zero.                      *)
AdvanceTerminates == (stack # <<>>) ~> (stack = <<>>)
=============================================================================
