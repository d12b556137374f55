-------------------------------- MODULE Boots --------------------------------
(***************************************************************************)
(* Deep sleep (src/core/sleep.cpp, esp_sleep.cpp) and what a sketch finds  *)
(* when it boots: its serial ports, its Preferences and the store under    *)
(* them, strict mode's list, and Sim::reset between tests.                 *)
(*                                                                         *)
(* On the chip deep sleep ends the program and the wake boots it anew.     *)
(* Here esp_deep_sleep_start records the request and returns, the sketch's *)
(* global objects keep their state, and the wake is a second runSetup().   *)
(***************************************************************************)
EXTENDS HardwareSerial, Preferences

CONSTANTS
  Durations,  \* the durations the sketch asks for, not 0
  Causes,     \* WakeCause
  Liberties,  \* the careless uses the sketch allows itself, see below
  Rooms       \* bounds: see `room`

(* "pending": a test ends with a timer wake-up enabled and not slept on.   *)
ASSUME BootsAssumption ==
  /\ Durations \subseteq Nat \ {0}
  /\ "UNDEFINED" \in Causes
  /\ Liberties \subseteq {"pending"}
  /\ Ports \cap Objects = {}
  /\ Rooms \subseteq [tx : Nat, rx : Nat, objects : SUBSET Objects, sleeps : Nat]

VARIABLES
  nextWake,      \* Sleep::next_wake_
  lastWake,      \* Sleep::last_wake_
  lastSleepUs,   \* Sleep::last_sleep_us_
  sleepCount,    \* Sleep::deep_sleep_count_
  pendingTimer,  \* pending_timer_us
  timer,         \* history: the timer enabled in this test since its last sleep, or 0
  arranged,      \* history: the wake cause the test has arranged
  slept,         \* history: how long and with what to wake for, sleep by sleep
  begun,         \* history: the objects begun, and not ended, since the last boot
  room           \* bound: the bytes, objects and sleeps a behaviour may use

sleepVars == <<nextWake, lastWake, lastSleepUs, sleepCount, pendingTimer>>
sleepHistory == <<timer, arranged, slept>>
vars == <<strictVars, serialVars, prefsVars, sleepVars, sleepHistory, begun, room>>

(* Sleep::reset.  The pending timer is not a member.                       *)
SleepReset ==
  /\ nextWake' = "UNDEFINED" /\ lastWake' = "UNDEFINED"
  /\ lastSleepUs' = 0 /\ sleepCount' = 0

Init ==
  /\ StrictInit /\ SerialInit /\ PrefsInit
  /\ nextWake = "UNDEFINED" /\ lastWake = "UNDEFINED"
  /\ lastSleepUs = 0 /\ sleepCount = 0 /\ pendingTimer = 0
  /\ timer = 0 /\ arranged = "UNDEFINED" /\ slept = <<>>
  /\ begun = {}
  /\ room \in Rooms

TypeOK ==
  /\ enabled \in BOOLEAN
  /\ violations \in Seq([code : {"E010", "E060", "E061"}, severity : Severities,
                         object : Ports \cup Objects])
  /\ began \in [Ports -> BOOLEAN]
  /\ data \in [Namespaces -> [Keys -> {None} \cup Slot]]
  /\ prefs \in [Objects -> [ns : Namespaces \cup {None}, opened : BOOLEAN]]
  /\ nextWake \in Causes /\ lastWake \in Causes
  /\ lastSleepUs \in Durations \cup {0} /\ pendingTimer \in Durations \cup {0}
  /\ sleepCount \in 0..room.sleeps
  /\ begun \subseteq Ports \cup Objects
  /\ room \in Rooms

-----------------------------------------------------------------------------
(* Mutated form of the operator below, used by no definition: a sleep that *)
(* keeps its timer.                                                        *)
KeptTimer == pendingTimer

-----------------------------------------------------------------------------
EnableTimer(us) ==
  /\ pendingTimer' = us
  /\ timer' = us
  /\ UNCHANGED <<nextWake, lastWake, lastSleepUs, sleepCount, arranged, slept>>

SetNextWake(c) ==
  /\ nextWake' = c
  /\ arranged' = c
  /\ UNCHANGED <<lastWake, lastSleepUs, sleepCount, pendingTimer, timer, slept>>

TimerAfterSleep == 0

(* Sleep::record_deep_sleep.  The arranged cause is left for the next one. *)
RecordDeepSleep(us) ==
  /\ lastSleepUs' = us
  /\ sleepCount' = sleepCount + 1
  /\ lastWake' = nextWake
  /\ UNCHANGED nextWake

(* esp_deep_sleep_start.                                                   *)
DeepSleepStart ==
  /\ sleepCount < room.sleeps
  /\ RecordDeepSleep(pendingTimer)
  /\ pendingTimer' = TimerAfterSleep
  /\ slept' = Append(slept, [us |-> timer, cause |-> arranged])
  /\ timer' = 0
  /\ UNCHANGED arranged

(* esp_sleep_get_wakeup_cause: the causes go by the same names.            *)
WakeupCause == lastWake

(* The sketch's setup() is run, the first time or for a wake.  A boot of   *)
(* the chip would find no object begun; here nothing is undone.            *)
RunSetup ==
  /\ begun' = {}
  /\ UNCHANGED <<strictVars, serialVars, prefsVars, sleepVars, sleepHistory, room>>

(* Sim::reset.                                                             *)
Reset ==
  /\ "pending" \in Liberties \/ pendingTimer = 0
  /\ StrictReset /\ SerialReset /\ PrefsReset /\ SleepReset
  /\ timer' = 0 /\ arranged' = "UNDEFINED" /\ slept' = <<>>
  /\ begun' = {}
  /\ UNCHANGED <<pendingTimer, room>>

(* The steps of each part, which leave the others alone.                   *)
PortStep ==
  /\ room.tx + room.rx > 0
  /\ \/ SerialNext /\ UNCHANGED begun
     \/ \E p \in Ports : SerialBegin(p, TRUE) /\ begun' = begun \cup {p}
     \/ \E p \in Ports : SerialBegin(p, FALSE) /\ begun' = begun \ {p}
  /\ printed' <= room.tx /\ injected' <= room.rx
  /\ UNCHANGED <<prefsVars, sleepVars, sleepHistory, room>>

PrefsStep ==
  /\ \E o \in room.objects :
       \/ PrefsNext(o) /\ UNCHANGED begun
       \/ \E n \in Namespaces : Begin(o, n) /\ begun' = begun \cup {o}
       \/ (Declare(o) \/ End(o)) /\ begun' = begun \ {o}
  /\ UNCHANGED <<serialVars, sleepVars, sleepHistory, room>>

SleepStep ==
  /\ room.sleeps > 0
  /\ \/ \E us \in Durations : EnableTimer(us)
     \/ \E c \in Causes : SetNextWake(c)
     \/ DeepSleepStart
  /\ UNCHANGED <<strictVars, serialVars, prefsVars, begun, room>>

EnableStep ==
  /\ \E on \in BOOLEAN : Enable(on)
  /\ UNCHANGED <<serialVars, prefsVars, sleepVars, sleepHistory, begun, room>>

Next == PortStep \/ PrefsStep \/ SleepStep \/ EnableStep \/ RunSetup \/ Reset

Spec == Init /\ [][Next]_vars

-----------------------------------------------------------------------------
(* Properties.                                                             *)

(* A sketch, woken as often as it likes, reads of its last sleep what it   *)
(* asked for since the sleep before, and as the cause of its wake what the *)
(* test had arranged last; of the sleeps of earlier tests nothing is left, *)
(* unless one left a timer enabled (sleep.cpp:10-21, esp_sleep.cpp:10-21). *)
SleepExact ==
  /\ sleepCount = Len(slept)
  /\ lastSleepUs = IF slept = <<>> THEN 0 ELSE Last(slept).us
  /\ WakeupCause = IF slept = <<>> THEN "UNDEFINED" ELSE Last(slept).cause

(* Strict mode accuses no sketch that keeps the contract: a port or an     *)
(* object that is reported as not begun has not been begun since the boot, *)
(* or has been ended, whatever earlier boots and tests did to it           *)
(* (hardware_serial.cpp:19-28, preferences.cpp:27-46, sim.cpp:30-36).      *)
ReportsJustified ==
  [][\A i \in (Len(violations) + 1)..Len(violations') :
       violations'[i].code \in {"E010", "E060"} => violations'[i].object \notin begun]_vars
=============================================================================
