------------------------------ MODULE AlarmBook ------------------------------
(***************************************************************************)
(* What include/esp32sim/clock.h promises of the schedule, with no trace   *)
(* of how it is stored: a set of alarms, numbered as they are booked.  The *)
(* one that rings is the earliest, the oldest among the earliest; one that *)
(* was dropped never rings.                                                *)
(***************************************************************************)
EXTENDS Naturals, Sequences

VARIABLES
  issued,    \* number of alarms booked since the book was cleared
  pending,   \* the alarms booked and neither rung nor dropped
  rung       \* the alarms that have rung, in order

Init == issued = 0 /\ pending = {} /\ rung = <<>>

Earlier(a, b) == a.at < b.at \/ (a.at = b.at /\ a.h < b.h)

BookAlarm ==
  /\ issued' = issued + 1
  /\ \E a \in pending' : a.h = issued' /\ pending' = pending \cup {a}
  /\ rung' = rung

Drop ==
  /\ \E a \in pending : pending' = pending \ {a}
  /\ UNCHANGED <<issued, rung>>

Ring ==
  /\ \E a \in pending :
       /\ \A b \in pending \ {a} : Earlier(a, b)
       /\ pending' = pending \ {a}
       /\ rung' = Append(rung, a)
  /\ issued' = issued

Clear == issued' = 0 /\ pending' = {} /\ rung' = <<>>

Next == BookAlarm \/ Drop \/ Ring \/ Clear

Spec == Init /\ [][Next]_<<issued, pending, rung>>
=============================================================================
