-------------------------------- MODULE Strict --------------------------------
(***************************************************************************)
(* Strict mode (src/core/strict.cpp): the list of violations that the fake *)
(* libraries report while a test has it enabled.  A violation keeps its    *)
(* code, its severity and, out of its message, the object it is about; the *)
(* timestamp and the wording are left out.                                 *)
(***************************************************************************)
EXTENDS Naturals, Sequences, SequencesExt

CONSTANT MaxViolations  \* bound: violations reported between two resets

ASSUME StrictAssumption == MaxViolations \in Nat

VARIABLES
  enabled,    \* Strict::enabled_
  violations  \* Strict::violations_

strictVars == <<enabled, violations>>

Severities == {"ERROR", "WARNING"}

StrictInit == enabled = FALSE /\ violations = <<>>

(* Strict::violation, called for each of `reports` in turn.                *)
Violations(reports) ==
  /\ violations' = IF enabled THEN violations \o reports ELSE violations
  /\ Len(violations') <= MaxViolations
  /\ UNCHANGED enabled

Violation(code, severity, object, times) ==
  Violations([i \in 1..times |-> [code |-> code, severity |-> severity, object |-> object]])

NoViolation == UNCHANGED strictVars

Enable(on) == enabled' = on /\ UNCHANGED violations

StrictReset == enabled' = FALSE /\ violations' = <<>>
=============================================================================
