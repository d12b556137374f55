------------------------------- MODULE MCDut -------------------------------
(* Two texts, strings that one of them contains and a regular expression   *)
(* that matches both and is spelled in neither.                            *)
EXTENDS Dut

CONSTANTS a, b

MCTexts == {a, b}
MCStrings == {{a}, {b}}
MCRegexes == {[matches |-> {a, b}, spelled |-> {}]}
=============================================================================
