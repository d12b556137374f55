------------------------------ MODULE MCArduino ------------------------------
(* Three kinds of behaviour: one about listeners and ISRs, without strict   *)
(* mode, and two about its rules.                                           *)
EXTENDS Arduino

MCRooms ==
  {[pins |-> {4, 26}, strays |-> {},   edges |-> Edges,      modes |-> {"INPUT_PULLUP"},
    listeners |-> 2, strict |-> FALSE],
   [pins |-> {26},    strays |-> {64}, edges |-> Edges,      modes |-> PinModes,
    listeners |-> 2, strict |-> TRUE],
   [pins |-> {3, 19}, strays |-> {},   edges |-> {"CHANGE"}, modes |-> {"OUTPUT"},
    listeners |-> 1, strict |-> TRUE]}
=============================================================================
