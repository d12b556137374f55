------------------------------ MODULE MCNetwork ------------------------------
(* Four kinds of behaviour: one about the loops and the messages they hand  *)
(* over, one about HTTP, one about MQTT calls, of callbacks too, one about  *)
(* strict mode.                                                             *)
EXTENDS Network

CONSTANTS c1, c2

MCRooms ==
  {[delivered |-> 4, depth |-> 3, clients |-> {c1, c2}, calls |-> 0, kinds |-> {}],
   [delivered |-> 0, depth |-> 0, clients |-> {c1},     calls |-> 4,
    kinds |-> {"seed", "request"}],
   [delivered |-> 2, depth |-> 2, clients |-> {c1},     calls |-> 3,
    kinds |-> {"publish", "bytes", "subscribe"}],
   [delivered |-> 0, depth |-> 0, clients |-> {c1},     calls |-> 2,
    kinds |-> {"request", "publish", "look", "ssid"}]}
=============================================================================
