------------------------------- MODULE MCBoots -------------------------------
(* Five kinds of behaviour: a sketch that prints, one that reads its ports, *)
(* one that uses Preferences, one that sleeps, one that reads a port and   *)
(* uses Preferences.                                                        *)
EXTENDS Boots

CONSTANTS o1, o2

MCRooms == {[tx |-> 4, rx |-> 0, objects |-> {},       sleeps |-> 0],
            [tx |-> 0, rx |-> 3, objects |-> {},       sleeps |-> 0],
            [tx |-> 0, rx |-> 0, objects |-> {o1, o2}, sleeps |-> 0],
            [tx |-> 0, rx |-> 0, objects |-> {},       sleeps |-> 3],
            [tx |-> 0, rx |-> 1, objects |-> {o1},     sleeps |-> 0]}
=============================================================================
