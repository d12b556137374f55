-------------------------------- MODULE Gpio --------------------------------
(***************************************************************************)
(* The pins (src/core/pin_registry.cpp) and the interrupts attached to     *)
(* them (src/platforms/arduino_esp32/interrupts.cpp).                      *)
(*                                                                         *)
(* set_level calls the pin's listeners one after another, synchronously; a *)
(* listener that runs an ISR runs sketch code, which may write other pins  *)
(* and so start the listeners of those before the first loop is over.  A   *)
(* set_level in progress is a frame of `calls`, innermost last.            *)
(***************************************************************************)
EXTENDS Naturals, Sequences, SequencesExt

CONSTANTS
  Pins,          \* the pins in use (0..MAX_PIN all behave alike)
  PinModes,      \* the modes the sketch passes to pinMode
  Liberties,     \* the careless uses the sketch allows itself, see below
  MaxListeners,  \* bound: listeners of one pin
  MaxDepth       \* bound: set_level calls in progress

(* Two uses that the code does not refuse: attachInterrupt on a pin that   *)
(* has a listener of an earlier one, and changing a pin from an ISR while  *)
(* the listeners of that pin are being called.                             *)
ASSUME GpioAssumption ==
  /\ PinModes \subseteq {"INPUT", "OUTPUT", "INPUT_PULLUP", "INPUT_PULLDOWN"}
  /\ Liberties \subseteq {"reattach", "rewrite"}
  /\ MaxListeners \in Nat /\ MaxDepth \in Nat

Levels == {0, 1}
Edges  == {"RISING", "FALLING", "CHANGE", "ONHIGH", "ONLOW"}
NoEdge == "NONE"

VARIABLES
  level,      \* pins_[p].level
  mode,       \* pins_[p].mode
  listeners,  \* pins_[p].listeners; `seen` is history: the level it was last told
  isr,        \* isrs[p].mode, NoEdge where isrs[p].fn is null
  calls,      \* the set_level calls that are in their listener loop
  attached,   \* history: the pins with an attachInterrupt in force
  pulled      \* history: the pins whose level a pull changed since a set_level did

vars == <<level, mode, listeners, isr, calls, attached, pulled>>

(* A listener is the lambda of attachInterrupt or a callback of a test.    *)
Listener == [kind : {"isr", "test"}, seen : Levels]

(* One run of `for (auto& l : p.listeners) l(old, p.level)`: the next      *)
(* listener to call, whether the ISR is running, and, as history, how      *)
(* often this loop has run it (2 stands for more than once).               *)
Call == [pin : Pins, old : Levels, next : Nat, inIsr : BOOLEAN, ran : 0..2]

TypeOK ==
  /\ level \in [Pins -> Levels]
  /\ mode \in [Pins -> PinModes \cup {"INPUT"}]
  /\ listeners \in [Pins -> Seq(Listener)]
  /\ isr \in [Pins -> Edges \cup {NoEdge}]
  /\ calls \in Seq(Call)
  /\ attached \in SUBSET Pins
  /\ pulled \in SUBSET Pins

Init ==
  /\ level = [p \in Pins |-> 0]
  /\ mode = [p \in Pins |-> "INPUT"]
  /\ listeners = [p \in Pins |-> <<>>]
  /\ isr = [p \in Pins |-> NoEdge]
  /\ calls = <<>>
  /\ attached = {}
  /\ pulled = {}

-----------------------------------------------------------------------------
Top == Last(calls)
InSketch == calls # <<>> => Top.inIsr
InLoop   == calls # <<>> /\ ~Top.inIsr
InProgress(p) == \E i \in DOMAIN calls : calls[i].pin = p

SetTop(c) == calls' = [calls EXCEPT ![Len(calls)] = c]

-----------------------------------------------------------------------------
(* Mutated forms of the operators below, used by no definition: a reset    *)
(* that keeps the listeners or the modes, a loop that calls the same       *)
(* listener again after its ISR or leaves the next one out.                *)

ClearLevels ==
  /\ level' = [p \in Pins |-> 0]
  /\ mode' = [p \in Pins |-> "INPUT"]
  /\ UNCHANGED listeners

KeepModes ==
  /\ level' = [p \in Pins |-> 0]
  /\ listeners' = [p \in Pins |-> <<>>]
  /\ UNCHANGED mode

AgainAfterIsr(c) == [c EXCEPT !.inIsr = FALSE]

SkipAfterIsr(c) == [c EXCEPT !.inIsr = FALSE, !.next = @ + 2]

-----------------------------------------------------------------------------
(* level ? 1 : 0 *)
AsLevel(v) == IF v = 0 THEN 0 ELSE 1

(* should_fire *)
ShouldFire(edge, old, new) ==
  \/ edge = "CHANGE" /\ old # new
  \/ edge \in {"RISING", "ONHIGH"} /\ old = 0 /\ new = 1
  \/ edge \in {"FALLING", "ONLOW"} /\ old = 1 /\ new = 0

(* PinRegistry::reset.  It does not know of the interrupt slots.           *)
ClearPins ==
  /\ level' = [p \in Pins |-> 0]
  /\ mode' = [p \in Pins |-> "INPUT"]
  /\ listeners' = [p \in Pins |-> <<>>]

(* The loop goes on after the ISR with the next listener.                  *)
AfterIsr(c) == [c EXCEPT !.inIsr = FALSE, !.next = @ + 1]

(* set_level: the level changes at once, listeners hear of it only if it   *)
(* is another.                                                             *)
SetLevel(p, v) ==
  /\ InSketch
  /\ "rewrite" \in Liberties \/ ~InProgress(p)
  /\ Len(calls) < MaxDepth
  /\ level' = [level EXCEPT ![p] = AsLevel(v)]
  /\ calls' = IF level[p] # AsLevel(v)
              THEN Append(calls, [pin |-> p, old |-> level[p], next |-> 1,
                                  inIsr |-> FALSE, ran |-> 0])
              ELSE calls
  /\ pulled' = IF level[p] # AsLevel(v) THEN pulled \ {p} ELSE pulled
  /\ UNCHANGED <<mode, listeners, isr, attached>>

(* The loop calls a listener with the old level and the level of now.  An  *)
(* interrupt's listener reads the slot: it runs the ISR, or does nothing.  *)
Runs(c) ==
  /\ listeners[c.pin][c.next].kind = "isr"
  /\ isr[c.pin] # NoEdge
  /\ ShouldFire(isr[c.pin], c.old, level[c.pin])

CallListener ==
  /\ InLoop
  /\ Top.next <= Len(listeners[Top.pin])
  /\ listeners' = [listeners EXCEPT ![Top.pin][Top.next].seen = level[Top.pin]]
  /\ SetTop(IF Runs(Top) THEN [Top EXCEPT !.inIsr = TRUE, !.ran = IF @ = 2 THEN 2 ELSE @ + 1]
                         ELSE [Top EXCEPT !.next = @ + 1])
  /\ UNCHANGED <<level, mode, isr, attached, pulled>>

IsrReturns ==
  /\ calls # <<>>
  /\ Top.inIsr
  /\ SetTop(AfterIsr(Top))
  /\ UNCHANGED <<level, mode, listeners, isr, attached, pulled>>

SetLevelReturns ==
  /\ InLoop
  /\ Len(listeners[Top.pin]) < Top.next
  /\ calls' = Front(calls)
  /\ UNCHANGED <<level, mode, listeners, isr, attached, pulled>>

(* set_mode: a pull resistor sets the level, and no listener hears of it.  *)
SetMode(p, m) ==
  /\ InSketch
  /\ "rewrite" \in Liberties \/ ~InProgress(p)
  /\ mode' = [mode EXCEPT ![p] = m]
  /\ level' = [level EXCEPT ![p] = CASE m = "INPUT_PULLUP"   -> 1
                                     [] m = "INPUT_PULLDOWN" -> 0
                                     [] OTHER                -> @]
  /\ pulled' = IF level'[p] # level[p] THEN pulled \cup {p} ELSE pulled
  /\ UNCHANGED <<listeners, isr, calls, attached>>

(* add_listener.  Appending to the vector that a loop is iterating over is *)
(* undefined in C++, so no caller does that here.                          *)
AddListener(p, kind) ==
  /\ ~InProgress(p)
  /\ Len(listeners[p]) < MaxListeners
  /\ listeners' = [listeners EXCEPT ![p] = Append(@, [kind |-> kind, seen |-> level[p]])]

TestListens(p) ==
  /\ calls = <<>>
  /\ AddListener(p, "test")
  /\ UNCHANGED <<level, mode, isr, calls, attached, pulled>>

(* attachInterrupt adds a listener each time; it never looks for one.      *)
AttachInterrupt(p, edge) ==
  /\ InSketch
  /\ "reattach" \in Liberties \/ \A i \in DOMAIN listeners[p] : listeners[p][i].kind # "isr"
  /\ isr' = [isr EXCEPT ![p] = edge]
  /\ AddListener(p, "isr")
  /\ attached' = attached \cup {p}
  /\ UNCHANGED <<level, mode, calls, pulled>>

(* detachInterrupt clears the slot; the listener stays.                    *)
DetachInterrupt(p) ==
  /\ InSketch
  /\ isr' = [isr EXCEPT ![p] = NoEdge]
  /\ attached' = attached \ {p}
  /\ UNCHANGED <<level, mode, listeners, calls, pulled>>

(* Sim::reset, between tests.  The slots of isrs[] keep their ISR.         *)
Reset ==
  /\ calls = <<>>
  /\ ClearPins
  /\ attached' = {}
  /\ pulled' = {}
  /\ UNCHANGED <<isr, calls>>

(* What a test and an ISR do to `pins`, for interrupts on `edges`, and what*)
(* set_level does by itself.                                               *)
Steps(pins, edges) ==
  \/ \E p \in pins :
       \/ \E v \in 0..2 : SetLevel(p, v)
       \/ \E edge \in edges : AttachInterrupt(p, edge)
       \/ DetachInterrupt(p)
       \/ TestListens(p)
  \/ CallListener
  \/ IsrReturns
  \/ SetLevelReturns

Next ==
  \/ Steps(Pins, Edges)
  \/ \E p \in Pins, m \in PinModes : SetMode(p, m)
  \/ Reset

Spec == Init /\ [][Next]_vars

(* One thread: a listener loop that can step does, and an ISR, at whatever *)
(* depth it runs, is finite code that returns.                             *)
Fairness ==
  /\ WF_vars(CallListener)
  /\ WF_vars(SetLevelReturns)
  /\ \A d \in 1..MaxDepth : SF_vars(IsrReturns /\ Len(calls) = d)

FairSpec == Spec /\ Fairness

-----------------------------------------------------------------------------
(* Properties.                                                             *)

(* The listeners that a set_level has passed have all been told the level  *)
(* their pin has now, also while an ISR in the middle of the loop writes   *)
(* other pins and runs their listeners: when set_level returns, nobody     *)
(* missed the edge.                                                        *)
ListenersUpToDate ==
  \A i \in DOMAIN calls :
    LET p == calls[i].pin
    IN  \A k \in DOMAIN listeners[p] :
          k < calls[i].next => listeners[p][k].seen = level[p]

(* Between set_levels a listener knows the level of its pin, from the last *)
(* change it was told of or from when it was added, unless a pull of       *)
(* pinMode moved the level since (pin_registry.cpp:24-33, 40-52): no other *)
(* call and no order of nested calls leaves a listener with an old level.  *)
ListenersKnow ==
  \A p \in Pins \ pulled : ~InProgress(p) =>
    \A k \in DOMAIN listeners[p] : listeners[p][k].seen = level[p]

(* One change of level runs the pin's ISR at most once: "if the slot is    *)
(* reassigned the old listener becomes a no-op" (interrupts.cpp:32-33).    *)
OneRunPerEdge == \A i \in DOMAIN calls : calls[i].ran <= 1

(* No ISR runs that was not attached in this test, or was detached since,  *)
(* although detachInterrupt removes no listener and a reset leaves the     *)
(* slot of the last test's ISR as it was.                                  *)
RunsOnlyAttached ==
  [][\A p \in Pins : CallListener /\ Top.pin = p /\ Runs(Top) => p \in attached]_vars

(* Every set_level returns although ISRs set other pins, as long as none   *)
(* sets a pin whose listeners are being called.                            *)
SetLevelTerminates == (calls # <<>>) ~> (calls = <<>>)
=============================================================================
