---------------------------- MODULE ArduinoProofs ----------------------------
(***************************************************************************)
(* Theorems about the pins, for any pins, modes and nesting of ISRs: the   *)
(* Arduino calls use the pins as module Gpio has them, an edge runs an ISR *)
(* once and is seen by every listener, only attached ISRs run, and strict  *)
(* mode finds what was wrong.  The last section is about TwoWire, for    *)
(* any transfers, one in the middle of another.                            *)
(***************************************************************************)
EXTENDS Arduino, I2c, SeqLemmas

-----------------------------------------------------------------------------
(* The types of the pins, and a loop that counts its listeners from 1.     *)
GpioTypes == TypeOK /\ \A i \in DOMAIN calls : calls[i].next # 0

LEMMA TopFrame ==
  ASSUME GpioTypes, calls # <<>>
  PROVE  /\ Len(calls) \in DOMAIN calls /\ Top = calls[Len(calls)] /\ Top \in Call
         /\ Top.next # 0 /\ DOMAIN calls = 1..Len(calls) /\ Len(calls) \in Nat \ {0}
<1>1. calls \in Seq(Call)
  BY DEF GpioTypes, TypeOK
<1>2. Len(calls) \in Nat \ {0} /\ DOMAIN calls = 1..Len(calls)
  BY <1>1, EmptySeq, LenProperties
<1>3. Len(calls) \in DOMAIN calls /\ calls[Len(calls)] \in Call
  BY <1>1, <1>2, ElementOfSeq
<1> QED
  BY <1>2, <1>3 DEF GpioTypes, Top, Last

LEMMA NewTop ==
  ASSUME GpioTypes, calls # <<>>, NEW c \in Call, SetTop(c)
  PROVE  /\ calls' \in Seq(Call) /\ Len(calls') = Len(calls) /\ DOMAIN calls' = DOMAIN calls
         /\ \A i \in DOMAIN calls : calls'[i] = IF i = Len(calls) THEN c ELSE calls[i]
<1> DEFINE l == Len(calls)
<1>1. calls \in Seq(Call) /\ l \in DOMAIN calls /\ DOMAIN calls = 1..l
  BY TopFrame DEF GpioTypes, TypeOK
<1>2. calls' = [calls EXCEPT ![l] = c]
  BY DEF SetTop
<1> HIDE DEF l
<1>3. calls' \in Seq(Call) /\ Len(calls') = Len(calls)
  BY <1>1, <1>2, ExceptSeq
<1> QED
  BY <1>1, <1>2, <1>3 DEF l

(* The frame that a set_level pushes.                                      *)
NewFrame(p) == [pin |-> p, old |-> level[p], next |-> 1, inIsr |-> FALSE, ran |-> 0]

(* The top frame after it has called a listener.                           *)
Called(c) == IF Runs(c) THEN [c EXCEPT !.inIsr = TRUE, !.ran = IF @ = 2 THEN 2 ELSE @ + 1]
                        ELSE [c EXCEPT !.next = @ + 1]

LEMMA FrameTypes ==
  ASSUME GpioTypes, NEW c \in Call, c.next # 0
  PROVE  /\ Called(c) \in Call /\ Called(c).next # 0 /\ Called(c).pin = c.pin
         /\ AfterIsr(c) \in Call /\ AfterIsr(c).next # 0 /\ AfterIsr(c).pin = c.pin
<1>1. /\ c.pin \in Pins /\ c.old \in Levels /\ c.next \in Nat /\ c.inIsr \in BOOLEAN
      /\ c.ran \in {0, 1, 2} /\ c.next + 1 \in Nat \ {0}
  BY DEF Call
<1>2. CASE Runs(c)
  <2>1. Called(c) = [c EXCEPT !.inIsr = TRUE, !.ran = IF @ = 2 THEN 2 ELSE @ + 1]
    BY <1>2 DEF Called
  <2>2. (IF c.ran = 2 THEN 2 ELSE c.ran + 1) \in 0..2
    BY <1>1
  <2>3. Called(c) \in Call /\ Called(c).next = c.next /\ Called(c).pin = c.pin
    BY <1>1, <2>1, <2>2 DEF Call
  <2>4. AfterIsr(c) \in Call /\ AfterIsr(c).next = c.next + 1 /\ AfterIsr(c).pin = c.pin
    BY <1>1 DEF AfterIsr, Call
  <2> QED
    BY <1>1, <2>3, <2>4
<1>3. CASE ~Runs(c)
  <2>1. Called(c) = [c EXCEPT !.next = @ + 1]
    BY <1>3 DEF Called
  <2>2. Called(c) \in Call /\ Called(c).next = c.next + 1 /\ Called(c).pin = c.pin
    BY <1>1, <2>1 DEF Call
  <2>3. AfterIsr(c) \in Call /\ AfterIsr(c).next = c.next + 1 /\ AfterIsr(c).pin = c.pin
    BY <1>1 DEF AfterIsr, Call
  <2> QED
    BY <1>1, <2>2, <2>3
<1> QED
  BY <1>2, <1>3

(* What a step does to the set_level calls in progress.                    *)
LEMMA Frames ==
  ASSUME GpioTypes, [Next]_vars
  PROVE  /\ calls' \in Seq(Call)
         /\ \A i \in DOMAIN calls' :
              \/ i \in DOMAIN calls /\ calls'[i] = calls[i]
              \/ \E p \in Pins : calls'[i] = NewFrame(p)
              \/ CallListener /\ i = Len(calls) /\ calls'[i] = Called(Top)
              \/ IsrReturns /\ i = Len(calls) /\ calls'[i] = AfterIsr(Top)
<1> DEFINE Said ==
      /\ calls' \in Seq(Call)
      /\ \A i \in DOMAIN calls' :
           \/ i \in DOMAIN calls /\ calls'[i] = calls[i]
           \/ \E p \in Pins : calls'[i] = NewFrame(p)
           \/ CallListener /\ i = Len(calls) /\ calls'[i] = Called(Top)
           \/ IsrReturns /\ i = Len(calls) /\ calls'[i] = AfterIsr(Top)
<1>0. calls \in Seq(Call) /\ DOMAIN calls = 1..Len(calls) /\ level \in [Pins -> Levels]
  BY LenProperties DEF GpioTypes, TypeOK
<1>1. CASE UNCHANGED calls
  BY <1>0, <1>1
<1>2. ASSUME NEW p \in Pins, NEW v, SetLevel(p, v) PROVE Said
  <2>1. CASE calls' = calls
    BY <1>1, <2>1
  <2>2. CASE calls' = Append(calls, NewFrame(p))
    <3> DEFINE f == NewFrame(p)
    <3>1. f \in Call
      BY <1>0 DEF NewFrame, Call
    <3>2. f = NewFrame(p)
      OBVIOUS
    <3> HIDE DEF f
    <3>3. /\ calls' \in Seq(Call) /\ Len(calls') = Len(calls) + 1
          /\ \A i \in 1..Len(calls) : calls'[i] = calls[i]
          /\ calls'[Len(calls) + 1] = f
      BY <1>0, <2>2, <3>1, <3>2, AppendProperties
    <3>4. DOMAIN calls' = 1..(Len(calls) + 1) /\ Len(calls) \in Nat
      BY <1>0, <3>3, LenProperties
    <3>5. \A i \in DOMAIN calls' : i \in DOMAIN calls \/ i = Len(calls) + 1
      BY <1>0, <3>4
    <3> QED
      BY <1>0, <3>2, <3>3, <3>5
  <2> QED
    BY <1>2, <2>1, <2>2 DEF SetLevel, NewFrame
<1>3. CASE CallListener
  <2>1. calls # <<>> /\ SetTop(Called(Top))
    BY <1>3 DEF CallListener, InLoop, Called
  <2>2. Called(Top) \in Call
    BY <2>1, TopFrame, FrameTypes
  <2> HIDE DEF Called
  <2> QED
    BY <1>3, <2>1, <2>2, NewTop
<1>4. CASE IsrReturns
  <2>1. calls # <<>> /\ SetTop(AfterIsr(Top))
    BY <1>4 DEF IsrReturns
  <2>2. AfterIsr(Top) \in Call
    BY <2>1, TopFrame, FrameTypes
  <2> QED
    BY <1>4, <2>1, <2>2, NewTop
<1>5. CASE SetLevelReturns
  <2>1. calls # <<>> /\ calls' = Front(calls)
    BY <1>5 DEF SetLevelReturns, InLoop
  <2>2. /\ calls' \in Seq(Call) /\ Len(calls') = Len(calls) - 1
        /\ \A i \in 1..(Len(calls) - 1) : calls'[i] = calls[i]
    BY <1>0, <2>1, FrontProperties
  <2>3. DOMAIN calls' = 1..(Len(calls) - 1) /\ Len(calls) \in Nat
    BY <1>0, <2>2, LenProperties
  <2>4. \A i \in DOMAIN calls' : i \in DOMAIN calls
    BY <1>0, <2>3
  <2> QED
    BY <2>2, <2>3, <2>4
<1>6. Said
  BY <1>1, <1>2, <1>3, <1>4, <1>5 DEF Next, Steps, vars, AttachInterrupt, DetachInterrupt,
     TestListens, SetMode, Reset
<1> QED
  BY <1>6

(* What a step does to the listeners and the level of a pin.               *)
LEMMA Hears ==
  ASSUME GpioTypes, NEW p \in Pins, NEW k \in DOMAIN listeners[p],
         NEW v \in Levels
  PROVE  LET r == [listeners EXCEPT ![p][k].seen = v]
         IN  /\ r \in [Pins -> Seq(Listener)]
             /\ \A q \in Pins : DOMAIN r[q] = DOMAIN listeners[q]
             /\ \A q \in Pins : \A j \in DOMAIN listeners[q] :
                  /\ r[q][j].kind = listeners[q][j].kind
                  /\ r[q][j].seen = IF q = p /\ j = k THEN v ELSE listeners[q][j].seen
<1> DEFINE ls == listeners[p]
           e  == [ls[k] EXCEPT !.seen = v]
           t  == [ls EXCEPT ![k] = e]
           r  == [listeners EXCEPT ![p] = t]
<1>1. listeners \in [Pins -> Seq(Listener)] /\ ls \in Seq(Listener)
  BY DEF GpioTypes, TypeOK
<1>2. ls[k] \in Listener
  BY <1>1, ElementOfSeq, LenProperties
<1>3. e \in Listener /\ e.kind = ls[k].kind /\ e.seen = v
  BY <1>2 DEF Listener
<1>4. [listeners EXCEPT ![p][k].seen = v] = r
  BY <1>1
<1>5. DOMAIN ls = 1..Len(ls)
  BY <1>1, LenProperties
<1> SUFFICES /\ r \in [Pins -> Seq(Listener)]
             /\ \A q \in Pins : DOMAIN r[q] = DOMAIN listeners[q]
             /\ \A q \in Pins : \A j \in DOMAIN listeners[q] :
                  /\ r[q][j].kind = listeners[q][j].kind
                  /\ r[q][j].seen = IF q = p /\ j = k THEN v ELSE listeners[q][j].seen
  BY <1>4
<1> HIDE DEF e
<1>6. /\ t \in Seq(Listener) /\ DOMAIN t = DOMAIN ls
      /\ \A j \in DOMAIN ls : t[j] = IF j = k THEN e ELSE ls[j]
  BY <1>1, <1>3, <1>5, ExceptSeq
<1> HIDE DEF t
<1>7. r \in [Pins -> Seq(Listener)] /\ \A q \in Pins : r[q] = IF q = p THEN t ELSE listeners[q]
  BY <1>1, <1>6
<1> HIDE DEF r
<1> QED
  BY <1>3, <1>6, <1>7

LEMMA Listens ==
  ASSUME GpioTypes, NEW p \in Pins, NEW kind \in {"isr", "test"}
  PROVE  LET e == [kind |-> kind, seen |-> level[p]]
             r == [listeners EXCEPT ![p] = Append(@, e)]
         IN  /\ r \in [Pins -> Seq(Listener)]
             /\ \A q \in Pins : q # p => r[q] = listeners[q]
             /\ DOMAIN r[p] = 1..(Len(listeners[p]) + 1)
             /\ DOMAIN listeners[p] = 1..Len(listeners[p]) /\ Len(listeners[p]) \in Nat
             /\ \A j \in DOMAIN listeners[p] : r[p][j] = listeners[p][j]
             /\ r[p][Len(listeners[p]) + 1] = e
<1> DEFINE ls == listeners[p]
           e  == [kind |-> kind, seen |-> level[p]]
           t  == Append(ls, e)
           r  == [listeners EXCEPT ![p] = Append(@, e)]
<1>1. listeners \in [Pins -> Seq(Listener)] /\ ls \in Seq(Listener) /\ level \in [Pins -> Levels]
  BY DEF GpioTypes, TypeOK
<1>2. e \in Listener
  BY <1>1 DEF Listener
<1> SUFFICES /\ r \in [Pins -> Seq(Listener)]
             /\ \A q \in Pins : q # p => r[q] = listeners[q]
             /\ DOMAIN r[p] = 1..(Len(ls) + 1)
             /\ DOMAIN ls = 1..Len(ls) /\ Len(ls) \in Nat
             /\ \A j \in DOMAIN ls : r[p][j] = ls[j]
             /\ r[p][Len(ls) + 1] = e
  OBVIOUS
<1>3. r = [listeners EXCEPT ![p] = t]
  BY <1>1
<1> HIDE DEF e
<1>4. /\ t \in Seq(Listener) /\ Len(t) = Len(ls) + 1
      /\ \A j \in 1..Len(ls) : t[j] = ls[j]
      /\ t[Len(ls) + 1] = e
  BY <1>1, <1>2, AppendProperties
<1>5. DOMAIN t = 1..(Len(ls) + 1) /\ DOMAIN ls = 1..Len(ls) /\ Len(ls) \in Nat
  BY <1>1, <1>4, LenProperties
<1> HIDE DEF t, r
<1>6. r \in [Pins -> Seq(Listener)] /\ \A q \in Pins : r[q] = IF q = p THEN t ELSE listeners[q]
  BY <1>1, <1>3, <1>4
<1> HIDE DEF ls
<1> QED
  BY <1>4, <1>5, <1>6

(* The loop's next listener.                                               *)
LEMMA NextListener ==
  ASSUME GpioTypes, CallListener
  PROVE  /\ calls # <<>> /\ ~Top.inIsr /\ Top \in Call
         /\ Top.pin \in Pins /\ Top.next \in DOMAIN listeners[Top.pin]
         /\ level[Top.pin] \in Levels
<1>1. calls # <<>> /\ ~Top.inIsr /\ Top.next <= Len(listeners[Top.pin])
  BY DEF CallListener, InLoop
<1>2. Top \in Call /\ Top.next # 0
  BY <1>1, TopFrame
<1>3. Top.pin \in Pins /\ Top.next \in Nat
  BY <1>2 DEF Call
<1>4. listeners[Top.pin] \in Seq(Listener) /\ level[Top.pin] \in Levels
  BY <1>3 DEF GpioTypes, TypeOK
<1>5. DOMAIN listeners[Top.pin] = 1..Len(listeners[Top.pin]) /\ Len(listeners[Top.pin]) \in Nat
  BY <1>4, LenProperties
<1> QED
  BY <1>1, <1>2, <1>3, <1>4, <1>5

LEMMA GpioTypesStep == GpioTypes /\ [Next]_vars => GpioTypes'
<1> SUFFICES ASSUME GpioTypes, [Next]_vars
             PROVE  GpioTypes'
  OBVIOUS
<1>0. /\ level \in [Pins -> Levels] /\ mode \in [Pins -> PinModes \cup {"INPUT"}]
      /\ listeners \in [Pins -> Seq(Listener)] /\ isr \in [Pins -> Edges \cup {NoEdge}]
      /\ attached \in SUBSET Pins /\ pulled \in SUBSET Pins
  BY DEF GpioTypes, TypeOK
<1>1. calls' \in Seq(Call) /\ \A i \in DOMAIN calls' : calls'[i].next # 0
  <2>1. ASSUME NEW i \in DOMAIN calls'
        PROVE  calls'[i].next # 0
    <3>1. CASE i \in DOMAIN calls /\ calls'[i] = calls[i]
      BY <3>1 DEF GpioTypes
    <3>2. CASE \E p \in Pins : calls'[i] = NewFrame(p)
      BY <3>2 DEF NewFrame
    <3>3. CASE CallListener /\ calls'[i] = Called(Top)
      <4>1. calls # <<>>
        BY <3>3 DEF CallListener, InLoop
      <4> QED
        BY <3>3, <4>1, TopFrame, FrameTypes
    <3>4. CASE IsrReturns /\ calls'[i] = AfterIsr(Top)
      <4>1. calls # <<>>
        BY <3>4 DEF IsrReturns
      <4> QED
        BY <3>4, <4>1, TopFrame, FrameTypes
    <3> QED
      BY <2>1, <3>1, <3>2, <3>3, <3>4, Frames
  <2> QED
    BY <2>1, Frames
<1>2. level' \in [Pins -> Levels]
  <2>1. ASSUME NEW p \in Pins, NEW v \in 0..2, SetLevel(p, v)
        PROVE  level' \in [Pins -> Levels]
    BY <1>0, <2>1 DEF SetLevel, AsLevel, Levels
  <2>2. ASSUME NEW p \in Pins, NEW m \in PinModes, SetMode(p, m)
        PROVE  level' \in [Pins -> Levels]
    <3>1. level' = [level EXCEPT ![p] = CASE m = "INPUT_PULLUP"   -> 1
                                          [] m = "INPUT_PULLDOWN" -> 0
                                          [] OTHER                -> @]
      BY <2>2 DEF SetMode
    <3>2. CASE m = "INPUT_PULLUP"
      BY <1>0, <3>1, <3>2 DEF Levels
    <3>3. CASE m = "INPUT_PULLDOWN"
      BY <1>0, <3>1, <3>3 DEF Levels
    <3>4. CASE m # "INPUT_PULLUP" /\ m # "INPUT_PULLDOWN"
      BY <1>0, <3>1, <3>4 DEF Levels
    <3> QED
      BY <3>2, <3>3, <3>4
  <2>3. Reset => level' \in [Pins -> Levels]
    BY DEF Reset, ClearPins, Levels
  <2> QED
    BY <1>0, <2>1, <2>2, <2>3 DEF Next, Steps, vars, AttachInterrupt, DetachInterrupt, TestListens,
       CallListener, IsrReturns, SetLevelReturns
<1>3. listeners' \in [Pins -> Seq(Listener)]
  <2>1. CASE CallListener
    <3> DEFINE t == Top.pin
               r == [listeners EXCEPT ![t][Top.next].seen = level[t]]
    <3>1. listeners' = r
      BY <2>1 DEF CallListener
    <3>2. t \in Pins /\ Top.next \in DOMAIN listeners[t] /\ level[t] \in Levels
      BY <2>1, NextListener
    <3>3. r \in [Pins -> Seq(Listener)]
      BY <3>2, Hears
    <3> QED
      BY <3>1, <3>3
  <2>2. ASSUME NEW p \in Pins, NEW kind \in {"isr", "test"}, AddListener(p, kind)
        PROVE  listeners' \in [Pins -> Seq(Listener)]
    BY <2>2, Listens DEF AddListener
  <2>3. Reset => listeners' \in [Pins -> Seq(Listener)]
    BY EmptySeq DEF Reset, ClearPins
  <2> QED
    BY <1>0, <2>1, <2>2, <2>3 DEF Next, Steps, vars, AttachInterrupt, DetachInterrupt, TestListens,
       SetLevel, SetMode, IsrReturns, SetLevelReturns
<1>4. mode' \in [Pins -> PinModes \cup {"INPUT"}]
  BY <1>0 DEF Next, Steps, vars, AttachInterrupt, DetachInterrupt, TestListens, SetLevel, SetMode,
     CallListener, IsrReturns, SetLevelReturns, Reset, ClearPins
<1>5. /\ isr' \in [Pins -> Edges \cup {NoEdge}]
      /\ attached' \in SUBSET Pins /\ pulled' \in SUBSET Pins
  BY <1>0 DEF Next, Steps, vars, AttachInterrupt, DetachInterrupt, TestListens, SetLevel, SetMode,
     CallListener, IsrReturns, SetLevelReturns, Reset, ClearPins
<1> QED
  BY <1>1, <1>2, <1>3, <1>4, <1>5 DEF GpioTypes, TypeOK

(* The listeners of a pin whose loop is in progress stay, and are told the *)
(* level that the pin has, which stays too where no ISR rewrites it.       *)
LEMMA ListenersKept ==
  ASSUME GpioTypes, [Next]_vars, NEW p \in Pins, InProgress(p)
  PROVE  /\ DOMAIN listeners'[p] = DOMAIN listeners[p]
         /\ \A k \in DOMAIN listeners[p] :
              /\ listeners'[p][k].kind = listeners[p][k].kind
              /\ listeners'[p][k].seen \in {listeners[p][k].seen, level[p]}
         /\ "rewrite" \notin Liberties => level'[p] = level[p]
<1> DEFINE Kept == /\ DOMAIN listeners'[p] = DOMAIN listeners[p]
                   /\ \A k \in DOMAIN listeners[p] :
                        /\ listeners'[p][k].kind = listeners[p][k].kind
                        /\ listeners'[p][k].seen \in {listeners[p][k].seen, level[p]}
<1>0. level \in [Pins -> Levels] /\ listeners \in [Pins -> Seq(Listener)] /\ calls # <<>>
  BY EmptySeq DEF GpioTypes, TypeOK, InProgress
<1>1. listeners'[p] = listeners[p] => Kept
  OBVIOUS
<1>2. ASSUME CallListener PROVE Kept
  <2> DEFINE t == Top.pin
             r == [listeners EXCEPT ![t][Top.next].seen = level[t]]
  <2>1. listeners' = r
    BY <1>2 DEF CallListener
  <2>2. t \in Pins /\ Top.next \in DOMAIN listeners[t] /\ level[t] \in Levels
    BY <1>2, NextListener
  <2>3. /\ \A q \in Pins : DOMAIN r[q] = DOMAIN listeners[q]
        /\ \A q \in Pins : \A j \in DOMAIN listeners[q] :
             /\ r[q][j].kind = listeners[q][j].kind
             /\ r[q][j].seen = IF q = t /\ j = Top.next THEN level[t] ELSE listeners[q][j].seen
    BY <2>2, Hears
  <2> HIDE DEF r, t
  <2> QED
    BY <2>1, <2>3
<1>3. ASSUME NEW q \in Pins, NEW kind \in {"isr", "test"}, AddListener(q, kind)
      PROVE  Kept
  <2>1. q # p
    BY <1>3 DEF AddListener
  <2>2. listeners'[p] = listeners[p]
    BY <1>0, <1>3, <2>1 DEF AddListener
  <2> QED
    BY <1>1, <2>2
<1>4. Kept
  BY <1>0, <1>1, <1>2, <1>3 DEF Next, Steps, vars, AttachInterrupt, DetachInterrupt, TestListens,
     SetLevel, SetMode, IsrReturns, SetLevelReturns, Reset
<1>5. ASSUME "rewrite" \notin Liberties
      PROVE  level'[p] = level[p]
  BY <1>0, <1>5 DEF Next, Steps, vars, AttachInterrupt, DetachInterrupt, TestListens,
     SetLevel, SetMode, CallListener, IsrReturns, SetLevelReturns, Reset
<1> QED
  BY <1>4, <1>5

-----------------------------------------------------------------------------
(* The listeners that a loop has called.                                   *)
Passed(c) == {k \in DOMAIN listeners[c.pin] : k < c.next \/ (c.inIsr /\ k = c.next)}

IsIsr(p, k) == listeners[p][k].kind = "isr"

(* A pin has one listener that runs its ISR; a loop that has run it has    *)
(* passed it.                                                              *)
OneIsr == \A p \in Pins : \A j, k \in DOMAIN listeners[p] : IsIsr(p, j) /\ IsIsr(p, k) => j = k

RanOnce(c) == c.ran = 0 \/ (c.ran = 1 /\ \E k \in Passed(c) : IsIsr(c.pin, k))

OnceInv == OneIsr /\ \A i \in DOMAIN calls : RanOnce(calls[i])

LEMMA OneIsrStep ==
  GpioTypes /\ "reattach" \notin Liberties /\ OneIsr /\ [Next]_vars => OneIsr'
<1> SUFFICES ASSUME GpioTypes, "reattach" \notin Liberties, OneIsr, [Next]_vars
             PROVE  OneIsr'
  OBVIOUS
<1>0. listeners \in [Pins -> Seq(Listener)]
  BY DEF GpioTypes, TypeOK
<1>1. CASE listeners' = listeners
  BY <1>1 DEF OneIsr, IsIsr
<1>2. CASE CallListener
  <2> DEFINE t == Top.pin
             r == [listeners EXCEPT ![t][Top.next].seen = level[t]]
  <2>1. listeners' = r
    BY <1>2 DEF CallListener
  <2>2. t \in Pins /\ Top.next \in DOMAIN listeners[t] /\ level[t] \in Levels
    BY <1>2, NextListener
  <2>3. /\ \A q \in Pins : DOMAIN r[q] = DOMAIN listeners[q]
        /\ \A q \in Pins : \A j \in DOMAIN listeners[q] : r[q][j].kind = listeners[q][j].kind
    BY <2>2, Hears
  <2> HIDE DEF r, t
  <2> QED
    BY <2>1, <2>3 DEF OneIsr, IsIsr
<1>3. ASSUME NEW p \in Pins, NEW kind \in {"isr", "test"}, AddListener(p, kind),
             kind = "isr" => \A i \in DOMAIN listeners[p] : listeners[p][i].kind # "isr"
      PROVE  OneIsr'
  <2> DEFINE e == [kind |-> kind, seen |-> level[p]]
             r == [listeners EXCEPT ![p] = Append(@, e)]
             l == Len(listeners[p])
  <2>1. listeners' = r
    BY <1>3 DEF AddListener
  <2>2. /\ \A q \in Pins : q # p => r[q] = listeners[q]
        /\ DOMAIN r[p] = 1..(l + 1) /\ DOMAIN listeners[p] = 1..l /\ l \in Nat
        /\ \A j \in DOMAIN listeners[p] : r[p][j] = listeners[p][j]
        /\ r[p][l + 1] = e
    BY Listens
  <2>3. e.kind = kind
    OBVIOUS
  <2> HIDE DEF r, e, l
  <2> SUFFICES ASSUME NEW q \in Pins, NEW j \in DOMAIN r[q], NEW k \in DOMAIN r[q],
                      r[q][j].kind = "isr", r[q][k].kind = "isr"
               PROVE  j = k
    BY <2>1 DEF OneIsr, IsIsr
  <2>4. CASE q # p
    BY <2>2, <2>4 DEF OneIsr, IsIsr
  <2>5. CASE q = p
    <3>1. \A i \in 1..l : listeners[p][i].kind = "isr" => \A h \in 1..l :
             listeners[p][h].kind = "isr" => i = h
      BY <2>2 DEF OneIsr, IsIsr
    <3>2. j \in 1..l \/ j = l + 1
      BY <2>2, <2>5
    <3>3. k \in 1..l \/ k = l + 1
      BY <2>2, <2>5
    <3> QED
      BY <1>3, <2>2, <2>3, <2>5, <3>1, <3>2, <3>3
  <2> QED
    BY <2>4, <2>5
<1>4. CASE Reset
  <2>1. listeners' = [p \in Pins |-> <<>>] /\ DOMAIN <<>> = {}
    BY <1>4, EmptySeq DEF Reset, ClearPins
  <2> QED
    BY <2>1 DEF OneIsr
<1> QED
  BY <1>1, <1>2, <1>3, <1>4 DEF Next, Steps, vars, AttachInterrupt, DetachInterrupt, TestListens,
     SetLevel, SetMode, IsrReturns, SetLevelReturns

LEMMA OnceStep ==
  GpioTypes /\ "reattach" \notin Liberties /\ OnceInv /\ [Next]_vars => OnceInv'
<1> SUFFICES ASSUME GpioTypes, "reattach" \notin Liberties, OnceInv, [Next]_vars
             PROVE  OnceInv'
  OBVIOUS
<1>1. OneIsr'
  BY OneIsrStep DEF OnceInv
<1>2. ASSUME NEW c \in Call, RanOnce(c), InProgress(c.pin)
      PROVE  RanOnce(c)'
  <2>1. c.pin \in Pins
    BY DEF Call
  <2>2. /\ DOMAIN listeners'[c.pin] = DOMAIN listeners[c.pin]
        /\ \A k \in DOMAIN listeners[c.pin] : listeners'[c.pin][k].kind = listeners[c.pin][k].kind
    BY <1>2, <2>1, ListenersKept
  <2> QED
    BY <1>2, <2>2 DEF RanOnce, Passed, IsIsr
<1>3. ASSUME NEW i \in DOMAIN calls'
      PROVE  RanOnce(calls[i])'
  <2>1. CASE i \in DOMAIN calls /\ calls'[i] = calls[i]
    <3>1. calls[i] \in Call /\ RanOnce(calls[i]) /\ InProgress(calls[i].pin)
      BY <2>1, ElementOfSeq, LenProperties DEF GpioTypes, TypeOK, OnceInv, InProgress
    <3>2. \A c \in Call : c = calls[i] => (c = calls'[i] /\ RanOnce(c)')
      BY <1>2, <2>1, <3>1
    <3> QED
      BY <3>1, <3>2, <2>1 DEF RanOnce, Passed, IsIsr
  <2>2. CASE \E p \in Pins : calls'[i] = NewFrame(p)
    BY <2>2 DEF RanOnce, NewFrame
  <2>3. ASSUME calls # <<>>, NEW c, calls'[i] = c, c.pin = Top.pin,
               \/ c.ran = Top.ran /\ Passed(Top) \subseteq Passed(c)
               \/ c.ran = Top.ran + 1 /\ Top.ran = 0 /\ \E k \in Passed(c) : IsIsr(c.pin, k)
        PROVE  RanOnce(calls[i])'
    <3>1. Top \in Call /\ RanOnce(Top) /\ InProgress(Top.pin)
      BY <2>3, TopFrame DEF OnceInv, InProgress
    <3>2. RanOnce(c)
      BY <2>3, <3>1 DEF RanOnce
    <3>3. /\ DOMAIN listeners'[c.pin] = DOMAIN listeners[c.pin]
          /\ \A k \in DOMAIN listeners[c.pin] : listeners'[c.pin][k].kind = listeners[c.pin][k].kind
      BY <2>3, <3>1, ListenersKept DEF Call
    <3>4. RanOnce(c) => (calls'[i]).ran = 0 \/ ((calls'[i]).ran = 1 /\ \E k \in Passed(c) : IsIsr(c.pin, k))
      BY <2>3 DEF RanOnce
    <3> QED
      BY <2>3, <3>2, <3>3, <3>4 DEF RanOnce, Passed, IsIsr
  <2>4. CASE CallListener /\ calls'[i] = Called(Top)
    <3>1. /\ calls # <<>> /\ ~Top.inIsr /\ Top \in Call /\ Top.next \in DOMAIN listeners[Top.pin]
          /\ Top.pin \in Pins
      BY <2>4, NextListener
    <3>2. /\ Top.next \in Nat /\ Top.ran \in 0..2
          /\ \A k \in DOMAIN listeners[Top.pin] : k \in Nat
      <4>1. listeners[Top.pin] \in Seq(Listener)
        BY <3>1 DEF GpioTypes, TypeOK
      <4>2. DOMAIN listeners[Top.pin] = 1..Len(listeners[Top.pin])
        BY <4>1, LenProperties
      <4> QED
        BY <3>1, <4>2 DEF Call
    <3>3. Called(Top).pin = Top.pin
      BY <3>1, FrameTypes, TopFrame
    <3>4. CASE ~Runs(Top)
      <4>1. Called(Top) = [Top EXCEPT !.next = @ + 1]
        BY <3>4 DEF Called
      <4>2. Called(Top).ran = Top.ran /\ Called(Top).next = Top.next + 1
        BY <3>1, <4>1 DEF Call
      <4>3. Passed(Top) \subseteq Passed(Called(Top))
        BY <3>1, <3>2, <3>3, <4>2 DEF Passed
      <4> QED
        BY <2>3, <2>4, <3>1, <3>3, <4>2, <4>3
    <3>5. CASE Runs(Top)
      <4>1. Called(Top) = [Top EXCEPT !.inIsr = TRUE, !.ran = IF @ = 2 THEN 2 ELSE @ + 1]
        BY <3>5 DEF Called
      <4>2. /\ Called(Top).ran = (IF Top.ran = 2 THEN 2 ELSE Top.ran + 1)
            /\ Called(Top).next = Top.next /\ Called(Top).inIsr
        BY <3>1, <4>1 DEF Call
      <4>3. Top.next \in Passed(Called(Top)) /\ IsIsr(Top.pin, Top.next)
        BY <3>1, <3>3, <3>5, <4>2 DEF Passed, Runs, IsIsr
      <4>4. Top.ran = 0
        <5> SUFFICES ASSUME Top.ran # 0 PROVE FALSE
          OBVIOUS
        <5>1. PICK k \in Passed(Top) : IsIsr(Top.pin, k)
          BY <3>1, TopFrame DEF OnceInv, RanOnce
        <5>2. k < Top.next /\ k \in DOMAIN listeners[Top.pin]
          BY <3>1, <5>1 DEF Passed
        <5>3. k = Top.next
          BY <3>1, <4>3, <5>1, <5>2 DEF OnceInv, OneIsr
        <5> QED
          BY <3>2, <5>2, <5>3
      <4>5. Called(Top).ran = Top.ran + 1
        BY <4>2, <4>4
      <4> QED
        BY <2>3, <2>4, <3>1, <3>3, <4>3, <4>4, <4>5
    <3> QED
      BY <3>4, <3>5
  <2>5. CASE IsrReturns /\ calls'[i] = AfterIsr(Top)
    <3>1. calls # <<>> /\ Top.inIsr
      BY <2>5 DEF IsrReturns
    <3>2. Top \in Call /\ Top.next \in Nat /\ Top.pin \in Pins
      BY <3>1, TopFrame DEF Call
    <3>3. /\ AfterIsr(Top).pin = Top.pin /\ AfterIsr(Top).ran = Top.ran
          /\ AfterIsr(Top).next = Top.next + 1
      BY <3>2 DEF AfterIsr, Call
    <3>4. \A k \in DOMAIN listeners[Top.pin] : k \in Nat
      <4>1. listeners[Top.pin] \in Seq(Listener)
        BY <3>2 DEF GpioTypes, TypeOK
      <4> QED
        BY <4>1, LenProperties
    <3>5. Passed(Top) \subseteq Passed(AfterIsr(Top))
      BY <3>2, <3>3, <3>4 DEF Passed
    <3> QED
      BY <2>3, <2>5, <3>1, <3>3, <3>5
  <2> QED
    BY <1>3, <2>1, <2>2, <2>4, <2>5, Frames
<1> QED
  BY <1>1, <1>3 DEF OnceInv

-----------------------------------------------------------------------------
(* What a loop has passed has been told the level of now.                  *)
Told(c) == \A k \in Passed(c) : listeners[c.pin][k].seen = level[c.pin]

ToldInv == \A i \in DOMAIN calls : Told(calls[i])

LEMMA ToldStep ==
  GpioTypes /\ "rewrite" \notin Liberties /\ ToldInv /\ [Next]_vars => ToldInv'
<1> SUFFICES ASSUME GpioTypes, "rewrite" \notin Liberties, ToldInv, [Next]_vars,
                    NEW i \in DOMAIN calls'
             PROVE  Told(calls[i])'
  BY DEF ToldInv
<1>1. ASSUME NEW c \in Call, InProgress(c.pin), calls'[i] = c,
             \A k \in Passed(c) : \/ listeners[c.pin][k].seen = level[c.pin]
                                  \/ listeners'[c.pin][k].seen = level[c.pin]
      PROVE  Told(calls[i])'
  <2>1. c.pin \in Pins
    BY DEF Call
  <2>2. /\ DOMAIN listeners'[c.pin] = DOMAIN listeners[c.pin]
        /\ \A k \in DOMAIN listeners[c.pin] :
             listeners'[c.pin][k].seen \in {listeners[c.pin][k].seen, level[c.pin]}
        /\ level'[c.pin] = level[c.pin]
    BY <1>1, <2>1, ListenersKept
  <2>3. \A k \in Passed(c) : listeners'[c.pin][k].seen = level'[c.pin]
    BY <1>1, <2>2 DEF Passed
  <2> QED
    BY <1>1, <2>2, <2>3 DEF Told, Passed
<1>2. CASE i \in DOMAIN calls /\ calls'[i] = calls[i]
  <2>1. calls[i] \in Call /\ Told(calls[i]) /\ InProgress(calls[i].pin)
    BY <1>2, ElementOfSeq, LenProperties DEF GpioTypes, TypeOK, ToldInv, InProgress
  <2> QED
    BY <1>1, <1>2, <2>1 DEF Told
<1>3. ASSUME NEW p \in Pins, calls'[i] = NewFrame(p)
      PROVE  Told(calls[i])'
  <2>1. calls'[i].next = 1 /\ ~calls'[i].inIsr /\ calls'[i].pin = p
    BY <1>3 DEF NewFrame
  <2>2. listeners' \in [Pins -> Seq(Listener)]
    BY GpioTypesStep DEF GpioTypes, TypeOK
  <2>3. DOMAIN listeners'[p] = 1..Len(listeners'[p]) /\ Len(listeners'[p]) \in Nat
    BY <2>2, LenProperties
  <2>4. \A k \in DOMAIN listeners'[p] : ~(k < 1)
    BY <2>3
  <2> QED
    BY <2>1, <2>4 DEF Told, Passed
<1>4. CASE CallListener /\ calls'[i] = Called(Top)
  <2>1. /\ calls # <<>> /\ ~Top.inIsr /\ Top \in Call /\ Top.next \in DOMAIN listeners[Top.pin]
        /\ Top.pin \in Pins /\ level[Top.pin] \in Levels
    BY <1>4, NextListener
  <2>2. Told(Top) /\ InProgress(Top.pin)
    BY <2>1, TopFrame DEF ToldInv, InProgress
  <2>3. Called(Top) \in Call /\ Called(Top).pin = Top.pin
    BY <2>1, FrameTypes, TopFrame
  <2>4. listeners'[Top.pin][Top.next].seen = level[Top.pin]
    <3>1. listeners' = [listeners EXCEPT ![Top.pin][Top.next].seen = level[Top.pin]]
      BY <1>4 DEF CallListener
    <3> QED
      BY <2>1, <3>1, Hears
  <2>5. \A k \in Passed(Called(Top)) : k \in Passed(Top) \/ k = Top.next
    <3>1. Top.next \in Nat /\ \A k \in DOMAIN listeners[Top.pin] : k \in Nat
      <4>1. listeners[Top.pin] \in Seq(Listener)
        BY <2>1 DEF GpioTypes, TypeOK
      <4> QED
        BY <2>1, <4>1, LenProperties DEF Call
    <3>2. \/ Called(Top).next = Top.next
          \/ Called(Top).next = Top.next + 1 /\ ~Called(Top).inIsr
      BY <2>1 DEF Called, Call
    <3> QED
      BY <2>1, <2>3, <3>1, <3>2 DEF Passed
  <2> QED
    BY <1>1, <1>4, <2>2, <2>3, <2>4, <2>5 DEF Told
<1>5. CASE IsrReturns /\ calls'[i] = AfterIsr(Top)
  <2>1. calls # <<>> /\ Top.inIsr
    BY <1>5 DEF IsrReturns
  <2>2. Top \in Call /\ Top.next \in Nat /\ Top.pin \in Pins /\ Told(Top) /\ InProgress(Top.pin)
    BY <2>1, TopFrame DEF Call, ToldInv, InProgress
  <2>3. AfterIsr(Top) \in Call /\ AfterIsr(Top).pin = Top.pin
    BY <2>1, <2>2, FrameTypes, TopFrame
  <2>4. AfterIsr(Top).next = Top.next + 1 /\ ~AfterIsr(Top).inIsr
    BY <2>2 DEF AfterIsr, Call
  <2>5. \A k \in DOMAIN listeners[Top.pin] : k \in Nat
    <3>1. listeners[Top.pin] \in Seq(Listener)
      BY <2>2 DEF GpioTypes, TypeOK
    <3> QED
      BY <3>1, LenProperties
  <2>6. Passed(AfterIsr(Top)) \subseteq Passed(Top)
    BY <2>1, <2>2, <2>3, <2>4, <2>5 DEF Passed
  <2> QED
    BY <1>1, <1>5, <2>2, <2>3, <2>6 DEF Told
<1> QED
  BY <1>2, <1>3, <1>4, <1>5, Frames

-----------------------------------------------------------------------------
(* What a loop that ends leaves behind.                                    *)
LEMMA LastLoop ==
  ASSUME GpioTypes, ToldInv, SetLevelReturns
  PROVE  \A k \in DOMAIN listeners[Top.pin] : listeners[Top.pin][k].seen = level[Top.pin]
<1>1. calls # <<>> /\ Len(listeners[Top.pin]) < Top.next
  BY DEF SetLevelReturns, InLoop
<1>2. Top \in Call /\ Told(Top)
  BY <1>1, TopFrame DEF ToldInv
<1>3. listeners[Top.pin] \in Seq(Listener) /\ Top.next \in Nat
  BY <1>2 DEF Call, GpioTypes, TypeOK
<1>4. \A k \in DOMAIN listeners[Top.pin] : k < Top.next
  BY <1>1, <1>3, LenProperties
<1> QED
  BY <1>2, <1>4 DEF Told, Passed

(* A pin whose last loop has just ended was the innermost loop's.          *)
LEMMA LoopsGoOn ==
  ASSUME GpioTypes, [Next]_vars, NEW p \in Pins, InProgress(p), ~InProgress(p)'
  PROVE  SetLevelReturns /\ p = Top.pin
<1>0. PICK i \in DOMAIN calls : calls[i].pin = p
  BY DEF InProgress
<1>1. /\ calls # <<>> /\ calls \in Seq(Call)
      /\ DOMAIN calls = 1..Len(calls) /\ Len(calls) \in Nat \ {0}
      /\ Top = calls[Len(calls)] /\ Top \in Call /\ Top.next # 0
  BY <1>0, TopFrame, EmptySeq DEF GpioTypes, TypeOK
<1>2. ASSUME i \in DOMAIN calls', calls'[i].pin = p PROVE FALSE
  BY <1>2 DEF InProgress
<1>3. CASE UNCHANGED calls
  BY <1>0, <1>2, <1>3
<1>4. ASSUME NEW c \in Call, c.pin = Top.pin, SetTop(c) PROVE FALSE
  <2>1. DOMAIN calls' = DOMAIN calls /\ calls'[i] = IF i = Len(calls) THEN c ELSE calls[i]
    BY <1>1, <1>4, NewTop
  <2> QED
    BY <1>0, <1>1, <1>2, <1>4, <2>1
<1>5. CASE CallListener
  <2>1. SetTop(Called(Top))
    BY <1>5 DEF CallListener, Called
  <2> HIDE DEF Called
  <2> QED
    BY <1>1, <1>4, <2>1, FrameTypes
<1>6. CASE IsrReturns
  <2>1. SetTop(AfterIsr(Top))
    BY <1>6 DEF IsrReturns
  <2> HIDE DEF AfterIsr
  <2> QED
    BY <1>1, <1>4, <2>1, FrameTypes
<1>7. ASSUME NEW q \in Pins, calls' = Append(calls, NewFrame(q)) PROVE FALSE
  <2> DEFINE f == NewFrame(q)
  <2>1. f \in Call
    BY DEF NewFrame, Call, GpioTypes, TypeOK
  <2>2. calls' = Append(calls, f)
    BY <1>7
  <2> HIDE DEF f
  <2>3. calls' \in Seq(Call) /\ Len(calls') = Len(calls) + 1 /\ \A j \in 1..Len(calls) : calls'[j] = calls[j]
    BY <1>1, <2>1, <2>2, AppendProperties
  <2>4. DOMAIN calls' = 1..(Len(calls) + 1)
    BY <2>3, LenProperties
  <2> QED
    BY <1>0, <1>1, <1>2, <2>3, <2>4
<1>8. CASE SetLevelReturns
  <2>1. /\ calls' \in Seq(Call) /\ Len(calls') = Len(calls) - 1
        /\ \A j \in 1..(Len(calls) - 1) : calls'[j] = calls[j]
    BY <1>1, <1>8, FrontProperties DEF SetLevelReturns
  <2>2. DOMAIN calls' = 1..(Len(calls) - 1)
    BY <2>1, LenProperties
  <2>3. i = Len(calls)
    BY <1>0, <1>1, <1>2, <2>1, <2>2
  <2> QED
    BY <1>0, <1>1, <1>8, <2>3
<1> QED
  BY <1>3, <1>5, <1>6, <1>7, <1>8 DEF Next, Steps, vars, SetLevel, NewFrame, AttachInterrupt,
     DetachInterrupt, TestListens, SetMode, Reset

Known(p) == \A k \in DOMAIN listeners[p] : listeners[p][k].seen = level[p]

LEMMA KnownStep ==
  GpioTypes /\ "rewrite" \notin Liberties /\ ToldInv /\ ListenersKnow /\ [Next]_vars => ListenersKnow'
<1> SUFFICES ASSUME GpioTypes, "rewrite" \notin Liberties, ToldInv, ListenersKnow, [Next]_vars,
                    NEW p \in Pins, p \notin pulled', ~InProgress(p)'
             PROVE  Known(p)'
  BY DEF ListenersKnow, Known
<1>0. /\ level \in [Pins -> Levels] /\ listeners \in [Pins -> Seq(Listener)]
      /\ pulled \in SUBSET Pins
  BY DEF GpioTypes, TypeOK
<1>1. CASE InProgress(p)
  <2>1. SetLevelReturns /\ p = Top.pin
    BY <1>1, LoopsGoOn
  <2> QED
    BY <2>1, LastLoop DEF Known, SetLevelReturns
<1>2. CASE ~InProgress(p)
  <2>1. p \notin pulled => Known(p)
    BY <1>2 DEF ListenersKnow, Known
  <2>2. CASE UNCHANGED <<level, listeners, pulled>>
    BY <2>1, <2>2 DEF Known
  <2>3. ASSUME NEW q \in Pins, NEW v \in 0..2, SetLevel(q, v)
        PROVE  Known(p)'
    <3>1. CASE level[q] = AsLevel(v)
      <4>1. level' = level /\ listeners' = listeners /\ pulled' = pulled
        BY <1>0, <2>3, <3>1 DEF SetLevel
      <4> QED
        BY <2>2, <4>1
    <3>2. CASE level[q] # AsLevel(v)
      <4>1. calls' = Append(calls, NewFrame(q)) /\ pulled' = pulled \ {q} /\ listeners' = listeners
        BY <2>3, <3>2 DEF SetLevel, NewFrame
      <4>2. p # q
        <5> DEFINE f == NewFrame(q)
        <5>1. f \in Call /\ f.pin = q
          BY <1>0 DEF NewFrame, Call
        <5>2. calls' = Append(calls, f) /\ calls \in Seq(Call)
          BY <4>1 DEF GpioTypes, TypeOK
        <5> HIDE DEF f
        <5>3. calls' \in Seq(Call) /\ Len(calls') = Len(calls) + 1 /\ calls'[Len(calls) + 1] = f
          BY <5>1, <5>2, AppendProperties
        <5>4. Len(calls) + 1 \in DOMAIN calls'
          BY <5>2, <5>3, LenProperties
        <5> QED
          BY <5>1, <5>3, <5>4 DEF InProgress
      <4>3. level'[p] = level[p] /\ p \notin pulled
        BY <1>0, <2>3, <4>1, <4>2 DEF SetLevel
      <4> QED
        BY <2>1, <4>1, <4>3 DEF Known
    <3> QED
      BY <3>1, <3>2
  <2>4. CASE CallListener
    <3> DEFINE t == Top.pin
               n == [listeners EXCEPT ![t][Top.next].seen = level[t]]
    <3>1. listeners' = n /\ level' = level /\ pulled' = pulled
      BY <2>4 DEF CallListener
    <3>2. t \in Pins /\ Top.next \in DOMAIN listeners[t] /\ level[t] \in Levels
      BY <2>4, NextListener
    <3>3. /\ \A q \in Pins : DOMAIN n[q] = DOMAIN listeners[q]
          /\ \A q \in Pins : \A j \in DOMAIN listeners[q] :
               /\ n[q][j].kind = listeners[q][j].kind
               /\ n[q][j].seen = IF q = t /\ j = Top.next THEN level[t] ELSE listeners[q][j].seen
      BY <3>2, Hears
    <3> HIDE DEF n, t
    <3> QED
      BY <2>1, <3>1, <3>3 DEF Known
  <2>5. ASSUME NEW q \in Pins, NEW m \in PinModes, SetMode(q, m)
        PROVE  Known(p)'
    <3>1. /\ pulled' = (IF level'[q] # level[q] THEN pulled \cup {q} ELSE pulled)
          /\ listeners' = listeners
          /\ level' = [level EXCEPT ![q] = CASE m = "INPUT_PULLUP"   -> 1
                                              [] m = "INPUT_PULLDOWN" -> 0
                                              [] OTHER                -> @]
      BY <2>5 DEF SetMode
    <3>2. level'[p] = level[p] /\ p \notin pulled
      BY <1>0, <3>1
    <3> QED
      BY <2>1, <3>1, <3>2 DEF Known
  <2>6. ASSUME NEW q \in Pins, NEW kind \in {"isr", "test"}, AddListener(q, kind),
               level' = level, pulled' = pulled
        PROVE  Known(p)'
    <3> DEFINE e == [kind |-> kind, seen |-> level[q]]
               n == [listeners EXCEPT ![q] = Append(@, e)]
               l == Len(listeners[q])
    <3>1. listeners' = n
      BY <2>6 DEF AddListener
    <3>2. /\ p # q => n[p] = listeners[p]
          /\ DOMAIN n[q] = 1..(l + 1) /\ DOMAIN listeners[q] = 1..l /\ l \in Nat
          /\ \A j \in DOMAIN listeners[q] : n[q][j] = listeners[q][j]
          /\ n[q][l + 1] = e
      BY Listens
    <3>3. e.seen = level[q]
      OBVIOUS
    <3> HIDE DEF e, n, l
    <3>4. \A j \in DOMAIN n[q] : j \in DOMAIN listeners[q] \/ j = l + 1
      BY <3>2
    <3> QED
      BY <2>1, <2>6, <3>1, <3>2, <3>3, <3>4 DEF Known
  <2>7. CASE Reset
    <3>1. listeners'[p] = <<>> /\ DOMAIN <<>> = {}
      BY <2>7, EmptySeq DEF Reset, ClearPins
    <3> QED
      BY <3>1 DEF Known
  <2> QED
    BY <2>2, <2>3, <2>4, <2>5, <2>6, <2>7 DEF Next, Steps, vars, AttachInterrupt, DetachInterrupt,
       TestListens, IsrReturns, SetLevelReturns
<1> QED
  BY <1>1, <1>2

-----------------------------------------------------------------------------
(* A slot that holds an ISR, and a listener to run it, mean an attachment  *)
(* of this test.                                                           *)
SlotInv ==
  \A p \in Pins : isr[p] # NoEdge /\ (\E k \in DOMAIN listeners[p] : IsIsr(p, k)) => p \in attached

LEMMA SlotStep == GpioTypes /\ SlotInv /\ [Next]_vars => SlotInv'
<1> SUFFICES ASSUME GpioTypes, SlotInv, [Next]_vars
             PROVE  SlotInv'
  OBVIOUS
<1>0. /\ listeners \in [Pins -> Seq(Listener)] /\ isr \in [Pins -> Edges \cup {NoEdge}]
      /\ attached \in SUBSET Pins
  BY DEF GpioTypes, TypeOK
<1>1. CASE UNCHANGED <<listeners, isr, attached>>
  BY <1>1 DEF SlotInv, IsIsr
<1>2. CASE CallListener
  <2> DEFINE t == Top.pin
             r == [listeners EXCEPT ![t][Top.next].seen = level[t]]
  <2>1. listeners' = r /\ UNCHANGED <<isr, attached>>
    BY <1>2 DEF CallListener
  <2>2. t \in Pins /\ Top.next \in DOMAIN listeners[t] /\ level[t] \in Levels
    BY <1>2, NextListener
  <2>3. /\ \A q \in Pins : DOMAIN r[q] = DOMAIN listeners[q]
        /\ \A q \in Pins : \A j \in DOMAIN listeners[q] : r[q][j].kind = listeners[q][j].kind
    BY <2>2, Hears
  <2> HIDE DEF r, t
  <2> QED
    BY <2>1, <2>3 DEF SlotInv, IsIsr
<1>3. ASSUME NEW p \in Pins, TestListens(p)
      PROVE  SlotInv'
  <2> DEFINE e == [kind |-> "test", seen |-> level[p]]
             r == [listeners EXCEPT ![p] = Append(@, e)]
             l == Len(listeners[p])
  <2>1. listeners' = r /\ UNCHANGED <<isr, attached>>
    BY <1>3 DEF TestListens, AddListener
  <2>2. /\ \A q \in Pins : q # p => r[q] = listeners[q]
        /\ DOMAIN r[p] = 1..(l + 1) /\ DOMAIN listeners[p] = 1..l /\ l \in Nat
        /\ \A j \in DOMAIN listeners[p] : r[p][j] = listeners[p][j]
        /\ r[p][l + 1] = e
    BY Listens
  <2>3. e.kind = "test"
    OBVIOUS
  <2> HIDE DEF r, e, l
  <2>4. ASSUME NEW q \in Pins, NEW k \in DOMAIN r[q], r[q][k].kind = "isr"
        PROVE  k \in DOMAIN listeners[q] /\ listeners[q][k].kind = "isr"
    <3>1. CASE q # p
      BY <2>2, <2>4, <3>1
    <3>2. CASE q = p
      <4>1. k \in 1..l \/ k = l + 1
        BY <2>2, <3>2
      <4> QED
        BY <2>2, <2>3, <2>4, <3>2, <4>1
    <3> QED
      BY <3>1, <3>2
  <2> QED
    BY <2>1, <2>4 DEF SlotInv, IsIsr
<1>4. ASSUME NEW p \in Pins, NEW edge \in Edges, AttachInterrupt(p, edge)
      PROVE  SlotInv'
  <2>1. /\ isr' = [isr EXCEPT ![p] = edge] /\ attached' = attached \cup {p}
        /\ listeners' = [listeners EXCEPT ![p] = Append(@, [kind |-> "isr", seen |-> level[p]])]
    BY <1>4 DEF AttachInterrupt, AddListener
  <2>2. \A q \in Pins : q # p => isr'[q] = isr[q] /\ listeners'[q] = listeners[q]
    BY <1>0, <2>1
  <2> QED
    BY <2>1, <2>2 DEF SlotInv, IsIsr
<1>5. ASSUME NEW p \in Pins, DetachInterrupt(p)
      PROVE  SlotInv'
  <2>1. /\ isr' = [isr EXCEPT ![p] = NoEdge] /\ attached' = attached \ {p}
        /\ listeners' = listeners
    BY <1>5 DEF DetachInterrupt
  <2>2. isr'[p] = NoEdge /\ \A q \in Pins : q # p => isr'[q] = isr[q]
    BY <1>0, <2>1
  <2> QED
    BY <2>1, <2>2 DEF SlotInv, IsIsr
<1>6. CASE Reset
  <2>1. listeners' = [p \in Pins |-> <<>>] /\ DOMAIN <<>> = {}
    BY <1>6, EmptySeq DEF Reset, ClearPins
  <2> QED
    BY <2>1 DEF SlotInv
<1> QED
  BY <1>1, <1>2, <1>3, <1>4, <1>5, <1>6 DEF Next, Steps, vars, SetLevel, SetMode, IsrReturns,
     SetLevelReturns

-----------------------------------------------------------------------------
LEMMA GpioInit == Init => GpioTypes /\ OnceInv /\ ToldInv /\ ListenersKnow /\ SlotInv
<1> SUFFICES ASSUME Init PROVE GpioTypes /\ OnceInv /\ ToldInv /\ ListenersKnow /\ SlotInv
  OBVIOUS
<1>1. <<>> \in Seq(Listener) /\ <<>> \in Seq(Call) /\ DOMAIN <<>> = {}
  BY EmptySeq
<1>2. GpioTypes
  BY <1>1 DEF Init, GpioTypes, TypeOK, Levels
<1> QED
  BY <1>1, <1>2 DEF Init, OnceInv, OneIsr, ToldInv, ListenersKnow, SlotInv

LEMMA GpioTypesInvariant == Spec => []GpioTypes
  BY GpioInit, GpioTypesStep, PTL DEF Spec

(* One edge runs the ISR of its pin at most once, however ISRs nest and    *)
(* whatever they attach and detach, if no interrupt is attached to a pin   *)
(* that has a listener of an earlier one (interrupts.cpp:27-51; without    *)
(* that proviso the run GpioReattach refutes it).                          *)
THEOREM EdgeRunsOnce == "reattach" \notin Liberties => (Spec => []OneRunPerEdge)
<1> SUFFICES ASSUME "reattach" \notin Liberties
             PROVE  Spec => []OneRunPerEdge
  OBVIOUS
<1>1. OnceInv => OneRunPerEdge
  BY DEF OnceInv, RanOnce, OneRunPerEdge
<1>2. GpioTypes /\ OnceInv /\ [Next]_vars => OnceInv'
  BY OnceStep
<1> QED
  BY <1>1, <1>2, GpioInit, GpioTypesInvariant, PTL DEF Spec

(* Nobody misses an edge: the listeners that a set_level has passed know   *)
(* the level of now, if no ISR changes a pin whose listeners are being     *)
(* called (pin_registry.cpp:25-33).                                        *)
THEOREM NobodyMissesAnEdge == "rewrite" \notin Liberties => (Spec => []ListenersUpToDate)
<1> SUFFICES ASSUME "rewrite" \notin Liberties
             PROVE  Spec => []ListenersUpToDate
  OBVIOUS
<1>1. ToldInv => ListenersUpToDate
  BY DEF ToldInv, Told, Passed, ListenersUpToDate
<1>2. GpioTypes /\ ToldInv /\ [Next]_vars => ToldInv'
  BY ToldStep
<1> QED
  BY <1>1, <1>2, GpioInit, GpioTypesInvariant, PTL DEF Spec

(* Between set_levels too: a listener knows the level of its pin, unless a *)
(* pull changed it since a set_level did (pin_registry.cpp:24-52).         *)
THEOREM OnlyPullsAreSilent == "rewrite" \notin Liberties => (Spec => []ListenersKnow)
<1> SUFFICES ASSUME "rewrite" \notin Liberties
             PROVE  Spec => []ListenersKnow
  OBVIOUS
<1>1. GpioTypes /\ ToldInv /\ [Next]_vars => ToldInv'
  BY ToldStep
<1>2. GpioTypes /\ ToldInv /\ ListenersKnow /\ [Next]_vars => ListenersKnow'
  BY KnownStep
<1> QED
  BY <1>1, <1>2, GpioInit, GpioTypesInvariant, PTL DEF Spec

(* The ISR that a loop runs was attached in this test and not detached     *)
(* since, although listeners outlive their interrupt and slots their test  *)
(* (interrupts.cpp:27-60, pin_registry.cpp:11-17).                         *)
THEOREM OnlyAttachedRun == Spec => RunsOnlyAttached
<1>1. ASSUME GpioTypes, SlotInv, NEW p \in Pins, CallListener, Top.pin = p, Runs(Top)
      PROVE  p \in attached
  <2>1. Top.next \in DOMAIN listeners[p] /\ IsIsr(p, Top.next) /\ isr[p] # NoEdge
    BY <1>1, NextListener DEF Runs, IsIsr
  <2> QED
    BY <1>1, <2>1 DEF SlotInv
<1> DEFINE Due == \A p \in Pins : CallListener /\ Top.pin = p /\ Runs(Top) => p \in attached
<1>2. GpioTypes /\ SlotInv => Due
  BY <1>1
<1>3. Spec => []SlotInv
  BY GpioInit, SlotStep, GpioTypesInvariant, PTL DEF Spec
<1>4. Spec => [][Due]_vars
  <2>1. GpioTypes /\ SlotInv /\ [Next]_vars => [Due]_vars
    BY <1>2
  <2> HIDE DEF Due
  <2> QED
    BY <2>1, <1>3, GpioTypesInvariant, PTL DEF Spec
<1> QED
  BY <1>4 DEF RunsOnlyAttached

-----------------------------------------------------------------------------
(* The Arduino calls.                                                      *)

LEMMA RoomFixed == ASpec => [](room \in Rooms)
<1>1. AInit => room \in Rooms
  BY DEF AInit
<1>2. room \in Rooms /\ [ANext]_aVars => (room \in Rooms)'
  BY DEF ANext, aVars, PinStep, PinMode, DigitalWrite, DigitalRead, EnableStrict, AReset
<1> QED
  BY <1>1, <1>2, PTL DEF ASpec

LEMMA RoomType ==
  ASSUME room \in Rooms
  PROVE  /\ room.pins \subseteq Pins /\ room.strays \subseteq Strays
         /\ room.edges \subseteq Edges /\ room.modes \subseteq PinModes
BY ArduinoAssumption

LEMMA OnPins == room \in Rooms /\ [ANext]_aVars => [Next]_vars
<1> SUFFICES ASSUME room \in Rooms, [ANext]_aVars
             PROVE  [Next]_vars
  OBVIOUS
<1>1. CASE PinStep
  <2>1. Steps(Pins, Edges)
    BY <1>1, RoomType DEF PinStep, Steps
  <2> QED
    BY <2>1 DEF Next
<1>2. ASSUME NEW p \in room.pins \cup room.strays, NEW m \in room.modes, PinMode(p, m)
      PROVE  [Next]_vars
  <2>1. m \in PinModes
    BY RoomType
  <2> QED
    BY <1>2, <2>1 DEF PinMode, Next
<1>3. ASSUME NEW p \in room.pins \cup room.strays, NEW v \in Levels, DigitalWrite(p, v)
      PROVE  [Next]_vars
  <2>1. v \in 0..2
    BY DEF Levels
  <2>2. CASE p \in Pins
    BY <1>3, <2>1, <2>2 DEF DigitalWrite, Next, Steps
  <2>3. CASE p \notin Pins
    BY <1>3, <2>3 DEF DigitalWrite
  <2> QED
    BY <2>2, <2>3
<1>4. ASSUME NEW p, DigitalRead(p)
      PROVE  [Next]_vars
  BY <1>4 DEF DigitalRead
<1>5. CASE EnableStrict
  BY <1>5 DEF EnableStrict
<1>6. CASE AReset
  BY <1>6 DEF AReset, Next
<1>7. CASE UNCHANGED aVars
  BY <1>7 DEF aVars
<1> QED
  BY <1>1, <1>2, <1>3, <1>4, <1>5, <1>6, <1>7 DEF ANext

(* pinMode, digitalWrite and digitalRead with their checks do to the pins  *)
(* what module Gpio says and no more, so its theorems hold of them too     *)
(* (arduino.cpp:75-124).                                                   *)
THEOREM PinsAsInGpio == ASpec => Spec
<1>1. AInit => Init
  BY DEF AInit
<1> QED
  BY <1>1, OnPins, RoomFixed, PTL DEF ASpec, Spec

-----------------------------------------------------------------------------
(* Strict mode's accusations of writes.                                    *)

Broken == [code : {"E001", "E002", "E003", "E006", "E007"}, severity : Severities, object : 0..255]

Objects(list) == {list[i].object : i \in {j \in DOMAIN list : list[j].code = "E001"}}

(* The table of modes says of each pin what the calls of pinMode have made *)
(* of it.                                                                  *)
WritesInv ==
  /\ mode \in [Pins -> PinModes \cup {"INPUT"}]
  /\ outputs \subseteq Pins
  /\ \A p \in Pins : mode[p] = "OUTPUT" <=> p \in outputs
  /\ violations \in Seq(Broken) /\ Objects(violations) = bare

LEMMA ObjectsOfBoth ==
  ASSUME NEW s \in Seq(Broken), NEW t \in Seq(Broken)
  PROVE  s \o t \in Seq(Broken) /\ Objects(s \o t) = Objects(s) \cup Objects(t)
<1> DEFINE u == s \o t
           m == Len(s)
           n == Len(t)
<1>1. /\ u \in Seq(Broken) /\ Len(u) = m + n
      /\ \A i \in 1..(m + n) : u[i] = IF i <= m THEN s[i] ELSE t[i - m]
  BY ConcatProperties
<1>2. DOMAIN s = 1..m /\ DOMAIN t = 1..n /\ DOMAIN u = 1..(m + n) /\ m \in Nat /\ n \in Nat
  BY <1>1, LenProperties
<1> HIDE DEF u, m, n
<1>3. \A i \in DOMAIN s : i \in DOMAIN u /\ u[i] = s[i]
  BY <1>1, <1>2
<1>4. \A i \in DOMAIN t : i + m \in DOMAIN u /\ u[i + m] = t[i]
  BY <1>1, <1>2
<1>5. \A i \in DOMAIN u : (i \in DOMAIN s /\ u[i] = s[i]) \/ (i - m \in DOMAIN t /\ u[i] = t[i - m])
  BY <1>1, <1>2
<1>6. Objects(u) = Objects(s) \cup Objects(t)
  BY <1>3, <1>4, <1>5 DEF Objects
<1> QED
  BY <1>1, <1>6 DEF u

(* A report, and what it accuses.                                          *)
LEMMA OneReport ==
  ASSUME NEW e \in Broken
  PROVE  /\ <<e>> \in Seq(Broken) /\ <<>> \in Seq(Broken) /\ Objects(<<>>) = {}
         /\ e.code = "E001" => Objects(<<e>>) = {e.object}
         /\ e.code # "E001" => Objects(<<e>>) = {}
<1> DEFINE r == <<e>>
<1>1. r \in Seq(Broken) /\ DOMAIN r = {1} /\ r[1] = e
  OBVIOUS
<1>2. <<>> \in Seq(Broken) /\ DOMAIN <<>> = {}
  BY EmptySeq
<1> HIDE DEF r
<1>3. Objects(r) = {r[i].object : i \in {j \in {1} : r[j].code = "E001"}}
  BY <1>1 DEF Objects
<1>4. e.code = "E001" => Objects(r) = {e.object}
  BY <1>1, <1>3
<1>5. e.code # "E001" => Objects(r) = {}
  BY <1>1, <1>3
<1> QED
  BY <1>1, <1>2, <1>4, <1>5 DEF r, Objects

LEMMA CheckTypes ==
  ASSUME NEW p \in 0..255
  PROVE  /\ CommonChecks(p) \in Seq(Broken) /\ Objects(CommonChecks(p)) = {}
         /\ ModeChecks(p) \in Seq(Broken) /\ Objects(ModeChecks(p)) = {}
<1> DEFINE A == Report(p > MaxPin, "E003", "ERROR", p)
           B == Report(IsFlashPin(p), "E002", "ERROR", p)
           C == Report(IsUsbJtagPin(p), "E007", "WARNING", p)
           D == Report(IsStrappingPin(p), "E006", "WARNING", p)
           AB == CommonChecks(p)
           ABC == AB \o C
<1>1. "ERROR" \in Severities /\ "WARNING" \in Severities
  BY DEF Severities
<1>2. ASSUME NEW b, NEW code \in {"E002", "E003", "E006", "E007"}, NEW severity \in Severities
      PROVE  /\ Report(b, code, severity, p) \in Seq(Broken)
             /\ Objects(Report(b, code, severity, p)) = {}
  <2> DEFINE e == [code |-> code, severity |-> severity, object |-> p]
  <2>1. e \in Broken /\ e.code # "E001"
    BY DEF Broken
  <2> HIDE DEF e
  <2>2. /\ <<e>> \in Seq(Broken) /\ Objects(<<e>>) = {}
        /\ <<>> \in Seq(Broken) /\ Objects(<<>>) = {}
    BY <2>1, OneReport
  <2>3. Report(b, code, severity, p) = <<e>> \/ Report(b, code, severity, p) = <<>>
    BY DEF Report, e
  <2> QED
    BY <2>2, <2>3
<1>3. /\ A \in Seq(Broken) /\ Objects(A) = {} /\ B \in Seq(Broken) /\ Objects(B) = {}
      /\ C \in Seq(Broken) /\ Objects(C) = {} /\ D \in Seq(Broken) /\ Objects(D) = {}
  BY <1>1, <1>2
<1>4. AB = A \o B /\ ModeChecks(p) = ABC \o D
  BY DEF CommonChecks, ModeChecks
<1> HIDE DEF A, B, C, D
<1>5. ASSUME NEW s \in Seq(Broken), NEW t \in Seq(Broken), Objects(s) = {}, Objects(t) = {}
      PROVE  s \o t \in Seq(Broken) /\ Objects(s \o t) = {}
  <2>1. s \o t \in Seq(Broken) /\ Objects(s \o t) = Objects(s) \cup Objects(t)
    BY ObjectsOfBoth
  <2> QED
    BY <1>5, <2>1
<1>6. AB \in Seq(Broken) /\ Objects(AB) = {}
  BY <1>3, <1>4, <1>5
<1> HIDE DEF AB
<1>7. ABC \in Seq(Broken) /\ Objects(ABC) = {}
  BY <1>3, <1>5, <1>6
<1> HIDE DEF ABC
<1>8. ModeChecks(p) \in Seq(Broken) /\ Objects(ModeChecks(p)) = {}
  BY <1>3, <1>4, <1>5, <1>7
<1> QED
  BY <1>6, <1>8 DEF AB

LEMMA WritesStep == WritesInv /\ room \in Rooms /\ [ANext]_aVars => WritesInv'
<1> SUFFICES ASSUME WritesInv, room \in Rooms, [ANext]_aVars
             PROVE  WritesInv'
  OBVIOUS
<1>0. /\ outputs \subseteq Pins /\ violations \in Seq(Broken) /\ Objects(violations) = bare
      /\ Pins \subseteq 0..255 /\ Strays \subseteq 0..255
  BY ArduinoAssumption DEF WritesInv
<1>1. CASE UNCHANGED <<mode, outputs, violations, bare>>
  BY <1>1 DEF WritesInv
<1>2. ASSUME NEW s \in Seq(Broken), Violations(s)
      PROVE  /\ violations' \in Seq(Broken)
             /\ Objects(violations') = IF enabled THEN bare \cup Objects(s) ELSE bare
  BY <1>0, <1>2, ObjectsOfBoth DEF Violations
<1>3. ASSUME NEW p \in room.pins \cup room.strays, NEW m \in room.modes, PinMode(p, m)
      PROVE  WritesInv'
  <2>1. p \in 0..255
    BY <1>0, RoomType
  <2>2. Violations(ModeChecks(p)) /\ bare' = bare
    BY <1>3 DEF PinMode
  <2>3. violations' \in Seq(Broken) /\ Objects(violations') = bare'
    <3>1. ModeChecks(p) \in Seq(Broken) /\ Objects(ModeChecks(p)) = {}
      BY <2>1, CheckTypes
    <3> QED
      BY <1>2, <2>2, <3>1
  <2>4. /\ mode' \in [Pins -> PinModes \cup {"INPUT"}] /\ outputs' \subseteq Pins
        /\ \A q \in Pins : mode'[q] = "OUTPUT" <=> q \in outputs'
    <3>1. CASE p \in Pins
      <4>1. /\ mode' = [mode EXCEPT ![p] = m]
            /\ outputs' = IF m = "OUTPUT" THEN outputs \cup {p} ELSE outputs \ {p}
        BY <1>3, <3>1 DEF PinMode, SetMode
      <4>2. mode \in [Pins -> PinModes \cup {"INPUT"}] /\ m \in PinModes
        BY RoomType DEF WritesInv
      <4>3. mode' \in [Pins -> PinModes \cup {"INPUT"}] /\ outputs' \subseteq Pins
        BY <1>0, <3>1, <4>1, <4>2
      <4>4. ASSUME NEW q \in Pins PROVE mode'[q] = "OUTPUT" <=> q \in outputs'
        <5>1. mode[q] = "OUTPUT" <=> q \in outputs
          BY DEF WritesInv
        <5>2. mode'[q] = IF q = p THEN m ELSE mode[q]
          BY <4>1, <4>2
        <5> QED
          BY <4>1, <5>1, <5>2
      <4> QED
        BY <4>3, <4>4
    <3>2. CASE p \notin Pins
      BY <1>0, <1>3, <3>2 DEF PinMode, vars, WritesInv
    <3> QED
      BY <3>1, <3>2
  <2> QED
    BY <2>3, <2>4 DEF WritesInv
<1>4. ASSUME NEW p \in room.pins \cup room.strays, NEW v \in Levels, DigitalWrite(p, v)
      PROVE  WritesInv'
  <2>1. p \in 0..255
    BY <1>0, RoomType
  <2> DEFINE e == Report(GetMode(p) # "OUTPUT", "E001", "ERROR", p)
  <2>2. /\ Violations(CommonChecks(p) \o e) /\ outputs' = outputs
        /\ bare' = IF enabled /\ p \notin outputs THEN bare \cup {p} ELSE bare
    BY <1>4 DEF DigitalWrite, WriteChecks
  <2>3. mode' = mode
    BY <1>4 DEF DigitalWrite, SetLevel, vars
  <2>4. GetMode(p) # "OUTPUT" <=> p \notin outputs
    BY <1>0 DEF GetMode, WritesInv
  <2> DEFINE x == [code |-> "E001", severity |-> "ERROR", object |-> p]
  <2>5. x \in Broken /\ x.code = "E001" /\ x.object = p
    BY <2>1 DEF Broken, Severities
  <2>6. /\ e \in Seq(Broken)
        /\ GetMode(p) # "OUTPUT" => Objects(e) = {p}
        /\ GetMode(p) = "OUTPUT" => Objects(e) = {}
    <3>1. (GetMode(p) # "OUTPUT" => e = <<x>>) /\ (GetMode(p) = "OUTPUT" => e = <<>>)
      BY DEF Report
    <3> HIDE DEF e, x
    <3>2. /\ <<x>> \in Seq(Broken) /\ Objects(<<x>>) = {p}
          /\ <<>> \in Seq(Broken) /\ Objects(<<>>) = {}
      BY <2>5, OneReport
    <3> QED
      BY <3>1, <3>2
  <2> HIDE DEF e
  <2> DEFINE c == CommonChecks(p)
  <2>7. c \o e \in Seq(Broken) /\ Objects(c \o e) = Objects(e)
    <3>1. c \in Seq(Broken) /\ Objects(c) = {}
      BY <2>1, CheckTypes
    <3> HIDE DEF c
    <3>2. c \o e \in Seq(Broken) /\ Objects(c \o e) = Objects(c) \cup Objects(e)
      BY <2>6, <3>1, ObjectsOfBoth
    <3> QED
      BY <3>1, <3>2
  <2>8. violations' \in Seq(Broken) /\ Objects(violations') = bare'
    BY <1>2, <2>2, <2>4, <2>6, <2>7
  <2> QED
    BY <1>0, <2>2, <2>3, <2>8 DEF WritesInv
<1>5. ASSUME NEW p \in room.pins \cup room.strays, DigitalRead(p)
      PROVE  WritesInv'
  <2>1. p \in 0..255
    BY <1>0, RoomType
  <2>2. Violations(CommonChecks(p)) /\ UNCHANGED <<mode, outputs, bare>>
    BY <1>5 DEF DigitalRead, vars
  <2>3. violations' \in Seq(Broken) /\ Objects(violations') = bare'
    <3>1. CommonChecks(p) \in Seq(Broken) /\ Objects(CommonChecks(p)) = {}
      BY <2>1, CheckTypes
    <3> QED
      BY <1>2, <2>2, <3>1
  <2> QED
    BY <2>2, <2>3 DEF WritesInv
<1>6. CASE AReset
  <2>1. /\ mode' = [p \in Pins |-> "INPUT"] /\ outputs' = {} /\ violations' = <<>> /\ bare' = {}
    BY <1>6 DEF AReset, Reset, ClearPins, StrictReset
  <2>2. DOMAIN <<>> = {} /\ <<>> \in Seq(Broken)
    BY EmptySeq
  <2> QED
    BY <2>1, <2>2 DEF WritesInv, Objects
<1>7. CASE PinStep
  <2>1. mode' = mode
    BY <1>7 DEF PinStep, Steps, SetLevel, AttachInterrupt, DetachInterrupt, TestListens, CallListener,
       IsrReturns, SetLevelReturns
  <2> QED
    BY <1>1, <1>7, <2>1 DEF PinStep, NoViolation, strictVars
<1>8. CASE EnableStrict \/ UNCHANGED aVars
  BY <1>1, <1>8 DEF EnableStrict, Enable, aVars, vars, strictVars
<1> QED
  BY <1>3, <1>4, <1>5, <1>6, <1>7, <1>8 DEF ANext

(* E001 accuses the pins that were written while not made outputs by this  *)
(* test, and no other: the table of modes, by which a write is judged also *)
(* from an ISR, never says other than the calls of pinMode since the reset *)
(* (arduino.cpp:82-116, pin_registry.cpp:11-17, 35-52).                    *)
THEOREM BareWritesAreReported == ASpec => []BareWritesReported
<1>1. AInit => WritesInv
  BY EmptySeq DEF AInit, Init, StrictInit, WritesInv, Objects
<1>2. WritesInv => BareWritesReported
  BY DEF WritesInv, BareWritesReported, Objects
<1> QED
  BY <1>1, <1>2, WritesStep, RoomFixed, PTL DEF ASpec

-----------------------------------------------------------------------------
(* TwoWire, the part of the Arduino API that talks to the I2C bus: strict  *)
(* mode's reports of code that gets into another's transfer.               *)

(* A transfer in progress, whatever the bytes that it wants.               *)
UserWanting(W) ==
  [program : Programs, pc : {"begin", "write", "end", "request", "read", "done"},
   made : Nat, others : BOOLEAN, want : W, exact : BOOLEAN]

UsersTyped == \E W : users \in Seq(UserWanting(W))

Writing == {"write", "end"}

LEMMA PayloadType ==
  ASSUME I2cAssumption, NEW p \in Programs
  PROVE  /\ Payload(p) \in Seq(Byte) /\ Len(Payload(p)) \in Nat \ {0}
         /\ p.addr \in Addresses /\ p.n \in Nat
<1>1. p.reg \in Byte /\ p.bytes \in Seq(Byte) /\ p.addr \in Addresses /\ p.n \in Nat
  <2>1. p \in Program
    BY DEF I2cAssumption
  <2> QED
    BY <2>1 DEF Program
<1>2. <<p.reg>> \in Seq(Byte) /\ Len(<<p.reg>>) = 1
  BY <1>1
<1>3. /\ <<p.reg>> \o p.bytes \in Seq(Byte)
      /\ Len(<<p.reg>> \o p.bytes) = 1 + Len(p.bytes)
  BY <1>1, <1>2, ConcatProperties
<1>4. Len(p.bytes) \in Nat
  BY <1>1, LenProperties
<1> QED
  BY <1>1, <1>3, <1>4 DEF Payload

LEMMA UserAt ==
  ASSUME UsersTyped
  PROVE  /\ Len(users) \in Nat /\ DOMAIN users = 1..Len(users)
         /\ \A i \in DOMAIN users :
              /\ users[i].program \in Programs /\ users[i].made \in Nat
              /\ users[i].pc \in {"begin", "write", "end", "request", "read", "done"}
         /\ users # <<>> => /\ Len(users) \in DOMAIN users /\ Len(users) # 0
                            /\ TopUser = users[Len(users)]
<1>1. PICK W : users \in Seq(UserWanting(W))
  BY DEF UsersTyped
<1>2. Len(users) \in Nat /\ DOMAIN users = 1..Len(users)
  BY <1>1, LenProperties
<1>3. \A i \in DOMAIN users : users[i] \in UserWanting(W)
  BY <1>1, <1>2, ElementOfSeq
<1>4. users # <<>> => Len(users) \in DOMAIN users /\ Len(users) # 0
  BY <1>1, <1>2, EmptySeq
<1>5. TopUser = users[Len(users)]
  BY DEF TopUser, Last
<1> QED
  BY <1>2, <1>3, <1>4, <1>5 DEF UserWanting

(* What a step does to the transfers: the innermost goes on, ...           *)
GoesOn(pc, made) ==
  /\ DOMAIN users' = DOMAIN users /\ Len(users') = Len(users)
  /\ \A i \in DOMAIN users : i # Len(users) => users'[i] = users[i]
  /\ users'[Len(users)].program = users[Len(users)].program
  /\ users'[Len(users)].pc = pc
  /\ users'[Len(users)].made = made

LEMMA TopGoesOn ==
  ASSUME UsersTyped, users # <<>>, NEW W, NEW u \in UserWanting(W),
         u.program = TopUser.program, users' = [users EXCEPT ![Len(users)] = u]
  PROVE  UsersTyped' /\ GoesOn(u.pc, u.made)
<1> DEFINE n == Len(users)
<1>1. n \in DOMAIN users /\ TopUser = users[n] /\ DOMAIN users = 1..n
  BY UserAt
<1>2. PICK V : users \in Seq(UserWanting(V))
  BY DEF UsersTyped
<1>3. UserWanting(V) \subseteq UserWanting(V \cup W) /\ u \in UserWanting(V \cup W)
  BY DEF UserWanting
<1>4. users \in Seq(UserWanting(V \cup W))
  <2>1. \A i \in 1..n : users[i] \in UserWanting(V \cup W)
    BY <1>1, <1>2, <1>3, ElementOfSeq
  <2>2. n \in Nat /\ users \in [1..n -> UserWanting(V)]
    BY <1>2, LenProperties
  <2>3. users \in [1..n -> UserWanting(V \cup W)]
    BY <2>1, <2>2
  <2> QED
    BY <2>2, <2>3, SeqDef
<1> DEFINE S == UserWanting(V \cup W)
<1> HIDE DEF S
<1>5. /\ users' \in Seq(S) /\ Len(users') = n
      /\ \A i \in 1..n : users'[i] = IF i = n THEN u ELSE users[i]
  BY <1>1, <1>3, <1>4, ExceptSeq DEF S
<1>6. UsersTyped'
  BY <1>5 DEF UsersTyped, S, UserWanting
<1>7. DOMAIN users' = DOMAIN users
  BY <1>1, <1>5, LenProperties
<1> QED
  BY <1>1, <1>5, <1>6, <1>7 DEF GoesOn

(* ... others are disturbed, one ends, one begins.                         *)
AsBefore(i) ==
  /\ users'[i].program = users[i].program
  /\ users'[i].pc = users[i].pc
  /\ users'[i].made = users[i].made

LEMMA DisturbedType ==
  ASSUME UsersTyped
  PROVE  /\ \E W : Disturbed \in Seq(UserWanting(W))
         /\ Len(Disturbed) = Len(users) /\ DOMAIN Disturbed = DOMAIN users
         /\ \A i \in DOMAIN users : /\ Disturbed[i].program = users[i].program
                                    /\ Disturbed[i].pc = users[i].pc
                                    /\ Disturbed[i].made = users[i].made
<1>1. PICK W : users \in Seq(UserWanting(W))
  BY DEF UsersTyped
<1> DEFINE n == Len(users)
           V == W \cup {<<>>}
           F(u) == [u EXCEPT !.others = TRUE, !.want = <<>>, !.exact = TRUE]
           d == [i \in DOMAIN users |-> F(users[i])]
<1>2. n \in Nat /\ DOMAIN users = 1..n /\ \A i \in 1..n : users[i] \in UserWanting(W)
  BY <1>1, LenProperties, ElementOfSeq
<1>3. ASSUME NEW u \in UserWanting(W)
      PROVE  /\ F(u) \in UserWanting(V)
             /\ F(u).program = u.program /\ F(u).pc = u.pc /\ F(u).made = u.made
  BY <1>3 DEF UserWanting
<1>4. Disturbed = d
  BY DEF Disturbed
<1> HIDE DEF V, F
<1>5. d \in [1..n -> UserWanting(V)]
  BY <1>2, <1>3
<1> DEFINE S == UserWanting(V)
<1> HIDE DEF S, d
<1>6. d \in Seq(S) /\ Len(d) = n /\ DOMAIN d = 1..n
  <2>1. d \in Seq(S)
    BY <1>2, <1>5, SeqDef DEF S
  <2>2. DOMAIN d = 1..n
    BY <1>5
  <2> QED
    BY <1>2, <2>1, <2>2, LenProperties
<1>7. \A i \in 1..n : d[i] = F(users[i])
  BY <1>2 DEF d
<1> QED
  BY <1>2, <1>3, <1>4, <1>6, <1>7 DEF S

LEMMA Disturbs ==
  ASSUME UsersTyped, users' = Disturbed
  PROVE  UsersTyped' /\ DOMAIN users' = DOMAIN users /\ Len(users') = Len(users)
         /\ \A i \in DOMAIN users : AsBefore(i)
BY DisturbedType DEF UsersTyped, UserWanting, AsBefore

LEMMA Ends ==
  ASSUME UsersTyped, users # <<>>, users' = Front(users)
  PROVE  /\ UsersTyped' /\ Len(users') = Len(users) - 1
         /\ DOMAIN users' = DOMAIN users \ {Len(users)}
         /\ \A i \in DOMAIN users' : users'[i] = users[i]
<1>1. PICK W : users \in Seq(UserWanting(W))
  BY DEF UsersTyped
<1>2. /\ users' \in Seq(UserWanting(W)) /\ Len(users') = Len(users) - 1
      /\ \A i \in 1..(Len(users) - 1) : users'[i] = users[i]
  BY <1>1, FrontProperties DEF Front
<1>3. DOMAIN users' = 1..(Len(users) - 1) /\ DOMAIN users = 1..Len(users) /\ Len(users) \in Nat
  BY <1>1, <1>2, LenProperties
<1>4. UsersTyped'
  BY <1>2 DEF UsersTyped, UserWanting
<1> QED
  BY <1>2, <1>3, <1>4

LEMMA Begins ==
  ASSUME UsersTyped, NEW p \in Programs, Start(p)
  PROVE  /\ UsersTyped' /\ Len(users') = Len(users) + 1
         /\ DOMAIN users' = DOMAIN users \cup {Len(users) + 1}
         /\ \A i \in DOMAIN users : AsBefore(i)
         /\ users'[Len(users) + 1].pc = "begin" /\ users'[Len(users) + 1].made = 0
<1> DEFINE d == Disturbed
           u == [program |-> p, pc |-> "begin", made |-> 0,
                 others |-> FALSE, want |-> <<>>, exact |-> TRUE]
           n == Len(users)
<1>1. PICK W : d \in Seq(UserWanting(W))
  BY DisturbedType
<1>2. /\ Len(d) = n /\ DOMAIN d = DOMAIN users /\ n \in Nat /\ DOMAIN users = 1..n
      /\ \A i \in DOMAIN users : /\ d[i].program = users[i].program
                                 /\ d[i].pc = users[i].pc /\ d[i].made = users[i].made
  BY DisturbedType, UserAt
<1>3. users' = Append(d, u)
  BY DEF Start
<1> DEFINE S == UserWanting(W \cup {<<>>})
<1>4. u \in S /\ u.pc = "begin" /\ u.made = 0
  BY DEF UserWanting
<1>5. UserWanting(W) \subseteq S
  BY DEF UserWanting
<1> HIDE DEF d, u
<1>6. d \in Seq(S)
  <2>1. \A i \in 1..n : d[i] \in S
    BY <1>1, <1>2, <1>5, ElementOfSeq
  <2>2. d \in [1..n -> UserWanting(W)]
    BY <1>1, <1>2, LenProperties
  <2>3. d \in [1..n -> S]
    BY <2>1, <2>2
  <2> QED
    BY <1>2, <2>3, SeqDef
<1> HIDE DEF S, n
<1>7. /\ users' \in Seq(S) /\ Len(users') = n + 1
      /\ \A i \in 1..n : users'[i] = d[i]
      /\ users'[n + 1] = u
  BY <1>2, <1>3, <1>4, <1>6, AppendProperties
<1>8. UsersTyped'
  BY <1>7 DEF UsersTyped, S, UserWanting
<1>9. DOMAIN users' = 1..(n + 1) /\ 1..(n + 1) = 1..n \cup {n + 1}
  BY <1>2, <1>7, LenProperties
<1> QED
  BY <1>2, <1>4, <1>7, <1>8, <1>9 DEF n, AsBefore

(* The bytes in tx_buf_: those written so far, as far as it holds them.    *)
Sent(p, made) == SubSeq(Payload(p), 1, AtMost(made))

LEMMA SentBytes ==
  ASSUME I2cAssumption, NEW p \in Programs
  PROVE  /\ Sent(p, 0) = <<>>
         /\ \A made \in Nat : made < Len(Payload(p)) =>
              Sent(p, made + 1) =
                IF Len(Sent(p, made)) < Capacity
                THEN Append(Sent(p, made), Payload(p)[made + 1]) ELSE Sent(p, made)
         /\ Sent(p, Len(Payload(p))) = Intended(p)
<1> DEFINE data == Payload(p)
           S == Byte
<1>1. data \in Seq(S) /\ Len(data) \in Nat \ {0} /\ Capacity \in Nat \ {0}
  BY PayloadType DEF I2cAssumption
<1> HIDE DEF data, S
<1>2. SubSeq(data, 1, 0) = <<>>
  BY <1>1, SubSeqEmpty
<1>3. ASSUME NEW made \in Nat, made < Len(data)
      PROVE  SubSeq(data, 1, AtMost(made + 1)) =
               IF Len(SubSeq(data, 1, AtMost(made))) < Capacity
               THEN Append(SubSeq(data, 1, AtMost(made)), data[made + 1])
               ELSE SubSeq(data, 1, AtMost(made))
  <2> DEFINE k == AtMost(made)
  <2>1. k \in Nat /\ k <= Capacity /\ k <= made /\ (made < Capacity => k = made)
        /\ (~(made < Capacity) => k = Capacity)
    BY <1>1 DEF AtMost
  <2>2. made < Capacity => AtMost(made + 1) = made + 1
    BY <1>1 DEF AtMost
  <2>3. ~(made < Capacity) => AtMost(made + 1) = Capacity
    BY <1>1 DEF AtMost
  <2> HIDE DEF k
  <2>4. k \in 0..Len(data) /\ 1 \in 1..(Len(data) + 1) /\ 1 <= k + 1
    BY <1>1, <1>3, <2>1
  <2>5. Len(SubSeq(data, 1, k)) = k - 1 + 1 /\ SubSeq(data, 1, k) \in Seq(S)
    BY <1>1, <2>4, Stretch
  <2>6. Len(SubSeq(data, 1, k)) = k
    BY <2>1, <2>5
  <2>7. CASE made < Capacity
    <3>1. made + 1 \in Nat /\ 1 <= made + 1 /\ made + 1 \in 1..Len(data) /\ (made + 1) - 1 = made
          /\ 1 \in 1..Len(data)
      BY <1>1, <1>3
    <3>2. SubSeq(data, 1, made + 1) = SubSeq(data, 1, (made + 1) - 1) \o <<data[made + 1]>>
      BY <1>1, <3>1, SubSeqRecursiveSecond
    <3>3. SubSeq(data, 1, made + 1) = SubSeq(data, 1, made) \o <<data[made + 1]>>
      BY <3>1, <3>2
    <3>4. data[made + 1] \in S
      BY <1>1, <3>1, ElementOfSeq
    <3>5. SubSeq(data, 1, made + 1) = Append(SubSeq(data, 1, made), data[made + 1])
      BY <2>1, <2>5, <2>7, <3>3, <3>4, AppendIsConcat
    <3> QED
      BY <2>1, <2>2, <2>6, <2>7, <3>5 DEF k
  <2>8. CASE ~(made < Capacity)
    BY <1>1, <2>1, <2>3, <2>6, <2>8 DEF k
  <2> QED
    BY <2>7, <2>8
<1>4. AtMost(0) = 0
  BY <1>1 DEF AtMost
<1>5. Sent(p, 0) = <<>>
  BY <1>2, <1>4 DEF Sent, data
<1>6. Sent(p, Len(data)) = Intended(p)
  BY DEF Sent, Intended, data
<1> QED
  BY <1>3, <1>5, <1>6 DEF Sent, data

(* The invariant.  Calls of write are counted; as long as nothing is       *)
(* reported, what the wire holds is what the one that writes has said, and *)
(* those started after it have not begun; as long as nobody has misused    *)
(* the wire, nothing is reported, and the wire is open just when the       *)
(* innermost writes.                                                       *)
Counted ==
  \A i \in DOMAIN users :
    LET u == users[i]
    IN  /\ u.pc = "begin" => u.made = 0
        /\ u.pc = "write" => u.made < Len(Payload(u.program))
        /\ u.pc = "end" => u.made = Len(Payload(u.program))

Mine ==
  ~reported =>
    /\ ~corrupted
    /\ \A i \in DOMAIN users : users[i].pc \in Writing =>
         /\ open /\ addr = users[i].program.addr
         /\ tx = Sent(users[i].program, users[i].made)
         /\ \A j \in DOMAIN users : j > i => users[j].pc = "begin"

Kept ==
  ~misused =>
    /\ ~reported
    /\ open => Len(users) # 0 /\ users[Len(users)].pc \in Writing
    /\ \A i \in DOMAIN users : users[i].pc \in Writing => i = Len(users) /\ open

WireInv == UsersTyped /\ Counted /\ Mine /\ Kept

(* How the innermost transfer goes on at each call.                        *)
LEMMA BeginGoesOn ==
  ASSUME UsersTyped, BeginTransmission
  PROVE  UsersTyped' /\ GoesOn("write", users[Len(users)].made)
<1> DEFINE u == [TopUser EXCEPT !.pc = "write"]
<1>1. PICK W : users \in Seq(UserWanting(W))
  BY DEF UsersTyped
<1>2. users # <<>> /\ Len(users) \in DOMAIN users /\ TopUser = users[Len(users)]
  BY UserAt DEF BeginTransmission, Running
<1>3. TopUser \in UserWanting(W)
  BY <1>1, <1>2, ElementOfSeq, LenProperties
<1>4. u \in UserWanting(W) /\ u.program = TopUser.program /\ u.pc = "write"
      /\ u.made = TopUser.made
  BY <1>3 DEF UserWanting
<1>5. users' = [users EXCEPT ![Len(users)] = u]
  BY <1>2 DEF BeginTransmission, GoOn
<1> HIDE DEF u
<1> QED
  BY <1>2, <1>4, <1>5, TopGoesOn

LEMMA WriteGoesOn ==
  ASSUME I2cAssumption, UsersTyped, WriteByte
  PROVE  /\ UsersTyped'
         /\ LET u == users[Len(users)]
            IN  GoesOn(IF u.made + 1 = Len(Payload(u.program)) THEN "end" ELSE "write",
                       u.made + 1)
<1> DEFINE last == TopUser.made + 1 = Len(Payload(TopUser.program))
           u == [TopUser EXCEPT !.made = @ + 1, !.pc = IF last THEN "end" ELSE @]
<1>1. PICK W : users \in Seq(UserWanting(W))
  BY DEF UsersTyped
<1>2. users # <<>> /\ Len(users) \in DOMAIN users /\ TopUser = users[Len(users)]
      /\ TopUser.pc = "write"
  BY UserAt DEF WriteByte, Running
<1>3. TopUser \in UserWanting(W)
  BY <1>1, <1>2, ElementOfSeq, LenProperties
<1>5. users' = [users EXCEPT ![Len(users)] = u]
  BY <1>2 DEF WriteByte
<1> HIDE DEF last
<1>4. u \in UserWanting(W) /\ u.program = TopUser.program
      /\ u.pc = (IF last THEN "end" ELSE "write") /\ u.made = TopUser.made + 1
  <2> DEFINE made == TopUser.made + 1
             pc == IF last THEN "end" ELSE "write"
  <2>1. u = [TopUser EXCEPT !.made = made, !.pc = pc]
    BY <1>2, <1>3 DEF UserWanting
  <2>2. made \in Nat /\ pc \in {"end", "write"}
    BY <1>3 DEF UserWanting
  <2> HIDE DEF made, pc, u
  <2>3. u \in UserWanting(W) /\ u.program = TopUser.program /\ u.pc = pc /\ u.made = made
    BY <1>3, <2>1, <2>2 DEF UserWanting
  <2> QED
    BY <2>3 DEF made, pc
<1> HIDE DEF u
<1> QED
  BY <1>2, <1>4, <1>5, TopGoesOn DEF last

LEMMA EndGoesOn ==
  ASSUME UsersTyped, EndTransmission
  PROVE  UsersTyped' /\ \E pc \in {"request", "done"} : GoesOn(pc, users[Len(users)].made)
<1> DEFINE u == [TopUser EXCEPT !.pc = IF TopUser.program.n > 0 THEN "request" ELSE "done"]
<1>1. PICK W : users \in Seq(UserWanting(W))
  BY DEF UsersTyped
<1>2. users # <<>> /\ Len(users) \in DOMAIN users /\ TopUser = users[Len(users)]
  BY UserAt DEF EndTransmission, Running
<1>3. TopUser \in UserWanting(W)
  BY <1>1, <1>2, ElementOfSeq, LenProperties
<1>4. u \in UserWanting(W) /\ u.program = TopUser.program /\ u.pc \in {"request", "done"}
      /\ u.made = TopUser.made
  BY <1>3 DEF UserWanting
<1>5. users' = [users EXCEPT ![Len(users)] = u]
  BY <1>2 DEF EndTransmission, GoOn
<1> HIDE DEF u
<1> QED
  BY <1>2, <1>4, <1>5, TopGoesOn

LEMMA RequestGoesOn ==
  ASSUME UsersTyped, RequestFrom
  PROVE  UsersTyped' /\ GoesOn("read", 0)
<1> DEFINE want == IF TopUser.others THEN <<>> ELSE Wanted(TopUser.program)
           u == [TopUser EXCEPT !.made = 0, !.want = want, !.pc = "read"]
<1>1. PICK W : users \in Seq(UserWanting(W))
  BY DEF UsersTyped
<1>2. users # <<>> /\ Len(users) \in DOMAIN users /\ TopUser = users[Len(users)]
  BY UserAt DEF RequestFrom, Running
<1>3. TopUser \in UserWanting(W)
  BY <1>1, <1>2, ElementOfSeq, LenProperties
<1>5. users' = [users EXCEPT ![Len(users)] = u]
  BY <1>2 DEF RequestFrom
<1> HIDE DEF want
<1>4. u \in UserWanting({want}) /\ u.program = TopUser.program /\ u.pc = "read" /\ u.made = 0
  BY <1>3 DEF UserWanting
<1> HIDE DEF u
<1> QED
  BY <1>2, <1>4, <1>5, TopGoesOn

LEMMA ReadGoesOn ==
  ASSUME UsersTyped, Read
  PROVE  UsersTyped' /\ \E pc \in {"read", "done"} : GoesOn(pc, users[Len(users)].made + 1)
<1> DEFINE byte == IF rx = <<>> THEN NoByte ELSE Head(rx)
           right == TopUser.others \/ byte = TopUser.want[TopUser.made + 1]
           last == TopUser.made + 1 = TopUser.program.n
           u == [TopUser EXCEPT !.made = TopUser.made + 1, !.exact = @ /\ right,
                                 !.pc = IF last THEN "done" ELSE @]
<1>1. PICK W : users \in Seq(UserWanting(W))
  BY DEF UsersTyped
<1>2. users # <<>> /\ Len(users) \in DOMAIN users /\ TopUser = users[Len(users)]
      /\ TopUser.pc = "read"
  BY UserAt DEF Read, Running
<1>3. TopUser \in UserWanting(W)
  BY <1>1, <1>2, ElementOfSeq, LenProperties
<1>5. users' = [users EXCEPT ![Len(users)] = u]
  BY <1>2 DEF Read
<1>6. right \in BOOLEAN
  BY <1>3 DEF UserWanting
<1> HIDE DEF last, right
<1>4. u \in UserWanting(W) /\ u.program = TopUser.program /\ u.pc \in {"read", "done"}
      /\ u.made = TopUser.made + 1
  <2> DEFINE made == TopUser.made + 1
             pc == IF last THEN "done" ELSE "read"
             exact == TopUser.exact /\ right
  <2>1. u = [TopUser EXCEPT !.made = made, !.exact = exact, !.pc = pc]
    BY <1>2, <1>3 DEF UserWanting
  <2>2. made \in Nat /\ pc \in {"done", "read"} /\ exact \in BOOLEAN
    BY <1>3, <1>6 DEF UserWanting
  <2> HIDE DEF made, pc, exact, u
  <2>3. u \in UserWanting(W) /\ u.program = TopUser.program /\ u.pc = pc /\ u.made = made
    BY <1>3, <2>1, <2>2 DEF UserWanting
  <2> QED
    BY <2>2, <2>3 DEF made
<1> HIDE DEF u
<1> QED
  BY <1>2, <1>4, <1>5, TopGoesOn

LEMMA WireStep ==
  ASSUME I2cAssumption, WireInv, [WireNext]_(wireVars)
  PROVE  WireInv'
<1> DEFINE n == Len(users)
<1> SUFFICES WireInv'
  OBVIOUS
<1>0. /\ n \in Nat /\ DOMAIN users = 1..n
      /\ \A i \in DOMAIN users : users[i].program \in Programs /\ users[i].made \in Nat
      /\ users # <<>> => n \in DOMAIN users /\ n # 0 /\ TopUser = users[n]
  BY UserAt DEF WireInv
<1>1. CASE BeginTransmission
  <2>1. /\ UsersTyped' /\ GoesOn("write", users[n].made)
        /\ n \in DOMAIN users /\ users[n].pc = "begin" /\ users[n].made = 0
    BY <1>0, <1>1, BeginGoesOn DEF WireInv, Counted, BeginTransmission, Running
  <2>2. /\ reported' = (reported \/ open) /\ open' /\ addr' = users[n].program.addr
        /\ tx' = <<>> /\ misused' = misused /\ corrupted' = corrupted
    BY <1>0, <1>1, <2>1 DEF BeginTransmission, OpenAlready, Running
  <2>3. Len(Payload(users[n].program)) \in Nat \ {0} /\ Sent(users[n].program, 0) = <<>>
    BY <1>0, <2>1, PayloadType, SentBytes
  <2> HIDE DEF n
  <2>4. Counted'
    BY <1>0, <2>1, <2>3 DEF WireInv, Counted, GoesOn, n
  <2>5. ~reported' \/ ~misused' => \A i \in DOMAIN users : users[i].pc \notin Writing
    <3>1. ~reported' => ~reported /\ ~open
      BY <2>2
    <3>2. ~misused' => ~misused /\ (open => users[n].pc \in Writing)
      BY <2>2 DEF WireInv, Kept, n
    <3> QED
      BY <2>1, <3>1, <3>2 DEF WireInv, Mine, Kept, Writing
  <2>6. \A i \in DOMAIN users : ~(i > n)
    BY <1>0
  <2>7. Mine'
    <3>1. ~reported' => ~corrupted'
      BY <2>2 DEF WireInv, Mine
    <3>2. ASSUME ~reported', NEW i \in DOMAIN users', users'[i].pc \in Writing
          PROVE  i = n /\ i \in DOMAIN users
      BY <2>1, <2>5, <3>2 DEF GoesOn, n
    <3> QED
      BY <2>1, <2>2, <2>3, <2>6, <3>1, <3>2 DEF Mine, GoesOn, n
  <2>8. Kept'
    <3>1. ~misused' => ~reported'
      BY <2>1, <2>2 DEF WireInv, Kept, n, Writing
    <3>2. users'[n].pc \in Writing /\ Len(users') = n /\ n # 0
      BY <1>0, <2>1 DEF GoesOn, n, Writing
    <3>3. ASSUME ~misused', NEW i \in DOMAIN users', users'[i].pc \in Writing
          PROVE  i = n
      BY <2>1, <2>5, <3>3 DEF GoesOn, n
    <3> QED
      BY <2>2, <3>1, <3>2, <3>3 DEF Kept
  <2> QED
    BY <2>1, <2>4, <2>7, <2>8 DEF WireInv
<1>2. CASE WriteByte
  <2> DEFINE p == users[n].program
             made == users[n].made
             pc == IF made + 1 = Len(Payload(p)) THEN "end" ELSE "write"
  <2>1. /\ UsersTyped' /\ GoesOn(pc, made + 1)
        /\ n \in DOMAIN users /\ users[n].pc = "write" /\ n # 0
    BY <1>0, <1>2, WriteGoesOn DEF WireInv, WriteByte, Running
  <2>2. /\ reported' = (reported \/ ~open) /\ open' = open /\ addr' = addr
        /\ tx' = (IF Len(tx) < Capacity THEN Append(tx, Payload(p)[made + 1]) ELSE tx)
        /\ misused' = misused /\ corrupted' = corrupted
    BY <1>0, <1>2, <2>1 DEF WriteByte, Running
  <2>3. made \in Nat /\ Len(Payload(p)) \in Nat /\ made < Len(Payload(p))
    BY <1>0, <2>1, PayloadType DEF WireInv, Counted
  <2>4. Sent(p, made + 1) = IF Len(Sent(p, made)) < Capacity
                            THEN Append(Sent(p, made), Payload(p)[made + 1])
                            ELSE Sent(p, made)
    BY <1>0, <2>1, <2>3, SentBytes
  <2>5. pc \in Writing /\ (pc = "write" => made + 1 < Len(Payload(p)))
        /\ (pc = "end" => made + 1 = Len(Payload(p)))
    BY <2>3 DEF Writing
  <2> HIDE DEF n, pc
  <2>6. Counted'
    BY <1>0, <2>1, <2>5 DEF WireInv, Counted, GoesOn, n, Writing
  <2>7. ASSUME ~reported'
        PROVE  /\ ~corrupted' /\ open' /\ addr' = p.addr /\ tx' = Sent(p, made + 1)
               /\ \A i \in DOMAIN users : users[i].pc \in Writing => i = n
    <3>1. ~reported /\ ~corrupted /\ open /\ addr = p.addr /\ tx = Sent(p, made)
      BY <2>1, <2>2, <2>7 DEF WireInv, Mine, Writing
    <3>2. ASSUME NEW i \in DOMAIN users, users[i].pc \in Writing, i # n
          PROVE  FALSE
      <4>1. n > i
        BY <1>0, <3>2
      <4> QED
        BY <2>1, <3>1, <3>2, <4>1 DEF WireInv, Mine, Writing
    <3> QED
      BY <2>2, <2>4, <3>1, <3>2
  <2>8. Mine'
    <3>1. \A i \in DOMAIN users : ~(i > n)
      BY <1>0
    <3> QED
      BY <2>1, <2>7, <3>1 DEF Mine, GoesOn, n
  <2>9. Kept'
    BY <1>0, <2>1, <2>2, <2>5 DEF WireInv, Kept, GoesOn, n, Writing
  <2> QED
    BY <2>1, <2>6, <2>8, <2>9 DEF WireInv
<1>3. CASE EndTransmission
  <2>1. /\ UsersTyped' /\ n \in DOMAIN users /\ users[n].pc = "end" /\ n # 0
        /\ DOMAIN users' = DOMAIN users
        /\ \A i \in DOMAIN users : i # n => users'[i] = users[i]
        /\ users'[n].pc \in {"request", "done"}
    BY <1>0, <1>3, EndGoesOn DEF WireInv, EndTransmission, Running, GoesOn
  <2>2. /\ reported' = reported /\ ~open' /\ misused' = misused
        /\ corrupted' = (corrupted \/ addr # users[n].program.addr
                                   \/ tx # Intended(users[n].program))
    BY <1>0, <1>3, <2>1 DEF EndTransmission, Running, OpenAfterEnd
  <2>3. Sent(users[n].program, users[n].made) = Intended(users[n].program)
    <3>1. users[n].made = Len(Payload(users[n].program))
      BY <2>1 DEF WireInv, Counted
    <3> QED
      BY <1>0, <2>1, <3>1, SentBytes
  <2> HIDE DEF n
  <2>4. Counted'
    BY <1>0, <2>1 DEF WireInv, Counted
  <2>5. ~reported => /\ addr = users[n].program.addr /\ ~corrupted
                     /\ tx = Intended(users[n].program)
                     /\ \A i \in DOMAIN users : users[i].pc \in Writing => i = n
    <3>1. ASSUME ~reported, NEW i \in DOMAIN users, users[i].pc \in Writing, i # n
          PROVE  FALSE
      <4>1. n > i
        BY <1>0, <3>1
      <4> QED
        BY <2>1, <3>1, <4>1 DEF WireInv, Mine, Writing
    <3> QED
      BY <2>1, <2>3, <3>1 DEF WireInv, Mine, Writing
  <2>6. Mine'
    BY <2>1, <2>2, <2>5 DEF Mine, Writing
  <2>7. Kept'
    BY <2>1, <2>2 DEF WireInv, Kept, n, Writing
  <2> QED
    BY <2>1, <2>4, <2>6, <2>7 DEF WireInv
<1>4. CASE RequestFrom \/ Read
  <2>1. /\ UsersTyped' /\ n \in DOMAIN users /\ users[n].pc \in {"request", "read"}
        /\ DOMAIN users' = DOMAIN users /\ Len(users') = n
        /\ \A i \in DOMAIN users : i # n => users'[i] = users[i]
        /\ users'[n].pc \in {"read", "done"}
    BY <1>0, <1>4, RequestGoesOn, ReadGoesOn
    DEF WireInv, RequestFrom, Read, Running, GoesOn
  <2>2. /\ reported' = reported /\ open' = open /\ addr' = addr /\ tx' = tx
        /\ misused' = misused /\ corrupted' = corrupted
    BY <1>4 DEF RequestFrom, Read
  <2> HIDE DEF n
  <2>3. Counted'
    BY <1>0, <2>1 DEF WireInv, Counted
  <2>4. Mine'
    <3>1. ASSUME ~reported, NEW i \in DOMAIN users, users[i].pc \in Writing
          PROVE  FALSE
      <4>1. n > i
        BY <1>0, <2>1, <3>1 DEF Writing
      <4> QED
        BY <2>1, <3>1, <4>1 DEF WireInv, Mine, Writing
    <3> QED
      BY <2>1, <2>2, <3>1 DEF WireInv, Mine, Writing
  <2>5. Kept'
    BY <2>1, <2>2 DEF WireInv, Kept, n, Writing
  <2> QED
    BY <2>1, <2>3, <2>4, <2>5 DEF WireInv
<1>5. ASSUME NEW p \in Programs, Start(p)
      PROVE  WireInv'
  <2>1. /\ UsersTyped' /\ Len(users') = n + 1 /\ DOMAIN users' = DOMAIN users \cup {n + 1}
        /\ \A i \in DOMAIN users : AsBefore(i)
        /\ users'[n + 1].pc = "begin" /\ users'[n + 1].made = 0
    BY <1>5, Begins DEF WireInv
  <2>2. /\ reported' = reported /\ open' = open /\ addr' = addr /\ tx' = tx
        /\ misused' = (misused \/ open) /\ corrupted' = corrupted
    BY <1>5 DEF Start, wire
  <2> HIDE DEF n
  <2>3. Counted'
    BY <2>1 DEF WireInv, Counted, AsBefore
  <2>4. Mine'
    BY <2>1, <2>2 DEF WireInv, Mine, AsBefore, Writing
  <2>5. Kept'
    BY <2>1, <2>2 DEF WireInv, Kept, AsBefore, Writing
  <2> QED
    BY <2>1, <2>3, <2>4, <2>5 DEF WireInv
<1>6. CASE Return \/ GiveUp
  <2>1. /\ users # <<>> /\ users' = Front(users) /\ n \in DOMAIN users
        /\ reported' = reported /\ open' = open /\ addr' = addr /\ tx' = tx
        /\ corrupted' = corrupted
        /\ ~misused' => ~misused /\ users[n].pc \notin Writing
    <3>1. users # <<>>
      BY <1>6 DEF Return, GiveUp, Running
    <3>2. n \in DOMAIN users /\ TopUser = users[n]
      BY <1>0, <3>1
    <3>3. CASE Return
      BY <3>1, <3>2, <3>3 DEF Return, wire, Running, Writing
    <3>4. CASE GiveUp
      BY <3>1, <3>2, <3>4 DEF GiveUp, wire, Writing
    <3> QED
      BY <1>6, <3>3, <3>4
  <2>2. /\ UsersTyped' /\ DOMAIN users' = DOMAIN users \ {n}
        /\ \A i \in DOMAIN users' : users'[i] = users[i]
    BY <2>1, Ends DEF WireInv
  <2> HIDE DEF n
  <2>3. Counted'
    BY <2>2 DEF WireInv, Counted
  <2>4. Mine'
    BY <2>1, <2>2 DEF WireInv, Mine
  <2>5. Kept'
    BY <2>1, <2>2 DEF WireInv, Kept, n
  <2> QED
    BY <2>2, <2>3, <2>4, <2>5 DEF WireInv
<1>7. ASSUME NEW a \in Places \cup {None}, Attach(a)
      PROVE  WireInv'
  <2>1. /\ UsersTyped' /\ DOMAIN users' = DOMAIN users /\ Len(users') = n
        /\ \A i \in DOMAIN users : AsBefore(i)
    BY <1>7, Disturbs DEF WireInv, Attach
  <2>2. /\ reported' = reported /\ open' = open /\ addr' = addr /\ tx' = tx
        /\ misused' = misused /\ corrupted' = corrupted
    BY <1>7 DEF Attach, wire
  <2> HIDE DEF n
  <2>3. Counted'
    BY <2>1 DEF WireInv, Counted, AsBefore
  <2>4. Mine'
    BY <2>1, <2>2 DEF WireInv, Mine, AsBefore
  <2>5. Kept'
    BY <1>0, <2>1, <2>2 DEF WireInv, Kept, AsBefore, n
  <2> QED
    BY <2>1, <2>3, <2>4, <2>5 DEF WireInv
<1>8. CASE WireReset
  <2>1. users' = <<>> /\ ~open' /\ ~reported' /\ ~misused' /\ ~corrupted'
    BY <1>8 DEF WireReset
  <2>2. UsersTyped' /\ Len(users') = 0 /\ DOMAIN users' = {}
    <3>1. <<>> \in Seq(UserWanting({}))
      BY EmptySeq
    <3> QED
      BY <2>1, <3>1 DEF UsersTyped, UserWanting
  <2> QED
    BY <2>1, <2>2 DEF WireInv, Counted, Mine, Kept
<1>9. CASE (\E s \in Settings : SetRegister(s[1], s[2])) \/ UNCHANGED wireVars
  <2>1. UNCHANGED <<users, open, addr, tx, reported, misused, corrupted>>
    BY <1>9 DEF SetRegister, wire, wireVars
  <2> QED
    BY <2>1 DEF WireInv, UsersTyped, UserWanting, Counted, Mine, Kept, Sent
<1> QED
  BY <1>1, <1>2, <1>3, <1>4, <1>5, <1>6, <1>7, <1>8, <1>9 DEF WireNext

LEMMA WireInvariant == I2cAssumption => (WireSpec => []WireInv)
<1> SUFFICES ASSUME I2cAssumption PROVE WireSpec => []WireInv
  OBVIOUS
<1>1. WireInit => WireInv
  <2> SUFFICES ASSUME WireInit PROVE WireInv
    OBVIOUS
  <2>1. users = <<>> /\ ~open /\ ~reported /\ ~misused /\ ~corrupted
    BY DEF WireInit
  <2>2. UsersTyped /\ Len(users) = 0 /\ DOMAIN users = {}
    <3>1. <<>> \in Seq(UserWanting({}))
      BY EmptySeq
    <3> QED
      BY <2>1, <3>1 DEF UsersTyped
  <2> QED
    BY <2>1, <2>2 DEF WireInv, Counted, Mine, Kept
<1> QED
  BY <1>1, WireStep, PTL DEF WireSpec

(* If an end sends bytes that its program did not write, or to an address  *)
(* that it did not name, strict mode has reported E020 or E022 by then,    *)
(* for any programs, nesting and early returns (wire.cpp:31-77,            *)
(* strict-mode.md:96-98).                                                  *)
THEOREM CorruptionIsReported ==
  I2cAssumption => (WireSpec => []CorruptionReported)
<1> SUFFICES ASSUME I2cAssumption PROVE WireSpec => []CorruptionReported
  OBVIOUS
<1>1. WireInv => CorruptionReported
  BY DEF WireInv, Mine, CorruptionReported
<1> QED
  BY <1>1, WireInvariant, PTL

(* And it reports neither where code ends its transfers and starts none    *)
(* while one is open (wire.cpp:31-77).                                     *)
THEOREM NoReportWithoutMisuse ==
  I2cAssumption => (WireSpec => []NoFalseReport)
<1> SUFFICES ASSUME I2cAssumption PROVE WireSpec => []NoFalseReport
  OBVIOUS
<1>1. WireInv => NoFalseReport
  BY DEF WireInv, Kept, NoFalseReport
<1> QED
  BY <1>1, WireInvariant, PTL
=============================================================================
