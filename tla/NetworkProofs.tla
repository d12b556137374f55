----------------------------- MODULE NetworkProofs -----------------------------
(***************************************************************************)
(* Theorems about the network, for any clients, URLs and calls: messages   *)
(* are handed over once and in order, a seeded response answers one        *)
(* request, and what a test looks at accounts for every call.              *)
(***************************************************************************)
EXTENDS Network, SeqLemmas

-----------------------------------------------------------------------------
(* The incoming messages.                                                  *)

(* The messages 1..taken have left the queue, those up to delivered wait.  *)
MqttInv ==
  /\ delivered \in Nat /\ pending \in Seq(Nat) /\ handed \in Seq(Nat)
  /\ Len(pending) <= delivered
  /\ \A i \in 1..Len(pending) : pending[i] = delivered - Len(pending) + i
  /\ \A i, j \in DOMAIN handed : i < j => handed[i] < handed[j]
  /\ ToSet(handed) \cup dropped = 1..(delivered - Len(pending))
  /\ ToSet(handed) \cap dropped = {}

LEMMA MqttSteps ==
  ASSUME [Next]_vars
  PROVE  \/ UNCHANGED <<pending, delivered, handed, dropped>>
         \/ Deliver \/ HandOver \/ Drop \/ MqttReset
BY DEF Next, MqttStep, MqttNext, CallStep, EnableStep, Reset, vars, mqttVars, Connect,
       SetCallback, LoopBegins, CallbackReturns, LoopReturns

LEMMA PoppedMessage ==
  ASSUME MqttInv, pending # <<>>
  PROVE  LET t == delivered - Len(pending) + 1
         IN  /\ Head(pending) = t /\ t \in Nat
             /\ Tail(pending) \in Seq(Nat) /\ Len(Tail(pending)) = Len(pending) - 1
             /\ Len(Tail(pending)) <= delivered
             /\ delivered - Len(Tail(pending)) = t
             /\ \A i \in 1..Len(Tail(pending)) :
                  Tail(pending)[i] = delivered - Len(Tail(pending)) + i
             /\ t \notin ToSet(handed) \cup dropped
             /\ ToSet(handed) \cup dropped \cup {t} = 1..(delivered - Len(Tail(pending)))
<1> DEFINE l == Len(pending)
           t == delivered - l + 1
           q == Tail(pending)
<1>1. delivered \in Nat /\ l \in Nat \ {0} /\ l <= delivered
  BY EmptySeq, LenProperties DEF MqttInv
<1>2. /\ Head(pending) = pending[1] /\ q \in Seq(Nat) /\ Len(q) = l - 1
      /\ \A i \in 1..Len(q) : q[i] = pending[i + 1]
  BY HeadTailProperties DEF MqttInv
<1>3. \A i \in 1..l : pending[i] = delivered - l + i
  BY DEF MqttInv
<1>4. ToSet(handed) \cup dropped = 1..(delivered - l)
  BY DEF MqttInv
<1> HIDE DEF l, q
<1>5. Head(pending) = t /\ t \in Nat
  <2>1. 1 \in 1..l
    BY <1>1
  <2> QED
    BY <2>1, <1>1, <1>2, <1>3
<1>6. Len(q) <= delivered /\ delivered - Len(q) = t
  BY <1>1, <1>2
<1>7. ASSUME NEW i \in 1..Len(q)
      PROVE  q[i] = delivered - Len(q) + i
  <2>1. i + 1 \in 1..l
    BY <1>1, <1>2
  <2>2. q[i] = delivered - l + (i + 1)
    BY <2>1, <1>2, <1>3
  <2> QED
    BY <2>2, <1>1, <1>6
<1>8. t \notin 1..(delivered - l) /\ (1..(delivered - l)) \cup {t} = 1..t
  BY <1>1
<1> QED
  BY <1>2, <1>4, <1>5, <1>6, <1>7, <1>8 DEF l, q

LEMMA MqttInvStep == MqttInv /\ [Next]_vars => MqttInv'
<1> SUFFICES ASSUME MqttInv, [Next]_vars
             PROVE  MqttInv'
  OBVIOUS
<1>1. CASE UNCHANGED <<pending, delivered, handed, dropped>>
  BY <1>1 DEF MqttInv
<1>2. CASE Deliver
  <2> DEFINE q == Append(pending, delivered + 1)
             l == Len(pending)
  <2>1. delivered' = delivered + 1 /\ pending' = q /\ UNCHANGED <<handed, dropped>>
    BY <1>2 DEF Deliver
  <2>2. delivered \in Nat /\ pending \in Seq(Nat) /\ l \in Nat /\ l <= delivered
    BY LenProperties DEF MqttInv
  <2>3. /\ q \in Seq(Nat) /\ Len(q) = l + 1
        /\ \A i \in 1..l : q[i] = pending[i]
        /\ q[l + 1] = delivered + 1
    BY <2>2, AppendProperties
  <2>4. \A i \in 1..l : pending[i] = delivered - l + i
    BY DEF MqttInv
  <2> HIDE DEF q, l
  <2>5. \A i \in 1..Len(q) : q[i] = (delivered + 1) - Len(q) + i
    <3> SUFFICES ASSUME NEW i \in 1..Len(q)
                 PROVE  q[i] = (delivered + 1) - Len(q) + i
      OBVIOUS
    <3>1. CASE i \in 1..l
      BY <2>2, <2>3, <2>4, <3>1
    <3>2. CASE i = l + 1
      BY <2>2, <2>3, <3>2
    <3> QED
      BY <2>2, <2>3, <3>1, <3>2
  <2>6. Len(q) <= delivered + 1 /\ (delivered + 1) - Len(q) = delivered - l /\ delivered + 1 \in Nat
    BY <2>2, <2>3
  <2> QED
    BY <2>1, <2>3, <2>5, <2>6 DEF MqttInv, l
<1>3. CASE HandOver
  <2> DEFINE t == delivered - Len(pending) + 1
             w == Append(handed, t)
  <2>1. /\ pending # <<>> /\ pending' = Tail(pending) /\ handed' = Append(handed, Head(pending))
        /\ UNCHANGED <<delivered, dropped>>
    BY <1>3 DEF HandOver, Popped
  <2>2. /\ Head(pending) = t /\ t \in Nat
        /\ Tail(pending) \in Seq(Nat) /\ Len(Tail(pending)) <= delivered
        /\ \A i \in 1..Len(Tail(pending)) : Tail(pending)[i] = delivered - Len(Tail(pending)) + i
        /\ t \notin ToSet(handed) \cup dropped
        /\ ToSet(handed) \cup dropped \cup {t} = 1..(delivered - Len(Tail(pending)))
    BY <2>1, PoppedMessage
  <2>3. /\ handed \in Seq(Nat) /\ \A i, j \in DOMAIN handed : i < j => handed[i] < handed[j]
        /\ ToSet(handed) \cap dropped = {}
    BY DEF MqttInv
  <2>4. delivered - Len(pending) \in Nat /\ \A i \in DOMAIN handed : handed[i] <= delivered - Len(pending)
    <3>1. delivered \in Nat /\ Len(pending) \in Nat /\ Len(pending) <= delivered
      BY LenProperties DEF MqttInv
    <3>2. \A i \in DOMAIN handed : handed[i] \in ToSet(handed)
      BY DEF ToSet
    <3>3. ToSet(handed) \subseteq 1..(delivered - Len(pending))
      BY DEF MqttInv
    <3> QED
      BY <3>1, <3>2, <3>3
  <2>5. delivered - Len(pending) < t
    BY <2>4
  <2> HIDE DEF t
  <2>6. w \in Seq(Nat) /\ \A i, j \in DOMAIN w : i < j => w[i] < w[j]
    BY <2>2, <2>3, <2>4, <2>5, IncreasingAppend
  <2>7. ToSet(w) = ToSet(handed) \cup {t}
    BY <2>2, <2>3, ToSetOfAppend
  <2>8. ToSet(w) \cup dropped = 1..(delivered - Len(Tail(pending))) /\ ToSet(w) \cap dropped = {}
    BY <2>2, <2>3, <2>7
  <2>9. handed' = w /\ delivered \in Nat
    BY <2>1, <2>2 DEF MqttInv
  <2> HIDE DEF w
  <2> QED
    BY <2>1, <2>2, <2>6, <2>8, <2>9 DEF MqttInv
<1>4. CASE Drop
  <2> DEFINE t == delivered - Len(pending) + 1
  <2>1. /\ pending # <<>> /\ pending' = Tail(pending) /\ dropped' = dropped \cup {Head(pending)}
        /\ UNCHANGED <<delivered, handed>>
    BY <1>4 DEF Drop, Popped
  <2>2. /\ Head(pending) = t
        /\ Tail(pending) \in Seq(Nat) /\ Len(Tail(pending)) <= delivered
        /\ \A i \in 1..Len(Tail(pending)) : Tail(pending)[i] = delivered - Len(Tail(pending)) + i
        /\ t \notin ToSet(handed) \cup dropped
        /\ ToSet(handed) \cup dropped \cup {t} = 1..(delivered - Len(Tail(pending)))
    BY <2>1, PoppedMessage
  <2> HIDE DEF t
  <2> QED
    BY <2>1, <2>2 DEF MqttInv
<1>5. CASE MqttReset
  <2>1. <<>> \in Seq(Nat) /\ Len(<<>>) = 0 /\ ToSet(<<>>) = {} /\ 1..(0 - 0) = {}
    BY EmptySeq DEF ToSet
  <2> QED
    BY <1>5, <2>1 DEF MqttReset, MqttInv
<1> QED
  BY <1>1, <1>2, <1>3, <1>4, <1>5, MqttSteps

LEMMA MqttInvariant == Spec => []MqttInv
<1>1. Init => MqttInv
  <2>1. <<>> \in Seq(Nat) /\ Len(<<>>) = 0 /\ ToSet(<<>>) = {} /\ 1..(0 - 0) = {}
    BY EmptySeq DEF ToSet
  <2> QED
    BY <2>1 DEF Init, MqttInit, MqttInv
<1> QED
  BY <1>1, MqttInvStep, PTL DEF Spec

(* However loops and callbacks are nested, each message delivered waits,   *)
(* has been handed over once, or was dropped, and they are taken in order  *)
(* (pubsub_client.cpp:48-63, network.cpp:44-49).                           *)
THEOREM MessagesHandedOnce == Spec => []EachMessageOnce
<1>1. MqttInv => EachMessageOnce
  <2> SUFFICES ASSUME MqttInv PROVE EachMessageOnce
    OBVIOUS
  <2> DEFINE q == [i \in 1..Len(pending) |-> delivered - Len(pending) + i]
  <2>1. pending = q
    <3>1. pending = [i \in 1..Len(pending) |-> pending[i]]
      BY LenProperties DEF MqttInv
    <3>2. \A i \in 1..Len(pending) : pending[i] = q[i]
      BY DEF MqttInv
    <3> QED
      BY <3>1, <3>2
  <2> QED
    BY <2>1 DEF MqttInv, EachMessageOnce
<1> QED
  BY <1>1, MqttInvariant, PTL

-----------------------------------------------------------------------------
(* The requests and their answers.                                         *)

(* The types of what no property speaks of by itself.                      *)
OtherTypes ==
  /\ connected \in [Clients -> BOOLEAN] /\ callback \in [Clients -> BOOLEAN]
  /\ loops \in Seq(Loop)
  /\ enabled \in BOOLEAN
  /\ wifi \in WifiStates
  /\ room \in Rooms

LEMMA LoopsStep ==
  ASSUME loops \in Seq(Loop), MqttInv, room \in Rooms, [Next]_vars
  PROVE  loops' \in Seq(Loop)
<1>0. room.clients \subseteq Clients
  BY NetworkAssumption
<1>1. ASSUME NEW m \in Nat, loops # <<>>, SetTop(m)
      PROVE  loops' \in Seq(Loop)
  <2> DEFINE l == Len(loops)
             e == [loops[l] EXCEPT !.msg = m]
  <2>1. l \in 1..Len(loops) /\ loops[l] \in Loop
    BY <1>1, EmptySeq, LenProperties, ElementOfSeq
  <2>2. e \in Loop
    BY <2>1 DEF Loop
  <2>3. loops' = [loops EXCEPT ![l] = e]
    BY <1>1 DEF SetTop
  <2> HIDE DEF e, l
  <2> QED
    BY <2>1, <2>2, <2>3, ExceptSeq
<1>2. ASSUME NEW c \in Clients, LoopBegins(c)
      PROVE  loops' \in Seq(Loop)
  <2>1. [client |-> c, msg |-> 0] \in Loop
    BY DEF Loop
  <2> QED
    BY <1>2, <2>1, AppendProperties DEF LoopBegins
<1>3. CASE HandOver
  <2>1. Head(pending) \in Nat /\ loops # <<>> /\ SetTop(Head(pending))
    BY <1>3, HeadTailProperties DEF HandOver, InLoop, MqttInv
  <2> QED
    BY <1>1, <2>1
<1>4. CASE CallbackReturns
  <2>1. 0 \in Nat /\ loops # <<>> /\ SetTop(0)
    BY <1>4 DEF CallbackReturns
  <2> QED
    BY <1>1, <2>1
<1>5. CASE LoopReturns
  <2>1. loops # <<>> /\ loops' = Front(loops)
    BY <1>5 DEF LoopReturns, InLoop
  <2> QED
    BY <2>1, FrontProperties
<1> QED
  BY <1>0, <1>2, <1>3, <1>4, <1>5 DEF Next, MqttStep, MqttNext, CallStep, EnableStep, Reset, vars,
     mqttVars, Deliver, Connect, SetCallback, Drop, MqttReset

LEMMA OtherTypesStep == OtherTypes /\ MqttInv /\ [Next]_vars => OtherTypes'
<1> SUFFICES ASSUME OtherTypes, MqttInv, [Next]_vars
             PROVE  OtherTypes'
  OBVIOUS
<1>0. room.clients \subseteq Clients /\ {"IDLE", "CONNECTED", "DISCONNECTED"} \subseteq WifiStates
  BY NetworkAssumption DEF OtherTypes
<1>1. loops' \in Seq(Loop)
  BY LoopsStep DEF OtherTypes
<1>2. connected' \in [Clients -> BOOLEAN] /\ callback' \in [Clients -> BOOLEAN]
  <2>1. CASE UNCHANGED <<connected, callback>>
    BY <2>1 DEF OtherTypes
  <2>2. ASSUME NEW c \in Clients, NEW yes \in BOOLEAN, Connect(c, yes) \/ SetCallback(c, yes)
        PROVE  connected' \in [Clients -> BOOLEAN] /\ callback' \in [Clients -> BOOLEAN]
    BY <2>2 DEF Connect, SetCallback, OtherTypes
  <2> QED
    BY <1>0, <2>1, <2>2 DEF Next, MqttStep, MqttNext, CallStep, EnableStep, Reset, vars, mqttVars,
       Deliver, LoopBegins, HandOver, Drop, CallbackReturns, LoopReturns, MqttReset
<1>3. enabled' \in BOOLEAN
  <2>1. ASSUME NEW code, NEW sev, NEW x, NEW n, Violation(code, sev, x, n)
        PROVE  enabled' = enabled
    BY <2>1 DEF Violation, Violations
  <2>2. CallStep => enabled' = enabled
    BY <2>1 DEF CallStep, Seed, HttpBegin, Execute, Subscribe, Publish, Wifi, Look, NoViolation,
       strictVars
  <2> QED
    BY <2>2 DEF Next, MqttStep, EnableStep, Enable, Reset, StrictReset, vars, strictVars, OtherTypes
<1>4. wifi' \in WifiStates
  BY <1>0 DEF Next, MqttStep, CallStep, EnableStep, Reset, vars, netVars, OtherTypes, Seed, HttpBegin,
     Execute, Subscribe, Publish, Wifi, WifiBegin, WifiDisconnect, SetWifiState, Look, NetworkReset
<1>5. room' = room
  BY DEF Next, MqttStep, CallStep, EnableStep, Reset, vars
<1> QED
  BY <1>1, <1>2, <1>3, <1>4, <1>5 DEF OtherTypes

(* The first n calls that seed or use up a response for an URL, the seeding*)
(* that is left of them, and the requests of a client.                     *)
AskedIn(s, u, n) == {j \in 1..n : s[j].kind \in {"seed", "request"} /\ s[j].url = u}

Latest(s, u, n) ==
  IF AskedIn(s, u, n) # {} /\ s[Max(AskedIn(s, u, n))].kind = "seed"
  THEN Max(AskedIn(s, u, n)) ELSE 0

OwnIn(s, h) == {i \in DOMAIN s : s[i].kind = "request" /\ s[i].by = h}

LastOwn(s, h) == s[Max(OwnIn(s, h))]

RequestInv ==
  /\ calls \in Seq(Call) /\ responses \in [Urls -> Nat]
  /\ url \in [Https -> Urls] /\ lastBody \in [Https -> Nat]
  /\ \A u \in Urls : responses[u] = Latest(calls, u, Len(calls))
  /\ \A i \in DOMAIN calls :
       calls[i].kind = "request" => calls[i].answer = Latest(calls, calls[i].url, i - 1)
  /\ \A h \in Https : OwnIn(calls, h) # {} => lastBody[h] = LastOwn(calls, h).answer

LEMMA AppendedCall ==
  ASSUME NEW s \in Seq(Call), NEW c \in Call, NEW t, t = Append(s, c)
  PROVE  /\ t \in Seq(Call) /\ Len(t) = Len(s) + 1 /\ Len(s) \in Nat
         /\ DOMAIN t = 1..(Len(s) + 1) /\ DOMAIN s = 1..Len(s)
         /\ \A i \in 1..Len(s) : t[i] = s[i]
         /\ t[Len(s) + 1] = c
<1>1. /\ t \in Seq(Call) /\ Len(t) = Len(s) + 1
      /\ \A i \in 1..Len(s) : t[i] = s[i]
      /\ t[Len(s) + 1] = c
  BY AppendProperties
<1> QED
  BY <1>1, LenProperties

(* What the calls before a new one say is not changed by it.               *)
LEMMA LatestBefore ==
  ASSUME NEW s \in Seq(Call), NEW c \in Call, NEW u, NEW n \in 0..Len(s)
  PROVE  Latest(Append(s, c), u, n) = Latest(s, u, n)
<1> DEFINE t == Append(s, c)
<1>1. Len(s) \in Nat /\ \A i \in 1..Len(s) : t[i] = s[i]
  BY AppendedCall
<1> SUFFICES Latest(t, u, n) = Latest(s, u, n)
  OBVIOUS
<1> HIDE DEF t
<1>2. AskedIn(t, u, n) = AskedIn(s, u, n)
  BY <1>1 DEF AskedIn
<1>3. CASE AskedIn(s, u, n) = {}
  BY <1>2, <1>3 DEF Latest
<1>4. CASE AskedIn(s, u, n) # {}
  <2>1. AskedIn(s, u, n) \in SUBSET (0..n) /\ n \in Nat /\ AskedIn(s, u, n) \subseteq 1..n
    BY DEF AskedIn
  <2>2. Max(AskedIn(s, u, n)) \in 1..n
    BY <1>4, <2>1, MaxProperties
  <2>3. t[Max(AskedIn(s, u, n))] = s[Max(AskedIn(s, u, n))]
    BY <1>1, <2>2
  <2> QED
    BY <1>2, <2>3 DEF Latest
<1> QED
  BY <1>3, <1>4

LEMMA LatestAfter ==
  ASSUME NEW s \in Seq(Call), NEW c \in Call, NEW u
  PROVE  Latest(Append(s, c), u, Len(s) + 1) =
           IF c.kind \in {"seed", "request"} /\ c.url = u
           THEN IF c.kind = "seed" THEN Len(s) + 1 ELSE 0
           ELSE Latest(s, u, Len(s))
<1> DEFINE l == Len(s)
           t == Append(s, c)
           A == AskedIn(t, u, l + 1)
<1>1. /\ l \in Nat /\ t[l + 1] = c
      /\ \A i \in 1..l : t[i] = s[i]
  BY AppendedCall
<1>2. Latest(t, u, l) = Latest(s, u, l)
  <2>1. l \in 0..l
    BY <1>1
  <2> QED
    BY <2>1, LatestBefore
<1> SUFFICES Latest(t, u, l + 1) = IF c.kind \in {"seed", "request"} /\ c.url = u
                                   THEN IF c.kind = "seed" THEN l + 1 ELSE 0
                                   ELSE Latest(s, u, l)
  OBVIOUS
<1> HIDE DEF l, t
<1>3. CASE c.kind \in {"seed", "request"} /\ c.url = u
  <2>1. l + 1 \in A /\ A \in SUBSET Nat /\ \A y \in A : y <= l + 1
    BY <1>1, <1>3 DEF AskedIn
  <2>2. Max(A) = l + 1 /\ A # {}
    <3> HIDE DEF A
    <3> QED
      BY <2>1, MaxIs
  <2> QED
    BY <1>1, <1>3, <2>2 DEF Latest
<1>4. CASE ~(c.kind \in {"seed", "request"} /\ c.url = u)
  <2>1. A = AskedIn(t, u, l)
    BY <1>1, <1>4 DEF AskedIn
  <2> QED
    BY <1>1, <1>2, <1>4, <2>1 DEF Latest
<1> QED
  BY <1>3, <1>4

LEMMA OwnAfter ==
  ASSUME NEW s \in Seq(Call), NEW c \in Call, NEW h, OwnIn(Append(s, c), h) # {}
  PROVE  \/ c.kind = "request" /\ c.by = h /\ LastOwn(Append(s, c), h) = c
         \/ ~(c.kind = "request" /\ c.by = h) /\ OwnIn(s, h) # {}
            /\ LastOwn(Append(s, c), h) = LastOwn(s, h)
<1> DEFINE l == Len(s)
           t == Append(s, c)
<1>1. /\ DOMAIN t = 1..(l + 1) /\ DOMAIN s = 1..l /\ l \in Nat /\ t[l + 1] = c
      /\ \A i \in 1..l : t[i] = s[i]
  BY AppendedCall
<1>5. OwnIn(t, h) # {}
  OBVIOUS
<1> SUFFICES \/ c.kind = "request" /\ c.by = h /\ LastOwn(t, h) = c
             \/ ~(c.kind = "request" /\ c.by = h) /\ OwnIn(s, h) # {}
                /\ LastOwn(t, h) = LastOwn(s, h)
  OBVIOUS
<1> HIDE DEF l, t
<1>2. CASE c.kind = "request" /\ c.by = h
  <2>1. l + 1 \in OwnIn(t, h) /\ OwnIn(t, h) \in SUBSET Nat /\ \A y \in OwnIn(t, h) : y <= l + 1
    BY <1>1, <1>2 DEF OwnIn
  <2>2. Max(OwnIn(t, h)) = l + 1
    BY <2>1, MaxIs
  <2> QED
    BY <1>1, <1>2, <2>2 DEF LastOwn
<1>3. CASE ~(c.kind = "request" /\ c.by = h)
  <2>1. OwnIn(t, h) = OwnIn(s, h)
    BY <1>1, <1>3 DEF OwnIn
  <2>2. OwnIn(s, h) \in SUBSET (0..l) /\ OwnIn(s, h) \subseteq 1..l
    BY <1>1 DEF OwnIn
  <2>3. Max(OwnIn(s, h)) \in 1..l
    BY <1>1, <1>5, <2>1, <2>2, MaxProperties
  <2> QED
    BY <1>1, <1>3, <2>1, <2>3, <1>5 DEF LastOwn
<1> QED
  BY <1>2, <1>3

(* A call added to the record, with what it does to the responses and to   *)
(* the body that its client reads.                                         *)
LEMMA CallRecorded ==
  ASSUME RequestInv, NEW c \in Call, NEW r \in [Urls -> Nat], NEW b \in [Https -> Nat],
         calls' = Append(calls, c), responses' = r, lastBody' = b, url' = url,
         \A u \in Urls : r[u] = IF c.kind \in {"seed", "request"} /\ c.url = u
                                THEN IF c.kind = "seed" THEN Len(calls) + 1 ELSE 0
                                ELSE responses[u],
         c.kind = "request" => c.answer = responses[c.url],
         \A h \in Https : b[h] = IF c.kind = "request" /\ c.by = h THEN c.answer ELSE lastBody[h]
  PROVE  RequestInv'
<1> DEFINE s == calls
           t == Append(s, c)
           l == Len(s)
<1>0. /\ s \in Seq(Call) /\ url \in [Https -> Urls]
      /\ \A u \in Urls : responses[u] = Latest(s, u, l)
      /\ \A i \in DOMAIN s : s[i].kind = "request" => s[i].answer = Latest(s, s[i].url, i - 1)
      /\ \A h \in Https : OwnIn(s, h) # {} => lastBody[h] = LastOwn(s, h).answer
  BY DEF RequestInv
<1>1. /\ t \in Seq(Call) /\ Len(t) = l + 1 /\ l \in Nat
      /\ DOMAIN t = 1..(l + 1) /\ DOMAIN s = 1..l
      /\ \A i \in 1..l : t[i] = s[i]
      /\ t[l + 1] = c
  BY <1>0, AppendedCall
<1>4. calls' = t
  OBVIOUS
<1>2. \A u : /\ \A n \in 0..l : Latest(t, u, n) = Latest(s, u, n)
             /\ Latest(t, u, l + 1) = IF c.kind \in {"seed", "request"} /\ c.url = u
                                       THEN IF c.kind = "seed" THEN l + 1 ELSE 0
                                       ELSE Latest(s, u, l)
  <2> SUFFICES ASSUME NEW u
               PROVE  /\ \A n \in 0..l : Latest(t, u, n) = Latest(s, u, n)
                      /\ Latest(t, u, l + 1) = IF c.kind \in {"seed", "request"} /\ c.url = u
                                                THEN IF c.kind = "seed" THEN l + 1 ELSE 0
                                                ELSE Latest(s, u, l)
    OBVIOUS
  <2>1. ASSUME NEW n \in 0..l
        PROVE  Latest(t, u, n) = Latest(s, u, n)
    BY <1>0, LatestBefore
  <2>2. Latest(t, u, l + 1) = IF c.kind \in {"seed", "request"} /\ c.url = u
                               THEN IF c.kind = "seed" THEN l + 1 ELSE 0
                               ELSE Latest(s, u, l)
    BY <1>0, LatestAfter
  <2> QED
    BY <2>1, <2>2
<1>3. ASSUME NEW h, OwnIn(t, h) # {}
      PROVE  \/ c.kind = "request" /\ c.by = h /\ LastOwn(t, h) = c
             \/ ~(c.kind = "request" /\ c.by = h) /\ OwnIn(s, h) # {}
                /\ LastOwn(t, h) = LastOwn(s, h)
  BY <1>0, <1>3, OwnAfter
<1> HIDE DEF t, s, l
<1>5. \A u \in Urls : r[u] = Latest(t, u, l + 1)
  <2> SUFFICES ASSUME NEW u \in Urls PROVE r[u] = Latest(t, u, l + 1)
    OBVIOUS
  <2>1. responses[u] = Latest(s, u, l)
    BY <1>0
  <2>2. r[u] = IF c.kind \in {"seed", "request"} /\ c.url = u
               THEN IF c.kind = "seed" THEN l + 1 ELSE 0 ELSE responses[u]
    BY DEF l, s
  <2> QED
    BY <1>2, <2>1, <2>2
<1>6. ASSUME NEW i \in DOMAIN t, t[i].kind = "request"
      PROVE  t[i].answer = Latest(t, t[i].url, i - 1)
  <2>1. CASE i \in 1..l
    <3>1. t[i] = s[i] /\ i - 1 \in 0..l /\ i \in DOMAIN s
      BY <1>1, <2>1
    <3>2. s[i].answer = Latest(s, s[i].url, i - 1)
      BY <1>0, <1>6, <3>1
    <3> QED
      BY <1>2, <3>1, <3>2
  <2>2. CASE i = l + 1
    <3>1. t[i] = c /\ i - 1 = l /\ l \in 0..l
      BY <1>1, <2>2
    <3>2. c.url \in Urls
      BY DEF Call
    <3>3. c.answer = Latest(s, c.url, l)
      BY <1>0, <1>6, <3>1, <3>2
    <3> QED
      BY <1>2, <3>1, <3>3
  <2> QED
    BY <1>1, <2>1, <2>2
<1>7. ASSUME NEW h \in Https, OwnIn(t, h) # {}
      PROVE  b[h] = LastOwn(t, h).answer
  BY <1>0, <1>3, <1>7
<1> QED
  BY <1>0, <1>1, <1>4, <1>5, <1>6, <1>7 DEF RequestInv

LEMMA RequestStep == RequestInv /\ OtherTypes /\ [Next]_vars => RequestInv'
<1> SUFFICES ASSUME RequestInv, OtherTypes, [Next]_vars
             PROVE  RequestInv'
  OBVIOUS
<1>0. /\ room.clients \subseteq Clients /\ Empty \in Urls
      /\ responses \in [Urls -> Nat] /\ url \in [Https -> Urls] /\ lastBody \in [Https -> Nat]
      /\ calls \in Seq(Call) /\ Len(calls) \in Nat /\ This \in Nat /\ 0 \in Nat
      /\ enabled \in BOOLEAN /\ connected \in [Clients -> BOOLEAN]
  BY NetworkAssumption, LenProperties DEF RequestInv, OtherTypes, This
<1>1. CASE UNCHANGED <<calls, responses, lastBody, url>>
  BY <1>1 DEF RequestInv
<1>2. CASE MqttStep \/ EnableStep \/ UNCHANGED vars
  BY <1>1, <1>2 DEF MqttStep, EnableStep, vars, netVars
<1>3. CASE Reset
  <2>1. /\ calls' = <<>> /\ responses' = [u \in Urls |-> 0] /\ UNCHANGED <<lastBody, url>>
    BY <1>3 DEF Reset, NetworkReset
  <2>2. /\ <<>> \in Seq(Call) /\ Len(<<>>) = 0 /\ DOMAIN <<>> = {}
        /\ \A h : OwnIn(<<>>, h) = {}
    BY EmptySeq DEF OwnIn
  <2>3. \A u : Latest(<<>>, u, 0) = 0
    BY DEF Latest, AskedIn
  <2> QED
    BY <1>0, <2>1, <2>2, <2>3 DEF RequestInv
<1>4. ASSUME NEW u \in Urls, Seed(u)
      PROVE  RequestInv'
  <2> DEFINE c == [kind |-> "seed", by |-> "test", url |-> u, answer |-> This,
                   accepted |-> TRUE, strict |-> enabled]
             r == [responses EXCEPT ![u] = This]
  <2>1. calls' = Append(calls, c) /\ responses' = r /\ lastBody' = lastBody /\ url' = url
    BY <1>4 DEF Seed, Called
  <2>2. c \in Call /\ c.kind = "seed" /\ c.url = u
    BY <1>0 DEF Call, Kinds
  <2>3. r \in [Urls -> Nat]
    BY <1>0
  <2>4. ASSUME NEW v \in Urls
        PROVE  r[v] = IF c.kind \in {"seed", "request"} /\ c.url = v
                      THEN IF c.kind = "seed" THEN Len(calls) + 1 ELSE 0
                      ELSE responses[v]
    BY <1>0 DEF This
  <2> HIDE DEF c, r
  <2> QED
    BY <1>0, <2>1, <2>2, <2>3, <2>4, CallRecorded
<1>5. ASSUME NEW u \in Urls, NEW h \in Https, HttpBegin(h, u)
      PROVE  RequestInv'
  <2>1. url' = [url EXCEPT ![h] = u] /\ UNCHANGED <<responses, lastBody, calls>>
    BY <1>5 DEF HttpBegin
  <2> QED
    BY <2>1 DEF RequestInv
<1>6. ASSUME NEW h \in Https, Execute(h)
      PROVE  RequestInv'
  <2> DEFINE u == url[h]
             c == [kind |-> "request", by |-> h, url |-> u, answer |-> responses[u],
                   accepted |-> TRUE, strict |-> enabled]
             r == [responses EXCEPT ![u] = 0]
             b == [lastBody EXCEPT ![h] = responses[u]]
  <2>1. calls' = Append(calls, c) /\ responses' = r /\ lastBody' = b /\ url' = url
    BY <1>6 DEF Execute, Called, Taken
  <2>2. c \in Call /\ c.kind = "request" /\ c.url = u /\ c.by = h /\ c.answer = responses[u]
    BY <1>0 DEF Call, Kinds, Objects
  <2>3. r \in [Urls -> Nat] /\ b \in [Https -> Nat]
    BY <1>0
  <2>4. ASSUME NEW v \in Urls
        PROVE  r[v] = IF c.kind \in {"seed", "request"} /\ c.url = v
                      THEN IF c.kind = "seed" THEN Len(calls) + 1 ELSE 0
                      ELSE responses[v]
    BY <1>0
  <2>5. ASSUME NEW g \in Https
        PROVE  b[g] = IF c.kind = "request" /\ c.by = g THEN c.answer ELSE lastBody[g]
    BY <1>0
  <2> HIDE DEF c, r, b, u
  <2> QED
    BY <1>0, <2>1, <2>2, <2>3, <2>4, <2>5, CallRecorded
<1>7. ASSUME NEW c \in Call, c.kind \notin {"seed", "request"}, calls' = Append(calls, c),
             UNCHANGED <<responses, lastBody, url>>
      PROVE  RequestInv'
  BY <1>0, <1>7, CallRecorded
<1>8. ASSUME NEW c \in room.clients, NEW bytes \in BOOLEAN, Publish(c, bytes) \/ Subscribe(c)
      PROVE  RequestInv'
  <2> DEFINE k == IF Publish(c, bytes) THEN IF bytes THEN "bytes" ELSE "publish" ELSE "subscribe"
             e == [kind |-> k, by |-> c, url |-> Empty, answer |-> 0,
                   accepted |-> connected[c], strict |-> enabled]
  <2>1. calls' = Append(calls, e) /\ UNCHANGED <<responses, lastBody, url>>
    BY <1>8 DEF Publish, Subscribe, Called
  <2>2. k \in {"publish", "bytes", "subscribe"} /\ c \in Clients
    BY <1>0
  <2> HIDE DEF k
  <2>3. e \in Call /\ e.kind \notin {"seed", "request"}
    BY <1>0, <2>2 DEF Call, Kinds, Objects
  <2> HIDE DEF e
  <2> QED
    BY <1>7, <2>1, <2>3
<1>9. ASSUME NEW k \in {"look", "ssid"}, Look(k)
      PROVE  RequestInv'
  <2> DEFINE e == [kind |-> k, by |-> "WiFi", url |-> Empty, answer |-> 0,
                   accepted |-> wifi = "CONNECTED", strict |-> enabled]
  <2>1. calls' = Append(calls, e) /\ UNCHANGED <<responses, lastBody, url>>
    BY <1>9 DEF Look, Called
  <2>2. e \in Call /\ e.kind \notin {"seed", "request"}
    BY <1>0 DEF Call, Kinds, Objects
  <2> HIDE DEF e
  <2> QED
    BY <1>7, <2>1, <2>2
<1>10. CASE Wifi
  BY <1>1, <1>10 DEF Wifi
<1>11. \A c \in room.clients : Subscribe(c) => RequestInv'
  BY <1>8
<1> QED
  BY <1>2, <1>3, <1>4, <1>5, <1>6, <1>8, <1>9, <1>10, <1>11 DEF Next, CallStep

LEMMA OtherTypesInvariant == Spec => []OtherTypes
<1>1. Init => OtherTypes
  BY NetworkAssumption, EmptySeq DEF Init, MqttInit, StrictInit, OtherTypes
<1> QED
  BY <1>1, OtherTypesStep, MqttInvariant, PTL DEF Spec

LEMMA RequestInvariant == Spec => []RequestInv
<1>1. Init => RequestInv
  <2> SUFFICES ASSUME Init PROVE RequestInv
    OBVIOUS
  <2>1. /\ calls = <<>> /\ responses = [u \in Urls |-> 0]
        /\ url = [h \in Https |-> Empty] /\ lastBody = [h \in Https |-> 0]
    BY DEF Init
  <2>2. /\ <<>> \in Seq(Call) /\ Len(<<>>) = 0 /\ DOMAIN <<>> = {} /\ Empty \in Urls
        /\ \A h : OwnIn(<<>>, h) = {}
    BY EmptySeq, NetworkAssumption DEF OwnIn
  <2>3. \A u : Latest(<<>>, u, 0) = 0
    BY DEF Latest, AskedIn
  <2> QED
    BY <2>1, <2>2, <2>3 DEF RequestInv
<1> QED
  BY <1>1, RequestStep, OtherTypesInvariant, PTL DEF Spec

(* A seeded response answers the first request for its URL since, of any   *)
(* client, and no other; each client reads the body of its last request    *)
(* (network.cpp:21-35, http_client.cpp:12-34).                             *)
THEOREM AnswersAreExact == Spec => []RequestsAnswered
<1>1. RequestInv => RequestsAnswered
  <2> SUFFICES ASSUME RequestInv PROVE RequestsAnswered
    OBVIOUS
  <2> DEFINE Asked(i) == {j \in 1..(i - 1) : calls[j].kind \in {"seed", "request"}
                                             /\ calls[j].url = calls[i].url}
             Own(h)   == {i \in DOMAIN calls : calls[i].kind = "request" /\ calls[i].by = h}
  <2>1. ASSUME NEW i \in DOMAIN calls, calls[i].kind = "request"
        PROVE  calls[i].answer = IF Asked(i) # {} /\ calls[Max(Asked(i))].kind = "seed"
                                 THEN Max(Asked(i)) ELSE 0
    <3>1. calls[i].answer = Latest(calls, calls[i].url, i - 1)
      BY <2>1 DEF RequestInv
    <3>2. AskedIn(calls, calls[i].url, i - 1) = Asked(i)
      BY DEF AskedIn
    <3> HIDE DEF Asked
    <3> QED
      BY <3>1, <3>2 DEF Latest
  <2>2. ASSUME NEW h \in Https, Own(h) # {}
        PROVE  lastBody[h] = calls[Max(Own(h))].answer
    <3>1. OwnIn(calls, h) = Own(h)
      BY DEF OwnIn
    <3> HIDE DEF Own
    <3> QED
      BY <2>2, <3>1 DEF RequestInv, LastOwn
  <2> QED
    BY <2>1, <2>2 DEF RequestsAnswered
<1> QED
  BY <1>1, RequestInvariant, PTL

-----------------------------------------------------------------------------
(* What a test looks at.                                                   *)

Rep == [code : {"E050", "E051", "E052"}, severity : Severities, object : Objects]

SentIn(s)   == {i \in DOMAIN s : Sent(s[i])}
JoinedIn(s) == {i \in DOMAIN s : Joined(s[i])}
WrongIn(s)  == {i \in DOMAIN s : Wrong(s[i])}

(* s lists the numbers in S in order.                                      *)
Lists(s, S) == s \in Seq(Nat) /\ InOrder(s) /\ ToSet(s) = S

(* rep holds, for each report, the call that was wrong.                    *)
Accounts(rep, v, s) ==
  /\ Lists(rep, WrongIn(s)) /\ Len(rep) = Len(v)
  /\ \A k \in 1..Len(v) : v[k].object = s[rep[k]].by

SeenInv ==
  /\ violations \in Seq(Rep)
  /\ Lists(publishes, SentIn(calls))
  /\ Lists(subscribes, JoinedIn(calls))
  /\ \E rep : Accounts(rep, violations, calls)

LEMMA ListsAppend ==
  ASSUME NEW s, NEW n \in Nat, NEW S \in SUBSET (1..n), Lists(s, S)
  PROVE  Lists(Append(s, n + 1), S \cup {n + 1})
<1>1. s \in Seq(Nat) /\ ToSet(s) = S /\ \A i, j \in DOMAIN s : i < j => s[i] < s[j]
  BY DEF Lists, InOrder
<1>2. \A i \in DOMAIN s : s[i] <= n
  <2> SUFFICES ASSUME NEW i \in DOMAIN s PROVE s[i] <= n
    OBVIOUS
  <2>1. s[i] \in ToSet(s)
    BY DEF ToSet
  <2>2. s[i] \in 1..n
    BY <1>1, <2>1
  <2> QED
    BY <2>2
<1> DEFINE e == n + 1
           t == Append(s, e)
<1>3. e \in Nat /\ n < e
  OBVIOUS
<1> HIDE DEF e
<1>4. t \in Seq(Nat) /\ \A i, j \in DOMAIN t : i < j => t[i] < t[j]
  BY <1>1, <1>2, <1>3, IncreasingAppend
<1>5. ToSet(t) = S \cup {e}
  BY <1>1, <1>3, ToSetOfAppend
<1> HIDE DEF t
<1>6. Lists(t, S \cup {e})
  BY <1>4, <1>5 DEF Lists, InOrder
<1> QED
  BY <1>6 DEF t, e

LEMMA CallSeen ==
  ASSUME SeenInv, calls \in Seq(Call), NEW c \in Call, calls' = Append(calls, c),
         publishes' = IF Sent(c) THEN Append(publishes, This) ELSE publishes,
         subscribes' = IF Joined(c) THEN Append(subscribes, This) ELSE subscribes,
         \/ ~Wrong(c) /\ violations' = violations
         \/ Wrong(c) /\ \E r \in Rep : r.object = c.by /\ violations' = Append(violations, r)
  PROVE  SeenInv'
<1> DEFINE s == calls
           t == Append(s, c)
           n == Len(s)
<1>1. /\ t \in Seq(Call) /\ n \in Nat
      /\ DOMAIN t = 1..(n + 1) /\ DOMAIN s = 1..n
      /\ \A i \in 1..n : t[i] = s[i]
      /\ t[n + 1] = c
  BY AppendedCall
<1>2. calls' = t /\ This = n + 1
  BY DEF This
<1>3. /\ violations \in Seq(Rep) /\ Lists(publishes, SentIn(s)) /\ Lists(subscribes, JoinedIn(s))
  BY DEF SeenInv
<1>4. PICK rep : Accounts(rep, violations, s)
  BY DEF SeenInv
<1> HIDE DEF s, t, n
<1>5. /\ SentIn(t) = IF Sent(c) THEN SentIn(s) \cup {n + 1} ELSE SentIn(s)
      /\ SentIn(s) \in SUBSET (1..n)
  BY <1>1 DEF SentIn
<1>6. /\ JoinedIn(t) = IF Joined(c) THEN JoinedIn(s) \cup {n + 1} ELSE JoinedIn(s)
      /\ JoinedIn(s) \in SUBSET (1..n)
  BY <1>1 DEF JoinedIn
<1>7. /\ WrongIn(t) = IF Wrong(c) THEN WrongIn(s) \cup {n + 1} ELSE WrongIn(s)
      /\ WrongIn(s) \in SUBSET (1..n)
  BY <1>1 DEF WrongIn
<1>8. Lists(publishes', SentIn(t))
  <2>1. CASE Sent(c)
    <3>1. Lists(Append(publishes, n + 1), SentIn(s) \cup {n + 1})
      <4>1. n \in Nat /\ SentIn(s) \in SUBSET (1..n) /\ Lists(publishes, SentIn(s))
        BY <1>1, <1>3, <1>5
      <4> QED
        BY <4>1, ListsAppend
    <3>2. publishes' = Append(publishes, n + 1)
      BY <1>2, <2>1
    <3> QED
      BY <1>5, <2>1, <3>1, <3>2
  <2>2. CASE ~Sent(c)
    BY <1>3, <1>5, <2>2
  <2> QED
    BY <2>1, <2>2
<1>9. Lists(subscribes', JoinedIn(t))
  <2>1. CASE Joined(c)
    <3>1. Lists(Append(subscribes, n + 1), JoinedIn(s) \cup {n + 1})
      <4>1. n \in Nat /\ JoinedIn(s) \in SUBSET (1..n) /\ Lists(subscribes, JoinedIn(s))
        BY <1>1, <1>3, <1>6
      <4> QED
        BY <4>1, ListsAppend
    <3>2. subscribes' = Append(subscribes, n + 1)
      BY <1>2, <2>1
    <3> QED
      BY <1>6, <2>1, <3>1, <3>2
  <2>2. CASE ~Joined(c)
    BY <1>3, <1>6, <2>2
  <2> QED
    BY <2>1, <2>2
<1>10. /\ Len(violations) \in Nat /\ rep \in Seq(Nat) /\ Len(rep) = Len(violations)
       /\ \A k \in 1..Len(violations) : rep[k] \in 1..n /\ violations[k].object = s[rep[k]].by
  <2>1. Len(violations) \in Nat
    BY <1>3, LenProperties
  <2>2. /\ rep \in Seq(Nat) /\ Len(rep) = Len(violations) /\ ToSet(rep) = WrongIn(s)
        /\ \A k \in 1..Len(violations) : violations[k].object = s[rep[k]].by
    BY <1>4 DEF Accounts, Lists
  <2>3. DOMAIN rep = 1..Len(violations)
    BY <2>2, LenProperties
  <2>4. \A k \in 1..Len(violations) : rep[k] \in WrongIn(s)
    BY <2>2, <2>3 DEF ToSet
  <2> QED
    BY <2>1, <2>2, <2>4, <1>7
<1>11. \A k \in 1..Len(violations) : violations[k].object = t[rep[k]].by
  BY <1>1, <1>10
<1>12. CASE ~Wrong(c)
  <2>1. violations' = violations
    BY <1>12
  <2>2. Accounts(rep, violations, t)
    BY <1>4, <1>7, <1>11, <1>12 DEF Accounts
  <2> QED
    BY <1>2, <1>3, <1>8, <1>9, <2>1, <2>2 DEF SeenInv
<1>13. CASE Wrong(c)
  <2>1. PICK r \in Rep : r.object = c.by /\ violations' = Append(violations, r)
    BY <1>13
  <2> DEFINE v == Append(violations, r)
             q == Append(rep, n + 1)
             l == Len(violations)
  <2>2. /\ v \in Seq(Rep) /\ Len(v) = l + 1
        /\ \A k \in 1..l : v[k] = violations[k]
        /\ v[l + 1] = r
    BY <1>3, AppendProperties
  <2>3. /\ q \in Seq(Nat) /\ Len(q) = l + 1
        /\ \A k \in 1..l : q[k] = rep[k]
        /\ q[l + 1] = n + 1
    <3>1. n + 1 \in Nat
      BY <1>1
    <3>2. /\ q \in Seq(Nat) /\ Len(q) = Len(rep) + 1
          /\ \A k \in 1..Len(rep) : q[k] = rep[k]
          /\ q[Len(rep) + 1] = n + 1
      BY <1>10, <3>1, AppendProperties
    <3> QED
      BY <1>10, <3>2
  <2>4. Lists(q, WrongIn(t))
    <3>1. n \in Nat /\ WrongIn(s) \in SUBSET (1..n) /\ Lists(rep, WrongIn(s))
      BY <1>1, <1>4, <1>7 DEF Accounts
    <3>2. Lists(Append(rep, n + 1), WrongIn(s) \cup {n + 1})
      BY <3>1, ListsAppend
    <3> QED
      BY <1>7, <1>13, <3>2
  <2>5. l \in Nat
    BY <1>10
  <2>6. violations' = v
    BY <2>1
  <2> HIDE DEF v, q, l
  <2>7. ASSUME NEW k \in 1..Len(v)
        PROVE  v[k].object = t[q[k]].by
    <3>1. CASE k = l + 1
      BY <1>1, <2>1, <2>2, <2>3, <3>1
    <3>2. CASE k # l + 1
      <4>1. k \in 1..l
        BY <2>2, <2>5, <3>2
      <4> QED
        BY <1>11, <2>2, <2>3, <4>1 DEF l
    <3> QED
      BY <3>1, <3>2
  <2>8. Accounts(q, v, t)
    BY <2>2, <2>3, <2>4, <2>7 DEF Accounts
  <2> QED
    BY <1>2, <1>8, <1>9, <2>2, <2>6, <2>8 DEF SeenInv
<1> QED
  BY <1>12, <1>13

(* A report of the code below is made for an object, once, in strict mode. *)
LEMMA OneReport ==
  ASSUME violations \in Seq(Rep), enabled \in BOOLEAN, NEW code, NEW severity, NEW x,
         [code |-> code, severity |-> severity, object |-> x] \in Rep,
         Violation(code, severity, x, 1)
  PROVE  \/ ~enabled /\ violations' = violations
         \/ enabled /\ \E r \in Rep : r.object = x /\ violations' = Append(violations, r)
<1> DEFINE r == [code |-> code, severity |-> severity, object |-> x]
           one == [i \in 1..1 |-> r]
<1>1. violations' = IF enabled THEN violations \o one ELSE violations
  BY DEF Violation, Violations
<1>2. r \in Rep /\ r.object = x
  OBVIOUS
<1>3. one = <<r>>
  <2>1. one \in Seq(Rep) /\ <<r>> \in Seq(Rep) /\ Len(one) = 1 /\ Len(<<r>>) = 1
    BY <1>2
  <2>2. \A i \in 1..1 : one[i] = <<r>>[i]
    BY <1>2
  <2> QED
    BY <2>1, <2>2, SeqEqual
<1>4. violations \o <<r>> = Append(violations, r)
  BY <1>2, AppendIsConcat
<1> HIDE DEF r, one
<1> QED
  BY <1>1, <1>2, <1>3, <1>4

LEMMA NothingSeen ==
  /\ <<>> \in Seq(Rep)
  /\ Lists(<<>>, SentIn(<<>>)) /\ Lists(<<>>, JoinedIn(<<>>))
  /\ Accounts(<<>>, <<>>, <<>>)
<1>1. Lists(<<>>, {}) /\ <<>> \in Seq(Rep)
  BY EmptySeq DEF Lists, InOrder, ToSet
<1>2. SentIn(<<>>) = {} /\ JoinedIn(<<>>) = {} /\ WrongIn(<<>>) = {}
  BY EmptySeq DEF SentIn, JoinedIn, WrongIn
<1>3. Len(<<>>) = 0 /\ 1..0 = {}
  BY EmptySeq
<1>4. Accounts(<<>>, <<>>, <<>>)
  BY <1>1, <1>2, <1>3 DEF Accounts
<1> QED
  BY <1>1, <1>2, <1>4

LEMMA SeenStep == SeenInv /\ RequestInv /\ OtherTypes /\ [Next]_vars => SeenInv'
<1> SUFFICES ASSUME SeenInv, RequestInv, OtherTypes, [Next]_vars
             PROVE  SeenInv'
  OBVIOUS
<1>0. /\ room.clients \subseteq Clients /\ Empty \in Urls
      /\ responses \in [Urls -> Nat] /\ url \in [Https -> Urls]
      /\ calls \in Seq(Call) /\ This \in Nat /\ 0 \in Nat
      /\ enabled \in BOOLEAN /\ connected \in [Clients -> BOOLEAN]
      /\ violations \in Seq(Rep)
  BY NetworkAssumption, LenProperties DEF RequestInv, OtherTypes, SeenInv, This
<1>1. CASE UNCHANGED <<calls, publishes, subscribes, violations>>
  BY <1>1 DEF SeenInv, Accounts, Lists
<1>2. CASE MqttStep \/ EnableStep \/ UNCHANGED vars \/ Wifi
  BY <1>1, <1>2 DEF MqttStep, EnableStep, Enable, Wifi, NoViolation, strictVars, vars, netVars
<1>3. CASE Reset
  <2>1. calls' = <<>> /\ publishes' = <<>> /\ subscribes' = <<>> /\ violations' = <<>>
    BY <1>3 DEF Reset, NetworkReset, StrictReset
  <2> QED
    BY <2>1, NothingSeen DEF SeenInv
<1>4. ASSUME NEW u \in Urls, Seed(u)
      PROVE  SeenInv'
  <2> DEFINE c == [kind |-> "seed", by |-> "test", url |-> u, answer |-> This,
                   accepted |-> TRUE, strict |-> enabled]
  <2>1. /\ calls' = Append(calls, c) /\ publishes' = publishes /\ subscribes' = subscribes
        /\ violations' = violations
    BY <1>4 DEF Seed, Called, NoViolation, strictVars
  <2>2. c \in Call /\ ~Sent(c) /\ ~Joined(c) /\ ~Wrong(c)
    BY <1>0 DEF Call, Kinds, Sent, Joined, Wrong
  <2> HIDE DEF c
  <2> QED
    BY <1>0, <2>1, <2>2, CallSeen
<1>5. ASSUME NEW u \in Urls, NEW h \in Https, HttpBegin(h, u)
      PROVE  SeenInv'
  BY <1>1, <1>5 DEF HttpBegin, NoViolation, strictVars
<1>6. ASSUME NEW h \in Https, Execute(h)
      PROVE  SeenInv'
  <2> DEFINE u == url[h]
             c == [kind |-> "request", by |-> h, url |-> u, answer |-> responses[u],
                   accepted |-> TRUE, strict |-> enabled]
  <2>1. /\ calls' = Append(calls, c) /\ publishes' = Append(publishes, This)
        /\ subscribes' = subscribes
        /\ IF u = Empty THEN Violation("E051", "ERROR", h, 1) ELSE NoViolation
    BY <1>6 DEF Execute, Called, Request, Recorded
  <2>2. /\ c \in Call /\ Sent(c) /\ ~Joined(c) /\ c.by = h
        /\ Wrong(c) <=> (enabled /\ u = Empty)
    BY <1>0 DEF Call, Kinds, Objects, Sent, Joined, Wrong
  <2>3. [code |-> "E051", severity |-> "ERROR", object |-> h] \in Rep
    BY DEF Rep, Severities, Objects
  <2> HIDE DEF c, u
  <2>4. \/ ~Wrong(c) /\ violations' = violations
        \/ Wrong(c) /\ \E r \in Rep : r.object = c.by /\ violations' = Append(violations, r)
    <3>1. CASE u = Empty
      BY <1>0, <2>1, <2>2, <2>3, <3>1, OneReport
    <3>2. CASE u # Empty
      BY <2>1, <2>2, <3>2 DEF NoViolation, strictVars
    <3> QED
      BY <3>1, <3>2
  <2> QED
    BY <1>0, <2>1, <2>2, <2>4, CallSeen
<1>7. ASSUME NEW c \in Clients, NEW bytes \in BOOLEAN, Publish(c, bytes)
      PROVE  SeenInv'
  <2> DEFINE k == IF bytes THEN "bytes" ELSE "publish"
             e == [kind |-> k, by |-> c, url |-> Empty, answer |-> 0,
                   accepted |-> connected[c], strict |-> enabled]
  <2>1. /\ calls' = Append(calls, e) /\ subscribes' = subscribes
        /\ publishes' = IF connected[c] THEN Append(publishes, This) ELSE publishes
        /\ IF connected[c] \/ bytes THEN NoViolation ELSE Violation("E052", "WARNING", c, 1)
    BY <1>7 DEF Publish, Called, Recorded
  <2>2. k \in {"bytes", "publish"} /\ (k = "publish" <=> ~bytes)
    OBVIOUS
  <2>3. /\ e \in Call /\ (Sent(e) <=> connected[c]) /\ ~Joined(e) /\ e.by = c
        /\ Wrong(e) <=> (enabled /\ ~bytes /\ ~connected[c])
    <3> HIDE DEF k
    <3> QED
      BY <1>0, <2>2 DEF Call, Kinds, Objects, Sent, Joined, Wrong
  <2>4. [code |-> "E052", severity |-> "WARNING", object |-> c] \in Rep
    BY DEF Rep, Severities, Objects
  <2> HIDE DEF e
  <2>5. \/ ~Wrong(e) /\ violations' = violations
        \/ Wrong(e) /\ \E r \in Rep : r.object = e.by /\ violations' = Append(violations, r)
    <3>1. CASE connected[c] \/ bytes
      BY <2>1, <2>3, <3>1 DEF NoViolation, strictVars
    <3>2. CASE ~(connected[c] \/ bytes)
      BY <1>0, <2>1, <2>3, <2>4, <3>2, OneReport
    <3> QED
      BY <3>1, <3>2
  <2>6. /\ publishes' = IF Sent(e) THEN Append(publishes, This) ELSE publishes
        /\ subscribes' = IF Joined(e) THEN Append(subscribes, This) ELSE subscribes
    BY <2>1, <2>3
  <2> QED
    BY <1>0, <2>1, <2>3, <2>5, <2>6, CallSeen
<1>8. ASSUME NEW c \in Clients, Subscribe(c)
      PROVE  SeenInv'
  <2> DEFINE e == [kind |-> "subscribe", by |-> c, url |-> Empty, answer |-> 0,
                   accepted |-> connected[c], strict |-> enabled]
  <2>1. /\ calls' = Append(calls, e) /\ publishes' = publishes /\ violations' = violations
        /\ subscribes' = IF connected[c] THEN Append(subscribes, This) ELSE subscribes
    BY <1>8 DEF Subscribe, Called, NoViolation, strictVars
  <2>2. e \in Call /\ ~Sent(e) /\ (Joined(e) <=> connected[c]) /\ ~Wrong(e)
    BY <1>0 DEF Call, Kinds, Objects, Sent, Joined, Wrong
  <2> HIDE DEF e
  <2> QED
    BY <1>0, <2>1, <2>2, CallSeen
<1>9. ASSUME NEW k \in {"look", "ssid"}, Look(k)
      PROVE  SeenInv'
  <2> DEFINE up == wifi = "CONNECTED"
             e == [kind |-> k, by |-> "WiFi", url |-> Empty, answer |-> 0,
                   accepted |-> up, strict |-> enabled]
  <2>1. /\ calls' = Append(calls, e) /\ publishes' = publishes /\ subscribes' = subscribes
        /\ IF up \/ k = "ssid" THEN NoViolation ELSE Violation("E050", "WARNING", "WiFi", 1)
    BY <1>9 DEF Look, Called
  <2>2. /\ e \in Call /\ ~Sent(e) /\ ~Joined(e) /\ e.by = "WiFi"
        /\ Wrong(e) <=> (enabled /\ k = "look" /\ ~up)
    BY <1>0 DEF Call, Kinds, Objects, Sent, Joined, Wrong
  <2>3. [code |-> "E050", severity |-> "WARNING", object |-> "WiFi"] \in Rep
    BY DEF Rep, Severities, Objects
  <2> HIDE DEF e, up
  <2>4. \/ ~Wrong(e) /\ violations' = violations
        \/ Wrong(e) /\ \E r \in Rep : r.object = e.by /\ violations' = Append(violations, r)
    <3>1. CASE up \/ k = "ssid"
      BY <2>1, <2>2, <3>1 DEF NoViolation, strictVars
    <3>2. CASE ~(up \/ k = "ssid")
      BY <1>0, <2>1, <2>2, <2>3, <3>2, OneReport
    <3> QED
      BY <3>1, <3>2
  <2> QED
    BY <1>0, <2>1, <2>2, <2>4, CallSeen
<1>10. \A c \in room.clients : Subscribe(c) => SeenInv'
  BY <1>0, <1>8
<1>11. \A c \in room.clients, bytes \in BOOLEAN : Publish(c, bytes) => SeenInv'
  BY <1>0, <1>7
<1> QED
  BY <1>2, <1>3, <1>4, <1>5, <1>6, <1>9, <1>10, <1>11 DEF Next, CallStep

LEMMA SeenInvariant == Spec => []SeenInv
<1>1. Init => SeenInv
  <2> SUFFICES ASSUME Init PROVE SeenInv
    OBVIOUS
  <2>1. calls = <<>> /\ publishes = <<>> /\ subscribes = <<>> /\ violations = <<>>
    BY DEF Init, StrictInit
  <2> QED
    BY <2>1, NothingSeen DEF SeenInv
<1> QED
  BY <1>1, SeenStep, OtherTypesInvariant, RequestInvariant, PTL DEF Spec

(* The records hold the calls of which the sketch was told that they were  *)
(* made, in the order of the calls, and strict mode accuses no call that   *)
(* was none of its offences, nor one twice, and reports each refused       *)
(* publish of a text, request without an URL and look at the RSSI or the   *)
(* address of a WiFi that is not connected (network.cpp:51-60,             *)
(* pubsub_client.cpp:14-42, wifi.cpp:36-56).                               *)
THEOREM CallsAccountedFor == Spec => []CallsSeen
<1>1. SeenInv /\ RequestInv => CallsSeen
  <2> SUFFICES ASSUME SeenInv, RequestInv PROVE CallsSeen
    OBVIOUS
  <2>1. PICK rep : Accounts(rep, violations, calls)
    BY DEF SeenInv
  <2>2. /\ rep \in Seq(Nat) /\ InOrder(rep) /\ ToSet(rep) = WrongIn(calls)
        /\ Len(rep) = Len(violations)
        /\ \A k \in 1..Len(violations) : violations[k].object = calls[rep[k]].by
    BY <2>1 DEF Accounts, Lists
  <2>3. violations \in Seq(Rep)
    BY DEF SeenInv
  <2>4. DOMAIN rep = DOMAIN violations /\ DOMAIN violations = 1..Len(violations)
    BY <2>2, <2>3, LenProperties
  <2>5. rep \in [DOMAIN violations -> DOMAIN calls]
    <3>1. \A k \in DOMAIN rep : rep[k] \in DOMAIN calls
      BY <2>2 DEF ToSet, WrongIn
    <3>2. rep = [k \in DOMAIN rep |-> rep[k]]
      BY <2>2, <2>4, LenProperties
    <3> QED
      BY <2>4, <3>1, <3>2
  <2>6. \A k \in DOMAIN violations : Wrong(calls[rep[k]])
    BY <2>2, <2>4 DEF ToSet, WrongIn
  <2>7. \A k \in DOMAIN violations : Offence(calls[rep[k]])
    BY <2>6 DEF Wrong, Offence
  <2>8. {i \in DOMAIN calls : Wrong(calls[i])} \subseteq ToSet(rep)
    BY <2>2 DEF WrongIn
  <2>9. \E about \in [DOMAIN violations -> DOMAIN calls] :
          /\ InOrder(about)
          /\ {i \in DOMAIN calls : Wrong(calls[i])} \subseteq ToSet(about)
          /\ \A k \in DOMAIN violations : /\ Offence(calls[about[k]])
                                          /\ violations[k].object = calls[about[k]].by
    BY <2>2, <2>4, <2>5, <2>7, <2>8
  <2> QED
    BY <2>9 DEF CallsSeen, SeenInv, Lists, SentIn, JoinedIn
<1> QED
  BY <1>1, SeenInvariant, RequestInvariant, PTL
=============================================================================
