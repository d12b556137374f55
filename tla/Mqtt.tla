-------------------------------- MODULE Mqtt --------------------------------
(***************************************************************************)
(* Incoming MQTT: the loop of the fake PubSubClient (src/platforms/        *)
(* arduino_esp32/pubsub_client.cpp) over the pending messages of Network   *)
(* (src/core/network.cpp).  A test delivers messages into one queue, which *)
(* all clients share, and loop() of a client hands them to its callback.   *)
(* The callback is sketch code: while the loop that calls it goes on it    *)
(* may disconnect or reconnect, replace callbacks, call loop() of this     *)
(* client or of another, and have more delivered.                          *)
(*                                                                         *)
(* A message is the number of its delivery; topics and payloads are passed *)
(* along unread.                                                           *)
(***************************************************************************)
EXTENDS Naturals, Sequences, SequencesExt

CONSTANT Clients  \* the PubSubClient objects of the sketch

VARIABLES
  pending,    \* Network::mqtt_pending_
  connected,  \* PubSubClient::connected_ of each client
  callback,   \* is callback_ set, of each client
  loops,      \* the loop() calls in progress, innermost last
  delivered,  \* history: how many messages have been delivered since reset
  handed,     \* history: the messages handed to callbacks, in order
  dropped     \* history: the messages popped while no callback was set

mqttVars == <<pending, connected, callback, loops, delivered, handed, dropped>>

(* A loop in progress: whose it is, and the message its callback works on, *)
(* or 0 while it is between two messages.                                  *)
Loop == [client : Clients, msg : Nat]

MqttTypeOK ==
  /\ pending \in Seq(1..delivered)
  /\ connected \in [Clients -> BOOLEAN]
  /\ callback \in [Clients -> BOOLEAN]
  /\ loops \in Seq(Loop)
  /\ delivered \in Nat
  /\ handed \in Seq(1..delivered)
  /\ dropped \in SUBSET (1..delivered)

MqttInit ==
  /\ pending = <<>>
  /\ connected = [c \in Clients |-> FALSE]
  /\ callback = [c \in Clients |-> FALSE]
  /\ loops = <<>>
  /\ delivered = 0 /\ handed = <<>> /\ dropped = {}

Top == Last(loops)

(* The test runs, or the callback of the innermost loop.                   *)
InCode == loops # <<>> => Top.msg # 0

SetTop(m) == loops' = [loops EXCEPT ![Len(loops)].msg = m]

-----------------------------------------------------------------------------
(* Mutated forms of the operators below, used by no definition: a message  *)
(* that is not removed before its callback runs, a loop that hands over    *)
(* one message and returns, as the library on the device does.             *)

LeaveFirst == pending

OneAtATime == TRUE

-----------------------------------------------------------------------------
(* Network::mqtt_deliver, from the test or from code of the test that the  *)
(* sketch's callback reaches.                                              *)
Deliver ==
  /\ InCode
  /\ delivered' = delivered + 1
  /\ pending' = Append(pending, delivered')
  /\ UNCHANGED <<connected, callback, loops, handed, dropped>>

(* connect, which always succeeds, and disconnect.                         *)
Connect(c, yes) ==
  /\ InCode
  /\ connected' = [connected EXCEPT ![c] = yes]
  /\ UNCHANGED <<pending, callback, loops, delivered, handed, dropped>>

(* The constructors and setCallback, which accepts a null pointer.         *)
SetCallback(c, yes) ==
  /\ InCode
  /\ callback' = [callback EXCEPT ![c] = yes]
  /\ UNCHANGED <<pending, connected, loops, delivered, handed, dropped>>

-----------------------------------------------------------------------------
(* PubSubClient::loop.                                                     *)

(* Only here does it matter whether the client is connected.               *)
LoopBegins(c) ==
  /\ InCode
  /\ connected[c]
  /\ loops' = Append(loops, [client |-> c, msg |-> 0])
  /\ UNCHANGED <<pending, connected, callback, delivered, handed, dropped>>

InLoop == loops # <<>> /\ Top.msg = 0

(* Network::mqtt_pop_pending: the first message leaves the queue before    *)
(* the callback sees it.                                                   *)
Popped == Tail(pending)

HandOver ==
  /\ InLoop
  /\ pending # <<>>
  /\ callback[Top.client]
  /\ pending' = Popped
  /\ SetTop(Head(pending))
  /\ handed' = Append(handed, Head(pending))
  /\ UNCHANGED <<connected, callback, delivered, dropped>>

(* Without a callback the message is gone all the same.                    *)
Drop ==
  /\ InLoop
  /\ pending # <<>>
  /\ ~callback[Top.client]
  /\ pending' = Popped
  /\ dropped' = dropped \cup {Head(pending)}
  /\ UNCHANGED <<connected, callback, loops, delivered, handed>>

CallbackReturns ==
  /\ loops # <<>>
  /\ Top.msg # 0
  /\ SetTop(0)
  /\ UNCHANGED <<pending, connected, callback, delivered, handed, dropped>>

Exhausted == pending = <<>>

LoopReturns ==
  /\ InLoop
  /\ Exhausted
  /\ loops' = Front(loops)
  /\ UNCHANGED <<pending, connected, callback, delivered, handed, dropped>>

(* Sim::reset, between tests: Network::reset empties the queue; the        *)
(* clients, globals of the sketch, stay connected.                         *)
MqttReset ==
  /\ loops = <<>>
  /\ pending' = <<>>
  /\ delivered' = 0 /\ handed' = <<>> /\ dropped' = {}
  /\ UNCHANGED <<connected, callback, loops>>

-----------------------------------------------------------------------------
(* The clients in use are `clients`.                                       *)
MqttNext(clients) ==
  \/ Deliver
  \/ \E c \in clients, yes \in BOOLEAN : Connect(c, yes) \/ SetCallback(c, yes)
  \/ \E c \in clients : LoopBegins(c)
  \/ HandOver \/ Drop \/ CallbackReturns \/ LoopReturns

(* The loop takes every step it can; a callback is finite code, which a    *)
(* loop() of its own suspends.                                             *)
MqttFairness ==
  /\ WF_mqttVars(HandOver) /\ WF_mqttVars(Drop) /\ WF_mqttVars(LoopReturns)
  /\ SF_mqttVars(CallbackReturns)

-----------------------------------------------------------------------------
(* Properties.                                                             *)

(* However loops of one or two clients are nested, every message delivered *)
(* waits, has been handed to one callback, or was dropped, and never two   *)
(* of these; messages are taken in the order of their delivery             *)
(* (pubsub_client.cpp:48-63, network.cpp:44-49).                           *)
EachMessageOnce ==
  /\ \A i, j \in DOMAIN handed : i < j => handed[i] < handed[j]
  /\ pending = [i \in 1..Len(pending) |-> delivered - Len(pending) + i]
  /\ ToSet(handed) \cup dropped = 1..(delivered - Len(pending))
  /\ ToSet(handed) \cap dropped = {}

(* A loop that has begun comes to its end, and with the outermost the      *)
(* queue does: nothing that was delivered before or during it waits for    *)
(* another loop().                                                         *)
LoopsDrain == [](loops # <<>> => <>(loops = <<>> /\ pending = <<>>))
=============================================================================
