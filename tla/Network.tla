------------------------------- MODULE Network -------------------------------
(***************************************************************************)
(* The simulated network (src/core/network.cpp) under the fake WiFi, HTTP  *)
(* and MQTT libraries (src/platforms/arduino_esp32/wifi.cpp,               *)
(* http_client.cpp, pubsub_client.cpp).  Module Mqtt has the incoming      *)
(* messages; here are the calls that the sketch makes, from setup(), loop()*)
(* or the callback of an MQTT loop in progress, and the test's part.       *)
(*                                                                         *)
(* A response is the number of its seeding, 0 the 404 of an URL without    *)
(* one; bodies, topics, headers and credentials are left out.              *)
(***************************************************************************)
EXTENDS Mqtt, Strict

CONSTANTS
  Https,  \* the HTTPClient objects
  Urls,   \* the URLs, Empty, the one of a client without begin, included
  Empty,
  WifiStates,  \* WifiState
  Rooms   \* bounds: see `room`

Kinds == {"seed", "request", "publish", "bytes", "subscribe", "look", "ssid"}

ASSUME NetworkAssumption ==
  /\ Empty \in Urls
  /\ {"IDLE", "CONNECTED", "DISCONNECTED"} \subseteq WifiStates
  /\ Rooms \subseteq [delivered : Nat, depth : Nat, clients : SUBSET Clients, calls : Nat,
                     kinds : SUBSET Kinds]

VARIABLES
  wifi,        \* Network::wifi_state_
  responses,   \* Network::http_responses_, 0 where there is none
  publishes,   \* Network::publishes_: the numbers of the calls
  subscribes,  \* Network::subscribes_
  url,         \* HTTPClient::url_ of each client
  lastBody,    \* HTTPClient::last_response_body_
  calls,       \* history: the calls made since reset
  room         \* bounds: messages delivered, nesting, clients in use, calls made

netVars == <<wifi, responses, publishes, subscribes, url, lastBody, calls>>
vars == <<mqttVars, strictVars, netVars, room>>

Objects    == Https \cup Clients \cup {"WiFi"}
Call == [kind : Kinds, by : Objects \cup {"test"}, url : Urls, answer : Nat,
         accepted : BOOLEAN, strict : BOOLEAN]

TypeOK ==
  /\ MqttTypeOK
  /\ wifi \in WifiStates
  /\ responses \in [Urls -> Nat]
  /\ publishes \in Seq(DOMAIN calls) /\ subscribes \in Seq(DOMAIN calls)
  /\ url \in [Https -> Urls] /\ lastBody \in [Https -> Nat]
  /\ calls \in Seq(Call)
  /\ room \in Rooms

(* Network::reset and, for what has no reset, the initial values.          *)
NetworkReset ==
  /\ wifi' = "IDLE"
  /\ responses' = [u \in Urls |-> 0]
  /\ publishes' = <<>> /\ subscribes' = <<>>
  /\ calls' = <<>>

Init ==
  /\ MqttInit /\ StrictInit
  /\ wifi = "IDLE"
  /\ responses = [u \in Urls |-> 0]
  /\ publishes = <<>> /\ subscribes = <<>>
  /\ url = [h \in Https |-> Empty] /\ lastBody = [h \in Https |-> 0]
  /\ calls = <<>>
  /\ room \in Rooms

-----------------------------------------------------------------------------
(* Mutated forms of the operators below, used by no definition: a response *)
(* that serves for good, a record of the requests that were served.        *)
Kept(u) == responses
IfServed(u) == IF responses[u] = 0 THEN publishes ELSE Append(publishes, Len(calls) + 1)

-----------------------------------------------------------------------------
Code(kind) == InCode /\ Len(calls) < room.calls /\ kind \in room.kinds

Called(kind, by, u, answer, accepted) ==
  calls' = Append(calls, [kind |-> kind, by |-> by, url |-> u, answer |-> answer,
                          accepted |-> accepted, strict |-> enabled])

This == Len(calls) + 1

(* Network::seed_http_response: the latest replaces the one before.        *)
Seed(u) ==
  /\ Code("seed")
  /\ responses' = [responses EXCEPT ![u] = This]
  /\ Called("seed", "test", u, This, TRUE)
  /\ NoViolation
  /\ UNCHANGED <<wifi, publishes, subscribes, url, lastBody>>

HttpBegin(h, u) ==
  /\ InCode /\ "request" \in room.kinds
  /\ url' = [url EXCEPT ![h] = u]
  /\ NoViolation
  /\ UNCHANGED <<wifi, responses, publishes, subscribes, lastBody, calls>>

(* Network::mqtt_record_publish, for requests too, and take_http_response. *)
Recorded   == Append(publishes, This)
Request(u) == Recorded
Taken(u)   == [responses EXCEPT ![u] = 0]

(* HTTPClient::execute_ of GET and POST.                                   *)
Execute(h) ==
  LET u == url[h]
  IN  /\ Code("request")
      /\ IF u = Empty THEN Violation("E051", "ERROR", h, 1) ELSE NoViolation
      /\ publishes' = Request(u)
      /\ responses' = Taken(u)
      /\ lastBody' = [lastBody EXCEPT ![h] = responses[u]]
      /\ Called("request", h, u, responses[u], TRUE)
      /\ UNCHANGED <<wifi, subscribes, url>>

(* PubSubClient::publish; that of bytes is refused without a report.       *)
Publish(c, bytes) ==
  /\ Code(IF bytes THEN "bytes" ELSE "publish")
  /\ Called(IF bytes THEN "bytes" ELSE "publish", c, Empty, 0, connected[c])
  /\ IF connected[c]
     THEN publishes' = Recorded /\ NoViolation
     ELSE /\ UNCHANGED publishes
          /\ IF bytes THEN NoViolation ELSE Violation("E052", "WARNING", c, 1)
  /\ UNCHANGED <<wifi, responses, subscribes, url, lastBody>>

Subscribe(c) ==
  /\ Code("subscribe")
  /\ Called("subscribe", c, Empty, 0, connected[c])
  /\ subscribes' = IF connected[c] THEN Append(subscribes, This) ELSE subscribes
  /\ NoViolation
  /\ UNCHANGED <<wifi, responses, publishes, url, lastBody>>

(* WiFi.begin, with its result at once, WiFi.disconnect, and the test's    *)
(* set_wifi_state.                                                         *)
WifiBegin      == wifi' = "CONNECTED"
WifiDisconnect == wifi' = "DISCONNECTED"
SetWifiState   == wifi' \in WifiStates

Wifi ==
  /\ InCode /\ "look" \in room.kinds
  /\ WifiBegin \/ WifiDisconnect \/ SetWifiState
  /\ NoViolation
  /\ UNCHANGED <<responses, publishes, subscribes, url, lastBody, calls>>

(* WiFi.RSSI and WiFi.localIP, and WiFi.SSID, which makes no report.       *)
Look(kind) ==
  /\ Code(kind)
  /\ IF wifi = "CONNECTED" \/ kind = "ssid"
     THEN NoViolation ELSE Violation("E050", "WARNING", "WiFi", 1)
  /\ Called(kind, "WiFi", Empty, 0, wifi = "CONNECTED")
  /\ UNCHANGED <<wifi, responses, publishes, subscribes, url, lastBody>>

(* Sim::reset; the sketch's objects keep their state.                      *)
Reset ==
  /\ MqttReset /\ NetworkReset /\ StrictReset
  /\ UNCHANGED <<url, lastBody, room>>

MqttStep ==
  /\ MqttNext(room.clients)
  /\ delivered' <= room.delivered /\ Len(loops') <= room.depth
  /\ UNCHANGED <<strictVars, netVars, room>>

EnableStep ==
  /\ "publish" \in room.kinds /\ (\E on \in BOOLEAN : Enable(on))
  /\ UNCHANGED <<mqttVars, netVars, room>>

CallStep ==
  /\ \/ \E u \in Urls : Seed(u) \/ \E h \in Https : HttpBegin(h, u)
     \/ \E h \in Https : Execute(h)
     \/ \E c \in room.clients : Subscribe(c) \/ \E bytes \in BOOLEAN : Publish(c, bytes)
     \/ Wifi \/ \E kind \in {"look", "ssid"} : Look(kind)
  /\ UNCHANGED <<mqttVars, room>>

Next == MqttStep \/ CallStep \/ EnableStep \/ Reset

Spec == Init /\ [][Next]_vars
FairSpec == Spec /\ MqttFairness

-----------------------------------------------------------------------------
(* Properties.                                                             *)

(* A response that a test seeds answers one request, the first for its URL *)
(* of any client from then on, unless another seed comes first, and that   *)
(* client reads its body until its next request; every other request gets  *)
(* the 404 and an empty body, not the body of before (network.cpp:21-35,   *)
(* http_client.cpp:12-34).                                                 *)
RequestsAnswered ==
  LET Asked(i) == {j \in 1..(i - 1) : calls[j].kind \in {"seed", "request"}
                                      /\ calls[j].url = calls[i].url}
      Own(h)   == {i \in DOMAIN calls : calls[i].kind = "request" /\ calls[i].by = h}
  IN  /\ \A i \in DOMAIN calls : calls[i].kind = "request" =>
           calls[i].answer = IF Asked(i) # {} /\ calls[Max(Asked(i))].kind = "seed"
                             THEN Max(Asked(i)) ELSE 0
      /\ \A h \in Https : Own(h) # {} => lastBody[h] = calls[Max(Own(h))].answer

(* The calls that a test is to find in publishes(), in subscribes() and in *)
(* strict mode's list, and those that the rules of strict mode are about   *)
(* (docs/user/reference/strict-mode.md:110-112): a publish of bytes and    *)
(* SSID() offend too, and nothing reports them (pubsub_client.cpp:31,      *)
(* wifi.cpp:63).                                                           *)
Sent(c)    == c.kind = "request" \/ (c.kind \in {"publish", "bytes"} /\ c.accepted)
Joined(c)  == c.kind = "subscribe" /\ c.accepted
Wrong(c)   == /\ c.strict
              /\ \/ c.kind = "request" /\ c.url = Empty
                 \/ c.kind \in {"publish", "look"} /\ ~c.accepted
Offence(c) == /\ c.strict
              /\ \/ c.kind = "request" /\ c.url = Empty
                 \/ c.kind \in {"publish", "bytes", "look", "ssid"} /\ ~c.accepted

InOrder(s) == \A i, j \in DOMAIN s : i < j => s[i] < s[j]

(* What a test looks at agrees with what the sketch was told, in the order *)
(* of the calls though several clients and callbacks of nested loops make  *)
(* them: publishes() holds each HTTP request, answered or not, and each    *)
(* publish that returned true, subscribes() each subscribe that did.  In   *)
(* strict mode each report is about an offence of its own, in that order,  *)
(* and there is one for each refused publish of a text, request without an *)
(* URL and RSSI() or localIP() of a WiFi that is not connected             *)
(* (network.cpp:51-60, http_client.cpp:12-22, pubsub_client.cpp:14-42,     *)
(* wifi.cpp:36-56).                                                        *)
CallsSeen ==
  /\ InOrder(publishes) /\ ToSet(publishes) = {i \in DOMAIN calls : Sent(calls[i])}
  /\ InOrder(subscribes) /\ ToSet(subscribes) = {i \in DOMAIN calls : Joined(calls[i])}
  /\ \E about \in [DOMAIN violations -> DOMAIN calls] :
       /\ InOrder(about)
       /\ {i \in DOMAIN calls : Wrong(calls[i])} \subseteq ToSet(about)
       /\ \A k \in DOMAIN violations : /\ Offence(calls[about[k]])
                                       /\ violations[k].object = calls[about[k]].by
=============================================================================
