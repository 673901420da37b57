---------------------------- MODULE RouterService ----------------------------
(***************************************************************************)
(* The MQTT-SN service of the border router (border_router/mqtt-service.c). *)
(* It is the sensor's service without a name, a topic and a publication of  *)
(* its own: the client subscribes and listens, and the timer only pings.    *)
(*                                                                         *)
(* As in MqttService one handler call is one action, and any datagram may   *)
(* arrive at any time.  Left out: printing, real time, the payload of a     *)
(* PUBLISH and the ids its PUBACK repeats.  The client of the repository    *)
(* (mqtt-client.c) only prints the events; here it may subscribe any time.  *)
(***************************************************************************)
EXTENDS Naturals, FiniteSets

CONSTANTS
  MAX_KEEPALIVE_ERROR,  \* unanswered pings before the router gives up
  NB_TOPICS,            \* length of mqtt.topics[]
  NameSize,             \* length of topics[].name
  Topics,               \* what a client passes to mqtt_subscribe
  Strlen,               \* their lengths
  NoName,               \* the empty string of a zeroed topics[] entry
  Ids,                  \* values of topics[].id
  NoId,                 \* the zero of a zeroed entry
  WireId                \* what "data[3] << 8 | data[4]" makes of an id sent

Names == Topics \cup {NoName}
Slots == 0 .. NB_TOPICS - 1

ASSUME RouterKeepaliveAssumption == MAX_KEEPALIVE_ERROR \in Nat \ {0}
ASSUME RouterTopicsAssumption == NB_TOPICS \in Nat \ {0} /\ NameSize \in Nat
ASSUME RouterNamesAssumption == NoName \notin Topics /\ Strlen \in [Topics -> Nat]
ASSUME RouterIdsAssumption == NoId \in Ids /\ WireId \in [Ids -> Ids]

VARIABLES
  running,          \* process_is_running(&mqtt_process)
  udp_connection,   \* mqtt.udp_connection is not NULL
  state,            \* mqtt.state
  keepalive_error,  \* mqtt.keepalive_error
  pending,          \* mqtt.pending_msg is MQTT_MSG_SUBSCRIBE
  name, id,         \* mqtt.topics[].name and .id
  nb_topics,        \* mqtt.nb_topics
  len,              \* mqtt.len
  overrun,          \* an access past topics[] or name[]: not followed further
  sent,             \* the datagram of the last handler call
  posted            \* the event of the last handler call

table == <<pending, name, id, nb_topics, overrun>>
session == <<state, keepalive_error>>
vars == <<running, udp_connection, session, table, len, sent, posted>>

---------------------------------------------------------------------------
(* Datagrams: octet is data[0], the length the datagram claims.             *)

States == {"CONNECTION_CLOSED", "CONNECTION_IN_PROGRESS", "CONNECTED"}
Types == {"NONE", "CONNECT", "SUBSCRIBE", "PUBACK", "PINGREQ", "PINGRESP"}

Datagram(type, octet, length) == [type |-> type, octet |-> octet, len |-> length]
Nothing == Datagram("NONE", 0, 0)

\* strlen("test"), which octet 0 of a SUBSCRIBE counts whatever the topic is.
TestLen == 4
ConnectLen == TestLen + 6

\* uip_udp_packet_send does nothing on a NULL connection.
Transmit(open, datagram) == IF open THEN datagram ELSE Nothing

\* mqtt_msg_ping_send leaves len as it was built for the datagram before.
Ping(type) == Datagram(type, 2, len)

Received(type, code, i) == [type |-> type, code |-> code, id |-> i]

\* Code 1 stands for every rejection, OTHER for every type without a case.
Inbound ==
  {Received("CONNACK", c, NoId) : c \in {0, 1}}
  \cup {Received(t, 0, NoId) : t \in {"PINGREQ", "PINGRESP", "OTHER"}}
  \cup {Received(t, 0, i) : t \in {"SUBACK", "PUBLISH"}, i \in Ids}

TypeOK ==
  /\ running \in BOOLEAN /\ udp_connection \in BOOLEAN
  /\ state \in States /\ keepalive_error \in 0 .. MAX_KEEPALIVE_ERROR
  /\ pending \in BOOLEAN /\ overrun \in BOOLEAN
  /\ name \in [Slots -> Names] /\ id \in [Slots -> Ids]
  /\ nb_topics \in 0 .. NB_TOPICS
  /\ len \in Nat
  /\ sent \in [type : Types, octet : Nat, len : Nat]
  /\ posted \in {"NONE", "CONNECTED", "DISCONNECTED", "PUBLISH"}

\* static mqtt_handler_t mqtt
Init ==
  /\ running = FALSE /\ udp_connection = FALSE
  /\ state = "CONNECTION_CLOSED" /\ keepalive_error = 0
  /\ pending = FALSE /\ overrun = FALSE
  /\ name = [i \in Slots |-> NoName] /\ id = [i \in Slots |-> NoId]
  /\ nb_topics = 0
  /\ len = 0
  /\ sent = Nothing /\ posted = "NONE"

---------------------------------------------------------------------------
(* The API.                                                                *)

\* mqtt_connect runs the thread to its first wait: without a free connection
\* (ok is FALSE) it goes on all the same.
Connect(ok) ==
  /\ ~running
  /\ running' = TRUE /\ udp_connection' = ok
  /\ state' = "CONNECTION_IN_PROGRESS" /\ keepalive_error' = 0 /\ nb_topics' = 0
  /\ len' = ConnectLen
  /\ sent' = Transmit(ok, Datagram("CONNECT", ConnectLen, ConnectLen))
  /\ posted' = "NONE"
  /\ UNCHANGED <<pending, name, id, overrun>>

Runs == running /\ ~overrun /\ UNCHANGED <<running, udp_connection>>
Silent == sent' = Nothing /\ posted' = "NONE"

\* mqtt_connect of a process that runs returns at once.
ConnectAgain ==
  running /\ Silent /\ UNCHANGED <<running, udp_connection, session, table, len>>

Registered(t) == \E i \in 0 .. nb_topics - 1 : name[i] = t
Fits(t) == nb_topics < NB_TOPICS /\ Strlen[t] < NameSize

\* Mutant of Subscribe: no look at the topics already registered.
SubscribeUnchecked(t) ==
  /\ Runs /\ state = "CONNECTED" /\ Fits(t)
  /\ pending' = TRUE /\ name' = [name EXCEPT ![nb_topics] = t]
  /\ len' = Strlen[t] + 5
  /\ sent' = Transmit(udp_connection, Datagram("SUBSCRIBE", TestLen + 5, Strlen[t] + 5))
  /\ posted' = "NONE"
  /\ UNCHANGED <<session, id, nb_topics, overrun>>

Subscribe(t) ==
  /\ Runs /\ state = "CONNECTED" /\ ~Registered(t) /\ Fits(t)
  /\ pending' = TRUE /\ name' = [name EXCEPT ![nb_topics] = t]
  /\ len' = Strlen[t] + 5
  /\ sent' = Transmit(udp_connection, Datagram("SUBSCRIBE", TestLen + 5, Strlen[t] + 5))
  /\ posted' = "NONE"
  /\ UNCHANGED <<session, id, nb_topics, overrun>>

SubscribeOverrun(t) ==
  /\ Runs /\ state = "CONNECTED" /\ ~Registered(t) /\ ~Fits(t)
  /\ overrun' = TRUE /\ Silent
  /\ UNCHANGED <<session, pending, name, id, nb_topics, len>>

SubscribeNot(t) ==
  /\ Runs /\ (state # "CONNECTED" \/ Registered(t))
  /\ Silent /\ UNCHANGED <<session, table, len>>

---------------------------------------------------------------------------
(* handle_mqtt_input.                                                      *)

Receives(msg, type) == Runs /\ udp_connection /\ msg.type = type

HandleConnack(msg) ==
  /\ Receives(msg, "CONNACK") /\ msg.code = 0
  /\ state' = "CONNECTED" /\ keepalive_error' = 0
  /\ sent' = Nothing /\ posted' = "CONNECTED"
  /\ UNCHANGED <<table, len>>

HandleConnackRejected(msg) ==
  /\ Receives(msg, "CONNACK") /\ msg.code # 0
  /\ Silent /\ UNCHANGED <<session, table, len>>

HandlePingreq(msg) ==
  /\ Receives(msg, "PINGREQ")
  /\ sent' = Ping("PINGRESP") /\ posted' = "NONE"
  /\ UNCHANGED <<session, table, len>>

HandlePingresp(msg) ==
  /\ Receives(msg, "PINGRESP")
  /\ keepalive_error' = 0
  /\ Silent /\ UNCHANGED <<state, table, len>>

\* pending_msg stays MQTT_MSG_SUBSCRIBE.
HandleSuback(msg) ==
  /\ Receives(msg, "SUBACK") /\ pending /\ nb_topics < NB_TOPICS
  /\ id' = [id EXCEPT ![nb_topics] = WireId[msg.id]]
  /\ nb_topics' = nb_topics + 1
  /\ Silent /\ UNCHANGED <<session, pending, name, overrun, len>>

HandleSubackOverrun(msg) ==
  /\ Receives(msg, "SUBACK") /\ pending /\ nb_topics = NB_TOPICS
  /\ overrun' = TRUE
  /\ Silent /\ UNCHANGED <<session, pending, name, id, nb_topics, len>>

HandleSubackUnexpected(msg) ==
  /\ Receives(msg, "SUBACK") /\ ~pending
  /\ Silent /\ UNCHANGED <<session, table, len>>

Matches(msg) == \E i \in 0 .. nb_topics - 1 : id[i] = WireId[msg.id]

\* Mutant of HandlePublish: the state is not looked at.
HandlePublishAlways(msg) ==
  /\ Receives(msg, "PUBLISH") /\ Matches(msg)
  /\ len' = 7 /\ sent' = Datagram("PUBACK", 7, 7) /\ posted' = "PUBLISH"
  /\ UNCHANGED <<session, table>>

HandlePublish(msg) ==
  /\ Receives(msg, "PUBLISH") /\ state = "CONNECTED" /\ Matches(msg)
  /\ len' = 7 /\ sent' = Datagram("PUBACK", 7, 7) /\ posted' = "PUBLISH"
  /\ UNCHANGED <<session, table>>

HandlePublishUnmatched(msg) ==
  /\ Receives(msg, "PUBLISH") /\ (state # "CONNECTED" \/ ~Matches(msg))
  /\ Silent /\ UNCHANGED <<session, table, len>>

HandleOther(msg) == Receives(msg, "OTHER") /\ Silent /\ UNCHANGED <<session, table, len>>

HandleInput(msg) ==
  \/ HandleConnack(msg) \/ HandleConnackRejected(msg)
  \/ HandlePingreq(msg) \/ HandlePingresp(msg)
  \/ HandleSuback(msg) \/ HandleSubackOverrun(msg) \/ HandleSubackUnexpected(msg)
  \/ HandlePublish(msg) \/ HandlePublishUnmatched(msg)
  \/ HandleOther(msg)

---------------------------------------------------------------------------
(* periodic_timer_cb.                                                      *)

TimerReconnect ==
  /\ Runs /\ state # "CONNECTED"
  /\ len' = ConnectLen
  /\ sent' = Transmit(udp_connection, Datagram("CONNECT", ConnectLen, ConnectLen))
  /\ posted' = "NONE"
  /\ UNCHANGED <<session, table>>

TimerDisconnect ==
  /\ Runs /\ state = "CONNECTED" /\ keepalive_error >= MAX_KEEPALIVE_ERROR
  /\ state' = "CONNECTION_IN_PROGRESS"
  /\ sent' = Nothing /\ posted' = "DISCONNECTED"
  /\ UNCHANGED <<keepalive_error, table, len>>

\* Mutants of TimerPing: no look at the limit, and the period not counted.
TimerPingUnlimited ==
  /\ Runs /\ state = "CONNECTED"
  /\ keepalive_error' = keepalive_error + 1
  /\ sent' = Transmit(udp_connection, Ping("PINGREQ")) /\ posted' = "NONE"
  /\ UNCHANGED <<state, table, len>>
TimerPingUncounted ==
  /\ Runs /\ state = "CONNECTED" /\ keepalive_error < MAX_KEEPALIVE_ERROR
  /\ sent' = Transmit(udp_connection, Ping("PINGREQ")) /\ posted' = "NONE"
  /\ UNCHANGED <<session, table, len>>

TimerPing ==
  /\ Runs /\ state = "CONNECTED" /\ keepalive_error < MAX_KEEPALIVE_ERROR
  /\ keepalive_error' = keepalive_error + 1
  /\ sent' = Transmit(udp_connection, Ping("PINGREQ")) /\ posted' = "NONE"
  /\ UNCHANGED <<state, table, len>>

PeriodicTimer == TimerReconnect \/ TimerDisconnect \/ TimerPing

Next ==
  \/ \E ok \in BOOLEAN : Connect(ok)
  \/ ConnectAgain
  \/ \E t \in Topics : Subscribe(t) \/ SubscribeOverrun(t) \/ SubscribeNot(t)
  \/ \E msg \in Inbound : HandleInput(msg)
  \/ PeriodicTimer

Spec == Init /\ [][Next]_vars

\* The etimer is reset after each expiry (line 332).
FairSpec == Spec /\ WF_vars(PeriodicTimer)

---------------------------------------------------------------------------
(* Properties.                                                             *)

\* No topic is registered twice, whatever order and repetition of SUBACKs and
\* mqtt_subscribe calls there was (the lookup of lines 119-126).
NoDuplicateTopics ==
  \A i, j \in 0 .. nb_topics - 1 : name[i] = name[j] => i = j \/ name[i] = NoName

\* Only CONNACK and PINGRESP renew a session. The comment at line 180 says of a PINGREQ
\* "Reset the ping timer as the conenction is alive", and the code below it does
\* nothing: a broker that is only heard by its own PINGREQs is given up.
Heard == \E msg \in Inbound : HandlePingresp(msg) \/ HandleConnack(msg)

\* A session the broker no longer answers is given up in the end, whatever else
\* arrives or is subscribed to meanwhile, PINGREQs for ever against the comment at
\* line 180 included, unless an overrun ends the program.
GivesUp == []<><<Heard>>_vars \/ []<>(state # "CONNECTED") \/ <>overrun

Client == INSTANCE Session WITH
  MaxMisses <- MAX_KEEPALIVE_ERROR,
  up <- state = "CONNECTED",
  misses <- keepalive_error,
  event <- posted

\* The router's client has the same contract as the sensor's: DISCONNECTED after
\* MAX_KEEPALIVE_ERROR periods without a PINGRESP, a PUBLISH only in a session.
ImplementsSession == Client!SessionSpec
=============================================================================
