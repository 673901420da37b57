----------------------------- MODULE MqttService -----------------------------
(***************************************************************************)
(* The MQTT-SN client of a sensor node (examples/sensor/mqtt-service.c).    *)
(*                                                                         *)
(* mqtt_process is a Contiki protothread: it runs from one PROCESS_WAIT_    *)
(* EVENT to the next without being preempted, so one handler call is one    *)
(* action.  The order in which tcpip_event and the periodic timer's event   *)
(* reach it is free.  The environment of this module is arbitrary: any      *)
(* datagram of Inbound may arrive at any time, in any number of copies.     *)
(*                                                                         *)
(* Left out: formatting and printf, the LEDs, the value of a temperature,   *)
(* and real time (the period is "between two PeriodicTimer steps").         *)
(***************************************************************************)
EXTENDS Naturals, FiniteSets, FiniteSetsExt

CONSTANTS
  MAX_KEEPALIVE_ERROR,  \* unanswered pings before the node gives up
  NB_TOPICS,            \* length of mqtt.topics[]
  TempTopic,            \* topic_name, "temp/<one wire id>"
  AppTopics,            \* what the client process may pass to mqtt_subscribe
  NoName,               \* the empty string of a zeroed topics[] entry
  TopicIds,             \* ids a broker may put in a SUBACK or a PUBLISH
  PublishFlags,         \* flags octets of an inbound PUBLISH
  MsgIds,               \* message ids of an inbound PUBLISH
  ClientNameLen,        \* strlen(mqtt.name)
  TopicLen,             \* strlen of a topic, taken to be the same for all
  TemperatureLens,      \* possible strlen(temperature)
  CharIsSigned          \* signedness of plain char in the compiler used

\* A two octet field, most significant octet first.
Octet == 0 .. 255
Uint16 == Octet \X Octet
Zero == <<0, 0>>

Topics == {TempTopic} \cup AppTopics
Names == Topics \cup {NoName}
Slots == 0 .. NB_TOPICS - 1

ASSUME KeepaliveAssumption == MAX_KEEPALIVE_ERROR \in Nat \ {0}
ASSUME TopicsAssumption == NB_TOPICS \in Nat \ {0}
ASSUME NamesAssumption == NoName \notin Topics
ASSUME WireAssumption ==
  /\ TopicIds \subseteq Uint16 /\ MsgIds \subseteq Uint16
  /\ PublishFlags \subseteq Octet
ASSUME LengthAssumption ==
  /\ ClientNameLen \in Nat /\ TopicLen \in Nat
  /\ TemperatureLens \subseteq Nat /\ TemperatureLens # {}
ASSUME CharAssumption == CharIsSigned \in BOOLEAN

VARIABLES
  running,  \* process_is_running(&mqtt_process)
  mqtt,     \* static mqtt_handler_t mqtt
  sent,     \* datagrams the last handler call gave to uip_udp_packet_send
  posted    \* event the last handler call posted to mqtt.calling_process

vars == <<running, mqtt, sent, posted>>

---------------------------------------------------------------------------
(* Datagrams.                                                              *)

SentTypes == {"CONNECT", "SUBSCRIBE", "PUBLISH", "PUBACK", "PINGREQ", "PINGRESP"}

\* octet is data[0], the length the datagram claims; len is the number of bytes
\* handed to uIP. topic, id and mid are the fields some types carry.
Datagram ==
  [type : SentTypes, octet : Nat, len : Nat, topic : Names, id : Uint16, mid : Uint16]

HeaderSize ==
  [CONNECT |-> 6, SUBSCRIBE |-> 5, PUBLISH |-> 7, PUBACK |-> 7, PINGREQ |-> 2, PINGRESP |-> 2]

Bare(type, octet, len) ==
  [type |-> type, octet |-> octet, len |-> len, topic |-> NoName, id |-> Zero, mid |-> Zero]

Received(type, code, id, flags, mid) ==
  [type |-> type, code |-> code, id |-> id, flags |-> flags, mid |-> mid]

\* What can arrive. CONNACK code 1 stands for every rejection (1, 2, 3), OTHER
\* for every type the switch has no case for.
Inbound ==
  {Received("CONNACK", c, Zero, 0, Zero) : c \in {0, 1}}
  \cup {Received(t, 0, Zero, 0, Zero) : t \in {"PINGREQ", "PINGRESP", "OTHER"}}
  \cup {Received("SUBACK", 0, i, 0, Zero) : i \in TopicIds}
  \cup {Received("PUBLISH", 0, i, f, n) : i \in TopicIds, f \in PublishFlags, n \in MsgIds}

\* data[3] << 8 | data[4] on plain chars, stored in a uint16_t: a signed low
\* octet is extended over the high one.
WireId(id) == IF CharIsSigned /\ id[2] >= 128 THEN <<255, id[2]>> ELSE id

---------------------------------------------------------------------------
(* The handler record.                                                     *)

States == {"CONNECTION_CLOSED", "CONNECTION_IN_PROGRESS", "CONNECTED"}
Entry == [name : Names, id : Uint16]
Events == [type : {"NONE", "CONNECTED", "DISCONNECTED", "PUBLISH"}, topic : Names]

NoEvent == [type |-> "NONE", topic |-> NoName]

\* overrun is the model's own: it records the first access past topics[], after
\* which the C program's behaviour is not defined and is not followed further.
Handler ==
  [state : States, keepalive_error : 0 .. MAX_KEEPALIVE_ERROR,
   pending_msg : {"NONE", "SUBSCRIBE", "PUBLISH"},
   topics : [Slots -> Entry], nb_topics : 0 .. NB_TOPICS,
   len : Nat, udp_connection : BOOLEAN, overrun : BOOLEAN]

TypeOK ==
  /\ running \in BOOLEAN
  /\ mqtt \in Handler
  /\ sent \in SUBSET Datagram
  /\ posted \in Events

\* static mqtt_handler_t mqtt, as the program starts.
Zeroed ==
  [state |-> "CONNECTION_CLOSED", keepalive_error |-> 0, pending_msg |-> "NONE",
   topics |-> [i \in Slots |-> [name |-> NoName, id |-> Zero]], nb_topics |-> 0,
   len |-> 0, udp_connection |-> FALSE, overrun |-> FALSE]

Init ==
  /\ running = FALSE
  /\ mqtt = Zeroed
  /\ sent = {}
  /\ posted = NoEvent

---------------------------------------------------------------------------
(* Building and sending datagrams.                                         *)

\* uip_udp_packet_send. With a NULL connection nothing reaches the network.
Transmit(m, datagrams) == IF m.udp_connection THEN datagrams ELSE {}

\* mqtt_msg_connect_send: fills data[] and len.
ConnectDatagram == Bare("CONNECT", ClientNameLen + 6, ClientNameLen + 6)

\* Mutant of BuildConnect: fills data[] and forgets len.
BuildConnectWithoutLen(m) == m

BuildConnect(m) == [m EXCEPT !.len = ClientNameLen + 6]

\* mqtt_msg_ping_send: writes two octets and leaves mqtt.len as it was.
PingDatagram(m, type) == Bare(type, 2, m.len)

Registered(m, t) == \E i \in 0 .. m.nb_topics - 1 : m.topics[i].name = t

\* Mutant of Subscribes: no look at the topics already registered.
SubscribesAgain(m, t) == m.state = "CONNECTED" /\ t # NoName /\ ~m.overrun

Subscribes(m, t) == m.state = "CONNECTED" /\ t # NoName /\ ~Registered(m, t) /\ ~m.overrun

\* Mutant of Subscribe: the topic counts as registered before its SUBACK.
SubscribeCounted(m, t) ==
  IF ~Subscribes(m, t) \/ m.nb_topics = NB_TOPICS THEN m
  ELSE [m EXCEPT !.len = TopicLen + 5, !.pending_msg = "SUBSCRIBE",
                 !.topics[m.nb_topics].name = t, !.nb_topics = @ + 1]

\* mqtt_subscribe: the handler afterwards, and what it sends. NoName: no call.
Subscribe(m, t) ==
  IF ~Subscribes(m, t) THEN m
  ELSE IF m.nb_topics = NB_TOPICS THEN [m EXCEPT !.overrun = TRUE]
  ELSE [m EXCEPT !.len = TopicLen + 5, !.pending_msg = "SUBSCRIBE",
                 !.topics[m.nb_topics].name = t]

SubscribeDatagrams(m, t) ==
  IF Subscribes(m, t) /\ m.nb_topics < NB_TOPICS
  THEN {[Bare("SUBSCRIBE", TopicLen + 5, TopicLen + 5) EXCEPT !.topic = t]}
  ELSE {}

\* Mutant of PublishId: the high octet is kept instead of the low one.
PublishHighOctet(m, t) ==
  LET matches == {i \in 0 .. m.nb_topics - 1 : m.topics[i].name = t}
  IN  IF matches = {} THEN Zero ELSE <<0, m.topics[Max(matches)].id[1]>>

\* The id mqtt_msg_publish finds: the last match wins and goes through a uint8_t.
PublishId(m, t) ==
  LET matches == {i \in 0 .. m.nb_topics - 1 : m.topics[i].name = t}
  IN  IF matches = {} THEN Zero ELSE <<0, m.topics[Max(matches)].id[2]>>

\* mqtt_msg_publish: octet 0 counts the topic name, len counts the data.
PublishDatagram(m, t, dlen) ==
  [Bare("PUBLISH", TopicLen + 7, dlen + 7) EXCEPT !.id = PublishId(m, t)]
BuildPublish(m, dlen) == [m EXCEPT !.len = dlen + 7, !.pending_msg = "PUBLISH"]

\* The PUBACK copies octets 2..5 of the PUBLISH to the same places, where a
\* PUBACK has its topic id and message id.
PubackDatagram(msg) ==
  [type |-> "PUBACK", octet |-> 7, len |-> 7, topic |-> NoName,
   id |-> <<msg.flags, msg.id[1]>>, mid |-> <<msg.id[2], msg.mid[1]>>]

---------------------------------------------------------------------------
(* The API, as the client process calls it.                                *)

\* The thread up to its first wait. ok: udp_new found a free connection; without
\* one the thread goes on, and starts the periodic timer, all the same.
Start(m, ok) == BuildConnect([m EXCEPT !.udp_connection = ok])

\* mqtt_connect; process_start runs the thread before it returns.
Connect(ok) ==
  /\ ~running /\ running' = TRUE
  /\ mqtt' = Start([mqtt EXCEPT !.state = "CONNECTION_IN_PROGRESS", !.keepalive_error = 0,
                                !.nb_topics = 0], ok)
  /\ sent' = Transmit(mqtt', {ConnectDatagram})
  /\ posted' = NoEvent

Idle == sent' = {} /\ posted' = NoEvent

\* mqtt_connect returns at once when the process runs.
ConnectAgain == running /\ Idle /\ UNCHANGED <<running, mqtt>>

Runs == running /\ ~mqtt.overrun /\ UNCHANGED running

AppSubscribe(t) ==
  /\ Runs
  /\ mqtt' = Subscribe(mqtt, t)
  /\ sent' = Transmit(mqtt, SubscribeDatagrams(mqtt, t))
  /\ posted' = NoEvent

---------------------------------------------------------------------------
(* handle_mqtt_input, one action per way through its switch.               *)

Receives(msg, type) == Runs /\ mqtt.udp_connection /\ msg.type = type

\* Mutant of HandleConnackAccepted: a new session starts with an empty table.
HandleConnackForgetting(msg, t) ==
  /\ Receives(msg, "CONNACK") /\ msg.code = 0
  /\ LET up == [mqtt EXCEPT !.state = "CONNECTED", !.keepalive_error = 0, !.nb_topics = 0]
     IN  mqtt' = Subscribe(Subscribe(up, t), TempTopic)
  /\ sent' = {}
  /\ posted' = [type |-> "CONNECTED", topic |-> NoName]

\* The event is posted synchronously: the client may call mqtt_subscribe(t) from
\* it, before the handler goes on to subscribe to its own topic.
HandleConnackAccepted(msg, t) ==
  /\ Receives(msg, "CONNACK") /\ msg.code = 0
  /\ LET up  == [mqtt EXCEPT !.state = "CONNECTED", !.keepalive_error = 0]
         app == Subscribe(up, t)
     IN  /\ mqtt' = Subscribe(app, TempTopic)
         /\ sent' = SubscribeDatagrams(up, t) \cup SubscribeDatagrams(app, TempTopic)
  /\ posted' = [type |-> "CONNECTED", topic |-> NoName]

HandleConnackRejected(msg) ==
  /\ Receives(msg, "CONNACK") /\ msg.code # 0
  /\ Idle /\ UNCHANGED mqtt

HandlePingreq(msg) ==
  /\ Receives(msg, "PINGREQ")
  /\ sent' = {PingDatagram(mqtt, "PINGRESP")}
  /\ posted' = NoEvent /\ UNCHANGED mqtt

\* Mutant of HandlePingresp: the answer is not counted.
HandlePingrespIgnored(msg) == Receives(msg, "PINGRESP") /\ Idle /\ UNCHANGED mqtt

HandlePingresp(msg) ==
  /\ Receives(msg, "PINGRESP")
  /\ mqtt' = [mqtt EXCEPT !.keepalive_error = 0]
  /\ Idle

\* The body of "pending_msg == MQTT_MSG_SUBSCRIBE"; pending_msg stays set.
Register(m, id) ==
  IF m.nb_topics = NB_TOPICS THEN [m EXCEPT !.overrun = TRUE]
  ELSE [m EXCEPT !.topics[m.nb_topics].id = WireId(id), !.nb_topics = @ + 1]

HandleSuback(msg) ==
  /\ Receives(msg, "SUBACK") /\ mqtt.pending_msg = "SUBSCRIBE"
  /\ mqtt' = Register(mqtt, msg.id)
  /\ Idle

HandleSubackUnexpected(msg) ==
  /\ Receives(msg, "SUBACK") /\ mqtt.pending_msg # "SUBSCRIBE"
  /\ Idle /\ UNCHANGED mqtt

\* Mutant of Matches: ids are compared in an octet, as mqtt_msg_publish keeps them.
MatchesOctet(m, id) == {i \in 0 .. m.nb_topics - 1 : m.topics[i].id[2] = WireId(id)[2]}

Matches(m, id) == {i \in 0 .. m.nb_topics - 1 : m.topics[i].id = WireId(id)}

\* Mutant of HandlePublish: the loop goes on to the last match.
HandlePublishLast(msg) ==
  /\ Receives(msg, "PUBLISH")
  /\ mqtt.state = "CONNECTED" /\ Matches(mqtt, msg.id) # {}
  /\ mqtt' = [mqtt EXCEPT !.len = 7]
  /\ sent' = {PubackDatagram(msg)}
  /\ posted' = [type |-> "PUBLISH", topic |-> mqtt.topics[Max(Matches(mqtt, msg.id))].name]

HandlePublish(msg) ==
  /\ Receives(msg, "PUBLISH")
  /\ mqtt.state = "CONNECTED" /\ Matches(mqtt, msg.id) # {}
  /\ mqtt' = [mqtt EXCEPT !.len = 7]
  /\ sent' = {PubackDatagram(msg)}
  /\ posted' = [type |-> "PUBLISH", topic |-> mqtt.topics[Min(Matches(mqtt, msg.id))].name]

HandlePublishUnmatched(msg) ==
  /\ Receives(msg, "PUBLISH")
  /\ mqtt.state # "CONNECTED" \/ Matches(mqtt, msg.id) = {}
  /\ Idle /\ UNCHANGED mqtt

HandleOther(msg) == Receives(msg, "OTHER") /\ Idle /\ UNCHANGED mqtt

HandleInput(msg) ==
  \/ \E t \in AppTopics \cup {NoName} : HandleConnackAccepted(msg, t)
  \/ HandleConnackRejected(msg)
  \/ HandlePingreq(msg)
  \/ HandlePingresp(msg)
  \/ HandleSuback(msg)
  \/ HandleSubackUnexpected(msg)
  \/ HandlePublish(msg)
  \/ HandlePublishUnmatched(msg)
  \/ HandleOther(msg)

---------------------------------------------------------------------------
(* periodic_timer_cb.                                                      *)

\* Mutant of TimerReconnect: builds the CONNECT and does not send it.
TimerReconnectSilent ==
  /\ Runs /\ mqtt.state # "CONNECTED"
  /\ mqtt' = BuildConnect(mqtt)
  /\ Idle

TimerReconnect ==
  /\ Runs /\ mqtt.state # "CONNECTED"
  /\ mqtt' = BuildConnect(mqtt)
  /\ sent' = Transmit(mqtt, {ConnectDatagram})
  /\ posted' = NoEvent

\* Mutant of TimerDisconnect: gives up one period early.
TimerDisconnectEarly ==
  /\ Runs /\ mqtt.state = "CONNECTED" /\ mqtt.keepalive_error + 1 >= MAX_KEEPALIVE_ERROR
  /\ mqtt' = [mqtt EXCEPT !.state = "CONNECTION_IN_PROGRESS"]
  /\ sent' = {}
  /\ posted' = [type |-> "DISCONNECTED", topic |-> NoName]

TimerDisconnect ==
  /\ Runs /\ mqtt.state = "CONNECTED" /\ mqtt.keepalive_error >= MAX_KEEPALIVE_ERROR
  /\ mqtt' = [mqtt EXCEPT !.state = "CONNECTION_IN_PROGRESS"]
  /\ sent' = {}
  /\ posted' = [type |-> "DISCONNECTED", topic |-> NoName]

\* Mutant of TimerPublish: no look at the limit.
TimerPublishUnchecked(dlen) ==
  /\ Runs /\ mqtt.state = "CONNECTED"
  /\ mqtt' = BuildPublish([mqtt EXCEPT !.keepalive_error = @ + 1], dlen)
  /\ Idle

\* Mutant of TimerPublish: the period is not counted.
TimerPublishUncounted(dlen) ==
  /\ Runs /\ mqtt.state = "CONNECTED" /\ mqtt.keepalive_error < MAX_KEEPALIVE_ERROR
  /\ mqtt' = BuildPublish(mqtt, dlen)
  /\ Idle

TimerPublish(dlen) ==
  /\ Runs /\ mqtt.state = "CONNECTED" /\ mqtt.keepalive_error < MAX_KEEPALIVE_ERROR
  /\ LET m == BuildPublish([mqtt EXCEPT !.keepalive_error = @ + 1], dlen)
     IN  /\ mqtt' = m
         /\ sent' = Transmit(m, {PublishDatagram(m, TempTopic, dlen), PingDatagram(m, "PINGREQ")})
  /\ posted' = NoEvent

PeriodicTimer ==
  \/ TimerReconnect
  \/ TimerDisconnect
  \/ \E dlen \in TemperatureLens : TimerPublish(dlen)

Next ==
  \/ \E ok \in BOOLEAN : Connect(ok)
  \/ ConnectAgain
  \/ \E t \in AppTopics : AppSubscribe(t)
  \/ \E msg \in Inbound : HandleInput(msg)
  \/ PeriodicTimer

Spec == Init /\ [][Next]_vars

---------------------------------------------------------------------------
(* Properties.                                                             *)

\* Beyond the slot a subscription is waiting in, topics[] is blank.
FreshSlots ==
  \A i \in Slots : i > mqtt.nb_topics => mqtt.topics[i].name = NoName

\* No topic is registered twice, whatever order, loss or repetition of SUBACKs
\* and mqtt_subscribe calls there was: mqtt_subscribe looks only at registered
\* entries, and a SUBACK registers whichever name waits in topics[nb_topics].
NoDuplicateTopics ==
  \A i, j \in 0 .. mqtt.nb_topics - 1 :
    mqtt.topics[i].name = mqtt.topics[j].name => i = j \/ mqtt.topics[i].name = NoName

\* An entry once registered keeps its name and its id for good, through
\* disconnections, reconnections and later subscriptions, and entries are added
\* one at a time: the pointer a PUBLISH event hands out stays valid.
RegistryGrows ==
  [][/\ mqtt'.nb_topics \in {mqtt.nb_topics, mqtt.nb_topics + 1}
     /\ \A i \in 0 .. mqtt.nb_topics - 1 : mqtt'.topics[i] = mqtt.topics[i]]_vars

\* A ping is sent with the length of whatever was built before it. That is never
\* less than the ping, even for a PINGREQ answered right after start, and no
\* datagram is cut inside its header.
HeadersComplete ==
  \A d \in sent : d.len >= HeaderSize[d.type]

---------------------------------------------------------------------------
(* The session the client process sees, whatever the network does: Session. *)

Client == INSTANCE Session WITH
  MaxMisses <- MAX_KEEPALIVE_ERROR,
  up <- mqtt.state = "CONNECTED",
  misses <- mqtt.keepalive_error,
  event <- posted.type

\* The service keeps the session contract: it gives DISCONNECTED only after
\* MAX_KEEPALIVE_ERROR periods without an answer to a ping, a PUBLISH only while
\* connected, and never leaves CONNECTED without an event.
ImplementsSession == Client!SessionSpec
=============================================================================
