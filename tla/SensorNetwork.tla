---------------------------- MODULE SensorNetwork ----------------------------
(***************************************************************************)
(* A sensor node (MqttService) and the broker of its MQTT-SN topics, over a *)
(* UDP network that loses, delays and reorders datagrams and, with          *)
(* Duplicates, delivers them twice.                                        *)
(*                                                                         *)
(* The broker is not part of the repository: it is modelled from what the   *)
(* node expects of it in handle_mqtt_input, and keeps its subscriptions     *)
(* over a reconnection, as CONNECT is sent with a flags octet of 0.         *)
(***************************************************************************)
EXTENDS MqttService

CONSTANTS
  MaxInFlight,  \* bound: datagrams under way in one direction
  Timely,       \* an answer comes within the keepalive period of its request
  Duplicates,   \* the network may deliver a datagram again
  BrokerFails,  \* the broker may stop and restart without its sessions
  BrokerPersists,  \* it has what was registered and subscribed back when it restarts
  NodeResets,   \* the node may restart
  Patient       \* the client leaves time for one subscription to be answered
                \* before the next, the node's own on CONNACK included

ASSUME NetworkAssumption ==
  /\ MaxInFlight \in Nat \ {0}
  /\ {Timely, Duplicates, BrokerFails, BrokerPersists, NodeResets, Patient} \subseteq BOOLEAN

VARIABLES
  toBroker,  \* datagrams under way from the node
  toNode,    \* datagrams under way to the node
  broker     \* what the broker knows of this node

net == <<toBroker, toNode, broker>>
netVars == <<running, mqtt, sent, posted, toBroker, toNode, broker>>

Brokers ==
  [up : BOOLEAN, session : BOOLEAN, ids : [Topics -> TopicIds \cup {Zero}], subs : SUBSET Topics]

NetTypeOK ==
  /\ TypeOK
  /\ toBroker \in SUBSET Datagram /\ Cardinality(toBroker) <= MaxInFlight
  /\ toNode \in SUBSET Inbound /\ Cardinality(toNode) <= MaxInFlight
  /\ broker \in Brokers

Forgotten == [up |-> TRUE, session |-> FALSE, ids |-> [t \in Topics |-> Zero], subs |-> {}]

\* What is left of it when the broker restarts.
Restarted == IF BrokerPersists THEN [broker EXCEPT !.session = FALSE] ELSE Forgotten

NetInit == Init /\ toBroker = {} /\ toNode = {} /\ broker = Forgotten

---------------------------------------------------------------------------
(* The network.                                                            *)

\* Any part of what the node sends may be lost; what is kept is bounded.
Carry(rest, kept) == toBroker' = rest \cup kept /\ Cardinality(rest \cup kept) <= MaxInFlight

NodeSends == \E kept \in SUBSET sent' : Carry(toBroker, kept)

\* A delivered datagram may stay under way to be delivered again.
After(channel, d) == {channel \ {d}} \cup (IF Duplicates THEN {channel} ELSE {})

Answer(reply) ==
  \E kept \in SUBSET {reply} :
    toNode' = toNode \cup kept /\ Cardinality(toNode') <= MaxInFlight

\* A request or answer of the node's own is still under way.
Pending ==
  \/ \E d \in toBroker : d.type \in {"CONNECT", "SUBSCRIBE", "PINGREQ"}
  \/ \E m \in toNode : m.type \in {"CONNACK", "SUBACK", "PINGRESP"}

OnTime == Timely => ~Pending

---------------------------------------------------------------------------
(* The node.                                                               *)

NodeConnect == OnTime /\ Connect(TRUE) /\ NodeSends /\ UNCHANGED <<toNode, broker>>

NodeTimer == OnTime /\ PeriodicTimer /\ NodeSends /\ UNCHANGED <<toNode, broker>>

\* A patient client subscribes to nothing from within the CONNECTED event.
NodeHandles(m) ==
  /\ HandleInput(m)
  /\ Patient => \A d \in sent' : d.type = "SUBSCRIBE" => d.topic = TempTopic
  /\ toNode' \in After(toNode, m) /\ NodeSends /\ UNCHANGED broker

SubscriptionUnderWay ==
  (\E d \in toBroker : d.type = "SUBSCRIBE") \/ (\E m \in toNode : m.type = "SUBACK")

\* The client calls mqtt_subscribe on its own account.
NodeSubscribes(t) ==
  /\ Patient => ~SubscriptionUnderWay
  /\ AppSubscribe(t) /\ NodeSends /\ UNCHANGED <<toNode, broker>>

\* Nobody listens before mqtt_connect, nor after an overrun.
NodeDeaf(m) ==
  /\ ~running \/ mqtt.overrun
  /\ toNode' = toNode \ {m}
  /\ Idle /\ UNCHANGED <<running, mqtt, toBroker, broker>>

\* The node starts again with its memory zeroed.
NodeReset ==
  /\ NodeResets /\ running
  /\ running' = FALSE
  /\ mqtt' = Zeroed
  /\ Idle /\ UNCHANGED net

---------------------------------------------------------------------------
(* The broker. Its steps leave the node alone.                             *)

BrokerStep == Idle /\ UNCHANGED <<running, mqtt>>

BrokerTakes(d, type) ==
  BrokerStep /\ broker.up /\ d.type = type /\ toBroker' \in After(toBroker, d)

BrokerConnects(d) ==
  /\ BrokerTakes(d, "CONNECT")
  /\ broker' = [broker EXCEPT !.session = TRUE]
  /\ Answer(Received("CONNACK", 0, Zero, 0, Zero))

BrokerRejects(d) ==
  /\ BrokerTakes(d, "CONNECT")
  /\ Answer(Received("CONNACK", 1, Zero, 0, Zero))
  /\ UNCHANGED broker

\* A topic keeps the id it was first given, and no two topics have the same.
BrokerSubscribes(d) ==
  /\ BrokerTakes(d, "SUBSCRIBE") /\ broker.session
  /\ \E id \in TopicIds :
       /\ IF broker.ids[d.topic] = Zero THEN \A t \in Topics : broker.ids[t] # id
                                        ELSE broker.ids[d.topic] = id
       /\ broker' = [broker EXCEPT !.ids[d.topic] = id, !.subs = @ \cup {d.topic}]
       /\ Answer(Received("SUBACK", 0, id, 0, Zero))

BrokerAnswersPing(d) ==
  /\ BrokerTakes(d, "PINGREQ") /\ broker.session
  /\ Answer(Received("PINGRESP", 0, Zero, 0, Zero))
  /\ UNCHANGED broker

\* What needs no answer, and whatever comes without a session or to nobody.
BrokerIgnores(d) ==
  /\ \/ d.type \in {"PUBLISH", "PUBACK", "PINGRESP"}
     \/ ~broker.session /\ d.type # "CONNECT"
     \/ ~broker.up
  /\ toBroker' = toBroker \ {d}
  /\ BrokerStep /\ UNCHANGED <<toNode, broker>>

\* Another client of the broker publishes on a topic of the node.
BrokerPublishes(t) ==
  /\ broker.session /\ t \in broker.subs
  /\ \E f \in PublishFlags, n \in MsgIds : Answer(Received("PUBLISH", 0, broker.ids[t], f, n))
  /\ BrokerStep /\ UNCHANGED <<toBroker, broker>>

BrokerPings ==
  /\ broker.session
  /\ Answer(Received("PINGREQ", 0, Zero, 0, Zero))
  /\ BrokerStep /\ UNCHANGED <<toBroker, broker>>

BrokerStops ==
  /\ BrokerFails /\ broker.up
  /\ broker' = [Restarted EXCEPT !.up = FALSE]
  /\ BrokerStep /\ UNCHANGED <<toBroker, toNode>>

BrokerStarts ==
  /\ ~broker.up
  /\ broker' = [Restarted EXCEPT !.up = TRUE]
  /\ BrokerStep /\ UNCHANGED <<toBroker, toNode>>

BrokerHandles(d) ==
  BrokerConnects(d) \/ BrokerRejects(d) \/ BrokerSubscribes(d) \/ BrokerAnswersPing(d)
    \/ BrokerIgnores(d)

\* Every step but the node's timer.
OtherStep ==
  \/ NodeConnect
  \/ \E m \in toNode : NodeHandles(m) \/ NodeDeaf(m)
  \/ \E t \in AppTopics : NodeSubscribes(t)
  \/ NodeReset
  \/ \E d \in toBroker : BrokerHandles(d)
  \/ \E t \in Topics : BrokerPublishes(t)
  \/ BrokerPings \/ BrokerStops \/ BrokerStarts

NetNext == NodeTimer \/ OtherStep

NetSpec == NetInit /\ [][NetNext]_netVars

---------------------------------------------------------------------------
(* Fairness.                                                               *)

\* Something the node sent did not get on its way.
SendLost == ~(sent' \subseteq toBroker')

\* A request reached the broker's end and no answer got on its way.
AnswerLost ==
  /\ \E d \in toBroker \ toBroker' : d.type \in {"CONNECT", "SUBSCRIBE", "PINGREQ"}
  /\ toNode' \subseteq toNode

\* mqtt_connect is called, the etimer is rearmed on every expiry, and datagrams
\* under way arrive or are taken.
Runnable ==
  /\ WF_netVars(NodeConnect)
  /\ WF_netVars(NodeTimer)
  /\ \A m \in Inbound : WF_netVars(m \in toNode /\ (NodeHandles(m) \/ NodeDeaf(m)))
  /\ \A type \in SentTypes : WF_netVars(\E d \in toBroker : d.type = type /\ BrokerHandles(d))

\* A network that does not lose everything: of the attempts to reconnect and of
\* the broker's acceptances of them, infinitely many get through.
FairLossy ==
  /\ SF_netVars(NodeTimer /\ TimerReconnect /\ ~SendLost)
  /\ SF_netVars((\E d \in toBroker : BrokerConnects(d)) /\ ~AnswerLost)

---------------------------------------------------------------------------
(* Safety.                                                                 *)

Entries == {mqtt.topics[i] : i \in 0 .. mqtt.nb_topics - 1}

\* A topic the node believes registered is one the broker has it subscribed to,
\* under the id the broker gave to that topic and to no other: the SUBACK, which
\* names no topic, meets the SUBSCRIBE it answers in the one slot that waits.
RegisteredAtBroker ==
  \A e \in Entries : e.name # NoName =>
    e.name \in broker.subs /\ e.id = WireId(broker.ids[e.name])

\* A PUBLISH reaches the client under the name of the topic it was published on,
\* whose id the PUBACK of the same step repeats, even when repeated SUBACKs left
\* blank entries with that id in topics[].
DeliveredUnderName ==
  posted.type = "PUBLISH" =>
    /\ posted.topic \in broker.subs
    /\ \A d \in sent : broker.ids[posted.topic] = <<d.id[2], d.mid[1]>>

\* A reading is published under its topic's id at the broker, or under 0 as long
\* as the node has not registered it. For ids of one octet.
PublishUnderOwnId ==
  \A d \in sent : d.type = "PUBLISH" =>
    d.id = IF Registered(mqtt, TempTopic) THEN broker.ids[TempTopic] ELSE Zero

\* With answers on time, none repeated and a patient client, topics[] is exactly
\* what was subscribed: no entry is blank, and a table with room for every topic is
\* never overrun, though it fills and the code does not look at its end.
TableExact ==
  ~mqtt.overrun /\ \A e \in Entries : e.name # NoName

\* A SUBACK on its way to the node finds the SUBSCRIBE it answers still pending
\* (mqtt-service.c:259 calls any other "suback without subscribe").
SubackExpected ==
  (\E m \in toNode : m.type = "SUBACK") /\ mqtt.state = "CONNECTED"
    => mqtt.pending_msg = "SUBSCRIBE" \/ Registered(mqtt, TempTopic)

\* A node that has just been accepted asks for its topic, unless the broker has
\* it already (mqtt-service.c:114, "Subscribe to the specified topic").
SubscribedOnConnect ==
  posted.type = "CONNECTED" /\ broker.session =>
    \/ TempTopic \in broker.subs
    \/ \E d \in sent : d.type = "SUBSCRIBE" /\ d.topic = TempTopic

---------------------------------------------------------------------------
(* Liveness.                                                               *)

\* A broker that stays up gets a node that stays up back, again and again if it must.
Reconnects == <>[](broker.up /\ running) => []<>(mqtt.state = "CONNECTED")

\* A broker that is gone is noticed, and the node does not believe it back.
Notices == <>[]~broker.up => <>[](mqtt.state # "CONNECTED")
=============================================================================
