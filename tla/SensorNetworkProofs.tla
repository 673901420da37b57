------------------------- MODULE SensorNetworkProofs -------------------------
(***************************************************************************)
(* Theorems about SensorNetwork, in four parts.                             *)
(*                                                                         *)
(* Types, for any network, broker and client.                              *)
(*                                                                         *)
(* A node that subscribes to its own topic only, with a broker that keeps   *)
(* its ids: what it delivers and publishes is named rightly whatever        *)
(* the network loses, delays, reorders or repeats (Alone).                  *)
(*                                                                         *)
(* A client with any topics that waits for the answer to one subscription   *)
(* before the next, over a network that answers in time and repeats nothing *)
(* (Orderly): the table is exactly what was subscribed, and node and broker *)
(* agree on every id.                                                       *)
(*                                                                         *)
(* KeepaliveMonitor: no live client is dropped before its time.            *)
(***************************************************************************)
EXTENDS KeepaliveMonitor, MqttServiceProofs, FiniteSetTheorems

---------------------------------------------------------------------------
(* Channels.                                                               *)

Bounded(channel) == IsFiniteSet(channel) /\ Cardinality(channel) <= MaxInFlight

Asks(datagrams) == \A d \in datagrams : d.type = "SUBSCRIBE" => d.topic \in Topics

Unstarted == ~running => mqtt = Zeroed

\* A broker gives its ids from TopicIds, and only to topics.
BrokerInv == broker \in Brokers /\ \A t \in broker.subs : broker.ids[t] \in TopicIds

NetInv ==
  /\ Inv /\ Unstarted /\ BrokerInv
  /\ IsFiniteSet(sent) /\ Asks(sent)
  /\ toBroker \subseteq Datagram /\ Bounded(toBroker) /\ Asks(toBroker)
  /\ toNode \subseteq Inbound /\ Bounded(toNode)

LEMMA AfterSubset ==
  ASSUME NEW channel, NEW d, NEW rest \in After(channel, d)
  PROVE  rest \subseteq channel
  BY DEF After

LEMMA StillBounded ==
  ASSUME NEW channel, Bounded(channel), NEW rest \in SUBSET channel
  PROVE  Bounded(rest)
<1>1. /\ IsFiniteSet(rest) /\ Cardinality(rest) <= Cardinality(channel)
      /\ Cardinality(rest) \in Nat /\ Cardinality(channel) \in Nat
  BY FS_Subset, FS_CardinalityType DEF Bounded
<1> QED
  BY <1>1, NetworkAssumption DEF Bounded

\* An answer adds at most itself.
LEMMA Answered ==
  ASSUME NEW reply, Answer(reply), Bounded(toNode)
  PROVE  toNode' \subseteq toNode \cup {reply} /\ Bounded(toNode')
<1>1. PICK kept \in SUBSET {reply} :
        toNode' = toNode \cup kept /\ Cardinality(toNode') <= MaxInFlight
  BY DEF Answer
<1>2. IsFiniteSet(kept)
  BY FS_Singleton, FS_Subset
<1>3. IsFiniteSet(toNode')
  BY <1>1, <1>2, FS_Union DEF Bounded
<1> QED
  BY <1>1, <1>3 DEF Bounded

\* The node adds at most what it sends.
LEMMA Carried ==
  ASSUME NodeSends, Bounded(toBroker), IsFiniteSet(sent')
  PROVE  toBroker' \subseteq toBroker \cup sent' /\ Bounded(toBroker')
<1>1. PICK kept \in SUBSET sent' :
        toBroker' = toBroker \cup kept /\ Cardinality(toBroker \cup kept) <= MaxInFlight
  BY DEF NodeSends, Carry
<1>2. IsFiniteSet(kept)
  BY FS_Subset
<1>3. IsFiniteSet(toBroker')
  BY <1>1, <1>2, FS_Union DEF Bounded
<1> QED
  BY <1>1, <1>3 DEF Bounded

---------------------------------------------------------------------------
(* The steps of the node.                                                  *)

NodeActs ==
  \/ Connect(TRUE)
  \/ PeriodicTimer
  \/ \E t \in AppTopics : AppSubscribe(t)
  \/ \E m \in toNode : HandleInput(m)

LEMMA SubscribeAsks ==
  ASSUME NEW m, NEW t \in Names
  PROVE  IsFiniteSet(SubscribeDatagrams(m, t)) /\ Asks(SubscribeDatagrams(m, t))
<1>1. CASE Subscribes(m, t) /\ m.nb_topics < NB_TOPICS
  <2> DEFINE d == [Bare("SUBSCRIBE", TopicLen + 5, TopicLen + 5) EXCEPT !.topic = t]
  <2>1. SubscribeDatagrams(m, t) = {d}
    BY <1>1 DEF SubscribeDatagrams
  <2>2. d.topic = t /\ t \in Topics
    BY <1>1 DEF Bare, Subscribes, Names
  <2> HIDE DEF d
  <2> QED
    BY <2>1, <2>2, FS_Singleton DEF Asks
<1>2. CASE ~(Subscribes(m, t) /\ m.nb_topics < NB_TOPICS)
  BY <1>2, FS_EmptySet DEF SubscribeDatagrams, Asks
<1> QED
  BY <1>1, <1>2

\* At most two datagrams that ask for nothing.
LEMMA OthersAsk ==
  ASSUME NEW datagrams, NEW d, NEW e, datagrams \subseteq {d, e},
         d.type # "SUBSCRIBE", e.type # "SUBSCRIBE"
  PROVE  IsFiniteSet(datagrams) /\ Asks(datagrams)
<1>1. IsFiniteSet({d} \cup {e})
  BY FS_Singleton, FS_Union
<1>2. {d} \cup {e} = {d, e}
  OBVIOUS
<1>3. IsFiniteSet(datagrams)
  BY <1>1, <1>2, FS_Subset
<1> QED
  BY <1>3 DEF Asks

LEMMA NodeSent ==
  ASSUME NodeActs
  PROVE  IsFiniteSet(sent') /\ Asks(sent')
<1>1. ASSUME sent' \subseteq {ConnectDatagram} PROVE IsFiniteSet(sent') /\ Asks(sent')
  <2>1. ConnectDatagram.type # "SUBSCRIBE"
    BY DEF ConnectDatagram, Bare
  <2> QED
    BY <1>1, <2>1, OthersAsk
<1>2. ASSUME sent' = {} PROVE IsFiniteSet(sent') /\ Asks(sent')
  BY <1>2, FS_EmptySet DEF Asks
<1>3. ASSUME Connect(TRUE) PROVE IsFiniteSet(sent') /\ Asks(sent')
  BY <1>1, <1>3 DEF Connect, Transmit
<1>4. ASSUME PeriodicTimer PROVE IsFiniteSet(sent') /\ Asks(sent')
  <2>1. ASSUME TimerReconnect PROVE sent' \subseteq {ConnectDatagram}
    BY <2>1 DEF TimerReconnect, Transmit
  <2>2. ASSUME TimerDisconnect PROVE sent' = {}
    BY <2>2 DEF TimerDisconnect
  <2>3. ASSUME NEW dlen \in TemperatureLens, TimerPublish(dlen)
        PROVE  IsFiniteSet(sent') /\ Asks(sent')
    <3>1. sent' \subseteq {PublishDatagram(mqtt', TempTopic, dlen), PingDatagram(mqtt', "PINGREQ")}
      BY <2>3 DEF TimerPublish, Transmit
    <3>2. /\ PublishDatagram(mqtt', TempTopic, dlen).type # "SUBSCRIBE"
          /\ PingDatagram(mqtt', "PINGREQ").type # "SUBSCRIBE"
      BY DEF PublishDatagram, PingDatagram, Bare
    <3> QED
      BY <3>1, <3>2, OthersAsk
  <2> QED
    BY <1>1, <1>2, <1>4, <2>1, <2>2, <2>3 DEF PeriodicTimer
<1>5. ASSUME NEW m \in toNode, HandleInput(m) PROVE IsFiniteSet(sent') /\ Asks(sent')
  <2>1. ASSUME NEW t \in AppTopics \cup {NoName}, HandleConnackAccepted(m, t)
        PROVE  IsFiniteSet(sent') /\ Asks(sent')
    <3> DEFINE up  == [mqtt EXCEPT !.state = "CONNECTED", !.keepalive_error = 0]
               app == Subscribe(up, t)
    <3>1. sent' = SubscribeDatagrams(up, t) \cup SubscribeDatagrams(app, TempTopic)
      BY <2>1 DEF HandleConnackAccepted
    <3> HIDE DEF up, app
    <3> QED
      BY <3>1, SubscribeAsks, NamesFacts, FS_Union DEF Asks
  <2>2. ASSUME HandlePingreq(m) PROVE IsFiniteSet(sent') /\ Asks(sent')
    <3>1. PingDatagram(mqtt, "PINGRESP").type # "SUBSCRIBE"
      BY DEF PingDatagram, Bare
    <3> QED
      BY <2>2, <3>1, OthersAsk DEF HandlePingreq
  <2>3. ASSUME HandlePublish(m) PROVE IsFiniteSet(sent') /\ Asks(sent')
    <3>1. PubackDatagram(m).type # "SUBSCRIBE"
      BY DEF PubackDatagram
    <3> QED
      BY <2>3, <3>1, OthersAsk DEF HandlePublish
  <2>4. ASSUME Idle PROVE IsFiniteSet(sent') /\ Asks(sent')
    BY <1>2, <2>4 DEF Idle
  <2> QED
    BY <1>5, <2>1, <2>2, <2>3, <2>4
    DEF HandleInput, HandleConnackRejected, HandlePingresp, HandleSuback, HandleSubackUnexpected,
        HandlePublishUnmatched, HandleOther
<1>6. ASSUME NEW t \in AppTopics, AppSubscribe(t) PROVE IsFiniteSet(sent') /\ Asks(sent')
  <2>1. sent' = {} \/ sent' = SubscribeDatagrams(mqtt, t)
    BY <1>6 DEF AppSubscribe, Transmit
  <2> QED
    BY <1>2, <2>1, SubscribeAsks, NamesFacts
<1> QED
  BY <1>3, <1>4, <1>5, <1>6 DEF NodeActs

LEMMA NodeRuns ==
  ASSUME NodeActs
  PROVE  running'
<1>1. ASSUME Runs PROVE running'
  BY <1>1 DEF Runs
<1>2. ASSUME NEW m, HandleInput(m) PROVE Runs
  BY <1>2 DEF HandleInput, HandleConnackAccepted, HandleConnackRejected, HandlePingreq,
     HandlePingresp, HandleSuback, HandleSubackUnexpected, HandlePublish,
     HandlePublishUnmatched, HandleOther, Receives
<1>3. ASSUME PeriodicTimer PROVE Runs
  BY <1>3 DEF PeriodicTimer, TimerReconnect, TimerDisconnect, TimerPublish
<1> QED
  BY <1>1, <1>2, <1>3 DEF NodeActs, Connect, AppSubscribe

\* A step of the node, as the network sees it.
NodeMoves == NodeActs /\ NodeSends /\ toNode' \subseteq toNode /\ UNCHANGED broker

LEMMA NodeSteps ==
  /\ NodeConnect => NodeMoves
  /\ NodeTimer => NodeMoves
  /\ \A m \in toNode : NodeHandles(m) => NodeMoves
  /\ \A t \in AppTopics : NodeSubscribes(t) => NodeMoves
<1>1. ASSUME NEW m \in toNode, NodeHandles(m) PROVE NodeMoves
  <2>1. toNode' \subseteq toNode
    BY <1>1, AfterSubset DEF NodeHandles
  <2> QED
    BY <1>1, <2>1 DEF NodeHandles, NodeMoves, NodeActs
<1> QED
  BY <1>1 DEF NodeConnect, NodeTimer, NodeSubscribes, NodeMoves, NodeActs

LEMMA NodeKeeps ==
  ASSUME NetInv, NodeMoves
  PROVE  NetInv'
<1> USE DEF NetInv
<1>1. Next
  BY DEF NodeMoves, NodeActs, Next
<1>2. Inv'
  BY <1>1, InvStep
<1>3. IsFiniteSet(sent') /\ Asks(sent') /\ running'
  BY NodeSent, NodeRuns DEF NodeMoves
<1>4. toBroker' \subseteq toBroker \cup sent' /\ Bounded(toBroker')
  BY <1>3, Carried DEF NodeMoves
<1>5. sent' \subseteq Datagram
  BY <1>2 DEF Inv, TypeOK
<1>6. Bounded(toNode')
  BY StillBounded DEF NodeMoves
<1> QED
  BY <1>2, <1>3, <1>4, <1>5, <1>6 DEF NodeMoves, Unstarted, BrokerInv, Asks

---------------------------------------------------------------------------
(* Steps that leave the node alone.                                        *)

Still == Idle /\ UNCHANGED <<running, mqtt>>

LEMMA StillInv ==
  ASSUME Inv, Unstarted, Still
  PROVE  Inv' /\ Unstarted' /\ IsFiniteSet(sent') /\ Asks(sent')
<1>1. TypeOK'
  BY NoEventType DEF Still, Idle, Inv, TypeOK
<1>2. IsFiniteSet({})
  BY FS_EmptySet
<1> QED
  BY <1>1, <1>2 DEF Still, Idle, Inv, Unstarted, NotStarted, RegistryInv, LengthInv,
     HeadersComplete, Fresh, Distinct, Asks

\* What a step beside the node has to show.
LEMMA StillKeeps ==
  ASSUME NetInv, Still, BrokerInv', toBroker' \subseteq toBroker,
         toNode' \subseteq Inbound, Bounded(toNode')
  PROVE  NetInv'
<1>1. Inv' /\ Unstarted' /\ IsFiniteSet(sent') /\ Asks(sent')
  BY StillInv DEF NetInv
<1>2. Bounded(toBroker')
  BY StillBounded DEF NetInv
<1> QED
  BY <1>1, <1>2 DEF NetInv, Asks

LEMMA AnswersInbound ==
  /\ \A c \in {0, 1} : Received("CONNACK", c, Zero, 0, Zero) \in Inbound
  /\ Received("PINGRESP", 0, Zero, 0, Zero) \in Inbound
  /\ Received("PINGREQ", 0, Zero, 0, Zero) \in Inbound
  /\ \A id \in TopicIds : Received("SUBACK", 0, id, 0, Zero) \in Inbound
  /\ \A id \in TopicIds, f \in PublishFlags, n \in MsgIds :
       Received("PUBLISH", 0, id, f, n) \in Inbound
  BY DEF Inbound

LEMMA ForgottenInv == Forgotten \in Brokers /\ Forgotten.subs = {}
  BY DEF Forgotten, Brokers

LEMMA RestartInv ==
  ASSUME BrokerInv, BrokerStops \/ BrokerStarts
  PROVE  BrokerInv'
<1>1. PICK up \in BOOLEAN : broker' = [Restarted EXCEPT !.up = up]
  BY DEF BrokerStops, BrokerStarts
<1>2. CASE BrokerPersists
  BY <1>1, <1>2 DEF Restarted, BrokerInv, Brokers
<1>3. CASE ~BrokerPersists
  BY <1>1, <1>3 DEF Restarted, Forgotten, BrokerInv, Brokers
<1> QED
  BY <1>2, <1>3

\* A broker that answers keeps the channels' types.
LEMMA AnswerKeeps ==
  ASSUME NetInv, Still, BrokerInv', toBroker' \subseteq toBroker,
         NEW reply \in Inbound, Answer(reply)
  PROVE  NetInv'
<1>1. toNode' \subseteq toNode \cup {reply} /\ Bounded(toNode')
  BY Answered DEF NetInv
<1> QED
  BY <1>1, StillKeeps DEF NetInv

LEMMA BrokerHandlesInv ==
  ASSUME NetInv, NEW d \in toBroker, BrokerHandles(d)
  PROVE  NetInv'
<1>0. BrokerInv
  BY DEF NetInv
<1>1. ASSUME NEW type, BrokerTakes(d, type) PROVE Still /\ toBroker' \subseteq toBroker
  BY <1>1, AfterSubset DEF BrokerTakes, BrokerStep, Still
<1>2. CASE BrokerConnects(d)
  <2>1. BrokerInv'
    BY <1>0, <1>2 DEF BrokerConnects, BrokerInv, Brokers
  <2> QED
    BY <1>1, <1>2, <2>1, AnswerKeeps, AnswersInbound DEF BrokerConnects
<1>3. CASE BrokerRejects(d)
  <2>1. BrokerInv'
    BY <1>0, <1>3 DEF BrokerRejects, BrokerInv
  <2> QED
    BY <1>1, <1>3, <2>1, AnswerKeeps, AnswersInbound DEF BrokerRejects
<1>4. CASE BrokerSubscribes(d)
  <2>1. d.topic \in Topics
    BY <1>4 DEF NetInv, Asks, BrokerSubscribes, BrokerTakes
  <2>2. PICK id \in TopicIds :
          /\ broker' = [broker EXCEPT !.ids[d.topic] = id, !.subs = @ \cup {d.topic}]
          /\ Answer(Received("SUBACK", 0, id, 0, Zero))
    BY <1>4 DEF BrokerSubscribes
  <2>3. /\ broker' \in Brokers /\ broker'.subs = broker.subs \cup {d.topic}
        /\ broker'.ids = [broker.ids EXCEPT ![d.topic] = id]
    BY <1>0, <2>1, <2>2 DEF BrokerInv, Brokers
  <2>4. BrokerInv'
    BY <1>0, <2>1, <2>3 DEF BrokerInv, Brokers
  <2>5. Still /\ toBroker' \subseteq toBroker
    BY <1>1, <1>4 DEF BrokerSubscribes
  <2>6. Received("SUBACK", 0, id, 0, Zero) \in Inbound
    BY AnswersInbound
  <2> QED
    BY <2>2, <2>4, <2>5, <2>6, AnswerKeeps
<1>5. CASE BrokerAnswersPing(d)
  <2>1. BrokerInv'
    BY <1>0, <1>5 DEF BrokerAnswersPing, BrokerInv
  <2> QED
    BY <1>1, <1>5, <2>1, AnswerKeeps, AnswersInbound DEF BrokerAnswersPing
<1>6. CASE BrokerIgnores(d)
  BY <1>0, <1>6, StillKeeps DEF BrokerIgnores, BrokerStep, Still, BrokerInv, NetInv
<1> QED
  BY <1>2, <1>3, <1>4, <1>5, <1>6 DEF BrokerHandles

---------------------------------------------------------------------------
(* Types.                                                                  *)

LEMMA NetInvInit == NetInit => NetInv
<1> SUFFICES ASSUME NetInit PROVE NetInv
  OBVIOUS
<1>1. Inv
  BY InvInit DEF NetInit
<1>2. IsFiniteSet({}) /\ Cardinality({}) = 0
  BY FS_EmptySet
<1>3. Bounded({})
  BY <1>2, NetworkAssumption DEF Bounded
<1> QED
  BY <1>1, <1>2, <1>3, ForgottenInv
  DEF NetInit, NetInv, Init, Unstarted, BrokerInv, Asks

\* Every step of node, network and broker keeps the invariant.
LEMMA NetInvStep == NetInv /\ [NetNext]_netVars => NetInv'
<1> SUFFICES ASSUME NetInv, [NetNext]_netVars PROVE NetInv'
  OBVIOUS
<1>0. /\ BrokerInv /\ toBroker \subseteq Datagram /\ Bounded(toBroker)
      /\ toNode \subseteq Inbound /\ Bounded(toNode)
  BY DEF NetInv
<1>1. CASE NodeMoves
  BY <1>1, NodeKeeps
<1>2. ASSUME NEW m \in toNode, NodeDeaf(m) PROVE NetInv'
  BY <1>0, <1>2, StillKeeps, StillBounded DEF NodeDeaf, Still, BrokerInv
<1>3. CASE NodeReset
  <2>1. Init'
    BY <1>3 DEF NodeReset, Idle, Init
  <2>2. Init' => Inv'
    BY InvInit, PTL
  <2>3. IsFiniteSet({})
    BY FS_EmptySet
  <2> QED
    BY <1>3, <2>1, <2>2, <2>3 DEF NodeReset, Idle, NetInv, Unstarted, BrokerInv, net, Asks, Bounded
<1>4. ASSUME NEW d \in toBroker, BrokerHandles(d) PROVE NetInv'
  BY <1>4, BrokerHandlesInv
<1>5. ASSUME NEW t \in Topics, BrokerPublishes(t) PROVE NetInv'
  <2>1. PICK f \in PublishFlags, n \in MsgIds : Answer(Received("PUBLISH", 0, broker.ids[t], f, n))
    BY <1>5 DEF BrokerPublishes
  <2>2. Received("PUBLISH", 0, broker.ids[t], f, n) \in Inbound
    BY <1>0, <1>5, AnswersInbound DEF BrokerPublishes, BrokerInv
  <2>3. Still /\ UNCHANGED <<toBroker, broker>>
    BY <1>5 DEF BrokerPublishes, BrokerStep, Still
  <2> QED
    BY <1>0, <2>1, <2>2, <2>3, AnswerKeeps DEF BrokerInv
<1>6. CASE BrokerPings
  BY <1>0, <1>6, AnswerKeeps, AnswersInbound DEF BrokerPings, BrokerStep, Still, BrokerInv
<1>7. CASE BrokerStops \/ BrokerStarts
  <2>1. BrokerInv'
    BY <1>0, <1>7, RestartInv
  <2> QED
    BY <1>0, <1>7, <2>1, StillKeeps DEF BrokerStops, BrokerStarts, BrokerStep, Still
<1>8. CASE UNCHANGED netVars
  <2>1. UNCHANGED vars
    BY <1>8 DEF netVars, vars
  <2>2. Inv'
    BY <2>1, InvStep DEF NetInv
  <2> QED
    BY <1>8, <2>2 DEF netVars, NetInv, Unstarted, BrokerInv, Bounded, Asks
<1> QED
  BY <1>1, <1>2, <1>3, <1>4, <1>5, <1>6, <1>7, <1>8, NodeSteps DEF NetNext, OtherStep

\* Node, channels and broker keep their types and bounds, over any network,
\* with restarts of either.
THEOREM NetTypeCorrect == NetSpec => []NetTypeOK
<1>1. NetInv => NetTypeOK
  BY DEF NetInv, NetTypeOK, Inv, BrokerInv, Bounded
<1> QED
  BY <1>1, NetInvInit, NetInvStep, PTL DEF NetSpec

---------------------------------------------------------------------------
(* A node with one topic, over a network that repeats and delays.          *)

\* The broker keeps what it was told, over its restarts too, and gives no topic the
\* id MQTT-SN reserves.
Lasted == (BrokerFails => BrokerPersists) /\ Zero \notin TopicIds

\* The node's own topic is the only one.
Alone == AppTopics = {} /\ Lasted

LEMMA RestartLasts ==
  ASSUME Lasted, broker.up \/ BrokerFails, broker \in Brokers, BrokerStops \/ BrokerStarts
  PROVE  broker'.subs = broker.subs /\ broker'.ids = broker.ids /\ BrokerFails
<1>1. BrokerFails /\ BrokerPersists
  BY DEF Lasted, BrokerStops, BrokerStarts
<1>2. PICK up \in BOOLEAN : broker' = [[broker EXCEPT !.session = FALSE] EXCEPT !.up = up]
  BY <1>1 DEF BrokerStops, BrokerStarts, Restarted
<1> QED
  BY <1>1, <1>2 DEF Brokers

\* What the broker sends carries the topic's id.
Served ==
  \A m \in toNode : m.type \in {"SUBACK", "PUBLISH"} =>
    TempTopic \in broker.subs /\ m.id = broker.ids[TempTopic]

\* Every entry of topics[] has the broker's id, blank ones too, and the first slot
\* has the name once a SUBACK may register it: that is why a PUBLISH finds the
\* name before any blank entry with the same id.
Table(m, b) ==
  /\ \A i \in 0 .. m.nb_topics - 1 :
       TempTopic \in b.subs /\ m.topics[i].id = WireId(b.ids[TempTopic])
  /\ m.nb_topics > 0 \/ m.pending_msg = "SUBSCRIBE" => m.topics[0].name = TempTopic

Agreed == (broker.up \/ BrokerFails) /\ Served /\ Table(mqtt, broker)

LEMMA SameTable ==
  ASSUME NEW m, NEW n, NEW b, Table(m, b), n.topics = m.topics, n.nb_topics = m.nb_topics,
         n.pending_msg = "SUBSCRIBE" => m.pending_msg = "SUBSCRIBE"
  PROVE  Table(n, b)
  BY DEF Table

LEMMA SlotFacts ==
  ASSUME NEW m \in Handler
  PROVE  /\ 0 \in Slots /\ m.nb_topics \in Nat /\ m.topics \in [Slots -> Entry]
         /\ \A i \in 0 .. m.nb_topics - 1 : i \in Slots
         /\ m.nb_topics # NB_TOPICS => m.nb_topics \in Slots
  BY TopicsAssumption DEF Handler, Slots

LEMMA SubscribeTable ==
  ASSUME NEW m \in Handler, NEW b, Table(m, b)
  PROVE  Table(Subscribe(m, TempTopic), b)
<1> DEFINE s == Subscribe(m, TempTopic)
<1>1. CASE ~Subscribes(m, TempTopic)
  BY <1>1 DEF Subscribe
<1>2. CASE Subscribes(m, TempTopic) /\ m.nb_topics = NB_TOPICS
  <2>1. s.topics = m.topics /\ s.nb_topics = m.nb_topics /\ s.pending_msg = m.pending_msg
    BY <1>2 DEF Subscribe, Handler
  <2> QED
    BY <2>1, SameTable
<1>3. CASE Subscribes(m, TempTopic) /\ m.nb_topics # NB_TOPICS
  <2> DEFINE n == m.nb_topics
  <2>1. s.nb_topics = n /\ s.topics = [m.topics EXCEPT ![n].name = TempTopic]
    BY <1>3 DEF Subscribe, Handler
  <2>2. n \in Slots /\ n \in Nat /\ 0 \in Slots /\ m.topics \in [Slots -> Entry]
    BY <1>3, SlotFacts
  <2>3. s.topics[n].name = TempTopic /\ \A i \in Slots : i # n => s.topics[i] = m.topics[i]
    BY <2>1, <2>2 DEF Entry
  <2>4. \A i \in 0 .. n - 1 : i \in Slots /\ i # n
    BY <2>2, SlotFacts
  <2>5. s.topics[0].name = TempTopic
    BY <2>2, <2>3 DEF Table
  <2> QED
    BY <2>1, <2>3, <2>4, <2>5 DEF Table
<1> QED
  BY <1>1, <1>2, <1>3

LEMMA RegisterTable ==
  ASSUME NEW m \in Handler, NEW b, Table(m, b), m.pending_msg = "SUBSCRIBE",
         TempTopic \in b.subs
  PROVE  Table(Register(m, b.ids[TempTopic]), b)
<1> DEFINE r == Register(m, b.ids[TempTopic])
<1>1. CASE m.nb_topics = NB_TOPICS
  <2>1. r.topics = m.topics /\ r.nb_topics = m.nb_topics /\ r.pending_msg = m.pending_msg
    BY <1>1 DEF Register, Handler
  <2> QED
    BY <2>1, SameTable
<1>2. CASE m.nb_topics # NB_TOPICS
  <2> DEFINE n == m.nb_topics
  <2>1. /\ r.nb_topics = n + 1
        /\ r.topics = [m.topics EXCEPT ![n].id = WireId(b.ids[TempTopic])]
    BY <1>2 DEF Register, Handler
  <2>2. n \in Slots /\ n \in Nat /\ 0 \in Slots /\ m.topics \in [Slots -> Entry]
    BY <1>2, SlotFacts
  <2>3. /\ r.topics[n].id = WireId(b.ids[TempTopic])
        /\ \A i \in Slots : r.topics[i].name = m.topics[i].name
        /\ \A i \in Slots : i # n => r.topics[i] = m.topics[i]
    BY <2>1, <2>2 DEF Entry
  <2>4. \A i \in 0 .. n : i = n \/ (i \in 0 .. n - 1 /\ i # n /\ i \in Slots)
    BY <2>2, SlotFacts
  <2>5. (n + 1) - 1 = n
    BY <2>2
  <2> QED
    BY <2>1, <2>2, <2>3, <2>4, <2>5 DEF Table
<1> QED
  BY <1>1, <1>2

LEMMA NodeTable ==
  ASSUME Alone, NetInv, Agreed, NodeActs
  PROVE  Table(mqtt', broker)
<1>0. mqtt \in Handler /\ Table(mqtt, broker)
  BY DEF NetInv, Inv, TypeOK, Agreed
<1>1. CASE Connect(TRUE)
  <2>1. mqtt = Zeroed
    BY <1>1 DEF Connect, NetInv, Unstarted
  <2>2. mqtt'.nb_topics = 0 /\ mqtt'.pending_msg = "NONE"
    BY <1>1, <2>1 DEF Connect, Start, BuildConnect, Zeroed
  <2> QED
    BY <2>2 DEF Table
<1>2. CASE PeriodicTimer
  <2>1. /\ mqtt'.topics = mqtt.topics /\ mqtt'.nb_topics = mqtt.nb_topics
        /\ mqtt'.pending_msg \in {mqtt.pending_msg, "PUBLISH"}
    BY <1>0, <1>2 DEF PeriodicTimer, TimerReconnect, BuildConnect, TimerDisconnect, TimerPublish,
       BuildPublish, Handler
  <2> QED
    BY <1>0, <2>1, SameTable
<1>3. ASSUME NEW m \in toNode, HandleInput(m) PROVE Table(mqtt', broker)
  <2>1. ASSUME NEW t \in AppTopics \cup {NoName}, HandleConnackAccepted(m, t)
        PROVE  Table(mqtt', broker)
    <3> DEFINE up == [mqtt EXCEPT !.state = "CONNECTED", !.keepalive_error = 0]
    <3>1. 0 \in 0 .. MAX_KEEPALIVE_ERROR
      BY KeepaliveAssumption
    <3>2. /\ up \in Handler /\ up.topics = mqtt.topics /\ up.nb_topics = mqtt.nb_topics
          /\ up.pending_msg = mqtt.pending_msg
      BY <1>0, <3>1 DEF Handler, States
    <3>3. t = NoName
      BY DEF Alone
    <3>4. Subscribe(up, t) = up
      BY <3>3 DEF Subscribe, Subscribes
    <3>5. mqtt' = Subscribe(up, TempTopic)
      BY <2>1, <3>4 DEF HandleConnackAccepted
    <3>6. Table(up, broker)
      BY <1>0, <3>2, SameTable
    <3> HIDE DEF up
    <3> QED
      BY <3>2, <3>5, <3>6, SubscribeTable
  <2>2. ASSUME HandleSuback(m) PROVE Table(mqtt', broker)
    <3>1. TempTopic \in broker.subs /\ m.id = broker.ids[TempTopic]
      BY <2>2 DEF HandleSuback, Receives, Agreed, Served
    <3> QED
      BY <1>0, <2>2, <3>1, RegisterTable DEF HandleSuback
  <2>3. ASSUME HandlePingresp(m) \/ HandlePublish(m) PROVE Table(mqtt', broker)
    <3>1. /\ mqtt'.topics = mqtt.topics /\ mqtt'.nb_topics = mqtt.nb_topics
          /\ mqtt'.pending_msg = mqtt.pending_msg
      BY <1>0, <2>3 DEF HandlePingresp, HandlePublish, Handler
    <3> QED
      BY <1>0, <3>1, SameTable
  <2>4. ASSUME UNCHANGED mqtt PROVE Table(mqtt', broker)
    BY <1>0, <2>4
  <2> QED
    BY <1>3, <2>1, <2>2, <2>3, <2>4
    DEF HandleInput, HandleConnackRejected, HandlePingreq, HandleSubackUnexpected,
        HandlePublishUnmatched, HandleOther
<1> QED
  BY <1>1, <1>2, <1>3 DEF NodeActs, Alone

\* What the node's topic is at the broker does not change any more.
Lasts ==
  /\ broker'.up \/ BrokerFails
  /\ TempTopic \in broker.subs =>
       TempTopic \in broker'.subs /\ broker'.ids[TempTopic] = broker.ids[TempTopic]

LEMMA OnlyTopic ==
  ASSUME Alone, NEW t \in Topics
  PROVE  t = TempTopic
  BY DEF Alone, Topics

\* What a step of the broker has to show.
LEMMA BrokerAgrees ==
  ASSUME Agreed, Lasts, UNCHANGED mqtt, NEW reply, toNode' \subseteq toNode \cup {reply},
         reply.type \in {"SUBACK", "PUBLISH"} =>
           TempTopic \in broker'.subs /\ reply.id = broker'.ids[TempTopic]
  PROVE  Agreed'
<1>1. Served'
  BY DEF Agreed, Served, Lasts
<1>2. Table(mqtt', broker')
  BY DEF Agreed, Table, Lasts
<1> QED
  BY <1>1, <1>2 DEF Agreed, Lasts

LEMMA PlainAnswers ==
  \A type \in {"CONNACK", "PINGRESP", "PINGREQ"}, c \in {0, 1} :
    Received(type, c, Zero, 0, Zero).type \notin {"SUBACK", "PUBLISH"}
  BY DEF Received

LEMMA SubscribeAgrees ==
  ASSUME Alone, NetInv, Agreed, NEW d \in toBroker, BrokerSubscribes(d)
  PROVE  Agreed'
<1>1. d.topic = TempTopic
  BY OnlyTopic DEF NetInv, Asks, BrokerSubscribes, BrokerTakes
<1>2. PICK id \in TopicIds :
        /\ broker.ids[TempTopic] # Zero => broker.ids[TempTopic] = id
        /\ broker' = [broker EXCEPT !.ids[TempTopic] = id, !.subs = @ \cup {TempTopic}]
        /\ Answer(Received("SUBACK", 0, id, 0, Zero))
  BY <1>1 DEF BrokerSubscribes
<1>3. /\ broker'.ids[TempTopic] = id /\ TempTopic \in broker'.subs
      /\ broker'.up = broker.up
  BY <1>2 DEF NetInv, BrokerInv, Brokers, Topics
<1>4. TempTopic \in broker.subs => broker.ids[TempTopic] = id
  BY <1>2 DEF NetInv, BrokerInv, Alone, Lasted
<1>5. Lasts
  BY <1>3, <1>4 DEF Lasts, Agreed
<1>6. toNode' \subseteq toNode \cup {Received("SUBACK", 0, id, 0, Zero)}
  BY <1>2, Answered DEF NetInv
<1>7. Received("SUBACK", 0, id, 0, Zero).id = id
  BY DEF Received
<1>8. UNCHANGED mqtt
  BY DEF BrokerSubscribes, BrokerTakes, BrokerStep
<1> QED
  BY <1>3, <1>5, <1>6, <1>7, <1>8, BrokerAgrees

LEMMA AgreedStep ==
  ASSUME Alone, NetInv, Agreed, [NetNext]_netVars
  PROVE  Agreed'
<1>0. Bounded(toNode) /\ broker \in Brokers
  BY DEF NetInv, BrokerInv
<1>1. CASE NodeMoves
  <2>1. Table(mqtt', broker)
    BY <1>1, NodeTable DEF NodeMoves
  <2> QED
    BY <1>1, <2>1 DEF NodeMoves, Agreed, Served
<1>2. ASSUME UNCHANGED <<mqtt, broker>>, toNode' \subseteq toNode PROVE Agreed'
  BY <1>2 DEF Agreed, Served
<1>3. CASE NodeReset
  <2>1. Table(mqtt', broker)
    BY <1>3 DEF NodeReset, Zeroed, Table
  <2> QED
    BY <1>3, <2>1 DEF NodeReset, net, Agreed, Served
<1>4. ASSUME NEW reply, Answer(reply), UNCHANGED mqtt, reply.type \notin {"SUBACK", "PUBLISH"},
             broker'.up = broker.up, broker'.subs = broker.subs, broker'.ids = broker.ids
      PROVE  Agreed'
  <2>1. toNode' \subseteq toNode \cup {reply}
    BY <1>0, <1>4, Answered
  <2>2. Lasts
    BY <1>4 DEF Lasts, Agreed
  <2> QED
    BY <1>4, <2>1, <2>2, BrokerAgrees
<1>5. ASSUME NEW d \in toBroker, BrokerHandles(d) PROVE Agreed'
  <2>1. CASE BrokerConnects(d)
    <3>1. broker'.up = broker.up /\ broker'.subs = broker.subs /\ broker'.ids = broker.ids
      BY <1>0, <2>1 DEF BrokerConnects, Brokers
    <3> QED
      BY <1>4, <2>1, <3>1, PlainAnswers DEF BrokerConnects, BrokerTakes, BrokerStep
  <2>2. CASE BrokerRejects(d)
    BY <1>4, <2>2, PlainAnswers DEF BrokerRejects, BrokerTakes, BrokerStep
  <2>3. CASE BrokerSubscribes(d)
    BY <2>3, SubscribeAgrees
  <2>4. CASE BrokerAnswersPing(d)
    BY <1>4, <2>4, PlainAnswers DEF BrokerAnswersPing, BrokerTakes, BrokerStep
  <2>5. CASE BrokerIgnores(d)
    BY <1>2, <2>5 DEF BrokerIgnores, BrokerStep
  <2> QED
    BY <1>5, <2>1, <2>2, <2>3, <2>4, <2>5 DEF BrokerHandles
<1>6. ASSUME NEW t \in Topics, BrokerPublishes(t) PROVE Agreed'
  <2>1. PICK f \in PublishFlags, n \in MsgIds : Answer(Received("PUBLISH", 0, broker.ids[t], f, n))
    BY <1>6 DEF BrokerPublishes
  <2>2. toNode' \subseteq toNode \cup {Received("PUBLISH", 0, broker.ids[t], f, n)}
    BY <1>0, <2>1, Answered
  <2>3. t = TempTopic /\ t \in broker.subs /\ UNCHANGED <<mqtt, broker>>
    BY <1>6, OnlyTopic DEF BrokerPublishes, BrokerStep
  <2>4. Lasts
    BY <2>3 DEF Lasts, Agreed
  <2>5. Received("PUBLISH", 0, broker.ids[t], f, n).id = broker.ids[t]
    BY DEF Received
  <2> QED
    BY <2>2, <2>3, <2>4, <2>5, BrokerAgrees
<1>7. CASE BrokerPings
  BY <1>4, <1>7, PlainAnswers DEF BrokerPings, BrokerStep
<1>8. CASE BrokerStops \/ BrokerStarts
  <2>1. broker'.subs = broker.subs /\ broker'.ids = broker.ids /\ BrokerFails
    BY <1>0, <1>8, RestartLasts DEF Alone, Agreed
  <2>2. UNCHANGED <<mqtt, toNode>>
    BY <1>8 DEF BrokerStops, BrokerStarts, BrokerStep
  <2> QED
    BY <2>1, <2>2 DEF Agreed, Served, Table
<1>9. ASSUME NEW m \in toNode, NodeDeaf(m) PROVE Agreed'
  BY <1>2, <1>9 DEF NodeDeaf
<1>10. CASE UNCHANGED netVars
  BY <1>2, <1>10 DEF netVars
<1> QED
  BY <1>1, <1>3, <1>5, <1>6, <1>7, <1>8, <1>9, <1>10, NodeSteps DEF NetNext, OtherStep

LEMMA AgreedInit == NetInit => Agreed
<1> SUFFICES ASSUME NetInit PROVE Agreed
  OBVIOUS
<1>1. broker.up
  BY DEF NetInit, Forgotten
<1> QED
  BY <1>1 DEF NetInit, Init, Zeroed, Agreed, Served, Table

---------------------------------------------------------------------------
(* What the client and the broker are told.                                *)

LEMMA MinOfZero ==
  ASSUME NEW S \in SUBSET Nat, 0 \in S
  PROVE  Min(S) = 0
<1>1. PICK x \in S : \A y \in S : x <= y
  BY LeastExists
<1>2. x = 0
  BY <1>1
<1>3. \A z \in S : (\A y \in S : z <= y) => z = 0
  OBVIOUS
<1> QED
  BY <1>1, <1>2, <1>3 DEF Min

\* Every step but the node's own is silent.
LEMMA OthersSilent ==
  ASSUME NetNext
  PROVE  NodeMoves \/ Idle
<1>1. ASSUME NEW d \in toBroker, BrokerHandles(d) PROVE Idle
  BY <1>1 DEF BrokerHandles, BrokerConnects, BrokerRejects, BrokerSubscribes, BrokerAnswersPing,
     BrokerIgnores, BrokerTakes, BrokerStep
<1> QED
  BY <1>1, NodeSteps DEF NetNext, OtherStep, NodeDeaf, NodeReset, BrokerPublishes, BrokerPings,
     BrokerStops, BrokerStarts, BrokerStep

\* A PUBLISH that was not posted just now.
LEMMA NotPublished ==
  /\ NoEvent.type # "PUBLISH"
  /\ \A name : [type |-> "CONNECTED", topic |-> name].type # "PUBLISH"
  /\ \A name : [type |-> "DISCONNECTED", topic |-> name].type # "PUBLISH"
  BY DEF NoEvent

\* Of what the node handles, only a PUBLISH is posted as one.
LEMMA OnlyPublishPosts ==
  ASSUME NodeActs, posted'.type = "PUBLISH"
  PROVE  \E m \in toNode : HandlePublish(m)
<1>1. ASSUME Connect(TRUE) \/ PeriodicTimer \/ (\E t \in AppTopics : AppSubscribe(t)) PROVE FALSE
  BY <1>1, NotPublished DEF Connect, PeriodicTimer, TimerReconnect, TimerDisconnect, TimerPublish,
     AppSubscribe
<1>2. ASSUME NEW m \in toNode, HandleInput(m) PROVE HandlePublish(m)
  BY <1>2, NotPublished DEF HandleInput, HandleConnackAccepted, HandleConnackRejected,
     HandlePingreq, HandlePingresp, HandleSuback, HandleSubackUnexpected,
     HandlePublishUnmatched, HandleOther, Idle
<1> QED
  BY <1>1, <1>2 DEF NodeActs

\* The PUBACK has the two octets of the topic id one place late.
LEMMA PubackRepeatsId ==
  ASSUME NEW m \in Inbound
  PROVE  <<PubackDatagram(m).id[2], PubackDatagram(m).mid[1]>> = m.id
<1>1. m.id \in Octet \X Octet
  BY InboundType DEF Uint16
<1> QED
  BY <1>1 DEF PubackDatagram

LEMMA DeliveredStep ==
  ASSUME NetInv, Agreed, NetNext
  PROVE  DeliveredUnderName'
<1>1. CASE Idle
  BY <1>1, NotPublished DEF Idle, DeliveredUnderName
<1>2. ASSUME NodeMoves PROVE DeliveredUnderName'
  <2>1. ASSUME NEW m \in toNode, HandlePublish(m) PROVE DeliveredUnderName'
    <3>1. TempTopic \in broker.subs /\ m.id = broker.ids[TempTopic]
      BY <2>1 DEF HandlePublish, Receives, Agreed, Served
    <3>2. mqtt \in Handler
      BY DEF NetInv, Inv, TypeOK
    <3>3. mqtt.nb_topics \in Nat /\ mqtt.nb_topics > 0
      BY <2>1, <3>2, SlotFacts DEF HandlePublish, Matches
    <3>4. 0 \in Matches(mqtt, m.id) /\ Matches(mqtt, m.id) \in SUBSET Nat
      BY <3>1, <3>3 DEF Matches, Agreed, Table
    <3>5. mqtt.topics[0].name = TempTopic
      BY <3>3 DEF Agreed, Table
    <3>6. posted'.topic = TempTopic
      BY <2>1, <3>4, <3>5, MinOfZero DEF HandlePublish
    <3>7. \A d \in sent' : <<d.id[2], d.mid[1]>> = m.id
      BY <2>1, PubackRepeatsId DEF HandlePublish, NetInv
    <3> QED
      BY <1>2, <3>1, <3>6, <3>7 DEF NodeMoves, DeliveredUnderName
  <2>2. ASSUME posted'.type # "PUBLISH" PROVE DeliveredUnderName'
    BY <2>2 DEF DeliveredUnderName
  <2> QED
    BY <1>2, <2>1, <2>2, OnlyPublishPosts DEF NodeMoves
<1> QED
  BY <1>1, <1>2, OthersSilent

\* The client gets a PUBLISH under the name the broker published it on, although
\* blank entries with the same id may stand in topics[].
THEOREM DeliveriesNamed ==
  ASSUME Alone
  PROVE  NetSpec => []DeliveredUnderName
<1>1. NetInit => DeliveredUnderName
  BY NotPublished DEF NetInit, Init, DeliveredUnderName
<1>2. DeliveredUnderName /\ UNCHANGED netVars => DeliveredUnderName'
  BY DEF netVars, DeliveredUnderName
<1>3. NetInv /\ Agreed /\ DeliveredUnderName /\ [NetNext]_netVars => DeliveredUnderName'
  BY <1>2, DeliveredStep
<1>4. NetInv /\ Agreed /\ [NetNext]_netVars => Agreed'
  BY AgreedStep
<1> QED
  BY <1>1, <1>3, <1>4, NetInvInit, NetInvStep, AgreedInit, PTL DEF NetSpec

\* Ids of one octet.
Short == \A id \in TopicIds : id[1] = 0

\* The id mqtt_msg_publish finds for the node's topic.
LEMMA PublishIdFound ==
  ASSUME Short, NEW h \in Handler, NEW b \in Brokers, Table(h, b),
         TempTopic \in b.subs => b.ids[TempTopic] \in TopicIds
  PROVE  PublishId(h, TempTopic) = IF Registered(h, TempTopic) THEN b.ids[TempTopic] ELSE Zero
<1> DEFINE S == {i \in 0 .. h.nb_topics - 1 : h.topics[i].name = TempTopic}
<1>1. CASE S = {}
  BY <1>1 DEF PublishId, Registered
<1>2. CASE S # {}
  <2>1. Max(S) \in S
    BY <1>2, SlotFacts, MaxInSet
  <2>2. h.topics[Max(S)].id = WireId(b.ids[TempTopic]) /\ TempTopic \in b.subs
    BY <2>1 DEF Table
  <2>3. b.ids[TempTopic] \in Octet \X Octet /\ b.ids[TempTopic][1] = 0
    BY <2>2, WireAssumption DEF Short, Uint16
  <2>4. <<0, WireId(b.ids[TempTopic])[2]>> = b.ids[TempTopic]
    BY <2>3 DEF WireId
  <2>5. Registered(h, TempTopic)
    BY <1>2 DEF Registered
  <2> QED
    BY <1>2, <2>2, <2>4, <2>5 DEF PublishId
<1> QED
  BY <1>1, <1>2

LEMMA PublishStep ==
  ASSUME Alone, Short, NetInv, Agreed, NetNext
  PROVE  PublishUnderOwnId'
<1>1. ASSUME \A d \in sent' : d.type # "PUBLISH" PROVE PublishUnderOwnId'
  BY <1>1 DEF PublishUnderOwnId
<1>2. CASE Idle
  BY <1>1, <1>2 DEF Idle
<1>3. ConnectDatagram.type = "CONNECT" /\ \A m, type : PingDatagram(m, type).type = type
  BY DEF ConnectDatagram, PingDatagram, Bare
<1>4. CASE NodeMoves
  <2>1. NetInv'
    BY <1>4, NodeKeeps
  <2>2. mqtt' \in Handler
    BY <2>1 DEF NetInv, Inv, TypeOK
  <2>3. ASSUME NEW m \in toNode, HandleInput(m) PROVE \A d \in sent' : d.type # "PUBLISH"
    <3>1. ASSUME NEW t \in AppTopics \cup {NoName}, HandleConnackAccepted(m, t)
          PROVE  \A d \in sent' : d.type # "PUBLISH"
      <4>1. \A h, u, d : d \in SubscribeDatagrams(h, u) => d.type = "SUBSCRIBE"
        BY DEF SubscribeDatagrams, Bare
      <4> QED
        BY <3>1, <4>1 DEF HandleConnackAccepted
    <3>2. ASSUME HandlePingreq(m) PROVE \A d \in sent' : d.type # "PUBLISH"
      BY <1>3, <3>2 DEF HandlePingreq
    <3>3. ASSUME HandlePublish(m) PROVE \A d \in sent' : d.type # "PUBLISH"
      BY <3>3 DEF HandlePublish, PubackDatagram
    <3>4. ASSUME Idle PROVE \A d \in sent' : d.type # "PUBLISH"
      BY <3>4 DEF Idle
    <3> QED
      BY <2>3, <3>1, <3>2, <3>3, <3>4
      DEF HandleInput, HandleConnackRejected, HandlePingresp, HandleSuback,
          HandleSubackUnexpected, HandlePublishUnmatched, HandleOther
  <2>4. ASSUME Connect(TRUE) \/ TimerReconnect \/ TimerDisconnect
        PROVE  \A d \in sent' : d.type # "PUBLISH"
    BY <1>3, <2>4 DEF Connect, TimerReconnect, TimerDisconnect, Transmit
  <2>5. ASSUME NEW dlen \in TemperatureLens, TimerPublish(dlen) PROVE PublishUnderOwnId'
    <3>1. \A d \in sent' : d = PublishDatagram(mqtt', TempTopic, dlen) \/ d = PingDatagram(mqtt', "PINGREQ")
      BY <2>5 DEF TimerPublish, Transmit
    <3>2. PublishDatagram(mqtt', TempTopic, dlen).id = PublishId(mqtt', TempTopic)
      BY DEF PublishDatagram, Bare
    <3>3. Table(mqtt', broker) /\ broker' = broker
      BY <1>4, NodeTable DEF NodeMoves
    <3>4. PublishId(mqtt', TempTopic)
            = IF Registered(mqtt', TempTopic) THEN broker.ids[TempTopic] ELSE Zero
      BY <2>2, <3>3, PublishIdFound DEF NetInv, BrokerInv
    <3> QED
      BY <1>3, <3>1, <3>2, <3>3, <3>4 DEF PublishUnderOwnId
  <2> QED
    BY <1>1, <1>4, <2>3, <2>4, <2>5 DEF NodeMoves, NodeActs, PeriodicTimer, Alone
<1> QED
  BY <1>2, <1>4, OthersSilent

\* A reading goes out under the broker's id of its topic, or under 0 before the
\* topic is registered, as long as ids fit the octet mqtt_msg_publish keeps.
THEOREM ReadingsUnderOwnId ==
  ASSUME Alone, Short
  PROVE  NetSpec => []PublishUnderOwnId
<1>1. NetInit => PublishUnderOwnId
  BY DEF NetInit, Init, PublishUnderOwnId
<1>2. PublishUnderOwnId /\ UNCHANGED netVars => PublishUnderOwnId'
  BY DEF netVars, PublishUnderOwnId
<1>3. NetInv /\ Agreed /\ PublishUnderOwnId /\ [NetNext]_netVars => PublishUnderOwnId'
  BY <1>2, PublishStep
<1>4. NetInv /\ Agreed /\ [NetNext]_netVars => Agreed'
  BY AgreedStep
<1> QED
  BY <1>1, <1>3, <1>4, NetInvInit, NetInvStep, AgreedInit, PTL DEF NetSpec

---------------------------------------------------------------------------
(* A patient client, with answers on time and none repeated.               *)

\* The client may have any topics, and broker and node may restart.
Orderly == Timely /\ ~Duplicates /\ Patient

\* topics[] has room for all that is ever subscribed to.
Roomy == IsFiniteSet(Topics) /\ Cardinality(Topics) <= NB_TOPICS

Opens(d) == d.type \in {"CONNECT", "SUBSCRIBE"}
Replies(m) == m.type \in {"CONNACK", "SUBACK"}

\* At most one message of a handshake is under way.
OneAtATime ==
  /\ \A d, e \in toBroker : Opens(d) /\ Opens(e) => d = e
  /\ \A m, n \in toNode : Replies(m) /\ Replies(n) => m = n
  /\ \A d \in toBroker, m \in toNode : ~(Opens(d) /\ Replies(m))

\* Nothing of a session's own handshake is left once the session has begun: no
\* CONNACK comes between a SUBSCRIBE of the client and its answer.
Hushed ==
  mqtt.state = "CONNECTED" =>
    /\ \A d \in toBroker : d.type # "CONNECT"
    /\ \A m \in toNode : m.type # "CONNACK"

Waits(name) == mqtt.nb_topics < NB_TOPICS /\ mqtt.topics[mqtt.nb_topics].name = name

\* A subscription under way is that of the name in the slot that waits, unless the
\* node has reset.
Waiting ==
  running =>
    /\ \A d \in toBroker : d.type = "SUBSCRIBE" => Waits(d.topic)
    /\ (\E m \in toNode : m.type = "SUBACK") => \E t \in Topics : Waits(t)

Named(h) == \A i \in 0 .. h.nb_topics - 1 : h.topics[i].name \in Topics

Exact == OneAtATime /\ Hushed /\ Waiting /\ Named(mqtt) /\ (Roomy => ~mqtt.overrun)

\* A full table with room for every topic has every topic: nothing overruns it.
LEMMA FullTable ==
  ASSUME Roomy, NEW h \in Handler, Named(h), Distinct(h), h.nb_topics = NB_TOPICS,
         NEW t \in Topics
  PROVE  Registered(h, t)
<1> SUFFICES ASSUME ~Registered(h, t) PROVE FALSE
  OBVIOUS
<1> DEFINE others == Topics \ {t}
           name == [i \in Slots |-> h.topics[i].name]
<1>1. Slots = 0 .. NB_TOPICS - 1 /\ NB_TOPICS \in Nat /\ 0 \in Int /\ NB_TOPICS - 1 \in Int
  BY TopicsAssumption DEF Slots
<1>2. IsFiniteSet(Slots) /\ Cardinality(Slots) = NB_TOPICS
  <2>1. NB_TOPICS > 0
    BY TopicsAssumption
  <2> QED
    BY <1>1, <2>1, FS_Interval
<1>3. IsFiniteSet(others) /\ Cardinality(others) = Cardinality(Topics) - 1
  BY FS_RemoveElement DEF Roomy
<1>4. Cardinality(Topics) \in Nat /\ Cardinality(Topics) <= NB_TOPICS
  BY FS_CardinalityType DEF Roomy
<1>5. Cardinality(others) < Cardinality(Slots)
  BY <1>1, <1>2, <1>3, <1>4
<1>6. name \in [Slots -> others]
  BY <1>1 DEF Named, Registered
<1>7. PICK i, j \in Slots : i # j /\ name[i] = name[j]
  <2> HIDE DEF others, name
  <2> QED
    BY <1>2, <1>3, <1>5, <1>6, FS_PigeonHole
<1>8. h.topics[i].name = h.topics[j].name /\ h.topics[i].name # NoName
  BY <1>6, <1>7, NamesAssumption
<1> QED
  BY <1>7, <1>8 DEF Distinct

---------------------------------------------------------------------------
(* What one step does to the handshakes and the table.                     *)

\* What is registered stays, or all of it goes.
Lasting ==
  \/ mqtt'.nb_topics = 0
  \/ /\ mqtt'.nb_topics = mqtt.nb_topics
     /\ \A i \in 0 .. mqtt.nb_topics - 1 : mqtt'.topics[i] = mqtt.topics[i]

\* Nothing new is asked or answered, and a node that runs keeps its table.
Quiet ==
  /\ Lasting /\ (mqtt'.overrun => mqtt.overrun)
  /\ mqtt'.state = "CONNECTED" => mqtt.state = "CONNECTED"
  /\ running' => running /\ mqtt'.topics = mqtt.topics /\ mqtt'.nb_topics = mqtt.nb_topics
  /\ \A d \in toBroker' : Opens(d) => d \in toBroker
  /\ \A m \in toNode' : Replies(m) => m \in toNode

\* The node sends what it may, and nothing of a handshake was under way.
Opening ==
  /\ Lasting /\ (Roomy => ~mqtt'.overrun)
  /\ mqtt'.state = "CONNECTED" => \A d \in sent' : d.type # "CONNECT"
  /\ running' => \A d \in sent' : d.type = "SUBSCRIBE" => Waits(d.topic)'
  /\ \A d, e \in sent' : Opens(d) /\ Opens(e) => d = e
  /\ \A d \in toBroker' : Opens(d) => d \in sent'
  /\ \A m \in toNode' : ~Replies(m)

\* A SUBACK registers the name that waited.
Registers(id) ==
  /\ mqtt.nb_topics < NB_TOPICS /\ mqtt'.nb_topics = mqtt.nb_topics + 1
  /\ mqtt'.topics[mqtt.nb_topics]
       = [name |-> mqtt.topics[mqtt.nb_topics].name, id |-> WireId(id)]
  /\ \A i \in 0 .. mqtt.nb_topics - 1 : mqtt'.topics[i] = mqtt.topics[i]
  /\ mqtt'.overrun = mqtt.overrun
  /\ \A d \in toBroker' : ~Opens(d)
  /\ \A m \in toNode' : ~Replies(m)

\* The broker answers the one message of a handshake it takes.
Replied(d, reply) ==
  /\ UNCHANGED <<running, mqtt>>
  /\ Opens(d) /\ Replies(reply) /\ toBroker' = toBroker \ {d}
  /\ toNode' \subseteq toNode \cup {reply}
  /\ d.type = "SUBSCRIBE" <=> reply.type = "SUBACK"

LEMMA LastingNamed ==
  ASSUME mqtt \in Handler, Named(mqtt), Lasting
  PROVE  Named(mqtt')
<1>1. CASE mqtt'.nb_topics = 0
  BY <1>1 DEF Named
<1>2. CASE mqtt'.nb_topics # 0
  BY <1>2 DEF Named, Lasting
<1> QED
  BY <1>1, <1>2

LEMMA ExactQuiet ==
  ASSUME mqtt \in Handler, Exact, Quiet
  PROVE  Exact'
<1>1. OneAtATime' /\ Hushed'
  BY DEF Exact, Quiet, OneAtATime, Hushed, Opens, Replies
<1>2. Waiting'
  BY DEF Exact, Quiet, Waiting, Waits, Opens, Replies
<1>3. Named(mqtt)'
  BY LastingNamed DEF Exact, Quiet, Named
<1> QED
  BY <1>1, <1>2, <1>3 DEF Exact, Quiet

LEMMA ExactOpening ==
  ASSUME mqtt \in Handler, Exact, Opening
  PROVE  Exact'
<1>1. OneAtATime' /\ Hushed'
  BY DEF Opening, OneAtATime, Hushed, Opens, Replies
<1>2. Waiting'
  BY DEF Opening, Waiting, Opens, Replies
<1>3. Named(mqtt)'
  BY LastingNamed DEF Exact, Opening, Named
<1> QED
  BY <1>1, <1>2, <1>3 DEF Exact, Opening

LEMMA ExactRegisters ==
  ASSUME mqtt \in Handler, Exact, NEW id, Registers(id),
         mqtt.topics[mqtt.nb_topics].name \in Topics
  PROVE  Exact'
<1>1. OneAtATime' /\ Hushed' /\ Waiting'
  BY DEF Registers, OneAtATime, Hushed, Waiting, Opens, Replies
<1>2. Named(mqtt)'
  <2>1. mqtt.nb_topics \in Nat
    BY SlotFacts
  <2>2. \A i \in 0 .. mqtt'.nb_topics - 1 : i = mqtt.nb_topics \/ i \in 0 .. mqtt.nb_topics - 1
    BY <2>1 DEF Registers
  <2> QED
    BY <2>2 DEF Exact, Registers, Named
<1> QED
  BY <1>1, <1>2 DEF Exact, Registers

LEMMA ExactReplied ==
  ASSUME Exact, Asks(toBroker), NEW d \in toBroker, NEW reply, Replied(d, reply)
  PROVE  Exact'
<1>1. /\ \A e \in toBroker' : ~Opens(e)
      /\ \A m \in toNode' : Replies(m) => m = reply
  BY DEF Exact, OneAtATime, Replied
<1>2. OneAtATime'
  BY <1>1 DEF OneAtATime
<1>3. Hushed'
  BY <1>1 DEF Exact, Hushed, Replied, Opens, Replies
<1>4. Waiting'
  BY <1>1 DEF Exact, Waiting, Waits, Replied, Opens, Replies, Asks
<1> QED
  BY <1>2, <1>3, <1>4 DEF Exact, Replied, Named

---------------------------------------------------------------------------
(* Each step is one of these.                                              *)

\* What mqtt_subscribe asks for waits in the next slot, and a table with room for
\* every topic is not overrun.
LEMMA SubscribeAsked ==
  ASSUME NEW h \in Handler, NEW t \in Names, Fresh(h), Distinct(h), Named(h)
  PROVE  LET s == Subscribe(h, t)
         IN  /\ s.nb_topics = h.nb_topics /\ s.state = h.state
             /\ \A i \in 0 .. h.nb_topics - 1 : s.topics[i] = h.topics[i]
             /\ Roomy /\ ~h.overrun => ~s.overrun
             /\ \A d \in SubscribeDatagrams(h, t) :
                  /\ d.type = "SUBSCRIBE" /\ d.topic = t
                  /\ d = [Bare("SUBSCRIBE", TopicLen + 5, TopicLen + 5) EXCEPT !.topic = t]
                  /\ h.nb_topics < NB_TOPICS /\ s.topics[h.nb_topics].name = t
<1> DEFINE s == Subscribe(h, t)
<1>1. /\ s.nb_topics = h.nb_topics /\ s.state = h.state
      /\ \A i \in 0 .. h.nb_topics - 1 : s.topics[i] = h.topics[i]
  BY SubscribeEffect
<1>2. Roomy /\ ~h.overrun => ~s.overrun
  <2>1. CASE Subscribes(h, t) /\ h.nb_topics = NB_TOPICS
    BY <2>1, FullTable DEF Subscribes, Names
  <2>2. CASE ~(Subscribes(h, t) /\ h.nb_topics = NB_TOPICS)
    BY <2>2 DEF Subscribe, Handler
  <2> QED
    BY <2>1, <2>2
<1>3. ASSUME NEW d \in SubscribeDatagrams(h, t)
      PROVE  /\ d.type = "SUBSCRIBE" /\ d.topic = t
             /\ d = [Bare("SUBSCRIBE", TopicLen + 5, TopicLen + 5) EXCEPT !.topic = t]
             /\ h.nb_topics < NB_TOPICS /\ s.topics[h.nb_topics].name = t
  <2>1. Subscribes(h, t) /\ h.nb_topics < NB_TOPICS
    BY <1>3 DEF SubscribeDatagrams
  <2>2. h.nb_topics \in Slots /\ h.topics \in [Slots -> Entry] /\ h.nb_topics # NB_TOPICS
    BY <2>1, TopicsAssumption, SlotFacts DEF Handler
  <2>3. s.topics = [h.topics EXCEPT ![h.nb_topics].name = t]
    BY <2>1, <2>2 DEF Subscribe, Handler
  <2>4. s.topics[h.nb_topics].name = t
    BY <2>2, <2>3 DEF Entry
  <2>5. d = [Bare("SUBSCRIBE", TopicLen + 5, TopicLen + 5) EXCEPT !.topic = t]
    BY <2>1 DEF SubscribeDatagrams
  <2> QED
    BY <2>1, <2>4, <2>5 DEF Bare
<1> QED
  BY <1>1, <1>2, <1>3

LEMMA ConnectOpens ==
  ASSUME Orderly, NetInv, NodeConnect
  PROVE  Opening
<1>1. /\ mqtt'.nb_topics = 0 /\ ~mqtt'.overrun
      /\ mqtt'.state # "CONNECTED"
  BY DEF NodeConnect, Connect, Start, BuildConnect, NetInv, Unstarted, Zeroed
<1>2. ConnectDatagram.type = "CONNECT" /\ \A d \in sent' : d = ConnectDatagram
  BY DEF NodeConnect, Connect, Transmit, ConnectDatagram, Bare
<1>3. /\ \A d \in toBroker' : Opens(d) => d \in sent'
      /\ \A m \in toNode' : ~Replies(m)
  BY DEF NodeConnect, OnTime, Orderly, NodeSends, Carry, Pending, Opens, Replies
<1> QED
  BY <1>1, <1>2, <1>3 DEF Opening, Lasting

LEMMA TimerOpens ==
  ASSUME Orderly, NetInv, Exact, NodeTimer
  PROVE  Opening
<1>0. mqtt \in Handler
  BY DEF NetInv, Inv, TypeOK
<1>1. /\ mqtt'.topics = mqtt.topics /\ mqtt'.nb_topics = mqtt.nb_topics
      /\ mqtt'.overrun = mqtt.overrun
  BY <1>0 DEF NodeTimer, PeriodicTimer, TimerReconnect, BuildConnect, TimerDisconnect,
     TimerPublish, BuildPublish, Handler
<1>2. /\ ConnectDatagram.type = "CONNECT"
      /\ \A m, type : PingDatagram(m, type).type = type
      /\ \A m, t, dlen : PublishDatagram(m, t, dlen).type = "PUBLISH"
  BY DEF ConnectDatagram, PingDatagram, PublishDatagram, Bare
<1>3. \A d \in sent' : d.type # "SUBSCRIBE" /\ (Opens(d) => d = ConnectDatagram)
  BY <1>2 DEF NodeTimer, PeriodicTimer, TimerReconnect, TimerDisconnect, TimerPublish,
     Transmit, Opens
<1>4. mqtt'.state = "CONNECTED" => \A d \in sent' : d.type # "CONNECT"
  BY <1>0, <1>2 DEF NodeTimer, PeriodicTimer, TimerReconnect, BuildConnect, TimerDisconnect,
     TimerPublish, Transmit, Handler
<1>5. /\ \A d \in toBroker' : Opens(d) => d \in sent'
      /\ \A m \in toNode' : ~Replies(m)
  BY DEF NodeTimer, OnTime, Orderly, NodeSends, Carry, Pending, Opens, Replies
<1> QED
  BY <1>1, <1>3, <1>4, <1>5 DEF Opening, Lasting, Exact

LEMMA SubscribesOpens ==
  ASSUME Orderly, NetInv, Exact, NEW t \in AppTopics, NodeSubscribes(t)
  PROVE  Opening \/ Quiet
<1>0. /\ mqtt \in Handler /\ Fresh(mqtt) /\ Distinct(mqtt) /\ Named(mqtt) /\ t \in Names
      /\ (Roomy => ~mqtt.overrun)
  BY NamesFacts DEF NetInv, Inv, TypeOK, RegistryInv, Exact
<1>1. mqtt' = Subscribe(mqtt, t) /\ sent' \subseteq SubscribeDatagrams(mqtt, t)
  BY DEF NodeSubscribes, AppSubscribe, Transmit
<1>2. /\ mqtt'.nb_topics = mqtt.nb_topics
      /\ \A i \in 0 .. mqtt.nb_topics - 1 : mqtt'.topics[i] = mqtt.topics[i]
      /\ Roomy => ~mqtt'.overrun
      /\ \A d \in SubscribeDatagrams(mqtt, t) :
           /\ d.type = "SUBSCRIBE" /\ d.topic = t
           /\ d = [Bare("SUBSCRIBE", TopicLen + 5, TopicLen + 5) EXCEPT !.topic = t]
           /\ mqtt.nb_topics < NB_TOPICS /\ mqtt'.topics[mqtt.nb_topics].name = t
  BY <1>0, <1>1, SubscribeAsked
<1>3. CASE mqtt.state = "CONNECTED"
  <2>1. /\ \A d \in toBroker : ~Opens(d)
        /\ \A m \in toNode : ~Replies(m)
    BY <1>3 DEF Exact, Hushed, NodeSubscribes, SubscriptionUnderWay, Orderly, Opens, Replies
  <2>2. /\ \A d \in toBroker' : Opens(d) => d \in sent'
        /\ \A m \in toNode' : ~Replies(m)
    BY <2>1 DEF NodeSubscribes, NodeSends, Carry
  <2> QED
    BY <1>1, <1>2, <2>2 DEF Opening, Lasting, Waits
<1>4. CASE mqtt.state # "CONNECTED"
  <2>1. SubscribeDatagrams(mqtt, t) = {} /\ mqtt' = mqtt
    BY <1>1, <1>4 DEF SubscribeDatagrams, Subscribe, Subscribes
  <2>2. toBroker' = toBroker /\ toNode' = toNode /\ running' = running
    BY <1>1, <2>1 DEF NodeSubscribes, NodeSends, Carry, AppSubscribe, Runs
  <2> QED
    BY <2>1, <2>2 DEF Quiet, Lasting
<1> QED
  BY <1>3, <1>4

LEMMA AcceptedOpens ==
  ASSUME Orderly, NetInv, Exact, NEW m \in toNode, NEW t \in AppTopics \cup {NoName},
         HandleConnackAccepted(m, t), NodeSends, toNode' = toNode \ {m},
         \A d \in sent' : d.type = "SUBSCRIBE" => d.topic = TempTopic
  PROVE  Opening
<1> DEFINE up  == [mqtt EXCEPT !.state = "CONNECTED", !.keepalive_error = 0]
           app == Subscribe(up, t)
           ask == [Bare("SUBSCRIBE", TopicLen + 5, TopicLen + 5) EXCEPT !.topic = TempTopic]
<1>0. /\ mqtt \in Handler /\ Fresh(mqtt) /\ Distinct(mqtt) /\ Named(mqtt)
      /\ (Roomy => ~mqtt.overrun)
      /\ t \in Names /\ TempTopic \in Names
  BY NamesFacts DEF NetInv, Inv, TypeOK, RegistryInv, Exact
<1>1. /\ up \in Handler /\ up.topics = mqtt.topics /\ up.nb_topics = mqtt.nb_topics
      /\ up.overrun = mqtt.overrun /\ up.state = "CONNECTED"
  <2>1. 0 \in 0 .. MAX_KEEPALIVE_ERROR
    BY KeepaliveAssumption
  <2> QED
    BY <1>0, <2>1 DEF Handler, States
<1>2. Fresh(up) /\ Distinct(up) /\ Named(up)
  BY <1>0, <1>1 DEF Fresh, Distinct, Named
<1>3. mqtt' = Subscribe(app, TempTopic)
      /\ sent' = SubscribeDatagrams(up, t) \cup SubscribeDatagrams(app, TempTopic)
  BY DEF HandleConnackAccepted
<1> HIDE DEF up
<1>4. /\ app \in Handler /\ Fresh(app) /\ Distinct(app)
  BY <1>0, <1>1, <1>2, SubscribeType, SubscribeEffect
<1>5. /\ app.nb_topics = mqtt.nb_topics /\ app.state = "CONNECTED"
      /\ \A i \in 0 .. mqtt.nb_topics - 1 : app.topics[i] = mqtt.topics[i]
      /\ Roomy => ~app.overrun
      /\ \A d \in SubscribeDatagrams(up, t) :
           d.type = "SUBSCRIBE" /\ d.topic = t /\ mqtt.nb_topics < NB_TOPICS
  BY <1>0, <1>1, <1>2, SubscribeAsked
<1>6. Named(app)
  BY <1>0, <1>5 DEF Named
<1>7. SubscribeDatagrams(up, t) # {} => SubscribeDatagrams(app, TempTopic) # {}
  <2> SUFFICES ASSUME NEW d \in SubscribeDatagrams(up, t)
               PROVE  SubscribeDatagrams(app, TempTopic) # {}
    OBVIOUS
  <2>1. t = TempTopic
    BY <1>3, <1>5
  <2>2. Subscribes(up, t) /\ up.nb_topics < NB_TOPICS
    BY DEF SubscribeDatagrams
  <2>3. ~Registered(app, TempTopic)
    BY <1>1, <1>5, <2>1, <2>2 DEF Subscribes, Registered
  <2>4. up.nb_topics # NB_TOPICS
    BY <1>1, <2>2, TopicsAssumption DEF Handler
  <2>5. ~app.overrun
    BY <1>1, <2>2, <2>4 DEF Subscribe, Subscribes, Handler
  <2>6. Subscribes(app, TempTopic)
    BY <1>5, <2>1, <2>2, <2>3, <2>5 DEF Subscribes
  <2> QED
    BY <1>1, <1>5, <2>2, <2>6 DEF SubscribeDatagrams
<1> HIDE DEF app
<1>8. /\ mqtt'.nb_topics = mqtt.nb_topics
      /\ \A i \in 0 .. mqtt.nb_topics - 1 : mqtt'.topics[i] = mqtt.topics[i]
      /\ Roomy => ~mqtt'.overrun
      /\ \A d \in SubscribeDatagrams(app, TempTopic) :
           /\ d.type = "SUBSCRIBE" /\ d = ask
           /\ mqtt.nb_topics < NB_TOPICS /\ mqtt'.topics[mqtt.nb_topics].name = TempTopic
  BY <1>0, <1>3, <1>4, <1>5, <1>6, SubscribeAsked
<1>9. \A d \in SubscribeDatagrams(up, t) : d = ask
  <2> SUFFICES ASSUME NEW d \in SubscribeDatagrams(up, t) PROVE d = ask
    OBVIOUS
  <2>1. t = TempTopic
    BY <1>3, <1>5
  <2> QED
    BY <2>1, <1>0, <1>1, <1>2, SubscribeAsked
<1>10. ask.type = "SUBSCRIBE" /\ ask.topic = TempTopic
  BY DEF Bare
<1> HIDE DEF ask
<1>11. \A d \in sent' : d = ask /\ Waits(d.topic)'
  BY <1>3, <1>7, <1>8, <1>9, <1>10 DEF Waits
<1>12. Replies(m)
  BY DEF HandleConnackAccepted, Receives, Replies
<1>13. /\ \A d \in toBroker : ~Opens(d)
       /\ \A n \in toNode' : ~Replies(n)
  BY <1>12 DEF Exact, OneAtATime
<1>14. \A d \in toBroker' : Opens(d) => d \in sent'
  BY <1>13 DEF NodeSends, Carry
<1> QED
  BY <1>8, <1>10, <1>11, <1>13, <1>14 DEF Opening, Lasting

LEMMA SubackRegisters ==
  ASSUME Orderly, NetInv, Exact, NEW m \in toNode, HandleSuback(m),
         NodeSends, toNode' = toNode \ {m}
  PROVE  Registers(m.id) /\ \E t \in Topics : Waits(t)
<1>0. mqtt \in Handler
  BY DEF NetInv, Inv, TypeOK
<1>1. m.type = "SUBACK" /\ running
  BY DEF HandleSuback, Receives, Runs
<1>2. PICK t \in Topics : mqtt.nb_topics < NB_TOPICS /\ mqtt.topics[mqtt.nb_topics].name = t
  BY <1>1 DEF Exact, Waiting, Waits
<1> DEFINE n == mqtt.nb_topics
<1>3. n \in Slots /\ n \in Nat /\ mqtt.topics \in [Slots -> Entry] /\ n # NB_TOPICS
  BY <1>0, <1>2, SlotFacts, TopicsAssumption DEF Handler
<1>4. /\ mqtt'.topics = [mqtt.topics EXCEPT ![n].id = WireId(m.id)]
      /\ mqtt'.nb_topics = n + 1 /\ mqtt'.overrun = mqtt.overrun
  BY <1>0, <1>3 DEF HandleSuback, Register, Handler
<1>5. /\ mqtt'.topics[n] = [name |-> mqtt.topics[n].name, id |-> WireId(m.id)]
      /\ \A i \in 0 .. n - 1 : mqtt'.topics[i] = mqtt.topics[i]
  <2>1. \A i \in 0 .. n - 1 : i \in Slots /\ i # n
    BY <1>0, <1>3, SlotFacts
  <2> QED
    BY <1>3, <1>4, <2>1 DEF Entry
<1>6. /\ \A d \in toBroker : ~Opens(d)
      /\ \A k \in toNode' : ~Replies(k)
  BY <1>1 DEF Exact, OneAtATime, Replies
<1>7. toBroker' = toBroker
  BY DEF HandleSuback, Idle, NodeSends, Carry
<1> QED
  BY <1>2, <1>4, <1>5, <1>6, <1>7 DEF Registers, Waits

\* Every other message the node handles.
LEMMA OtherInputQuiet ==
  ASSUME Orderly, NetInv, NEW m \in toNode, NodeHandles(m),
         ~HandleSuback(m), \A t \in AppTopics \cup {NoName} : ~HandleConnackAccepted(m, t)
  PROVE  Quiet
<1>0. mqtt \in Handler
  BY DEF NetInv, Inv, TypeOK
<1>1. toNode' \subseteq toNode /\ NodeSends
  BY DEF NodeHandles, After
<1>2. ASSUME \A d \in sent' : ~Opens(d), Runs, mqtt'.state = mqtt.state,
             mqtt'.topics = mqtt.topics, mqtt'.nb_topics = mqtt.nb_topics,
             mqtt'.overrun = mqtt.overrun
      PROVE  Quiet
  <2>1. \A d \in toBroker' : Opens(d) => d \in toBroker
    BY <1>1, <1>2 DEF NodeSends, Carry
  <2> QED
    BY <1>1, <1>2, <2>1 DEF Runs, Quiet, Lasting
<1>3. ASSUME HandlePingreq(m) PROVE Quiet
  BY <1>2, <1>3 DEF HandlePingreq, PingDatagram, Bare, Opens, Receives
<1>4. ASSUME HandlePublish(m) PROVE Quiet
  <2>1. /\ mqtt'.topics = mqtt.topics /\ mqtt'.nb_topics = mqtt.nb_topics
        /\ mqtt'.overrun = mqtt.overrun /\ mqtt'.state = mqtt.state
    BY <1>0, <1>4 DEF HandlePublish, Handler
  <2> QED
    BY <1>2, <1>4, <2>1 DEF HandlePublish, PubackDatagram, Opens, Receives
<1>5. ASSUME HandlePingresp(m) PROVE Quiet
  <2>1. /\ mqtt'.topics = mqtt.topics /\ mqtt'.nb_topics = mqtt.nb_topics
        /\ mqtt'.overrun = mqtt.overrun /\ mqtt'.state = mqtt.state
    BY <1>0, <1>5 DEF HandlePingresp, Handler
  <2> QED
    BY <1>2, <1>5, <2>1 DEF HandlePingresp, Idle, Receives
<1>6. ASSUME \/ HandleConnackRejected(m) \/ HandleSubackUnexpected(m)
             \/ HandlePublishUnmatched(m) \/ HandleOther(m)
      PROVE  Quiet
  BY <1>2, <1>6 DEF HandleConnackRejected, HandleSubackUnexpected, HandlePublishUnmatched,
     HandleOther, Idle, Receives
<1> QED
  BY <1>3, <1>4, <1>5, <1>6 DEF NodeHandles, HandleInput

\* What the node does, as far as handshakes and table can tell.
LEMMA NodeClassified ==
  ASSUME Orderly, NetInv, Exact, NodeMoves,
         \/ NodeConnect \/ NodeTimer \/ (\E t \in AppTopics : NodeSubscribes(t))
         \/ \E m \in toNode : NodeHandles(m)
  PROVE  \/ Quiet \/ Opening
         \/ \E m \in toNode :
              m.type = "SUBACK" /\ running /\ Registers(m.id) /\ \E t \in Topics : Waits(t)
<1>1. ASSUME NEW m \in toNode, NodeHandles(m)
      PROVE  \/ Quiet \/ Opening
             \/ m.type = "SUBACK" /\ running /\ Registers(m.id) /\ \E t \in Topics : Waits(t)
  <2>1. toNode' = toNode \ {m} /\ NodeSends
        /\ \A d \in sent' : d.type = "SUBSCRIBE" => d.topic = TempTopic
    BY <1>1 DEF NodeHandles, After, Orderly
  <2>2. HandleSuback(m) => m.type = "SUBACK" /\ running
    BY DEF HandleSuback, Receives, Runs
  <2> QED
    BY <1>1, <2>1, <2>2, AcceptedOpens, SubackRegisters, OtherInputQuiet
<1> QED
  BY <1>1, ConnectOpens, TimerOpens, SubscribesOpens

LEMMA ReceivedTypes ==
  \A type, code, id, flags, mid : Received(type, code, id, flags, mid).type = type
  BY DEF Received

\* What the broker does with a datagram it takes.
LEMMA BrokerClassified ==
  ASSUME Orderly, NetInv, NEW d \in toBroker, BrokerHandles(d)
  PROVE  Quiet \/ \E reply : Replied(d, reply)
<1>1. toBroker' = toBroker \ {d} /\ UNCHANGED <<running, mqtt>>
  BY DEF Orderly, BrokerHandles, BrokerConnects, BrokerRejects, BrokerSubscribes,
     BrokerAnswersPing, BrokerIgnores, BrokerTakes, BrokerStep, After
<1>2. ASSUME NEW reply, Answer(reply) PROVE toNode' \subseteq toNode \cup {reply}
  BY <1>2 DEF Answer
<1>3. CASE BrokerConnects(d) \/ BrokerRejects(d)
  BY <1>1, <1>2, <1>3, ReceivedTypes
  DEF BrokerConnects, BrokerRejects, BrokerTakes, Replied, Opens, Replies
<1>4. CASE BrokerSubscribes(d)
  <2>1. PICK id \in TopicIds : Answer(Received("SUBACK", 0, id, 0, Zero))
    BY <1>4 DEF BrokerSubscribes
  <2> QED
    BY <1>1, <1>2, <1>4, <2>1, ReceivedTypes
    DEF BrokerSubscribes, BrokerTakes, Replied, Opens, Replies
<1>5. CASE BrokerAnswersPing(d)
  <2>1. toNode' \subseteq toNode \cup {Received("PINGRESP", 0, Zero, 0, Zero)}
    BY <1>2, <1>5 DEF BrokerAnswersPing
  <2>2. \A m \in toNode' : Replies(m) => m \in toNode
    BY <2>1, ReceivedTypes DEF Replies
  <2> QED
    BY <1>1, <2>2 DEF Quiet, Lasting
<1>6. CASE BrokerIgnores(d)
  BY <1>1, <1>6 DEF BrokerIgnores, Quiet, Lasting
<1> QED
  BY <1>3, <1>4, <1>5, <1>6 DEF BrokerHandles

LEMMA RestQuiet ==
  ASSUME \/ NodeReset \/ BrokerPings \/ BrokerStops \/ BrokerStarts
         \/ (\E m \in toNode : NodeDeaf(m)) \/ (\E t \in Topics : BrokerPublishes(t))
         \/ UNCHANGED netVars
  PROVE  Quiet
<1>1. ASSUME NEW reply, Answer(reply), ~Replies(reply), UNCHANGED <<running, mqtt, toBroker>>
      PROVE  Quiet
  BY <1>1 DEF Answer, Quiet, Lasting
<1>2. CASE NodeReset
  BY <1>2 DEF NodeReset, Zeroed, net, Quiet, Lasting
<1>3. CASE BrokerPings
  BY <1>1, <1>3, ReceivedTypes DEF BrokerPings, BrokerStep, Replies
<1>4. ASSUME NEW t \in Topics, BrokerPublishes(t) PROVE Quiet
  BY <1>1, <1>4, ReceivedTypes DEF BrokerPublishes, BrokerStep, Replies
<1>5. CASE BrokerStops \/ BrokerStarts
  BY <1>5 DEF BrokerStops, BrokerStarts, BrokerStep, Quiet, Lasting
<1>6. ASSUME NEW m \in toNode, NodeDeaf(m) PROVE Quiet
  BY <1>6 DEF NodeDeaf, Quiet, Lasting
<1>7. CASE UNCHANGED netVars
  BY <1>7 DEF netVars, Quiet, Lasting
<1> QED
  BY <1>2, <1>3, <1>4, <1>5, <1>6, <1>7

LEMMA ExactStep ==
  ASSUME Orderly, NetInv, Exact, [NetNext]_netVars
  PROVE  Exact'
<1>0. mqtt \in Handler /\ Asks(toBroker)
  BY DEF NetInv, Inv, TypeOK
<1>1. ASSUME \/ NodeConnect \/ NodeTimer \/ (\E t \in AppTopics : NodeSubscribes(t))
             \/ \E m \in toNode : NodeHandles(m)
      PROVE  Exact'
  BY <1>0, <1>1, NodeSteps, NodeClassified, ExactQuiet, ExactOpening, ExactRegisters DEF Waits
<1>2. ASSUME NEW d \in toBroker, BrokerHandles(d) PROVE Exact'
  BY <1>0, <1>2, BrokerClassified, ExactQuiet, ExactReplied
<1> QED
  BY <1>0, <1>1, <1>2, RestQuiet, ExactQuiet DEF NetNext, OtherStep

\* topics[] is exactly what was subscribed, over losses and restarts of node and
\* broker; it fills, and with room for every topic it is never overrun.
THEOREM TableIsExact ==
  ASSUME Orderly, Roomy
  PROVE  NetSpec => []TableExact
<1>1. NetInit => Exact
  BY DEF NetInit, Init, Zeroed, Exact, OneAtATime, Hushed, Waiting, Named
<1>2. Exact => TableExact
  BY NamesAssumption DEF Exact, TableExact, Entries, Named
<1>3. NetInv /\ Exact /\ [NetNext]_netVars => Exact'
  BY ExactStep
<1> QED
  BY <1>1, <1>2, <1>3, NetInvInit, NetInvStep, PTL DEF NetSpec

---------------------------------------------------------------------------
(* A broker that keeps its ids agrees with a patient client.               *)

Right(e, b) == e.name \in b.subs /\ e.id = WireId(b.ids[e.name])

\* Whatever the broker sends has the id of one of its topics; the answer to a
\* subscription, that of the name which waits for it.
Consented ==
  /\ broker.up \/ BrokerFails
  /\ \A m \in toNode : m.type = "PUBLISH" => \E t \in broker.subs : m.id = broker.ids[t]
  /\ running =>
       \A m \in toNode, t \in Topics :
         m.type = "SUBACK" /\ Waits(t) => t \in broker.subs /\ m.id = broker.ids[t]
  /\ \A i \in 0 .. mqtt.nb_topics - 1 : Right(mqtt.topics[i], broker)

LEMMA ConsentedQuiet ==
  ASSUME Consented, UNCHANGED broker, Quiet, toNode' \subseteq toNode
  PROVE  Consented'
<1>1. \A i \in 0 .. mqtt'.nb_topics - 1 : Right(mqtt'.topics[i], broker')
  BY DEF Consented, Quiet, Lasting, Right
<1>2. running' =>
        \A m \in toNode', t \in Topics :
          m.type = "SUBACK" /\ Waits(t)' => t \in broker'.subs /\ m.id = broker'.ids[t]
  BY DEF Consented, Quiet, Waits
<1> QED
  BY <1>1, <1>2 DEF Consented

LEMMA ConsentedOpening ==
  ASSUME Consented, UNCHANGED broker, Opening, toNode' \subseteq toNode
  PROVE  Consented'
<1>1. \A i \in 0 .. mqtt'.nb_topics - 1 : Right(mqtt'.topics[i], broker')
  BY DEF Consented, Opening, Lasting, Right
<1>2. \A m \in toNode' : m.type # "SUBACK"
  BY DEF Opening, Replies
<1> QED
  BY <1>1, <1>2 DEF Consented

LEMMA ConsentedRegisters ==
  ASSUME NetInv, Consented, UNCHANGED broker, toNode' \subseteq toNode, running,
         NEW m \in toNode, m.type = "SUBACK", Registers(m.id), NEW t \in Topics, Waits(t)
  PROVE  Consented'
<1>1. mqtt.nb_topics \in Nat
  BY SlotFacts DEF NetInv, Inv, TypeOK
<1>2. t \in broker.subs /\ m.id = broker.ids[t]
  BY DEF Consented
<1>3. mqtt'.topics[mqtt.nb_topics] = [name |-> t, id |-> WireId(m.id)]
  BY DEF Registers, Waits
<1>4. Right(mqtt'.topics[mqtt.nb_topics], broker')
      /\ \A i \in 0 .. mqtt.nb_topics - 1 : Right(mqtt'.topics[i], broker')
  BY <1>2, <1>3 DEF Consented, Registers, Right
<1>5. \A i \in 0 .. mqtt'.nb_topics - 1 : i = mqtt.nb_topics \/ i \in 0 .. mqtt.nb_topics - 1
  BY <1>1 DEF Registers
<1>6. \A i \in 0 .. mqtt'.nb_topics - 1 : Right(mqtt'.topics[i], broker')
  BY <1>4, <1>5 DEF Registers
<1>7. \A k \in toNode' : k.type # "SUBACK"
  BY DEF Registers, Replies
<1> QED
  BY <1>6, <1>7 DEF Consented

\* What a step of the broker has to show.
LEMMA ConsentedReply ==
  ASSUME Consented, UNCHANGED <<running, mqtt>>, broker'.up = broker.up,
         \A t \in broker.subs : t \in broker'.subs /\ broker'.ids[t] = broker.ids[t],
         NEW reply, toNode' \subseteq toNode \cup {reply},
         reply.type = "PUBLISH" => \E t \in broker'.subs : reply.id = broker'.ids[t],
         running /\ reply.type = "SUBACK" =>
           \A t \in Topics : Waits(t) => t \in broker'.subs /\ reply.id = broker'.ids[t]
  PROVE  Consented'
<1>1. \A i \in 0 .. mqtt'.nb_topics - 1 : Right(mqtt'.topics[i], broker')
  BY DEF Consented, Right
<1>2. \A m \in toNode' : m.type = "PUBLISH" => \E t \in broker'.subs : m.id = broker'.ids[t]
  BY DEF Consented
<1>3. running' =>
        \A m \in toNode', t \in Topics :
          m.type = "SUBACK" /\ Waits(t)' => t \in broker'.subs /\ m.id = broker'.ids[t]
  BY DEF Consented, Waits
<1> QED
  BY <1>1, <1>2, <1>3 DEF Consented

LEMMA SubscribesConsented ==
  ASSUME Lasted, NetInv, Exact, Consented, NEW d \in toBroker, BrokerSubscribes(d)
  PROVE  Consented'
<1>0. /\ broker \in Brokers /\ \A t \in broker.subs : broker.ids[t] \in TopicIds
      /\ d.type = "SUBSCRIBE" /\ d.topic \in Topics
  BY DEF NetInv, BrokerInv, Asks, BrokerSubscribes, BrokerTakes
<1>1. PICK id \in TopicIds :
        /\ broker.ids[d.topic] # Zero => broker.ids[d.topic] = id
        /\ broker' = [broker EXCEPT !.ids[d.topic] = id, !.subs = @ \cup {d.topic}]
        /\ Answer(Received("SUBACK", 0, id, 0, Zero))
  BY DEF BrokerSubscribes
<1>2. /\ broker'.subs = broker.subs \cup {d.topic} /\ broker'.up = broker.up
      /\ broker'.ids = [broker.ids EXCEPT ![d.topic] = id]
      /\ broker.ids \in [Topics -> TopicIds \cup {Zero}] /\ broker.subs \subseteq Topics
  BY <1>0, <1>1 DEF Brokers
<1>3. \A t \in broker.subs : t \in broker'.subs /\ broker'.ids[t] = broker.ids[t]
  BY <1>0, <1>1, <1>2 DEF Lasted
<1>4. broker'.ids[d.topic] = id /\ d.topic \in broker'.subs
  BY <1>0, <1>2
<1> DEFINE reply == Received("SUBACK", 0, id, 0, Zero)
<1>5. toNode' \subseteq toNode \cup {reply} /\ reply.type = "SUBACK" /\ reply.id = id
  BY <1>1 DEF Answer, Received
<1>6. running => \A t \in Topics : Waits(t) => t = d.topic
  BY <1>0 DEF Exact, Waiting, Waits
<1>7. UNCHANGED <<running, mqtt>>
  BY DEF BrokerSubscribes, BrokerTakes, BrokerStep
<1> HIDE DEF reply
<1> QED
  BY <1>2, <1>3, <1>4, <1>5, <1>6, <1>7, ConsentedReply

LEMMA ConsentedStep ==
  ASSUME Orderly, Lasted, NetInv, Exact, Consented, [NetNext]_netVars
  PROVE  Consented'
<1>0. broker \in Brokers
  BY DEF NetInv, BrokerInv
<1>1. ASSUME \/ NodeConnect \/ NodeTimer \/ (\E t \in AppTopics : NodeSubscribes(t))
             \/ \E m \in toNode : NodeHandles(m)
      PROVE  Consented'
  <2>1. NodeMoves
    BY <1>1, NodeSteps
  <2>2. toNode' \subseteq toNode /\ UNCHANGED broker
    BY <2>1 DEF NodeMoves
  <2> QED
    BY <1>1, <2>1, <2>2, NodeClassified, ConsentedQuiet, ConsentedOpening, ConsentedRegisters
<1>2. ASSUME NEW reply, Answer(reply), UNCHANGED <<running, mqtt>>,
             reply.type \notin {"SUBACK", "PUBLISH"},
             broker'.up = broker.up, broker'.subs = broker.subs, broker'.ids = broker.ids
      PROVE  Consented'
  BY <1>2, ConsentedReply DEF Answer
<1>3. ASSUME NEW d \in toBroker, BrokerHandles(d) PROVE Consented'
  <2>1. CASE BrokerConnects(d)
    <3>1. broker'.up = broker.up /\ broker'.subs = broker.subs /\ broker'.ids = broker.ids
      BY <1>0, <2>1 DEF BrokerConnects, Brokers
    <3> QED
      BY <1>2, <2>1, <3>1, ReceivedTypes DEF BrokerConnects, BrokerTakes, BrokerStep
  <2>2. CASE BrokerRejects(d)
    BY <1>2, <2>2, ReceivedTypes DEF BrokerRejects, BrokerTakes, BrokerStep
  <2>3. CASE BrokerSubscribes(d)
    BY <2>3, SubscribesConsented
  <2>4. CASE BrokerAnswersPing(d)
    BY <1>2, <2>4, ReceivedTypes DEF BrokerAnswersPing, BrokerTakes, BrokerStep
  <2>5. CASE BrokerIgnores(d)
    <3>1. Quiet
      BY <2>5 DEF BrokerIgnores, BrokerStep, Quiet, Lasting
    <3> QED
      BY <2>5, <3>1, ConsentedQuiet DEF BrokerIgnores
  <2> QED
    BY <1>3, <2>1, <2>2, <2>3, <2>4, <2>5 DEF BrokerHandles
<1>4. ASSUME NEW t \in Topics, BrokerPublishes(t) PROVE Consented'
  <2>1. PICK f \in PublishFlags, n \in MsgIds : Answer(Received("PUBLISH", 0, broker.ids[t], f, n))
    BY <1>4 DEF BrokerPublishes
  <2> DEFINE reply == Received("PUBLISH", 0, broker.ids[t], f, n)
  <2>2. toNode' \subseteq toNode \cup {reply} /\ reply.type = "PUBLISH" /\ reply.id = broker.ids[t]
    BY <2>1 DEF Answer, Received
  <2>3. t \in broker.subs /\ UNCHANGED <<running, mqtt, broker>>
    BY <1>4 DEF BrokerPublishes, BrokerStep
  <2> HIDE DEF reply
  <2> QED
    BY <2>2, <2>3, ConsentedReply
<1>5. CASE BrokerPings
  BY <1>2, <1>5, ReceivedTypes DEF BrokerPings, BrokerStep
<1>6. CASE BrokerStops \/ BrokerStarts
  <2>1. broker'.subs = broker.subs /\ broker'.ids = broker.ids /\ BrokerFails
    BY <1>0, <1>6, RestartLasts DEF Consented
  <2>2. UNCHANGED <<running, mqtt, toNode>>
    BY <1>6 DEF BrokerStops, BrokerStarts, BrokerStep
  <2> QED
    BY <2>1, <2>2 DEF Consented, Waits, Right
<1>7. ASSUME NodeReset \/ (\E m \in toNode : NodeDeaf(m)) \/ UNCHANGED netVars
      PROVE  UNCHANGED broker /\ toNode' \subseteq toNode /\ Quiet
  BY <1>7, RestQuiet DEF NodeReset, NodeDeaf, netVars, net
<1> QED
  BY <1>1, <1>3, <1>4, <1>5, <1>6, <1>7, ConsentedQuiet DEF NetNext, OtherStep

LEMMA ExactInit == NetInit => Exact /\ Consented
<1> SUFFICES ASSUME NetInit PROVE Exact /\ Consented
  OBVIOUS
<1>1. broker.up
  BY DEF NetInit, Forgotten
<1> QED
  BY <1>1 DEF NetInit, Init, Zeroed, Exact, OneAtATime, Hushed, Waiting, Named, Consented

\* Whatever topics the client subscribes to, one at a time, each is registered
\* under the id the broker gave to it and to no other: losses, retries, ids a signed
\* char extends, reconnections, resets of the node and restarts of a broker that
\* keeps its ids included.
THEOREM TopicsAgree ==
  ASSUME Orderly, Lasted
  PROVE  NetSpec => []RegisteredAtBroker
<1>1. Consented => RegisteredAtBroker
  BY DEF Consented, Right, RegisteredAtBroker, Entries
<1>2. NetInv /\ Exact /\ [NetNext]_netVars => Exact'
  BY ExactStep
<1>3. NetInv /\ Exact /\ Consented /\ [NetNext]_netVars => Consented'
  BY ConsentedStep
<1> QED
  BY <1>1, <1>2, <1>3, NetInvInit, NetInvStep, ExactInit, PTL DEF NetSpec

\* Ids stay apart in topics[].
Apart == \A i, j \in TopicIds : WireId(i) = WireId(j) => i = j

LEMMA ApartDelivers ==
  ASSUME Apart, NetInv, Consented, NEW m \in toNode, HandlePublish(m), UNCHANGED broker
  PROVE  DeliveredUnderName'
<1>1. PICK t \in broker.subs : m.id = broker.ids[t]
  BY DEF Consented, HandlePublish, Receives
<1> DEFINE i == Min(Matches(mqtt, m.id))
<1>2. i \in Matches(mqtt, m.id)
  BY MatchType DEF HandlePublish, NetInv, Inv, TypeOK
<1>3. Right(mqtt.topics[i], broker) /\ mqtt.topics[i].id = WireId(m.id)
  BY <1>2 DEF Matches, Consented
<1>4. broker.ids[mqtt.topics[i].name] = m.id
  <2>1. \A u \in broker.subs : broker.ids[u] \in TopicIds
    BY DEF NetInv, BrokerInv
  <2> QED
    BY <1>1, <1>3, <2>1 DEF Right, Apart
<1>5. posted'.topic = mqtt.topics[i].name /\ sent' = {PubackDatagram(m)}
  BY DEF HandlePublish
<1>6. \A d \in sent' : <<d.id[2], d.mid[1]>> = m.id
  BY <1>5, PubackRepeatsId DEF NetInv
<1> QED
  BY <1>3, <1>4, <1>5, <1>6 DEF DeliveredUnderName, Right

\* The same client gets each PUBLISH under the name it was published on, among
\* several topics, if no two ids become one in topics[].
THEOREM DeliveriesApart ==
  ASSUME Orderly, Lasted, Apart
  PROVE  NetSpec => []DeliveredUnderName
<1>1. NetInit => DeliveredUnderName
  BY NotPublished DEF NetInit, Init, DeliveredUnderName
<1>2. NetInv /\ Consented /\ DeliveredUnderName /\ [NetNext]_netVars => DeliveredUnderName'
  <2> SUFFICES ASSUME NetInv, Consented, DeliveredUnderName, [NetNext]_netVars
               PROVE  DeliveredUnderName'
    OBVIOUS
  <2>1. ASSUME posted'.type # "PUBLISH" PROVE DeliveredUnderName'
    BY <2>1 DEF DeliveredUnderName
  <2>2. CASE UNCHANGED netVars
    BY <2>2 DEF netVars, DeliveredUnderName
  <2> QED
    BY <2>1, <2>2, OthersSilent, OnlyPublishPosts, NotPublished, ApartDelivers DEF Idle, NodeMoves
<1>3. NetInv /\ Exact /\ [NetNext]_netVars => Exact'
  BY ExactStep
<1>4. NetInv /\ Exact /\ Consented /\ [NetNext]_netVars => Consented'
  BY ConsentedStep
<1> QED
  BY <1>1, <1>2, <1>3, <1>4, NetInvInit, NetInvStep, ExactInit, PTL DEF NetSpec

---------------------------------------------------------------------------
(* The keepalive: its invariant.                                           *)

PingUnderWay ==
  \/ \E d \in toBroker : d.type = "PINGREQ"
  \/ \E m \in toNode : m.type = "PINGRESP"

HistoryType == history \in [fault : BOOLEAN, faultyPeriods : 0 .. MAX_KEEPALIVE_ERROR]

\* In a session, all but the latest of the periods without an answer had a fault,
\* and the latest has had one too unless its ping or the answer is still on its
\* way.  After an overrun the node is deaf, and its timer dead.
Counted ==
  mqtt.state = "CONNECTED" /\ ~mqtt.overrun =>
    /\ mqtt.keepalive_error <= history.faultyPeriods + 1
    /\ mqtt.keepalive_error > 0 => history.fault \/ PingUnderWay

---------------------------------------------------------------------------
(* What a step does to the session.                                        *)

\* The session stays as it was, or ends, or has just been renewed.
Renews ==
  \/ mqtt'.keepalive_error = 0
  \/ mqtt'.state # "CONNECTED"
  \/ mqtt'.overrun
  \/ mqtt'.state = mqtt.state /\ mqtt'.keepalive_error = mqtt.keepalive_error /\ ~mqtt.overrun

LEMMA SubscribeRenews ==
  ASSUME NEW m \in Handler, NEW t \in Names
  PROVE  /\ Subscribe(m, t).state = m.state
         /\ Subscribe(m, t).keepalive_error = m.keepalive_error
         /\ Subscribe(m, t).udp_connection = m.udp_connection
  BY DEF Subscribe, Handler

LEMMA InputRenews ==
  ASSUME Inv, NEW msg, HandleInput(msg)
  PROVE  Renews /\ (msg.type = "PINGRESP" => mqtt'.keepalive_error = 0)
<1>0. mqtt \in Handler
  BY DEF Inv, TypeOK
<1>1. ASSUME NEW t \in AppTopics \cup {NoName}, HandleConnackAccepted(msg, t)
      PROVE  mqtt'.keepalive_error = 0
  <2> DEFINE up == [mqtt EXCEPT !.state = "CONNECTED", !.keepalive_error = 0]
  <2>1. 0 \in 0 .. MAX_KEEPALIVE_ERROR /\ t \in Names
    BY KeepaliveAssumption, NamesFacts
  <2>2. up \in Handler /\ up.keepalive_error = 0
    BY <1>0, <2>1 DEF Handler, States
  <2>3. mqtt' = Subscribe(Subscribe(up, t), TempTopic)
    BY <1>1 DEF HandleConnackAccepted
  <2> HIDE DEF up
  <2>4. Subscribe(up, t) \in Handler /\ Subscribe(up, t).keepalive_error = 0
    BY <2>1, <2>2, SubscribeType, SubscribeRenews
  <2> QED
    BY <2>3, <2>4, NamesFacts, SubscribeRenews
<1>2. ASSUME HandlePingresp(msg) PROVE mqtt'.keepalive_error = 0
  BY <1>0, <1>2 DEF HandlePingresp, Handler
<1>3. ASSUME HandleSuback(msg) \/ HandlePublish(msg)
      PROVE  Renews /\ msg.type # "PINGRESP"
  BY <1>0, <1>3 DEF HandleSuback, HandlePublish, Register, Receives, Runs, Handler, Renews
<1>4. ASSUME \/ HandleConnackRejected(msg) \/ HandlePingreq(msg) \/ HandleSubackUnexpected(msg)
             \/ HandlePublishUnmatched(msg) \/ HandleOther(msg)
      PROVE  Renews /\ msg.type # "PINGRESP"
  BY <1>4 DEF HandleConnackRejected, HandlePingreq, HandleSubackUnexpected,
     HandlePublishUnmatched, HandleOther, Receives, Runs, Renews
<1> QED
  BY <1>1, <1>2, <1>3, <1>4 DEF HandleInput, Renews

\* A ping or its answer leaves the channels only for a fault, or for an answer or
\* the node that it reaches.
Kept == PingUnderWay => PingUnderWay' \/ AnswerLost

LEMMA BrokerKept ==
  ASSUME NEW d \in toBroker, BrokerHandles(d)
  PROVE  Kept
<1>1. toBroker \ toBroker' \subseteq {d}
  BY DEF BrokerHandles, BrokerConnects, BrokerRejects, BrokerSubscribes, BrokerAnswersPing,
     BrokerIgnores, BrokerTakes, After
<1>2. toNode \subseteq toNode'
  BY DEF BrokerHandles, BrokerConnects, BrokerRejects, BrokerSubscribes, BrokerAnswersPing,
     BrokerIgnores, Answer
<1>3. ASSUME d.type = "PINGREQ", d \notin toBroker' PROVE PingUnderWay' \/ AnswerLost
  <2>1. CASE toNode' \subseteq toNode
    BY <1>3, <2>1 DEF AnswerLost
  <2>2. CASE ~(toNode' \subseteq toNode)
    <3>1. BrokerAnswersPing(d)
      BY <1>3, <2>2 DEF BrokerHandles, BrokerConnects, BrokerRejects, BrokerSubscribes,
         BrokerIgnores, BrokerTakes
    <3>2. PICK m \in toNode' : m = Received("PINGRESP", 0, Zero, 0, Zero)
      BY <2>2, <3>1 DEF BrokerAnswersPing, Answer
    <3> QED
      BY <3>2 DEF Received, PingUnderWay
  <2> QED
    BY <2>1, <2>2
<1> QED
  BY <1>1, <1>2, <1>3 DEF Kept, PingUnderWay

LEMMA AnswerKept ==
  ASSUME NEW reply, Answer(reply), UNCHANGED toBroker
  PROVE  Kept
  BY DEF Kept, PingUnderWay, Answer

\* Every step but the timer's.
LEMMA OtherRenews ==
  ASSUME NetInv, OtherStep
  PROVE  /\ Renews
         /\ mqtt'.state = "CONNECTED" /\ ~mqtt'.overrun /\ mqtt'.keepalive_error # 0 => Kept
<1>1. CASE NodeConnect
  <2>1. mqtt'.state # "CONNECTED"
    BY <1>1 DEF NodeConnect, Connect, Start, BuildConnect, NetInv, Unstarted, Zeroed
  <2> QED
    BY <2>1 DEF Renews
<1>2. ASSUME NEW m \in toNode, NodeHandles(m)
      PROVE  Renews /\ (mqtt'.keepalive_error # 0 => Kept)
  <2>1. Renews /\ (m.type = "PINGRESP" => mqtt'.keepalive_error = 0)
    BY <1>2, InputRenews DEF NodeHandles, NetInv
  <2>2. toNode \ {m} \subseteq toNode' /\ toBroker \subseteq toBroker'
    BY <1>2 DEF NodeHandles, NodeSends, Carry, After
  <2>3. m.type # "PINGRESP" => Kept
    BY <2>2 DEF Kept, PingUnderWay
  <2> QED
    BY <2>1, <2>3
<1>3. ASSUME NEW m \in toNode, NodeDeaf(m) PROVE mqtt'.state # "CONNECTED" \/ mqtt'.overrun
  BY <1>3 DEF NodeDeaf, NetInv, Unstarted, Zeroed
<1>4. CASE NodeReset
  <2>1. mqtt'.keepalive_error = 0
    BY <1>4 DEF NodeReset, Zeroed
  <2> QED
    BY <2>1 DEF Renews
<1>5. ASSUME UNCHANGED mqtt PROVE Renews
  BY <1>5 DEF Renews
<1>6. ASSUME NEW d \in toBroker, BrokerHandles(d) PROVE UNCHANGED mqtt /\ Kept
  BY <1>6, BrokerKept DEF BrokerHandles, BrokerConnects, BrokerRejects, BrokerSubscribes,
     BrokerAnswersPing, BrokerIgnores, BrokerTakes, BrokerStep
<1>7. ASSUME (\E t \in Topics : BrokerPublishes(t)) \/ BrokerPings PROVE UNCHANGED mqtt /\ Kept
  BY <1>7, AnswerKept DEF BrokerPublishes, BrokerPings, BrokerStep
<1>8. ASSUME BrokerStops \/ BrokerStarts PROVE UNCHANGED mqtt /\ Kept
  BY <1>8 DEF BrokerStops, BrokerStarts, BrokerStep, Kept, PingUnderWay
<1>9. ASSUME NEW t \in AppTopics, NodeSubscribes(t) PROVE Renews /\ Kept
  <2>1. /\ mqtt'.state = mqtt.state /\ mqtt'.keepalive_error = mqtt.keepalive_error
        /\ ~mqtt.overrun
    BY <1>9, SubscribeRenews, NamesFacts
    DEF NodeSubscribes, AppSubscribe, Runs, NetInv, Inv, TypeOK
  <2>2. toNode \subseteq toNode' /\ toBroker \subseteq toBroker'
    BY <1>9 DEF NodeSubscribes, NodeSends, Carry
  <2> QED
    BY <2>1, <2>2 DEF Renews, Kept, PingUnderWay
<1> QED
  BY <1>1, <1>2, <1>3, <1>4, <1>5, <1>6, <1>7, <1>8, <1>9 DEF OtherStep, Renews

---------------------------------------------------------------------------
(* The invariant is kept.                                                  *)

LEMMA MinOfTwo ==
  ASSUME NEW x \in Nat, NEW y \in Nat
  PROVE  Min({x, y}) = IF x <= y THEN x ELSE y
<1>1. Min({x, y}) \in {x, y} /\ \A z \in {x, y} : Min({x, y}) <= z
  BY LeastExists DEF Min
<1> QED
  BY <1>1

LEMMA HistoryStep == HistoryType /\ [MonNext]_monVars => HistoryType'
<1> SUFFICES ASSUME HistoryType, [MonNext]_monVars PROVE HistoryType'
  OBVIOUS
<1>1. /\ history.faultyPeriods \in 0 .. MAX_KEEPALIVE_ERROR /\ history.fault \in BOOLEAN
      /\ MAX_KEEPALIVE_ERROR \in Nat
  BY KeepaliveAssumption DEF HistoryType
<1>2. CASE MonTimer
  <2>1. Min({history.faultyPeriods + 1, MAX_KEEPALIVE_ERROR}) \in 0 .. MAX_KEEPALIVE_ERROR
    BY <1>1, MinOfTwo
  <2>2. history'.faultyPeriods \in 0 .. MAX_KEEPALIVE_ERROR
    BY <1>1, <1>2, <2>1 DEF MonTimer
  <2>3. SendLost \in BOOLEAN
    BY DEF SendLost
  <2> QED
    BY <1>2, <2>2, <2>3 DEF MonTimer, HistoryType
<1>3. CASE MonOther
  BY <1>3 DEF MonOther, HistoryType
<1>4. CASE UNCHANGED monVars
  BY <1>4 DEF monVars, HistoryType
<1> QED
  BY <1>2, <1>3, <1>4 DEF MonNext

\* A node that runs has its connection, as udp_new does not fail here.
Open == running => mqtt.udp_connection

LEMMA OpenStep ==
  ASSUME NetInv, Open, [NetNext]_netVars
  PROVE  Open'
<1>0. mqtt \in Handler
  BY DEF NetInv, Inv, TypeOK
<1>1. CASE NodeReset
  BY <1>1 DEF NodeReset, Open
<1>2. ASSUME UNCHANGED <<running, mqtt>> PROVE Open'
  BY <1>2 DEF Open
<1>3. CASE NodeMoves
  <2>1. CASE Connect(TRUE)
    BY <1>0, <2>1 DEF Connect, Start, BuildConnect, Open, Handler
  <2>2. CASE PeriodicTimer
    BY <1>0, <2>2 DEF PeriodicTimer, TimerReconnect, BuildConnect, TimerDisconnect, TimerPublish,
       BuildPublish, Runs, Open, Handler
  <2>3. ASSUME NEW m \in toNode, HandleInput(m) PROVE Open'
    <3>1. ASSUME NEW t \in AppTopics \cup {NoName}, HandleConnackAccepted(m, t) PROVE Open'
      <4> DEFINE up == [mqtt EXCEPT !.state = "CONNECTED", !.keepalive_error = 0]
      <4>1. 0 \in 0 .. MAX_KEEPALIVE_ERROR /\ t \in Names
        BY KeepaliveAssumption, NamesFacts
      <4>2. up \in Handler /\ up.udp_connection
        BY <1>0, <3>1, <4>1 DEF Handler, States, HandleConnackAccepted, Receives
      <4>3. mqtt' = Subscribe(Subscribe(up, t), TempTopic)
        BY <3>1 DEF HandleConnackAccepted
      <4> HIDE DEF up
      <4>4. Subscribe(up, t) \in Handler /\ Subscribe(up, t).udp_connection
        BY <4>1, <4>2, SubscribeType, SubscribeRenews
      <4> QED
        BY <4>3, <4>4, NamesFacts, SubscribeRenews DEF Open
    <3>2. ASSUME HandlePingresp(m) \/ HandleSuback(m) \/ HandlePublish(m) PROVE Open'
      BY <1>0, <3>2 DEF HandlePingresp, HandleSuback, Register, HandlePublish, Receives, Open, Handler
    <3>3. ASSUME UNCHANGED mqtt, Runs PROVE Open'
      BY <3>3 DEF Runs, Open
    <3> QED
      BY <2>3, <3>1, <3>2, <3>3
      DEF HandleInput, HandleConnackRejected, HandlePingreq, HandleSubackUnexpected,
          HandlePublishUnmatched, HandleOther, Receives
  <2>4. ASSUME NEW t \in AppTopics, AppSubscribe(t) PROVE Open'
    BY <1>0, <2>4, SubscribeRenews, NamesFacts DEF AppSubscribe, Runs, Open
  <2> QED
    BY <1>3, <2>1, <2>2, <2>3, <2>4 DEF NodeMoves, NodeActs
<1>4. ASSUME NEW d \in toBroker, BrokerHandles(d) PROVE UNCHANGED <<running, mqtt>>
  BY <1>4 DEF BrokerHandles, BrokerConnects, BrokerRejects, BrokerSubscribes, BrokerAnswersPing,
     BrokerIgnores, BrokerTakes, BrokerStep
<1>5. ASSUME (\E t \in Topics : BrokerPublishes(t)) \/ BrokerPings \/ BrokerStops \/ BrokerStarts
      PROVE  UNCHANGED <<running, mqtt>>
  BY <1>5 DEF BrokerPublishes, BrokerPings, BrokerStops, BrokerStarts, BrokerStep
<1>6. ASSUME NEW m \in toNode, NodeDeaf(m) PROVE UNCHANGED <<running, mqtt>>
  BY <1>6 DEF NodeDeaf
<1>7. CASE UNCHANGED netVars
  BY <1>2, <1>7 DEF netVars
<1> QED
  BY <1>1, <1>2, <1>3, <1>4, <1>5, <1>6, <1>7, NodeSteps DEF NetNext, OtherStep

\* With answers on time, a timer event finds no ping under way: one unanswered
\* period more, and the one before had a fault.
LEMMA TimerCounts ==
  ASSUME Timely, NetInv, Open, HistoryType, Counted, MonTimer
  PROVE  Counted'
<1>0. mqtt \in Handler /\ MAX_KEEPALIVE_ERROR \in Nat
  BY KeepaliveAssumption DEF NetInv, Inv, TypeOK
<1>1. ~PingUnderWay
  BY DEF MonTimer, NodeTimer, OnTime, Pending, PingUnderWay
<1>2. CASE TimerReconnect \/ TimerDisconnect
  BY <1>0, <1>2 DEF TimerReconnect, BuildConnect, TimerDisconnect, Counted, Handler
<1>3. ASSUME NEW dlen \in TemperatureLens, TimerPublish(dlen) PROVE Counted'
  <2>1. /\ mqtt.state = "CONNECTED" /\ ~mqtt.overrun /\ mqtt.keepalive_error \in Nat
        /\ mqtt.keepalive_error < MAX_KEEPALIVE_ERROR
        /\ mqtt'.keepalive_error = mqtt.keepalive_error + 1
    BY <1>0, <1>3 DEF TimerPublish, BuildPublish, Runs, Handler
  <2>2. /\ mqtt.keepalive_error <= history.faultyPeriods + 1
        /\ mqtt.keepalive_error > 0 => history.fault
        /\ history.faultyPeriods \in 0 .. MAX_KEEPALIVE_ERROR
    BY <1>1, <2>1 DEF Counted, HistoryType
  <2>3. mqtt.keepalive_error <= history'.faultyPeriods
    <3>1. CASE history.fault
      <4>1. history'.faultyPeriods = Min({history.faultyPeriods + 1, MAX_KEEPALIVE_ERROR})
        BY <3>1 DEF MonTimer
      <4> QED
        BY <1>0, <2>1, <2>2, <4>1, MinOfTwo
    <3>2. CASE ~history.fault
      <4>1. history'.faultyPeriods = 0
        BY <3>2 DEF MonTimer
      <4> QED
        BY <2>1, <2>2, <3>2, <4>1
    <3> QED
      BY <3>1, <3>2
  <2>4. history'.fault \/ PingUnderWay'
    <3>1. history'.fault = SendLost
      BY DEF MonTimer
    <3>2. mqtt'.udp_connection
      BY <1>0, <1>3 DEF TimerPublish, BuildPublish, Runs, Open, Handler
    <3>3. PingDatagram(mqtt', "PINGREQ") \in sent'
      BY <1>3, <3>2 DEF TimerPublish, Transmit
    <3>4. PingDatagram(mqtt', "PINGREQ").type = "PINGREQ"
      BY DEF PingDatagram, Bare
    <3> QED
      BY <3>1, <3>3, <3>4 DEF SendLost, PingUnderWay
  <2>5. history'.faultyPeriods \in Nat
    BY <2>1, <2>2, <1>0, MinOfTwo DEF MonTimer
  <2> QED
    BY <2>1, <2>3, <2>4, <2>5 DEF Counted
<1> QED
  BY <1>2, <1>3 DEF MonTimer, NodeTimer, PeriodicTimer

LEMMA OtherCounts ==
  ASSUME NetInv, HistoryType, Counted, MonOther
  PROVE  Counted'
<1>1. Renews /\ (mqtt'.state = "CONNECTED" /\ ~mqtt'.overrun /\ mqtt'.keepalive_error # 0 => Kept)
  BY OtherRenews DEF MonOther
<1>2. /\ history'.faultyPeriods = history.faultyPeriods
      /\ history.fault => history'.fault
      /\ AnswerLost => history'.fault
      /\ history.faultyPeriods \in Nat
  <2>1. history'.fault = (history.fault \/ SendLost \/ AnswerLost \/ Stopped \/ ~running')
    BY DEF MonOther, HistoryType
  <2>2. history'.faultyPeriods = history.faultyPeriods /\ history.faultyPeriods \in Nat
    BY DEF MonOther, HistoryType
  <2> QED
    BY <2>1, <2>2
<1>3. CASE mqtt'.keepalive_error = 0
  BY <1>2, <1>3 DEF Counted
<1>4. CASE /\ mqtt'.state = mqtt.state /\ mqtt'.keepalive_error = mqtt.keepalive_error
           /\ ~mqtt.overrun /\ mqtt'.keepalive_error # 0
  BY <1>1, <1>2, <1>4 DEF Counted, Kept
<1> QED
  BY <1>1, <1>3, <1>4 DEF Renews, Counted

LEMMA CountedStep ==
  ASSUME Timely, NetInv, Open, HistoryType, Counted, [MonNext]_monVars
  PROVE  Counted'
<1>1. CASE UNCHANGED monVars
  BY <1>1 DEF monVars, Counted, PingUnderWay
<1> QED
  BY <1>1, TimerCounts, OtherCounts DEF MonNext

---------------------------------------------------------------------------
(* The theorem.                                                            *)

LEMMA OtherDoesNotGiveUp ==
  ASSUME OtherStep
  PROVE  posted'.type # "DISCONNECTED"
<1>1. NoEvent.type # "DISCONNECTED"
  BY DEF NoEvent
<1>2. ASSUME NEW m \in toNode, NodeHandles(m) PROVE posted'.type # "DISCONNECTED"
  BY <1>1, <1>2 DEF NodeHandles, HandleInput, HandleConnackAccepted, HandleConnackRejected,
     HandlePingreq, HandlePingresp, HandleSuback, HandleSubackUnexpected, HandlePublish,
     HandlePublishUnmatched, HandleOther, Idle
<1>3. ASSUME NEW d \in toBroker, BrokerHandles(d) PROVE posted'.type # "DISCONNECTED"
  BY <1>1, <1>3 DEF BrokerHandles, BrokerConnects, BrokerRejects, BrokerSubscribes,
     BrokerAnswersPing, BrokerIgnores, BrokerTakes, BrokerStep, Idle
<1> QED
  BY <1>1, <1>2, <1>3 DEF OtherStep, NodeConnect, Connect, NodeSubscribes, AppSubscribe,
     NodeDeaf, NodeReset, BrokerPublishes, BrokerPings, BrokerStops, BrokerStarts, BrokerStep, Idle

LEMMA GivesUpInTime ==
  ASSUME Timely, NetInv, HistoryType, Counted, MonNext
  PROVE  NoFalseAlarm'
<1>0. mqtt \in Handler /\ MAX_KEEPALIVE_ERROR \in Nat \ {0}
  BY KeepaliveAssumption DEF NetInv, Inv, TypeOK
<1>1. CASE MonOther
  BY <1>1, OtherDoesNotGiveUp DEF MonOther, NoFalseAlarm
<1>2. CASE MonTimer /\ TimerDisconnect
  <2>1. ~PingUnderWay
    BY <1>2 DEF MonTimer, NodeTimer, OnTime, Pending, PingUnderWay
  <2>2. /\ mqtt.state = "CONNECTED" /\ ~mqtt.overrun
        /\ mqtt.keepalive_error = MAX_KEEPALIVE_ERROR
    BY <1>0, <1>2 DEF TimerDisconnect, Runs, Handler
  <2>3. /\ history.fault /\ MAX_KEEPALIVE_ERROR <= history.faultyPeriods + 1
        /\ history.faultyPeriods \in Nat
    BY <1>0, <2>1, <2>2 DEF Counted, HistoryType
  <2>4. history'.faultyPeriods = Min({history.faultyPeriods + 1, MAX_KEEPALIVE_ERROR})
    BY <1>2, <2>3 DEF MonTimer
  <2>5. history'.faultyPeriods = MAX_KEEPALIVE_ERROR
    BY <1>0, <2>3, <2>4, MinOfTwo
  <2> QED
    BY <2>5 DEF NoFalseAlarm
<1>3. CASE MonTimer /\ ~TimerDisconnect
  <2>1. posted' = NoEvent
    BY <1>3 DEF MonTimer, NodeTimer, PeriodicTimer, TimerReconnect, TimerPublish
  <2>2. NoEvent.type # "DISCONNECTED"
    BY DEF NoEvent
  <2> QED
    BY <2>1, <2>2 DEF NoFalseAlarm
<1> QED
  BY <1>1, <1>2, <1>3 DEF MonNext

\* For every limit: DISCONNECTED is given only when each of the last
\* MAX_KEEPALIVE_ERROR periods had a fault, over networks that repeat datagrams
\* too, with restarts of node and broker.
THEOREM NeverDroppedEarly ==
  ASSUME Timely
  PROVE  MonSpec => []NoFalseAlarm
<1>1. MonInit => NetInit /\ Open /\ HistoryType /\ Counted /\ NoFalseAlarm
  <2> SUFFICES ASSUME MonInit PROVE Open /\ HistoryType /\ Counted /\ NoFalseAlarm
    BY DEF MonInit
  <2>1. 0 \in 0 .. MAX_KEEPALIVE_ERROR
    BY KeepaliveAssumption
  <2> QED
    BY <2>1 DEF MonInit, NetInit, Init, Zeroed, NoEvent, Open, HistoryType, Counted, NoFalseAlarm
<1>2. [MonNext]_monVars => [NetNext]_netVars
  BY DEF MonNext, MonTimer, MonOther, NetNext, monVars, netVars
<1>3. NetInv /\ Open /\ [NetNext]_netVars => Open'
  BY OpenStep
<1>4. NetInv /\ Open /\ HistoryType /\ Counted /\ [MonNext]_monVars => Counted'
  BY CountedStep
<1>5. NoFalseAlarm /\ UNCHANGED monVars => NoFalseAlarm'
  BY DEF monVars, NoFalseAlarm
<1>6. NetInv /\ HistoryType /\ Counted /\ NoFalseAlarm /\ [MonNext]_monVars => NoFalseAlarm'
  BY <1>5, GivesUpInTime
<1> QED
  BY <1>1, <1>2, <1>3, <1>4, <1>6, NetInvInit, NetInvStep, HistoryStep, PTL DEF MonSpec
=============================================================================
