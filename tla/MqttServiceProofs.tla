-------------------------- MODULE MqttServiceProofs --------------------------
(***************************************************************************)
(* Theorems about MqttService, for every size of topics[], every keepalive  *)
(* bound, every set of topics, ids and lengths, and any environment.        *)
(***************************************************************************)
EXTENDS MqttService, WellFoundedInduction, TLAPS

---------------------------------------------------------------------------
(* Least and greatest elements, for the two loops over topics[].           *)

Less == {p \in Nat \X Nat : p[1] < p[2]}

LEMMA LessWellFounded == IsWellFoundedOn(Less, Nat)
  BY NatLessThanWellFounded DEF OpToRel, Less

\* A non-empty set of numbers has a least element.
LEMMA LeastExists ==
  ASSUME NEW S \in SUBSET Nat, S # {}
  PROVE  \E x \in S : \A y \in S : x <= y
<1>1. PICK x \in S : \A y \in S : ~(<<y, x>> \in Less)
  BY WFMin, LessWellFounded
<1>2. \A y \in S : ~(y < x)
  BY <1>1 DEF Less
<1> QED
  BY <1>2

LEMMA MinInSet ==
  ASSUME NEW S \in SUBSET Nat, S # {}
  PROVE  Min(S) \in S
  BY LeastExists DEF Min

\* A non-empty bounded set of numbers has a greatest element.
LEMMA MaxInSet ==
  ASSUME NEW n \in Nat, NEW S \in SUBSET (0 .. n - 1), S # {}
  PROVE  Max(S) \in S
<1> DEFINE T == {n - x : x \in S}
<1>1. T \in SUBSET Nat /\ T # {}
  OBVIOUS
<1>2. PICK z \in T : \A y \in T : z <= y
  BY <1>1, LeastExists
<1>3. PICK x \in S : z = n - x
  OBVIOUS
<1>4. \A y \in S : n - y \in T
  OBVIOUS
<1>5. \A y \in S : x >= y
  BY <1>2, <1>3, <1>4
<1> QED
  BY <1>5 DEF Max

---------------------------------------------------------------------------
(* Types of what the handlers build.                                       *)

LEMMA WireIdType ==
  ASSUME NEW id \in Uint16
  PROVE  WireId(id) \in Uint16
  BY DEF WireId, Uint16, Octet

LEMMA ZeroType == Zero \in Uint16
  BY DEF Zero, Uint16, Octet

LEMMA LowOctetType ==
  ASSUME NEW id \in Uint16
  PROVE  <<0, id[2]>> \in Uint16
  BY DEF Uint16, Octet

LEMMA NamesFacts == NoName \in Names /\ TempTopic \in Names /\ AppTopics \subseteq Names
  BY DEF Names, Topics

\* mqtt_subscribe leaves a well-formed handler, and touches neither the session
\* nor the registered entries.
LEMMA SubscribeType ==
  ASSUME NEW m \in Handler, NEW t \in Names
  PROVE  /\ Subscribe(m, t) \in Handler
         /\ SubscribeDatagrams(m, t) \in SUBSET Datagram
         /\ \A d \in SubscribeDatagrams(m, t) : d.type = "SUBSCRIBE" /\ d.len >= 5
<1>1. Subscribe(m, t) \in Handler
  <2>1. CASE ~Subscribes(m, t)
    BY <2>1 DEF Subscribe
  <2>2. CASE Subscribes(m, t) /\ m.nb_topics = NB_TOPICS
    BY <2>2 DEF Subscribe, Handler
  <2>3. CASE Subscribes(m, t) /\ m.nb_topics # NB_TOPICS
    <3>1. m.nb_topics \in Slots /\ m.topics \in [Slots -> Entry]
      BY <2>3, TopicsAssumption DEF Handler, Slots
    <3>2. [m.topics EXCEPT ![m.nb_topics].name = t] \in [Slots -> Entry]
      BY <3>1 DEF Entry
    <3>3. Subscribe(m, t) = [m EXCEPT !.len = TopicLen + 5, !.pending_msg = "SUBSCRIBE",
                                      !.topics = [m.topics EXCEPT ![m.nb_topics].name = t]]
      BY <2>3 DEF Subscribe, Handler
    <3>4. TopicLen + 5 \in Nat
      BY LengthAssumption
    <3> QED
      BY <3>2, <3>3, <3>4 DEF Handler
  <2> QED
    BY <2>1, <2>2, <2>3
<1>2. \A d \in SubscribeDatagrams(m, t) : d \in Datagram /\ d.type = "SUBSCRIBE" /\ d.len >= 5
  <2> SUFFICES ASSUME NEW d \in SubscribeDatagrams(m, t)
               PROVE  d \in Datagram /\ d.type = "SUBSCRIBE" /\ d.len >= 5
    OBVIOUS
  <2>1. d = [type |-> "SUBSCRIBE", octet |-> TopicLen + 5, len |-> TopicLen + 5,
             topic |-> t, id |-> Zero, mid |-> Zero]
    BY DEF SubscribeDatagrams, Bare
  <2> QED
    BY <2>1, ZeroType, LengthAssumption DEF Datagram, SentTypes
<1> QED
  BY <1>1, <1>2

\* The registering half of the SUBACK handler.
LEMMA RegisterType ==
  ASSUME NEW m \in Handler, NEW id \in Uint16
  PROVE  Register(m, id) \in Handler
<1>1. CASE m.nb_topics = NB_TOPICS
  BY <1>1 DEF Register, Handler
<1>2. CASE m.nb_topics # NB_TOPICS
  <2>1. m.nb_topics \in Slots /\ m.nb_topics + 1 \in 0 .. NB_TOPICS /\ m.topics \in [Slots -> Entry]
    BY <1>2, TopicsAssumption DEF Handler, Slots
  <2>2. [m.topics EXCEPT ![m.nb_topics].id = WireId(id)] \in [Slots -> Entry]
    BY <2>1, WireIdType DEF Entry
  <2> QED
    BY <1>2, <2>1, <2>2 DEF Register, Handler
<1> QED
  BY <1>1, <1>2

LEMMA PingType ==
  ASSUME NEW m \in Handler, NEW type \in {"PINGREQ", "PINGRESP"}
  PROVE  PingDatagram(m, type) \in Datagram
<1>1. m.len \in Nat
  BY DEF Handler
<1> QED
  BY <1>1, NamesFacts, ZeroType DEF PingDatagram, Bare, Datagram, SentTypes

LEMMA PublishType ==
  ASSUME NEW m \in Handler, NEW t \in Names, NEW dlen \in TemperatureLens
  PROVE  /\ BuildPublish(m, dlen) \in Handler
         /\ PublishDatagram(m, t, dlen) \in Datagram
         /\ PingDatagram(BuildPublish(m, dlen), "PINGREQ") \in Datagram
<1>0. dlen \in Nat
  BY LengthAssumption
<1>1. PublishId(m, t) \in Uint16
  <2> DEFINE S == {i \in 0 .. m.nb_topics - 1 : m.topics[i].name = t}
  <2>1. CASE S = {}
    BY <2>1, ZeroType DEF PublishId
  <2>2. CASE S # {}
    <3>1. m.nb_topics \in Nat /\ m.topics \in [Slots -> Entry]
      BY TopicsAssumption DEF Handler
    <3>2. Max(S) \in S
      BY <2>2, <3>1, MaxInSet
    <3>3. Max(S) \in Slots
      BY <3>2, TopicsAssumption DEF Handler, Slots
    <3>4. m.topics[Max(S)].id \in Uint16
      BY <3>1, <3>3 DEF Entry
    <3>5. <<0, m.topics[Max(S)].id[2]>> \in Uint16
      BY <3>4, LowOctetType
    <3> QED
      BY <2>2, <3>5 DEF PublishId
  <2> QED
    BY <2>1, <2>2
<1>2. BuildPublish(m, dlen) \in Handler
  <2>1. dlen + 7 \in Nat
    BY <1>0
  <2> QED
    BY <2>1 DEF BuildPublish, Handler
<1>3. PublishDatagram(m, t, dlen) \in Datagram
  <2>1. PublishDatagram(m, t, dlen) = [type |-> "PUBLISH", octet |-> TopicLen + 7, len |-> dlen + 7,
                                       topic |-> NoName, id |-> PublishId(m, t), mid |-> Zero]
    BY DEF PublishDatagram, Bare
  <2> QED
    BY <1>0, <1>1, <2>1, NamesFacts, ZeroType, LengthAssumption DEF Datagram, SentTypes
<1>4. PingDatagram(BuildPublish(m, dlen), "PINGREQ") \in Datagram
  BY <1>2, PingType
<1> QED
  BY <1>2, <1>3, <1>4

---------------------------------------------------------------------------
(* Types.                                                                  *)

LEMMA InboundType ==
  ASSUME NEW msg \in Inbound
  PROVE  msg.id \in Uint16 /\ msg.mid \in Uint16 /\ msg.flags \in Octet
  BY ZeroType, WireAssumption DEF Inbound, Received, Octet

LEMMA PubackType ==
  ASSUME NEW msg \in Inbound
  PROVE  PubackDatagram(msg) \in Datagram
<1>1. <<msg.flags, msg.id[1]>> \in Uint16 /\ <<msg.id[2], msg.mid[1]>> \in Uint16
  BY InboundType DEF Uint16
<1> QED
  BY <1>1, NamesFacts DEF PubackDatagram, Datagram, SentTypes

LEMMA ConnectType == ConnectDatagram \in Datagram
<1>1. ConnectDatagram = [type |-> "CONNECT", octet |-> ClientNameLen + 6, len |-> ClientNameLen + 6,
                         topic |-> NoName, id |-> Zero, mid |-> Zero]
  BY DEF ConnectDatagram, Bare
<1> QED
  BY <1>1, ZeroType, NamesFacts, LengthAssumption DEF Datagram, SentTypes

LEMMA BuildConnectType ==
  ASSUME NEW m \in Handler
  PROVE  BuildConnect(m) \in Handler
<1>1. ClientNameLen + 6 \in Nat
  BY LengthAssumption
<1> QED
  BY <1>1 DEF BuildConnect, Handler

LEMMA NoEventType == NoEvent \in Events
  BY NamesFacts DEF NoEvent, Events

\* The name a PUBLISH event carries is that of a registered entry.
LEMMA MatchType ==
  ASSUME NEW m \in Handler, NEW id, Matches(m, id) # {}
  PROVE  /\ Min(Matches(m, id)) \in Matches(m, id)
         /\ m.topics[Min(Matches(m, id))].name \in Names
<1>1. m.nb_topics \in 0 .. NB_TOPICS /\ m.topics \in [Slots -> Entry]
  BY DEF Handler
<1>2. Matches(m, id) \in SUBSET Nat /\ Matches(m, id) \subseteq Slots
  BY <1>1, TopicsAssumption DEF Matches, Slots
<1>3. Min(Matches(m, id)) \in Matches(m, id)
  BY <1>2, MinInSet
<1> QED
  BY <1>1, <1>2, <1>3 DEF Entry

LEMMA TypeInit == Init => TypeOK
<1> SUFFICES ASSUME Init PROVE TypeOK
  OBVIOUS
<1>1. 0 \in 0 .. MAX_KEEPALIVE_ERROR /\ 0 \in 0 .. NB_TOPICS /\ 0 \in Nat
  BY KeepaliveAssumption, TopicsAssumption
<1>2. [i \in Slots |-> [name |-> NoName, id |-> Zero]] \in [Slots -> Entry]
  BY ZeroType, NamesFacts DEF Entry
<1>3. mqtt \in Handler
  BY <1>1, <1>2 DEF Init, Zeroed, Handler, States
<1> QED
  BY <1>3, NoEventType DEF Init, TypeOK

LEMMA TypeStep == TypeOK /\ [Next]_vars => TypeOK'
<1> SUFFICES ASSUME TypeOK, [Next]_vars PROVE TypeOK'
  OBVIOUS
<1> USE DEF TypeOK
<1>1. ASSUME NEW ok \in BOOLEAN, Connect(ok) PROVE TypeOK'
  <2> DEFINE m0 == [mqtt EXCEPT !.state = "CONNECTION_IN_PROGRESS", !.keepalive_error = 0,
                                !.nb_topics = 0]
  <2>1. 0 \in 0 .. MAX_KEEPALIVE_ERROR /\ 0 \in 0 .. NB_TOPICS
    BY KeepaliveAssumption, TopicsAssumption
  <2>2. m0 \in Handler
    BY <2>1 DEF Handler, States
  <2>3. mqtt' \in Handler
    <3>1. [m0 EXCEPT !.udp_connection = ok] \in Handler
      BY <2>2 DEF Handler
    <3> QED
      BY <1>1, <3>1, BuildConnectType DEF Connect, Start
  <2>4. sent' \in SUBSET Datagram
    BY <1>1, ConnectType DEF Connect, Transmit
  <2> QED
    BY <1>1, <2>3, <2>4, NoEventType DEF Connect
<1>2. ASSUME ConnectAgain PROVE TypeOK'
  BY <1>2, NoEventType DEF ConnectAgain, Idle
<1>3. ASSUME NEW t \in AppTopics, AppSubscribe(t) PROVE TypeOK'
  <2>1. mqtt' \in Handler /\ sent' \in SUBSET Datagram
    BY <1>3, SubscribeType, NamesFacts DEF AppSubscribe, Transmit
  <2> QED
    BY <1>3, <2>1, NoEventType DEF AppSubscribe, Runs
<1>4. ASSUME NEW msg \in Inbound, HandleInput(msg) PROVE TypeOK'
  <2>1. ASSUME NEW t \in AppTopics \cup {NoName}, HandleConnackAccepted(msg, t) PROVE TypeOK'
    <3> DEFINE up  == [mqtt EXCEPT !.state = "CONNECTED", !.keepalive_error = 0]
               app == Subscribe(up, t)
    <3>1. 0 \in 0 .. MAX_KEEPALIVE_ERROR
      BY KeepaliveAssumption
    <3>2. up \in Handler
      BY <3>1 DEF Handler, States
    <3>3. app \in Handler /\ SubscribeDatagrams(up, t) \in SUBSET Datagram
      BY <3>2, SubscribeType, NamesFacts
    <3>4. Subscribe(app, TempTopic) \in Handler
          /\ SubscribeDatagrams(app, TempTopic) \in SUBSET Datagram
      BY <3>3, SubscribeType, NamesFacts
    <3>5. posted' \in Events
      BY <2>1, NamesFacts DEF HandleConnackAccepted, Events
    <3>6. mqtt' \in Handler /\ sent' \in SUBSET Datagram
      BY <2>1, <3>3, <3>4 DEF HandleConnackAccepted
    <3> QED
      BY <2>1, <3>5, <3>6 DEF HandleConnackAccepted, Receives, Runs
  <2>2. ASSUME HandlePingreq(msg) PROVE TypeOK'
    <3>1. sent' \in SUBSET Datagram
      BY <2>2, PingType DEF HandlePingreq
    <3> QED
      BY <2>2, <3>1, NoEventType DEF HandlePingreq, Receives, Runs
  <2>3. ASSUME HandlePingresp(msg) PROVE TypeOK'
    <3>1. 0 \in 0 .. MAX_KEEPALIVE_ERROR
      BY KeepaliveAssumption
    <3>2. mqtt' \in Handler
      BY <2>3, <3>1 DEF HandlePingresp, Handler
    <3> QED
      BY <2>3, <3>2, NoEventType DEF HandlePingresp, Idle, Receives, Runs
  <2>4. ASSUME HandleSuback(msg) PROVE TypeOK'
    <3>1. mqtt' \in Handler
      BY <2>4, InboundType, RegisterType DEF HandleSuback
    <3> QED
      BY <2>4, <3>1, NoEventType DEF HandleSuback, Idle, Receives, Runs
  <2>5. ASSUME HandlePublish(msg) PROVE TypeOK'
    <3>1. mqtt' \in Handler
      BY <2>5 DEF HandlePublish, Handler
    <3>2. posted' \in Events
      BY <2>5, MatchType DEF HandlePublish, Events
    <3>3. sent' \in SUBSET Datagram
      BY <2>5, PubackType DEF HandlePublish
    <3> QED
      BY <2>5, <3>1, <3>2, <3>3 DEF HandlePublish, Receives, Runs
  <2>6. ASSUME \/ HandleConnackRejected(msg) \/ HandleSubackUnexpected(msg)
               \/ HandlePublishUnmatched(msg) \/ HandleOther(msg)
        PROVE  TypeOK'
    BY <2>6, NoEventType DEF HandleConnackRejected, HandleSubackUnexpected,
       HandlePublishUnmatched, HandleOther, Idle, Receives, Runs
  <2> QED
    BY <1>4, <2>1, <2>2, <2>3, <2>4, <2>5, <2>6 DEF HandleInput
<1>5. ASSUME PeriodicTimer PROVE TypeOK'
  <2>1. ASSUME TimerReconnect PROVE TypeOK'
    <3>1. mqtt' \in Handler /\ sent' \in SUBSET Datagram
      BY <2>1, BuildConnectType, ConnectType DEF TimerReconnect, Transmit
    <3> QED
      BY <2>1, <3>1, NoEventType DEF TimerReconnect, Runs
  <2>2. ASSUME TimerDisconnect PROVE TypeOK'
    <3>1. mqtt' \in Handler
      BY <2>2 DEF TimerDisconnect, Handler, States
    <3> QED
      BY <2>2, <3>1, NamesFacts DEF TimerDisconnect, Runs, Events
  <2>3. ASSUME NEW dlen \in TemperatureLens, TimerPublish(dlen) PROVE TypeOK'
    <3> DEFINE m0 == [mqtt EXCEPT !.keepalive_error = @ + 1]
    <3>1. mqtt.keepalive_error + 1 \in 0 .. MAX_KEEPALIVE_ERROR
      BY <2>3, KeepaliveAssumption DEF TimerPublish, Handler
    <3>2. m0 \in Handler
      BY <3>1 DEF Handler
    <3>3. mqtt' \in Handler
      BY <2>3, <3>2, PublishType, NamesFacts DEF TimerPublish
    <3>4. sent' \in SUBSET Datagram
      BY <2>3, <3>2, PublishType, NamesFacts DEF TimerPublish, Transmit
    <3> QED
      BY <2>3, <3>3, <3>4, NoEventType DEF TimerPublish, Runs
  <2> QED
    BY <1>5, <2>1, <2>2, <2>3 DEF PeriodicTimer
<1>6. ASSUME UNCHANGED vars PROVE TypeOK'
  BY <1>6 DEF vars
<1> QED
  BY <1>1, <1>2, <1>3, <1>4, <1>5, <1>6 DEF Next

\* Every variable keeps its type: in particular keepalive_error and nb_topics
\* stay within their bounds, as TimerPublish and Register test them first.
THEOREM TypeCorrect == Spec => []TypeOK
  BY TypeInit, TypeStep, PTL DEF Spec

---------------------------------------------------------------------------
(* The registry.                                                           *)

Fresh(m) == \A i \in Slots : i > m.nb_topics => m.topics[i].name = NoName

Distinct(m) ==
  \A i, j \in Slots :
    m.topics[i].name = m.topics[j].name => i = j \/ m.topics[i].name = NoName

\* Distinct speaks of every slot, the waiting one and the unused ones included:
\* a SUBACK may register whatever waits at nb_topics, so NoDuplicateTopics alone
\* is not inductive. Fresh is what lets the slot after it start out blank.
RegistryInv == Fresh(mqtt) /\ Distinct(mqtt)

\* Before mqtt_connect nothing is registered, connected or open.
NotStarted ==
  ~running => mqtt.nb_topics = 0 /\ mqtt.state # "CONNECTED" /\ ~mqtt.udp_connection

\* What makes the stale length of a ping harmless.
LengthInv == mqtt.udp_connection => mqtt.len >= 2

\* What mqtt_subscribe leaves alone, and what it keeps true.
LEMMA SubscribeEffect ==
  ASSUME NEW m \in Handler, NEW t \in Names, Fresh(m), Distinct(m)
  PROVE  LET s == Subscribe(m, t)
         IN  /\ Fresh(s) /\ Distinct(s)
             /\ s.nb_topics = m.nb_topics
             /\ \A i \in 0 .. m.nb_topics - 1 : s.topics[i] = m.topics[i]
             /\ s.state = m.state
             /\ s.keepalive_error = m.keepalive_error
             /\ s.udp_connection = m.udp_connection
             /\ m.len >= 2 => s.len >= 2
<1> DEFINE s == Subscribe(m, t)
<1>0. m.nb_topics \in 0 .. NB_TOPICS /\ m.topics \in [Slots -> Entry] /\ m.len \in Nat
  BY DEF Handler
<1>1. CASE ~Subscribes(m, t)
  BY <1>1 DEF Subscribe
<1>2. CASE Subscribes(m, t) /\ m.nb_topics = NB_TOPICS
  BY <1>2 DEF Subscribe, Fresh, Distinct, Handler
<1>3. CASE Subscribes(m, t) /\ m.nb_topics # NB_TOPICS
  <2> DEFINE n == m.nb_topics
  <2>1. n \in Slots
    BY <1>0, <1>3, TopicsAssumption DEF Slots
  <2>2. s = [m EXCEPT !.len = TopicLen + 5, !.pending_msg = "SUBSCRIBE",
                      !.topics = [m.topics EXCEPT ![n].name = t]]
    BY <1>3 DEF Subscribe, Handler
  <2>3. /\ s.topics = [m.topics EXCEPT ![n].name = t]
        /\ s.nb_topics = n /\ s.state = m.state /\ s.len = TopicLen + 5
        /\ s.keepalive_error = m.keepalive_error /\ s.udp_connection = m.udp_connection
    BY <2>2 DEF Handler
  <2>4. /\ s.topics[n].name = t
        /\ \A i \in Slots : i # n => s.topics[i] = m.topics[i]
    BY <1>0, <2>1, <2>3 DEF Entry
  <2>5. \A i \in 0 .. n - 1 : i \in Slots /\ i # n
    BY <2>1, TopicsAssumption DEF Slots
  <2>6. \A i \in Slots : i # n => m.topics[i].name # t
    <3>1. t # NoName /\ \A i \in 0 .. n - 1 : m.topics[i].name # t
      BY <1>3 DEF Subscribes, Registered
    <3>2. \A i \in Slots : i < n \/ i = n \/ i > n
      BY <2>1 DEF Slots
    <3>3. \A i \in Slots : i < n => i \in 0 .. n - 1
      BY <2>1 DEF Slots
    <3> QED
      BY <3>1, <3>2, <3>3 DEF Fresh
  <2>7. Distinct(s)
    BY <2>4, <2>6 DEF Distinct
  <2>8. Fresh(s)
    <3>1. \A i \in Slots : i > n => i # n
      BY <2>1 DEF Slots
    <3> QED
      BY <2>3, <2>4, <3>1 DEF Fresh
  <2>9. s.len >= 2
    BY <2>3, LengthAssumption
  <2> QED
    BY <2>3, <2>4, <2>5, <2>7, <2>8, <2>9
<1> QED
  BY <1>1, <1>2, <1>3

\* Registering turns the waiting slot into an entry and renames nothing.
LEMMA RegisterEffect ==
  ASSUME NEW m \in Handler, NEW id, Fresh(m), Distinct(m)
  PROVE  LET r == Register(m, id)
         IN  /\ Fresh(r) /\ Distinct(r)
             /\ r.nb_topics \in {m.nb_topics, m.nb_topics + 1}
             /\ \A i \in 0 .. m.nb_topics - 1 : r.topics[i] = m.topics[i]
             /\ r.state = m.state
             /\ r.keepalive_error = m.keepalive_error
             /\ r.udp_connection = m.udp_connection
             /\ r.len = m.len
<1> DEFINE r == Register(m, id)
<1>0. m.nb_topics \in 0 .. NB_TOPICS /\ m.topics \in [Slots -> Entry]
  BY DEF Handler
<1>1. CASE m.nb_topics = NB_TOPICS
  BY <1>1 DEF Register, Fresh, Distinct, Handler
<1>2. CASE m.nb_topics # NB_TOPICS
  <2> DEFINE n == m.nb_topics
  <2>1. n \in Slots
    BY <1>0, <1>2, TopicsAssumption DEF Slots
  <2>2. r = [m EXCEPT !.topics = [m.topics EXCEPT ![n].id = WireId(id)], !.nb_topics = n + 1]
    BY <1>2 DEF Register, Handler
  <2>3. /\ r.topics = [m.topics EXCEPT ![n].id = WireId(id)]
        /\ r.nb_topics = n + 1 /\ r.state = m.state /\ r.len = m.len
        /\ r.keepalive_error = m.keepalive_error /\ r.udp_connection = m.udp_connection
    BY <2>2 DEF Handler
  <2>4. /\ \A i \in Slots : r.topics[i].name = m.topics[i].name
        /\ \A i \in Slots : i # n => r.topics[i] = m.topics[i]
    BY <1>0, <2>1, <2>3 DEF Entry
  <2>5. \A i \in 0 .. n - 1 : i \in Slots /\ i # n
    BY <2>1, TopicsAssumption DEF Slots
  <2>6. Distinct(r)
    BY <2>4 DEF Distinct
  <2>7. Fresh(r)
    <3>1. \A i \in Slots : i > n + 1 => i > n
      BY <2>1 DEF Slots
    <3> QED
      BY <2>3, <2>4, <3>1 DEF Fresh
  <2> QED
    BY <2>3, <2>4, <2>5, <2>6, <2>7
<1> QED
  BY <1>1, <1>2

---------------------------------------------------------------------------
(* The inductive invariant.                                                *)

Inv == TypeOK /\ NotStarted /\ RegistryInv /\ LengthInv /\ HeadersComplete

\* How one step may change the handler, as far as Inv, RegistryGrows and the
\* session contract can tell.
Keeps(m, n) ==
  /\ Fresh(n) /\ Distinct(n)
  /\ n.nb_topics \in {m.nb_topics, m.nb_topics + 1}
  /\ \A i \in 0 .. m.nb_topics - 1 : n.topics[i] = m.topics[i]
  /\ n.udp_connection => n.len >= 2

LEMMA InvInit == Init => Inv
<1> SUFFICES ASSUME Init PROVE Inv
  OBVIOUS
<1>1. Fresh(mqtt) /\ Distinct(mqtt)
  BY DEF Init, Zeroed, Fresh, Distinct
<1>2. NotStarted /\ LengthInv /\ HeadersComplete
  BY DEF Init, Zeroed, NotStarted, LengthInv, HeadersComplete
<1> QED
  BY <1>1, <1>2, TypeInit DEF Inv, RegistryInv

\* A handler whose registry and length are left alone.
LEMMA SameKeeps ==
  ASSUME NEW m \in Handler, NEW n \in Handler, Fresh(m), Distinct(m),
         n.topics = m.topics, n.nb_topics = m.nb_topics,
         n.udp_connection => n.len >= 2
  PROVE  Keeps(m, n)
  BY DEF Keeps, Fresh, Distinct, Handler

LEMMA HeaderSizes ==
  /\ HeaderSize["CONNECT"] = 6 /\ HeaderSize["SUBSCRIBE"] = 5 /\ HeaderSize["PUBLISH"] = 7
  /\ HeaderSize["PUBACK"] = 7 /\ HeaderSize["PINGREQ"] = 2 /\ HeaderSize["PINGRESP"] = 2
  BY DEF HeaderSize

LEMMA ConnectHeader == ConnectDatagram.len >= HeaderSize[ConnectDatagram.type]
<1>1. ConnectDatagram.type = "CONNECT" /\ ConnectDatagram.len = ClientNameLen + 6
  BY DEF ConnectDatagram, Bare
<1> QED
  BY <1>1, HeaderSizes, LengthAssumption

LEMMA SubscribeHeader ==
  ASSUME NEW m \in Handler, NEW t \in Names, NEW d \in SubscribeDatagrams(m, t)
  PROVE  d.len >= HeaderSize[d.type]
  BY SubscribeType, HeaderSizes

LEMMA PingHeader ==
  ASSUME NEW m, NEW type \in {"PINGREQ", "PINGRESP"}, m.len >= 2
  PROVE  PingDatagram(m, type).len >= HeaderSize[PingDatagram(m, type).type]
<1>1. PingDatagram(m, type).type = type /\ PingDatagram(m, type).len = m.len
  BY DEF PingDatagram, Bare
<1> QED
  BY <1>1, HeaderSizes

\* Every action keeps the registry, and sends no datagram cut in its header.
LEMMA StepKeeps ==
  ASSUME Inv, Next
  PROVE  Keeps(mqtt, mqtt') /\ HeadersComplete'
<1> USE DEF HeadersComplete
<1>0. mqtt \in Handler /\ mqtt' \in Handler /\ Fresh(mqtt) /\ Distinct(mqtt)
  BY TypeStep DEF Inv, TypeOK, RegistryInv
<1>1. ASSUME NEW ok \in BOOLEAN, Connect(ok) PROVE Keeps(mqtt, mqtt') /\ HeadersComplete'
  <2>1. mqtt.nb_topics = 0
    BY <1>1 DEF Connect, Inv, NotStarted
  <2>2. mqtt'.topics = mqtt.topics /\ mqtt'.nb_topics = 0 /\ mqtt'.len = ClientNameLen + 6
    BY <1>0, <1>1 DEF Connect, Start, BuildConnect, Handler
  <2>3. mqtt'.len >= 2
    BY <2>2, LengthAssumption
  <2>4. \A d \in sent' : d = ConnectDatagram
    BY <1>1 DEF Connect, Transmit
  <2> QED
    BY <1>0, <2>1, <2>2, <2>3, <2>4, SameKeeps, ConnectHeader
<1>2. ASSUME UNCHANGED mqtt, sent' = {} PROVE Keeps(mqtt, mqtt') /\ HeadersComplete'
  <2>1. mqtt.udp_connection => mqtt.len >= 2
    BY DEF Inv, LengthInv
  <2> QED
    BY <1>0, <1>2, <2>1, SameKeeps
<1>3. ASSUME NEW t \in AppTopics, AppSubscribe(t) PROVE Keeps(mqtt, mqtt') /\ HeadersComplete'
  <2>1. mqtt' = Subscribe(mqtt, t) /\ t \in Names
    BY <1>3, NamesFacts DEF AppSubscribe
  <2>2. Keeps(mqtt, mqtt')
    BY <1>0, <2>1, SubscribeEffect DEF Inv, LengthInv, Keeps
  <2>3. sent' \subseteq SubscribeDatagrams(mqtt, t)
    BY <1>3 DEF AppSubscribe, Transmit
  <2> QED
    BY <1>0, <2>1, <2>2, <2>3, SubscribeHeader
<1>4. ASSUME NEW msg \in Inbound, NEW t \in AppTopics \cup {NoName},
             HandleConnackAccepted(msg, t)
      PROVE  Keeps(mqtt, mqtt') /\ HeadersComplete'
  <2> DEFINE up  == [mqtt EXCEPT !.state = "CONNECTED", !.keepalive_error = 0]
             app == Subscribe(up, t)
  <2>1. 0 \in 0 .. MAX_KEEPALIVE_ERROR /\ t \in Names
    BY KeepaliveAssumption, NamesFacts
  <2>2. up \in Handler
    BY <1>0, <2>1 DEF Handler, States
  <2>3. /\ up.topics = mqtt.topics /\ up.nb_topics = mqtt.nb_topics
        /\ up.len = mqtt.len /\ up.udp_connection = mqtt.udp_connection
    BY <1>0 DEF Handler
  <2>4. Fresh(up) /\ Distinct(up)
    BY <1>0, <2>3 DEF Fresh, Distinct
  <2>5. app \in Handler
    BY <2>1, <2>2, SubscribeType
  <2>6. /\ Fresh(app) /\ Distinct(app) /\ app.nb_topics = mqtt.nb_topics
        /\ \A i \in 0 .. mqtt.nb_topics - 1 : app.topics[i] = mqtt.topics[i]
        /\ app.udp_connection = mqtt.udp_connection
        /\ mqtt.len >= 2 => app.len >= 2
    <3> HIDE DEF up
    <3> QED
      BY <2>1, <2>2, <2>3, <2>4, SubscribeEffect
  <2>7. mqtt' = Subscribe(app, TempTopic)
    BY <1>4 DEF HandleConnackAccepted
  <2>8. Keeps(mqtt, mqtt')
    BY <2>5, <2>6, <2>7, NamesFacts, SubscribeEffect DEF Inv, LengthInv, Keeps
  <2>9. \A d \in sent' : d \in SubscribeDatagrams(up, t) \/ d \in SubscribeDatagrams(app, TempTopic)
    BY <1>4 DEF HandleConnackAccepted
  <2> QED
    BY <2>1, <2>2, <2>5, <2>8, <2>9, NamesFacts, SubscribeHeader
<1>5. ASSUME NEW msg \in Inbound, HandlePingreq(msg) PROVE Keeps(mqtt, mqtt') /\ HeadersComplete'
  <2>1. mqtt' = mqtt /\ mqtt.len >= 2
    BY <1>5 DEF HandlePingreq, Receives, Inv, LengthInv
  <2>2. sent' = {PingDatagram(mqtt, "PINGRESP")}
    BY <1>5 DEF HandlePingreq
  <2>3. HeadersComplete'
    BY <2>1, <2>2, PingHeader
  <2> QED
    BY <1>0, <2>1, <2>3, SameKeeps
<1>6. ASSUME NEW msg \in Inbound, HandlePingresp(msg) PROVE Keeps(mqtt, mqtt') /\ HeadersComplete'
  <2>1. /\ mqtt'.topics = mqtt.topics /\ mqtt'.nb_topics = mqtt.nb_topics
        /\ mqtt'.len = mqtt.len /\ mqtt.len >= 2
    BY <1>0, <1>6 DEF HandlePingresp, Receives, Inv, LengthInv, Handler
  <2>2. sent' = {}
    BY <1>6 DEF HandlePingresp, Idle
  <2> QED
    BY <1>0, <2>1, <2>2, SameKeeps
<1>7. ASSUME NEW msg \in Inbound, HandleSuback(msg) PROVE Keeps(mqtt, mqtt') /\ HeadersComplete'
  <2>1. mqtt' = Register(mqtt, msg.id) /\ sent' = {}
    BY <1>7 DEF HandleSuback, Idle
  <2>2. mqtt.len >= 2
    BY <1>7 DEF HandleSuback, Receives, Inv, LengthInv
  <2> QED
    BY <1>0, <2>1, <2>2, RegisterEffect DEF Keeps
<1>8. ASSUME NEW msg \in Inbound, HandlePublish(msg) PROVE Keeps(mqtt, mqtt') /\ HeadersComplete'
  <2>1. mqtt'.topics = mqtt.topics /\ mqtt'.nb_topics = mqtt.nb_topics /\ mqtt'.len = 7
    BY <1>0, <1>8 DEF HandlePublish, Handler
  <2>2. sent' = {PubackDatagram(msg)}
    BY <1>8 DEF HandlePublish
  <2>3. PubackDatagram(msg).type = "PUBACK" /\ PubackDatagram(msg).len = 7
    BY DEF PubackDatagram
  <2>4. HeadersComplete'
    BY <2>2, <2>3, HeaderSizes
  <2>5. mqtt'.len >= 2
    BY <2>1
  <2> QED
    BY <1>0, <2>1, <2>4, <2>5, SameKeeps
<1>9. ASSUME TimerReconnect PROVE Keeps(mqtt, mqtt') /\ HeadersComplete'
  <2>1. /\ mqtt'.topics = mqtt.topics /\ mqtt'.nb_topics = mqtt.nb_topics
        /\ mqtt'.len = ClientNameLen + 6
    BY <1>0, <1>9 DEF TimerReconnect, BuildConnect, Handler
  <2>2. mqtt'.len >= 2
    BY <2>1, LengthAssumption
  <2>3. \A d \in sent' : d = ConnectDatagram
    BY <1>9 DEF TimerReconnect, Transmit
  <2> QED
    BY <1>0, <2>1, <2>2, <2>3, SameKeeps, ConnectHeader
<1>10. ASSUME TimerDisconnect PROVE Keeps(mqtt, mqtt') /\ HeadersComplete'
  <2>1. /\ mqtt'.topics = mqtt.topics /\ mqtt'.nb_topics = mqtt.nb_topics
        /\ mqtt'.len = mqtt.len /\ mqtt'.udp_connection = mqtt.udp_connection
    BY <1>0, <1>10 DEF TimerDisconnect, Handler
  <2>2. mqtt'.udp_connection => mqtt'.len >= 2
    BY <2>1 DEF Inv, LengthInv
  <2>3. sent' = {}
    BY <1>10 DEF TimerDisconnect
  <2> QED
    BY <1>0, <2>1, <2>2, <2>3, SameKeeps
<1>11. ASSUME NEW dlen \in TemperatureLens, TimerPublish(dlen)
       PROVE  Keeps(mqtt, mqtt') /\ HeadersComplete'
  <2>1. /\ mqtt'.topics = mqtt.topics /\ mqtt'.nb_topics = mqtt.nb_topics
        /\ mqtt'.len = dlen + 7
    BY <1>0, <1>11 DEF TimerPublish, BuildPublish, Handler
  <2>2. mqtt'.len >= 7 /\ mqtt'.len >= 2
    BY <2>1, LengthAssumption
  <2>3. \A d \in sent' : d = PublishDatagram(mqtt', TempTopic, dlen) \/ d = PingDatagram(mqtt', "PINGREQ")
    BY <1>11 DEF TimerPublish, Transmit
  <2>4. /\ PublishDatagram(mqtt', TempTopic, dlen).type = "PUBLISH"
        /\ PublishDatagram(mqtt', TempTopic, dlen).len = mqtt'.len
    BY <2>1 DEF PublishDatagram, Bare
  <2>5. HeadersComplete'
    BY <2>2, <2>3, <2>4, HeaderSizes, PingHeader
  <2> QED
    BY <1>0, <2>1, <2>2, <2>5, SameKeeps
<1> QED
  BY Next, <1>1, <1>2, <1>3, <1>4, <1>5, <1>6, <1>7, <1>8, <1>9, <1>10, <1>11
  DEF Next, ConnectAgain, HandleInput, HandleConnackRejected, HandleSubackUnexpected,
      HandlePublishUnmatched, HandleOther, Idle, PeriodicTimer

LEMMA InvStep == Inv /\ [Next]_vars => Inv'
<1> SUFFICES ASSUME Inv, [Next]_vars PROVE Inv'
  OBVIOUS
<1>1. TypeOK'
  BY TypeStep DEF Inv
<1>2. CASE UNCHANGED vars
  BY <1>1, <1>2 DEF vars, Inv, NotStarted, RegistryInv, LengthInv, HeadersComplete, Fresh, Distinct
<1>3. CASE Next
  <2>1. running'
    <3>1. ASSUME NEW ok \in BOOLEAN, Connect(ok) PROVE running'
      BY <3>1 DEF Connect
    <3>2. ASSUME ConnectAgain PROVE running'
      BY <3>2 DEF ConnectAgain
    <3>3. ASSUME Runs PROVE running'
      BY <3>3 DEF Runs
    <3>4. ASSUME NEW t \in AppTopics, AppSubscribe(t) PROVE Runs
      BY <3>4 DEF AppSubscribe
    <3>5. ASSUME NEW msg \in Inbound, HandleInput(msg) PROVE Runs
      BY <3>5 DEF HandleInput, HandleConnackAccepted, HandleConnackRejected, HandlePingreq,
         HandlePingresp, HandleSuback, HandleSubackUnexpected, HandlePublish,
         HandlePublishUnmatched, HandleOther, Receives
    <3>6. ASSUME PeriodicTimer PROVE Runs
      BY <3>6 DEF PeriodicTimer, TimerReconnect, TimerDisconnect, TimerPublish
    <3> QED
      BY <1>3, <3>1, <3>2, <3>3, <3>4, <3>5, <3>6 DEF Next
  <2> QED
    BY <1>1, <1>3, <2>1, StepKeeps DEF Inv, NotStarted, Keeps, RegistryInv, LengthInv
<1> QED
  BY <1>2, <1>3

THEOREM Invariance == Spec => []Inv
  BY InvInit, InvStep, PTL DEF Spec

---------------------------------------------------------------------------
(* The properties of the registry and of the datagrams.                    *)

\* Two registered entries never have the same name.
THEOREM NoDuplicates == Spec => []NoDuplicateTopics
<1>1. Inv => NoDuplicateTopics
  <2> SUFFICES ASSUME Inv PROVE NoDuplicateTopics
    OBVIOUS
  <2>1. mqtt.nb_topics \in 0 .. NB_TOPICS
    BY DEF Inv, TypeOK, Handler
  <2>2. \A i \in 0 .. mqtt.nb_topics - 1 : i \in Slots
    BY <2>1, TopicsAssumption DEF Slots
  <2> QED
    BY <2>2 DEF Inv, RegistryInv, Distinct, NoDuplicateTopics
<1> QED
  BY <1>1, Invariance, PTL

\* No datagram is sent shorter than its header, the pings' stale length included.
THEOREM Headers == Spec => []HeadersComplete
<1>1. Inv => HeadersComplete
  BY DEF Inv
<1> QED
  BY <1>1, Invariance, PTL

\* A registered entry is never renamed, given another id or removed.
THEOREM Registry == Spec => RegistryGrows
<1>1. Inv /\ [Next]_vars =>
        [/\ mqtt'.nb_topics \in {mqtt.nb_topics, mqtt.nb_topics + 1}
         /\ \A i \in 0 .. mqtt.nb_topics - 1 : mqtt'.topics[i] = mqtt.topics[i]]_vars
  BY StepKeeps DEF Keeps
<1> QED
  BY <1>1, Invariance, PTL DEF Spec, RegistryGrows

---------------------------------------------------------------------------
(* The service implements the session its client relies on.                *)

\* Steps that leave state and keepalive_error alone and give no event are Quiet.
LEMMA QuietStep ==
  ASSUME mqtt'.state = mqtt.state, mqtt'.keepalive_error = mqtt.keepalive_error, posted' = NoEvent
  PROVE  Client!SessionNext
<1>1. posted'.type = "NONE"
  BY DEF NoEvent
<1> QED
  BY <1>1 DEF Client!SessionNext, Client!Quiet

LEMMA SessionInitial == Init => Client!SessionInit
  BY DEF Init, Zeroed, Client!SessionInit, NoEvent

LEMMA SessionStepOfNext ==
  ASSUME Inv, Next
  PROVE  Client!SessionNext
<1>0. mqtt \in Handler /\ Fresh(mqtt) /\ Distinct(mqtt)
  BY DEF Inv, TypeOK, RegistryInv
<1>1. ASSUME NEW ok \in BOOLEAN, Connect(ok) PROVE Client!SessionNext
  <2>1. mqtt.state # "CONNECTED"
    BY <1>1 DEF Connect, Inv, NotStarted
  <2>2. mqtt'.state = "CONNECTION_IN_PROGRESS" /\ mqtt'.keepalive_error = 0
    BY <1>0, <1>1 DEF Connect, Start, BuildConnect, Handler
  <2>3. posted'.type = "NONE"
    BY <1>1 DEF Connect, NoEvent
  <2> QED
    BY <2>1, <2>2, <2>3 DEF Client!SessionNext, Client!Heard
<1>2. ASSUME UNCHANGED mqtt, Idle PROVE Client!SessionNext
  BY <1>2, QuietStep DEF Idle
<1>3. ASSUME NEW t \in AppTopics, AppSubscribe(t) PROVE Client!SessionNext
  <2>1. mqtt'.state = mqtt.state /\ mqtt'.keepalive_error = mqtt.keepalive_error
    BY <1>0, <1>3, SubscribeEffect, NamesFacts DEF AppSubscribe
  <2> QED
    BY <1>3, <2>1, QuietStep DEF AppSubscribe
<1>4. ASSUME NEW msg \in Inbound, NEW t \in AppTopics \cup {NoName},
             HandleConnackAccepted(msg, t)
      PROVE  Client!SessionNext
  <2> DEFINE up  == [mqtt EXCEPT !.state = "CONNECTED", !.keepalive_error = 0]
             app == Subscribe(up, t)
  <2>1. 0 \in 0 .. MAX_KEEPALIVE_ERROR /\ t \in Names
    BY KeepaliveAssumption, NamesFacts
  <2>2. up \in Handler /\ up.state = "CONNECTED" /\ up.keepalive_error = 0
    BY <1>0, <2>1 DEF Handler, States
  <2>3. up.topics = mqtt.topics /\ up.nb_topics = mqtt.nb_topics
    BY <1>0 DEF Handler
  <2>4. Fresh(up) /\ Distinct(up)
    BY <1>0, <2>3 DEF Fresh, Distinct
  <2>5. app \in Handler
    BY <2>1, <2>2, SubscribeType
  <2>6. Fresh(app) /\ Distinct(app) /\ app.state = "CONNECTED" /\ app.keepalive_error = 0
    <3> HIDE DEF up
    <3> QED
      BY <2>1, <2>2, <2>4, SubscribeEffect
  <2>7. mqtt'.state = "CONNECTED" /\ mqtt'.keepalive_error = 0
    <3>1. mqtt' = Subscribe(app, TempTopic)
      BY <1>4 DEF HandleConnackAccepted
    <3> HIDE DEF app
    <3> QED
      BY <2>5, <2>6, <3>1, NamesFacts, SubscribeEffect
  <2>8. posted'.type = "CONNECTED"
    BY <1>4 DEF HandleConnackAccepted
  <2> QED
    BY <2>7, <2>8 DEF Client!SessionNext, Client!Establish
<1>5. ASSUME NEW msg \in Inbound, HandlePingreq(msg) PROVE Client!SessionNext
  BY <1>5, QuietStep DEF HandlePingreq
<1>6. ASSUME NEW msg \in Inbound, HandlePingresp(msg) PROVE Client!SessionNext
  <2>1. mqtt'.state = mqtt.state /\ mqtt'.keepalive_error = 0
    BY <1>0, <1>6 DEF HandlePingresp, Handler
  <2>2. posted'.type = "NONE"
    BY <1>6 DEF HandlePingresp, Idle, NoEvent
  <2> QED
    BY <2>1, <2>2 DEF Client!SessionNext, Client!Heard
<1>7. ASSUME NEW msg \in Inbound, HandleSuback(msg) PROVE Client!SessionNext
  <2>1. mqtt'.state = mqtt.state /\ mqtt'.keepalive_error = mqtt.keepalive_error
    BY <1>0, <1>7, RegisterEffect DEF HandleSuback
  <2> QED
    BY <1>7, <2>1, QuietStep DEF HandleSuback, Idle
<1>8. ASSUME NEW msg \in Inbound, HandlePublish(msg) PROVE Client!SessionNext
  <2>1. /\ mqtt.state = "CONNECTED" /\ mqtt'.state = mqtt.state
        /\ mqtt'.keepalive_error = mqtt.keepalive_error
    BY <1>0, <1>8 DEF HandlePublish, Handler
  <2>2. posted'.type = "PUBLISH"
    BY <1>8 DEF HandlePublish
  <2> QED
    BY <2>1, <2>2 DEF Client!SessionNext, Client!Deliver
<1>9. ASSUME TimerReconnect PROVE Client!SessionNext
  <2>1. mqtt'.state = mqtt.state /\ mqtt'.keepalive_error = mqtt.keepalive_error
    BY <1>0, <1>9 DEF TimerReconnect, BuildConnect, Handler
  <2> QED
    BY <1>9, <2>1, QuietStep DEF TimerReconnect
<1>10. ASSUME TimerDisconnect PROVE Client!SessionNext
  <2>1. mqtt.keepalive_error = MAX_KEEPALIVE_ERROR
    BY <1>0, <1>10, KeepaliveAssumption DEF TimerDisconnect, Handler
  <2>2. /\ mqtt.state = "CONNECTED" /\ mqtt'.state = "CONNECTION_IN_PROGRESS"
        /\ mqtt'.keepalive_error = mqtt.keepalive_error
    BY <1>0, <1>10 DEF TimerDisconnect, Handler
  <2>3. posted'.type = "DISCONNECTED"
    BY <1>10 DEF TimerDisconnect
  <2> QED
    BY <2>1, <2>2, <2>3 DEF Client!SessionNext, Client!GiveUp
<1>11. ASSUME NEW dlen \in TemperatureLens, TimerPublish(dlen) PROVE Client!SessionNext
  <2>1. mqtt.state = "CONNECTED" /\ mqtt.keepalive_error < MAX_KEEPALIVE_ERROR
    BY <1>11 DEF TimerPublish
  <2>2. mqtt'.state = mqtt.state /\ mqtt'.keepalive_error = mqtt.keepalive_error + 1
    BY <1>0, <1>11 DEF TimerPublish, BuildPublish, Handler
  <2>3. posted'.type = "NONE"
    BY <1>11 DEF TimerPublish, NoEvent
  <2> QED
    BY <2>1, <2>2, <2>3 DEF Client!SessionNext, Client!Miss
<1> QED
  BY Next, <1>1, <1>2, <1>3, <1>4, <1>5, <1>6, <1>7, <1>8, <1>9, <1>10, <1>11
  DEF Next, ConnectAgain, HandleInput, HandleConnackRejected, HandleSubackUnexpected,
      HandlePublishUnmatched, HandleOther, PeriodicTimer

\* The session contract holds in any environment, for every keepalive bound.
THEOREM SessionImplemented == Spec => ImplementsSession
<1>1. Inv /\ [Next]_vars => [Client!SessionNext]_(Client!sessionVars)
  BY SessionStepOfNext DEF vars, Client!sessionVars
<1> QED
  BY <1>1, SessionInitial, Invariance, PTL DEF Spec, ImplementsSession, Client!SessionSpec
=============================================================================
