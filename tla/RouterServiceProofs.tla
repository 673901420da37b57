-------------------------- MODULE RouterServiceProofs --------------------------
(***************************************************************************)
(* Theorems about RouterService, for every table and name size, keepalive   *)
(* limit, set of topics and ids, and either signedness of char.             *)
(***************************************************************************)
EXTENDS RouterService, TLAPS

---------------------------------------------------------------------------
(* Types.                                                                  *)

DatagramType == [type : Types, octet : Nat, len : Nat]

LEMMA InboundType ==
  ASSUME NEW msg \in Inbound
  PROVE  msg.id \in Ids
  BY RouterIdsAssumption DEF Inbound, Received

LEMMA DatagramTyped ==
  ASSUME NEW type \in Types, NEW octet \in Nat, NEW n \in Nat
  PROVE  Datagram(type, octet, n) \in DatagramType
  BY DEF Datagram, DatagramType

LEMMA NothingType == Nothing \in DatagramType
  BY DEF Nothing, Datagram, DatagramType, Types

LEMMA TransmitType ==
  ASSUME NEW open, NEW d \in DatagramType
  PROVE  Transmit(open, d) \in DatagramType
  BY NothingType DEF Transmit

LEMMA ConnectSent ==
  ASSUME NEW open
  PROVE  Transmit(open, Datagram("CONNECT", ConnectLen, ConnectLen)) \in DatagramType /\ ConnectLen \in Nat
<1>1. ConnectLen \in Nat
  BY DEF ConnectLen, TestLen
<1>2. "CONNECT" \in Types
  BY DEF Types
<1> QED
  BY <1>1, <1>2, DatagramTyped, TransmitType

LEMMA SubscribeSent ==
  ASSUME NEW t \in Topics, NEW open
  PROVE  /\ Transmit(open, Datagram("SUBSCRIBE", TestLen + 5, Strlen[t] + 5)) \in DatagramType
         /\ Strlen[t] + 5 \in Nat
<1>1. Strlen[t] + 5 \in Nat /\ TestLen + 5 \in Nat
  BY RouterNamesAssumption DEF TestLen
<1>2. "SUBSCRIBE" \in Types
  BY DEF Types
<1> QED
  BY <1>1, <1>2, DatagramTyped, TransmitType

LEMMA PingSent ==
  ASSUME len \in Nat, NEW type \in {"PINGREQ", "PINGRESP"}, NEW open
  PROVE  Transmit(open, Ping(type)) \in DatagramType /\ Ping(type) \in DatagramType
<1>1. type \in Types
  BY DEF Types
<1>2. Ping(type) \in DatagramType
  BY <1>1, DatagramTyped DEF Ping
<1> QED
  BY <1>2, TransmitType

LEMMA TypeInit == Init => TypeOK
<1>1. 0 \in 0 .. MAX_KEEPALIVE_ERROR /\ 0 \in 0 .. NB_TOPICS
  BY RouterKeepaliveAssumption, RouterTopicsAssumption
<1>2. /\ [i \in Slots |-> NoName] \in [Slots -> Names]
      /\ [i \in Slots |-> NoId] \in [Slots -> Ids]
  BY RouterIdsAssumption DEF Names
<1>3. 0 \in Nat /\ "CONNECTION_CLOSED" \in States
  BY DEF States
<1> QED
  BY <1>1, <1>2, <1>3, NothingType DEF Init, TypeOK, DatagramType

LEMMA TypeStep == TypeOK /\ [Next]_vars => TypeOK'
<1> SUFFICES ASSUME TypeOK, [Next]_vars PROVE TypeOK'
  OBVIOUS
<1> USE DEF TypeOK, DatagramType
<1>0. 0 \in 0 .. MAX_KEEPALIVE_ERROR /\ 0 \in 0 .. NB_TOPICS
  BY RouterKeepaliveAssumption, RouterTopicsAssumption
<1>1. ASSUME NEW ok \in BOOLEAN, Connect(ok) PROVE TypeOK'
  BY <1>0, <1>1, ConnectSent DEF Connect, States
<1>2. ASSUME ConnectAgain PROVE TypeOK'
  BY <1>2, NothingType DEF ConnectAgain, Silent, session, table
<1>3. ASSUME NEW t \in Topics, Subscribe(t) PROVE TypeOK'
  <2>1. [name EXCEPT ![nb_topics] = t] \in [Slots -> Names]
    BY DEF Names
  <2> QED
    BY <1>3, <2>1, SubscribeSent DEF Subscribe, Runs, session
<1>4. ASSUME NEW t \in Topics, SubscribeOverrun(t) \/ SubscribeNot(t) PROVE TypeOK'
  BY <1>4, NothingType DEF SubscribeOverrun, SubscribeNot, Runs, Silent, session, table
<1>5. ASSUME NEW msg \in Inbound, HandleConnack(msg) PROVE TypeOK'
  BY <1>0, <1>5, NothingType DEF HandleConnack, Receives, Runs, States, table
<1>6. ASSUME NEW msg \in Inbound, HandlePingreq(msg) PROVE TypeOK'
  BY <1>6, PingSent DEF HandlePingreq, Receives, Runs, session, table
<1>7. ASSUME NEW msg \in Inbound, HandlePingresp(msg) PROVE TypeOK'
  BY <1>0, <1>7, NothingType DEF HandlePingresp, Receives, Runs, Silent, table
<1>8. ASSUME NEW msg \in Inbound, HandleSuback(msg) PROVE TypeOK'
  <2>1. WireId[msg.id] \in Ids
    BY InboundType, RouterIdsAssumption
  <2>2. [id EXCEPT ![nb_topics] = WireId[msg.id]] \in [Slots -> Ids]
    BY <2>1
  <2>3. nb_topics + 1 \in 0 .. NB_TOPICS
    BY <1>8, RouterTopicsAssumption DEF HandleSuback
  <2> QED
    BY <1>8, <2>2, <2>3, NothingType DEF HandleSuback, Receives, Runs, Silent, session
<1>9. ASSUME NEW msg \in Inbound, HandlePublish(msg) PROVE TypeOK'
  <2>1. Datagram("PUBACK", 7, 7) \in DatagramType
    BY DatagramTyped DEF Types
  <2> QED
    BY <1>9, <2>1 DEF HandlePublish, Receives, Runs, session, table
<1>10. ASSUME NEW msg \in Inbound,
              \/ HandleConnackRejected(msg) \/ HandleSubackOverrun(msg)
              \/ HandleSubackUnexpected(msg) \/ HandlePublishUnmatched(msg) \/ HandleOther(msg)
       PROVE  TypeOK'
  BY <1>10, NothingType DEF HandleConnackRejected, HandleSubackOverrun, HandleSubackUnexpected,
     HandlePublishUnmatched, HandleOther, Receives, Runs, Silent, session, table
<1>11. ASSUME TimerReconnect PROVE TypeOK'
  BY <1>11, ConnectSent DEF TimerReconnect, Runs, session, table
<1>12. ASSUME TimerDisconnect PROVE TypeOK'
  BY <1>12, NothingType DEF TimerDisconnect, Runs, States, table
<1>13. ASSUME TimerPing PROVE TypeOK'
  <2>1. keepalive_error + 1 \in 0 .. MAX_KEEPALIVE_ERROR
    BY <1>13, RouterKeepaliveAssumption DEF TimerPing
  <2> QED
    BY <1>13, <2>1, PingSent DEF TimerPing, Runs, table
<1>14. CASE UNCHANGED vars
  BY <1>14 DEF vars, session, table
<1> QED
  BY <1>1, <1>2, <1>3, <1>4, <1>5, <1>6, <1>7, <1>8, <1>9, <1>10, <1>11, <1>12, <1>13, <1>14
     DEF Next, HandleInput, PeriodicTimer

---------------------------------------------------------------------------
(* The topic table.                                                        *)

\* Stronger than NoDuplicateTopics: the name waiting in name[nb_topics] is none
\* of the registered ones either, and what lies beyond it is blank.
Distinct == \A i, j \in Slots : name[i] = name[j] => i = j \/ name[i] = NoName
Fresh == \A i \in Slots : i > nb_topics => name[i] = NoName
Unused == ~running => state # "CONNECTED" /\ \A i \in Slots : name[i] = NoName

Inv == TypeOK /\ Distinct /\ Fresh /\ Unused

LEMMA InvInit == Init => Inv
<1> SUFFICES ASSUME Init PROVE Inv
  OBVIOUS
<1>1. \A i \in Slots : name[i] = NoName
  BY DEF Init
<1> QED
  BY <1>1, TypeInit DEF Inv, Distinct, Fresh, Unused, Init

\* A step that leaves the table alone, a reset of nb_topics to 0 apart, keeps the
\* three facts about it.
LEMMA TableKept ==
  ASSUME Distinct, Fresh, Unused,
         UNCHANGED <<name, nb_topics>>, running' = running,
         running \/ state' = state
  PROVE  Distinct' /\ Fresh' /\ Unused'
  BY DEF Distinct, Fresh, Unused

LEMMA InvStep == Inv /\ [Next]_vars => Inv'
<1> SUFFICES ASSUME Inv, [Next]_vars PROVE Inv'
  OBVIOUS
<1>0. TypeOK /\ TypeOK' /\ Distinct /\ Fresh /\ Unused
  BY TypeStep DEF Inv
<1> SUFFICES Distinct' /\ Fresh' /\ Unused'
  BY <1>0 DEF Inv
<1>1. ASSUME NEW ok \in BOOLEAN, Connect(ok)
      PROVE  Distinct' /\ Fresh' /\ Unused'
  BY <1>0, <1>1 DEF Connect, Distinct, Fresh, Unused
<1>2. ASSUME NEW t \in Topics, Subscribe(t)
      PROVE  Distinct' /\ Fresh' /\ Unused'
  <2>1. /\ name' = [name EXCEPT ![nb_topics] = t]
        /\ nb_topics' = nb_topics /\ running /\ running' = running
        /\ nb_topics \in Nat /\ nb_topics < NB_TOPICS
        /\ name \in [Slots -> Names]
    BY <1>0, <1>2, RouterTopicsAssumption DEF Subscribe, Fits, Runs, TypeOK
  <2>2. \A i \in Slots : name[i] # t \/ i = nb_topics
    <3> SUFFICES ASSUME NEW i \in Slots, name[i] = t, i # nb_topics PROVE FALSE
      OBVIOUS
    <3>1. ~(i \in 0 .. nb_topics - 1)
      BY <1>2 DEF Subscribe, Registered
    <3>2. i > nb_topics
      BY <2>1, <3>1, RouterTopicsAssumption DEF Slots
    <3>3. name[i] = NoName
      BY <1>0, <3>2 DEF Fresh
    <3> QED
      BY <3>3, RouterNamesAssumption
  <2>3. \A i \in Slots : name'[i] = IF i = nb_topics THEN t ELSE name[i]
    BY <2>1
  <2>4. Distinct'
    BY <1>0, <2>2, <2>3 DEF Distinct
  <2>5. Fresh'
    BY <1>0, <2>1, <2>3 DEF Fresh
  <2> QED
    BY <2>1, <2>4, <2>5 DEF Unused
<1>3. ASSUME NEW msg \in Inbound, HandleSuback(msg)
      PROVE  Distinct' /\ Fresh' /\ Unused'
  <2>1. /\ name' = name /\ nb_topics' = nb_topics + 1
        /\ running /\ running' = running /\ nb_topics \in Nat
    BY <1>0, <1>3, RouterTopicsAssumption DEF HandleSuback, Receives, Runs, TypeOK
  <2>2. Fresh'
    BY <1>0, <2>1, RouterTopicsAssumption DEF Fresh, Slots
  <2> QED
    BY <1>0, <2>1, <2>2 DEF Distinct, Unused
<1>4. ASSUME NEW msg \in Inbound, HandleInput(msg), ~HandleSuback(msg)
      PROVE  Distinct' /\ Fresh' /\ Unused'
  <2>1. UNCHANGED <<name, nb_topics, running>> /\ running
    BY <1>4 DEF HandleInput, HandleConnack, HandleConnackRejected, HandlePingreq, HandlePingresp,
       HandleSubackOverrun, HandleSubackUnexpected, HandlePublish, HandlePublishUnmatched,
       HandleOther, Receives, Runs, table
  <2> QED
    BY <1>0, <2>1, TableKept
<1>5. ASSUME \/ ConnectAgain \/ PeriodicTimer
             \/ \E t \in Topics : SubscribeOverrun(t) \/ SubscribeNot(t)
      PROVE  Distinct' /\ Fresh' /\ Unused'
  <2>1. UNCHANGED <<name, nb_topics, running>> /\ running
    BY <1>5 DEF ConnectAgain, PeriodicTimer, TimerReconnect, TimerDisconnect, TimerPing,
       SubscribeOverrun, SubscribeNot, Runs, table
  <2> QED
    BY <1>0, <2>1, TableKept
<1>6. CASE UNCHANGED vars
  BY <1>0, <1>6, TableKept DEF vars, session, table
<1> QED
  BY <1>1, <1>2, <1>3, <1>4, <1>5, <1>6 DEF Next

THEOREM Invariance == Spec => []Inv
<1>1. Init => Inv
  BY InvInit
<1>2. Inv /\ [Next]_vars => Inv'
  BY InvStep
<1> QED
  BY <1>1, <1>2, PTL DEF Spec

\* TypeOK holds in every behaviour: keepalive_error never passes its limit and
\* nb_topics never the table.
THEOREM TypeCorrect == Spec => []TypeOK
<1>1. Inv => TypeOK
  BY DEF Inv
<1> QED
  BY <1>1, Invariance, PTL

\* NoDuplicateTopics: no topic is registered twice (lines 119-126 and 195-200).
THEOREM NoDuplicates == Spec => []NoDuplicateTopics
<1>1. Inv => NoDuplicateTopics
  <2> SUFFICES ASSUME Inv, NEW i \in 0 .. nb_topics - 1, NEW j \in 0 .. nb_topics - 1,
                      name[i] = name[j]
               PROVE  i = j \/ name[i] = NoName
    BY DEF NoDuplicateTopics
  <2>1. i \in Slots /\ j \in Slots
    BY RouterTopicsAssumption DEF Inv, TypeOK, Slots
  <2> QED
    BY <2>1 DEF Inv, Distinct
<1> QED
  BY <1>1, Invariance, PTL

---------------------------------------------------------------------------
(* The session.                                                            *)

LEMMA SessionInits == Init => Client!SessionInit
  BY DEF Init, Client!SessionInit

LEMMA SessionSteps == Inv /\ [Next]_vars => [Client!SessionNext]_Client!sessionVars
<1> SUFFICES ASSUME Inv, [Next]_vars PROVE [Client!SessionNext]_Client!sessionVars
  OBVIOUS
<1> USE DEF Client!SessionNext, Client!sessionVars
<1>1. keepalive_error \in 0 .. MAX_KEEPALIVE_ERROR
  BY DEF Inv, TypeOK
<1>2. ASSUME NEW ok \in BOOLEAN, Connect(ok) PROVE Client!Heard
  BY <1>2 DEF Connect, Client!Heard, Inv, Unused
<1>3. ASSUME NEW t \in Topics, Subscribe(t) \/ SubscribeOverrun(t) \/ SubscribeNot(t)
      PROVE  Client!Quiet
  BY <1>3 DEF Subscribe, SubscribeOverrun, SubscribeNot, Silent, session, Client!Quiet
<1>4. ASSUME NEW msg \in Inbound, HandleConnack(msg) PROVE Client!Establish
  BY <1>4 DEF HandleConnack, Client!Establish
<1>5. ASSUME NEW msg \in Inbound, HandlePingresp(msg) PROVE Client!Heard
  BY <1>5 DEF HandlePingresp, Silent, Client!Heard
<1>6. ASSUME NEW msg \in Inbound, HandlePublish(msg) PROVE Client!Deliver
  BY <1>6 DEF HandlePublish, session, Client!Deliver
<1>7. ASSUME NEW msg \in Inbound,
             \/ HandleConnackRejected(msg) \/ HandlePingreq(msg) \/ HandleSuback(msg)
             \/ HandleSubackOverrun(msg) \/ HandleSubackUnexpected(msg)
             \/ HandlePublishUnmatched(msg) \/ HandleOther(msg)
      PROVE  Client!Quiet
  BY <1>7 DEF HandleConnackRejected, HandlePingreq, HandleSuback, HandleSubackOverrun,
     HandleSubackUnexpected, HandlePublishUnmatched, HandleOther, Silent, session, Client!Quiet
<1>8. ASSUME TimerReconnect \/ ConnectAgain PROVE Client!Quiet
  BY <1>8 DEF TimerReconnect, ConnectAgain, Silent, session, Client!Quiet
<1>9. ASSUME TimerDisconnect PROVE Client!GiveUp
  BY <1>1, <1>9, RouterKeepaliveAssumption DEF TimerDisconnect, Client!GiveUp
<1>10. ASSUME TimerPing PROVE Client!Miss
  BY <1>10 DEF TimerPing, Client!Miss
<1>11. CASE UNCHANGED vars
  BY <1>11 DEF vars, session
<1> QED
  BY <1>2, <1>3, <1>4, <1>5, <1>6, <1>7, <1>8, <1>9, <1>10, <1>11
     DEF Next, HandleInput, PeriodicTimer

\* ImplementsSession: the router's service keeps the contract of Session, which
\* the sensor's service keeps too.
THEOREM SessionImplemented == Spec => ImplementsSession
<1>1. Init => Client!SessionInit
  BY SessionInits
<1>2. Inv /\ [Next]_vars => [Client!SessionNext]_Client!sessionVars
  BY SessionSteps
<1> QED
  BY <1>1, <1>2, Invariance, PTL DEF Spec, ImplementsSession, Client!SessionSpec
=============================================================================
