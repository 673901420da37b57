-------------------------- MODULE BorderRouterProofs --------------------------
(***************************************************************************)
(* Theorems about BorderRouter, for any prefixes, hosts, radio nodes and    *)
(* size of the address table.                                              *)
(*                                                                         *)
(* The inductive invariant adds two facts to the properties: server_conn is *)
(* open between events, and the three stages of the configuration come in   *)
(* the order address, flag, thread.                                         *)
(***************************************************************************)
EXTENDS BorderRouter, FiniteSetTheorems, TLAPS

Open == ripaddr = Unspecified

Staged == (thread = "serving" => prefix_set) /\ (prefix_set => addrs # {})

Inv == TypeOK /\ Open /\ Staged /\ AnswersSender /\ BouncesNone

---------------------------------------------------------------------------
(* Lemmas.                                                                 *)

\* What the router sends has an address of its own as its source.
LEMMA OwnAddrsRouters ==
  ASSUME TypeOK PROVE OwnAddrs \subseteq Routers
BY DEF OwnAddrs, Routers, TypeOK

\* A configuration message leaves a mixed address in the source field.
LEMMA MixedSource ==
  ASSUME TypeOK, NEW p \in Prefixes PROVE <<Tail(p), source[2]>> \in Mixed
<1>1. source[2] \in Iids
  <2>1. CASE source \in Addrs BY <2>1 DEF Iids
  <2>2. CASE source \in Mixed BY <2>2 DEF Mixed
  <2>3. QED BY <2>1, <2>2 DEF TypeOK
<1>2. QED BY <1>1 DEF Mixed

\* A message on the line is one of its kind.
LEMMA MessageKinds ==
  ASSUME NEW m \in Messages
  PROVE  /\ m.type = "config" => m.prefix \in Prefixes
         /\ m.type = "udp" => m.src \in HostAddrs
         /\ m.type = "transit" => m.src \in HostAddrs /\ m.dst \in NodeAddrs
BY DEF Messages, Message

\* set_prefix_64 leaves at least one address, full table or not.
LEMMA SetPrefixEffect ==
  ASSUME TypeOK, NEW p \in Prefixes, SetPrefix(p)
  PROVE  /\ prefix_set' = TRUE
         /\ addrs' \in SUBSET Prefixes /\ IsFiniteSet(addrs') /\ Cardinality(addrs') <= MaxAddrs
         /\ dags' \in SUBSET Prefixes
         /\ addrs' # {}
<1>0. IsFiniteSet(addrs) /\ addrs \in SUBSET Prefixes /\ Cardinality(addrs) <= MaxAddrs
  BY DEF TypeOK
<1>1. MaxAddrs \in Nat \ {0} BY BoundAssumption
<1>2. Cardinality(addrs) \in Nat BY <1>0, FS_CardinalityType
<1>3. CASE Cardinality(addrs) < MaxAddrs
  <2>1. addrs' = addrs \cup {p} BY <1>3 DEF SetPrefix
  <2>2. /\ IsFiniteSet(addrs \cup {p})
        /\ Cardinality(addrs \cup {p}) \in {Cardinality(addrs), Cardinality(addrs) + 1}
    BY <1>0, FS_AddElement
  <2>3. Cardinality(addrs') <= MaxAddrs BY <2>1, <2>2, <1>1, <1>2, <1>3
  <2>4. QED BY <2>1, <2>2, <2>3, <1>0 DEF SetPrefix, TypeOK
<1>4. CASE ~(Cardinality(addrs) < MaxAddrs)
  <2>1. addrs' = addrs BY <1>4 DEF SetPrefix
  <2>2. Cardinality(addrs) # 0 BY <1>1, <1>2, <1>4
  <2>3. addrs # {} BY <2>2, FS_EmptySet
  <2>4. QED BY <2>1, <2>3, <1>0 DEF SetPrefix, TypeOK
<1>5. QED BY <1>3, <1>4

\* What Route leaves behind.
LEMMA RouteEffect ==
  ASSUME NEW src \in Addrs, NEW dst \in Addrs, NEW origin \in {"slip", "radio", "own"},
         Route(src, dst, origin)
  PROVE  /\ source' = src
         /\ out' \in Packets
         /\ out'.dst = dst /\ out'.origin = origin
         /\ out'.via = "slip" => last_sender' # src
         /\ out'.via = "dropped" => last_sender' = src
BY DEF Route, Packet, Packets, Output

\* tcpip_handler keeps the invariant's parts it touches.
LEMMA ReplyEffect ==
  ASSUME Inv, NEW src \in Senders, TcpipHandler(src)
  PROVE  /\ ripaddr' = Unspecified
         /\ source' \in Addrs /\ out' \in Packets
         /\ out'.dst = src /\ out'.origin = "own"
         /\ last_sender' = src => out'.via # "dropped"
<1>1. PICK a \in OwnAddrs : Route(a, src, "own") BY DEF TcpipHandler
<1>2. a \in Routers BY <1>1, OwnAddrsRouters DEF Inv
<1>3. a \in Addrs /\ src \in Addrs BY <1>2 DEF Addrs
<1>4. a # src BY <1>2, AddrAssumption
<1>5. QED BY <1>1, <1>3, <1>4, RouteEffect DEF TcpipHandler

\* A datagram for port 3000, wherever it came from.
LEMMA DatagramEffect ==
  ASSUME Inv, NEW src \in Senders, Datagram(src)
  PROVE  /\ ripaddr' = Unspecified /\ heard' = src
         /\ source' \in Addrs /\ out' \in Packets /\ out'.origin # "slip"
         /\ thread = "serving" =>
              out'.dst = src /\ (last_sender' = src => out'.via # "dropped")
<1>1. CASE thread = "serving"
  <2>1. TcpipHandler(src) BY <1>1 DEF Datagram, Inv, Open
  <2>2. QED BY <2>1, ReplyEffect DEF Datagram
<1>2. CASE thread # "serving"
  BY <1>2 DEF Datagram, Inv, Open, NoPacket, Packet, Packets, Addrs
<1>3. QED BY <1>1, <1>2

---------------------------------------------------------------------------
(* The invariant.                                                          *)

LEMMA InvInit == ASSUME Init PROVE Inv
<1>1. IsFiniteSet({}) /\ Cardinality({}) = 0 BY FS_EmptySet
<1>2. 0 <= MaxAddrs BY BoundAssumption
<1>3. TypeOK BY <1>1, <1>2 DEF Init, TypeOK, Addrs, NoPacket, Packet, Packets
<1>4. QED BY <1>3 DEF Init, Inv, Open, Staged, AnswersSender, BouncesNone, NoPacket, Packet

\* Steps that route nothing.
LEMMA QuietStep ==
  ASSUME Inv, Quiet, ripaddr' = Unspecified PROVE
         /\ heard' \in Addrs /\ out' \in Packets
         /\ Open' /\ AnswersSender' /\ BouncesNone'
BY DEF Quiet, Open, AnswersSender, BouncesNone, NoPacket, Packet, Packets, Addrs

LEMMA InvSlip ==
  ASSUME Inv, NEW m \in serial, SlipInput(m) PROVE Inv'
<1> USE DEF Inv
<1>1. m \in Messages BY DEF TypeOK
<1>2. serial' \in SUBSET Messages
  BY DEF TypeOK, SlipInput, SlipConfig, SlipOther, SlipDatagram, SlipTransit, Takes
<1>3. CASE SlipConfig(m)
  <2>1. m.prefix \in Prefixes BY <1>1, <1>3, MessageKinds DEF SlipConfig, Takes
  <2>2. source' \in Mixed BY <2>1, <1>3, MixedSource DEF SlipConfig
  <2>3. SetPrefix(m.prefix) BY <1>3 DEF SlipConfig
  <2>4. ripaddr' = Unspecified /\ Quiet BY <1>3 DEF SlipConfig, Open
  <2>5. TypeOK'
    BY <2>1, <2>2, <2>3, <2>4, <1>2, <1>3, SetPrefixEffect, QuietStep DEF TypeOK, SlipConfig
  <2>6. Staged' BY <2>1, <2>3, SetPrefixEffect DEF Staged
  <2>7. QED BY <2>4, <2>5, <2>6, QuietStep
<1>4. CASE SlipOther(m)
  <2>1. ripaddr' = Unspecified /\ Quiet BY <1>4 DEF SlipOther, Open
  <2>2. TypeOK' BY <2>1, <1>2, <1>4, QuietStep DEF TypeOK, SlipOther, rpl
  <2>3. QED BY <2>1, <2>2, <1>4, QuietStep DEF Staged, SlipOther, rpl
<1>5. CASE SlipDatagram(m)
  <2>1. m.src \in HostAddrs /\ m.src \in Senders /\ m.src \in Addrs
    BY <1>1, <1>5, MessageKinds DEF SlipDatagram, Takes, Senders, Addrs
  <2>2. Datagram(m.src) /\ last_sender' = m.src BY <1>5 DEF SlipDatagram
  <2>3. UNCHANGED <<thread, prefix_set, addrs, dags, asked>> BY <2>2 DEF Datagram, rpl
  <2>4. TypeOK' BY <2>1, <2>2, <2>3, <1>2, DatagramEffect DEF TypeOK, Addrs
  <2>5. AnswersSender' BY <2>1, <2>2, <2>3, DatagramEffect DEF AnswersSender
  <2>6. QED BY <2>1, <2>2, <2>3, <2>4, <2>5, DatagramEffect DEF Open, Staged, BouncesNone
<1>6. CASE SlipTransit(m)
  <2>1. m.src \in Addrs /\ m.dst \in Addrs
    BY <1>1, <1>6, MessageKinds DEF SlipTransit, Takes, Senders, Addrs
  <2>2. Route(m.src, m.dst, "slip") /\ last_sender' = m.src /\ heard' = Unspecified
    BY <1>6 DEF SlipTransit
  <2>3. /\ source' = m.src /\ out' \in Packets /\ out'.via # "slip"
    BY <2>1, <2>2, RouteEffect
  <2>4. UNCHANGED <<thread, prefix_set, addrs, dags, ripaddr, asked>>
    BY <1>6 DEF SlipTransit, rpl
  <2>5. TypeOK' BY <2>1, <2>2, <2>3, <2>4, <1>2 DEF TypeOK, Addrs
  <2>6. QED BY <2>2, <2>3, <2>4, <2>5 DEF Open, Staged, AnswersSender, BouncesNone
<1>7. QED BY <1>3, <1>4, <1>5, <1>6 DEF SlipInput

\* A packet that did not come over the line, routed on behalf of nobody heard.
LEMMA InvRouted ==
  ASSUME Inv, NEW src \in Addrs, NEW dst \in Addrs, NEW origin \in {"radio", "own"},
         Route(src, dst, origin), heard' = Unspecified, UNCHANGED last_sender,
         UNCHANGED <<thread, prefix_set, rpl, ripaddr, asked, serial>>
  PROVE  Inv'
<1>1. source' = src /\ out' \in Packets /\ out'.origin = origin BY RouteEffect
<1>2. TypeOK' BY <1>1 DEF Inv, TypeOK, rpl, Addrs
<1>3. QED BY <1>1, <1>2 DEF Inv, Open, Staged, AnswersSender, BouncesNone, rpl

LEMMA InvStep ==
  ASSUME Inv, [Next]_vars PROVE Inv'
<1> USE DEF Inv
<1>1. CASE TimerRequest
  <2>1. Quiet /\ ripaddr' = Unspecified BY <1>1 DEF TimerRequest, Open
  <2>2. TypeOK' BY <2>1, <1>1, QuietStep DEF TypeOK, TimerRequest, rpl
  <2>3. QED BY <2>1, <2>2, <1>1, QuietStep DEF Staged, TimerRequest, rpl
<1>2. CASE TimerConfigured
  <2>1. Quiet /\ ripaddr' = Unspecified BY <1>2 DEF TimerConfigured
  <2>2. TypeOK' BY <2>1, <1>2, QuietStep DEF TypeOK, TimerConfigured, rpl, Addrs
  <2>3. QED BY <2>1, <2>2, <1>2, QuietStep DEF Staged, TimerConfigured, rpl
<1>3. ASSUME NEW m \in serial, SlipInput(m) PROVE Inv' BY <1>3, InvSlip
<1>4. CASE HostAnswers
  <2>1. Quiet /\ ripaddr' = Unspecified BY <1>4 DEF HostAnswers, Open
  <2>2. serial' \in SUBSET Messages BY <1>4 DEF HostAnswers, Messages, TypeOK
  <2>3. TypeOK' BY <2>1, <2>2, <1>4, QuietStep DEF TypeOK, HostAnswers, rpl
  <2>4. QED BY <2>1, <2>3, <1>4, QuietStep DEF Staged, HostAnswers, rpl
<1>5. ASSUME NEW m \in Messages, HostSends(m) PROVE Inv'
  <2>1. Quiet /\ ripaddr' = Unspecified BY <1>5 DEF HostSends, Open
  <2>2. serial' \in SUBSET Messages BY <1>5 DEF HostSends, TypeOK
  <2>3. TypeOK' BY <2>1, <2>2, <1>5, QuietStep DEF TypeOK, HostSends, rpl
  <2>4. QED BY <2>1, <2>3, <1>5, QuietStep DEF Staged, HostSends, rpl
<1>6. ASSUME NEW n \in NodeAddrs, RadioDatagram(n) PROVE Inv'
  <2>1. n \in Senders /\ n \in Addrs BY DEF Senders, Addrs
  <2>2. Datagram(n) /\ UNCHANGED <<last_sender, serial>> BY <1>6 DEF RadioDatagram
  <2>3. UNCHANGED <<thread, prefix_set, addrs, dags, asked>> BY <2>2 DEF Datagram, rpl
  <2>4. TypeOK' BY <2>1, <2>2, <2>3, DatagramEffect DEF TypeOK, Addrs
  <2>5. AnswersSender'
    <3>1. n \notin HostAddrs BY AddrAssumption
    <3>2. QED BY <3>1, <2>1, <2>2, <2>3, DatagramEffect DEF AnswersSender
  <2>6. QED BY <2>1, <2>2, <2>3, <2>4, <2>5, DatagramEffect DEF Open, Staged, BouncesNone
<1>7. ASSUME NEW n \in NodeAddrs, NEW h \in HostAddrs, RadioTransit(n, h) PROVE Inv'
  <2>1. n \in Addrs /\ h \in Addrs BY DEF Senders, Addrs
  <2>2. QED BY <2>1, <1>7, InvRouted DEF RadioTransit
<1>8. ASSUME NEW h \in HostAddrs, OwnPacket(h) PROVE Inv'
  <2>1. PICK a \in OwnAddrs : Route(a, h, "own") BY <1>8 DEF OwnPacket
  <2>2. a \in Addrs /\ h \in Addrs BY <2>1, OwnAddrsRouters DEF Senders, Addrs
  <2>3. QED BY <2>1, <2>2, <1>8, InvRouted DEF OwnPacket
<1>9. CASE UNCHANGED vars
  BY <1>9 DEF vars, TypeOK, Open, Staged, AnswersSender, BouncesNone
<1>10. QED BY <1>1, <1>2, <1>3, <1>4, <1>5, <1>6, <1>7, <1>8, <1>9 DEF Next

---------------------------------------------------------------------------
(* Theorems.                                                               *)

\* The invariant holds of the router, whatever host, line and radio do.
THEOREM Invariance == Spec => []Inv
<1>1. Init => Inv BY InvInit
<1>2. Inv /\ [Next]_vars => Inv' BY InvStep
<1>3. QED BY <1>1, <1>2, PTL DEF Spec

\* The router's state keeps its type, and the address table its size.
THEOREM TypeCorrect == Spec => []TypeOK
<1>1. Inv => TypeOK BY DEF Inv
<1>2. QED BY <1>1, Invariance, PTL

\* Every datagram a serving router receives is answered to its sender.
THEOREM Answers == Spec => []AnswersSender
<1>1. Inv => AnswersSender BY DEF Inv
<1>2. QED BY <1>1, Invariance, PTL

\* No packet of the serial line goes back over it.
THEOREM NoBounce == Spec => []BouncesNone
<1>1. Inv => BouncesNone BY DEF Inv
<1>2. QED BY <1>1, Invariance, PTL

\* A serving router has an address, however small the table is.
THEOREM Addressed == Spec => []AddressWhenServing
<1>1. Inv => AddressWhenServing BY DEF Inv, Staged, AddressWhenServing
<1>2. QED BY <1>1, Invariance, PTL
=============================================================================
