----------------------------- MODULE BorderRouter -----------------------------
(***************************************************************************)
(* The border router (examples/border_router): border_router_process of     *)
(* border-router.c and the SLIP bridge of slip-bridge.c, which share uip_buf *)
(* and prefix_set, between a host on the serial line and the radio nodes.   *)
(*                                                                         *)
(* A protothread, a SLIP callback and a call of the fallback interface each *)
(* run to their end, so each is (part of) one action.  The host answers "?P" *)
(* with "!P" and a prefix; the serial line may lose either.  Routing, the    *)
(* address table and RPL belong to Contiki and are modelled from the calls. *)
(*                                                                         *)
(* Left out: the contents of packets, ports, the LEDs, printing (with the    *)
(* address states print_local_addresses changes), and failure of udp_new.   *)
(***************************************************************************)
EXTENDS Naturals, FiniteSets

CONSTANTS
  Prefixes,    \* prefixes a host may give
  HostAddrs,   \* addresses behind the serial line
  NodeAddrs,   \* addresses of radio nodes
  RouterIid,   \* interface id of the router, from uip_lladdr
  MaxAddrs,    \* free entries of the uip_ds6 address table
  RplRefuses,  \* rpl_set_root may return NULL
  MaxSerial    \* bound: no packets of the host on a line with that many messages

\* An address is what the code below can tell apart of it: its first two octets,
\* and all the others.  A prefix is its first two octets and its last two.
Head(a) == a[1]
Tail(p) == p[2]
RouterAddr(p) == <<Head(p), RouterIid>>

Unspecified == <<0, 0>>
LinkLocal == <<65152, RouterIid>>  \* fe80::

Senders == HostAddrs \cup NodeAddrs
Routers == {RouterAddr(p) : p \in Prefixes} \cup {LinkLocal}
Addrs == Senders \cup Routers \cup {Unspecified}
Iids == {a[2] : a \in Addrs}
\* What last_sender can be once a prefix has been laid over an old packet.
Mixed == {<<Tail(p), i>> : p \in Prefixes, i \in Iids}

ASSUME PrefixAssumption == Prefixes \subseteq Nat \X Nat
ASSUME AddrAssumption ==
  /\ Senders \subseteq Nat \X Nat /\ RouterIid \in Nat
  /\ Unspecified \notin Senders \cup Routers
  /\ Senders \cap Routers = {} /\ HostAddrs \cap NodeAddrs = {}
ASSUME BoundAssumption == MaxAddrs \in Nat \ {0} /\ MaxSerial \in Nat \ {0} /\ RplRefuses \in BOOLEAN

VARIABLES
  thread,       \* where border_router_process waits: "requesting" or "serving"
  prefix_set,
  addrs,        \* prefixes the router has an address under
  dags,         \* prefixes of the DODAGs the router is root of
  last_sender,  \* static in slip-bridge.c
  source,       \* UIP_IP_BUF->srcipaddr: the source field as uip_buf now has it
  ripaddr,      \* server_conn->ripaddr, Unspecified: any sender
  asked,        \* a "?P" is on its way to the host
  serial,       \* messages on their way from the host
  heard,        \* who sent the datagram for port 3000 the last step received
  out           \* the packet the last step routed

vars == <<thread, prefix_set, addrs, dags, last_sender, source, ripaddr, asked, serial, heard, out>>
rpl == <<addrs, dags>>

Message(type, prefix, src, dst) == [type |-> type, prefix |-> prefix, src |-> src, dst |-> dst]

\* config: "!P"; other: any other "!"; udp: to port 3000 of the router; transit:
\* through the router.
Messages ==
  {Message("config", p, Unspecified, Unspecified) : p \in Prefixes}
  \cup {Message("other", Unspecified, Unspecified, Unspecified)}
  \cup {Message("udp", Unspecified, a, Unspecified) : a \in HostAddrs}
  \cup {Message("transit", Unspecified, a, n) : a \in HostAddrs, n \in NodeAddrs}

Packets ==
  [via : {"none", "slip", "radio", "dropped"}, src : Addrs, dst : Addrs,
   origin : {"none", "slip", "radio", "own"}]

Packet(via, src, dst, origin) == [via |-> via, src |-> src, dst |-> dst, origin |-> origin]
NoPacket == Packet("none", Unspecified, Unspecified, "none")

TypeOK ==
  /\ thread \in {"requesting", "serving"} /\ prefix_set \in BOOLEAN
  /\ addrs \in SUBSET Prefixes /\ IsFiniteSet(addrs) /\ Cardinality(addrs) <= MaxAddrs
  /\ dags \in SUBSET Prefixes
  /\ last_sender \in Addrs \cup Mixed /\ source \in Addrs \cup Mixed
  /\ ripaddr \in Addrs
  /\ asked \in BOOLEAN /\ serial \in SUBSET Messages
  /\ heard \in Addrs /\ out \in Packets

\* The thread has sent its first request and waits.
Init ==
  /\ thread = "requesting" /\ prefix_set = FALSE
  /\ addrs = {} /\ dags = {}
  /\ last_sender = Unspecified /\ source = Unspecified /\ ripaddr = Unspecified
  /\ asked = TRUE /\ serial = {}
  /\ heard = Unspecified /\ out = NoPacket

---------------------------------------------------------------------------
(* Output.                                                                 *)

\* output: the fallback interface, for packets without a route.
Output(saved, src) == IF saved = src THEN "dropped" ELSE "slip"

\* uIP sends the packet in uip_buf. Only radio nodes have routes, and not always.
Route(src, dst, origin) ==
  /\ source' = src
  /\ \E via \in {Output(last_sender', src)} \cup (IF dst \in NodeAddrs THEN {"radio"} ELSE {}) :
       out' = Packet(via, src, dst, origin)

\* The source address uIP selects for what the router itself sends.
OwnAddrs == IF addrs = {} THEN {LinkLocal} ELSE {RouterAddr(p) : p \in addrs}

Quiet == heard' = Unspecified /\ out' = NoPacket

---------------------------------------------------------------------------
(* border_router_process.                                                  *)

\* Mutant of TimerRequest: the loop waits again without asking again.
TimerRequestOnce ==
  /\ thread = "requesting" /\ ~prefix_set
  /\ Quiet /\ UNCHANGED <<thread, prefix_set, rpl, last_sender, source, ripaddr, asked, serial>>

\* request_prefix, every second; it writes two octets of uip_buf, which are not
\* of the source field. The serial line may lose it.
TimerRequest ==
  /\ thread = "requesting" /\ ~prefix_set
  /\ asked' \in {asked, TRUE}
  /\ Quiet /\ UNCHANGED <<thread, prefix_set, rpl, last_sender, source, ripaddr, serial>>

\* The loop is left when the timer expires, not when the prefix comes.
TimerConfigured ==
  /\ thread = "requesting" /\ prefix_set
  /\ thread' = "serving" /\ ripaddr' = Unspecified
  /\ Quiet /\ UNCHANGED <<prefix_set, rpl, last_sender, source, asked, serial>>

\* Mutant of TcpipHandler: the connection stays with the sender.
TcpipHandlerConnected(src) ==
  /\ ripaddr' = src
  /\ \E a \in OwnAddrs : Route(a, src, "own")

\* tcpip_handler: the reply goes to the sender, then any sender is accepted again.
TcpipHandler(src) ==
  /\ ripaddr' = Unspecified
  /\ \E a \in OwnAddrs : Route(a, src, "own")

\* uIP has a datagram for port 3000; without a connection that matches it is lost.
Datagram(src) ==
  /\ heard' = src
  /\ IF thread = "serving" /\ ripaddr \in {Unspecified, src}
     THEN TcpipHandler(src)
     ELSE source' = src /\ out' = NoPacket /\ UNCHANGED ripaddr
  /\ UNCHANGED <<thread, prefix_set, rpl, asked>>

---------------------------------------------------------------------------
(* slip_input_callback, and what uIP then does with the packet.            *)

\* Mutant of SetPrefix: the address goes past the end of the table.
SetPrefixUnchecked(p) ==
  /\ prefix_set' = TRUE
  /\ addrs' = addrs \cup {p}
  /\ dags' \in {dags \cup {p}} \cup (IF RplRefuses THEN {dags} ELSE {})

\* set_prefix_64. Neither uip_ds6_addr_add's result nor rpl_set_root's is kept.
SetPrefix(p) ==
  /\ prefix_set' = TRUE
  /\ addrs' = IF Cardinality(addrs) < MaxAddrs THEN addrs \cup {p} ELSE addrs
  /\ dags' \in {dags \cup {p}} \cup (IF RplRefuses THEN {dags} ELSE {})

Takes(m, type) == m.type = type /\ serial' = serial \ {m}

\* The prefix lies over the first two octets of the source field, which is saved
\* as the last sender all the same.
SlipConfig(m) ==
  /\ Takes(m, "config")
  /\ SetPrefix(m.prefix)
  /\ source' = <<Tail(m.prefix), source[2]>> /\ last_sender' = source'
  /\ Quiet /\ UNCHANGED <<thread, ripaddr, asked>>

\* Mutant of SlipOther: every configuration message counts as a prefix.
SlipOtherFlagged(m) ==
  /\ Takes(m, "other")
  /\ prefix_set' = TRUE /\ last_sender' = source
  /\ Quiet /\ UNCHANGED <<thread, rpl, source, ripaddr, asked>>

\* Any other configuration message, too short to reach the source field.
SlipOther(m) ==
  /\ Takes(m, "other")
  /\ last_sender' = source
  /\ Quiet /\ UNCHANGED <<thread, prefix_set, rpl, source, ripaddr, asked>>

SlipDatagram(m) == Takes(m, "udp") /\ last_sender' = m.src /\ Datagram(m.src)

\* Mutant of SlipTransit: the sender is not saved.
SlipTransitUnsaved(m) ==
  /\ Takes(m, "transit")
  /\ UNCHANGED <<thread, prefix_set, rpl, last_sender, ripaddr, asked>>
  /\ Route(m.src, m.dst, "slip") /\ heard' = Unspecified

SlipTransit(m) ==
  /\ Takes(m, "transit")
  /\ last_sender' = m.src
  /\ Route(m.src, m.dst, "slip") /\ heard' = Unspecified
  /\ UNCHANGED <<thread, prefix_set, rpl, ripaddr, asked>>

SlipInput(m) == SlipConfig(m) \/ SlipOther(m) \/ SlipDatagram(m) \/ SlipTransit(m)

---------------------------------------------------------------------------
(* The host and the radio.                                                 *)

HostAnswers ==
  /\ asked /\ asked' = FALSE
  /\ \E p \in Prefixes :
       serial' \in {serial, serial \cup {Message("config", p, Unspecified, Unspecified)}}
  /\ Quiet /\ UNCHANGED <<thread, prefix_set, rpl, last_sender, source, ripaddr>>

HostSends(m) ==
  /\ m.type # "config"
  /\ serial' = serial \cup {m} /\ Cardinality(serial') <= MaxSerial
  /\ Quiet /\ UNCHANGED <<thread, prefix_set, rpl, last_sender, source, ripaddr, asked>>

RadioDatagram(n) == UNCHANGED <<last_sender, serial>> /\ Datagram(n)

RadioTransit(n, h) ==
  /\ UNCHANGED last_sender /\ Route(n, h, "radio") /\ heard' = Unspecified
  /\ UNCHANGED <<thread, prefix_set, rpl, ripaddr, asked, serial>>

\* mqtt-service.c, on the same router, sends to its broker behind the host.
OwnPacket(h) ==
  /\ UNCHANGED last_sender /\ (\E a \in OwnAddrs : Route(a, h, "own")) /\ heard' = Unspecified
  /\ UNCHANGED <<thread, prefix_set, rpl, ripaddr, asked, serial>>

Next ==
  \/ TimerRequest
  \/ TimerConfigured
  \/ \E m \in serial : SlipInput(m)
  \/ HostAnswers
  \/ \E m \in Messages : HostSends(m)
  \/ \E n \in NodeAddrs : RadioDatagram(n)
  \/ \E n \in NodeAddrs, h \in HostAddrs : RadioTransit(n, h)
  \/ \E h \in HostAddrs : OwnPacket(h)

Spec == Init /\ [][Next]_vars

\* The etimer expires, slip_process is polled, and the serial line does not lose
\* every request and every answer.
Fairness ==
  /\ WF_vars(TimerConfigured)
  /\ \A m \in Messages : WF_vars(m \in serial /\ SlipInput(m))
  /\ SF_vars(TimerRequest /\ asked')
  /\ SF_vars(HostAnswers /\ serial' # serial)

FairSpec == Spec /\ Fairness

---------------------------------------------------------------------------
(* Properties.                                                             *)

\* Whoever sends a datagram to a serving router is the one its reply is sent to:
\* server_conn is open to every sender again after each reply.  A reply to a host
\* is never kept from the serial line, whatever configuration messages left in
\* last_sender before.
AnswersSender ==
  heard # Unspecified /\ thread = "serving" =>
    out.dst = heard /\ (heard \in HostAddrs => out.via # "dropped")

\* A packet that came over the serial line is not sent back over it, be it the
\* first after a configuration message (slip-bridge.c:74).
BouncesNone == out.via = "slip" => out.origin # "slip"

\* What is kept from the serial line came over it (slip-bridge.c:90, "Do not
\* bounce packets back over SLIP if the packet was received over SLIP").
DropsOnlyBounces == out.via = "dropped" => out.origin = "slip"

\* A serving router has an address under a prefix the host gave, although flag,
\* address table and thread change at three different times.
AddressWhenServing == thread = "serving" => addrs # {}

\* The requests are repeated until the host's prefix has come and the thread has
\* seen it.
Serves == <>(thread = "serving")

\* The comment at border-router.c:189, "We have created a new DODAG when we reach
\* here".
DagWhenServing == thread = "serving" => dags # {}
=============================================================================
