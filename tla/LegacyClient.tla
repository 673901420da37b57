----------------------------- MODULE LegacyClient -----------------------------
(***************************************************************************)
(* The client of border_router/example.c: it waits for a neighbour, connects *)
(* and then serves its events (datagrams, two timers, two buttons) in one    *)
(* chain of else-ifs.  The MQTT-SN library it was written for is not in the  *)
(* repository; its calls are external and may change what they like of       *)
(* `connected' and `sensors_start'.  Contiki's event queue is external too:  *)
(* first in first out, and an etimer expires when its event is in the queue. *)
(***************************************************************************)
EXTENDS Naturals, Sequences

CONSTANTS
  QueueSize    \* PROCESS_CONF_NUMEVENTS

ASSUME ClientAssumption == QueueSize \in Nat \ {0}

VARIABLES
  phase,            \* the client's thread: "discovery" or "loop"
  watching,         \* the neighbor_detection process runs
  neighbor,         \* neighbor_attr_list_neighbors() is not NULL
  neighbor_timer,   \* each timer is "off", "set" or "expired"
  connected_timer,
  sensors_timer,
  connected,        \* of the library
  sensors_start,
  queue,            \* the client's events
  done              \* what the last event made the client do

clientVars == <<phase, watching, neighbor, neighbor_timer, connected_timer,
                sensors_timer, connected, sensors_start, queue, done>>
library == <<connected, sensors_start>>
discovery == <<phase, watching, neighbor, neighbor_timer>>

\* A call of the library.
LibraryCall == connected' \in BOOLEAN /\ sensors_start' \in BOOLEAN

Buttons == {"button_1", "button_2"}
ClientEvents == Buttons \cup {"tcpip", "timer"}

ClientInit ==
  /\ phase = "discovery" /\ watching = TRUE /\ neighbor = FALSE
  /\ neighbor_timer = "set" /\ connected_timer = "off" /\ sensors_timer = "off"
  /\ connected = FALSE /\ sensors_start = FALSE
  /\ queue = <<>> /\ done = "none"

---------------------------------------------------------------------------
(* neighbor_detection.                                                     *)

NeighborTimerExpires ==
  /\ neighbor_timer = "set" /\ neighbor_timer' = "expired"
  /\ UNCHANGED <<phase, watching, neighbor, connected_timer, sensors_timer, library, queue, done>>

\* Mutant of Detect: the timer is not set again.
DetectOnce ==
  /\ watching /\ neighbor_timer = "expired"
  /\ IF neighbor
     THEN /\ watching' = FALSE /\ phase' = "loop" /\ neighbor_timer' = "off"
          /\ connected_timer' = "set" /\ sensors_timer' = "set" /\ done' = "connect"
          /\ LibraryCall
     ELSE /\ neighbor_timer' = "off" /\ done' = "none"
          /\ UNCHANGED <<phase, watching, connected_timer, sensors_timer, library>>
  /\ UNCHANGED <<neighbor, queue>>

\* With a neighbour the client is told at once and runs to its loop: topic and
\* client ids, mqtt_connect, both timers.
Detect ==
  /\ watching /\ neighbor_timer = "expired"
  /\ IF neighbor
     THEN /\ watching' = FALSE /\ phase' = "loop" /\ neighbor_timer' = "off"
          /\ connected_timer' = "set" /\ sensors_timer' = "set" /\ done' = "connect"
          /\ LibraryCall
     ELSE /\ neighbor_timer' = "set" /\ done' = "none"
          /\ UNCHANGED <<phase, watching, connected_timer, sensors_timer, library>>
  /\ UNCHANGED <<neighbor, queue>>

---------------------------------------------------------------------------
(* mqtt_client_process.                                                    *)

Serves(e) == phase = "loop" /\ queue # <<>> /\ Head(queue) = e /\ queue' = Tail(queue)

\* Before discovery every other event is dropped.
Ignore ==
  /\ phase = "discovery" /\ queue # <<>> /\ Head(queue) \notin Buttons
  /\ queue' = Tail(queue) /\ done' = "none"
  /\ UNCHANGED <<discovery, connected_timer, sensors_timer, library>>

\* Button events are for every process: neighbor_detection looks for a neighbour
\* then too, and the client that enters its loop serves the event there.  A timer
\* that is set again leaves an event that is on its way.
Pressed ==
  /\ phase = "discovery" /\ queue # <<>> /\ Head(queue) \in Buttons
  /\ queue' = Tail(queue)
  /\ IF neighbor
     THEN /\ watching' = FALSE /\ phase' = "loop" /\ neighbor_timer' = "off"
          /\ connected_timer' = "set" /\ sensors_timer' = "set" /\ done' = Head(queue)
          /\ LibraryCall
     ELSE /\ done' = "none"
          /\ UNCHANGED <<watching, phase, neighbor_timer, connected_timer, sensors_timer, library>>
  /\ UNCHANGED neighbor

\* tcpip_handler.
Tcpip ==
  /\ Serves("tcpip") /\ LibraryCall /\ done' = "tcpip"
  /\ UNCHANGED <<discovery, connected_timer, sensors_timer>>

Reconnecting == connected_timer = "expired" /\ ~connected

\* Mutant of SendConnect: connected_timer is not set again.
SendConnectOnce ==
  /\ \E e \in ClientEvents \ {"tcpip"} : Serves(e)
  /\ Reconnecting /\ LibraryCall
  /\ connected_timer' = "off" /\ done' = "connect"
  /\ UNCHANGED <<discovery, sensors_timer>>

\* send_connect_msg.
SendConnect ==
  /\ \E e \in ClientEvents \ {"tcpip"} : Serves(e)
  /\ Reconnecting /\ LibraryCall
  /\ connected_timer' = "set" /\ done' = "connect"
  /\ UNCHANGED <<discovery, sensors_timer>>

\* Mutant of Sensors: the timer is not set again.
SensorsUnset ==
  /\ \E e \in ClientEvents \ {"tcpip"} : Serves(e)
  /\ ~Reconnecting /\ sensors_timer = "expired" /\ LibraryCall
  /\ done' \in {"reading", "output"}
  /\ UNCHANGED <<discovery, connected_timer, sensors_timer>>

\* handle_mqtt_output_udp and, if the sensors are on, timer_callback; the former may
\* switch them, so that either may follow.
Sensors ==
  /\ \E e \in ClientEvents \ {"tcpip"} : Serves(e)
  /\ ~Reconnecting /\ sensors_timer = "expired" /\ LibraryCall
  /\ sensors_timer' = "set" /\ done' \in {"reading", "output"}
  /\ UNCHANGED <<discovery, connected_timer>>

\* Mutant of Button: the second one is forgotten.
ButtonFirst ==
  /\ \E e \in Buttons : Serves(e) /\ done' = IF e = "button_1" THEN e ELSE "none"
  /\ ~Reconnecting /\ sensors_timer # "expired" /\ LibraryCall
  /\ UNCHANGED <<discovery, connected_timer, sensors_timer>>

\* publish_first_switch or publish_second_switch.
Button ==
  /\ \E e \in Buttons : Serves(e) /\ done' = e
  /\ ~Reconnecting /\ sensors_timer # "expired" /\ LibraryCall
  /\ UNCHANGED <<discovery, connected_timer, sensors_timer>>

\* The event of a timer that has been served already, or that of connected_timer
\* in a connection.
NoBranch ==
  /\ Serves("timer") /\ ~Reconnecting /\ sensors_timer # "expired" /\ done' = "none"
  /\ UNCHANGED <<discovery, connected_timer, sensors_timer, library>>

Client == Ignore \/ Pressed \/ Tcpip \/ SendConnect \/ Sensors \/ Button \/ NoBranch

---------------------------------------------------------------------------
(* External: the queue, the radio and the user.                            *)

Post(e) == Len(queue) < QueueSize /\ queue' = Append(queue, e)

ConnectedTimerExpires ==
  /\ connected_timer = "set" /\ Post("timer") /\ connected_timer' = "expired"
  /\ UNCHANGED <<discovery, sensors_timer, library, done>>

SensorsTimerExpires ==
  /\ sensors_timer = "set" /\ Post("timer") /\ sensors_timer' = "expired"
  /\ UNCHANGED <<discovery, connected_timer, library, done>>

Arrives ==
  /\ \E e \in Buttons \cup {"tcpip"} : Post(e)
  /\ UNCHANGED <<discovery, connected_timer, sensors_timer, library, done>>

NeighborSeen ==
  /\ neighbor' = ~neighbor
  /\ UNCHANGED <<phase, watching, neighbor_timer, connected_timer, sensors_timer,
                 library, queue, done>>

ClientNext ==
  \/ NeighborTimerExpires \/ Detect \/ Client
  \/ ConnectedTimerExpires \/ SensorsTimerExpires \/ Arrives \/ NeighborSeen

ClientSpec == ClientInit /\ [][ClientNext]_clientVars

\* The scheduler serves every event and the etimer process, polled until it can
\* post, finds room in a queue that empties time and again.
ClientFairness ==
  /\ WF_clientVars(NeighborTimerExpires) /\ WF_clientVars(Detect) /\ WF_clientVars(Client)
  /\ SF_clientVars(ConnectedTimerExpires) /\ SF_clientVars(SensorsTimerExpires)

---------------------------------------------------------------------------
(* Properties.                                                             *)

ClientTypeOK ==
  /\ phase \in {"discovery", "loop"} /\ watching \in BOOLEAN /\ neighbor \in BOOLEAN
  /\ {neighbor_timer, connected_timer, sensors_timer} \subseteq {"off", "set", "expired"}
  /\ connected \in BOOLEAN /\ sensors_start \in BOOLEAN
  /\ queue \in Seq(ClientEvents) /\ Len(queue) <= QueueSize
  /\ done \in ClientEvents \cup {"none", "connect", "reading", "output"}

Waiting(e) == \E k \in 1 .. Len(queue) : queue[k] = e

\* An expired sensors_timer whose event went to the branch of connected_timer
\* (lines 166-170) is not forgotten: another timer event is on its way.
SensorsDue == sensors_timer = "expired" => connected_timer = "set" \/ Waiting("timer")

\* A button press that does nothing gave way to a reconnection, or to readings that
\* are due: their own event still waits behind it in the queue, or was spent on a
\* reconnection, which set connected_timer (lines 166-175).
LostOnlyToTimers ==
  [][\A e \in Buttons : Serves(e) /\ done' # e =>
       \/ Reconnecting
       \/ sensors_timer = "expired" /\ (\E k \in 2 .. Len(queue) : queue[k] = "timer")
       \/ sensors_timer = "expired" /\ connected_timer = "set"]_clientVars

\* A client whose neighbour stays gets to its loop, and never stops trying there:
\* it is connected, or sends CONNECT, again and again, whatever is pressed or
\* received meanwhile.
KeepsTrying ==
  /\ <>[]neighbor => <>(phase = "loop")
  /\ <>(phase = "loop") => []<>connected \/ []<><<SendConnect>>_clientVars

\* In a lasting connection the readings go out again and again.
SensorsServed == <>[](phase = "loop" /\ connected) => []<><<Sensors>>_clientVars
=============================================================================
