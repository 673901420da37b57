----------------------------- MODULE BoardsProofs -----------------------------
(***************************************************************************)
(* Proofs about LegacyClient, and that each program in Boards behaves as its  *)
(* own specification says, so that what is proved of one holds there.        *)
(*                                                                         *)
(* For the client, an event leaves the queue by being served, and only       *)
(* datagrams, which leave every timer as it is, and presses that find        *)
(* sensors_timer not expired leave it without setting a timer.  So it is      *)
(* enough to know that the timer is off before the loop, and what Tail and    *)
(* Append do to an event that waits.                                        *)
(***************************************************************************)
EXTENDS Boards, ThermometerProofs, LedStripProofs, MqttMsgProofs

---------------------------------------------------------------------------
(* The legacy client.                                                      *)

TimerStates == {"off", "set", "expired"}

\* The type invariant in three parts: the flags, the thread with its timers, and
\* the events.
Flags ==
  /\ watching \in BOOLEAN /\ neighbor \in BOOLEAN
  /\ connected \in BOOLEAN /\ sensors_start \in BOOLEAN

Threads ==
  /\ phase \in {"discovery", "loop"} /\ neighbor_timer \in TimerStates
  /\ connected_timer \in TimerStates /\ sensors_timer \in TimerStates
  /\ done \in ClientEvents \cup {"none", "connect", "reading", "output"}

Events == queue \in Seq(ClientEvents) /\ Len(queue) <= QueueSize

ClientTyped == Flags /\ Threads /\ Events

\* sensors_timer is first set when the client enters its loop.
OffBefore == phase = "discovery" => sensors_timer = "off"

DueInv == ClientTyped /\ OffBefore /\ SensorsDue

\* An event other than the first still waits when the first is taken.
LEMMA WaitsBehind ==
  ASSUME queue \in Seq(ClientEvents), queue # <<>>, NEW e, Waiting(e), Head(queue) # e,
         queue' = Tail(queue)
  PROVE  Waiting(e)'
<1>1. PICK k \in 1 .. Len(queue) : queue[k] = e
  BY DEF Waiting
<1>2. k # 1
  BY <1>1
<1>3. k - 1 \in 1 .. Len(queue') /\ queue'[k - 1] = queue[k]
  BY <1>1, <1>2
<1> QED
  BY <1>1, <1>3 DEF Waiting

\* An event added to the queue waits, and those before it go on waiting.
LEMMA WaitsStill ==
  ASSUME queue \in Seq(ClientEvents), NEW a \in ClientEvents, queue' = Append(queue, a)
  PROVE  Waiting(a)' /\ \A e : Waiting(e) => Waiting(e)'
<1>1. Len(queue') = Len(queue) + 1 /\ queue'[Len(queue) + 1] = a
  OBVIOUS
<1>2. \A k \in 1 .. Len(queue) : queue'[k] = queue[k]
  OBVIOUS
<1>3. Len(queue) \in Nat
  OBVIOUS
<1> QED
  BY <1>1, <1>2, <1>3 DEF Waiting

LEMMA TypedInit == ClientInit => ClientTyped
<1> SUFFICES ASSUME ClientInit PROVE ClientTyped
  OBVIOUS
<1>1. Flags
  BY Zenon DEF ClientInit, Flags
<1>2. Threads
  BY DEF ClientInit, Threads, TimerStates
<1>3. Events
  BY ClientAssumption DEF ClientInit, Events
<1> QED
  BY <1>1, <1>2, <1>3 DEF ClientTyped

\* What taking an event and adding one leave of the queue.
LEMMA Taken ==
  ASSUME Events, queue # <<>>, queue' = Tail(queue)
  PROVE  Events' /\ Head(queue) \in ClientEvents
<1>1. Tail(queue) \in Seq(ClientEvents) /\ Len(Tail(queue)) = Len(queue) - 1 /\ Len(queue) \in Nat
  BY DEF Events
<1>2. Head(queue) \in ClientEvents
  BY DEF Events
<1> QED
  BY <1>1, <1>2, ClientAssumption DEF Events

LEMMA Posted ==
  ASSUME Events, NEW e \in ClientEvents, Post(e)
  PROVE  Events'
<1>1. /\ Append(queue, e) \in Seq(ClientEvents) /\ Len(Append(queue, e)) = Len(queue) + 1
      /\ Len(queue) \in Nat
  BY DEF Events
<1> QED
  BY <1>1, ClientAssumption DEF Events, Post

LEMMA TypedStep == ClientTyped /\ [ClientNext]_clientVars => ClientTyped'
<1> SUFFICES ASSUME ClientTyped, [ClientNext]_clientVars PROVE ClientTyped'
  OBVIOUS
<1> USE DEF discovery, library
<1>1. CASE NeighborTimerExpires
  BY <1>1 DEF NeighborTimerExpires, ClientTyped, Flags, Threads, Events, TimerStates
<1>2. CASE Detect
  <2>1. Flags'
    BY <1>2, Zenon DEF Detect, LibraryCall, ClientTyped, Flags
  <2>2. Threads' /\ Events'
    BY <1>2 DEF Detect, ClientTyped, Threads, Events, TimerStates
  <2> QED
    BY <2>1, <2>2 DEF ClientTyped
<1>3. CASE Client
  <2>1. Flags'
    <3>1. Ignore \/ NoBranch => UNCHANGED <<watching, neighbor, library>>
      BY DEF Ignore, NoBranch
    <3>2. Pressed => /\ watching' \in {watching, FALSE} /\ UNCHANGED neighbor
                     /\ LibraryCall \/ UNCHANGED library
      BY DEF Pressed
    <3>3. Tcpip \/ SendConnect \/ Sensors \/ Button => LibraryCall /\ UNCHANGED <<watching, neighbor>>
      BY DEF Tcpip, SendConnect, Sensors, Button
    <3> QED
      BY <1>3, <3>1, <3>2, <3>3, Zenon DEF Client, ClientTyped, Flags, LibraryCall
  <2>2. queue # <<>> /\ queue' = Tail(queue)
    BY <1>3 DEF Client, Ignore, Pressed, Tcpip, SendConnect, Sensors, Button, NoBranch, Serves
  <2>3. Events' /\ Head(queue) \in ClientEvents
    BY <2>2, Taken DEF ClientTyped
  <2>4. Threads'
    <3> USE DEF Threads, TimerStates, ClientTyped
    <3>1. CASE Ignore BY <3>1 DEF Ignore
    <3>2. CASE Tcpip BY <3>2 DEF Tcpip, ClientEvents
    <3>3. CASE SendConnect BY <3>3 DEF SendConnect
    <3>4. CASE Sensors BY <3>4 DEF Sensors
    <3>5. CASE Button BY <3>5 DEF Button, ClientEvents
    <3>6. CASE NoBranch BY <3>6 DEF NoBranch
    <3>7. CASE Pressed BY <2>3, <3>7 DEF Pressed
    <3> QED BY <1>3, <3>1, <3>2, <3>3, <3>4, <3>5, <3>6, <3>7 DEF Client
  <2> QED
    BY <2>1, <2>3, <2>4 DEF ClientTyped
<1>4. CASE ConnectedTimerExpires \/ SensorsTimerExpires \/ Arrives
  <2>1. PICK e \in ClientEvents : Post(e)
    BY <1>4 DEF ConnectedTimerExpires, SensorsTimerExpires, Arrives, ClientEvents
  <2>2. UNCHANGED <<discovery, library, done>>
    BY <1>4 DEF ConnectedTimerExpires, SensorsTimerExpires, Arrives
  <2>3. Flags'
    BY <2>2, Zenon DEF ClientTyped, Flags
  <2>4. Threads'
    BY <1>4, <2>2 DEF ConnectedTimerExpires, SensorsTimerExpires, Arrives, ClientTyped, Threads, TimerStates
  <2>5. Events'
    BY <2>1, Posted DEF ClientTyped
  <2> QED
    BY <2>3, <2>4, <2>5 DEF ClientTyped
<1>5. CASE NeighborSeen
  BY <1>5 DEF NeighborSeen, ClientTyped, Flags, Threads, Events
<1>6. CASE UNCHANGED clientVars
  BY <1>6 DEF clientVars, ClientTyped, Flags, Threads, Events
<1> QED
  BY <1>1, <1>2, <1>3, <1>4, <1>5, <1>6 DEF ClientNext

\* The client's event queue never outgrows its size and holds its events only; every
\* flag and timer keeps to its values (example.c:127-206).
THEOREM ClientTypeCorrect == ClientSpec => []ClientTypeOK
<1>1. ClientTyped => ClientTypeOK
  BY DEF ClientTyped, Flags, Threads, Events, TimerStates, ClientTypeOK
<1> QED
  BY TypedInit, TypedStep, <1>1, PTL DEF ClientSpec

\* A step that leaves timers and queue alone.
LEMMA DueSame ==
  ASSUME DueInv, UNCHANGED <<phase, queue, connected_timer, sensors_timer>>
  PROVE  (OffBefore /\ SensorsDue)'
BY DEF DueInv, OffBefore, SensorsDue, Waiting

\* A step that only adds an event.
LEMMA DueAppend ==
  ASSUME DueInv, NEW e \in ClientEvents, queue' = Append(queue, e),
         UNCHANGED <<phase, sensors_timer>>,
         connected_timer' = connected_timer \/ e = "timer"
  PROVE  (OffBefore /\ SensorsDue)'
<1>1. Waiting(e)' /\ (Waiting("timer") => Waiting("timer")')
  BY WaitsStill DEF DueInv, ClientTyped, Events
<1> QED
  BY <1>1 DEF DueInv, OffBefore, SensorsDue

LEMMA DueServed ==
  ASSUME DueInv, Client
  PROVE  (OffBefore /\ SensorsDue)'
<1> USE DEF DueInv, OffBefore, discovery
<1>1. CASE Ignore BY <1>1 DEF Ignore, SensorsDue
<1>2. CASE Tcpip
  <2>1. Waiting("timer") => Waiting("timer")'
    BY <1>2, WaitsBehind DEF Tcpip, Serves, ClientTyped, Events
  <2> QED BY <1>2, <2>1 DEF Tcpip, SensorsDue
<1>3. CASE SendConnect BY <1>3 DEF SendConnect, SensorsDue, Serves
<1>4. CASE Sensors BY <1>4 DEF Sensors, SensorsDue, Serves
<1>5. CASE Button BY <1>5 DEF Button, SensorsDue, Serves
<1>6. CASE NoBranch BY <1>6 DEF NoBranch, SensorsDue, Serves
<1>7. CASE Pressed BY <1>7 DEF Pressed, SensorsDue
<1> QED BY <1>1, <1>2, <1>3, <1>4, <1>5, <1>6, <1>7 DEF Client

LEMMA DueStep == DueInv /\ [ClientNext]_clientVars => DueInv'
<1> SUFFICES ASSUME DueInv, [ClientNext]_clientVars PROVE (OffBefore /\ SensorsDue)'
  BY TypedStep DEF DueInv
<1>1. CASE NeighborTimerExpires
  BY <1>1, DueSame DEF NeighborTimerExpires
<1>2. CASE Detect
  <2>1. CASE neighbor BY <1>2, <2>1 DEF Detect, OffBefore, SensorsDue
  <2>2. CASE ~neighbor BY <1>2, <2>2, DueSame DEF Detect
  <2> QED BY <2>1, <2>2
<1>3. CASE Client BY <1>3, DueServed
<1>4. CASE ConnectedTimerExpires
  BY <1>4, DueAppend DEF ConnectedTimerExpires, Post, ClientEvents, discovery
<1>5. CASE SensorsTimerExpires
  <2>1. queue' = Append(queue, "timer") /\ "timer" \in ClientEvents
    BY <1>5 DEF SensorsTimerExpires, Post, ClientEvents
  <2>2. Waiting("timer")'
    BY <2>1, WaitsStill DEF DueInv, ClientTyped, Events
  <2> QED BY <1>5, <2>2 DEF SensorsTimerExpires, DueInv, OffBefore, SensorsDue, discovery
<1>6. CASE Arrives
  BY <1>6, DueAppend DEF Arrives, Post, ClientEvents, discovery
<1>7. CASE NeighborSeen BY <1>7, DueSame DEF NeighborSeen
<1>8. CASE UNCHANGED clientVars BY <1>8, DueSame DEF clientVars, discovery
<1> QED
  BY <1>1, <1>2, <1>3, <1>4, <1>5, <1>6, <1>7, <1>8 DEF ClientNext

\* The client never forgets its sensors: while sensors_timer is expired, a timer
\* event is in the queue or connected_timer will bring one (example.c:166-175).
THEOREM SensorsAreDue == ClientSpec => []SensorsDue
<1>1. ClientInit => DueInv
  BY TypedInit DEF ClientInit, DueInv, OffBefore, SensorsDue
<1>2. DueInv => SensorsDue
  BY DEF DueInv
<1> QED
  BY <1>1, <1>2, DueStep, PTL DEF ClientSpec

\* A press that is lost was lost to a reconnection or to readings that were due
\* (LostOnlyToTimers): the step form of SensorsDue.
THEOREM PressesLostToTimers == ClientSpec => LostOnlyToTimers
<1>1. DueInv /\ [ClientNext]_clientVars =>
      [\A e \in Buttons : Serves(e) /\ done' # e =>
         \/ Reconnecting
         \/ sensors_timer = "expired" /\ (\E k \in 2 .. Len(queue) : queue[k] = "timer")
         \/ sensors_timer = "expired" /\ connected_timer = "set"]_clientVars
  <2> SUFFICES ASSUME DueInv, ClientNext, NEW e \in Buttons, Serves(e), done' # e, ~Reconnecting
               PROVE  /\ sensors_timer = "expired"
                      /\ \/ \E k \in 2 .. Len(queue) : queue[k] = "timer"
                         \/ connected_timer = "set"
    OBVIOUS
  <2>1. queue # <<>> /\ Head(queue) = e /\ queue' = Tail(queue) /\ queue \in Seq(ClientEvents)
    BY DEF Serves, DueInv, ClientTyped, Events
  <2>2. Len(queue') = Len(queue) - 1 /\ Len(queue) >= 1
    BY <2>1
  <2>3. \A a \in ClientEvents : queue' # Append(queue, a)
    <3>1. \A a \in ClientEvents : Len(Append(queue, a)) = Len(queue) + 1
      BY <2>1
    <3>2. Len(queue) \in Nat
      BY <2>1
    <3>3. Len(queue) + 1 # Len(queue) - 1
      BY <3>2
    <3> QED BY <2>2, <3>1, <3>3, Zenon
  <2>4. queue' # queue
    <3>1. Len(queue) \in Nat
      BY <2>1
    <3>2. Len(queue) # Len(queue) - 1
      BY <3>1
    <3> QED BY <2>2, <3>2, Zenon
  <2>5. sensors_timer = "expired"
    <3>1. Client
      BY <2>3, <2>4 DEF ClientNext, NeighborTimerExpires, Detect, ConnectedTimerExpires,
        SensorsTimerExpires, Arrives, NeighborSeen, Post, ClientEvents
    <3>2. phase = "loop" /\ e # "tcpip" /\ e # "timer"
      BY DEF Serves, Buttons
    <3>3. \A f : Serves(f) => f = e
      BY <2>1 DEF Serves
    <3>4. CASE Ignore BY <3>4, <3>2 DEF Ignore
    <3>5. CASE Tcpip BY <3>5, <3>2, <3>3 DEF Tcpip
    <3>6. CASE SendConnect BY <3>6 DEF SendConnect
    <3>7. CASE Sensors BY <3>7 DEF Sensors
    <3>8. CASE Button BY <3>8, <3>3 DEF Button
    <3>9. CASE NoBranch BY <3>9, <3>2, <3>3 DEF NoBranch
    <3>10. CASE Pressed BY <3>10, <3>2 DEF Pressed
    <3> QED BY <3>1, <3>4, <3>5, <3>6, <3>7, <3>8, <3>9, <3>10 DEF Client
  <2>6. CASE connected_timer = "set" BY <2>5, <2>6
  <2>7. CASE Waiting("timer")
    <3>1. PICK k \in 1 .. Len(queue) : queue[k] = "timer"
      BY <2>7 DEF Waiting
    <3>2. k # 1
      BY <2>1, <3>1 DEF Buttons
    <3> QED BY <2>2, <2>5, <3>1, <3>2, <2>1
  <2> QED BY <2>5, <2>6, <2>7 DEF DueInv, SensorsDue
<1>2. ClientInit => DueInv
  BY TypedInit DEF ClientInit, DueInv, OffBefore, SensorsDue
<1> QED
  BY <1>1, <1>2, DueStep, PTL DEF ClientSpec, LostOnlyToTimers

---------------------------------------------------------------------------
(* The boards.                                                             *)

\* Whichever program runs, each of them starts as it does by itself and only
\* takes its own steps.
THEOREM BoardsImplement == Spec => ThermoSpec /\ StripSpec /\ ClientSpec /\ MsgSpec
<1>1. Init => ThermoInit /\ StripInit /\ ClientInit /\ MsgInit
  BY DEF Init
<1>2. ASSUME [Next]_vars
      PROVE  /\ [ThermoNext]_thermoVars /\ [StripNext]_stripVars
             /\ [ClientNext]_clientVars /\ [MsgNext]_msgVars
  <2>1. CASE Thermo(ThermoNext)
    BY <2>1 DEF Thermo
  <2>2. CASE Strip(StripNext)
    BY <2>2 DEF Strip
  <2>3. CASE Legacy(ClientNext)
    BY <2>3 DEF Legacy
  <2>4. CASE Encoders(MsgNext)
    BY <2>4 DEF Encoders
  <2>5. CASE UNCHANGED vars
    BY <2>5 DEF vars
  <2> QED
    BY <1>2, <2>1, <2>2, <2>3, <2>4, <2>5 DEF Next
<1>3. [Next]_vars => /\ [ThermoNext]_thermoVars /\ [StripNext]_stripVars
                     /\ [ClientNext]_clientVars /\ [MsgNext]_msgVars
  BY <1>2
<1> QED
  BY <1>1, <1>3, PTL DEF Spec, ThermoSpec, StripSpec, ClientSpec, MsgSpec

\* So the types of all of them are right, whichever runs.
THEOREM BoardsTypeCorrect == Spec => []BoardsTypeOK
<1>1. Init => running \in Boards
  BY DEF Init
<1>2. running \in Boards /\ [Next]_vars => (running \in Boards)'
  BY DEF Next, vars, Thermo, Strip, Legacy, Encoders, Runs
<1>3. Spec => [](running \in Boards)
  BY <1>1, <1>2, PTL DEF Spec
<1> QED
  BY <1>3, BoardsImplement, ThermoTypeCorrect, StripTypeCorrect, ClientTypeCorrect, PTL
     DEF BoardsTypeOK
=============================================================================
