-------------------------------- MODULE Boards --------------------------------
(***************************************************************************)
(* The programs that do not talk to each other: a behaviour is one of the    *)
(* thermometer, the LED strip, the legacy client or the encoders, and leaves *)
(* the variables of the others as they start.                               *)
(***************************************************************************)
EXTENDS Thermometer, LedStrip, LegacyClient, MqttMsg

Boards == {"thermometer", "strip", "client", "encoders"}

VARIABLE running   \* which program

vars == <<running, thermoVars, stripVars, clientVars, msgVars>>

Init ==
  /\ running \in Boards
  /\ ThermoInit /\ (running = "thermometer" \/ <<board, present, room>> = <<"oled", TRUE, 337>>)
  /\ StripInit
  /\ ClientInit /\ MsgInit

Runs(p) == running = p /\ UNCHANGED running

Thermo(move) == Runs("thermometer") /\ move /\ UNCHANGED <<stripVars, clientVars, msgVars>>
Strip(move) == Runs("strip") /\ move /\ UNCHANGED <<thermoVars, clientVars, msgVars>>
Legacy(move) == Runs("client") /\ move /\ UNCHANGED <<thermoVars, stripVars, msgVars>>
Encoders(move) == Runs("encoders") /\ move /\ UNCHANGED <<thermoVars, stripVars, clientVars>>

Next == Thermo(ThermoNext) \/ Strip(StripNext) \/ Legacy(ClientNext) \/ Encoders(MsgNext)

\* ThermoFairness and ClientFairness, each in the behaviours of its program.
Spec ==
  /\ Init /\ [][Next]_vars
  /\ WF_vars(Thermo(ThermoProgress)) /\ SF_vars(Thermo(BusReset))
  /\ WF_vars(Legacy(NeighborTimerExpires)) /\ WF_vars(Legacy(Detect)) /\ WF_vars(Legacy(Client))
  /\ SF_vars(Legacy(ConnectedTimerExpires)) /\ SF_vars(Legacy(SensorsTimerExpires))

\* The types of all of them.
BoardsTypeOK == running \in Boards /\ ThermoTypeOK /\ StripTypeOK /\ ClientTypeOK

\* The liveness of each program, in its own behaviours.
ThermometerReads == running = "thermometer" => KeepsReading
ClientTries == running = "client" => KeepsTrying
ClientReads == running = "client" => SensorsServed
=============================================================================
