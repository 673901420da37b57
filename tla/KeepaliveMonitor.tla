--------------------------- MODULE KeepaliveMonitor ---------------------------
(***************************************************************************)
(* SensorNetwork with a record of how the periods of the keepalive timer    *)
(* went, for the properties of keepalive_error.                             *)
(***************************************************************************)
EXTENDS SensorNetwork

VARIABLE
  history  \* of the periods, as an observer of node, network and broker sees it

monVars == <<running, mqtt, sent, posted, toBroker, toNode, broker, history>>

\* fault: in this period something went wrong that may cost a ping its answer.
\* faultyPeriods: how many periods in a row had a fault, up to the node's limit.
MonInit == NetInit /\ history = [fault |-> FALSE, faultyPeriods |-> 0]

---------------------------------------------------------------------------

Stopped == broker.up /\ ~broker'.up

MonTimer ==
  /\ NodeTimer
  /\ history' =
       [fault |-> SendLost,
        faultyPeriods |-> IF history.fault
                          THEN Min({history.faultyPeriods + 1, MAX_KEEPALIVE_ERROR})
                          ELSE 0]

MonOther ==
  /\ OtherStep
  /\ history' =
       [history EXCEPT !.fault = @ \/ SendLost \/ AnswerLost \/ Stopped \/ ~running']

MonNext == MonTimer \/ MonOther

MonSpec == MonInit /\ [][MonNext]_monVars

FairMonSpec == MonSpec /\ Runnable /\ FairLossy

---------------------------------------------------------------------------
(* Properties.                                                             *)

\* The client is told DISCONNECTED only when each of the last
\* MAX_KEEPALIVE_ERROR periods had a fault: one lost ping or answer among good
\* ones never drops a session, and a session is never dropped early.
NoFalseAlarm ==
  posted.type = "DISCONNECTED" => history.faultyPeriods = MAX_KEEPALIVE_ERROR
=============================================================================
