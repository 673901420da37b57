------------------------------- MODULE Session -------------------------------
(***************************************************************************)
(* What the MQTT-SN service promises the process that called mqtt_connect:  *)
(* a session that is up or down, a count of the periods since the broker    *)
(* was last heard, and at most one event per step.  DISCONNECTED is given   *)
(* only by a session that is up and has missed MaxMisses periods in a row,  *)
(* CONNECTED always with a fresh count, and a session never goes down in    *)
(* silence.  Nothing is said of datagrams, topics or timers.                *)
(***************************************************************************)
EXTENDS Naturals

CONSTANT MaxMisses

VARIABLES
  up,      \* the client may publish and subscribe
  misses,  \* periods started since the broker was last heard
  event    \* what the client was told by the last step

sessionVars == <<up, misses, event>>

SessionInit == up = FALSE /\ misses = 0 /\ event = "NONE"

Establish == up' = TRUE /\ misses' = 0 /\ event' = "CONNECTED"

\* An answer to a ping, or the start of the service.
Heard == misses' = 0 /\ event' = "NONE" /\ UNCHANGED up

Miss == up /\ misses < MaxMisses /\ misses' = misses + 1 /\ event' = "NONE" /\ UNCHANGED up

GiveUp == up /\ misses = MaxMisses /\ up' = FALSE /\ event' = "DISCONNECTED" /\ UNCHANGED misses

Deliver == up /\ event' = "PUBLISH" /\ UNCHANGED <<up, misses>>

Quiet == event' = "NONE" /\ UNCHANGED <<up, misses>>

SessionNext == Establish \/ Heard \/ Miss \/ GiveUp \/ Deliver \/ Quiet

SessionSpec == SessionInit /\ [][SessionNext]_sessionVars
=============================================================================
