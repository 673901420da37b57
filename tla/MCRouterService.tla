--------------------------- MODULE MCRouterService ---------------------------
(* RouterService in an arbitrary environment, for TLC. *)
EXTENDS RouterService

CONSTANTS test, led, long, none

MCTopics == {test, led, long}
MCStrlen == [t \in MCTopics |-> CASE t = test -> 4 [] t = led -> 13 [] OTHER -> 16]
\* 456 is 0x01c8: its low octet is over 127, so a signed char extends it to
\* 0xffc8, the value the id 0x00c8 has as well.
MCIds == {0, 1, 200, 456, 65480}
MCWireId == [i \in MCIds |-> IF i \in {200, 456} THEN 65480 ELSE i]
=============================================================================
