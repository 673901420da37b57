--------------------------- MODULE MCSensorNetwork ---------------------------
(* SensorNetwork for TLC: the node subscribes to its own topic, and in some runs
   its client to another. *)
EXTENDS SensorNetwork

CONSTANTS temp, test, none
MCAppTopics == {}
\* A client that subscribes when it is told CONNECTED.
MCClientTopics == {test}
\* One id, of one octet with its top bit set.
MCTopicIds == {<<0, 200>>}
MCTwoTopicIds == {<<0, 1>>, <<0, 2>>}
\* Two that differ in the high octet only, and one that a signed char extends.
MCThreeTopicIds == {<<0, 1>>, <<1, 1>>, <<0, 200>>}
MCMsgIds == {<<0, 1>>}
=============================================================================
