-------------------------- MODULE MCKeepaliveMonitor --------------------------
(* KeepaliveMonitor for TLC: the node alone subscribes, to its own topic. *)
EXTENDS KeepaliveMonitor

CONSTANTS temp, none
MCAppTopics == {}
MCTopicIds == {<<0, 200>>}
MCMsgIds == {<<0, 1>>}
=============================================================================
