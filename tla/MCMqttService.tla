---------------------------- MODULE MCMqttService ----------------------------
(* MqttService in an arbitrary environment, for TLC. *)
EXTENDS MqttService

CONSTANTS temp, test, led, none
MCAppTopics == {test, led}
\* The second has a low octet over 127, the last one a high octet that is not 0.
MCTopicIds == {<<0, 1>>, <<0, 200>>, <<1, 2>>}
MCMsgIds == {<<0, 1>>}
MCTemperatureLens == {4, 5}

=============================================================================
