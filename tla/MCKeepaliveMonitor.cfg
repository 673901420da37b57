CONSTANTS
  temp = temp
  none = none
  MAX_KEEPALIVE_ERROR = 3
  NB_TOPICS = 2
  TempTopic = temp
  AppTopics <- MCAppTopics
  NoName = none
  TopicIds <- MCTopicIds
  PublishFlags = {0}
  MsgIds <- MCMsgIds
  ClientNameLen = 6
  TopicLen = 7
  TemperatureLens = {5}
  CharIsSigned = FALSE
  MaxInFlight = 3
  Timely = TRUE
  Duplicates = FALSE
  BrokerFails = TRUE
  BrokerPersists = FALSE
  NodeResets = TRUE
  Patient = TRUE
SPECIFICATION FairMonSpec
INVARIANT NoFalseAlarm
PROPERTIES
  Reconnects
  Notices
