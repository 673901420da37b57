CONSTANTS
  temp = temp
  test = test
  none = none
  MAX_KEEPALIVE_ERROR = 1
  NB_TOPICS = 2
  TempTopic = temp
  AppTopics <- MCAppTopics
  NoName = none
  TopicIds <- MCTopicIds
  PublishFlags = {0}
  MsgIds <- MCMsgIds
  ClientNameLen = 6
  TopicLen = 7
  TemperatureLens = {5}
  CharIsSigned = TRUE
  MaxInFlight = 2
  Timely = FALSE
  Duplicates = TRUE
  BrokerFails = TRUE
  BrokerPersists = TRUE
  NodeResets = TRUE
  Patient = TRUE
SPECIFICATION NetSpec
INVARIANTS
  NetTypeOK
  DeliveredUnderName
  PublishUnderOwnId
