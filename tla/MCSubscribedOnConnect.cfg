CONSTANTS
  temp = temp
  test = test
  none = none
  MAX_KEEPALIVE_ERROR = 2
  NB_TOPICS = 2
  TempTopic = temp
  AppTopics <- MCAppTopics
  NoName = none
  TopicIds <- MCTopicIds
  PublishFlags = {0}
  MsgIds <- MCMsgIds
  ClientNameLen = 6
  TopicLen = 7
  TemperatureLens = {5}
  CharIsSigned = FALSE
  MaxInFlight = 2
  Timely = TRUE
  Duplicates = FALSE
  BrokerFails = TRUE
  BrokerPersists = FALSE
  NodeResets = FALSE
  Patient = TRUE
SPECIFICATION NetSpec
INVARIANT SubscribedOnConnect
