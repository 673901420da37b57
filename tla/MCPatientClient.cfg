CONSTANTS
  temp = temp
  test = test
  none = none
  MAX_KEEPALIVE_ERROR = 2
  NB_TOPICS = 2
  TempTopic = temp
  AppTopics <- MCClientTopics
  NoName = none
  TopicIds <- MCThreeTopicIds
  PublishFlags = {0}
  MsgIds <- MCMsgIds
  ClientNameLen = 6
  TopicLen = 7
  TemperatureLens = {5}
  CharIsSigned = TRUE
  MaxInFlight = 2
  Timely = TRUE
  Duplicates = FALSE
  BrokerFails = TRUE
  BrokerPersists = TRUE
  NodeResets = TRUE
  Patient = TRUE
SPECIFICATION NetSpec
INVARIANTS
  RegisteredAtBroker
  DeliveredUnderName
  TableExact
