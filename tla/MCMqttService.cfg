CONSTANTS
  temp = temp
  test = test
  led = led
  none = none
  MAX_KEEPALIVE_ERROR = 5
  NB_TOPICS = 3
  TempTopic = temp
  AppTopics <- MCAppTopics
  NoName = none
  TopicIds <- MCTopicIds
  PublishFlags = {0}
  MsgIds <- MCMsgIds
  ClientNameLen = 6
  TopicLen = 21
  TemperatureLens <- MCTemperatureLens
  CharIsSigned = TRUE
SPECIFICATION Spec
INVARIANTS
  TypeOK
  NoDuplicateTopics
  HeadersComplete
PROPERTIES
  RegistryGrows
  ImplementsSession
