CONSTANTS
  test = test
  led = led
  long = long
  none = none
  MAX_KEEPALIVE_ERROR = 5
  NB_TOPICS = 3
  NameSize = 16
  Topics <- MCTopics
  Strlen <- MCStrlen
  NoName = none
  Ids <- MCIds
  NoId = 0
  WireId <- MCWireId
SPECIFICATION FairSpec
INVARIANTS
  TypeOK
  NoDuplicateTopics
PROPERTIES
  GivesUp
  ImplementsSession
