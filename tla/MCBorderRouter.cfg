CONSTANTS
  Prefixes <- MCPrefixes
  HostAddrs <- MCHostAddrs
  NodeAddrs <- MCNodeAddrs
  RouterIid = 9
  MaxAddrs = 1
  RplRefuses = TRUE
  MaxSerial = 2
SPECIFICATION FairSpec
INVARIANTS
  TypeOK
  AnswersSender
  BouncesNone
  AddressWhenServing
PROPERTY Serves
