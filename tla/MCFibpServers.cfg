SPECIFICATION FairSpec
CONSTANTS
  driver = driver
  http = http
  ServerList <- MCServerList
  Services = 2
  MaxConns = 2
  Scripts <- MCScripts
  MaxPieces = 2
  MaxPort = 65535
  ULLONG_MAX = 127
  HTTP_MAX_HEADER_SIZE = 100
  RequestLists <- MCRequestLists
  ResponseLists <- MCResponseLists
  ReadSizes <- MCReadSizes
INVARIANTS
  AnswersInOrder
  SplitIndependent
  Framing
PROPERTIES
  StopEndsProcess
  
  RelayEnds
CHECK_DEADLOCK FALSE
