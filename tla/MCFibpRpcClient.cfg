CONSTANTS
  Callers = {c1, c2}
  MaxCalls = 3
  IdSpace = 4
SPECIFICATION FairSpec
CHECK_DEADLOCK FALSE
INVARIANTS
  SingleConnect
  NoOrphanFuture
  OwnAnswer
  IdleConnectionWatched
PROPERTIES
  ImplementsServiceCall
  OnlyWriteBlocks
