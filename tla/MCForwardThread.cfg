SPECIFICATION FairThreadSpec
CONSTANTS
  r1 = r1
  r2 = r2
  r3 = r3
  Requests = {r1, r2, r3}
  MaxCalls = 2
  PoolSize = 2
  GrowSize = 1
  MaxGrow = 1
  f1 = f1
  f2 = f2
  f3 = f3
  Fibers = {f1, f2, f3}
  MaxClient = 1
  Shared = {"rpc", "raw"}
  MaxHttpCalls = 4
  Chunks = 2
  UntilClose = TRUE
CHECK_DEADLOCK FALSE
INVARIANTS
  NoTaskStranded
  GrowsInTime
  Exclusive
  NoneLost
  NoEarlyAbort
  OwnUnlessCut
PROPERTIES
  
  
  ReadsEnd
