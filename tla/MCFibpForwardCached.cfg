CONSTANTS
  MaxRequests = 2
  MaxNum = 2
  MaxRetry = 3
  MaxRand = 1
  Hosts = {1, 2}
  Kinds <- CachedOnly
SPECIFICATION Spec
CHECK_DEADLOCK FALSE
INVARIANTS
  ConfirmedIfAllSucceeded
