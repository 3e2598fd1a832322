CONSTANTS
  MaxRequests = 2
  MaxNum = 2
  MaxRetry = 2
  MaxRand = 0
  Hosts = {1, 2}
  Kinds <- CachedAndLocal
SPECIFICATION FairSpec
CHECK_DEADLOCK FALSE
INVARIANTS
  JoinsAll
  NoSilentFailure
  RetriesSpread
PROPERTY
  RequestsAnswered
