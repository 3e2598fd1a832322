CONSTANTS
  MaxRequests = 1
  MaxNum = 2
  MaxRetry = 3
  MaxRand = 1
  Hosts = {1, 2}
  Kinds <- PlainOnly
SPECIFICATION Spec
CHECK_DEADLOCK FALSE
INVARIANTS
  SettledById
