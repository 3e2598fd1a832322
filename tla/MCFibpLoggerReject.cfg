CONSTANTS
  r1 = r1
  r2 = r2
  Requests = {r1, r2}
  Ring = 4
  Batch = 2
  MaxId = 3
  Rejects = TRUE
SPECIFICATION FairSpec
CHECK_DEADLOCK FALSE
PROPERTY
  MarkedIsCollected
