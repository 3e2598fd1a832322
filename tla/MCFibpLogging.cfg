SPECIFICATION LoggingSpec
CONSTANTS
  r1 = r1
  r2 = r2
  Requests = {r1, r2}
  Ring = 4
  Batch = 2
  MaxId = 8
  Rejects = TRUE
  s1 = s1
  s2 = s2
  Called = {s1, s2}
  Window = 0
  MaxSecond = 5
  MaxCollected = 6
  ModTime = 100
CHECK_DEADLOCK FALSE
INVARIANTS
  OwnSlot
  SentOnce
  StatsOnce

  
