CONSTANTS
  Keys = {1, 2, 3}
  ShortKeys = {3}
  KeyAgent <- MCKeyAgent
  s1 = s1
  s2 = s2
  Services = {s1, s2}
  Ports = {8001, 8002, 8003}
  MaxChanges = 4
SPECIFICATION FairSpec
CHECK_DEADLOCK FALSE
INVARIANTS
  AgentsServed

  
