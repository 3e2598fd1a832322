CONSTANTS
  f1 = f1
  f2 = f2
  f3 = f3
  Main = Main
  Fiber <- MCFiber
  Uses <- MCUses
  Deadline <- MCDeadline
  Never = 3
  MaxOps = 2
  MaxDepth = 2
  MaxWaiting = 5
  MaxItems = 3
  MaxResults = 2
SPECIFICATION Spec
INVARIANTS
  
  MutualExclusion
  NoLostWakeup
  BarrierGroups
  QueueFifo
  GetsTheResult
  TakesTurns
