CONSTANTS
  t1 = t1
  t2 = t2
  t3 = t3
  Threads <- MCThreads
  Nobody = Nobody
  MaxDepth = 2
  MaxRenews = 2
SPECIFICATION FairSpec
INVARIANTS
  OneInside
  NoSleeperOnFree
PROPERTIES
  WaiterGetsIn
