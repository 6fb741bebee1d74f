CONSTANTS
  t1 = t1
  t2 = t2
  Threads <- TwoThreads
  MaxTimers = 1
  Lengths <- UpToTwoMs
  MaxTime = 1
  SlotArgs <- SlotsTakeOne
  MaxNesting = 1
  Window = 2
  Arena = 16
SPECIFICATION Spec
INVARIANTS
  FramesDisjoint
  ArenaComesBack
CHECK_DEADLOCK FALSE
