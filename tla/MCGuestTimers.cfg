CONSTANTS
  t1 = t1
  t2 = t2
  Threads <- TwoThreads
  MaxTimers = 2
  Lengths <- UpToTwoMs
  MaxTime = 3
  SlotArgs <- NoSlots
  MaxNesting = 0
  Window = 2
  Arena = 14
SPECIFICATION FairSpec
INVARIANTS
  AlwaysOnePump
PROPERTIES
  CallbackIsOwed
  DueTimerFires
