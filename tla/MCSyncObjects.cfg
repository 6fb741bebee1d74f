CONSTANTS
  t1 = t1
  t2 = t2
  t3 = t3
  sem = sem
  auto = auto
  manual = manual
  mutex = mutex
  Threads <- TwoThreads
  Nobody = Nobody
  Semaphores = {sem}
  AutoEvents = {auto}
  ManualEvents = {manual}
  Mutexes = {mutex}
  Waits <- AllWaits
  MaxCount = 2
  MaxPulses = 2
  OnlyPulsed = {}
  InitialOwner = FALSE
SPECIFICATION FairSpec
INVARIANTS
  TakenExactly
  NobodySleepsOnSignal
  PulseIsExact
PROPERTIES
  WaitReturns
