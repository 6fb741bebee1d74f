CONSTANTS
  t1 = t1
  t2 = t2
  t3 = t3
  sem = sem
  auto = auto
  manual = manual
  mutex = mutex
  Threads <- ThreeThreads
  Nobody = Nobody
  Semaphores = {sem}
  AutoEvents = {auto}
  ManualEvents = {}
  Mutexes = {mutex}
  Waits <- MixedWaits
  MaxCount = 2
  MaxPulses = 1
  OnlyPulsed = {auto}
  InitialOwner = FALSE
SPECIFICATION Spec
INVARIANT PulseEndsUnsignalled
