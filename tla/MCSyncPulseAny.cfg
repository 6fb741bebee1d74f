CONSTANTS
  t1 = t1
  t2 = t2
  t3 = t3
  sem = sem
  auto = auto
  manual = manual
  mutex = mutex
  Threads <- TwoThreads
  Nobody = Nobody
  Semaphores = {}
  AutoEvents = {auto}
  ManualEvents = {manual}
  Mutexes = {}
  Waits <- EventWaits
  MaxCount = 2
  MaxPulses = 3
  OnlyPulsed = {}
  InitialOwner = FALSE
SPECIFICATION Spec
INVARIANT PulseReleasesAll
