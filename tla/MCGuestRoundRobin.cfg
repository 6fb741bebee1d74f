CONSTANTS
  s1 = s1
  s2 = s2
  main = main
  Main = main
  Slots <- MCSlots
  NoThread = NoThread
  MaxSuspend = 1
  Ops <- YieldOps
  Spurious = FALSE
SPECIFICATION FairSpec
PROPERTY RoundRobin
CHECK_DEADLOCK FALSE
