CONSTANTS
  s1 = s1
  s2 = s2
  main = main
  Main = main
  Slots <- MCOneSlot
  NoThread = NoThread
  MaxSuspend = 2
  Ops <- SpinOps
  Spurious = FALSE
SPECIFICATION FairSpec
PROPERTIES
  ContenderGetsTurn
  YieldReturns
CHECK_DEADLOCK FALSE
