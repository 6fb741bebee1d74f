CONSTANTS
  s1 = s1
  s2 = s2
  main = main
  Main = main
  h1 = h1
  h2 = h2
  h3 = h3
  h4 = h4
  Slots <- MCSlots
  Handles <- MCHandles
  MaxLives = 2
  MaxSuspend = 1
  PthreadFails = FALSE
SPECIFICATION Spec
INVARIANT MainIsNeverSuspended
CHECK_DEADLOCK FALSE
