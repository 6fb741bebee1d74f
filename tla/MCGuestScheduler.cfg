CONSTANTS
  s1 = s1
  s2 = s2
  main = main
  Main = main
  Slots <- MCSlots
  NoThread = NoThread
  MaxSuspend = 2
  Ops <- AllOps
  Spurious = TRUE
SPECIFICATION Spec
SYMMETRY MCSymmetry
INVARIANTS
  SuspendedNeverRuns
  TlsIsRunners
  NoLostWakeup
  NoLostHandOff
PROPERTIES
  ImplementsTurns
