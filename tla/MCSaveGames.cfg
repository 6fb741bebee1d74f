CONSTANTS
  Slots = 3
  IdlePolls = 2
  MaxTime = 4
  Saves <- MCSaves
  NoLeaf = NoLeaf
SPECIFICATION FairSpec
INVARIANTS
  RecordsAreWhole
  SavedStays
  LoadsWhatWasChosen
  AckIsContinues
PROPERTIES
  CheckpointResolves
CHECK_DEADLOCK FALSE
