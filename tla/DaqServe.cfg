SPECIFICATION FairSpec
CONSTANTS
  Exposures = {0, 1}
  ReadCapacity = 2
  FifoDepth = 2
  MaxTime = 3
  MaxEvents = 2
  MaxRestarts = 1
INVARIANTS
  TypeOK
  EventsAccounted
  CurrentFileCount
  FileOpenWhenUsed
PROPERTIES
  RunEndsReleased
  SavedEventsPersist
  ControlHolds
  ControlMovesOn
  SwitchServed
