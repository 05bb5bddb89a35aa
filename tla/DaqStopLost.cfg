SPECIFICATION FairSpec
CONSTANTS
  Exposures = {0}
  ReadCapacity = 1
  FifoDepth = 1
  MaxTime = 2
  MaxEvents = 1
  MaxRestarts = 0
PROPERTIES
  StopEndsProgram
