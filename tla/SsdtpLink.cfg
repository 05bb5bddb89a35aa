SPECIFICATION FairSpec
CONSTANTS
  HeaderBytes = 2
  DataBytes = 1
  Frames = 2
  GarbledSizes = {0, 12}
  ReceiveTimeout = 1
  ReplyTimeout = 2
  CancelWait = 3
  Trials = 2
  MaxCalls = 2
  MaxConnections = 2
  MaxLosses = 1
  MaxStalls = 1
  StallTime = 2
INVARIANTS
  TypeOK
  FaultsSpoilTheirTrial
PROPERTIES
  DisconnectEnds
CHECK_DEADLOCK FALSE
