SPECIFICATION FairSpec
CONSTANTS
  HeaderWords = 2
  Samples = 3
  MaxWaveform = 4
  FifoWords = 3
  ReadWords = 2
  Trials = 2
  TimePlaces = {1}
  TimePackets = {2}
  Packets = 3
  MaxFaults = 2
INVARIANTS
  TypeOK
  InStepAfterOnePacket
PROPERTIES
  DeliveryHolds
  AllPacketsArrive
CHECK_DEADLOCK FALSE
