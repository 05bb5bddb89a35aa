SPECIFICATION FairSpec
CONSTANTS
  NumberOfConsumerNodes = 2
  HeaderWords = 2
  Waveforms = {0, 1}
  FifoWords = 4
  EventFifoWords = 2
  Events = 2
  MaxWrites = 2
INVARIANTS
  TypeOK
PROPERTIES
  StreamHolds
  ResetCompletes
  ReadyIsSent
