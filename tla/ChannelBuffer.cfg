SPECIFICATION FairSpec
CONSTANTS
  NumberOfSamples = 1
  SizeOfHeader = 3
  DepthOfWaveformBufferFIFO = 11
  TriggerModes = {1, 3, 4}
  MaxTriggers = 4
INVARIANTS
  TypeOK
  EventsWhole
  CountsOwnTrigger
PROPERTIES
  EveryEventAnalysed
  VetoIsLifted
