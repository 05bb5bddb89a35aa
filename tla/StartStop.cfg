SPECIFICATION FairSpec
CONSTANTS
  NumberOfProducerNodes = 3
  PresetModes = {TRUE, FALSE}
  MaxLosses = 2
INVARIANTS
  TypeOK
PROPERTIES
  WriteTookEffect
  StopTakesEffectInNonStop
CHECK_DEADLOCK FALSE
