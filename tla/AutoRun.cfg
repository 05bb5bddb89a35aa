SPECIFICATION FairManagerSpec
CONSTANTS
  Powered = {0, 1}
  HkRounds = 2
  FaultKinds = {"timeout", "crash", "spi"}
  MaxFaults = 2
INVARIANTS
  ManagerTypeOK
  ObservesWithHv
PROPERTIES
  UnfitMeansOffIfAnswered
  FitMeansObserving
