SPECIFICATION Spec
CONSTANTS
  Blank = Blank
  InitialRowNumber = 1
  NumberOfChannels = 2
  Configurations <- ConfigurationsValue
  Readable <- ReadableValue
  RecordSamples <- RecordSamplesValue
  PacketSamples <- PacketSamplesValue
  SavedSamples <- SavedSamplesValue
  ChannelEnable <- ChannelEnableValue
  BufferEvents = 1
  FifoEvents = 2
  ReadEvents = 2
  MaxWaveformLength = 3
  InitialEventInstanceNumber = 1
  MaxEvents = 2
  MaxRuns = 2
  MaxFaults = 1
  MaxChanges = 1
INVARIANTS
  TypeOK
  RowsAsConfigured
  EventFates
PROPERTIES
  QuietUnlessAbandoned
  ClosedFileIsExact
CHECK_DEADLOCK FALSE
