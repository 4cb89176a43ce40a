SPECIFICATION SensorSpec
CONSTANTS
  PeriodMs = 1
  BaselineSamples = 2
  MaxTimeout = 3
  MaxParsed = 4
  MaxChunk = 2
  MaxRequests = 1
INVARIANTS
  SensorTypeOK
  BaselineIsSound
  VersionIsAnswered
  PortOutlivesThread
  BaselineEndsClean
  SensorLeftQuiet
PROPERTY SensorCallsReturn
CHECK_DEADLOCK FALSE
