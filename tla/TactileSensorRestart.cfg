SPECIFICATION SensorSafety
CONSTANTS
  PeriodMs = 1
  BaselineSamples = 2
  MaxTimeout = 3
  MaxParsed = 4
  MaxChunk = 2
  MaxRequests = 1
INVARIANT RunningCollects
CHECK_DEADLOCK FALSE
