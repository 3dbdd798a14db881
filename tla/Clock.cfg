SPECIFICATION FairSpec
CONSTANTS
  Second = 4
  TickMod = 48
  Wide = 4096
  PollInterval = 2
  MaxBackoff = 3
  MaxRetries = 1
  Drifts <- MCDrifts
  MaxMissed = 2
INVARIANTS
  ClockTypeOK
  ReadsConsistent
  ClockAccurate
  StopsWhenRefused
PROPERTIES
  Synchronises
CHECK_DEADLOCK FALSE
