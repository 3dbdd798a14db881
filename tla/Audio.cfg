SPECIFICATION MCSpec
CONSTANTS
  BlockCount = 3
  BlocksPerRun = 1
  WindowBlocks = 3
  Memory = {m1, m2, m3, m4}
  NULL = NULL
  QueueLength = 2
  CommandPool = 2
  MaxHooks = 3
INVARIANTS
  AudioTypeOK
  WindowWhole
  WindowFresh
  BlockAtRest
  StopsSoon
  ResultsOwned
PROPERTIES
  RecognitionResumes
CHECK_DEADLOCK FALSE
