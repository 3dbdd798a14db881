SPECIFICATION Spec
CONSTANTS
  BlockCount = 4
  StridesPerBlock = 3
  WindowStrides = 2
  Overlap = 2
  QueueLength = 1
  Keywords = {"yes", "no"}
  MaxBlocks = 12
  MaxHooks = 3
INVARIANTS
  KeywordTypeOK
  WindowsContiguous
  NoLostWakeup
CHECK_DEADLOCK FALSE
