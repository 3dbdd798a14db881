SPECIFICATION FairSpec
CONSTANTS
  Active <- MCApplication
  PoolSize = 2
  QueueLength = 1
  NumSlots = 3
  NoFilter = NoFilter
  Preempted = TRUE
  MaxFaults = 1
INVARIANTS
  CommandTypeOK
  OneHolder
  AnswerIsOwn
  BitClearedFirst
  SubscriptionsKept
PROPERTIES
  CommandsEnd
CHECK_DEADLOCK FALSE
