SPECIFICATION Spec
CONSTANTS
  Active <- MCAdvisor
  PoolSize = 2
  QueueLength = 1
  NumSlots = 3
  NoFilter = NoFilter
  Preempted = TRUE
  MaxFaults = 1
INVARIANTS
  SubscriptionsKept
CHECK_DEADLOCK FALSE
