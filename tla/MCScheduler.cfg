SPECIFICATION FairSchedSpec
CONSTANTS
  TaskCount = 4
  Task <- MCTask
  PriorityOf <- MCPriorityOf
  MaxConcurrency = 2
  Fcfs = FALSE
  Suspending <- MCSuspending
  MaxSeq = 2
INVARIANTS
  SlotAccounting
  WorkConserving
  NoQueueJumping
  QuiescentAfterShutdown
PROPERTIES
  ShutdownFinishes
