SPECIFICATION RuntimeSpec
CONSTANTS
  TaskCount = 2
  Task <- MCTask
  PriorityOf <- MCPriorityOf
  MaxConcurrency = 1
  Fcfs = FALSE
  Suspending = {}
  NoTask = NoTask
  MaxAttempts = 2
  Canceller = {c1}
  ClockMayStepBack = FALSE
  AppStops = TRUE
  MaxSeq = 5
  MaxDeltas = 1
INVARIANTS
  AcceptedTasksEndAtShutdown
CHECK_DEADLOCK FALSE
