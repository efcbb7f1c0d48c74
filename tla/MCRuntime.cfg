SPECIFICATION MCRuntimeSpec
CONSTANTS
  TaskCount = 3
  Task <- MCTask
  PriorityOf <- MCPriorityOf
  MaxConcurrency = 1
  Fcfs = FALSE
  Suspending = {}
  NoTask = NoTask
  MaxAttempts = 2
  Canceller = {c1, c2}
  ClockMayStepBack = TRUE
  AppStops = TRUE
  MaxSeq = 5
  MaxDeltas = 1
INVARIANTS
  NoneForgotten
  ExecutionAgreement
  CancelAnswersTerminal
  RetryChains
PROPERTIES
  ImplementsLifecycle
  EveryTaskEnds
  CancelsAreAnswered
CHECK_DEADLOCK FALSE
