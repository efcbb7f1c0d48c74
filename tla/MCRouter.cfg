SPECIFICATION FairRouterSpec
CONSTANTS
  t1 = t1
  t2 = t2
  w1 = w1
  w2 = w2
  None = None
  Monitor = Monitor
  Task <- MCTask
  Worker <- MCWorker
  Real <- MCReal
  Chat <- MCChat
  Order <- MCOrder
  MaxConcurrency <- MCMaxConcurrency
  Home <- MCHome
  FailureThreshold = 2
  RecoveryThreshold = 2
  Setting <- MCSetting
INVARIANTS
  PermitsAccounted
  PoliciesKept
PROPERTIES
  Debounced
  RouteAnswers
CHECK_DEADLOCK FALSE
