SPECIFICATION DeliverySpec
CONSTANTS
  None = None
  Call <- MCCall
  KindOf <- MCKindOf
  NodeOf <- MCNodeOf
  Plans <- MCPlans
  MaxDeltas = 1
INVARIANTS
  TablesAgree
  StoppedSendsAreCancelled
  StreamsWhole
PROPERTIES
  SettlesOnce
  EveryCallEnds
CHECK_DEADLOCK FALSE
