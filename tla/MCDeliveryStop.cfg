SPECIFICATION DeliverySpec
CONSTANTS
  None = None
  Call <- MCCall
  KindOf <- MCKindOf
  NodeOf <- MCNodeOf
  Plans <- MCPlans
  MaxDeltas = 1
INVARIANTS
  AbortedIsCancelled
CHECK_DEADLOCK FALSE
