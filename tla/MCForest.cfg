SPECIFICATION ForestSpec
CONSTANTS
  pa = pa
  pb = pb
  n1 = n1
  n2 = n2
  f1 = f1
  f2 = f2
  Root = Root
  None = None
  ProjectId <- MCProjectId
  NodeId <- MCNodeId
  NutrientId <- MCNutrientId
  Unreadable <- MCUnreadable
  MaxLeaves = 1
  Sessions <- MCSessions
SYMMETRY MCSymmetry
CHECK_DEADLOCK FALSE
INVARIANTS
  WorkspaceHolds
  HomesKept
  StoreFollows
