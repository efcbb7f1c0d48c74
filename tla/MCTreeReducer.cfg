SPECIFICATION TreeSpec
CONSTANTS
  n1 = n1
  n2 = n2
  n3 = n3
  Root = Root
  None = None
  NodeId <- MCNodeId
  MaxLeaves = 1
  Sessions <- MCSessions
SYMMETRY MCSymmetry
INVARIANTS
  WellFormedTree
  CardsFitTheirPath
  SnapshotsFollow
  HistoryReplays
  PlansStandWhole
PROPERTIES
  UnrelatedEdgesKept
