SPECIFICATION TreeSpec
CONSTANTS
  n1 = n1
  n2 = n2
  n3 = n3
  Root = Root
  None = None
  NodeId <- MCNodeId
  MaxLeaves = 1
  Sessions <- MCRetrySessions
SYMMETRY MCSymmetry
PROPERTIES
  AnswersKept
