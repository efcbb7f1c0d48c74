SPECIFICATION AuxoSpec
CONSTANTS
  n1 = n1
  n2 = n2
  None = None
  LF = "LF"
  CR = "CR"
  RootId = "root"
  Look <- MCLook
  Nutrient = {n1, n2}
  TitleKey <- MCTitleKey
  MaxNodes = 3
  MaxDepth = 2
  MaxRootChars = 9
  MaxNutrientChars = 7
  MaxChunks = 3
  MaxUnitChars = 7
  MaxBody = 16
  TargetChunk = 3
  Page = "page"
  Client = {"page", "other", "third"}
  Limit = 2
  WindowMs = 2
  MaxEntries = 2
  MaxAdmitted = 6
  Run = {1, 2, 3}
  MaxAttempts = 2
  Envelope = 1
  Worlds <- MCWorlds
INVARIANTS
  RequestsAreExact
  PlansJudgedExactly
  LimitHolds
PROPERTIES
  PlansFitTheirInput
  NoTaskAbandoned
  EveryGenerationReturns
CHECK_DEADLOCK FALSE
