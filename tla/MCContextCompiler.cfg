SPECIFICATION CompilerSpec
CONSTANTS
  Mid = Mid
  Stray = Stray
  NoteX = NoteX
  NoteY = NoteY
  NoteZ = NoteZ
  Root = Root
  None = None
  Questions <- MCQuestions
  LeafBudget = 4
  NutrientBudget = 32
  MaxChunks = 2
INVARIANTS
  ChunksFit
  ChunksDescribeThemselves
  NothingLost
  ContextAccounted
