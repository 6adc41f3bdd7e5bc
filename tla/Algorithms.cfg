SPECIFICATION Spec
CONSTANTS
  MaxLines = 5
  DocumentSizes = {0, 1, 2, 3, 4}
  MaxMarkdown = 2
  MaxPdf = 3
  MaxPages = 4
  MaxText = 6
  MaxChunk = 6
  Attempts = 2
  Batch = 2
  MaxTexts = 3
  MaxHits = 3
  Scores = {0, 1, 2}
  RrfK = {1, 60}
  Results <- MCResults
  EmptySizes = {2}
  RowLimits = {2, 5}
  ByteLimits = {1, 2, 5, 30}
  Tables = {1, 2, 3}
  Columns = {1, 2}
  MaxKeys = 2
  Alike = {{}, {1, 2}}
  JsonSizes = {1, 3}
  GraphLimits <- MCGraphLimits
  LexicalWeight = 3
  VectorWeight = 1
  MinLexical = 1
  MinVector = 2
INVARIANTS
  SectionsLocateText
  ChunksCoverSection
  ProviderOrderKept
  FusionIsFair
  DescriptionIsGrounded
  CatalogGraphIsValid
CHECK_DEADLOCK FALSE
