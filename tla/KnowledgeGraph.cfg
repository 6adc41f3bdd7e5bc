SPECIFICATION Spec
CONSTANTS
  x1 = x1
  x2 = x2
  x3 = x3
  q1 = q1
  Extractions = {x1, x2, x3}
  Extracted <- MCExtracted
  Questions = {q1}
  Query <- MCQuery
  Rank <- MCRank
  Depth = 2
  Limit = 2
  SeedLimit = 10
  EdgeLimit = 2
  Documents = {d1}
  Size <- MCSize
  Budget = 4
  MaxAborts = 1
INVARIANTS
  TypeOK
  SubgraphIsClosed
  RelationsComeFirst
PROPERTIES
  ImplementsGraphStore
  ExtractionsEnd
CHECK_DEADLOCK FALSE
