SPECIFICATION Spec
CONSTANTS
  p1 = p1
  p2 = p2
  i0 = i0
  i1 = i1
  i2 = i2
  q1 = q1
  q2 = q2
  hash = hash
  http = http
  Instances = {p1, p2}
  Ingests = {i0, i1, i2}
  First = i0
  Retrievals = {q1, q2}
  Titles = {t1}
  Times = {1}
  Home <- MCHome
  Profiles = {hash, http}
  Initially <- MCInitially
  Modes = {"hybrid_rerank"}
  MaxRestarts = 1
INVARIANTS
  TypeOK
  RevisionIdentifiesCorpus
  AnswersAreFresh
  ComparesOwnProfile
PROPERTIES
  ImplementsStore
  IngestsEnd
CHECK_DEADLOCK FALSE
