CONSTANTS
  a = a
  b = b
  x = x
  g1 = g1
  g2 = g2
  m1 = m1
  Jobs <- MCJobs
  Contents <- MCContents
  Messages <- MCMessages
  Tags <- MCTags
  Null = Null
  MaxFacts = 2
  MaxFound = 1
  MaxAdded = 2
  MaxRows = 3
SYMMETRY Symmetric
CONSTRAINT Apart
SPECIFICATION Spec
INVARIANTS
  TypeOK
  OneSuccessor
  VectorFitsContent
PROPERTY IsHistory
