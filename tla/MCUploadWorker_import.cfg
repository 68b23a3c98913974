SPECIFICATION Spec
CONSTANTS
  Instances = {i1, i2}
  Uploads = {u1}
  Paths = {p1}
  NoUpload = NoUpload
  Size <- MCOneSize
  Concurrency = 2
  TaskTimeout = 1
  StaleTimeout = 1
  Overrun = 0
  UnsureErrors = TRUE
  Horizon = 5
INVARIANTS
  TypeOK
  HandedInOrder
  
PROPERTIES
  FinalIsFinal
  IsImportHistory
