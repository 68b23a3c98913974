SPECIFICATION FairSpec
CONSTANTS
  Instances = {i1}
  Uploads = {u1, u2}
  Paths = {p1, p2}
  NoUpload = NoUpload
  Size <- MCSize
  Concurrency = 1
  TaskTimeout = 1
  StaleTimeout = 1
  Overrun = 0
  UnsureErrors = FALSE
  Horizon = 3
INVARIANTS
  QueuedHasItsFile
PROPERTIES
  QueueDrains
