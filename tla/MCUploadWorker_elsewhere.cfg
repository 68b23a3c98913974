SPECIFICATION Spec
CONSTANTS
  Instances = {i1, i2}
  Uploads = {u1, u2}
  Paths = {p1}
  NoUpload = NoUpload
  Size <- MCSize
  Concurrency = 2
  TaskTimeout = 1
  StaleTimeout = 1
  Overrun = 0
  UnsureErrors = FALSE
  Horizon = 2
INVARIANTS
  QueuedHasItsFile
