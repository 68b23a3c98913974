SPECIFICATION FairSpec
CONSTANTS
  Inodes = {n1, n2, n3}
  NoInode = NoInode
  SlowDisk = FALSE
  MaxVersion = 3
INVARIANTS
  LastFlushIsLatest
  PublishedIsWhole
PROPERTIES
  IsRegister
  StopReturns
