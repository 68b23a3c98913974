SPECIFICATION Spec
CONSTANTS
  Inodes = {n1, n2, n3, n4}
  NoInode = NoInode
  SlowDisk = TRUE
  MaxVersion = 2
INVARIANTS
  TypeOK
PROPERTIES
  OnlyStopTears
