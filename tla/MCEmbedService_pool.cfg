CONSTANTS
  c1 = c1
  c2 = c2
  c3 = c3
  w1 = w1
  w2 = w2
  NoConn = NoConn
  Conns <- MCConns
  Workers <- MCWorkers
  MaxQueueDepth = 2
  MaxRequests = 2
SPECIFICATION FairSpec
INVARIANTS
  TypeOK
  OneHolder
  NobodySleepsOverWork
PROPERTY WorkEnds
