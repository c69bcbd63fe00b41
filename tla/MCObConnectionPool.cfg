SPECIFICATION FairSpec
CONSTANTS
  Client = {c1, c2}
  NoClient = noclient
  Conn = {k1, k2, k3}
  NoConn = null
  PoolSize = 2
  IoThreads = 2
  MaxBacklog = 3
INVARIANTS TypeOK Conservation ExclusiveUse NoIdleConnection ReplacementOwed
PROPERTIES WaitersServed PoolCloses
CHECK_DEADLOCK FALSE
