SPECIFICATION FairSpec
CONSTANTS
  Client = {c1, c2}
  NoClient = noclient
  Conn = {k1, k2, k3}
  NoConn = null
  PoolSize = 3
  IoThreads = 2
  MaxBacklog = 2
PROPERTY OperationsServed
CHECK_DEADLOCK FALSE
