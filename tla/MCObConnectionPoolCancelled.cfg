SPECIFICATION Spec
CONSTANTS
  Client = {c1, c2}
  NoClient = noclient
  Conn = {k1}
  NoConn = null
  PoolSize = 1
  IoThreads = 1
  MaxBacklog = 1
INVARIANT CancelledPoolParksNobody
CHECK_DEADLOCK FALSE
