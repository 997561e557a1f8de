SPECIFICATION FairSpec
CONSTANTS
  Clients = {c1, c2}
  Workers = {w1}
  PoolSize = 1
  QueueCap = 2
  CallKinds <- VoidCall
  MaxCalls = 1
  MaxSize = 2
  MaxShares = 0
  MaxInits = 2
  MayThrow = FALSE
  None = None
PROPERTIES
  WaitReturns
  FuturesBecomeReady
CHECK_DEADLOCK FALSE
