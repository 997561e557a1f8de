SPECIFICATION Spec
CONSTANTS
  Clients = {c1, c2}
  Workers = {w1, w2}
  PoolSize = 2
  QueueCap = 2
  CallKinds <- AllCalls
  MaxCalls = 1
  MaxSize = 2
  MaxShares = 1
  MaxInits = 1
  MayThrow = TRUE
  None = None
INVARIANTS
  NothingLeftBehind
  
  NoOrphanedFuture
  
SYMMETRY PoolSymmetry
CHECK_DEADLOCK FALSE
