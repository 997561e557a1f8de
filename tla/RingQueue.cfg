SPECIFICATION FairSpec
CONSTANTS
  Producers = {p1, p2}
  Consumers = {c1, c2}
  Cap = 4
  GranuleSlots = 2
  Reclaim = TRUE
  MaxPush = 7
  None = None
INVARIANTS
  Safe
  DiscardsOnlyEmptySlots
PROPERTIES
  RefinesFifo
  PushCompletes
CHECK_DEADLOCK FALSE
