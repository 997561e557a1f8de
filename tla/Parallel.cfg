SPECIFICATION FairSpec
CONSTANTS
  Actors = {a1, a2}
  NSlots = 2
  TicketCap = 1
  MaxChunks = 2
  MaxLoops = 2
  LoopKinds <- AllKinds
  None = None
INVARIANTS
  JobOutlivesHelpers
  TicketLeadsToItsLoop
  EveryChunkOnce

  
CHECK_DEADLOCK FALSE
