SPECIFICATION Spec
CONSTANTS
  Threads = {t1, t2}
  Indices <- ThreeIndices
  WordSize = 1
  SparePages = 1
  HugeAt = 2
  Kinds <- AllKinds
  Starts <- SomeStarts
  MaxCalls = 3
  None = None
INVARIANTS
  ValuesAreUsedSafely
  MaskTellsWhatIsThere
  LoopsMissNothing
  MemoryIsAccountedFor
SYMMETRY ThreadSymmetry
