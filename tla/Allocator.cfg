SPECIFICATION Spec
CONSTANTS
    PoolThreads = {p1}
    Guests = {g1}
    NAreas = 2
    PageBits = 1
    PageLimit = 2
    PageSize = 1
    ChunkCap = 1
    GenLimit = 8
    MaxSpan = 2
    MaxEnded = 2
    MayThrow = TRUE
    None = None
SYMMETRY Symmetry
INVARIANTS
    Safe
    
    PagesAreRight
