SPECIFICATION Spec
CONSTANTS
  Clients = {c1}
  Threads = {t1}
  LaneSize = 1
  MaxJobs = 1
  MaxMarks = 0
  MaxInits = 1
  None = None
INVARIANTS
  CapturesGoneWhenFinished
SYMMETRY LaneSymmetry
CHECK_DEADLOCK FALSE
