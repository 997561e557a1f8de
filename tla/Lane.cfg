SPECIFICATION Spec
CONSTANTS
  Clients = {c1, c2}
  Threads = {t1, t2}
  LaneSize = 1
  MaxJobs = 1
  MaxMarks = 1
  MaxInits = 2
  None = None
INVARIANTS
  SlotsAreOwn
  OldValueIsUnread
  JobsAreSafe
SYMMETRY LaneSymmetry
CHECK_DEADLOCK FALSE
