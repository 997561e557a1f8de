SPECIFICATION Spec
CONSTANTS
  Threads <- MCThreads
  PAGE_SIZE = 2
  PAGE_COUNT = 3
  SEGMENT = 2
  NOTED_ITEMS = 2
  SCAN_SPREAD = 1
  Sorts <- MCSorts
  Columns = {"body", "mass"}
  AddHooked = {"body"}
  RemoveHooked = {"body"}
  Changes <- MCChanges
  Doomed <- MCDoomed
  Lists = 2
  CHANGES_PER_THREAD = 1
  ENTITIES_PER_THREAD = 4
  WORD = 2
  MaxChanges = 3
  MaxInPage = 5
  MaxDestroyed = 4
  MaxRecorded = 3
  MaxApplies = 1
INVARIANT ChangesKeepTheirOrder
INVARIANT CountCoversComponents
INVARIANT EndedOnce
INVARIANT DestroyedOnce
INVARIANT EveryChangeIsTold
CHECK_DEADLOCK FALSE
