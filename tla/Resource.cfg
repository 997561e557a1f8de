SPECIFICATION Spec
CONSTANTS
  Users = {u1, u2}
  LaneThreads = {l1}
  Plain = Plain
  File = File
  Keys = {Plain, File}
  Owners = {o1}
  OwnerOf <- OneOwner
  Files = {File}
  MaxLoads = 1
  MaxEntries = 2
  MaxCalls = 3
  KeyCalls <- MCKeyCalls
  None = None
INVARIANTS
  CountIsRight
  OnlyTheUnusedGoes
  LoadedOnce
  NoPlaceIsWasted
  
SYMMETRY UserSymmetry
