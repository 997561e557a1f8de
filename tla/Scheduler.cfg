SPECIFICATION Spec
CONSTANTS
  Health = Health
  Frozen = Frozen
  Components = {Health, Frozen}
  Globals = {}
  Caches = {}
  Events = {}
  Systems <- AllSystems
  Listeners = {}
  Hooks <- RecordingHook
  Tracked = {Health}
  Tasks = {t1}
  MaxSystems = 2
  MaxOthers = 1
  Capacity = 1
  MaxRounds = 1
  MaxRuns = 2
  MaxCommands = 2
  AfterThrow = FALSE
INVARIANTS
  
  ChangedTellsTheTruth
  SystemsRunApart

  
CHECK_DEADLOCK FALSE
