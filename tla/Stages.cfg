SPECIFICATION StagesSpec
CONSTANTS
  Health = Health
  Frozen = Frozen
  Time = Time
  Textures = Textures
  Hit = Hit
  Components = {Health, Frozen}
  Globals = {Time}
  Caches = {Textures}
  Events = {Hit}
  Systems <- AllSystems
  Listeners <- AllListeners
  Hooks <- AllHooks
  MaxSystems = 3
  MaxOthers = 2
INVARIANTS
  StagesAreExact
  NoRaceWithinASystem
