SPECIFICATION RegistryFairSpec
CONSTANTS
  Devices = {d1, d2}
  StaleAfter = 2
  Retain = 3
  NotTimed = NotTimed
INVARIANTS
  RetentionRuns
PROPERTIES
  GoneIsEvicted
