SPECIFICATION Spec
CONSTANTS
  Cores <- MCCores
INVARIANTS
  TypeOK
  NoMissedThrottle
  NoMissedRelease
PROPERTIES
  KeepsPromise
  UnloadEnds
CHECK_DEADLOCK FALSE
