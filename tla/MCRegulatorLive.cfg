SPECIFICATION Spec
CONSTANTS
  N = 1
  Writers <- TwoWriters
  MaxSkips = 1
INVARIANTS
  MasterNotForgotten
PROPERTIES
  ThrottleIsTemporary
  StartTakesEffect
  StopTakesEffect
  UnloadEnds
CHECK_DEADLOCK FALSE
