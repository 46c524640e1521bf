SPECIFICATION Spec
CONSTANTS
  N = 2
  Writers <- OneWriter
  MaxSkips = 1
INVARIANTS
  TypeOK
  ThrottledUntilStart
  Coherent
  CountersReenabled
  UnloadedClean
CHECK_DEADLOCK FALSE
