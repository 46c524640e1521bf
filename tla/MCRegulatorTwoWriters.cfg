SPECIFICATION Spec
CONSTANTS
  N = 2
  Writers <- TwoWriters
  MaxSkips = 0
INVARIANTS
  Coherent
CHECK_DEADLOCK FALSE
