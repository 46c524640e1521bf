SPECIFICATION Spec
CONSTANTS
  N = 1
  Writers <- OneWriter
  MaxSkips = 1
INVARIANTS
  EveryCoreServed
CHECK_DEADLOCK FALSE
