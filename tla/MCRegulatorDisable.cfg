SPECIFICATION Spec
CONSTANTS
  N = 1
  Writers <- OneWriter
  MaxSkips = 0
PROPERTIES
  DisableFreesCores
CHECK_DEADLOCK FALSE
