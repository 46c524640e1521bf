SPECIFICATION Spec
CONSTANTS
  N = 1
  Writers <- OneWriter
  MaxSkips = 0
PROPERTIES
  ThrottledForItsBudget
CHECK_DEADLOCK FALSE
