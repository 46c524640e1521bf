SPECIFICATION LedgerSpec
CONSTANTS
  N = 1
  MaxBw = 10
  InitBw = 5
  Prefill = 0
  RegulationTime = 1
  Predictions <- MCPredictions
  Samples <- MCSamples
  Modulus = 64
  MaxPasses = 2
  MaxWithdrawn = 8
PROPERTIES
  GrantWorthReclaim
CHECK_DEADLOCK FALSE
