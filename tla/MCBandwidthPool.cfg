SPECIFICATION LedgerSpec
CONSTANTS
  N = 2
  MaxBw = 10
  InitBw = 5
  Prefill = 0
  RegulationTime = 4
  Predictions <- MCPredictions
  Samples <- MCSamples
  Modulus = 64
  MaxPasses = 1
  MaxWithdrawn = 9
INVARIANTS
  TypeOK
  PoolFilledByUnused
  WithinCeiling
  CappedCoreKeepsLimit
  OverdrawnByLostOnly
PROPERTIES
  BudgetWorthAllocation
  GrantWithinReclaim
CHECK_DEADLOCK FALSE
