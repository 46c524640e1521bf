SPECIFICATION LedgerSpec
CONSTANTS
  N = 2
  MaxBw = 10
  InitBw = 5
  Prefill = 0
  RegulationTime = 1
  Predictions <- MCLedgerPredictions
  Samples <- MCLedgerSamples
  Modulus = 64
  MaxPasses = 4
  MaxWithdrawn = 32
INVARIANTS
  NotOverdrawn
CHECK_DEADLOCK FALSE
