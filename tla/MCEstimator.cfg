SPECIFICATION Spec
CONSTANTS
  InitBw = 5
  Scale = 100
  InitWeight = 10
  NormUnit = 6
  IntMod = 64
  LongMod = 512
  Intervals = {2, 4}
  Bursts <- MCBursts
  MaxBursts = 2
  MaxChanges = 1
  MaxStarts = 1
INVARIANTS
  TypeOK
  ErrorOfGranted
  GrantedInRange
PROPERTIES
  PredictsFromLatest
  UpdateFollowsError
  WrapsLearnedFaintly
  SkipShrinks
  ImplementsFilter
  SkipsEnd
CHECK_DEADLOCK FALSE
