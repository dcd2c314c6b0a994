SPECIFICATION Spec
CONSTANTS
  lowest = 1
  highest = 7
  MaxT = 7
INVARIANT WellFormed
PROPERTY PoolSpec
CHECK_DEADLOCK FALSE
