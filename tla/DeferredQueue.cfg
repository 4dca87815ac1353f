CONSTANTS
  MaxEpoch = 6
  MaxEquityBatches = 3
  None = None
SPECIFICATION Spec
INVARIANTS
  WalkIsFifo
  BuiltIsTrue
  RefusalIsTrue
