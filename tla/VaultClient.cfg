CONSTANTS
  Accounts = {m1, m2, o}
  Markets = {m1, m2}
  Builders = {b1, b2}
  MaxHealth = 2
  MaxBegun = 3
  Unknown = Unknown
  Null = Null
  MaxStarts = 3
  MaxBatch = 1
  MaxCuts = 1
  Durations = {3, 4, 5}
  Cutoffs = {1, 2, 3}
  Timelocks = {0, 6}
  Rates = {0, 1}
  Others = {k1, k2}
  NoTiming = NoTiming
SPECIFICATION Spec
INVARIANTS
  QueuesAreTrue
  TargetsAreOfTheRecovery
PROPERTIES
  ExitBeforeChange
CHECK_DEADLOCK FALSE
