CONSTANTS
  Positions = {"long"}
  Prices = {1, 2, 3}
  Oracles = {2}
  Slippages = {0}
  BpsOne = 4
  MaxBuilds = 1
  MaxChanges = 1
  MaxSubmits = 2
  None = None
SPECIFICATION Spec
INVARIANTS
  SentIsSigned
  AckIsTrue
  BracketIsExclusive
  FinalIsFinal
CHECK_DEADLOCK FALSE
