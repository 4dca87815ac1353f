SPECIFICATION FairSpec
CONSTANTS
  Runs = {r1, r2}
  Patient = FALSE
  MaxQuotes = 2
PROPERTIES OneTicker
CHECK_DEADLOCK FALSE
