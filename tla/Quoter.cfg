SPECIFICATION Spec
CONSTANTS
  Runs = {r1, r2}
  Patient = TRUE
  MaxQuotes = 3
INVARIANTS OneLoop OneQuote LastQuote
CHECK_DEADLOCK FALSE
