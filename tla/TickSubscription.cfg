SPECIFICATION Spec
CONSTANTS
  MaxFrames = 4
  MaxCalls = 5
  Overlap = TRUE
INVARIANTS OutcomeIsTrue
PROPERTIES IsChannel
