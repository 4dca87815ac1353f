SPECIFICATION FairSpec
CONSTANTS
  MaxFrames = 3
  MaxChunk = 2
  MaxCalls = 4
  Overlap = TRUE
INVARIANTS CleanEndIsTrue
PROPERTIES IsChannel EndReleases
