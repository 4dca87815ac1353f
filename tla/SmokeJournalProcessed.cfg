SPECIFICATION FairSpec
CONSTANTS
  Runners = {r1}
  Sigs = {s1}
  None = None
  Foreign = Foreign
  MaxVersions = 1
PROPERTIES ProcessedOnlyStaysUnknown
