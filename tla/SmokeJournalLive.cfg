SPECIFICATION KillsSpec
CONSTANTS
  Runners = {r1, r2}
  Sigs = {s1, s2}
  None = None
  Foreign = Foreign
  MaxVersions = 1
PROPERTIES RunnerEnds
