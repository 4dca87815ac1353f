SPECIFICATION Spec
CONSTANTS
  Runners = {r1, r2}
  Sigs = {s1, s2, s3}
  None = None
  Foreign = Foreign
  MaxVersions = 1
SYMMETRY Symmetry
INVARIANTS SentIsDurable ConfirmedIsTrue CompleteIsTrue
PROPERTIES EarlierResolved AppendOnly KeepsPromise
