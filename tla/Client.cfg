CONSTANTS
  Calls = {c1, c2}
  FeeAccounts = {a1, a2}
  Addresses = {d1, d2}
  Amounts = {0, 3, 9}
  MaxExact = 8
  NoAddress = NoAddress
  Ids = {x1, x2}
  Draw <- MCDraw
  Window = 1
  MaxExecutions = 3
  MaxCalls = 2
  MaxSlot = 2
  Lifetime = 1
  Default = Default
  Lines <- MCLines
  MaxLines = 3
  Absent = Absent
  mainnet = mainnet
  p1 = p1
  p2 = p2
  p3 = p3
  g1 = g1
  g2 = g2
  g3 = g3
  g4 = g4
  u1 = u1
  u2 = u2
  u3 = u3
  w1 = w1
  w2 = w2
  m1 = m1
  m2 = m2
  Names = {"r9", "dev", "r6"}
  Clusters = {mainnet, Devnet}
  Programs = {p1, p2, p3}
  Groups = {g1, g2, g3, g4}
  Urls = {u1, u2, u3}
  Gateways = {w1, w2}
  Devnet = Devnet
  Unset = Unset
  Registry <- MCRegistry
  Home <- MCHome
  ClusterOf <- MCClusterOf
  DefaultUrl <- MCDefaultUrl
  Tokens = {t1, t2, usdc}
  Settlement = usdc
  Free = Free
  Slots = 2
  Perps <- MCPerps
  OracleKeys = {o1, o2, o3}
  o2 = o2
  o3 = o3
  FallbackLists <- MCFallbackLists
  NoOracle = NoOracle
  Answers <- MCAnswers
  MaxHops = 2
  MaxDepth = 4
  Keys = {"order", "orders", "id", "state_reason", "last_fire", "attempt", "sequence", "request", "other", "1", "2"}
SPECIFICATION Spec
SYMMETRY MCSymmetry
INVARIANTS
  CreditIsPaid
  ExecutedOnce
  ReplayIsRepeat
  DirectEnds
  ChunkingInvisible
  OneDeployment
  SignedAsSeen
  NothingForbidden
  RedactionHidesNoLeg
CHECK_DEADLOCK FALSE
