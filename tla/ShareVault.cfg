CONSTANTS
  VirtualAssets = 2
  VirtualShares = 2
  PriceScale = 64
  BpsOne = 4
  U64Max = 20
  U128Max = 40
  I64Max = 9
  Amounts = {1, 6}
  FeeRates = {0, 1}
  Spread = 1
  Values <- MCValues
  MaxSupply = 4
SPECIFICATION Spec
INVARIANTS
  ClaimsCovered
  EveryClaimPays
  DustIsBounded
  RoundTrip
PROPERTIES
  PriceNeverFalls
  RecoveryIsFair
CHECK_DEADLOCK FALSE
