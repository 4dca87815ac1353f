------------------------------- MODULE FlpMath -------------------------------
(***************************************************************************)
(* The integer arithmetic of flp/math.ts, and batchPayout of flp/v4.ts:    *)
(* what a deposit mints, what a withdrawal batch is funded with, what a    *)
(* claim pays.  A function that throws is an operator and a predicate that *)
(* says when it returns.                                                   *)
(***************************************************************************)
EXTENDS Integers

CONSTANTS VirtualAssets, VirtualShares, PriceScale,   \* offsets, fixed point of prices
          BpsOne,                                     \* 10000 bps
          U64Max, U128Max, I64Max                     \* widths

ASSUME ScaleAssumption ==
  /\ VirtualAssets \in Nat \ {0} /\ VirtualShares \in Nat \ {0}
  /\ PriceScale \in Nat \ {0} /\ BpsOne \in Nat \ {0}
  /\ U64Max \in Nat /\ U128Max \in Nat \ {0} /\ I64Max \in Nat

IsU64(n)     == n \in 0 .. U64Max
IsNav(n)     == n \in -I64Max - 1 .. I64Max
IsFeeRate(b) == b \in 0 .. BpsOne

FeeUp(x, bps)   == (x * bps + (BpsOne - 1)) \div BpsOne
FeeDown(x, bps) == (x * bps) \div BpsOne

\* Shares that were burned by a request, or are owed, still count in the price.
PricingSupply(mint, owed, locked) == mint + owed + locked
PricingSupplyOk(mint, owed, locked) ==
  IsU64(mint) /\ IsU64(owed) /\ IsU64(locked) /\ IsU64(mint + owed + locked)

\* A deposit is priced at the high estimate of the value of the vault.
DepositRatioOk(supply, navHigh) ==
  /\ IsU64(supply) /\ IsNav(navHigh)
  /\ navHigh > 0 \/ supply = 0
  /\ navHigh + VirtualAssets > 0
DepositRatio(supply, navHigh) == [num |-> supply + VirtualShares, den |-> navHigh + VirtualAssets]

\* A mutation: the virtual shares are forgotten.
WithdrawRatioReal(supply, navLow) ==
  [num |-> IF navLow <= 0 THEN 0 ELSE navLow + VirtualAssets, den |-> supply]

\* A withdrawal is priced at the low one.
WithdrawRatio(supply, navLow) ==
  [num |-> IF navLow <= 0 THEN 0 ELSE navLow + VirtualAssets, den |-> supply + VirtualShares]

WithdrawRatioOk(supply, navLow) == IsU64(supply) /\ IsNav(navLow)

\* In recovery real assets pay real shares.
RecoveryRatioOk(supply, navLow) == IsU64(supply) /\ IsNav(navLow) /\ supply # 0 /\ navLow >= 0

\* A mutation: the virtual assets are counted.
RecoveryRatioVirtual(supply, navLow) == [num |-> navLow + VirtualAssets, den |-> supply]

RecoveryRatio(supply, navLow)   == [num |-> navLow, den |-> supply]

\* A mutation: the quotient is rounded up.
ApplyRatioCeil(amount, ratio) == (amount * ratio.num + ratio.den - 1) \div ratio.den

ApplyRatioFloor(amount, ratio) == (amount * ratio.num) \div ratio.den
ApplyRatioOk(amount, ratio) ==
  /\ IsU64(amount)
  /\ ratio.num \in 0 .. U128Max /\ ratio.den \in 1 .. U128Max
  /\ amount * ratio.num <= U128Max
  /\ IsU64(ApplyRatioFloor(amount, ratio))

PriceE12(nav, supply) ==
  IF nav + VirtualAssets <= 0 THEN 0
  ELSE ((nav + VirtualAssets) * PriceScale) \div (supply + VirtualShares)

QuoteDeposit(amount, supply, navHigh, bps) ==
  LET fee == FeeUp(amount, bps)
  IN  [fee |-> fee, net |-> amount - fee,
       shares |-> ApplyRatioFloor(amount - fee, DepositRatio(supply, navHigh))]
QuoteDepositOk(amount, supply, navHigh, bps) ==
  /\ IsU64(amount) /\ IsFeeRate(bps)
  /\ DepositRatioOk(supply, navHigh)
  /\ ApplyRatioOk(amount - FeeUp(amount, bps), DepositRatio(supply, navHigh))

\* A mutation: a claim's fee is rounded down, as that of a batch.
ClaimPayoutDown(shares, ratio, bps) ==
  LET gross == ApplyRatioFloor(shares, ratio)
  IN  [gross |-> gross, fee |-> FeeDown(gross, bps), net |-> gross - FeeDown(gross, bps)]

\* A mutation: the price of one share is rounded, and not the price of all.
ClaimPayoutByShare(shares, ratio, bps) ==
  LET gross == shares * ApplyRatioFloor(1, ratio)
  IN  [gross |-> gross, fee |-> FeeUp(gross, bps), net |-> gross - FeeUp(gross, bps)]

\* What one depositor is paid for the shares of a funded batch.
ClaimPayout(shares, ratio, bps) ==
  LET gross == ApplyRatioFloor(shares, ratio)
  IN  [gross |-> gross, fee |-> FeeUp(gross, bps), net |-> gross - FeeUp(gross, bps)]
ClaimPayoutOk(shares, ratio, bps) == ApplyRatioOk(shares, ratio) /\ IsFeeRate(bps)

\* What a batch is funded with.
BatchPayout(shares, ratio, bps) ==
  LET gross == (shares * ratio.num) \div ratio.den
  IN  [gross |-> gross, fee |-> FeeDown(gross, bps), net |-> gross - FeeDown(gross, bps)]

\* A mutation: the product is not checked against 128 bits.
BatchPayoutUnchecked(shares, ratio, bps) ==
  /\ shares >= 0 /\ IsFeeRate(bps)
  /\ ratio.num \in 0 .. U128Max /\ ratio.den \in 1 .. U128Max
  /\ IsU64((shares * ratio.num) \div ratio.den) /\ IsU64(shares)

BatchPayoutOk(shares, ratio, bps) ==
  /\ shares >= 0 /\ IsFeeRate(bps)
  /\ ratio.num \in 0 .. U128Max /\ ratio.den \in 1 .. U128Max
  /\ shares * ratio.num <= U128Max
  /\ IsU64((shares * ratio.num) \div ratio.den) /\ IsU64(shares)
=============================================================================
