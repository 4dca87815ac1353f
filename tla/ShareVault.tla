----------------------------- MODULE ShareVault -----------------------------
(***************************************************************************)
(* A vault that is driven by the amounts of FlpMath: deposits at the high  *)
(* estimate of its value, withdrawals collected into one batch, funded at  *)
(* the low estimate, and claimed in any number of parts.  The vault        *)
(* program is external; the amounts of its steps are the code's.           *)
(***************************************************************************)
EXTENDS FlpMath

CONSTANTS Amounts,       \* the amounts of a deposit
          FeeRates,      \* the fee rates in bps
          Spread,        \* how far an estimate may be from the value
          Values,        \* the values the market may give the portfolio
          MaxSupply      \* bound on the shares of a behaviour

ASSUME VaultAssumption ==
  /\ Amounts \subseteq Nat /\ FeeRates \subseteq 0 .. BpsOne /\ Spread \in Nat
  /\ Values \subseteq Int /\ MaxSupply \in Nat

VARIABLES nav,        \* the value of the portfolio, in native units
          supply,     \* the shares that count in the price, those in `locked` included
          locked,     \* shares whose batch has not been funded
          batch,      \* the funded batch: its shares, its price and its fee rate
          reserve,    \* what the batch was funded with
          claimed, paid, claims  \* shares and net amounts claimed of it, and how often

vars == <<nav, supply, locked, batch, reserve, claimed, paid, claims>>

Ratio == [num : Nat, den : Nat \ {0}]
NoBatch == [shares |-> 0, ratio |-> [num |-> 0, den |-> 1], bps |-> 0]

Init ==
  /\ nav = 0 /\ supply = 0 /\ locked = 0
  /\ batch = NoBatch /\ reserve = 0 /\ claimed = 0 /\ paid = 0 /\ claims = 0

\* A fee stays in the vault, or leaves it.
Kept(fee) == {0, fee}

Deposit(amount, bps, high) ==
  /\ PricingSupplyOk(supply - locked, 0, locked)
  /\ QuoteDepositOk(amount, PricingSupply(supply - locked, 0, locked), nav + high, bps)
  /\ LET q == QuoteDeposit(amount, PricingSupply(supply - locked, 0, locked), nav + high, bps)
     IN  /\ supply + q.shares <= MaxSupply
         /\ supply' = supply + q.shares
         /\ \E kept \in Kept(q.fee) : nav' = nav + q.net + kept
  /\ UNCHANGED <<locked, batch, reserve, claimed, paid, claims>>

\* The shares of a request are burned and wait for their batch.
Request(shares) ==
  /\ shares <= supply - locked
  /\ locked' = locked + shares
  /\ UNCHANGED <<nav, supply, batch, reserve, claimed, paid, claims>>

\* A batch is funded when the one before it is claimed and the vault has the cash.
FundAt(ratio, bps) ==
  LET p == BatchPayout(locked, ratio, bps)
  IN  /\ locked > 0 /\ claimed = batch.shares
      /\ BatchPayoutOk(locked, ratio, bps)
      /\ p.gross <= nav \/ p.gross = 0
      /\ batch'   = [shares |-> locked, ratio |-> ratio, bps |-> bps]
      /\ reserve' = p.net
      /\ \E kept \in Kept(p.fee) : nav' = nav - p.gross + kept
      /\ supply' = supply - locked
      /\ locked' = 0 /\ claimed' = 0 /\ paid' = 0 /\ claims' = 0

Fund(bps, low) ==
  /\ WithdrawRatioOk(supply, nav - low)
  /\ FundAt(WithdrawRatio(supply, nav - low), bps)

\* In recovery the price has no virtual part.
Recover(bps, low) ==
  /\ RecoveryRatioOk(supply, nav - low)
  /\ FundAt(RecoveryRatio(supply, nav - low), bps)

Claim(shares) ==
  /\ shares <= batch.shares - claimed
  /\ ClaimPayoutOk(shares, batch.ratio, batch.bps)
  /\ claimed' = claimed + shares
  /\ paid'    = paid + ClaimPayout(shares, batch.ratio, batch.bps).net
  /\ claims'  = claims + 1
  /\ UNCHANGED <<nav, supply, locked, batch, reserve>>

\* Trading changes the value of the portfolio.
Trade == /\ nav' \in Values
         /\ UNCHANGED <<supply, locked, batch, reserve, claimed, paid, claims>>

Live ==
  \/ \E amount \in Amounts, bps \in FeeRates, high \in 0 .. Spread : Deposit(amount, bps, high)
  \/ \E shares \in 1 .. MaxSupply : Request(shares) \/ Claim(shares)
  \/ \E bps \in FeeRates, low \in 0 .. Spread : Fund(bps, low)

Recovery == \E bps \in FeeRates, low \in 0 .. Spread : Recover(bps, low)

Next == Live \/ Recovery \/ Trade

Spec == Init /\ [][Next]_vars

(***************************************************************************)
(* Properties                                                              *)
(***************************************************************************)
TypeOK ==
  /\ nav \in Int /\ supply \in 0 .. MaxSupply /\ locked \in 0 .. supply
  /\ batch \in [shares : Nat, ratio : Ratio, bps : 0 .. BpsOne]
  /\ reserve \in Nat /\ paid \in Nat /\ claims \in Nat /\ claimed \in 0 .. batch.shares

\* However a batch is split into claims, and in whatever order they come, what was set
\* aside for it covers them: rounding each fee up and that of the batch down suffices.
ClaimsCovered == paid <= reserve

\* The arithmetic that accepted a batch accepts every claim on it.
EveryClaimPays ==
  \A shares \in 1 .. batch.shares - claimed : ClaimPayoutOk(shares, batch.ratio, batch.bps)

\* When a batch is claimed to its last share, rounding has kept back at most two units
\* for each claim, one of the gross amount and one of the fee.
DustIsBounded == claimed = batch.shares => reserve - paid <= 2 * claims

\* No deposit, request, funding or claim lowers the price of the shares that stay: what
\* rounding takes is never taken from them.
PriceNeverFalls ==
  [][PriceE12(nav', supply') >= PriceE12(nav, supply) \/ ~Live]_vars

\* A funding in recovery leaves the others at least their part of the real assets.
RecoveryIsFair == [][nav' * supply >= nav * supply' \/ ~Recovery]_vars

\* A depositor who leaves at once is paid no more than was deposited, even if the fee stays
\* in the vault and the two estimates of its value agree.
RoundTrip ==
  \A amount \in Amounts, bps, out \in FeeRates, high \in 0 .. Spread :
    QuoteDepositOk(amount, supply, nav + high, bps) =>
      LET q     == QuoteDeposit(amount, supply, nav + high, bps)
          ratio == WithdrawRatio(supply + q.shares, nav + high + amount)
      IN  ClaimPayoutOk(q.shares, ratio, out) => ClaimPayout(q.shares, ratio, out).net <= amount

\* The inductive invariant: what was paid is at most the net price of what was claimed at
\* once, and lags behind the exact price by two units for each claim.
IInv ==
  /\ TypeOK
  /\ BatchPayoutOk(batch.shares, batch.ratio, batch.bps)
  /\ reserve = BatchPayout(batch.shares, batch.ratio, batch.bps).net
  /\ BpsOne * paid <= (BpsOne - batch.bps) * ApplyRatioFloor(claimed, batch.ratio)
  /\ (BpsOne - batch.bps) * (claimed * batch.ratio.num)
       <= (BpsOne * batch.ratio.den) * (paid + 2 * claims)
=============================================================================
