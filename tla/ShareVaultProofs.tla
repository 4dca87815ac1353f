--------------------------- MODULE ShareVaultProofs ---------------------------
(***************************************************************************)
(* For every scale, width, fee rate and order of claims: the claims on a   *)
(* batch are covered by what was set aside for it, and rounding takes      *)
(* nothing from the shares that stay.                                      *)
(***************************************************************************)
EXTENDS ShareVault, TLAPS

(***************************************************************************)
(* Quotients and fees                                                      *)
(***************************************************************************)
\* What the integer quotient is.
LEMMA Quotient ==
  ASSUME NEW a \in Nat, NEW b \in Nat \ {0}
  PROVE  a \div b \in Nat /\ b * (a \div b) <= a /\ a < b * (a \div b) + b
  OBVIOUS

\* It is the greatest of its kind.
LEMMA QuotientIsGreatest ==
  ASSUME NEW a \in Nat, NEW b \in Nat \ {0}, NEW q \in Int, b * q <= a
  PROVE  q <= a \div b
  OBVIOUS

\* A factor keeps an inequality, and can be cancelled.
LEMMA Times ==
  ASSUME NEW a \in Int, NEW b \in Int, NEW c \in Nat, a <= b
  PROVE  a * c <= b * c /\ c * a <= c * b
  OBVIOUS

LEMMA Cancel ==
  ASSUME NEW a \in Int, NEW b \in Int, NEW c \in Nat \ {0}, c * a <= c * b
  PROVE  a <= b
  OBVIOUS

\* A fee that is rounded up.
LEMMA FeeUpFacts ==
  ASSUME NEW x \in Nat, NEW bps \in 0 .. BpsOne
  PROVE  /\ FeeUp(x, bps) \in 0 .. x
         /\ BpsOne * (x - FeeUp(x, bps)) <= (BpsOne - bps) * x
         /\ (BpsOne - bps) * x <= BpsOne * (x - FeeUp(x, bps)) + BpsOne
  <1> USE ScaleAssumption
  <1> DEFINE f == FeeUp(x, bps)
             a == x * bps + (BpsOne - 1)
  <1>1. BpsOne \in Nat \ {0} /\ bps \in Nat /\ bps <= BpsOne
    OBVIOUS
  <1>2. x * bps \in Nat /\ x * bps <= x * BpsOne
    BY <1>1, Times
  <1>3. a \in Nat
    BY <1>1, <1>2
  <1>4. f \in Nat /\ BpsOne * f <= a /\ a < BpsOne * f + BpsOne
    BY <1>1, <1>3, Quotient DEF FeeUp
  <1>5. BpsOne * f <= x * bps + (BpsOne - 1) /\ x * bps <= BpsOne * f
    BY <1>1, <1>2, <1>4
  <1> HIDE DEF f, a
  <1>6. BpsOne * (x - f) = x * BpsOne - BpsOne * f /\ (BpsOne - bps) * x = x * BpsOne - x * bps
    BY <1>1, <1>4
  <1>7. x * BpsOne \in Nat /\ BpsOne * f \in Nat
    BY <1>1, <1>4
  <1>8. BpsOne * f < BpsOne * (x + 1)
    <2>1. BpsOne * (x + 1) = x * BpsOne + BpsOne
      BY <1>1
    <2> QED BY <1>1, <1>2, <1>5, <1>7, <2>1
  <1>9. f <= x
    <2>1. ~(x + 1 <= f)
      <3>1. x + 1 <= f => BpsOne * (x + 1) <= BpsOne * f
        BY <1>1, <1>4, Times
      <3> QED BY <3>1, <1>8, <1>7, <1>1
    <2> QED BY <2>1, <1>4
  <1>10. BpsOne * (x - f) <= (BpsOne - bps) * x
    BY <1>2, <1>5, <1>6, <1>7
  <1>11. (BpsOne - bps) * x <= BpsOne * (x - f) + BpsOne
    BY <1>1, <1>2, <1>5, <1>6, <1>7
  <1> QED BY <1>4, <1>9, <1>10, <1>11 DEF f

\* A fee that is rounded down.
LEMMA FeeDownFacts ==
  ASSUME NEW x \in Nat, NEW bps \in 0 .. BpsOne
  PROVE  /\ FeeDown(x, bps) \in 0 .. x
         /\ (BpsOne - bps) * x <= BpsOne * (x - FeeDown(x, bps))
         /\ BpsOne * (x - FeeDown(x, bps)) < (BpsOne - bps) * x + BpsOne
  <1> USE ScaleAssumption
  <1> DEFINE f == FeeDown(x, bps)
  <1>1. BpsOne \in Nat \ {0} /\ bps \in Nat /\ bps <= BpsOne
    OBVIOUS
  <1>2. x * bps \in Nat /\ x * bps <= x * BpsOne /\ x * BpsOne \in Nat
    BY <1>1, Times
  <1>3. f \in Nat /\ BpsOne * f <= x * bps /\ x * bps < BpsOne * f + BpsOne
    BY <1>1, <1>2, Quotient DEF FeeDown
  <1> HIDE DEF f
  <1>4. BpsOne * (x - f) = x * BpsOne - BpsOne * f /\ (BpsOne - bps) * x = x * BpsOne - x * bps
    BY <1>1, <1>3
  <1>5. f <= x
    <2>1. BpsOne * f <= BpsOne * x
      BY <1>1, <1>2, <1>3
    <2> QED BY <2>1, <1>1, <1>3, Cancel
  <1>6. BpsOne * f \in Nat
    BY <1>1, <1>3
  <1>7. (BpsOne - bps) * x <= BpsOne * (x - f)
    BY <1>2, <1>3, <1>4, <1>6
  <1>8. BpsOne * (x - f) < (BpsOne - bps) * x + BpsOne
    BY <1>1, <1>2, <1>3, <1>4, <1>6
  <1> QED BY <1>3, <1>5, <1>7, <1>8 DEF f

(***************************************************************************)
(* Claims                                                                  *)
(***************************************************************************)
\* The gross amount of some shares.
LEMMA Gross ==
  ASSUME NEW s \in Nat, NEW r \in Ratio
  PROVE  /\ ApplyRatioFloor(s, r) \in Nat /\ s * r.num \in Nat
         /\ r.den * ApplyRatioFloor(s, r) <= s * r.num
         /\ s * r.num < r.den * ApplyRatioFloor(s, r) + r.den
  <1>1. r.num \in Nat /\ r.den \in Nat \ {0}
    BY DEF Ratio
  <1>2. s * r.num \in Nat
    BY <1>1
  <1> QED BY <1>1, <1>2, Quotient DEF ApplyRatioFloor

\* Two claims are worth no more than one for both.
LEMMA Together ==
  ASSUME NEW s \in Nat, NEW u \in Nat, NEW r \in Ratio
  PROVE  ApplyRatioFloor(s, r) + ApplyRatioFloor(u, r) <= ApplyRatioFloor(s + u, r)
  <1> DEFINE g == ApplyRatioFloor(s, r)
             h == ApplyRatioFloor(u, r)
             d == r.den
             n == r.num
  <1>1. n \in Nat /\ d \in Nat \ {0}
    BY DEF Ratio
  <1>2. /\ g \in Nat /\ d * g <= s * n /\ s * n \in Nat
        /\ h \in Nat /\ d * h <= u * n /\ u * n \in Nat
    BY Gross
  <1>3. ApplyRatioFloor(s + u, r) = ((s + u) * n) \div d
    BY DEF ApplyRatioFloor
  <1> HIDE DEF g, h, d, n
  <1>4. (s + u) * n = s * n + u * n /\ d * (g + h) = d * g + d * h /\ (s + u) * n \in Nat
    BY <1>1, <1>2
  <1>5. d * g \in Nat /\ d * h \in Nat
    BY <1>1, <1>2
  <1>6. d * (g + h) <= (s + u) * n
    BY <1>2, <1>4, <1>5
  <1>7. g + h \in Int
    BY <1>2
  <1>8. g + h <= ((s + u) * n) \div d
    BY <1>1, <1>4, <1>6, <1>7, QuotientIsGreatest
  <1> QED BY <1>3, <1>8 DEF g, h

\* More shares are worth no less.
LEMMA MoreShares ==
  ASSUME NEW s \in Nat, NEW u \in Nat, NEW r \in Ratio, s <= u
  PROVE  ApplyRatioFloor(s, r) <= ApplyRatioFloor(u, r) /\ s * r.num <= u * r.num
  <1>1. u - s \in Nat /\ s + (u - s) = u /\ r.num \in Nat
    BY DEF Ratio
  <1>2. /\ ApplyRatioFloor(u - s, r) \in Nat /\ ApplyRatioFloor(s, r) \in Nat
        /\ ApplyRatioFloor(u, r) \in Nat
    BY <1>1, Gross
  <1>3. ApplyRatioFloor(s, r) + ApplyRatioFloor(u - s, r) <= ApplyRatioFloor(u, r)
    BY <1>1, Together
  <1> QED BY <1>1, <1>2, <1>3, Times

\* A claim pays at most its part of the net price, and less by two units at most.
LEMMA ClaimFacts ==
  ASSUME NEW s \in Nat, NEW r \in Ratio, NEW bps \in 0 .. BpsOne
  PROVE  LET net == ClaimPayout(s, r, bps).net
         IN  /\ net \in Nat
             /\ net <= ApplyRatioFloor(s, r)
             /\ BpsOne * net <= (BpsOne - bps) * ApplyRatioFloor(s, r)
             /\ (BpsOne - bps) * (s * r.num) <= (BpsOne * r.den) * (net + 2)
  <1> USE ScaleAssumption
  <1> DEFINE g == ApplyRatioFloor(s, r)
             net == g - FeeUp(g, bps)
             k == BpsOne - bps
             d == r.den
             x == s * r.num
  <1>0. ClaimPayout(s, r, bps).net = net
    BY DEF ClaimPayout
  <1>1. g \in Nat /\ x \in Nat /\ d * g <= x /\ x < d * g + d /\ d \in Nat \ {0}
    BY Gross DEF Ratio
  <1>2. FeeUp(g, bps) \in 0 .. g /\ BpsOne * net <= k * g /\ k * g <= BpsOne * net + BpsOne
    BY <1>1, FeeUpFacts
  <1>3. k \in Nat /\ k <= BpsOne /\ BpsOne \in Nat \ {0}
    OBVIOUS
  <1>4. net \in Nat /\ net <= g
    BY <1>1, <1>2
  <1> HIDE DEF g, net, k, d, x
  <1>5. k * x <= k * (d * g + d)
    <2>1. x <= d * g + d /\ d * g + d \in Nat
      BY <1>1
    <2> QED BY <2>1, <1>1, <1>3, Times
  <1>6. k * (d * g + d) = d * (k * g) + k * d
    BY <1>1, <1>3
  <1>7. d * (k * g) <= d * (BpsOne * net + BpsOne)
    <2>1. k * g \in Nat /\ BpsOne * net + BpsOne \in Nat
      BY <1>1, <1>3, <1>4
    <2> QED BY <2>1, <1>1, <1>2, Times
  <1>8. k * d <= BpsOne * d
    BY <1>1, <1>3, Times
  <1>9. (BpsOne * d) * (net + 2) = d * (BpsOne * net + BpsOne) + BpsOne * d
    BY <1>1, <1>3, <1>4
  <1>10. /\ k * x \in Nat /\ d * (k * g) \in Nat /\ k * d \in Nat
         /\ d * (BpsOne * net + BpsOne) \in Nat /\ BpsOne * d \in Nat
    BY <1>1, <1>3, <1>4
  <1>11. k * x <= (BpsOne * d) * (net + 2)
    <2> DEFINE a1 == k * x
               a2 == d * (k * g)
               a3 == k * d
               a4 == d * (BpsOne * net + BpsOne)
               a5 == BpsOne * d
    <2>1. a1 <= a2 + a3 /\ a2 <= a4 /\ a3 <= a5 /\ (BpsOne * d) * (net + 2) = a4 + a5
      BY <1>5, <1>6, <1>7, <1>8, <1>9
    <2>2. a1 \in Nat /\ a2 \in Nat /\ a3 \in Nat /\ a4 \in Nat /\ a5 \in Nat
      BY <1>10
    <2> HIDE DEF a1, a2, a3, a4, a5
    <2>3. a1 <= a4 + a5
      BY <2>1, <2>2
    <2> QED BY <2>1, <2>3 DEF a1
  <1> QED BY <1>0, <1>2, <1>4, <1>11 DEF g, net, k, d, x

\* What a batch is funded with, against the net price of its gross amount.
LEMMA BatchFacts ==
  ASSUME NEW s \in Nat, NEW r \in Ratio, NEW bps \in 0 .. BpsOne
  PROVE  LET p == BatchPayout(s, r, bps)
         IN  /\ p.gross = ApplyRatioFloor(s, r) /\ p.gross \in Nat
             /\ p.fee \in 0 .. p.gross
             /\ p.net = p.gross - p.fee /\ p.net \in Nat
             /\ (BpsOne - bps) * p.gross <= BpsOne * p.net
             /\ BpsOne * p.net < (BpsOne - bps) * p.gross + BpsOne
  <1> DEFINE g == ApplyRatioFloor(s, r)
  <1>1. BatchPayout(s, r, bps) = [gross |-> g, fee |-> FeeDown(g, bps), net |-> g - FeeDown(g, bps)]
    BY DEF BatchPayout, ApplyRatioFloor
  <1>2. g \in Nat
    BY Gross
  <1> HIDE DEF g
  <1>3. /\ FeeDown(g, bps) \in 0 .. g
        /\ (BpsOne - bps) * g <= BpsOne * (g - FeeDown(g, bps))
        /\ BpsOne * (g - FeeDown(g, bps)) < (BpsOne - bps) * g + BpsOne
    BY <1>2, FeeDownFacts
  <1> QED BY <1>1, <1>2, <1>3 DEF g

(***************************************************************************)
(* The inductive invariant                                                 *)
(***************************************************************************)
\* The part of the invariant that is about the batch.
Funded ==
  /\ batch \in [shares : Nat, ratio : Ratio, bps : 0 .. BpsOne]
  /\ reserve \in Nat /\ paid \in Nat /\ claims \in Nat /\ claimed \in 0 .. batch.shares
  /\ BatchPayoutOk(batch.shares, batch.ratio, batch.bps)
  /\ reserve = BatchPayout(batch.shares, batch.ratio, batch.bps).net
  /\ BpsOne * paid <= (BpsOne - batch.bps) * ApplyRatioFloor(claimed, batch.ratio)
  /\ (BpsOne - batch.bps) * (claimed * batch.ratio.num)
       <= (BpsOne * batch.ratio.den) * (paid + 2 * claims)

\* The invariant in two parts.
LEMMA Parts ==
  /\ IInv => /\ Funded
             /\ nav \in Int /\ supply \in 0 .. MaxSupply /\ locked \in 0 .. supply
  /\ (IInv)' <=> /\ Funded'
                 /\ nav' \in Int /\ supply' \in 0 .. MaxSupply /\ locked' \in 0 .. supply'
  BY DEF IInv, TypeOK, Funded

\* A step that leaves the batch alone.
LEMMA FundedKept ==
  ASSUME Funded, UNCHANGED <<batch, reserve, claimed, paid, claims>>
  PROVE  Funded'
  BY DEF Funded

\* A batch nothing has been claimed of.
LEMMA NothingClaimed ==
  ASSUME NEW r \in Ratio, NEW bps \in 0 .. BpsOne
  PROVE  /\ BpsOne * 0 <= (BpsOne - bps) * ApplyRatioFloor(0, r)
         /\ (BpsOne - bps) * (0 * r.num) <= (BpsOne * r.den) * (0 + 2 * 0)
  <1>1. ApplyRatioFloor(0, r) \in Nat /\ r.num \in Nat /\ r.den \in Nat
    BY Gross DEF Ratio
  <1>2. BpsOne - bps \in Nat /\ BpsOne \in Nat
    BY ScaleAssumption
  <1>3. (BpsOne - bps) * ApplyRatioFloor(0, r) \in Nat /\ 0 * r.num = 0
    BY <1>1, <1>2
  <1>4. (BpsOne - bps) * 0 = 0 /\ (BpsOne * r.den) * (0 + 2 * 0) = 0
    BY <1>1, <1>2
  <1> QED BY <1>2, <1>3, <1>4

LEMMA InitInv == Init => IInv
  <1> SUFFICES ASSUME Init PROVE IInv
    OBVIOUS
  <1> DEFINE r == [num |-> 0, den |-> 1]
  <1>1. r \in Ratio /\ r.num = 0 /\ r.den = 1 /\ 0 \in 0 .. BpsOne
    BY ScaleAssumption DEF Ratio
  <1>2. batch = [shares |-> 0, ratio |-> r, bps |-> 0] /\ claimed = 0 /\ paid = 0 /\ claims = 0
    BY DEF Init, NoBatch
  <1> HIDE DEF r
  <1>3. (0 * r.num) \div r.den = 0
    BY <1>1
  <1>4. BatchPayout(0, r, 0) = [gross |-> 0, fee |-> 0, net |-> 0]
    BY <1>3, ScaleAssumption DEF BatchPayout, FeeDown
  <1>5. BatchPayoutOk(0, r, 0)
    BY <1>1, <1>3, ScaleAssumption DEF BatchPayoutOk, IsFeeRate, IsU64
  <1>6. TypeOK
    BY <1>1, <1>2, VaultAssumption, ScaleAssumption DEF Init, TypeOK
  <1>7. reserve = BatchPayout(0, r, 0).net
    BY <1>4 DEF Init
  <1> QED BY <1>1, <1>2, <1>5, <1>6, <1>7, NothingClaimed DEF IInv

LEMMA DepositInv ==
  ASSUME IInv, NEW amount \in Amounts, NEW bps \in FeeRates, NEW high \in 0 .. Spread,
         Deposit(amount, bps, high)
  PROVE  (IInv)'
  <1> DEFINE s == PricingSupply(supply - locked, 0, locked)
             q == QuoteDeposit(amount, s, nav + high, bps)
  <1>1. Funded /\ nav \in Int /\ supply \in 0 .. MaxSupply /\ locked \in 0 .. supply
    BY Parts
  <1>2. amount \in Nat /\ bps \in 0 .. BpsOne
    BY VaultAssumption
  <1>3. q.shares \in Nat /\ q.fee \in Int /\ q.net \in Int
    <2>1. QuoteDepositOk(amount, s, nav + high, bps)
      BY DEF Deposit
    <2>2. q.shares \in Nat
      BY <2>1, ScaleAssumption DEF QuoteDepositOk, ApplyRatioOk, IsU64, QuoteDeposit
    <2>3. FeeUp(amount, bps) \in Int
      BY <1>2, FeeUpFacts
    <2> QED BY <2>2, <2>3, <1>2 DEF QuoteDeposit
  <1>4. /\ supply + q.shares <= MaxSupply /\ supply' = supply + q.shares
        /\ \E kept \in Kept(q.fee) : nav' = nav + q.net + kept
        /\ UNCHANGED <<locked, batch, reserve, claimed, paid, claims>>
    BY DEF Deposit
  <1> HIDE DEF q
  <1>5. nav' \in Int /\ supply' \in 0 .. MaxSupply /\ locked' \in 0 .. supply'
    BY <1>1, <1>3, <1>4, VaultAssumption DEF Kept
  <1> QED BY <1>1, <1>4, <1>5, Parts, FundedKept

LEMMA RequestInv ==
  ASSUME IInv, NEW shares \in 1 .. MaxSupply, Request(shares)
  PROVE  (IInv)'
  <1>1. Funded /\ nav \in Int /\ supply \in 0 .. MaxSupply /\ locked \in 0 .. supply
    BY Parts
  <1>2. nav' \in Int /\ supply' \in 0 .. MaxSupply /\ locked' \in 0 .. supply'
    BY <1>1, VaultAssumption DEF Request
  <1> QED BY <1>1, <1>2, Parts, FundedKept DEF Request

LEMMA TradeInv ==
  ASSUME IInv, Trade
  PROVE  (IInv)'
  <1>1. Funded /\ nav \in Int /\ supply \in 0 .. MaxSupply /\ locked \in 0 .. supply
    BY Parts
  <1>2. nav' \in Int /\ supply' \in 0 .. MaxSupply /\ locked' \in 0 .. supply'
    BY <1>1, VaultAssumption DEF Trade
  <1> QED BY <1>1, <1>2, Parts, FundedKept DEF Trade

\* What a ratio that a batch accepts looks like.
LEMMA RatioTyped ==
  ASSUME NEW n, NEW d, NEW s, NEW bps, BatchPayoutOk(s, [num |-> n, den |-> d], bps)
  PROVE  [num |-> n, den |-> d] \in Ratio /\ bps \in 0 .. BpsOne
  BY ScaleAssumption DEF BatchPayoutOk, Ratio, IsFeeRate

LEMMA FundAtInv ==
  ASSUME IInv, NEW r \in Ratio, NEW bps \in 0 .. BpsOne, FundAt(r, bps)
  PROVE  (IInv)'
  <1> DEFINE p == BatchPayout(locked, r, bps)
  <1>1. nav \in Int /\ supply \in 0 .. MaxSupply /\ locked \in 0 .. supply /\ locked \in Nat
    BY Parts, VaultAssumption
  <1>2. p.gross \in Nat /\ p.fee \in 0 .. p.gross /\ p.net \in Nat
    BY <1>1, BatchFacts
  <1>3. /\ BatchPayoutOk(locked, r, bps)
        /\ batch' = [shares |-> locked, ratio |-> r, bps |-> bps]
        /\ reserve' = p.net
        /\ \E kept \in Kept(p.fee) : nav' = nav - p.gross + kept
        /\ supply' = supply - locked
        /\ locked' = 0 /\ claimed' = 0 /\ paid' = 0 /\ claims' = 0
    BY DEF FundAt
  <1>4. batch'.shares = locked /\ batch'.ratio = r /\ batch'.bps = bps
    BY <1>3
  <1>5. batch' \in [shares : Nat, ratio : Ratio, bps : 0 .. BpsOne]
    BY <1>1, <1>3
  <1>6. reserve' = BatchPayout(batch'.shares, batch'.ratio, batch'.bps).net
    BY <1>3, <1>4
  <1> HIDE DEF p
  <1>7. nav' \in Int /\ supply' \in 0 .. MaxSupply /\ locked' \in 0 .. supply'
    BY <1>1, <1>2, <1>3, VaultAssumption DEF Kept
  <1>8. Funded'
    BY <1>1, <1>2, <1>3, <1>4, <1>5, <1>6, NothingClaimed DEF Funded
  <1> QED BY <1>7, <1>8, Parts

LEMMA FundInv ==
  ASSUME IInv, NEW bps \in FeeRates, NEW low \in 0 .. Spread, Fund(bps, low) \/ Recover(bps, low)
  PROVE  (IInv)'
  <1>1. CASE Fund(bps, low)
    <2>1. FundAt(WithdrawRatio(supply, nav - low), bps)
      BY <1>1 DEF Fund
    <2>2. WithdrawRatio(supply, nav - low) \in Ratio /\ bps \in 0 .. BpsOne
      BY <2>1, RatioTyped DEF FundAt, WithdrawRatio
    <2> QED BY <2>1, <2>2, FundAtInv
  <1>2. CASE Recover(bps, low)
    <2>1. FundAt(RecoveryRatio(supply, nav - low), bps)
      BY <1>2 DEF Recover
    <2>2. RecoveryRatio(supply, nav - low) \in Ratio /\ bps \in 0 .. BpsOne
      BY <2>1, RatioTyped DEF FundAt, RecoveryRatio
    <2> QED BY <2>1, <2>2, FundAtInv
  <1> QED BY <1>1, <1>2

\* One more claim adds no more than its part, and two more units of lag.
LEMMA ClaimInv ==
  ASSUME IInv, NEW shares \in 1 .. MaxSupply, Claim(shares)
  PROVE  (IInv)'
  <1> USE ScaleAssumption
  <1> DEFINE r == batch.ratio
             k == BpsOne - batch.bps
             net == ClaimPayout(shares, r, batch.bps).net
             g == ApplyRatioFloor(claimed, r)
             h == ApplyRatioFloor(shares, r)
             f == ApplyRatioFloor(claimed + shares, r)
  <1>1. /\ Funded /\ nav \in Int /\ supply \in 0 .. MaxSupply /\ locked \in 0 .. supply
        /\ shares \in Nat
    BY Parts, VaultAssumption
  <1>2. /\ batch.shares \in Nat /\ r \in Ratio /\ batch.bps \in 0 .. BpsOne
        /\ paid \in Nat /\ claims \in Nat /\ claimed \in 0 .. batch.shares
        /\ r.num \in Nat /\ r.den \in Nat \ {0} /\ claimed \in Nat
    BY <1>1 DEF Funded, Ratio
  <1>3. /\ shares <= batch.shares - claimed
        /\ claimed' = claimed + shares /\ paid' = paid + net /\ claims' = claims + 1
        /\ UNCHANGED <<nav, supply, locked, batch, reserve>>
    BY DEF Claim
  <1>4. /\ net \in Nat /\ BpsOne * net <= k * h
        /\ k * (shares * r.num) <= (BpsOne * r.den) * (net + 2)
    BY <1>1, <1>2, ClaimFacts
  <1>5. BpsOne * paid <= k * g /\ k * (claimed * r.num) <= (BpsOne * r.den) * (paid + 2 * claims)
    BY <1>1 DEF Funded
  <1>6. g + h <= f /\ g \in Nat /\ h \in Nat /\ f \in Nat
    <2>1. claimed + shares \in Nat
      BY <1>1, <1>2
    <2>2. g \in Nat /\ h \in Nat /\ f \in Nat
      BY <1>1, <1>2, <2>1, Gross
    <2> QED BY <1>1, <1>2, <2>2, Together
  <1>7. k \in Nat
    BY <1>2
  <1>8. BpsOne * (paid + net) <= k * f
    <2> HIDE DEF k, net, g, h, f
    <2>1. BpsOne * (paid + net) = BpsOne * paid + BpsOne * net /\ k * (g + h) = k * g + k * h
      BY <1>2, <1>4, <1>6, <1>7
    <2>2. k * (g + h) <= k * f
      BY <1>6, <1>7, Times
    <2>3. /\ BpsOne * paid \in Nat /\ BpsOne * net \in Nat /\ k * g \in Nat /\ k * h \in Nat
          /\ k * f \in Nat
      BY <1>2, <1>4, <1>6, <1>7
    <2> QED BY <1>4, <1>5, <2>1, <2>2, <2>3
  <1>9. k * ((claimed + shares) * r.num) <= (BpsOne * r.den) * (paid + net + 2 * (claims + 1))
    <2> DEFINE x == claimed * r.num
               y == shares * r.num
               u == BpsOne * r.den
               t == paid + 2 * claims
    <2>1. (claimed + shares) * r.num = x + y /\ x \in Nat /\ y \in Nat /\ u \in Nat /\ t \in Nat
      BY <1>1, <1>2
    <2>2. paid + net + 2 * (claims + 1) = t + (net + 2)
      BY <1>2, <1>4
    <2>3. k * x <= u * t /\ k * y <= u * (net + 2)
      BY <1>4, <1>5
    <2> HIDE DEF x, y, u, t, k, net
    <2>4. k * (x + y) = k * x + k * y /\ u * (t + (net + 2)) = u * t + u * (net + 2)
      BY <1>4, <1>7, <2>1
    <2>5. k * x \in Nat /\ k * y \in Nat /\ u * t \in Nat /\ u * (net + 2) \in Nat
      BY <1>4, <1>7, <2>1
    <2>6. k * (x + y) <= u * (t + (net + 2))
      BY <2>3, <2>4, <2>5
    <2> QED BY <2>1, <2>2, <2>6 DEF u
  <1>10. Funded'
    <2>1. claimed' \in 0 .. batch.shares /\ paid' \in Nat /\ claims' \in Nat
      BY <1>1, <1>2, <1>3, <1>4
    <2> QED BY <1>1, <1>3, <1>8, <1>9, <2>1 DEF Funded
  <1> QED BY <1>1, <1>3, <1>10, Parts

\* The inductive invariant: the batch was funded at its price, what was paid of it is at most
\* the net price of what was claimed, and lags behind by two units for each claim.
THEOREM Invariance == Spec => []IInv
  <1>1. Init => IInv
    BY InitInv
  <1>2. IInv /\ [Next]_vars => (IInv)'
    <2> SUFFICES ASSUME IInv, [Next]_vars PROVE (IInv)'
      OBVIOUS
    <2>1. CASE Live
      BY <2>1, DepositInv, RequestInv, ClaimInv, FundInv DEF Live
    <2>2. CASE Recovery
      BY <2>2, FundInv DEF Recovery
    <2>3. CASE Trade
      BY <2>3, TradeInv
    <2>4. CASE UNCHANGED vars
      BY <2>4, Parts, FundedKept DEF vars
    <2> QED BY <2>1, <2>2, <2>3, <2>4 DEF Next
  <1> QED BY <1>1, <1>2, PTL DEF Spec

\* Shares, amounts and the funded batch keep their types.
THEOREM TypeCorrect == Spec => []TypeOK
  <1>1. IInv => TypeOK
    BY DEF IInv
  <1> QED BY <1>1, Invariance, PTL

(***************************************************************************)
(* The claims on a batch                                                   *)
(***************************************************************************)
\* What was set aside for a batch covers every sequence of claims on it (`claimPayout` rounds
\* its fee up, `batchPayout` rounds it down).
THEOREM Covered == Spec => []ClaimsCovered
  <1>1. IInv => ClaimsCovered
    <2> SUFFICES ASSUME IInv PROVE paid <= reserve
      BY DEF ClaimsCovered
    <2> USE ScaleAssumption
    <2> DEFINE r == batch.ratio
               k == BpsOne - batch.bps
               g == ApplyRatioFloor(claimed, r)
               p == BatchPayout(batch.shares, r, batch.bps)
               G == ApplyRatioFloor(batch.shares, r)
    <2>1. Funded
      BY Parts
    <2>2. /\ batch.shares \in Nat /\ r \in Ratio /\ batch.bps \in 0 .. BpsOne
          /\ paid \in Nat /\ claimed \in 0 .. batch.shares /\ claimed \in Nat /\ k \in Nat
      BY <2>1 DEF Funded
    <2>3. BpsOne * paid <= k * g /\ reserve = p.net
      BY <2>1 DEF Funded
    <2>4. g <= G /\ g \in Nat /\ G \in Nat
      <3>1. g \in Nat /\ G \in Nat
        BY <2>2, Gross
      <3>2. claimed <= batch.shares
        BY <2>2
      <3> QED BY <2>2, <3>1, <3>2, MoreShares
    <2>5. p.gross = G /\ p.net \in Nat /\ k * p.gross <= BpsOne * p.net
      BY <2>2, BatchFacts
    <2> HIDE DEF k, g, G, p
    <2>6. k * g <= k * G
      BY <2>2, <2>4, Times
    <2>7. k * g \in Nat /\ k * G \in Nat /\ BpsOne * paid \in Nat /\ BpsOne * p.net \in Nat
      BY <2>2, <2>4, <2>5
    <2>8. BpsOne * paid <= BpsOne * p.net
      BY <2>3, <2>5, <2>6, <2>7
    <2> QED BY <2>2, <2>3, <2>5, <2>8, Cancel
  <1> QED BY <1>1, Invariance, PTL

\* The limits that `batchPayout` checks make every later `claimPayout` return.
THEOREM EveryClaim == Spec => []EveryClaimPays
  <1>1. IInv => EveryClaimPays
    <2> SUFFICES ASSUME IInv, NEW s \in 1 .. batch.shares - claimed
                 PROVE  ClaimPayoutOk(s, batch.ratio, batch.bps)
      BY DEF EveryClaimPays
    <2> USE ScaleAssumption
    <2> DEFINE r == batch.ratio
               S == batch.shares
    <2>1. Funded
      BY Parts
    <2>2. S \in Nat /\ r \in Ratio /\ batch.bps \in 0 .. BpsOne /\ claimed \in 0 .. S
      BY <2>1 DEF Funded
    <2>3. s \in Nat /\ s <= S
      BY <2>2
    <2>4. /\ r.num \in 0 .. U128Max /\ r.den \in 1 .. U128Max
          /\ S * r.num <= U128Max /\ ApplyRatioFloor(S, r) <= U64Max /\ S <= U64Max
      BY <2>1, <2>2 DEF Funded, BatchPayoutOk, ApplyRatioFloor, IsU64
    <2>5. /\ ApplyRatioFloor(s, r) \in Nat /\ ApplyRatioFloor(S, r) \in Nat
          /\ s * r.num \in Nat /\ S * r.num \in Nat
      BY <2>2, <2>3, Gross
    <2>6. ApplyRatioFloor(s, r) <= ApplyRatioFloor(S, r) /\ s * r.num <= S * r.num
      BY <2>2, <2>3, MoreShares
    <2>7. s * r.num <= U128Max /\ IsU64(ApplyRatioFloor(s, r)) /\ IsU64(s)
      <3> DEFINE g == ApplyRatioFloor(s, r)
                 G == ApplyRatioFloor(S, r)
                 x == s * r.num
                 y == S * r.num
      <3>1. g \in Nat /\ G \in Nat /\ x \in Nat /\ y \in Nat /\ g <= G /\ x <= y /\ G <= U64Max
            /\ y <= U128Max
        BY <2>4, <2>5, <2>6
      <3> HIDE DEF g, G, x, y
      <3>2. x <= U128Max /\ g \in 0 .. U64Max /\ s \in 0 .. U64Max
        BY <2>2, <2>3, <2>4, <3>1
      <3> QED BY <3>2 DEF IsU64, g, x
    <2> QED BY <2>2, <2>4, <2>7 DEF ClaimPayoutOk, ApplyRatioOk, IsFeeRate
  <1> QED BY <1>1, Invariance, PTL

\* When a batch is claimed to the last share, each claim left at most two units behind.
THEOREM Dust == Spec => []DustIsBounded
  <1>1. IInv => DustIsBounded
    <2> SUFFICES ASSUME IInv, claimed = batch.shares PROVE reserve - paid <= 2 * claims
      BY DEF DustIsBounded
    <2> USE ScaleAssumption
    <2> DEFINE r == batch.ratio
               d == r.den
               k == BpsOne - batch.bps
               p == BatchPayout(batch.shares, r, batch.bps)
               G == ApplyRatioFloor(batch.shares, r)
               net == p.net
               x == batch.shares * r.num
               t == paid + 2 * claims
    <2>1. Funded
      BY Parts
    <2>2. /\ batch.shares \in Nat /\ r \in Ratio /\ batch.bps \in 0 .. BpsOne
          /\ paid \in Nat /\ claims \in Nat /\ k \in Nat /\ d \in Nat \ {0} /\ t \in Nat
      BY <2>1 DEF Funded, Ratio
    <2>3. reserve = net /\ k * x <= (BpsOne * d) * t
      BY <2>1 DEF Funded
    <2>4. G \in Nat /\ x \in Nat /\ d * G <= x
      BY <2>2, Gross
    <2>5. net \in Nat /\ BpsOne * net < k * G + BpsOne
      BY <2>2, BatchFacts
    <2> HIDE DEF k, d, p, G, net, x, t
    <2>6. k * (d * G) <= k * x
      BY <2>2, <2>4, Times
    <2>7. d * (BpsOne * net + 1) <= d * (k * G + BpsOne)
      <3>1. BpsOne * net + 1 \in Int /\ k * G + BpsOne \in Int /\ BpsOne * net + 1 <= k * G + BpsOne
        BY <2>2, <2>4, <2>5
      <3> QED BY <2>2, <3>1, Times
    <2>8. /\ d * (BpsOne * net + 1) = (BpsOne * d) * net + d
          /\ d * (k * G + BpsOne) = k * (d * G) + BpsOne * d
      BY <2>2, <2>4, <2>5
    <2>9. (BpsOne * d) * net < (BpsOne * d) * (t + 1)
      <3> DEFINE a == (BpsOne * d) * net
                 b == k * (d * G)
                 c == k * x
                 e == (BpsOne * d) * t
                 u == BpsOne * d
      <3>1. a \in Nat /\ b \in Nat /\ c \in Nat /\ e \in Nat /\ u \in Nat
        BY <2>2, <2>4, <2>5
      <3>2. a + d <= b + u /\ b <= c /\ c <= e
        BY <2>3, <2>6, <2>7, <2>8
      <3>3. (BpsOne * d) * (t + 1) = e + u
        BY <2>2
      <3> HIDE DEF a, b, c, e, u
      <3>4. a < e + u
        BY <2>2, <3>1, <3>2
      <3> QED BY <3>3, <3>4 DEF a
    <2>10. net < t + 1
      <3>1. BpsOne * d \in Nat /\ net \in Nat /\ t + 1 \in Nat
        BY <2>2, <2>5
      <3>2. t + 1 <= net => (BpsOne * d) * (t + 1) <= (BpsOne * d) * net
        BY <3>1, Times
      <3>3. (BpsOne * d) * net \in Nat /\ (BpsOne * d) * (t + 1) \in Nat
        BY <3>1
      <3> QED BY <2>9, <3>1, <3>2, <3>3
    <2> QED BY <2>2, <2>3, <2>5, <2>10 DEF t
  <1> QED BY <1>1, Invariance, PTL

(***************************************************************************)
(* The shares that stay                                                    *)
(***************************************************************************)
\* The price does not fall when the exact price does not.
LEMMA PriceMono ==
  ASSUME NEW n1 \in Int, NEW n2 \in Int, NEW s1 \in Nat, NEW s2 \in Nat,
         n1 + VirtualAssets > 0 =>
           (n1 + VirtualAssets) * (s2 + VirtualShares) <= (n2 + VirtualAssets) * (s1 + VirtualShares)
  PROVE  PriceE12(n2, s2) >= PriceE12(n1, s1)
  <1> USE ScaleAssumption
  <1> DEFINE a1 == n1 + VirtualAssets
             a2 == n2 + VirtualAssets
             b1 == s1 + VirtualShares
             b2 == s2 + VirtualShares
             q1 == (a1 * PriceScale) \div b1
             q2 == (a2 * PriceScale) \div b2
  <1>1. a1 \in Int /\ a2 \in Int /\ b1 \in Nat \ {0} /\ b2 \in Nat \ {0} /\ PriceScale \in Nat \ {0}
    OBVIOUS
  <1>2. /\ PriceE12(n1, s1) = IF a1 <= 0 THEN 0 ELSE q1
        /\ PriceE12(n2, s2) = IF a2 <= 0 THEN 0 ELSE q2
    BY DEF PriceE12
  <1>3. a1 > 0 => a1 * b2 <= a2 * b1
    OBVIOUS
  <1> HIDE DEF a1, a2, b1, b2
  <1>4. a2 > 0 => q2 \in Nat
    <2>1. a2 > 0 => a2 * PriceScale \in Nat
      BY <1>1
    <2> QED BY <1>1, <2>1, Quotient
  <1>5. CASE a1 <= 0
    <2> HIDE DEF q1, q2
    <2>1. PriceE12(n1, s1) = 0 /\ PriceE12(n2, s2) \in Nat
      BY <1>1, <1>2, <1>4, <1>5
    <2> QED BY <2>1
  <1>6. CASE a1 > 0
    <2>1. a1 * b2 > 0
      BY <1>1, <1>6
    <2>2. a2 > 0
      <3>1. a2 * b1 > 0
        BY <1>1, <1>3, <1>6, <2>1
      <3> QED BY <1>1, <3>1
    <2>3. a1 * PriceScale \in Nat /\ a2 * PriceScale \in Nat
      BY <1>1, <1>6, <2>2
    <2>4. q1 \in Nat /\ b1 * q1 <= a1 * PriceScale
      BY <1>1, <2>3, Quotient
    <2>5. b2 * q1 <= a2 * PriceScale
      <3> HIDE DEF q1
      <3>1. b2 * (b1 * q1) <= b2 * (a1 * PriceScale)
        BY <1>1, <2>3, <2>4, Times
      <3>2. (a1 * b2) * PriceScale <= (a2 * b1) * PriceScale
        BY <1>1, <1>3, <1>6, <2>3, Times
      <3>3. /\ b2 * (b1 * q1) = b1 * (b2 * q1)
            /\ b2 * (a1 * PriceScale) = (a1 * b2) * PriceScale
            /\ (a2 * b1) * PriceScale = b1 * (a2 * PriceScale)
        BY <1>1, <2>4
      <3>4. b2 * q1 \in Int /\ b1 * (b2 * q1) \in Int /\ b1 * (a2 * PriceScale) \in Int
            /\ (a1 * b2) * PriceScale \in Int
        BY <1>1, <2>3, <2>4
      <3>5. b1 * (b2 * q1) <= b1 * (a2 * PriceScale)
        BY <3>1, <3>2, <3>3, <3>4
      <3> QED BY <1>1, <2>3, <3>4, <3>5, Cancel
    <2>6. q1 <= q2
      <3>1. q1 \in Int
        BY <2>4
      <3> HIDE DEF q1
      <3> QED BY <1>1, <2>3, <2>5, <3>1, QuotientIsGreatest
    <2>7. PriceE12(n1, s1) = q1 /\ PriceE12(n2, s2) = q2 /\ q2 \in Nat
      BY <1>1, <1>2, <1>4, <1>6, <2>2
    <2> HIDE DEF q1, q2
    <2> QED BY <2>4, <2>6, <2>7
  <1> QED BY <1>1, <1>5, <1>6

\* What a deposit mints is worth no more than what stays of it.
LEMMA DepositPrice ==
  ASSUME IInv, NEW amount \in Amounts, NEW bps \in FeeRates, NEW high \in 0 .. Spread,
         Deposit(amount, bps, high)
  PROVE  PriceE12(nav', supply') >= PriceE12(nav, supply)
  <1> USE ScaleAssumption
  <1> DEFINE w == nav + high
             fee == FeeUp(amount, bps)
             net == amount - fee
             r == DepositRatio(supply, w)
             sh == ApplyRatioFloor(net, r)
             a == nav + VirtualAssets
             b == supply + VirtualShares
             c == w + VirtualAssets
  <1>1. nav \in Int /\ supply \in Nat /\ locked \in 0 .. supply /\ high \in Nat
    BY Parts, VaultAssumption
  <1>2. PricingSupply(supply - locked, 0, locked) = supply
    BY <1>1 DEF PricingSupply
  <1>3. /\ QuoteDepositOk(amount, supply, w, bps)
        /\ supply' = supply + sh
        /\ \E kept \in Kept(fee) : nav' = nav + net + kept
    BY <1>2 DEF Deposit, QuoteDeposit
  <1>4. amount \in Nat /\ bps \in 0 .. BpsOne
    BY VaultAssumption
  <1>5. fee \in 0 .. amount
    BY <1>4, FeeUpFacts
  <1>6. net \in Nat /\ fee \in Nat
    BY <1>4, <1>5
  <1>7. r.num = b /\ r.den = c /\ r \in Ratio /\ c \in Nat /\ b \in Nat
    BY <1>1, <1>3 DEF QuoteDepositOk, DepositRatioOk, DepositRatio, Ratio
  <1>8. sh \in Nat /\ c * sh <= net * b
    BY <1>6, <1>7, Gross
  <1>9. nav' \in Int /\ nav' >= nav + net /\ supply' \in Nat
    <2> HIDE DEF net, fee, sh
    <2> QED BY <1>1, <1>3, <1>6, <1>8 DEF Kept
  <1>10. a * (b + sh) <= (nav' + VirtualAssets) * b
    <2> DEFINE a2 == nav' + VirtualAssets
    <2>1. a \in Int /\ a2 \in Int /\ a + net <= a2 /\ a <= c
      BY <1>1, <1>6, <1>9
    <2> HIDE DEF a, a2, b, c, net, sh
    <2>2. a * sh <= c * sh
      BY <1>7, <1>8, <2>1, Times
    <2>3. (a + net) * b <= a2 * b
      BY <1>6, <1>7, <2>1, Times
    <2>4. (a + net) * b = a * b + net * b /\ a * (b + sh) = a * b + a * sh
      BY <1>6, <1>7, <1>8, <2>1
    <2>5. /\ a * b \in Int /\ net * b \in Int /\ a * sh \in Int /\ c * sh \in Int /\ a2 * b \in Int
      BY <1>6, <1>7, <1>8, <2>1
    <2>6. a * (b + sh) <= a2 * b
      BY <1>8, <2>2, <2>3, <2>4, <2>5
    <2> QED BY <2>6 DEF a2
  <1>11. b + sh = supply' + VirtualShares
    <2> HIDE DEF sh
    <2> QED BY <1>1, <1>3, <1>8
  <1> HIDE DEF sh
  <1>12. a * (supply' + VirtualShares) <= (nav' + VirtualAssets) * b
    BY <1>10, <1>11
  <1> QED BY <1>1, <1>9, <1>12, PriceMono

\* What a batch takes is worth no more than the shares that leave.
LEMMA FundPrice ==
  ASSUME IInv, NEW bps \in FeeRates, NEW low \in 0 .. Spread, Fund(bps, low)
  PROVE  PriceE12(nav', supply') >= PriceE12(nav, supply)
  <1> USE ScaleAssumption
  <1> DEFINE r == WithdrawRatio(supply, nav - low)
             p == BatchPayout(locked, r, bps)
             gross == p.gross
             a == nav + VirtualAssets
             b == supply + VirtualShares
  <1>1. /\ nav \in Int /\ supply \in Nat /\ locked \in 0 .. supply /\ low \in Nat /\ locked \in Nat
        /\ b \in Nat
    BY Parts, VaultAssumption
  <1>2. FundAt(r, bps)
    BY DEF Fund
  <1>3. r \in Ratio /\ bps \in 0 .. BpsOne
    BY <1>2, RatioTyped DEF FundAt, WithdrawRatio
  <1>4. /\ gross = ApplyRatioFloor(locked, r) /\ gross \in Nat /\ p.fee \in Nat
    BY <1>1, <1>3, BatchFacts
  <1>5. /\ \E kept \in Kept(p.fee) : nav' = nav - gross + kept
        /\ supply' = supply - locked
    BY <1>2 DEF FundAt
  <1>6. nav' \in Int /\ nav' >= nav - gross /\ supply' \in Nat
    <2> HIDE DEF gross, p
    <2> QED BY <1>1, <1>4, <1>5 DEF Kept
  <1>7. b * gross <= locked * r.num
    <2>1. r.den = b
      BY DEF WithdrawRatio
    <2> QED BY <1>1, <1>3, <1>4, <2>1, Gross
  <1>8. a > 0 => r.num <= a /\ r.num \in Nat
    BY <1>1, <1>3 DEF WithdrawRatio, Ratio
  <1>9. a > 0 => a * (supply' + VirtualShares) <= (nav' + VirtualAssets) * b
    <2> SUFFICES ASSUME a > 0 PROVE a * (supply' + VirtualShares) <= (nav' + VirtualAssets) * b
      OBVIOUS
    <2> DEFINE a2 == nav' + VirtualAssets
               n == r.num
    <2>1. /\ a \in Nat /\ a2 \in Int /\ a - gross <= a2 /\ n \in Nat /\ n <= a
          /\ supply' + VirtualShares = b - locked
      BY <1>1, <1>4, <1>5, <1>6, <1>8
    <2>2. b * gross <= locked * n
      BY <1>7
    <2> HIDE DEF a, a2, b, gross, n, r
    <2>3. locked * n <= locked * a
      BY <1>1, <2>1, Times
    <2>4. (a - gross) * b <= a2 * b
      BY <1>1, <1>4, <2>1, Times
    <2>5. (a - gross) * b = a * b - b * gross /\ a * (b - locked) = a * b - locked * a
      BY <1>1, <1>4, <2>1
    <2>6. /\ a * b \in Int /\ b * gross \in Int /\ locked * n \in Int /\ locked * a \in Int
          /\ a2 * b \in Int
      BY <1>1, <1>4, <2>1
    <2>7. a * (b - locked) <= a2 * b
      BY <2>2, <2>3, <2>4, <2>5, <2>6
    <2> QED BY <2>1, <2>7 DEF a2
  <1> HIDE DEF p, r
  <1> QED BY <1>1, <1>6, <1>9, PriceMono

\* Rounding takes nothing from the shares that stay: no deposit, request, funding or claim
\* lowers the price `priceE12` gives.
THEOREM PriceHolds == Spec => PriceNeverFalls
  <1>1. IInv /\ [Next]_vars => [PriceE12(nav', supply') >= PriceE12(nav, supply) \/ ~Live]_vars
    <2> SUFFICES ASSUME IInv, Live PROVE PriceE12(nav', supply') >= PriceE12(nav, supply)
      OBVIOUS
    <2>1. nav \in Int /\ supply \in Nat
      BY Parts, VaultAssumption
    <2>2. CASE UNCHANGED <<nav, supply>>
      <3>1. (nav + VirtualAssets) * (supply + VirtualShares) \in Int
        BY <2>1, ScaleAssumption
      <3>2. PriceE12(nav, supply) >= PriceE12(nav, supply)
        BY <2>1, <3>1, PriceMono
      <3> QED BY <2>2, <3>2
    <2> QED BY <2>2, DepositPrice, FundPrice DEF Live, Request, Claim
  <1> QED BY <1>1, Invariance, PTL DEF Spec, PriceNeverFalls

\* A funding in recovery leaves the others at least their part of the real assets
\* (`recoveryWithdrawRatio` has no virtual offsets).
THEOREM Fairness == Spec => RecoveryIsFair
  <1>1. IInv /\ [Next]_vars => [nav' * supply >= nav * supply' \/ ~Recovery]_vars
    <2> SUFFICES ASSUME IInv, NEW bps \in FeeRates, NEW low \in 0 .. Spread, Recover(bps, low)
                 PROVE  nav' * supply >= nav * supply'
      BY DEF Recovery
    <2> DEFINE r == RecoveryRatio(supply, nav - low)
               p == BatchPayout(locked, r, bps)
               gross == p.gross
    <2>1. /\ nav \in Int /\ supply \in Nat /\ locked \in 0 .. supply /\ low \in Nat
          /\ locked \in Nat
      BY Parts, VaultAssumption
    <2>2. FundAt(r, bps)
      BY DEF Recover
    <2>3. r \in Ratio /\ bps \in 0 .. BpsOne
      BY <2>2, RatioTyped DEF FundAt, RecoveryRatio
    <2>4. gross = ApplyRatioFloor(locked, r) /\ gross \in Nat /\ p.fee \in Nat
      BY <2>1, <2>3, BatchFacts
    <2>5. supply' = supply - locked /\ \E kept \in Kept(p.fee) : nav' = nav - gross + kept
      BY <2>2 DEF FundAt
    <2>6. nav' \in Int /\ nav' >= nav - gross
      <3> HIDE DEF gross, p
      <3> QED BY <2>1, <2>4, <2>5 DEF Kept
    <2>7. supply * gross <= locked * (nav - low)
      <3>1. r.den = supply /\ r.num = nav - low
        BY DEF RecoveryRatio
      <3> QED BY <2>1, <2>3, <2>4, <3>1, Gross
    <2> HIDE DEF gross, p, r
    <2>8. locked * (nav - low) <= locked * nav
      BY <2>1, Times
    <2>9. (nav - gross) * supply <= nav' * supply
      BY <2>1, <2>4, <2>6, Times
    <2>10. /\ (nav - gross) * supply = nav * supply - supply * gross
           /\ nav * supply' = nav * supply - locked * nav
      BY <2>1, <2>4, <2>5
    <2>11. /\ nav * supply \in Int /\ supply * gross \in Int /\ locked * nav \in Int
           /\ locked * (nav - low) \in Int /\ nav' * supply \in Int
      BY <2>1, <2>4, <2>6
    <2> QED BY <2>7, <2>8, <2>9, <2>10, <2>11
  <1> QED BY <1>1, Invariance, PTL DEF Spec, RecoveryIsFair

\* A depositor who leaves at once is paid no more than was deposited.
THEOREM NoFreeRide == Spec => []RoundTrip
  <1>1. IInv => RoundTrip
    <2> SUFFICES ASSUME IInv, NEW amount \in Amounts, NEW bps \in FeeRates, NEW out \in FeeRates,
                        NEW high \in 0 .. Spread,
                        QuoteDepositOk(amount, supply, nav + high, bps),
                        NEW s, s = QuoteDeposit(amount, supply, nav + high, bps).shares,
                        NEW w, w = WithdrawRatio(supply + s, nav + high + amount),
                        ClaimPayoutOk(s, w, out)
                 PROVE  ClaimPayout(s, w, out).net <= amount
      BY DEF RoundTrip
    <2> USE ScaleAssumption
    <2> DEFINE v == nav + high
               fee == FeeUp(amount, bps)
               net == amount - fee
               r == DepositRatio(supply, v)
               b == supply + VirtualShares
               c == v + VirtualAssets
               g == ApplyRatioFloor(s, w)
    <2>1. nav \in Int /\ supply \in Nat /\ high \in Nat /\ v \in Int
      BY Parts, VaultAssumption
    <2>2. amount \in Nat /\ bps \in 0 .. BpsOne /\ out \in 0 .. BpsOne
      BY VaultAssumption
    <2>3. fee \in 0 .. amount
      BY <2>2, FeeUpFacts
    <2>4. net \in Nat /\ net <= amount
      BY <2>2, <2>3
    <2>5. r.num = b /\ r.den = c /\ r \in Ratio /\ c \in Nat /\ b \in Nat
      BY <2>1 DEF QuoteDepositOk, DepositRatioOk, DepositRatio, Ratio
    <2>6. s = ApplyRatioFloor(net, r)
      BY DEF QuoteDeposit
    <2>7. s \in Nat /\ c * s <= net * b
      BY <2>4, <2>5, <2>6, Gross
    <2>8. w.num = (IF v + amount <= 0 THEN 0 ELSE c + amount) /\ w.den = b + s
      BY <2>1, <2>2, <2>7 DEF WithdrawRatio
    <2>9. w \in Ratio /\ b + s \in Nat \ {0}
      BY <2>1, <2>2, <2>7 DEF WithdrawRatio, Ratio
    <2>10. g \in Nat /\ (b + s) * g <= s * w.num
      BY <2>7, <2>8, <2>9, Gross
    <2>11. s * w.num <= (b + s) * amount
      <3>1. s * (c + amount) <= (b + s) * amount
        <4> HIDE DEF b, c, net
        <4>1. net * b <= amount * b
          BY <2>2, <2>4, <2>5, Times
        <4>2. s * (c + amount) = c * s + s * amount /\ (b + s) * amount = amount * b + s * amount
          BY <2>2, <2>5, <2>7
        <4>3. /\ c * s \in Nat /\ s * amount \in Nat /\ amount * b \in Nat /\ net * b \in Nat
          BY <2>2, <2>4, <2>5, <2>7
        <4> QED BY <2>7, <4>1, <4>2, <4>3
      <3>2. s * 0 = 0 /\ (b + s) * amount \in Nat
        BY <2>2, <2>5, <2>7
      <3> HIDE DEF b, c, v
      <3>3. CASE v + amount <= 0
        BY <2>8, <3>2, <3>3
      <3>4. CASE ~(v + amount <= 0)
        BY <2>8, <3>1, <3>4
      <3> QED BY <3>3, <3>4
    <2>12. g <= amount
      <3> HIDE DEF g, b
      <3>1. w.num \in Nat
        BY <2>9 DEF Ratio
      <3>2. (b + s) * g \in Int /\ s * w.num \in Int /\ (b + s) * amount \in Int
        BY <2>2, <2>7, <2>9, <2>10, <3>1
      <3>3. (b + s) * g <= (b + s) * amount
        BY <2>10, <2>11, <3>2
      <3> QED BY <2>2, <2>9, <2>10, <3>3, Cancel
    <2>13. ClaimPayout(s, w, out).net \in Nat /\ ClaimPayout(s, w, out).net <= g
      BY <2>2, <2>7, <2>9, ClaimFacts
    <2> HIDE DEF g
    <2> QED BY <2>2, <2>10, <2>12, <2>13
  <1> QED BY <1>1, Invariance, PTL
=============================================================================
