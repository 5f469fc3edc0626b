--------------------------- MODULE Periphery_proofs ---------------------------
(***************************************************************************)
(* Proofs about what stands around the pool: the vault, which is one more  *)
(* user of it, and the lens with the pages built on what it reports.       *)
(*                                                                         *)
(* CallsNeverPay: no call to the vault pays its caller out of the other    *)
(* holders.  The vault's calls are pool transactions of amounts the pool's *)
(* own specification does not enumerate, so the pool's invariant is proved *)
(* again for the composition, from the same lemmas.  It is strengthened by *)
(* the conservation of tokens: an amount the vault asks the pool for is    *)
(* within the pool's cash, hence within the token's total supply, so it is *)
(* never taken for type(uint256).max, which would withdraw everything.     *)
(*                                                                         *)
(* LimitsHonoured: the roundings of the conversions stay within the limits *)
(* and the supply grows by no more than the deposit.  The vault has no     *)
(* debt (VaultDebtFree), so none of its withdrawals is checked against a   *)
(* borrowing capacity.                                                     *)
(*                                                                         *)
(* CandidatesTakeable: the preview values the account with reserves        *)
(* accrued in memory as the pool values it with its own, balances are in   *)
(* active reserves and worth at least one unit (ExitInv), and offering     *)
(* what a quote said would be repaid is quoted the same (QuoteStable).     *)
(*                                                                         *)
(* BorrowCharted, DebtsListed: the point of the chart at the present       *)
(* utilization carries the rate the pool stores, because the stored rates  *)
(* are those of the present balances (RatesCurrent), and an account page   *)
(* lists exactly what the account owes (BitmapInSync).                     *)
(*                                                                         *)
(* SubmittableAccepted: an amount within what the panel offers is within   *)
(* the wallet, the cash and the cap. The haircut of a maximum covers what  *)
(* the rounding of a scaled balance and of a value add to the call         *)
(* (CapacityLeft, WithinSpare), except where Tight names it. Tokens are    *)
(* conserved, so that no typed amount is within a wallet and read by the   *)
(* pool as type(uint256).max.                                              *)
(***************************************************************************)
EXTENDS LendingVault, ActionPanel, PoolSafety_proofs

\* All tokens of asset a, in the wallets and in the pool.
Circulating(a) == SumOver([u \in User |-> wallet[u][a]], User) + tokens[a]

\* The pool makes no token and loses none.
TokensConserved ==
    \A a \in Asset : Circulating(a) = SumOver([u \in User |-> InitialWallet[u][a]], User)

VaultInv == PoolInv /\ TokensConserved /\ shares \in [Holder -> Nat]

-----------------------------------------------------------------------------
(***************************************************************************)
(* Tokens only move between a wallet and the pool.                         *)
(***************************************************************************)

\* Tokens moved between user u's wallet and the pool.
Exchange(u) ==
    /\ \A v \in User \ {u} : wallet'[v] = wallet[v]
    /\ \A a \in Asset : wallet'[u][a] + tokens'[a] = wallet[u][a] + tokens[a]

\* An exchange leaves what circulates as it was.
LEMMA ExchangeConserves ==
    ASSUME TypeOK, TypeOK', TokensConserved, NEW u \in User, Exchange(u)
    PROVE  TokensConserved'
<1> SUFFICES ASSUME NEW a \in Asset
             PROVE  SumOver([v \in User |-> wallet'[v][a]], User) + tokens'[a]
                      = SumOver([v \in User |-> InitialWallet[v][a]], User)
  BY DEF TokensConserved, Circulating
<1> DEFINE f == [v \in User |-> wallet[v][a]]
           before == SumOver([v \in User |-> wallet[v][a]], User)
           after == SumOver([v \in User |-> wallet'[v][a]], User)
           initial == SumOver([v \in User |-> InitialWallet[v][a]], User)
<1>1. wallet \in [User -> [Asset -> Nat]] /\ wallet' \in [User -> [Asset -> Nat]]
  BY DEF TypeOK
<1>2. after = before - wallet[u][a] + wallet'[u][a]
  BY <1>1, RowChange DEF Exchange
<1>3. before \in Nat
  <2>1. \A v \in User : f[v] \in Nat
    BY <1>1
  <2> HIDE DEF f
  <2>2. IsFiniteSet(User)
    BY PoolAssumption
  <2>3. SumOver(f, User) \in Nat
    BY <2>1, <2>2, SumType
  <2> QED BY <2>3 DEF f
<1>4. /\ wallet[u][a] \in Nat /\ wallet'[u][a] \in Nat
      /\ tokens[a] \in Nat /\ tokens'[a] \in Nat
  BY DEF TypeOK
<1>5. wallet'[u][a] + tokens'[a] = wallet[u][a] + tokens[a]
  BY DEF Exchange
<1>6. before + tokens[a] = initial
  BY DEF TokensConserved, Circulating
<1> HIDE DEF before, after, initial
<1>7. after + tokens'[a] = initial
  BY <1>2, <1>3, <1>4, <1>5, <1>6
<1> QED BY <1>7 DEF after, initial

\* safeTransferFrom and safeTransfer are exchanges.
LEMMA TransfersExchange ==
    ASSUME TypeOK, NEW a \in Asset, NEW u \in User, NEW amount \in Int,
           PullTokens(a, u, amount) \/ PayTokens(a, u, amount)
    PROVE  Exchange(u)
<1>1. /\ wallet \in [User -> [Asset -> Nat]] /\ tokens \in [Asset -> Nat]
  BY DEF TypeOK
<1>2. \A x \in Asset : wallet[u][x] \in Nat /\ tokens[x] \in Nat
  BY <1>1
<1>3. CASE PullTokens(a, u, amount)
  BY <1>1, <1>2, <1>3 DEF PullTokens, Exchange
<1>4. CASE PayTokens(a, u, amount)
  BY <1>1, <1>2, <1>4 DEF PayTokens, Exchange
<1> QED BY <1>3, <1>4

\* The amounts of the calls on one reserve are numbers, so each is an exchange.
LEMMA CallExchanges ==
    ASSUME PoolInv, NEW sender \in User, NEW payer \in User, NEW other \in User,
           NEW a \in Asset, NEW amount \in Nat,
           \/ SupplyPaidBy(payer, sender, a, amount, other)
           \/ Withdraw(sender, a, amount, other)
           \/ Borrow(sender, a, amount)
           \/ Repay(sender, a, amount, other)
           \/ CoverDeficit(sender, a, amount)
           \/ WithdrawReserves(a, amount, other)
    PROVE  \E u \in User : Exchange(u)
<1> DEFINE r == Accrue(reserves[a], now)
<1>1. /\ TypeOK
      /\ supply[sender][a] \in Nat /\ debt[other][a] \in Nat
  BY DEF PoolInv, TypeOK
<1>2. ASSUME IsListed(reserves[a])
      PROVE  /\ RayMulDown(supply[sender][a], r.liquidityIndex) \in Nat
             /\ RayMulUp(debt[other][a], r.borrowIndex) \in Nat
             /\ RayMulDown(r.accruedToTreasury, r.liquidityIndex) \in Nat
             /\ r.deficit \in Nat
  <2>1. /\ r \in ReserveData
        /\ r.liquidityIndex \in Nat \ {0} /\ r.borrowIndex \in Nat \ {0}
    BY <1>2, Accrued
  <2>2. r.accruedToTreasury \in Nat /\ r.deficit \in Nat
    BY <2>1 DEF ReserveData
  <2> HIDE DEF r
  <2> QED BY <2>1, <2>2, <1>1, RayType
<1>3. CASE SupplyPaidBy(payer, sender, a, amount, other)
  <2>1. PullTokens(a, payer, amount)
    BY <1>3, Zenon DEF SupplyPaidBy
  <2> QED BY <2>1, <1>1, TransfersExchange
<1>4. CASE Withdraw(sender, a, amount, other)
  <2> DEFINE balance == RayMulDown(supply[sender][a], r.liquidityIndex)
             paid == IF amount = MaxUint \/ amount = balance THEN balance ELSE amount
  <2>1. IsListed(reserves[a])
    BY <1>4, ActiveIsListed DEF Withdraw, AcceptsWithdraw, Operational
  <2>2. PayTokens(a, other, paid)
    BY <1>4, Zenon DEF Withdraw
  <2>3. paid \in Int
    BY <1>2, <2>1
  <2> HIDE DEF paid
  <2> QED BY <2>2, <2>3, <1>1, TransfersExchange
<1>5. CASE Borrow(sender, a, amount)
  <2>1. PayTokens(a, sender, amount)
    BY <1>5, Zenon DEF Borrow
  <2> QED BY <2>1, <1>1, TransfersExchange
<1>6. CASE Repay(sender, a, amount, other)
  <2> DEFINE owed == RayMulUp(debt[other][a], r.borrowIndex)
             payback == IF amount >= owed THEN owed ELSE amount
  <2>1. IsListed(reserves[a])
    BY <1>6, ActiveIsListed DEF Repay, AcceptsRepay, ValidateRepay
  <2>2. PullTokens(a, sender, payback)
    BY <1>6, Zenon DEF Repay
  <2>3. payback \in Int
    BY <1>2, <2>1
  <2> HIDE DEF payback
  <2> QED BY <2>2, <2>3, <1>1, TransfersExchange
<1>7. CASE CoverDeficit(sender, a, amount)
  <2> DEFINE covered == IF amount > r.deficit THEN r.deficit ELSE amount
  <2>1. PullTokens(a, sender, covered)
    BY <1>7, Zenon DEF CoverDeficit
  <2>2. covered \in Int
    <3>1. CASE IsListed(reserves[a])
      BY <1>2, <3>1
    <3>2. CASE ~IsListed(reserves[a])
      <4>1. /\ reserves[a].lastUpdateTimestamp = 0 /\ reserves[a].deficit = 0
            /\ reserves[a].totalScaledDebt = 0
            /\ reserves[a] \in ReserveData
        BY <3>2, <1>1 DEF PoolInv, ReservesSane, SaneReserve, IsListed, TypeOK
      <4>2. r.deficit = 0
        BY <4>1 DEF Accrue, ReserveData
      <4> QED BY <4>2
    <3> QED BY <3>1, <3>2
  <2> HIDE DEF covered
  <2> QED BY <2>1, <2>2, <1>1, TransfersExchange
<1>8. CASE WithdrawReserves(a, amount, other)
  <2> DEFINE available == RayMulDown(r.accruedToTreasury, r.liquidityIndex)
             paid == IF amount >= available THEN available ELSE amount
  <2>1. IsListed(reserves[a]) /\ PayTokens(a, other, paid)
    BY <1>8, Zenon DEF WithdrawReserves
  <2>2. paid \in Int
    BY <1>2, <2>1
  <2> HIDE DEF paid
  <2> QED BY <2>1, <2>2, <1>1, TransfersExchange
<1> QED BY <1>3, <1>4, <1>5, <1>6, <1>7, <1>8

\* A liquidation is an exchange of the liquidator, in one asset or in two.
LEMMA LiquidateExchanges ==
    ASSUME PoolInv, NEW sender \in User, NEW c \in Asset, NEW d \in Asset, NEW b \in User,
           NEW cover \in Nat, NEW receiveSupply \in BOOLEAN,
           Liquidate(sender, c, d, b, cover, receiveSupply)
    PROVE  Exchange(sender)
<1> DEFINE i == LiquidationInput(AccruedPair(c, d), c, d, b, cover)
           repaid == CalculateAmounts(i).debtRepaid
           seized == CalculateAmounts(i).collateralSeized
           paidOut == IF receiveSupply THEN 0 ELSE seized
           db == IF repaid = RayMulUp(debt[b][d], AccruedPair(c, d)[d].borrowIndex)
                 THEN debt[b][d]
                 ELSE RayDivDown(repaid, AccruedPair(c, d)[d].borrowIndex)
           cb == IF seized = RayMulDown(supply[b][c], AccruedPair(c, d)[c].liquidityIndex)
                 THEN supply[b][c]
                 ELSE RayDivUp(seized, AccruedPair(c, d)[c].liquidityIndex)
<1>1. /\ reserves[d].config.active /\ reserves[c].config.active
      /\ c \in collateral[b] /\ price[c] # 0 /\ price[d] # 0
      /\ CalculateAmounts(i).status = "OK"
      /\ wallet' = [wallet EXCEPT ![sender] =
                      [a \in Asset |-> (wallet[sender][a] - (IF a = d THEN repaid ELSE 0))
                                          + (IF a = c THEN paidOut ELSE 0)]]
      /\ tokens' = [a \in Asset |-> (tokens[a] + (IF a = d THEN repaid ELSE 0))
                                       - (IF a = c THEN paidOut ELSE 0)]
  BY Zenon DEF Liquidate, AccruedPair, ValidateLiquidationReserve
<1>2. IsListed(reserves[c]) /\ IsListed(reserves[d])
  BY <1>1, ActiveIsListed
<1>3. supply[b][c] # 0
  BY <1>1 DEF PoolInv, BitmapInSync
<1>4. LiquidationAmounts(c, d, b, cover, repaid, seized) /\ Burns(c, d, b, repaid, seized, db, cb)
  BY <1>1, Zenon DEF LiquidationAmounts, Burns
<1> HIDE DEF repaid, seized, db, cb, i
<1>5. repaid \in Nat /\ seized \in Nat
  BY <1>1, <1>2, <1>3, <1>4, BurnsWithinBalances
<1>6. /\ wallet \in [User -> [Asset -> Nat]]
      /\ \A a \in Asset : wallet[sender][a] \in Nat /\ tokens[a] \in Nat
  BY DEF PoolInv, TypeOK
<1>7. paidOut \in Nat
  BY <1>5
<1> HIDE DEF paidOut
<1>8. \A v \in User \ {sender} : wallet'[v] = wallet[v]
  BY <1>1, <1>6
<1>9. ASSUME NEW a \in Asset
      PROVE  wallet'[sender][a] + tokens'[a] = wallet[sender][a] + tokens[a]
  <2>1. /\ wallet'[sender][a] = (wallet[sender][a] - (IF a = d THEN repaid ELSE 0))
                                  + (IF a = c THEN paidOut ELSE 0)
        /\ tokens'[a] = (tokens[a] + (IF a = d THEN repaid ELSE 0))
                          - (IF a = c THEN paidOut ELSE 0)
    BY <1>1, <1>6
  <2> QED BY <2>1, <1>5, <1>6, <1>7
<1> QED BY <1>8, <1>9 DEF Exchange

-----------------------------------------------------------------------------
(***************************************************************************)
(* The arithmetic of the conversions.  P and T stand for the assets and    *)
(* the shares with the virtual ones, s for the shares of the caller, a and *)
(* m for the assets and the shares of the call.                            *)
(***************************************************************************)

\* A dividend larger by at most a multiple of the divisor.
LEMMA QuotientGrowth ==
    ASSUME NEW x \in Nat, NEW y \in Nat, NEW b \in Nat \ {0}, NEW n \in Nat, x <= y + n * b
    PROVE  x \div b <= y \div b + n
<1> DEFINE q == y \div b
<1>1. q \in Nat /\ y < q * b + b /\ x \div b \in Nat
  BY DivDown
<1> HIDE DEF q
<1>2. (q + n + 1) * b = q * b + n * b + b /\ n * b \in Nat /\ q * b \in Nat
  BY <1>1, MulNat
<1>3. x < (q + n + 1) * b
  BY <1>1, <1>2
<1>4. x \div b < q + n + 1
  BY <1>1, <1>3, DivDownBelow
<1> QED BY <1>1, <1>4 DEF q

\* A dividend smaller by at least a multiple of the divisor.
LEMMA QuotientLoss ==
    ASSUME NEW x \in Nat, NEW y \in Nat, NEW b \in Nat \ {0}, NEW n \in Nat, x + n * b <= y
    PROVE  x \div b + n <= y \div b
<1> DEFINE q == y \div b
           p == x \div b
<1>1. q \in Nat /\ y < q * b + b /\ p \in Nat /\ p * b <= x
  BY DivDown
<1> HIDE DEF q, p
<1>2. /\ (p + n) * b = p * b + n * b /\ p * b \in Nat /\ n * b \in Nat
      /\ (q + 1) * b = q * b + b /\ q * b \in Nat
  BY <1>1, MulNat
<1>3. (p + n) * b < (q + 1) * b
  BY <1>1, <1>2
<1>4. p + n < q + 1
  BY <1>1, <1>3, Cancel
<1> QED BY <1>1, <1>4 DEF p, q

\* Shares minted for at least their worth: the caller's shares gain at most what
\* the call brought in.
LEMMA EnteringGains ==
    ASSUME NEW s \in Nat, NEW T \in Nat \ {0}, NEW P \in Nat, NEW m \in Nat, NEW a \in Nat,
           NEW P2 \in Nat, s <= T, m * P <= a * T, P2 <= P + a
    PROVE  ((s + m) * P2) \div (T + m) <= (s * P) \div T + a
<1> DEFINE q == (s * P) \div T
<1>1. s * P \in Nat /\ m * P \in Nat /\ a * T \in Nat
  BY MulNat
<1>2. q \in Nat /\ s * P < q * T + T
  BY <1>1, DivDown
<1> HIDE DEF q
<1>3. PICK k \in Nat : T = s + k
  <2>1. T - s \in Nat /\ T = s + (T - s)
    OBVIOUS
  <2> QED BY <2>1
<1>4. (m * P) * k <= (a * T) * k
  BY <1>1, MulMonotone
<1>5. (s * P) * m <= ((q + 1) * T) * m
  <2>1. (q + 1) * T = q * T + T /\ q * T \in Nat
    BY <1>2, MulNat
  <2> QED BY <2>1, <1>1, <1>2, MulMonotone
<1>6. (s * a + m * P) * T = (s * a) * T + (s * P) * m + (m * P) * k
  <2>1. (s * a + m * P) * T = (s * a) * T + (m * P) * T
    BY <1>1, MulNat
  <2>2. (m * P) * T = (m * P) * s + (m * P) * k
    BY <1>1, <1>3
  <2>3. (m * P) * s = (s * P) * m
    OBVIOUS
  <2> QED BY <2>1, <2>2, <2>3
<1>7. (a * T + (q + 1) * m) * T = (s * a) * T + (a * T) * k + ((q + 1) * T) * m
  <2>1. (a * T + (q + 1) * m) * T = (a * T) * T + ((q + 1) * m) * T
    BY <1>1, <1>2, MulNat
  <2>2. (a * T) * T = (a * T) * s + (a * T) * k
    BY <1>1, <1>3
  <2>3. (a * T) * s = (s * a) * T /\ ((q + 1) * m) * T = ((q + 1) * T) * m
    BY <1>2
  <2> QED BY <2>1, <2>2, <2>3
<1>8. s * a + m * P <= a * T + (q + 1) * m
  <2> DEFINE x == s * a + m * P
             y == a * T + (q + 1) * m
  <2>1. x \in Nat /\ y \in Nat
    BY <1>1, <1>2, MulNat
  <2>2. x * T <= y * T
    <3>1. (s * a) * T \in Nat /\ (s * P) * m \in Nat /\ (m * P) * k \in Nat
          /\ (a * T) * k \in Nat /\ ((q + 1) * T) * m \in Nat
      BY <1>1, <1>2, MulNat
    <3> QED BY <3>1, <1>4, <1>5, <1>6, <1>7
  <2> HIDE DEF x, y
  <2>3. (y + 1) * T = y * T + T /\ y * T \in Nat /\ x * T \in Nat
    BY <2>1, MulNat
  <2>4. x * T < (y + 1) * T
    BY <2>2, <2>3
  <2>5. x < y + 1
    BY <2>1, <2>4, Cancel
  <2>6. x <= y
    BY <2>1, <2>5
  <2> QED BY <2>6 DEF x, y
<1>9. (s + m) * P2 < (q + a + 1) * (T + m)
  <2>1. (s + m) * P2 <= (s + m) * (P + a)
    <3>1. P2 * (s + m) <= (P + a) * (s + m)
      BY MulMonotone
    <3> QED BY <3>1
  <2>2. (s + m) * (P + a) = s * P + (s * a + m * P) + m * a
    OBVIOUS
  <2>3. (q + a + 1) * (T + m) = (q * T + T) + (a * T + (q + 1) * m) + m * a
    BY <1>2
  <2>4. /\ s * a \in Nat /\ m * a \in Nat /\ q * T \in Nat /\ (q + 1) * m \in Nat
        /\ (s + m) * P2 \in Nat
    BY <1>2, MulNat
  <2> QED BY <2>1, <2>2, <2>3, <2>4, <1>1, <1>2, <1>8
<1>10. ((s + m) * P2) \div (T + m) < q + a + 1
  <2>1. (s + m) * P2 \in Nat /\ T + m \in Nat \ {0} /\ q + a + 1 \in Nat
    BY <1>2, MulNat
  <2> QED BY <2>1, <1>9, DivDownBelow
<1>11. ((s + m) * P2) \div (T + m) \in Nat
  <2>1. (s + m) * P2 \in Nat /\ T + m \in Nat \ {0}
    BY MulNat
  <2> QED BY <2>1, DivDown
<1> QED BY <1>2, <1>10, <1>11 DEF q

\* Shares burnt for at most their worth: the caller's shares lose at least what
\* the call paid out.
LEMMA LeavingGains ==
    ASSUME NEW s \in Nat, NEW T \in Nat \ {0}, NEW P \in Nat, NEW m \in Nat, NEW a \in Nat,
           NEW P2 \in Nat, s <= T, m <= s, m < T, a * T <= m * P, P2 + a <= P
    PROVE  ((s - m) * P2) \div (T - m) + a <= (s * P) \div T
<1> DEFINE q == (s * P) \div T
<1>1. s * P \in Nat /\ m * P \in Nat /\ a * T \in Nat
  BY MulNat
<1>2. q \in Nat /\ s * P < q * T + T
  BY <1>1, DivDown
<1> HIDE DEF q
<1>3. PICK l \in Nat : s = l + m
  <2>1. s - m \in Nat /\ s = (s - m) + m
    OBVIOUS
  <2> QED BY <2>1
<1>4. PICK k \in Nat : T = s + k
  <2>1. T - s \in Nat /\ T = s + (T - s)
    OBVIOUS
  <2> QED BY <2>1
<1>5. s - m = l /\ T - m = l + k /\ l + k \in Nat \ {0}
  BY <1>3, <1>4
<1>6. a * T < (q + 1) * T
  <2>1. m * P <= s * P
    BY MulMonotone
  <2>2. (q + 1) * T = q * T + T
    BY <1>2
  <2> QED BY <2>1, <2>2, <1>1, <1>2
<1>7. a <= q
  <2>1. a < q + 1
    BY <1>2, <1>6, Cancel
  <2> QED BY <2>1, <1>2
<1>8. PICK g \in Nat : q = a + g
  <2>1. q - a \in Nat /\ q = a + (q - a)
    BY <1>2, <1>7
  <2> QED BY <2>1
<1>9. l * P + a * k < (q + 1) * (l + k)
  <2>1. (a * T) * k <= (m * P) * k
    BY <1>1, MulMonotone
  <2>2. (l * P + a * k) * T = (l * P) * T + (a * T) * k
    BY <1>1
  <2>3. (l * P) * T + (m * P) * k = (s * P) * (l + k)
    <3>1. (l * P) * T = (l * P) * l + (l * P) * m + (l * P) * k
      BY <1>3, <1>4, MulNat
    <3>2. (s * P) = l * P + m * P
      BY <1>3
    <3>3. (s * P) * (l + k) = (l * P) * l + (l * P) * k + (m * P) * l + (m * P) * k
      BY <3>2
    <3>4. (l * P) * m = (m * P) * l
      OBVIOUS
    <3>5. /\ (l * P) * l \in Nat /\ (l * P) * m \in Nat /\ (l * P) * k \in Nat
          /\ (m * P) * k \in Nat
      BY MulNat
    <3> QED BY <3>1, <3>3, <3>4, <3>5
  <2>4. (s * P) * (l + k) < ((q + 1) * (l + k)) * T
    <3> DEFINE u == l + k
    <3>1. u \in Nat \ {0}
      BY <1>5
    <3> HIDE DEF u
    <3>2. (s * P + 1) * u <= ((q + 1) * T) * u
      <4>1. (q + 1) * T = q * T + T /\ q * T \in Nat
        BY <1>2, MulNat
      <4>2. s * P + 1 <= (q + 1) * T /\ s * P + 1 \in Nat /\ (q + 1) * T \in Nat
        BY <4>1, <1>1, <1>2
      <4> QED BY <4>2, <3>1, MulMonotone
    <3>3. (s * P + 1) * u = (s * P) * u + u /\ (s * P) * u \in Nat
      BY <1>1, <3>1, MulNat
    <3>4. ((q + 1) * T) * u = ((q + 1) * u) * T /\ ((q + 1) * T) * u \in Nat
      BY <1>2, <3>1, MulNat
    <3>5. (s * P) * u < ((q + 1) * u) * T
      BY <3>1, <3>2, <3>3, <3>4
    <3> QED BY <3>5 DEF u
  <2>5. (l * P + a * k) * T < ((q + 1) * (l + k)) * T
    <3>1. /\ (l * P) * T \in Nat /\ (a * T) * k \in Nat /\ (m * P) * k \in Nat
          /\ ((q + 1) * (l + k)) * T \in Nat
      BY <1>1, <1>2, MulNat
    <3> QED BY <3>1, <2>1, <2>2, <2>3, <2>4
  <2>6. l * P + a * k \in Nat /\ (q + 1) * (l + k) \in Nat
    BY <1>2, MulNat
  <2> QED BY <2>5, <2>6, Cancel
<1>10. l * P2 < (g + 1) * (l + k)
  <2>1. l * P2 + l * a <= l * P
    <3>1. (P2 + a) * l <= P * l
      BY MulMonotone
    <3>2. (P2 + a) * l = l * P2 + l * a /\ P * l = l * P
      OBVIOUS
    <3> QED BY <3>1, <3>2
  <2>2. (q + 1) * (l + k) = (g + 1) * (l + k) + l * a + a * k
    BY <1>8
  <2>3. /\ l * P2 \in Nat /\ l * a \in Nat /\ l * P \in Nat /\ a * k \in Nat
        /\ (g + 1) * (l + k) \in Nat
    BY MulNat
  <2> QED BY <2>1, <2>2, <2>3, <1>9
<1>11. (l * P2) \div (l + k) < g + 1 /\ (l * P2) \div (l + k) \in Nat
  <2>1. l * P2 \in Nat
    BY MulNat
  <2> QED BY <2>1, <1>5, <1>10, DivDownBelow, DivDown
<1> QED BY <1>2, <1>5, <1>8, <1>11 DEF q

-----------------------------------------------------------------------------
(***************************************************************************)
(* The vault's quantities.                                                 *)
(***************************************************************************)

\* The shares are numbers, and a holder's are part of the total.
LEMMA ShareTotals ==
    ASSUME VaultInv
    PROVE  /\ totalShares \in Nat
           /\ \A u \in Holder : shares[u] \in Nat /\ shares[u] <= totalShares
<1>1. IsFiniteSet(Holder)
  BY PoolAssumption, FS_Subset DEF Holder
<1>2. \A u \in Holder : shares[u] \in Nat
  BY DEF VaultInv
<1>3. SumOver(shares, Holder) \in Nat
  BY <1>1, <1>2, SumType
<1>4. \A u \in Holder : shares[u] <= SumOver(shares, Holder)
  BY <1>1, <1>2, SumBound
<1> QED BY <1>2, <1>3, <1>4 DEF totalShares

\* The sum over the holders when the value of one of them changes.
LEMMA HolderChange ==
    ASSUME NEW f \in [Holder -> Nat], NEW g \in [Holder -> Nat], NEW h \in Holder,
           \A u \in Holder \ {h} : g[u] = f[u]
    PROVE  SumOver(g, Holder) = SumOver(f, Holder) - f[h] + g[h]
<1>1. IsFiniteSet(Holder)
  BY PoolAssumption, FS_Subset DEF Holder
<1>2. \A u \in Holder : f[u] \in Nat /\ g[u] \in Nat
  OBVIOUS
<1> QED BY <1>1, <1>2, SumUpdate

\* The total follows when one holder's shares change.
LEMMA ShareTotalFollows ==
    ASSUME VaultInv, NEW h \in Holder, NEW n \in Nat, shares' = [shares EXCEPT ![h] = n]
    PROVE  /\ shares' \in [Holder -> Nat]
           /\ totalShares' = totalShares - shares[h] + n
<1>1. shares \in [Holder -> Nat]
  BY DEF VaultInv
<1>2. shares' \in [Holder -> Nat] /\ shares'[h] = n
      /\ \A u \in Holder \ {h} : shares'[u] = shares[u]
  BY <1>1
<1>3. SumOver(shares', Holder) = SumOver(shares, Holder) - shares[h] + shares'[h]
  BY <1>1, <1>2, HolderChange
<1> QED BY <1>2, <1>3 DEF totalShares

\* The vault's assets, at the index the next call accrues to.
LEMMA AssetsAreAccrued ==
    ASSUME VaultInv, IsListed(reserves[underlying])
    PROVE  /\ totalAssets = RayMulDown(supply[vault][underlying],
                                       Accrue(reserves[underlying], now).liquidityIndex)
           /\ totalAssets \in Nat
<1>1. reserves[underlying] \in ReserveData /\ now \in Nat /\ supply[vault][underlying] \in Nat
  BY VaultAssumption DEF VaultInv, PoolInv, TypeOK
<1>2. reserves[underlying].lastUpdateTimestamp <= now
  BY VaultAssumption DEF VaultInv, PoolInv, ReservesSane, SaneReserve
<1>3. NormalizedIncome(reserves[underlying], now)
        = Accrue(reserves[underlying], now).liquidityIndex
  BY <1>1, <1>2, ViewsAreAccrue
<1>4. Accrue(reserves[underlying], now).liquidityIndex \in Nat \ {0}
  BY Accrued, VaultAssumption DEF VaultInv
<1>5. RayMulDown(supply[vault][underlying], Accrue(reserves[underlying], now).liquidityIndex) \in Nat
  BY <1>1, <1>4, RayType
<1> QED BY <1>3, <1>5 DEF totalAssets

\* The conversions round against the caller, and are numbers.
LEMMA VaultConversions ==
    ASSUME VaultInv, IsListed(reserves[underlying]), NEW n \in Nat
    PROVE  LET P == totalAssets + 1
               T == totalShares + Offset
           IN  /\ convertToShares(n) \in Nat /\ convertToShares(n) * P <= n * T
               /\ convertToAssets(n) \in Nat /\ convertToAssets(n) * T <= n * P
               /\ previewMint(n) \in Nat /\ n * P <= previewMint(n) * T
               /\ previewMint(n) # 0 => n # 0
               /\ previewWithdraw(n) \in Nat /\ n * T <= previewWithdraw(n) * P
<1> DEFINE P == totalAssets + 1
           T == totalShares + Offset
<1>1. /\ P \in Nat \ {0} /\ T \in Nat \ {0}
  BY AssetsAreAccrued, ShareTotals, VaultAssumption
<1>2. /\ convertToShares(n) = (n * T) \div P
      /\ convertToAssets(n) = (n * P) \div T
      /\ previewMint(n) = DivUp(n * P, T)
      /\ previewWithdraw(n) = DivUp(n * T, P)
  BY DEF convertToShares, convertToAssets, previewMint, previewWithdraw
<1> HIDE DEF P, T
<1>3. n * T \in Nat /\ n * P \in Nat
  BY <1>1, MulNat
<1>4. previewMint(n) # 0 => n # 0
  <2>1. n = 0 => n * P <= 0 * T
    BY <1>1
  <2>2. n = 0 => DivUp(n * P, T) <= 0
    BY <1>1, <1>3, <2>1, DivUpAtMost
  <2>3. DivUp(n * P, T) \in Nat
    BY <1>1, <1>3, DivUpBounds
  <2> QED BY <1>2, <2>2, <2>3
<1>5. /\ convertToShares(n) \in Nat /\ convertToShares(n) * P <= n * T
      /\ convertToAssets(n) \in Nat /\ convertToAssets(n) * T <= n * P
  BY <1>1, <1>2, <1>3, DivDown
<1>6. /\ previewMint(n) \in Nat /\ n * P <= previewMint(n) * T
      /\ previewWithdraw(n) \in Nat /\ n * T <= previewWithdraw(n) * P
  BY <1>1, <1>2, <1>3, DivUpBounds
<1> QED BY <1>4, <1>5, <1>6 DEF P, T

\* What the pool holds of a token never exceeds what type(uint256).max can name.
LEMMA CashWithinSupply ==
    ASSUME VaultInv
    PROVE  tokens[underlying] \in Nat /\ tokens[underlying] <= MaxUint
<1> DEFINE f == [u \in User |-> wallet[u][underlying]]
           initial == SumOver([u \in User |-> InitialWallet[u][underlying]], User)
<1>1. \A u \in User : f[u] \in Nat
  BY VaultAssumption DEF VaultInv, PoolInv, TypeOK
<1>2. SumOver(f, User) + tokens[underlying] = initial
  BY VaultAssumption DEF VaultInv, TokensConserved, Circulating
<1>3. initial <= MaxUint
  BY VaultAssumption
<1> HIDE DEF f, initial
<1>4. IsFiniteSet(User)
  BY PoolAssumption
<1>5. SumOver(f, User) \in Nat
  BY <1>1, <1>4, SumType
<1>6. tokens[underlying] \in Nat /\ MaxUint \in Nat
  BY VaultAssumption, PoolAssumption DEF VaultInv, PoolInv, TypeOK
<1> QED BY <1>2, <1>3, <1>5, <1>6

\* Nor does what a wallet holds.
LEMMA WalletWithinSupply ==
    ASSUME VaultInv, NEW u \in Holder
    PROVE  wallet[u][underlying] <= MaxUint
<1> DEFINE f == [v \in User |-> wallet[v][underlying]]
           initial == SumOver([v \in User |-> InitialWallet[v][underlying]], User)
<1>1. \A v \in User : f[v] \in Nat
  BY VaultAssumption DEF VaultInv, PoolInv, TypeOK
<1>2. SumOver(f, User) + tokens[underlying] = initial
  BY VaultAssumption DEF VaultInv, TokensConserved, Circulating
<1>3. initial <= MaxUint
  BY VaultAssumption
<1>4. u \in User /\ f[u] = wallet[u][underlying]
  BY DEF Holder
<1> HIDE DEF f, initial
<1>5. IsFiniteSet(User)
  BY PoolAssumption
<1>6. SumOver(f, User) \in Nat /\ f[u] <= SumOver(f, User) /\ f[u] \in Nat
  BY <1>1, <1>4, <1>5, SumType, SumBound
<1>7. tokens[underlying] \in Nat /\ MaxUint \in Nat
  BY CashWithinSupply, PoolAssumption
<1> QED BY <1>2, <1>3, <1>4, <1>6, <1>7

-----------------------------------------------------------------------------
(***************************************************************************)
(* The calls.                                                              *)
(***************************************************************************)

\* What every call does: the caller's shares become n, and the pool is sound after it.
Effect(h, n) ==
    /\ shares' = [shares EXCEPT ![h] = n]
    /\ PoolInv'
    /\ TokensConserved'

\* Entering the vault moves what the pool is told, and the vault's assets grow by
\* no more than that.
LEMMA EnterEffect ==
    ASSUME VaultInv, NEW h \in Holder, NEW assets \in Nat, NEW minted \in Nat,
           enter(h, assets, minted)
    PROVE  /\ IsListed(reserves[underlying])
           /\ Effect(h, shares[h] + minted)
           /\ wallet'[h][underlying] = wallet[h][underlying] - assets
           /\ totalAssets' \in Nat
           /\ totalAssets' <= totalAssets + assets
<1> DEFINE r == Accrue(reserves[underlying], now)
           index == r.liquidityIndex
           scaled == RayDivDown(assets, index)
           nr == [r EXCEPT !.totalScaledSupply = r.totalScaledSupply + scaled,
                           !.cash = @ + assets]
           before == supply[vault][underlying]
<1>1. /\ vault \in User /\ underlying \in Asset /\ h \in User /\ h # vault
      /\ PoolInv /\ TypeOK
  BY VaultAssumption DEF VaultInv, PoolInv, Holder
<1>2. /\ SupplyPaidBy(h, vault, underlying, assets, vault)
      /\ shares' = [shares EXCEPT ![h] = shares[h] + minted]
  BY DEF enter, VaultInv
<1>3. IsListed(reserves[underlying])
  BY <1>1, <1>2, ActiveIsListed DEF SupplyPaidBy, AcceptsSupply, ValidateSupply, Operational
<1>4. PoolInv'
  BY <1>1, <1>2, SupplyKeeps
<1>5. TokensConserved'
  <2>1. PICK u \in User : Exchange(u)
    BY <1>1, <1>2, CallExchanges
  <2> QED BY <2>1, <1>1, <1>4, ExchangeConserves DEF VaultInv, PoolInv
<1>6. /\ supply' = [supply EXCEPT ![vault][underlying] = @ + scaled]
      /\ reserves' = [reserves EXCEPT ![underlying] = UpdateRates(nr)]
      /\ PullTokens(underlying, h, assets)
      /\ now' = now
  BY <1>2, Zenon DEF SupplyPaidBy
<1>7. wallet'[h][underlying] = wallet[h][underlying] - assets
  BY <1>1, <1>6 DEF PullTokens, TypeOK
<1>8. /\ r \in ReserveData /\ index \in Nat \ {0} /\ r.lastUpdateTimestamp = now
      /\ r.totalScaledSupply \in Nat /\ r.cash \in Nat
  BY <1>1, <1>3, Accrued DEF ReserveData
<1>9. totalAssets = RayMulDown(before, index) /\ totalAssets \in Nat
  BY <1>3, AssetsAreAccrued
<1> HIDE DEF r
<1>10. scaled \in Nat /\ scaled * index <= assets * RAY
  <2>1. assets * RAY \in Nat
    BY MulNat, ScaleAssumption
  <2> QED BY <2>1, <1>8, DivDown DEF RayDivDown
<1>11. before \in Nat /\ supply'[vault][underlying] = before + scaled
  BY <1>1, <1>6 DEF TypeOK
<1>12. NormalizedIncome(reserves'[underlying], now') = index
  <2> HIDE DEF scaled
  <2>0. r.totalScaledSupply + scaled \in Nat /\ r.cash + assets \in Nat
    BY <1>8, <1>10
  <2>1. nr \in ReserveData /\ nr.liquidityIndex = index /\ nr.lastUpdateTimestamp = now
    BY <2>0, <1>8 DEF ReserveData
  <2>2. reserves'[underlying] = UpdateRates(nr)
    BY <1>1, <1>6 DEF TypeOK
  <2> HIDE DEF nr, index
  <2>3. /\ UpdateRates(nr).liquidityIndex = index
        /\ UpdateRates(nr).lastUpdateTimestamp = now
    BY <2>1, RatedReserve
  <2> QED BY <2>2, <2>3, <1>6 DEF NormalizedIncome
<1>13. totalAssets' = RayMulDown(before + scaled, index)
  BY <1>11, <1>12 DEF totalAssets
<1> HIDE DEF scaled, index, before
<1>14. RayMulDown(before + scaled, index) \in Nat
       /\ RayMulDown(before + scaled, index) <= RayMulDown(before, index) + assets
  <2>1. (before + scaled) * index = before * index + scaled * index
    BY <1>8, <1>10, <1>11
  <2>2. /\ before * index \in Nat /\ scaled * index \in Nat /\ assets * RAY \in Nat
        /\ (before + scaled) * index \in Nat /\ RAY \in Nat \ {0}
    BY <1>8, <1>10, <1>11, MulNat, ScaleAssumption
  <2>3. (before + scaled) * index <= before * index + assets * RAY
    BY <1>10, <2>1, <2>2
  <2> QED BY <2>2, <2>3, QuotientGrowth, DivDown DEF RayMulDown
<1> QED BY <1>2, <1>3, <1>4, <1>5, <1>7, <1>9, <1>13, <1>14 DEF Effect

\* Leaving the vault pays exactly what was asked, which its assets cover, and they
\* shrink by at least that.
LEMMA LeaveEffect ==
    ASSUME VaultInv, NEW h \in Holder, NEW assets \in Nat, NEW burnt \in Nat,
           IsListed(reserves[underlying]), assets <= totalAssets, leave(h, assets, burnt)
    PROVE  /\ Effect(h, shares[h] - burnt)
           /\ wallet'[h][underlying] = wallet[h][underlying] + assets
           /\ totalAssets' \in Nat
           /\ totalAssets' + assets <= totalAssets
<1> DEFINE r == Accrue(reserves[underlying], now)
           index == r.liquidityIndex
           before == supply[vault][underlying]
           balance == RayMulDown(before, index)
           all == assets = MaxUint \/ assets = balance
           paid == IF all THEN balance ELSE assets
           burn == IF all THEN before ELSE RayDivUp(assets, index)
           nr == [r EXCEPT !.totalScaledSupply = @ - burn, !.cash = @ - paid]
<1>1. /\ vault \in User /\ underlying \in Asset /\ h \in User /\ h # vault
      /\ PoolInv /\ TypeOK
  BY VaultAssumption DEF VaultInv, PoolInv, Holder
<1>2. /\ Withdraw(vault, underlying, assets, h) /\ burnt <= shares[h]
      /\ shares' = [shares EXCEPT ![h] = shares[h] - burnt]
  BY DEF leave, VaultInv
<1>3. IsListed(reserves[underlying])
  OBVIOUS
<1>4. PoolInv'
  BY <1>1, <1>2, WithdrawKeeps
<1>5. TokensConserved'
  <2>1. PICK u \in User : Exchange(u)
    BY <1>1, <1>2, CallExchanges
  <2> QED BY <2>1, <1>1, <1>4, ExchangeConserves DEF VaultInv, PoolInv
<1>6. /\ paid <= balance
      /\ paid <= r.cash
      /\ supply' = [supply EXCEPT ![vault] = [supply[vault] EXCEPT ![underlying] = @ - burn]]
      /\ reserves' = [reserves EXCEPT ![underlying] = UpdateRates(nr)]
      /\ PayTokens(underlying, h, paid)
      /\ now' = now
  BY <1>2, Zenon DEF Withdraw, AcceptsWithdraw
<1>7. /\ r \in ReserveData /\ index \in Nat \ {0} /\ r.lastUpdateTimestamp = now
      /\ r.cash = tokens[underlying] /\ r.totalScaledSupply = reserves[underlying].totalScaledSupply
  BY <1>1, <1>3, Accrued
<1>8. totalAssets = balance /\ balance \in Nat
  BY <1>3, AssetsAreAccrued
<1>9. before \in Nat /\ before <= reserves[underlying].totalScaledSupply
      /\ reserves[underlying].totalScaledSupply \in Nat
  BY <1>1, BalancesWithinTotals DEF PoolInv, TypeOK, ReserveData
<1> HIDE DEF r, index, before
<1>10. paid = assets
  <2>1. tokens[underlying] \in Nat /\ tokens[underlying] <= MaxUint /\ MaxUint \in Nat
    BY CashWithinSupply, PoolAssumption
  <2>2. assets <= balance
    BY <1>3, <1>8
  <2>3. balance <= tokens[underlying] \/ ~all
    BY <1>6, <1>7
  <2> HIDE DEF balance
  <2> QED BY <2>1, <2>2, <2>3, <1>8
<1>11. /\ burn \in Nat /\ burn <= before
       /\ all => burn = before /\ assets = balance
       /\ ~all => assets * RAY <= burn * index
  <2>1. CASE all
    BY <2>1, <1>9, <1>10
  <2>2. CASE ~all
    <3>1. burn = RayDivUp(assets, index) /\ assets <= RayMulDown(before, index)
      BY <2>2, <1>3, <1>8
    <3>2. assets * RAY \in Nat
      BY MulNat, ScaleAssumption
    <3>3. assets * RAY <= RayDivUp(assets, index) * index
      BY <3>2, <1>7, DivUpBounds DEF RayDivUp
    <3>4. RayDivUp(assets, index) \in Nat /\ RayDivUp(assets, index) <= before
      BY <3>1, <1>7, <1>9, BurnUpWithinBalance
    <3> HIDE DEF burn
    <3> QED BY <2>2, <3>1, <3>3, <3>4
  <2> QED BY <2>1, <2>2
<1>12. wallet'[h][underlying] = wallet[h][underlying] + assets
  <2> HIDE DEF paid
  <2> QED BY <1>1, <1>6, <1>10 DEF PayTokens, TypeOK
<1>13. supply'[vault][underlying] = before - burn
  <2> HIDE DEF burn
  <2>1. supply'[vault][underlying] = supply[vault][underlying] - burn
    BY <1>1, <1>6 DEF TypeOK
  <2> QED BY <2>1 DEF before
<1>14. NormalizedIncome(reserves'[underlying], now') = index
  <2>1. r.totalScaledSupply - burn \in Nat /\ r.cash - paid \in Nat
    <3>1. tokens[underlying] \in Nat
      BY CashWithinSupply
    <3> HIDE DEF burn, paid
    <3> QED BY <3>1, <1>6, <1>7, <1>9, <1>10, <1>11
  <2> HIDE DEF burn, paid
  <2>2. nr \in ReserveData /\ nr.liquidityIndex = r.liquidityIndex /\ nr.lastUpdateTimestamp = now
    BY <2>1, <1>7 DEF ReserveData
  <2>3. reserves'[underlying] = UpdateRates(nr)
    BY <1>1, <1>6 DEF TypeOK
  <2> HIDE DEF nr
  <2>4. /\ UpdateRates(nr).liquidityIndex = r.liquidityIndex
        /\ UpdateRates(nr).lastUpdateTimestamp = now
    BY <2>2, RatedReserve
  <2> QED BY <2>3, <2>4, <1>6 DEF NormalizedIncome, index
<1> DEFINE left == RayMulDown(before - burn, index)
<1>15. totalAssets' = left
  BY <1>13, <1>14 DEF totalAssets
<1>16. left \in Nat /\ left + assets <= balance
  <2> HIDE DEF burn, all
  <2>1. before - burn \in Nat
    BY <1>9, <1>11
  <2>2. left \in Nat
    BY <2>1, <1>7, RayType
  <2>3. CASE all
    <3>1. before - burn = 0
      BY <2>3, <1>9, <1>11
    <3>2. left = 0
      <4>1. 0 * index = 0
        BY <1>7
      <4>2. RayMulDown(0, index) = 0
        BY <4>1, ScaleAssumption DEF RayMulDown
      <4> QED BY <3>1, <4>2
    <3> HIDE DEF left, balance
    <3> QED BY <2>3, <3>2, <1>8, <1>11
  <2>4. CASE ~all
    <3>1. (before - burn) * index + burn * index = before * index
      BY <1>7, <1>9, <1>11
    <3>2. /\ (before - burn) * index \in Nat /\ burn * index \in Nat
          /\ before * index \in Nat /\ assets * RAY \in Nat /\ RAY \in Nat \ {0}
      BY <2>1, <1>7, <1>9, <1>11, MulNat, ScaleAssumption
    <3>3. (before - burn) * index + assets * RAY <= before * index
      BY <2>4, <3>1, <3>2, <1>11
    <3>4. RayMulDown(before - burn, index) + assets <= RayMulDown(before, index)
      BY <3>2, <3>3, QuotientLoss DEF RayMulDown
    <3> QED BY <2>2, <3>4
  <2> QED BY <2>2, <2>3, <2>4
<1> HIDE DEF left, balance
<1> QED BY <1>2, <1>3, <1>4, <1>5, <1>8, <1>12, <1>15, <1>16 DEF Effect

\* Every transaction of the pool keeps its invariant, and the tokens in circulation.
LEMMA StepConserves ==
    ASSUME PoolInv, TokensConserved, Next
    PROVE  PoolInv' /\ TokensConserved'
<1>1. PoolInv' /\ TypeOK /\ TypeOK'
  <2>1. PoolInv'
    BY StepKeeps
  <2> QED BY <2>1 DEF PoolInv
<1>2. CASE \E u \in User : Exchange(u)
  <2>1. PICK u \in User : Exchange(u)
    BY <1>2
  <2> QED BY <1>1, <2>1, ExchangeConserves
<1>3. CASE UNCHANGED tokenVars
  BY <1>1, <1>3 DEF tokenVars, TokensConserved, Circulating
<1>4. CASE UserNext
  <2>1. PICK sender \in User, a \in Asset :
          \/ \E amount \in Amounts :
               \/ \E onBehalfOf \in Beneficiaries[sender] : Supply(sender, a, amount, onBehalfOf)
               \/ \E to \in Beneficiaries[sender] : Withdraw(sender, a, amount, to)
               \/ Borrow(sender, a, amount)
               \/ \E onBehalfOf \in Beneficiaries[sender] : Repay(sender, a, amount, onBehalfOf)
               \/ \E c \in Asset, b \in User, receiveSupply \in BOOLEAN :
                      Liquidate(sender, c, a, b, amount, receiveSupply)
               \/ CoverDeficit(sender, a, amount)
          \/ \E enabled \in BOOLEAN : SetUseReserveAsCollateral(sender, a, enabled)
    BY <1>4, Zenon DEF UserNext
  <2>2. CASE \E enabled \in BOOLEAN : SetUseReserveAsCollateral(sender, a, enabled)
    <3>1. UNCHANGED tokenVars
      BY <2>2, Zenon DEF SetUseReserveAsCollateral
    <3> QED BY <1>3, <3>1
  <2>3. ASSUME NEW amount \in Amounts,
               \/ \E onBehalfOf \in Beneficiaries[sender] : Supply(sender, a, amount, onBehalfOf)
               \/ \E to \in Beneficiaries[sender] : Withdraw(sender, a, amount, to)
               \/ Borrow(sender, a, amount)
               \/ \E onBehalfOf \in Beneficiaries[sender] : Repay(sender, a, amount, onBehalfOf)
               \/ CoverDeficit(sender, a, amount)
        PROVE  \E u \in User : Exchange(u)
    <3>1. amount \in Nat /\ Beneficiaries[sender] \subseteq User
      BY PoolAssumption
    <3>2. \E other \in User :
            \/ SupplyPaidBy(sender, sender, a, amount, other)
            \/ Withdraw(sender, a, amount, other)
            \/ Borrow(sender, a, amount)
            \/ Repay(sender, a, amount, other)
            \/ CoverDeficit(sender, a, amount)
      BY <2>3, <3>1, Zenon DEF Supply
    <3> QED BY <3>1, <3>2, CallExchanges, Zenon
  <2>4. ASSUME NEW amount \in Amounts,
               \E c \in Asset, b \in User, receiveSupply \in BOOLEAN :
                   Liquidate(sender, c, a, b, amount, receiveSupply)
        PROVE  \E u \in User : Exchange(u)
    <3>1. amount \in Nat
      BY PoolAssumption
    <3> QED BY <2>4, <3>1, LiquidateExchanges, Zenon
  <2> QED BY <1>2, <2>1, <2>2, <2>3, <2>4, Zenon
<1>5. CASE ConfiguratorNext
  <2>1. ASSUME NEW a \in Asset, NEW amount \in Amounts, NEW to \in User,
               WithdrawReserves(a, amount, to)
        PROVE  \E u \in User : Exchange(u)
    <3>1. amount \in Nat
      BY PoolAssumption
    <3> QED BY <2>1, <3>1, CallExchanges, Zenon
  <2>2. ASSUME \/ \E a \in Asset : \E model \in RateModels[a], config \in Configs[a] :
                      InitReserve(a, model, config)
               \/ \E a \in Asset : \E config \in Configs[a] : SetReserveConfig(a, config)
               \/ \E a \in Asset : \E model \in RateModels[a] : SetInterestRateModel(a, model)
               \/ \E newPaused \in Pauses : SetPoolPaused(newPaused)
               \/ \E period \in GracePeriods : SetLiquidationGracePeriod(period)
        PROVE  UNCHANGED tokenVars
    BY <2>2, Zenon
       DEF InitReserve, SetReserveConfig, SetInterestRateModel, SetPoolPaused,
           SetLiquidationGracePeriod
  <2> QED BY <1>2, <1>3, <1>5, <2>1, <2>2, Zenon DEF ConfiguratorNext
<1>6. CASE EnvironmentNext
  <2>1. UNCHANGED tokenVars
    BY <1>6, Zenon DEF EnvironmentNext, Tick, SetPrice
  <2> QED BY <1>3, <2>1
<1> QED BY <1>4, <1>5, <1>6 DEF Next

\* The vault's calls are on a reserve that is listed.
LEMMA CallIsListed ==
    ASSUME VaultInv, NEW h, NEW assets, NEW amount,
           enter(h, assets, amount) \/ leave(h, assets, amount)
    PROVE  IsListed(reserves[underlying])
<1>1. reserves[underlying].config.active
  BY DEF enter, leave, SupplyPaidBy, AcceptsSupply, Withdraw, AcceptsWithdraw, ValidateSupply, Operational
<1> QED BY <1>1, ActiveIsListed, VaultAssumption DEF VaultInv

\* What a step owes the holders: the property, without its box.
NobodyGains == \A u \in Holder : shares'[u] # shares[u] => Worth(u)' <= Worth(u)

\* Entering for shares worth at most what is brought in.
LEMMA EnterSafely ==
    ASSUME VaultInv, NEW h \in Holder, NEW assets \in Nat, NEW minted \in Nat,
           minted * (totalAssets + 1) <= assets * (totalShares + Offset),
           enter(h, assets, minted)
    PROVE  VaultInv' /\ NobodyGains
<1> DEFINE P == totalAssets + 1
           T == totalShares + Offset
           P2 == totalAssets' + 1
           s == shares[h]
           w == wallet[h][underlying]
<1>1. /\ IsListed(reserves[underlying])
      /\ Effect(h, s + minted)
      /\ wallet'[h][underlying] = w - assets
      /\ totalAssets' \in Nat
      /\ totalAssets' <= totalAssets + assets
  BY EnterEffect
<1>2. /\ totalAssets \in Nat /\ totalShares \in Nat /\ Offset \in Nat \ {0}
      /\ s \in Nat /\ s <= totalShares
  BY <1>1, AssetsAreAccrued, ShareTotals, VaultAssumption
<1>3. /\ P \in Nat /\ T \in Nat \ {0} /\ P2 \in Nat /\ s <= T /\ P2 <= P + assets
      /\ s + minted \in Nat
  BY <1>1, <1>2
<1>4. /\ shares' = [shares EXCEPT ![h] = s + minted]
      /\ shares' \in [Holder -> Nat]
      /\ totalShares' = totalShares - s + (s + minted)
  BY <1>1, <1>3, ShareTotalFollows DEF Effect
<1>5. totalShares' + Offset = T + minted /\ shares'[h] = s + minted
  BY <1>2, <1>4 DEF VaultInv
<1>6. w \in Nat
  BY VaultAssumption DEF VaultInv, PoolInv, TypeOK, Holder
<1>7. ((s + minted) * P2) \div (T + minted) <= (s * P) \div T + assets
  <2>1. minted * P <= assets * T /\ s \in Nat
    BY <1>2
  <2> HIDE DEF P, T, P2, s
  <2> QED BY <2>1, <1>3, EnteringGains
<1>8. /\ Worth(h)' = (w - assets) + ((s + minted) * P2) \div (T + minted)
      /\ Worth(h) = w + (s * P) \div T
  <2>1. Worth(h)' = wallet'[h][underlying]
                      + (shares'[h] * (totalAssets' + 1)) \div (totalShares' + Offset)
    BY DEF Worth, convertToAssets
  <2>2. Worth(h) = wallet[h][underlying]
                     + (shares[h] * (totalAssets + 1)) \div (totalShares + Offset)
    BY DEF Worth, convertToAssets
  <2> QED BY <2>1, <2>2, <1>1, <1>5
<1>9. ((s + minted) * P2) \div (T + minted) \in Nat /\ (s * P) \div T \in Nat
  <2> HIDE DEF P, T, P2, s
  <2>1. T + minted \in Nat \ {0} /\ (s + minted) * P2 \in Nat /\ s * P \in Nat
    BY <1>2, <1>3, MulNat
  <2> QED BY <2>1, <1>3, DivDown
<1> DEFINE after == ((s + minted) * P2) \div (T + minted)
           before == (s * P) \div T
<1>10. Worth(h)' <= Worth(h)
  <2> HIDE DEF after, before, w
  <2>1. Worth(h)' = (w - assets) + after /\ Worth(h) = w + before
    BY <1>8 DEF after, before
  <2>2. after \in Nat /\ before \in Nat /\ after <= before + assets
    BY <1>7, <1>9 DEF after, before
  <2> QED BY <2>1, <2>2, <1>6
<1>11. \A u \in Holder : shares'[u] # shares[u] => u = h
  BY <1>4 DEF VaultInv
<1>12. NobodyGains
  BY <1>10, <1>11 DEF NobodyGains
<1> QED BY <1>1, <1>4, <1>12 DEF VaultInv, Effect

\* Leaving for assets worth at most the shares given up.
LEMMA LeaveSafely ==
    ASSUME VaultInv, NEW h \in Holder, NEW assets \in Nat, NEW burnt \in Nat,
           assets * (totalShares + Offset) <= burnt * (totalAssets + 1),
           leave(h, assets, burnt)
    PROVE  VaultInv' /\ NobodyGains
<1> DEFINE P == totalAssets + 1
           T == totalShares + Offset
           P2 == totalAssets' + 1
           s == shares[h]
           w == wallet[h][underlying]
<1>1. IsListed(reserves[underlying]) /\ burnt <= s
  BY CallIsListed DEF leave
<1>2. /\ totalAssets \in Nat /\ totalShares \in Nat /\ Offset \in Nat \ {0}
      /\ s \in Nat /\ s <= totalShares
  BY <1>1, AssetsAreAccrued, ShareTotals, VaultAssumption
<1>3. /\ P \in Nat /\ T \in Nat \ {0} /\ s <= T /\ s < T /\ burnt < T /\ s - burnt \in Nat
  BY <1>1, <1>2
<1>4. assets <= totalAssets
  <2>1. assets * T <= burnt * P
    OBVIOUS
  <2> HIDE DEF T, s
  <2>2. burnt * P <= T * P /\ burnt * P + P <= T * P
    <3>1. burnt + 1 <= T /\ burnt + 1 \in Nat
      BY <1>3
    <3>2. (burnt + 1) * P <= T * P
      BY <3>1, <1>3, MulMonotone
    <3>3. (burnt + 1) * P = burnt * P + P /\ burnt * P \in Nat /\ T * P \in Nat
      BY <1>3, MulNat
    <3> QED BY <3>2, <3>3, <1>3
  <2>3. assets * T < P * T
    <3>1. /\ P # 0 /\ P \in Nat /\ T * P = P * T /\ burnt * P \in Nat
          /\ T * P \in Nat /\ assets * T \in Nat
      BY <1>2, <1>3, MulNat
    <3> HIDE DEF P
    <3> QED BY <3>1, <2>1, <2>2
  <2>4. assets < P
    BY <2>3, <1>3, Cancel
  <2> QED BY <2>4, <1>2
<1>5. /\ Effect(h, s - burnt)
      /\ wallet'[h][underlying] = w + assets
      /\ totalAssets' \in Nat
      /\ totalAssets' + assets <= totalAssets
  BY <1>1, <1>4, LeaveEffect
<1>6. P2 \in Nat /\ P2 + assets <= P
  BY <1>2, <1>5
<1>7. /\ shares' = [shares EXCEPT ![h] = s - burnt]
      /\ shares' \in [Holder -> Nat]
      /\ totalShares' = totalShares - s + (s - burnt)
  BY <1>3, <1>5, ShareTotalFollows DEF Effect
<1>8. totalShares' + Offset = T - burnt /\ shares'[h] = s - burnt
  BY <1>2, <1>7 DEF VaultInv
<1>9. w \in Nat
  BY VaultAssumption DEF VaultInv, PoolInv, TypeOK, Holder
<1>10. ((s - burnt) * P2) \div (T - burnt) + assets <= (s * P) \div T
  <2>1. assets * T <= burnt * P
    OBVIOUS
  <2> HIDE DEF P, T, P2, s
  <2>2. burnt <= s
    BY <1>1 DEF s
  <2>3. s \in Nat
    BY <1>2
  <2> QED BY <2>1, <2>2, <2>3, <1>3, <1>6, LeavingGains
<1>11. /\ Worth(h)' = (w + assets) + ((s - burnt) * P2) \div (T - burnt)
       /\ Worth(h) = w + (s * P) \div T
  <2>1. Worth(h)' = wallet'[h][underlying]
                      + (shares'[h] * (totalAssets' + 1)) \div (totalShares' + Offset)
    BY DEF Worth, convertToAssets
  <2>2. Worth(h) = wallet[h][underlying]
                     + (shares[h] * (totalAssets + 1)) \div (totalShares + Offset)
    BY DEF Worth, convertToAssets
  <2> QED BY <2>1, <2>2, <1>5, <1>8
<1>12. ((s - burnt) * P2) \div (T - burnt) \in Nat /\ (s * P) \div T \in Nat
  <2> HIDE DEF P, T, P2, s
  <2>1. T - burnt \in Nat \ {0} /\ (s - burnt) * P2 \in Nat /\ s * P \in Nat
    BY <1>2, <1>3, <1>6, MulNat
  <2> QED BY <2>1, <1>3, DivDown
<1> DEFINE after == ((s - burnt) * P2) \div (T - burnt)
           before == (s * P) \div T
<1>13. Worth(h)' <= Worth(h)
  <2> HIDE DEF after, before, w
  <2>1. Worth(h)' = (w + assets) + after /\ Worth(h) = w + before
    BY <1>11 DEF after, before
  <2>2. after \in Nat /\ before \in Nat /\ after + assets <= before
    BY <1>10, <1>12 DEF after, before
  <2> QED BY <2>1, <2>2, <1>9
<1>14. \A u \in Holder : shares'[u] # shares[u] => u = h
  BY <1>7 DEF VaultInv
<1>15. NobodyGains
  BY <1>13, <1>14 DEF NobodyGains
<1> QED BY <1>5, <1>7, <1>15 DEF VaultInv, Effect

-----------------------------------------------------------------------------
(***************************************************************************)
(* The theorems.                                                           *)
(***************************************************************************)

\* Each of the four entry points trades shares at or above what they are worth.
LEMMA CallSafe ==
    ASSUME VaultInv, NEW h \in Holder, VaultCall(h)
    PROVE  VaultInv' /\ NobodyGains
<1> DEFINE P == totalAssets + 1
           T == totalShares + Offset
<1>1. PICK in, out : enter(h, in, out) \/ leave(h, in, out)
  BY Zenon DEF VaultCall, deposit, mint, withdraw, redeem
<1>2. IsListed(reserves[underlying])
  BY <1>1, CallIsListed
<1>3. /\ P \in Nat \ {0} /\ T \in Nat \ {0} /\ shares[h] \in Nat
  BY <1>2, AssetsAreAccrued, ShareTotals, VaultAssumption
<1>4. \A n \in Nat : /\ convertToShares(n) \in Nat /\ convertToShares(n) * P <= n * T
                     /\ convertToAssets(n) \in Nat /\ convertToAssets(n) * T <= n * P
                     /\ previewMint(n) \in Nat /\ n * P <= previewMint(n) * T
                     /\ previewWithdraw(n) \in Nat /\ n * T <= previewWithdraw(n) * P
  BY <1>2, VaultConversions
<1>5. CASE \E assets \in 1..wallet[h][underlying] : deposit(h, assets)
  <2>1. PICK assets \in 1..wallet[h][underlying] : deposit(h, assets)
    BY <1>5
  <2>2. assets \in Nat /\ enter(h, assets, convertToShares(assets))
    BY <2>1 DEF deposit
  <2> QED BY <2>2, <1>4, EnterSafely
<1>6. CASE \E amount \in Parts : mint(h, amount)
  <2>1. PICK amount \in Parts : mint(h, amount)
    BY <1>6
  <2>2. amount \in Nat /\ enter(h, previewMint(amount), amount)
    BY <2>1, VaultAssumption DEF mint
  <2> QED BY <2>2, <1>4, EnterSafely
<1>7. CASE \E assets \in 1..maxWithdraw(h) : withdraw(h, assets)
  <2>1. PICK assets \in 1..maxWithdraw(h) : withdraw(h, assets)
    BY <1>7
  <2>2. assets \in Nat /\ leave(h, assets, previewWithdraw(assets))
    BY <2>1 DEF withdraw
  <2> QED BY <2>2, <1>4, LeaveSafely
<1>8. CASE \E amount \in Parts \cup {maxRedeem(h)} : redeem(h, amount)
  <2>1. PICK amount \in Parts \cup {maxRedeem(h)} : redeem(h, amount)
    BY <1>8
  <2>2. amount \in Nat
    <3>1. availableLiquidity \in Nat
      BY VaultAssumption DEF availableLiquidity, VaultInv, PoolInv, TypeOK, ReserveData
    <3>2. maxRedeem(h) \in Nat
      BY <3>1, <1>3, <1>4 DEF maxRedeem, AtMost
    <3> QED BY <3>2, <2>1, VaultAssumption
  <2>3. leave(h, convertToAssets(amount), amount)
    BY <2>1 DEF redeem
  <2> QED BY <2>2, <2>3, <1>4, LeaveSafely
<1> QED BY <1>5, <1>6, <1>7, <1>8 DEF VaultCall

\* A vault without holders over a pool nobody has called.
LEMMA VaultInitEstablishes ==
    ASSUME VaultInit
    PROVE  VaultInv
<1>1. PoolInv
  BY InitEstablishes DEF VaultInit
<1>2. TokensConserved
  <2> SUFFICES ASSUME NEW a \in Asset
               PROVE  Circulating(a) = SumOver([u \in User |-> InitialWallet[u][a]], User)
    BY DEF TokensConserved
  <2> DEFINE f == [u \in User |-> InitialWallet[u][a]]
  <2>1. Circulating(a) = SumOver(f, User) + 0
    BY DEF VaultInit, Init, Circulating, NoBalance
  <2>2. \A u \in User : f[u] \in Nat
    BY PoolAssumption
  <2> HIDE DEF f
  <2>3. IsFiniteSet(User)
    BY PoolAssumption
  <2>4. SumOver(f, User) \in Nat
    BY <2>2, <2>3, SumType
  <2>5. Circulating(a) = SumOver(f, User)
    BY <2>1, <2>4
  <2> QED BY <2>5 DEF f
<1>3. shares \in [Holder -> Nat]
  BY DEF VaultInit
<1> QED BY <1>1, <1>2, <1>3 DEF VaultInv

\* Every step of the composition keeps the invariant and owes the holders nothing.
LEMMA VaultStepSafe ==
    ASSUME VaultInv, [VaultNext]_vaultVars
    PROVE  VaultInv' /\ NobodyGains
<1>1. CASE UNCHANGED vaultVars
  <2>1. UNCHANGED vars /\ shares' = shares
    BY <1>1, Zenon DEF vaultVars
  <2>2. PoolInv'
    BY <2>1, StepKeeps DEF VaultInv
  <2>3. wallet' = wallet /\ tokens' = tokens
    BY <2>1 DEF vars, tokenVars
  <2>4. TokensConserved'
    BY <2>3 DEF VaultInv, TokensConserved, Circulating
  <2> QED BY <2>1, <2>2, <2>4 DEF VaultInv, NobodyGains
<1>2. CASE PoolCall
  BY <1>2, StepConserves DEF PoolCall, VaultInv, NobodyGains
<1>3. CASE \E holder \in Holder : VaultCall(holder)
  BY <1>3, CallSafe
<1> QED BY <1>1, <1>2, <1>3 DEF VaultNext

\* The pool under a vault is the pool: its invariant holds in every state of the
\* composition, where the vault's calls carry amounts of their own, and no token
\* is made or lost.
THEOREM VaultInvariant == VaultSpec => []VaultInv
<1>1. VaultInit => VaultInv
  BY VaultInitEstablishes
<1>2. VaultInv /\ [VaultNext]_vaultVars => VaultInv'
  BY VaultStepSafe
<1> QED BY <1>1, <1>2, PTL DEF VaultSpec

\* No call to the vault pays its caller out of the other holders, whatever the
\* roundings of the vault (deposit, mint, withdraw, redeem) and of the pool under
\* it add up to, and whatever was supplied to the vault in between.
THEOREM CallsTakeNothing == VaultSpec => CallsNeverPay
<1>1. VaultInv /\ [VaultNext]_vaultVars
        => [\A u \in Holder : shares'[u] # shares[u] => Worth(u)' <= Worth(u)]_vaultVars
  BY VaultStepSafe DEF NobodyGains
<1> QED BY <1>1, VaultInvariant, PTL DEF VaultSpec, CallsNeverPay
-----------------------------------------------------------------------------
(***************************************************************************)
(* The limits are honoured.                                                *)
(***************************************************************************)

\* The vault owes the pool nothing, so no withdrawal of its own is checked against a
\* borrowing capacity.
VaultDebtFree == \A a \in Asset : debt[vault][a] = 0

LimitInv == VaultInv /\ VaultDebtFree

\* The index of the views is the one a call accrues to.
LEMMA IncomeIsAccrued ==
    ASSUME VaultInv, IsListed(reserves[underlying])
    PROVE  LET r == Accrue(reserves[underlying], now)
           IN  /\ NormalizedIncome(reserves[underlying], now) = r.liquidityIndex
               /\ TreasuryScaledNow(reserves[underlying], now) = r.accruedToTreasury
<1>1. /\ reserves[underlying] \in ReserveData /\ now \in Nat
      /\ reserves[underlying].lastUpdateTimestamp <= now
  BY VaultAssumption DEF VaultInv, PoolInv, TypeOK, ReservesSane, SaneReserve
<1> QED BY <1>1, ViewsAreAccrue

\* The limits of the vault are numbers.
LEMMA LimitTypes ==
    ASSUME VaultInv, IsListed(reserves[underlying])
    PROVE  availableLiquidity \in Nat /\ maxDeposit \in Nat /\ maxMint \in Nat
<1> DEFINE r == reserves[underlying]
           cap == r.config.supplyCap * Unit[underlying]
           supplied == TotalSupplyLiabilities(r, now)
<1>1. r \in ReserveData /\ r.config.supplyCap \in Nat /\ r.cash \in Nat
  BY VaultAssumption DEF VaultInv, PoolInv, TypeOK, ReserveData, ReserveConfig
<1>2. Unit[underlying] \in Nat /\ MaxUint \in Nat
  BY VaultAssumption, PoolAssumption, AssetAssumption
<1>3. cap \in Nat
  BY <1>1, <1>2, MulNat
<1>4. supplied \in Nat
  <2>1. /\ TreasuryScaledNow(r, now) \in Nat /\ NormalizedIncome(r, now) \in Nat
        /\ r.totalScaledSupply \in Nat
    BY VaultAssumption, IncomeIsAccrued, Accrued DEF VaultInv, ReserveData
  <2>2. r.totalScaledSupply + TreasuryScaledNow(r, now) \in Nat
    BY <2>1
  <2> QED BY <2>1, <2>2, RayType DEF TotalSupplyLiabilities
<1> HIDE DEF cap, supplied
<1>5. maxDeposit \in Nat
  <2>1. maxDeposit \in {0, MaxUint} \/ (~(supplied >= cap) /\ maxDeposit = cap - supplied)
    BY Zenon DEF maxDeposit, cap, supplied
  <2> QED BY <2>1, <1>2, <1>3, <1>4
<1>6. availableLiquidity \in Nat
  BY <1>1 DEF availableLiquidity
<1>7. maxMint \in Nat
  BY <1>2, <1>5, VaultConversions DEF maxMint
<1> QED BY <1>5, <1>6, <1>7

\* The pool takes what the wallet holds and the limit allows: the supply grows by no more
\* than the deposit, so it stays within the cap.
LEMMA SupplyFits ==
    ASSUME VaultInv, IsListed(reserves[underlying]), NEW u \in Holder, NEW n \in Nat,
           n <= maxDeposit, n <= wallet[u][underlying], n # 0,
           RayDivDown(n, NormalizedIncome(reserves[underlying], now)) # 0
    PROVE  AcceptsSupply(u, underlying, n)
<1> DEFINE config == reserves[underlying].config
           r == Accrue(reserves[underlying], now)
           index == r.liquidityIndex
           scaled == RayDivDown(n, index)
           cap == config.supplyCap * Unit[underlying]
           claims == r.totalScaledSupply + r.accruedToTreasury
           supplied == RayMulDown(claims, index)
           after == RayMulDown((r.totalScaledSupply + scaled) + r.accruedToTreasury, index)
<1>1. ValidateSupply(config)
  BY DEF maxDeposit
<1>2. NormalizedIncome(reserves[underlying], now) = index
  BY IncomeIsAccrued
<1>3. TotalSupplyLiabilities(reserves[underlying], now) = supplied
  <2>1. r.totalScaledSupply = reserves[underlying].totalScaledSupply
    BY Accrued, VaultAssumption DEF VaultInv
  <2> QED BY <2>1, IncomeIsAccrued DEF TotalSupplyLiabilities
<1>4. index \in Nat \ {0} /\ r.totalScaledSupply \in Nat /\ r.accruedToTreasury \in Nat
  BY Accrued, VaultAssumption DEF VaultInv, ReserveData
<1>5. cap \in Nat
  <2>1. config.supplyCap \in Nat /\ Unit[underlying] \in Nat
    BY VaultAssumption, AssetAssumption DEF VaultInv, PoolInv, TypeOK, ReserveData, ReserveConfig
  <2> QED BY <2>1, MulNat
<1>6. n * RAY \in Nat /\ RAY \in Nat \ {0}
  BY MulNat, ScaleAssumption
<1>7. scaled \in Nat /\ scaled * index <= n * RAY
  BY <1>4, <1>6, DivDown DEF RayDivDown
<1>8. ASSUME config.supplyCap # 0 PROVE after <= cap
  <2>1. maxDeposit = IF supplied >= cap THEN 0 ELSE cap - supplied
    BY <1>1, <1>3, <1>8, Zenon DEF maxDeposit
  <2> HIDE DEF scaled, index
  <2>2. supplied \in Nat /\ after \in Nat /\ after <= supplied + n
    <3>1. /\ claims \in Nat
          /\ (r.totalScaledSupply + scaled) + r.accruedToTreasury = claims + scaled
      BY <1>4, <1>7
    <3> HIDE DEF claims
    <3>2. /\ claims * index \in Nat /\ scaled * index \in Nat /\ (claims + scaled) * index \in Nat
          /\ (claims + scaled) * index = claims * index + scaled * index
      BY <1>4, <1>7, <3>1, MulNat
    <3>3. (claims + scaled) * index <= claims * index + n * RAY
      BY <1>6, <1>7, <3>2
    <3> QED BY <1>6, <3>1, <3>2, <3>3, QuotientGrowth, DivDown DEF RayMulDown
  <2> HIDE DEF after, supplied, cap
  <2> QED BY <1>5, <2>1, <2>2
<1> QED BY <1>1, <1>2, <1>8, Zenon DEF AcceptsSupply

\* The pool pays the vault what its assets and the pool's cash cover: it asks for no
\* more than a balance, so type(uint256).max stands for nothing else.
LEMMA WithdrawalFits ==
    ASSUME LimitInv, IsListed(reserves[underlying]), NEW n \in Nat, n # 0,
           n <= availableLiquidity, n <= totalAssets, totalAssets <= MaxUint
    PROVE  AcceptsWithdraw(vault, underlying, n)
<1> DEFINE r == Accrue(reserves[underlying], now)
           balance == RayMulDown(supply[vault][underlying], r.liquidityIndex)
           all == n = MaxUint \/ n = balance
           paid == IF all THEN balance ELSE n
           burn == IF all THEN supply[vault][underlying] ELSE RayDivUp(n, r.liquidityIndex)
<1>1. Operational(reserves[underlying].config) /\ n <= reserves[underlying].cash
  BY DEF availableLiquidity
<1>2. /\ reserves[underlying].cash = tokens[underlying] /\ r.cash = tokens[underlying]
  BY Accrued, VaultAssumption DEF LimitInv, VaultInv, PoolInv, CashMatchesTokens
<1>3. totalAssets = balance /\ balance \in Nat /\ MaxUint \in Nat
  BY AssetsAreAccrued, PoolAssumption DEF LimitInv
<1>4. paid = n
  <2> HIDE DEF balance
  <2> QED BY <1>3
<1>5. borrowing[vault] = {}
  <2>1. vault \in User /\ borrowing[vault] \subseteq Asset
    BY VaultAssumption DEF LimitInv, VaultInv, PoolInv, TypeOK
  <2>2. \A a \in Asset : a \notin borrowing[vault]
    BY <2>1 DEF LimitInv, VaultDebtFree, VaultInv, PoolInv, BitmapInSync
  <2> QED BY <2>1, <2>2
<1>6. ~NeedsCapacityCheck(underlying \in collateral[vault],
                          underlying \in ClearBit(collateral[vault], underlying, burn,
                                                  supply[vault][underlying]),
                          borrowing[vault])
  BY <1>5, Zenon DEF NeedsCapacityCheck
<1>7. paid <= balance /\ paid # 0 /\ paid <= r.cash /\ paid <= tokens[underlying]
  <2> HIDE DEF balance, paid
  <2> QED BY <1>1, <1>2, <1>3, <1>4
<1> HIDE DEF burn
<1> QED BY <1>1, <1>6, <1>7, Zenon DEF AcceptsWithdraw, burn

\* Shares bought with, or sold for, an amount of assets are worth no more than it.
LEMMA ShareBounds ==
    ASSUME VaultInv, IsListed(reserves[underlying]), NEW n \in Nat, NEW limit \in Nat
    PROVE  /\ n <= convertToShares(limit) => /\ previewMint(n) <= limit
                                             /\ convertToAssets(n) <= limit
           /\ n <= convertToAssets(limit) => previewWithdraw(n) <= limit
           /\ n <= totalShares => convertToAssets(n) <= totalAssets
<1> DEFINE P == totalAssets + 1
           T == totalShares + Offset
<1>1. /\ P \in Nat \ {0} /\ T \in Nat \ {0} /\ totalAssets \in Nat /\ totalShares \in Nat
      /\ totalShares < T
  BY AssetsAreAccrued, ShareTotals, VaultAssumption
<1>2. /\ convertToShares(limit) \in Nat /\ convertToShares(limit) * P <= limit * T
      /\ convertToAssets(limit) \in Nat /\ convertToAssets(limit) * T <= limit * P
      /\ convertToAssets(n) \in Nat /\ convertToAssets(n) * T <= n * P
  BY VaultConversions
<1>3. previewMint(n) = DivUp(n * P, T) /\ previewWithdraw(n) = DivUp(n * T, P)
  BY DEF previewMint, previewWithdraw
<1> HIDE DEF P, T
<1>4. n * P \in Nat /\ n * T \in Nat /\ limit * P \in Nat /\ limit * T \in Nat
  BY <1>1, MulNat
<1>5. ASSUME n <= convertToShares(limit)
      PROVE  previewMint(n) <= limit /\ convertToAssets(n) <= limit
  <2>1. n * P <= convertToShares(limit) * P /\ convertToShares(limit) * P \in Nat
    BY <1>1, <1>2, <1>5, MulMonotone, MulNat
  <2>2. n * P <= limit * T
    BY <1>2, <1>4, <2>1
  <2>3. previewMint(n) <= limit
    BY <1>1, <1>3, <1>4, <2>2, DivUpAtMost
  <2>4. convertToAssets(n) * T <= limit * T
    <3>1. convertToAssets(n) * T \in Nat
      BY <1>1, <1>2, MulNat
    <3> QED BY <3>1, <1>2, <1>4, <2>2
  <2> QED BY <2>3, <2>4, <1>1, <1>2, CancelAtMost
<1>6. ASSUME n <= convertToAssets(limit) PROVE previewWithdraw(n) <= limit
  <2>1. n * T <= convertToAssets(limit) * T /\ convertToAssets(limit) * T \in Nat
    BY <1>1, <1>2, <1>6, MulMonotone, MulNat
  <2>2. n * T <= limit * P
    BY <1>2, <1>4, <2>1
  <2> QED BY <1>1, <1>3, <1>4, <2>2, DivUpAtMost
<1>7. ASSUME n <= totalShares PROVE convertToAssets(n) <= totalAssets
  <2>1. n + 1 <= T /\ n + 1 \in Nat
    BY <1>1, <1>7
  <2>2. (n + 1) * P <= T * P
    BY <2>1, <1>1, MulMonotone
  <2>3. /\ (n + 1) * P = n * P + P /\ T * P = P * T /\ T * P \in Nat
        /\ convertToAssets(n) * T \in Nat
    BY <1>1, <1>2, MulNat
  <2>4. convertToAssets(n) * T < P * T
    BY <2>2, <2>3, <1>1, <1>2, <1>4
  <2>5. convertToAssets(n) < P
    BY <2>4, <1>1, <1>2, Cancel
  <2> QED BY <2>5, <1>1, <1>2 DEF P
<1> QED BY <1>5, <1>6, <1>7

\* The vault accepts the deposit, the purchase of shares, the withdrawal and the redemption
\* of exactly its limits.
LEMMA LimitsFit ==
    ASSUME LimitInv
    PROVE  LimitsHonoured
<1> SUFFICES ASSUME IsListed(reserves[underlying]), totalAssets <= MaxUint, NEW u \in Holder
             PROVE  LET takes(assets) ==
                            RayDivDown(assets, NormalizedIncome(reserves[underlying], now)) # 0
                    IN  /\ \A n \in {AtMost(maxDeposit, wallet[u][underlying])} :
                             takes(n) => acceptsDeposit(u, n)
                        /\ \A n \in {AtMost(maxMint, convertToShares(wallet[u][underlying]))} :
                             takes(previewMint(n)) => acceptsMint(u, n)
                        /\ \A n \in {maxWithdraw(u)} : n # 0 => acceptsWithdraw(u, n)
                        /\ \A n \in {maxRedeem(u)} : convertToAssets(n) # 0 => acceptsRedeem(u, n)
  BY DEF LimitsHonoured
<1> DEFINE index == NormalizedIncome(reserves[underlying], now)
           w == wallet[u][underlying]
<1>1. VaultInv /\ u \in User /\ w \in Nat
  BY VaultAssumption DEF LimitInv, VaultInv, PoolInv, TypeOK, Holder
<1>2. availableLiquidity \in Nat /\ maxDeposit \in Nat /\ maxMint \in Nat
  BY <1>1, LimitTypes
<1>3. \A m \in Nat : /\ convertToShares(m) \in Nat /\ convertToAssets(m) \in Nat
                     /\ previewMint(m) \in Nat /\ previewWithdraw(m) \in Nat
                     /\ previewMint(m) # 0 => m # 0
  BY <1>1, VaultConversions
<1>4. shares[u] \in Nat /\ shares[u] <= totalShares /\ totalShares \in Nat
  BY <1>1, ShareTotals
<1>5. totalAssets \in Nat
  BY <1>1, AssetsAreAccrued
<1>6. \A m \in Nat : RayDivDown(m, index) # 0 => m # 0
  <2>1. index \in Nat \ {0}
    BY <1>1, IncomeIsAccrued, Accrued, VaultAssumption DEF VaultInv
  <2> HIDE DEF index
  <2>2. RayDivDown(0, index) = 0 \div index
    BY ScaleAssumption DEF RayDivDown
  <2>3. 0 \div index = 0
    BY <2>1
  <2> QED BY <2>2, <2>3
<1> HIDE DEF index, w
<1>7. ASSUME NEW n, n = AtMost(maxDeposit, w), RayDivDown(n, index) # 0
      PROVE  acceptsDeposit(u, n)
  <2>1. n \in Nat /\ n <= maxDeposit /\ n <= w
    BY <1>1, <1>2, <1>7 DEF AtMost
  <2> QED BY <1>1, <1>6, <1>7, <2>1, SupplyFits DEF acceptsDeposit, w, index
<1>8. ASSUME NEW n, n = AtMost(maxMint, convertToShares(w)), RayDivDown(previewMint(n), index) # 0
      PROVE  acceptsMint(u, n)
  <2>1. n \in Nat /\ n <= maxMint /\ n <= convertToShares(w)
    BY <1>1, <1>2, <1>3, <1>8 DEF AtMost
  <2>2. previewMint(n) \in Nat /\ previewMint(n) # 0 /\ previewMint(n) <= w
    BY <1>1, <1>3, <1>6, <1>8, <2>1, ShareBounds
  <2>3. previewMint(n) <= maxDeposit
    <3>1. CASE maxDeposit = MaxUint
      <4>1. w <= MaxUint
        BY WalletWithinSupply DEF w, LimitInv
      <4> QED BY <1>1, <1>2, <2>2, <3>1, <4>1
    <3>2. CASE maxDeposit # MaxUint
      <4>1. n <= convertToShares(maxDeposit)
        BY <2>1, <3>2 DEF maxMint
      <4> QED BY <1>1, <1>2, <2>1, <4>1, ShareBounds
    <3> QED BY <3>1, <3>2
  <2>4. AcceptsSupply(u, underlying, previewMint(n))
    BY <1>1, <1>8, <2>2, <2>3, SupplyFits DEF w, index
  <2> QED BY <2>1, <2>4 DEF acceptsMint
<1>9. ASSUME NEW n, n = maxWithdraw(u), n # 0
      PROVE  acceptsWithdraw(u, n)
  <2>1. /\ convertToAssets(shares[u]) \in Nat
        /\ n \in Nat /\ n <= convertToAssets(shares[u]) /\ n <= availableLiquidity
    BY <1>2, <1>3, <1>4, <1>9 DEF maxWithdraw, AtMost
  <2>2. previewWithdraw(n) <= shares[u]
    BY <1>1, <1>4, <2>1, ShareBounds
  <2>3. n <= totalAssets
    <3>1. convertToAssets(shares[u]) <= totalAssets
      BY <1>1, <1>4, ShareBounds
    <3> QED BY <1>5, <2>1, <3>1
  <2>4. AcceptsWithdraw(vault, underlying, n)
    BY <1>9, <2>1, <2>3, WithdrawalFits
  <2> QED BY <1>9, <2>1, <2>2, <2>4 DEF acceptsWithdraw
<1>10. ASSUME NEW n, n = maxRedeem(u), convertToAssets(n) # 0
       PROVE  acceptsRedeem(u, n)
  <2>1. /\ convertToShares(availableLiquidity) \in Nat
        /\ n \in Nat /\ n <= shares[u] /\ n <= convertToShares(availableLiquidity)
    BY <1>2, <1>3, <1>4, <1>10 DEF maxRedeem, AtMost
  <2>2. convertToAssets(n) \in Nat /\ convertToAssets(n) <= availableLiquidity
    BY <1>1, <1>2, <1>3, <2>1, ShareBounds
  <2>3. convertToAssets(n) <= totalAssets
    <3>1. n <= totalShares
      BY <1>4, <2>1
    <3> QED BY <1>1, <1>4, <2>1, <3>1, ShareBounds
  <2>4. AcceptsWithdraw(vault, underlying, convertToAssets(n))
    BY <1>10, <2>2, <2>3, WithdrawalFits
  <2> QED BY <1>10, <2>1, <2>4 DEF acceptsRedeem
<1> QED BY <1>7, <1>8, <1>9, <1>10 DEF index, w

\* Nobody borrows in the vault's name.
LEMMA StaysDebtFree ==
    ASSUME VaultDebtFree, [VaultNext]_vaultVars
    PROVE  VaultDebtFree'
<1>1. CASE UNCHANGED vaultVars
  <2>1. UNCHANGED vars
    BY <1>1, Zenon DEF vaultVars
  <2>2. debt' = debt
    BY <2>1 DEF vars, accountVars
  <2> QED BY <2>2 DEF VaultDebtFree
<1>2. CASE PoolCall
  BY <1>2 DEF PoolCall, VaultDebtFree
<1>3. CASE \E h \in Holder : VaultCall(h)
  <2>1. debt' = debt
    BY <1>3, Zenon DEF VaultCall, deposit, mint, withdraw, redeem, enter, leave, SupplyPaidBy,
       Withdraw
  <2> QED BY <2>1 DEF VaultDebtFree
<1> QED BY <1>1, <1>2, <1>3 DEF VaultNext

\* The vault honours its limits, whatever the pauses, the cap, the cash and the interest:
\* the pool accepts at least what the limits promise, and the roundings of the conversions
\* stay within them.
THEOREM VaultHonoursLimits == VaultSpec => []LimitsHonoured
<1>1. VaultInit => LimitInv
  <2>1. ASSUME VaultInit PROVE VaultDebtFree
    BY <2>1, VaultAssumption DEF VaultInit, Init, NoBalance, VaultDebtFree
  <2> QED BY <2>1, VaultInitEstablishes DEF LimitInv
<1>2. LimitInv /\ [VaultNext]_vaultVars => LimitInv'
  BY VaultStepSafe, StaysDebtFree DEF LimitInv
<1>3. LimitInv => LimitsHonoured
  BY LimitsFit
<1> QED BY <1>1, <1>2, <1>3, PTL DEF VaultSpec
-----------------------------------------------------------------------------
(***************************************************************************)
(* Liquidations as the lens and the API report them.                       *)
(***************************************************************************)

\* The reserves as the lens accrues them in memory.
AccruedReserves == [a \in Asset |-> Accrue(reserves[a], now)]

\* Where an account has a balance, accruing changes neither the views nor the configuration.
LEMMA AccruedViews ==
    ASSUME PoolInv, NEW b \in User, NEW a \in Asset, supply[b][a] # 0 \/ debt[b][a] # 0
    PROVE  /\ IsListed(reserves[a])
           /\ SameViews(reserves[a], AccruedReserves[a], now)
           /\ AccruedReserves[a].config = reserves[a].config
           /\ AccruedReserves[a].liquidityIndex = NormalizedIncome(reserves[a], now)
           /\ AccruedReserves[a].borrowIndex = NormalizedDebt(reserves[a], now)
<1> DEFINE q == Accrue(reserves[a], now)
<1>1. IsListed(reserves[a])
  BY ExposedIsListed
<1>2. q \in ReserveData /\ q.config = reserves[a].config /\ q.lastUpdateTimestamp = now
  BY <1>1, Accrued
<1>3. {"liquidityIndex", "borrowIndex", "lastUpdateTimestamp"} \subseteq DOMAIN q
  BY <1>2 DEF ReserveData
<1>4. SameViews(reserves[a], q, now)
  BY <1>1, <1>2, <1>3, AccrueTracks DEF SameIndexes
<1>5. AccruedReserves[a] = q
  BY DEF AccruedReserves
<1>6. /\ NormalizedIncome(reserves[a], now) = q.liquidityIndex
      /\ NormalizedDebt(reserves[a], now) = q.borrowIndex
  <2>1. reserves[a] \in ReserveData /\ now \in Nat /\ reserves[a].lastUpdateTimestamp <= now
    BY DEF PoolInv, TypeOK, ReservesSane, SaneReserve
  <2> QED BY <2>1, ViewsAreAccrue
<1> HIDE DEF q
<1> QED BY <1>1, <1>2, <1>4, <1>5, <1>6

\* An account is worth the same with the reserves as stored, through their views, and with
\* the reserves accrued in memory.
LEMMA AccruedValues ==
    ASSUME PoolInv, NEW b \in User
    PROVE  LET acct == AccountOf(b)
           IN  /\ TotalDebtValue(acct, AccruedReserves, price, now)
                    = TotalDebtValue(acct, reserves, price, now)
               /\ LiquidationValue(acct, AccruedReserves, price, now)
                    = LiquidationValue(acct, reserves, price, now)
<1> DEFINE acct == AccountOf(b)
           res == AccruedReserves
           wr == [a \in Asset |-> reserves[a].config.liquidationThreshold]
           ws == [a \in Asset |-> res[a].config.liquidationThreshold]
<1>1. /\ acct.supply = supply[b] /\ acct.debt = debt[b]
      /\ acct.collateral = collateral[b] /\ acct.borrowing = borrowing[b]
  BY DEF AccountOf, Account
<1>2. DebtAssets(acct) \subseteq Asset /\ CollateralAssets(acct) \subseteq Asset
  BY <1>1 DEF PoolInv, TypeOK, DebtAssets, CollateralAssets
<1> HIDE DEF acct
<1>3. \A a \in DebtAssets(acct) : DebtValue(acct, res, price, now, a) = DebtValue(acct, reserves, price, now, a)
  <2> SUFFICES ASSUME NEW a \in DebtAssets(acct)
               PROVE  DebtValue(acct, res, price, now, a) = DebtValue(acct, reserves, price, now, a)
    OBVIOUS
  <2>1. debt[b][a] # 0 /\ a \in Asset
    BY <1>1, <1>2 DEF DebtAssets
  <2>2. NormalizedDebt(res[a], now) = NormalizedDebt(reserves[a], now)
    BY <2>1, AccruedViews DEF SameViews
  <2> QED BY <2>2 DEF DebtValue
<1>4. \A a \in CollateralAssets(acct) :
        /\ CollateralValue(acct, res, price, now, a) = CollateralValue(acct, reserves, price, now, a)
        /\ ws[a] = wr[a]
  <2> SUFFICES ASSUME NEW a \in CollateralAssets(acct)
               PROVE  /\ CollateralValue(acct, res, price, now, a)
                           = CollateralValue(acct, reserves, price, now, a)
                      /\ ws[a] = wr[a]
    OBVIOUS
  <2>1. supply[b][a] # 0 /\ a \in Asset
    BY <1>1, <1>2 DEF CollateralAssets
  <2>2. NormalizedIncome(res[a], now) = NormalizedIncome(reserves[a], now)
        /\ res[a].config = reserves[a].config
    BY <2>1, AccruedViews DEF SameViews
  <2> QED BY <2>1, <2>2 DEF CollateralValue
<1> HIDE DEF res, wr, ws
<1>5. [a \in DebtAssets(acct) |-> DebtValue(acct, res, price, now, a)]
        = [a \in DebtAssets(acct) |-> DebtValue(acct, reserves, price, now, a)]
  BY <1>3
<1>6. [a \in CollateralAssets(acct) |-> CollateralValue(acct, res, price, now, a) * ws[a]]
        = [a \in CollateralAssets(acct) |-> CollateralValue(acct, reserves, price, now, a) * wr[a]]
  BY <1>4
<1>7. TotalDebtValue(acct, res, price, now) = TotalDebtValue(acct, reserves, price, now)
  BY <1>5, Zenon DEF TotalDebtValue
<1>8. LiquidationValue(acct, res, price, now) = LiquidationValue(acct, reserves, price, now)
  BY <1>6, Zenon DEF LiquidationValue, WeightedCollateral, ws, wr
<1> QED BY <1>7, <1>8 DEF acct, res

\* A debt shows on the lens exactly when its bit is set.
LEMMA DebtShows ==
    ASSUME PoolInv, NEW b \in User, NEW d \in Asset
    PROVE  debtBalanceOf(d, b) \in Nat /\ (debtBalanceOf(d, b) # 0 <=> d \in borrowing[b])
<1> DEFINE index == NormalizedDebt(reserves[d], now)
           s == debt[b][d]
<1>1. reserves[d] \in ReserveData /\ now \in Nat /\ reserves[d].lastUpdateTimestamp <= now
  BY DEF PoolInv, TypeOK, ReservesSane, SaneReserve
<1>2. index \in Nat /\ s \in Nat
  BY <1>1, ViewsType DEF PoolInv, TypeOK
<1>3. s # 0 <=> d \in borrowing[b]
  BY DEF PoolInv, BitmapInSync
<1>4. s # 0 => index # 0
  <2> SUFFICES ASSUME s # 0 PROVE index # 0
    OBVIOUS
  <2>1. IsListed(reserves[d])
    BY ExposedIsListed
  <2> QED BY <1>1, <2>1, Accrued, ViewsAreAccrue
<1>5. debtBalanceOf(d, b) = DivUp(s * index, RAY)
  BY DEF debtBalanceOf, RayMulUp
<1> HIDE DEF index, s
<1>6. s * index \in Nat /\ (s # 0 => s * index # 0) /\ (s = 0 => s * index = 0) /\ RAY \in Nat \ {0}
  BY <1>2, <1>4, MulNat, ScaleAssumption
<1>7. DivUp(s * index, RAY) \in Nat /\ (s * index # 0 => DivUp(s * index, RAY) # 0)
  BY <1>6, DivUpBounds
<1>8. s * index = 0 => DivUp(s * index, RAY) = 0
  <2>1. s * index = 0 => s * index <= 0 * RAY
    BY <1>6
  <2>2. s * index = 0 => DivUp(s * index, RAY) <= 0
    BY <1>6, <2>1, DivUpAtMost
  <2> QED BY <1>7, <2>2
<1> QED BY <1>3, <1>5, <1>6, <1>7, <1>8

\* An account the pool would let somebody liquidate: priced, unhealthy, and with the
\* collateral and the debt asked for.
Liquidatable(b, c, d) ==
    /\ Priced(b) /\ ~IsHealthy(AccountOf(b), AccruedReserves, price, now)
    /\ c \in collateral[b] /\ d \in borrowing[b]

\* The lens reports the health the pool acts on.
LEMMA LensSeesHealth ==
    ASSUME PoolInv, NEW b \in User
    PROVE  /\ accountHealth(b).ok <=> Priced(b)
           /\ Priced(b) /\ accountHealth(b).healthFactor < WAD
                <=> Priced(b) /\ ~IsHealthy(AccountOf(b), AccruedReserves, price, now)
<1> DEFINE acct == AccountOf(b)
           dr == TotalDebtValue(acct, reserves, price, now)
           hr == HealthFactor(acct, reserves, price, now)
<1>1. /\ TotalDebtValue(acct, AccruedReserves, price, now) = dr
      /\ HealthFactor(acct, AccruedReserves, price, now) = hr
  BY AccruedValues, Zenon DEF HealthFactor
<1>2. /\ accountHealth(b).ok = Priced(b)
      /\ accountHealth(b).healthFactor = IF ~Priced(b) THEN 0
                                         ELSE IF dr = 0 THEN MAX_UINT256 ELSE hr
  BY DEF accountHealth
<1>3. IsHealthy(acct, AccruedReserves, price, now) <=> dr = 0 \/ hr >= WAD
  BY <1>1, Zenon DEF IsHealthy
<1>4. WAD \in Nat /\ MAX_UINT256 \in Nat /\ ~(MAX_UINT256 < WAD)
  BY RulesAssumption, ScaleAssumption
<1>5. dr # 0 => hr \in Nat
  <2>1. acct \in AccountType
    BY DEF PoolInv, TypeOK, AccountOf, Account, AccountType
  <2>2. Valuable(reserves, price, now)
    <3>1. /\ reserves \in [Asset -> ReserveData] /\ price \in [Asset -> Nat] /\ now \in Nat
          /\ \A a \in Asset : reserves[a].lastUpdateTimestamp <= now
      BY DEF PoolInv, TypeOK, ReservesSane, SaneReserve
    <3> QED BY <3>1, PoolValuable
  <2> DEFINE w == [a \in Asset |-> reserves[a].config.liquidationThreshold]
             l == WeightedCollateral(acct, reserves, price, now, w)
  <2>3. \A a \in Asset : w[a] \in Nat
    BY <2>2 DEF Valuable
  <2> HIDE DEF w, acct
  <2>4. dr \in Nat /\ l \in Nat
    BY <2>1, <2>2, <2>3, TotalsType
  <2>5. hr = (l * WAD) \div dr
    BY Zenon DEF HealthFactor, LiquidationValue, WadDivDown, w
  <2> HIDE DEF l, dr
  <2>6. l * WAD \in Nat
    BY <2>4, <1>4, MulNat
  <2> QED BY <2>4, <2>5, <2>6, DivDown
<1> HIDE DEF dr, hr
<1> QED BY <1>2, <1>3, <1>4, <1>5

\* While nothing halts liquidations, the preview calls liquidatable what the pool accepts,
\* but for a repayment worth less than a scaled unit.
LEMMA PreviewIsAccepted ==
    ASSUME ExitInv, NEW b \in User, ~Halted(b), NEW c \in Asset, NEW d \in Asset, NEW n
    PROVE  /\ AcceptsLiquidation(b, c, d, n) <=>
                /\ preview(b, c, d, n).liquidatable
                /\ ~TooSmall(b, d, preview(b, c, d, n).debtRepaid)
           /\ preview(b, c, d, n).liquidatable <=>
                /\ Liquidatable(b, c, d)
                /\ CalculateAmounts(LiquidationInput(AccruedReserves, c, d, b, n)).status = "OK"
           /\ previewLiquidation(b, c, d, n).liquidatable = preview(b, c, d, n).liquidatable
           /\ Liquidatable(b, c, d) =>
                /\ preview(b, c, d, n).debtRepaid
                     = CalculateAmounts(LiquidationInput(AccruedReserves, c, d, b, n)).debtRepaid
                /\ previewLiquidation(b, c, d, n).debtRepaid = preview(b, c, d, n).debtRepaid
<1> DEFINE res == AccruedReserves
           i == LiquidationInput(res, c, d, b, n)
           amounts == CalculateAmounts(i)
           relevant == isPreviewed(accountHealth(b), b, c, d)
           executes == \/ amounts.debtRepaid = i.borrowerDebt
                       \/ RayDivDown(amounts.debtRepaid, res[d].borrowIndex) # 0
<1>1. PoolInv
  BY DEF ExitInv
<1>2. relevant <=> Liquidatable(b, c, d)
  <2>1. d \in borrowing[b] <=> debtBalanceOf(d, b) # 0
    BY <1>1, DebtShows
  <2>2. Priced(b) /\ accountHealth(b).healthFactor < WAD
          <=> Priced(b) /\ ~IsHealthy(AccountOf(b), AccruedReserves, price, now)
    BY <1>1, LensSeesHealth
  <2>3. accountHealth(b).ok <=> Priced(b)
    BY <1>1, LensSeesHealth
  <2> QED BY <2>1, <2>2, <2>3, Zenon DEF isPreviewed, Liquidatable
<1>3. /\ previewLiquidation(b, c, d, n).liquidatable = (relevant /\ amounts.status = "OK")
      /\ previewLiquidation(b, c, d, n).debtRepaid = IF relevant THEN amounts.debtRepaid ELSE 0
  BY DEF previewLiquidation, previewOf, AccruedReserves
<1>4. /\ preview(b, c, d, n).liquidatable = previewLiquidation(b, c, d, n).liquidatable
      /\ preview(b, c, d, n).debtRepaid = previewLiquidation(b, c, d, n).debtRepaid
  BY DEF preview
<1>5. Liquidatable(b, c, d) =>
        /\ \A a \in {c, d} : ValidateLiquidationReserve(reserves[a].config) /\ price[a] # 0
        /\ i.borrowerDebt = debtBalanceOf(d, b)
        /\ res[d].borrowIndex = NormalizedDebt(reserves[d], now)
  <2> SUFFICES ASSUME Liquidatable(b, c, d)
               PROVE  /\ \A a \in {c, d} : /\ ValidateLiquidationReserve(reserves[a].config)
                                            /\ price[a] # 0
                      /\ i.borrowerDebt = debtBalanceOf(d, b)
                      /\ res[d].borrowIndex = NormalizedDebt(reserves[d], now)
    OBVIOUS
  <2>1. c \in collateral[b] /\ d \in borrowing[b] /\ Priced(b)
    BY DEF Liquidatable
  <2>2. supply[b][c] # 0 /\ debt[b][d] # 0
    BY <1>1, <2>1 DEF PoolInv, BitmapInSync
  <2>3. reserves[c].config.active /\ reserves[d].config.active
    BY <2>2, ExposedIsActive DEF ExitInv
  <2>4. ~reserves[c].config.paused /\ ~reserves[d].config.paused
    BY <2>1 DEF Halted
  <2>5. price[c] # 0 /\ price[d] # 0
    BY <2>1, <2>2 DEF Priced, PricesUsable, AccountOf, Account, CollateralAssets, DebtAssets
  <2>6. res[d].borrowIndex = NormalizedDebt(reserves[d], now)
    BY <1>1, <2>2, AccruedViews
  <2>7. i.borrowerDebt = RayMulUp(debt[b][d], res[d].borrowIndex)
    BY DEF LiquidationInput
  <2> QED BY <2>3, <2>4, <2>5, <2>6, <2>7 DEF ValidateLiquidationReserve, debtBalanceOf
<1>6. ~paused /\ now >= graceUntil
  <2>1. ~paused /\ ~(graceUntil > now)
    BY DEF Halted, protocolStatus, poolStatus
  <2>2. graceUntil \in Nat /\ now \in Nat
    BY <1>1 DEF PoolInv, TypeOK
  <2> QED BY <2>1, <2>2
<1>7. AcceptsLiquidation(b, c, d, n) <=>
        /\ ~paused /\ now >= graceUntil
        /\ \A a \in {c, d} : ValidateLiquidationReserve(reserves[a].config) /\ price[a] # 0
        /\ Liquidatable(b, c, d)
        /\ amounts.status = "OK" /\ executes
  BY Zenon DEF AcceptsLiquidation, Liquidatable, AccruedReserves
<1>8. Liquidatable(b, c, d) => (TooSmall(b, d, amounts.debtRepaid) <=> ~executes)
  BY <1>5 DEF TooSmall
<1> HIDE DEF executes, amounts, relevant
<1> QED BY <1>2, <1>3, <1>4, <1>5, <1>6, <1>7, <1>8, Zenon DEF amounts, i, res

\* The lens prices a liquidation from usable inputs.
LEMMA QuoteInput ==
    ASSUME PoolInv, NEW b \in User, NEW c \in Asset, NEW d \in Asset, Liquidatable(b, c, d),
           NEW n \in Nat
    PROVE  AmountsInput(LiquidationInput(AccruedReserves, c, d, b, n))
<1> DEFINE res == AccruedReserves
           i == LiquidationInput(res, c, d, b, n)
           bi == res[d].borrowIndex
           li == res[c].liquidityIndex
<1>1. c \in collateral[b] /\ d \in borrowing[b] /\ Priced(b)
  BY DEF Liquidatable
<1>2. supply[b][c] \in Nat \ {0} /\ debt[b][d] \in Nat \ {0}
  BY <1>1 DEF PoolInv, BitmapInSync, TypeOK
<1>3. price[c] \in Nat \ {0} /\ price[d] \in Nat \ {0}
  <2>1. price[c] # 0 /\ price[d] # 0
    BY <1>1, <1>2 DEF Priced, PricesUsable, AccountOf, Account, CollateralAssets, DebtAssets
  <2> QED BY <2>1 DEF PoolInv, TypeOK
<1>4. bi \in Nat /\ li \in Nat
  <2>1. /\ bi = NormalizedDebt(reserves[d], now)
        /\ li = NormalizedIncome(reserves[c], now)
    BY <1>2, AccruedViews
  <2>2. \A a \in {c, d} : /\ reserves[a] \in ReserveData /\ now \in Nat
                          /\ reserves[a].lastUpdateTimestamp <= now
    BY DEF PoolInv, TypeOK, ReservesSane, SaneReserve
  <2> QED BY <2>1, <2>2, ViewsType
<1>5. res[c].config.liquidationBonus \in Nat
  <2>1. res[c].config = reserves[c].config
    BY <1>2, AccruedViews
  <2>2. reserves[c] \in ReserveData
    BY DEF PoolInv, TypeOK
  <2> QED BY <2>1, <2>2, ScaleAssumption DEF ReserveData, ReserveConfig, Bps
<1>6. /\ i.borrowerDebt = RayMulUp(debt[b][d], bi)
      /\ i.borrowerCollateral = RayMulDown(supply[b][c], li)
      /\ i.debtPrice = price[d] /\ i.collateralPrice = price[c]
      /\ i.debtUnit = Unit[d] /\ i.collateralUnit = Unit[c]
      /\ i.bonus = res[c].config.liquidationBonus
      /\ i.debtToCover = n
  BY DEF LiquidationInput
<1> HIDE DEF res, i, bi, li
<1>7. RayMulUp(debt[b][d], bi) \in Nat /\ RayMulDown(supply[b][c], li) \in Nat
  BY <1>2, <1>4, RayType
<1>8. AmountsInput(i)
  BY <1>3, <1>5, <1>6, <1>7, AssetAssumption DEF AmountsInput
<1> QED BY <1>8 DEF i, res

\* The profit of a pair the lens calls liquidatable is a number.
LEMMA ProfitType ==
    ASSUME PoolInv, NEW b \in User, NEW c \in Asset, NEW d \in Asset, Liquidatable(b, c, d),
           NEW n \in Nat
    PROVE  profit(previewLiquidation(b, c, d, n)) \in Int
<1> DEFINE i == LiquidationInput(AccruedReserves, c, d, b, n)
           amounts == CalculateAmounts(i)
           pr == previewOf(i, amounts, isPreviewed(accountHealth(b), b, c, d))
<1>1. previewLiquidation(b, c, d, n) = pr
  BY Zenon DEF previewLiquidation, AccruedReserves
<1>2. AmountsInput(i)
  BY QuoteInput
<1> HIDE DEF i
<1>3. amounts.debtRepaid \in Nat /\ amounts.collateralSeized \in Nat
  BY <1>2, AmountsWithinBalances
<1> HIDE DEF amounts
<1>4. /\ (amounts.debtRepaid * i.debtPrice) \div i.debtUnit \in Nat
      /\ (amounts.collateralSeized * i.collateralPrice) \div i.collateralUnit \in Nat
  <2>1. /\ i.debtPrice \in Nat /\ i.collateralPrice \in Nat
        /\ i.debtUnit \in Nat \ {0} /\ i.collateralUnit \in Nat \ {0}
    BY <1>2 DEF AmountsInput
  <2>2. /\ amounts.debtRepaid * i.debtPrice \in Nat
        /\ amounts.collateralSeized * i.collateralPrice \in Nat
    BY <2>1, <1>3, MulNat
  <2> QED BY <2>1, <2>2, DivDown
<1>5. pr.debtRepaidValue \in Nat /\ pr.collateralSeizedValue \in Nat
  BY <1>4 DEF previewOf
<1> HIDE DEF pr
<1> QED BY <1>1, <1>5 DEF profit

\* A pair the pool lets somebody liquidate is a candidate of the account.
LEMMA TakeableIsCandidate ==
    ASSUME ExitInv, NEW b \in User, NEW c \in Asset, NEW d \in Asset, Liquidatable(b, c, d),
           previewLiquidation(b, c, d, MaxUint).liquidatable
    PROVE  <<c, d>> \in candidatePairs(b)
<1> DEFINE h == accountHealth(b)
           ps == positionsDto(b)
<1>1. PoolInv
  BY DEF ExitInv
<1>2. c \in collateral[b] /\ d \in borrowing[b] /\ Priced(b)
  BY DEF Liquidatable
<1>3. supply[b][c] # 0 /\ debt[b][d] # 0
  BY <1>1, <1>2 DEF PoolInv, BitmapInSync
<1>4. c \in reservesList /\ d \in reservesList
  BY <1>1, <1>3, AccruedViews DEF reservesList
<1>5. /\ ps[c].collateralEnabled = (c \in collateral[b])
      /\ ps[c].supplied.raw = supplyBalanceOf(c, b)
      /\ ps[d].borrowed.raw = debtBalanceOf(d, b)
      /\ DOMAIN ps = reservesList
  BY <1>4 DEF positionsDto, positionDto, getUserPosition, amountDto
<1>6. supplyBalanceOf(c, b) # 0
  BY <1>3, BalanceHasWorth DEF supplyBalanceOf
<1>7. debtBalanceOf(d, b) # 0
  BY <1>1, <1>2, DebtShows
<1>8. healthDto(b).riskLevel = "LIQUIDATABLE"
  <2>1. h.ok /\ h.healthFactor < WAD
    BY <1>1, LensSeesHealth DEF Liquidatable
  <2>2. ~(MAX_UINT256 < WAD)
    BY RulesAssumption, ScaleAssumption
  <2>3. healthDto(b).riskLevel = classifyHealthFactor(h.healthFactor, h.ok)
    BY DEF healthDto
  <2> HIDE DEF h
  <2> QED BY <2>1, <2>2, <2>3 DEF classifyHealthFactor
<1> HIDE DEF ps
<1> QED BY <1>2, <1>5, <1>6, <1>7, <1>8, <1>4 DEF candidatePairs, ps

\* Of the candidates of an account one is offered.
LEMMA BestExists ==
    ASSUME ExitInv, NEW b \in User, ~Halted(b), candidatePairs(b) # {}
    PROVE  bestLiquidation(b) # {}
<1> DEFINE S == candidatePairs(b)
           f == [p \in S |-> profit(previewLiquidation(b, p[1], p[2], MaxUint))]
<1>1. /\ S \subseteq Asset \X Asset
      /\ \A p \in S : previewLiquidation(b, p[1], p[2], MaxUint).liquidatable
  BY DEF candidatePairs, reservesList, positionsDto
<1>2. IsFiniteSet(S)
  <2>1. IsFiniteSet(Asset \X Asset)
    BY AssetAssumption, FS_Product
  <2> HIDE DEF S
  <2> QED BY <1>1, <2>1, FS_Subset
<1> HIDE DEF S
<1>3. \A p \in S : f[p] \in Int
  <2> SUFFICES ASSUME NEW p \in S PROVE f[p] \in Int
    OBVIOUS
  <2>1. p[1] \in Asset /\ p[2] \in Asset
    BY <1>1
  <2>2. Liquidatable(b, p[1], p[2])
    BY <2>1, <1>1, PreviewIsAccepted
  <2>3. PoolInv /\ MaxUint \in Nat
    BY PoolAssumption DEF ExitInv
  <2> QED BY <2>1, <2>2, <2>3, ProfitType
<1> HIDE DEF f
<1>4. PICK m \in S : \A p \in S : f[p] <= f[m]
  <2>1. S # {}
    BY DEF S
  <2> QED BY <1>2, <1>3, <2>1, MaximumExists
<1>5. DOMAIN f = S
  BY DEF f
<1>6. m \in {p \in DOMAIN f : \A q \in DOMAIN f : f[q] <= f[p]}
  BY <1>4, <1>5
<1>7. bestLiquidation(b) = {p \in DOMAIN f : \A q \in DOMAIN f : f[q] <= f[p]}
  BY Zenon DEF bestLiquidation, f, S
<1> QED BY <1>6, <1>7

\* The pool takes, for a pair the API offers, the amount its quote would repay.
LEMMA OfferTakeable ==
    ASSUME ExitInv, NEW b \in User, ~Halted(b), NEW p \in bestLiquidation(b)
    PROVE  \/ AcceptsLiquidation(b, p[1], p[2], need(b, p))
           \/ TooSmall(b, p[2], need(b, p))
<1> DEFINE c == p[1]
           d == p[2]
           n == need(b, p)
           i == LiquidationInput(AccruedReserves, c, d, b, MaxUint)
           j == LiquidationInput(AccruedReserves, c, d, b, n)
<1>1. p \in candidatePairs(b)
  BY DEF bestLiquidation
<1>2. c \in Asset /\ d \in Asset /\ previewLiquidation(b, c, d, MaxUint).liquidatable
  BY <1>1 DEF candidatePairs, reservesList, positionsDto
<1> HIDE DEF c, d
<1>3. PoolInv /\ MaxUint \in Nat
  BY PoolAssumption DEF ExitInv
<1>4. /\ Liquidatable(b, c, d)
      /\ CalculateAmounts(i).status = "OK"
      /\ previewLiquidation(b, c, d, MaxUint).debtRepaid = CalculateAmounts(i).debtRepaid
  BY <1>2, PreviewIsAccepted
<1>5. n = CalculateAmounts(i).debtRepaid
  BY <1>4 DEF need, c, d
<1>6. AmountsInput(i)
  BY <1>2, <1>3, <1>4, QuoteInput
<1> HIDE DEF i, n
<1>7. n \in Nat
  BY <1>5, <1>6, AmountsWithinBalances
<1>8. AmountsInput(j)
  BY <1>2, <1>3, <1>4, <1>7, QuoteInput
<1>9. /\ j.healthFactor = i.healthFactor
      /\ j.borrowerDebt = i.borrowerDebt /\ j.borrowerCollateral = i.borrowerCollateral
      /\ j.debtPrice = i.debtPrice /\ j.collateralPrice = i.collateralPrice
      /\ j.debtUnit = i.debtUnit /\ j.collateralUnit = i.collateralUnit /\ j.bonus = i.bonus
      /\ j.debtToCover = n
  BY DEF LiquidationInput, i
<1> HIDE DEF j
<1>10. CalculateAmounts(j) = CalculateAmounts(i)
  BY <1>5, <1>6, <1>8, <1>9, QuoteStable
<1>11. preview(b, c, d, n).liquidatable /\ preview(b, c, d, n).debtRepaid = n
  <2>1. /\ preview(b, c, d, n).liquidatable <=>
              Liquidatable(b, c, d) /\ CalculateAmounts(j).status = "OK"
        /\ Liquidatable(b, c, d) => preview(b, c, d, n).debtRepaid = CalculateAmounts(j).debtRepaid
    BY <1>2, PreviewIsAccepted DEF j
  <2> QED BY <2>1, <1>4, <1>5, <1>10
<1>12. AcceptsLiquidation(b, c, d, n) \/ TooSmall(b, d, n)
  BY <1>2, <1>11, PreviewIsAccepted
<1> QED BY <1>12 DEF c, d, n

\* "What a liquidation would do right now": while nothing halts liquidations, the pool accepts
\* what the preview calls liquidatable, an account that can be liquidated is offered, and the
\* pool accepts what the Liquidate button sends for the pair offered, but for a repayment
\* worth less than a scaled unit.
THEOREM CandidatesAreTakeable == Spec => []CandidatesTakeable
<1>1. ASSUME ExitInv, NEW b \in User, ~Halted(b), NEW c \in Asset, NEW d \in Asset,
             AcceptsLiquidation(b, c, d, MaxUint)
      PROVE  bestLiquidation(b) # {}
  <2>1. Liquidatable(b, c, d) /\ previewLiquidation(b, c, d, MaxUint).liquidatable
    BY <1>1, PreviewIsAccepted
  <2>2. candidatePairs(b) # {}
    BY <1>1, <2>1, TakeableIsCandidate
  <2> QED BY <1>1, <2>2, BestExists
<1>2. ExitInv => CandidatesTakeable
  BY <1>1, PreviewIsAccepted, OfferTakeable DEF CandidatesTakeable
<1> QED BY <1>2, ExitInvariant, PTL
-----------------------------------------------------------------------------
(***************************************************************************)
(* The pages of the API.                                                   *)
(***************************************************************************)

\* The off-chain curve is the contract's.
LEMMA CurveMirrored ==
    ASSUME NEW m, NEW cash, NEW totalDebt
    PROVE  kinkedBorrowRate(Utilization(cash, totalDebt), m) = GetBorrowRate(m, cash, totalDebt)
<1> DEFINE u == Utilization(cash, totalDebt)
<1>1. GetBorrowRate(m, cash, totalDebt) =
        IF u <= m.optimalUtilization
        THEN m.baseRate + RayMulDown(m.slope1, RayDivDown(u, m.optimalUtilization))
        ELSE m.baseRate + m.slope1
               + RayMulDown(m.slope2, RayDivDown(u - m.optimalUtilization, RAY - m.optimalUtilization))
  BY DEF GetBorrowRate
<1> HIDE DEF u
<1>2. kinkedBorrowRate(u, m) =
        IF u <= m.optimalUtilization
        THEN m.baseRate + RayMulDown(m.slope1, RayDivDown(u, m.optimalUtilization))
        ELSE m.baseRate + m.slope1
               + RayMulDown(m.slope2, RayDivDown(u - m.optimalUtilization, RAY - m.optimalUtilization))
  BY DEF kinkedBorrowRate, RayMulDown, RayDivDown
<1> QED BY <1>1, <1>2 DEF u

\* The chart has the rate the pool charges at the utilization the page shows.
LEMMA ChartMatches ==
    ASSUME PoolInv, RatesCurrent
    PROVE  BorrowCharted
<1> SUFFICES ASSUME NEW a \in reservesList, reserves[a].lastUpdateTimestamp = now
             PROVE  ratePoint(marketDto(a), rates[a].utilization).borrowApr = rates[a].borrowApr
  BY DEF BorrowCharted
<1> DEFINE r == reserves[a]
           owed == RayMulUp(r.totalScaledDebt, r.borrowIndex)
<1>1. a \in Asset /\ IsListed(r)
  BY DEF reservesList
<1>2. r \in ReserveData
  BY <1>1 DEF PoolInv, TypeOK
<1>3. r.borrowRate = GetBorrowRate(r.interestRateModel, r.cash, owed)
  <2>1. UpdateRates(r) = r
    BY <1>1 DEF RatesCurrent
  <2> DEFINE rate == GetBorrowRate(r.interestRateModel, r.cash, owed)
  <2>2. UpdateRates(r) = [r EXCEPT !.liquidityRate = LiquidityRate(r, rate), !.borrowRate = rate]
    BY DEF UpdateRates
  <2> HIDE DEF rate
  <2>3. UpdateRates(r).borrowRate = rate
    BY <1>2, <2>2 DEF ReserveData
  <2> QED BY <2>1, <2>3 DEF rate
<1>4. TotalBorrowed(r, now) = owed
  BY DEF TotalBorrowed, NormalizedDebt
<1>5. /\ getMarket(a).utilization = Utilization(r.cash, owed)
      /\ getMarket(a).borrowRate = r.borrowRate
      /\ getMarket(a).interestRateModel = r.interestRateModel
  BY <1>4 DEF getMarket
<1>6. /\ marketDto(a).utilization = getMarket(a).utilization
      /\ marketDto(a).borrowApr = getMarket(a).borrowRate
      /\ marketDto(a).interestRateModel = getMarket(a).interestRateModel
  BY DEF marketDto
<1>7. /\ rates[a].utilization = marketDto(a).utilization
      /\ rates[a].borrowApr = marketDto(a).borrowApr
  BY DEF rates
<1>8. ratePoint(marketDto(a), rates[a].utilization).borrowApr
        = kinkedBorrowRate(rates[a].utilization, marketDto(a).interestRateModel)
  BY DEF ratePoint
<1> HIDE DEF r, owed
<1> QED BY <1>3, <1>5, <1>6, <1>7, <1>8, CurveMirrored

\* An account page lists the debts of the account, and they add up to the total it shows.
LEMMA AccountListsDebts ==
    ASSUME PoolInv
    PROVE  DebtsListed
<1> SUFFICES ASSUME NEW u \in User
             PROVE  LET page == accountDto(u)
                        debts == {a \in DOMAIN page.positions : page.positions[a].borrowed.raw # 0}
                    IN  /\ debts = borrowing[u]
                        /\ page.health.priced =>
                             Apart(SumOver([a \in debts |-> page.positions[a].borrowed.usd], debts),
                                   page.health.totalDebtUsd) <= Cardinality(debts)
  BY DEF DebtsListed
<1> DEFINE ps == positionsDto(u)
           page == accountDto(u)
           debts == {a \in DOMAIN page.positions : page.positions[a].borrowed.raw # 0}
           acct == AccountOf(u)
           f == [a \in debts |-> page.positions[a].borrowed.usd]
           g == [a \in debts |-> DebtValue(acct, reserves, price, now, a)]
<1>1. /\ DOMAIN ps = reservesList
      /\ \A a \in reservesList :
            /\ ps[a].borrowed.raw = debtBalanceOf(a, u)
            /\ ps[a].borrowed.usd = usdValue(debtBalanceOf(a, u), Unit[a], price[a])
  BY DEF positionsDto, positionDto, getUserPosition, amountDto
<1>2. page.positions
        = [a \in {b \in DOMAIN ps : ps[b].supplied.raw # 0 \/ ps[b].borrowed.raw # 0} |-> ps[a]]
  BY DEF accountDto, Restrict
<1>3. page.health.priced = Priced(u) /\ (Priced(u) =>
        page.health.totalDebtUsd = TotalDebtValue(acct, reserves, price, now))
  BY DEF accountDto, healthDto, accountHealth
<1>4. \A a \in borrowing[u] : a \in reservesList /\ debt[u][a] # 0
  <2> SUFFICES ASSUME NEW a \in borrowing[u] PROVE a \in reservesList /\ debt[u][a] # 0
    OBVIOUS
  <2>1. a \in Asset /\ debt[u][a] # 0
    BY DEF PoolInv, TypeOK, BitmapInSync
  <2> QED BY <2>1, ExposedIsListed DEF reservesList
<1>5. \A a \in reservesList : debtBalanceOf(a, u) # 0 <=> a \in borrowing[u]
  BY DebtShows DEF reservesList
<1> HIDE DEF ps, page
<1>6. debts = borrowing[u]
  BY <1>1, <1>2, <1>4, <1>5
<1>7. \A a \in debts : page.positions[a].borrowed.usd = usdValue(debtBalanceOf(a, u), Unit[a], price[a])
  BY <1>1, <1>2
<1>8. acct.debt = debt[u] /\ acct.borrowing = borrowing[u]
  BY DEF AccountOf, Account
<1>9. DebtAssets(acct) = debts
  BY <1>4, <1>6, <1>8 DEF DebtAssets
<1>10. TotalDebtValue(acct, reserves, price, now) = SumOver(g, debts)
  BY <1>9, Zenon DEF TotalDebtValue
<1> HIDE DEF debts
<1>11. \A a \in debts : f[a] \in Nat /\ g[a] \in Nat /\ f[a] <= g[a] /\ g[a] <= f[a] + 1
  <2> SUFFICES ASSUME NEW a \in debts
               PROVE  f[a] \in Nat /\ g[a] \in Nat /\ f[a] <= g[a] /\ g[a] <= f[a] + 1
    OBVIOUS
  <2> DEFINE worth == debtBalanceOf(a, u) * price[a]
  <2>1. a \in Asset
    BY <1>4, <1>6 DEF reservesList
  <2>2. debtBalanceOf(a, u) \in Nat /\ price[a] \in Nat /\ Unit[a] \in Nat \ {0}
    BY <2>1, DebtShows, AssetAssumption DEF PoolInv, TypeOK
  <2>3. f[a] = worth \div Unit[a]
    BY <1>7 DEF usdValue
  <2>4. g[a] = DivUp(worth, Unit[a])
    BY <1>8 DEF DebtValue, debtBalanceOf
  <2>5. worth \in Nat
    BY <2>2, MulNat
  <2> HIDE DEF worth, f, g
  <2> QED BY <2>2, <2>3, <2>4, <2>5, DivNear
<1>12. IsFiniteSet(debts)
  <2>1. debts \subseteq Asset
    BY <1>4, <1>6 DEF reservesList
  <2> QED BY <2>1, AssetAssumption, FS_Subset
<1> HIDE DEF f, g
<1>13. /\ SumOver(f, debts) \in Nat /\ SumOver(g, debts) \in Nat /\ Cardinality(debts) \in Nat
       /\ SumOver(f, debts) <= SumOver(g, debts)
       /\ SumOver(g, debts) <= SumOver(f, debts) + Cardinality(debts)
  BY <1>11, <1>12, SumNear, SumType, FS_CardinalityType
<1>14. Apart(SumOver(f, debts), SumOver(g, debts)) <= Cardinality(debts)
  BY <1>13 DEF Apart
<1>15. page.health.priced =>
         Apart(SumOver(f, debts), page.health.totalDebtUsd) <= Cardinality(debts)
  BY <1>3, <1>10, <1>14
<1> QED BY <1>6, <1>15 DEF f, debts, page

\* Two of the claims of PagesMatchPool: the rate chart mirrors the model the pool uses, and an
\* account page misses no debt.
THEOREM PagesShowRatesAndDebts == Spec => [](BorrowCharted /\ DebtsListed)
<1>1. PoolInv /\ RatesCurrent => BorrowCharted /\ DebtsListed
  BY ChartMatches, AccountListsDebts
<1> QED BY <1>1, PoolInvariant, RatesAreCurrent, PTL
-----------------------------------------------------------------------------
(***************************************************************************)
(* What the action panel lets a user submit.  First the arithmetic of what *)
(* a balance, its value and a haircut may lose to rounding.                *)
(***************************************************************************)

\* Paying out an amount costs a balance no more than the rounding of a scaled unit besides.
LEMMA WithdrawnBalance ==
    ASSUME NEW s \in Nat, NEW index \in Nat \ {0}, NEW n \in Nat, RayDivUp(n, index) <= s
    PROVE  LET left == RayMulDown(s - RayDivUp(n, index), index)
           IN  /\ Rounding(index) \in Nat /\ left \in Nat
               /\ RayMulDown(s, index) <= left + n + Rounding(index)
<1> DEFINE k == RayDivUp(n, index)
           before == RayMulDown(s, index)
           left == RayMulDown(s - k, index)
           c == DivUp(index, RAY)
<1>1. RAY \in Nat \ {0} /\ n * RAY \in Nat
  BY ScaleAssumption, MulNat
<1>2. k \in Nat /\ k * index < n * RAY + index /\ n * RAY <= k * index
  BY <1>1, DivUpBounds DEF RayDivUp
<1>3. s - k \in Nat
  BY <1>2
<1>4. before \in Nat /\ left \in Nat
  BY <1>3, RayType
<1>5. c \in Nat /\ index <= c * RAY
  BY <1>1, DivUpBounds
<1>6. /\ s * index \in Nat /\ k * index \in Nat /\ (s - k) * index = s * index - k * index
      /\ (s - k) * index \in Nat
  BY <1>2, <1>3, MulNat
<1>7. before * RAY <= s * index /\ (s - k) * index < left * RAY + RAY
  BY <1>1, <1>3, <1>6, DivDown DEF RayMulDown
<1>8. before * RAY \in Nat /\ left * RAY \in Nat /\ c * RAY \in Nat
  BY <1>1, <1>4, <1>5, MulNat
<1>9. CASE index = RAY
  <2>1. n * RAY <= n * RAY
    BY <1>1
  <2>2. k <= n
    BY <1>1, <1>9, <2>1, DivUpAtMost DEF RayDivUp
  <2>3. before <= s
    <3>1. s * RAY < (s + 1) * RAY /\ s * RAY \in Nat
      BY <1>1, MulNat
    <3>2. before < s + 1
      BY <1>1, <1>9, <3>1, DivDownBelow DEF RayMulDown
    <3> QED BY <1>4, <3>2
  <2>4. s - k <= left
    <3>1. (s - k) * RAY < (left + 1) * RAY
      <4>1. (left + 1) * RAY = left * RAY + RAY
        BY <1>1, <1>4
      <4> QED BY <4>1, <1>7, <1>9
    <3> HIDE DEF left, k
    <3>2. s - k < left + 1
      BY <1>1, <1>3, <1>4, <3>1, Cancel
    <3> QED BY <1>3, <1>4, <3>2
  <2>5. Rounding(index) = 0
    BY <1>9 DEF Rounding
  <2> HIDE DEF left, k, before
  <2> QED BY <1>2, <1>4, <2>2, <2>3, <2>4, <2>5 DEF left, k, before
<1>10. CASE index # RAY
  <2>1. Rounding(index) = c
    BY <1>10 DEF Rounding
  <2> HIDE DEF left, k, before, c
  <2>2. (left + n + c + 1) * RAY = left * RAY + n * RAY + c * RAY + RAY
    BY <1>1, <1>4, <1>5
  <2>3. before * RAY < (left + n + c + 1) * RAY
    BY <2>2, <1>1, <1>2, <1>5, <1>6, <1>7, <1>8
  <2>4. before < left + n + c + 1
    BY <2>3, <1>1, <1>4, <1>5, Cancel
  <2>5. before <= left + n + c
    BY <2>4, <1>4, <1>5
  <2> QED BY <2>1, <2>5, <1>4, <1>5 DEF left, k, before
<1> QED BY <1>9, <1>10

\* Nor does borrowing an amount add more to a debt.
LEMMA BorrowedBalance ==
    ASSUME NEW s \in Nat, NEW index \in Nat \ {0}, NEW n \in Nat
    PROVE  LET owed == RayMulUp(s + RayDivUp(n, index), index)
           IN  /\ Rounding(index) \in Nat /\ owed \in Nat
               /\ owed <= RayMulUp(s, index) + n + Rounding(index)
<1> DEFINE k == RayDivUp(n, index)
           before == RayMulUp(s, index)
           owed == RayMulUp(s + k, index)
           c == DivUp(index, RAY)
<1>1. RAY \in Nat \ {0} /\ n * RAY \in Nat
  BY ScaleAssumption, MulNat
<1>2. k \in Nat /\ k * index < n * RAY + index
  BY <1>1, DivUpBounds DEF RayDivUp
<1>3. s + k \in Nat
  BY <1>2
<1>4. before \in Nat /\ owed \in Nat
  BY <1>3, RayType
<1>5. c \in Nat /\ index <= c * RAY
  BY <1>1, DivUpBounds
<1>6. /\ s * index \in Nat /\ k * index \in Nat /\ (s + k) * index = s * index + k * index
      /\ (s + k) * index \in Nat
  BY <1>2, <1>3, MulNat
<1>7. s * index <= before * RAY
  BY <1>1, <1>6, DivUpBounds DEF RayMulUp
<1>8. before * RAY \in Nat /\ c * RAY \in Nat
  BY <1>1, <1>4, <1>5, MulNat
<1>9. CASE index = RAY
  <2>1. n * RAY <= n * RAY
    BY <1>1
  <2>2. k <= n
    BY <1>1, <1>9, <2>1, DivUpAtMost DEF RayDivUp
  <2>3. s <= before
    <3> HIDE DEF before
    <3>1. s * RAY <= before * RAY
      BY <1>7, <1>9
    <3>2. (before + 1) * RAY = before * RAY + RAY
      BY <1>1, <1>4
    <3>3. s * RAY < (before + 1) * RAY
      BY <1>1, <1>6, <1>8, <1>9, <3>1, <3>2
    <3>4. s < before + 1
      BY <1>1, <1>4, <3>3, Cancel
    <3> QED BY <1>4, <3>4
  <2>4. owed <= s + k
    <3>1. (s + k) * index <= (s + k) * RAY
      BY <1>6, <1>9
    <3> QED BY <1>1, <1>3, <1>6, <3>1, DivUpAtMost DEF RayMulUp
  <2>5. Rounding(index) = 0
    BY <1>9 DEF Rounding
  <2> HIDE DEF owed, k, before
  <2> QED BY <1>2, <1>4, <2>2, <2>3, <2>4, <2>5 DEF owed, k, before
<1>10. CASE index # RAY
  <2>1. Rounding(index) = c
    BY <1>10 DEF Rounding
  <2>2. before + n + c \in Nat
    BY <1>4, <1>5
  <2>3. (s + k) * index <= (before + n + c) * RAY
    <3> HIDE DEF k, before, c
    <3>1. (before + n + c) * RAY = before * RAY + n * RAY + c * RAY
      BY <1>1, <1>4, <1>5
    <3> QED BY <3>1, <1>1, <1>2, <1>5, <1>6, <1>7, <1>8
  <2>4. owed <= before + n + c
    BY <1>1, <1>3, <1>6, <2>2, <2>3, DivUpAtMost DEF RayMulUp
  <2> QED BY <2>1, <2>4, <1>4, <1>5
<1> QED BY <1>9, <1>10

\* What a loss of balance costs in value, rounding included, scaled by the unit.
LEMMA ValueLost ==
    ASSUME NEW before \in Nat, NEW left \in Nat, NEW m \in Nat, before <= left + m,
           NEW a \in Asset, Unit[a] \in Nat \ {0}, price[a] \in Nat \ {0}
    PROVE  LET lost == (before * price[a]) \div Unit[a] - (left * price[a]) \div Unit[a]
           IN  /\ ValueRounding(a) \in Nat /\ lost \in Int
               /\ lost * Unit[a] <= (m + ValueRounding(a)) * price[a]
               /\ lost * Unit[a] <= before * price[a]
<1> DEFINE p == price[a]
           u == Unit[a]
           v == (before * p) \div u
           w == (left * p) \div u
           lost == v - w
<1>1. u \in Nat \ {0} /\ p \in Nat \ {0}
  OBVIOUS
<1> HIDE DEF p, u
<1>2. before * p \in Nat /\ left * p \in Nat /\ m * p \in Nat
  BY <1>1, MulNat
<1>3. /\ v \in Nat /\ w \in Nat /\ v * u <= before * p
      /\ w * u <= left * p /\ left * p < w * u + u
  BY <1>1, <1>2, DivDown
<1>4. lost \in Int /\ lost * u = v * u - w * u /\ v * u \in Nat /\ w * u \in Nat
  BY <1>1, <1>3, MulNat
<1>5. before * p <= left * p + m * p
  <2>1. before * p <= (left + m) * p
    BY <1>1, MulMonotone
  <2> QED BY <1>1, <2>1
<1>6. CASE p % u = 0
  <2> DEFINE q == p \div u
  <2>1. q \in Nat /\ p = q * u
    BY <1>1, <1>6
  <2> HIDE DEF q
  <2>2. w * u = left * p
    <3>1. left * q \in Nat /\ left * p = (left * q) * u
      BY <1>1, <2>1, MulNat
    <3> DEFINE z == left * q
    <3>2. z \in Nat /\ left * p = z * u
      BY <3>1
    <3> HIDE DEF z, w
    <3>3. z * u < (w + 1) * u
      <4>1. (w + 1) * u = w * u + u
        BY <1>1, <1>3
      <4> QED BY <4>1, <1>3, <3>2
    <3>4. z < w + 1
      BY <1>1, <1>3, <3>2, <3>3, Cancel
    <3>5. z * u <= w * u
      BY <1>1, <1>3, <3>2, <3>4, MulMonotone
    <3> QED BY <1>2, <1>3, <1>4, <3>2, <3>5
  <2>3. ValueRounding(a) = 0
    BY <1>6 DEF ValueRounding, p, u
  <2> HIDE DEF v, w, lost
  <2>4. lost * u <= m * p /\ lost * u <= before * p
    BY <1>2, <1>3, <1>4, <1>5, <2>2
  <2> QED BY <1>4, <2>3, <2>4 DEF lost, v, w, p, u
<1>7. CASE p % u # 0
  <2> DEFINE x == DivUp(u, p)
  <2>1. x \in Nat /\ u <= x * p /\ x * p \in Nat
    BY <1>1, DivUpBounds, MulNat
  <2>2. ValueRounding(a) = x
    BY <1>7 DEF ValueRounding, p, u
  <2> HIDE DEF x, v, w, lost
  <2>3. (m + x) * p = m * p + x * p
    BY <1>1, <2>1
  <2>4. lost * u <= (m + x) * p /\ lost * u <= before * p
    BY <1>1, <1>2, <1>3, <1>4, <1>5, <2>1, <2>3
  <2> QED BY <1>4, <2>1, <2>2, <2>4 DEF lost, v, w, p, u
<1> QED BY <1>6, <1>7

\* What bounds the quotient of a division rounding down from below.
LEMMA DivDownAtLeast ==
    ASSUME NEW x \in Nat, NEW y \in Nat \ {0}, NEW c \in Nat, c * y <= x
    PROVE  c <= x \div y
<1> DEFINE q == x \div y
<1>1. q \in Nat /\ x < q * y + y
  BY DivDown
<1> HIDE DEF q
<1>2. (q + 1) * y = q * y + y /\ q * y \in Nat /\ c * y \in Nat
  BY <1>1, MulNat
<1>3. c * y < (q + 1) * y
  BY <1>1, <1>2
<1>4. c < q + 1
  BY <1>1, <1>3, Cancel
<1> QED BY <1>1, <1>4 DEF q

\* A haircut leaves out a millionth of what it leaves.
LEMMA HaircutCovers ==
    ASSUME NEW x \in Nat
    PROVE  /\ _haircut(x) \in Nat /\ _haircut(x) <= x
           /\ _haircut(x) # 0 => /\ DivUp(_haircut(x), MILLION) \in Nat
                                 /\ _haircut(x) + DivUp(_haircut(x), MILLION) <= x
<1> DEFINE cut == DivUp(x, MILLION)
           h == _haircut(x)
<1>1. MILLION \in Nat \ {0}
  BY RulesAssumption
<1>2. cut \in Nat
  BY <1>1, DivUpBounds
<1>3. h = IF x > cut THEN x - cut ELSE 0
  BY DEF _haircut
<1> HIDE DEF h
<1>4. h \in Nat /\ h <= x
  BY <1>2, <1>3
<1>5. DivUp(h, MILLION) \in Nat /\ DivUp(h, MILLION) <= cut
  BY <1>1, <1>4, DivUpMonotone, DivUpBounds
<1>6. h # 0 => h + DivUp(h, MILLION) <= x
  BY <1>2, <1>3, <1>5
<1> QED BY <1>4, <1>5, <1>6 DEF h

\* An amount within the quotient of the capacity to spare takes no more than that.
LEMMA WithinSpare ==
    ASSUME NEW lost \in Int, NEW unit \in Nat \ {0}, NEW y \in Nat, NEW p \in Nat \ {0},
           NEW w \in Nat \ {0}, NEW spare \in Nat,
           lost * unit <= y * p, y <= (spare * unit) \div (p * w)
    PROVE  lost * w <= spare
<1>1. CASE lost < 0
  <2>1. (-lost) \in Nat /\ (-lost) * w \in Nat
    BY <1>1, MulNat
  <2>2. lost * w = -((-lost) * w)
    OBVIOUS
  <2> QED BY <2>1, <2>2
<1>2. CASE lost >= 0
  <2> DEFINE q == (spare * unit) \div (p * w)
  <2>1. lost \in Nat /\ lost * unit \in Nat /\ y * p \in Nat /\ spare * unit \in Nat
    BY <1>2, MulNat
  <2>2. p * w \in Nat \ {0}
    BY MulNat
  <2>3. q \in Nat /\ q * (p * w) <= spare * unit
    BY <2>1, <2>2, DivDown
  <2> HIDE DEF q
  <2>4. y * (p * w) <= q * (p * w)
    BY <2>2, <2>3, MulMonotone DEF q
  <2>5. (lost * unit) * w <= (y * p) * w
    BY <2>1, MulMonotone
  <2>6. (y * p) * w = y * (p * w) /\ (lost * unit) * w = (lost * w) * unit
    BY <2>1
  <2>7. lost * w \in Nat /\ (lost * w) * unit \in Nat /\ y * (p * w) \in Nat /\ q * (p * w) \in Nat
    BY <2>1, <2>2, <2>3, MulNat
  <2>8. (lost * w) * unit <= spare * unit
    BY <2>1, <2>3, <2>4, <2>5, <2>6, <2>7
  <2> QED BY <2>7, <2>8, CancelAtMost
<1> QED BY <1>1, <1>2

\* A balance taken from an account leaves its debt within its capacity when the capacity
\* to spare covers the weighted value taken.
LEMMA CapacityLeft ==
    ASSUME NEW acct \in AccountType, NEW acct2 \in AccountType, NEW res, NEW res2, NEW prices, NEW t,
           Valuable(res, prices, t), Valuable(res2, prices, t), NEW a \in CollateralAssets(acct),
           CollateralAssets(acct2) \in {CollateralAssets(acct), CollateralAssets(acct) \ {a}},
           \A b \in CollateralAssets(acct) \ {a} :
               CollateralValue(acct2, res2, prices, t, b) = CollateralValue(acct, res, prices, t, b),
           \A b \in CollateralAssets(acct) : res2[b].config.ltv = res[b].config.ltv,
           TotalDebtValue(acct2, res2, prices, t) = TotalDebtValue(acct, res, prices, t),
           TotalDebtValue(acct, res, prices, t) <= BorrowCapacityValue(acct, res, prices, t),
           NEW left \in Nat,
           left = IF a \in CollateralAssets(acct2) THEN CollateralValue(acct2, res2, prices, t, a) ELSE 0,
           (CollateralValue(acct, res, prices, t, a) - left) * res[a].config.ltv
             <= (BorrowCapacityValue(acct, res, prices, t) - TotalDebtValue(acct, res, prices, t))
                  * PERCENTAGE_FACTOR
    PROVE  TotalDebtValue(acct2, res2, prices, t) <= BorrowCapacityValue(acct2, res2, prices, t)
<1> DEFINE C == CollateralAssets(acct)
           C2 == CollateralAssets(acct2)
           w == [b \in Asset |-> res[b].config.ltv]
           w2 == [b \in Asset |-> res2[b].config.ltv]
           f == [b \in C |-> CollateralValue(acct, res, prices, t, b) * w[b]]
           g == [b \in C2 |-> CollateralValue(acct2, res2, prices, t, b) * w2[b]]
           owed == TotalDebtValue(acct, res, prices, t)
           capacity == BorrowCapacityValue(acct, res, prices, t)
           value == CollateralValue(acct, res, prices, t, a)
           weight == res[a].config.ltv
           rest == C \ {a}
<1>1. C \subseteq Asset /\ C2 \subseteq Asset /\ IsFiniteSet(C) /\ IsFiniteSet(C2)
  BY ExposureFinite
<1>2. /\ \A b \in Asset : w[b] \in Nat /\ w2[b] \in Nat
      /\ owed \in Nat
      /\ a \in Asset /\ value \in Nat /\ weight \in Nat
  <2>1. \A b \in Asset : w[b] \in Nat /\ w2[b] \in Nat
    BY DEF Valuable
  <2>2. a \in Asset
    BY <1>1
  <2> HIDE DEF w, w2
  <2>3. owed \in Nat
    BY <2>1, TotalsType
  <2> QED BY <2>1, <2>2, <2>3, ValueTypes DEF w
<1>3. \A b \in C : f[b] \in Nat
  BY <1>1, <1>2, ValueTypes, MulNat
<1>4. \A b \in C2 : g[b] \in Nat
  BY <1>1, <1>2, ValueTypes, MulNat
<1>5. f[a] = value * weight
  BY <1>1
<1>6. a \in C2 => g[a] = left * weight
  BY <1>1
<1>7. \A b \in rest : b \in C2 => g[b] = f[b]
  BY <1>1
<1>8. /\ capacity = SumOver(f, C) \div PERCENTAGE_FACTOR
      /\ BorrowCapacityValue(acct2, res2, prices, t) = SumOver(g, C2) \div PERCENTAGE_FACTOR
  BY Zenon DEF BorrowCapacityValue, WeightedCollateral
<1> HIDE DEF C, C2, f, g, w, w2, owed, capacity, value, weight
<1>9. a \in C /\ (C2 = C \/ C2 = rest)
  BY DEF C, C2
<1>10. rest \subseteq C2 /\ IsFiniteSet(rest)
  BY <1>1, <1>9, FS_Subset
<1>11. SumOver(g, rest) = SumOver(f, rest)
  BY <1>3, <1>7, <1>10, SumEqual
<1>12. SumOver(f, C) = value * weight + SumOver(f, rest) /\ SumOver(f, rest) \in Nat
  BY <1>1, <1>3, <1>5, <1>9, <1>10, SumElement, SumType
<1>13. SumOver(g, C2) = left * weight + SumOver(f, rest)
  <2>1. CASE C2 = C
    <3>1. SumOver(g, C2) = g[a] + SumOver(g, C2 \ {a})
      BY <1>1, <1>4, <1>9, <2>1, SumElement
    <3> QED BY <1>6, <1>9, <1>11, <2>1, <3>1
  <2>2. CASE C2 = rest
    <3>1. left = 0
      BY <2>2 DEF C2
    <3>2. left * weight = 0
      BY <1>2, <3>1
    <3> QED BY <1>11, <1>12, <2>2, <3>2
  <2> QED BY <1>9, <2>1, <2>2
<1>14. value * weight \in Nat /\ left * weight \in Nat
  BY <1>2, MulNat
<1> DEFINE P == PERCENTAGE_FACTOR
           F == SumOver(f, C)
           G == SumOver(g, C2)
<1>15. P \in Nat \ {0} /\ F \in Nat /\ G \in Nat
  BY <1>12, <1>13, <1>14, ScaleAssumption
<1> HIDE DEF P, F, G
<1>16. capacity \in Nat /\ capacity * P <= F
  BY <1>8, <1>15, DivDown DEF F, P
<1>17. (value - left) * weight = F - G
  <2>1. (value - left) * weight = value * weight - left * weight
    BY <1>2
  <2> QED BY <2>1, <1>12, <1>13, <1>14 DEF F, G
<1>18. (value - left) * weight <= (capacity - owed) * P /\ owed <= capacity
  BY DEF value, weight, capacity, owed, P
<1>19. owed * P <= G
  <2>1. (capacity - owed) * P = capacity * P - owed * P
    BY <1>2, <1>15, <1>16
  <2>2. capacity * P \in Nat /\ owed * P \in Nat
    BY <1>2, <1>15, <1>16, MulNat
  <2> QED BY <2>1, <2>2, <1>15, <1>16, <1>17, <1>18
<1>20. owed <= G \div P
  BY <1>2, <1>15, <1>19, DivDownAtLeast
<1> QED BY <1>8, <1>20 DEF G, P, owed

\* A debt added to an account adds no more to its value than the value of that debt grows by.
LEMMA DebtAdded ==
    ASSUME NEW acct \in AccountType, NEW acct2 \in AccountType, NEW res, NEW res2, NEW prices, NEW t,
           Valuable(res, prices, t), Valuable(res2, prices, t), NEW a \in Asset,
           DebtAssets(acct2) = DebtAssets(acct) \cup {a},
           \A b \in DebtAssets(acct) \ {a} :
               DebtValue(acct2, res2, prices, t, b) = DebtValue(acct, res, prices, t, b),
           a \notin DebtAssets(acct) => DebtValue(acct, res, prices, t, a) = 0,
           NEW more \in Nat,
           DebtValue(acct2, res2, prices, t, a) <= DebtValue(acct, res, prices, t, a) + more
    PROVE  TotalDebtValue(acct2, res2, prices, t) <= TotalDebtValue(acct, res, prices, t) + more
<1> DEFINE D == DebtAssets(acct)
           D2 == DebtAssets(acct2)
           f == [b \in D |-> DebtValue(acct, res, prices, t, b)]
           g == [b \in D2 |-> DebtValue(acct2, res2, prices, t, b)]
           rest == D \ {a}
           x == DebtValue(acct, res, prices, t, a)
           y == DebtValue(acct2, res2, prices, t, a)
<1>1. D \subseteq Asset /\ D2 \subseteq Asset /\ IsFiniteSet(D) /\ IsFiniteSet(D2)
  BY ExposureFinite
<1>2. x \in Nat /\ y \in Nat /\ y <= x + more
  BY ValueTypes
<1>3. (\A b \in D : f[b] \in Nat) /\ (\A b \in D2 : g[b] \in Nat)
  BY <1>1, ValueTypes
<1>4. (\A b \in rest : g[b] = f[b]) /\ (a \in D => f[a] = x) /\ g[a] = y
  OBVIOUS
<1>5. a \in D2 /\ D2 \ {a} = rest /\ (a \notin D => D = rest /\ x = 0)
  OBVIOUS
<1>6. /\ TotalDebtValue(acct, res, prices, t) = SumOver(f, D)
      /\ TotalDebtValue(acct2, res2, prices, t) = SumOver(g, D2)
  BY Zenon DEF TotalDebtValue
<1> HIDE DEF D, D2, f, g, x, y
<1>7. IsFiniteSet(rest)
  BY <1>1, FS_Subset
<1>8. SumOver(g, rest) = SumOver(f, rest) /\ SumOver(f, rest) \in Nat
  BY <1>3, <1>4, <1>7, SumEqual, SumType
<1>9. SumOver(g, D2) = y + SumOver(f, rest)
  <2>1. SumOver(g, D2) = g[a] + SumOver(g, D2 \ {a})
    BY <1>1, <1>3, <1>5, SumElement
  <2> QED BY <2>1, <1>4, <1>5, <1>8
<1>10. SumOver(f, D) = x + SumOver(f, rest)
  <2>1. CASE a \in D
    <3>1. SumOver(f, D) = f[a] + SumOver(f, D \ {a})
      BY <1>1, <1>3, <2>1, SumElement
    <3> QED BY <3>1, <1>4, <2>1
  <2>2. CASE a \notin D
    BY <1>5, <1>8, <2>2
  <2> QED BY <2>1, <2>2
<1> QED BY <1>2, <1>6, <1>8, <1>9, <1>10

-----------------------------------------------------------------------------
(***************************************************************************)
(* What the panel knows, and the calls it submits.                         *)
(***************************************************************************)

\* The text of an amount reads back as the amount.
LEMMA TextExact ==
    ASSUME NEW x \in Nat, NEW unit \in Nat \ {0}
    PROVE  parseAmount(formatUnitsExact(x, unit), unit) = x
  BY DivDown DEF parseAmount, formatUnitsExact

\* A reserve's cash and what a wallet holds are below the amount that stands for all.
LEMMA HoldingsFit ==
    ASSUME PoolInv, TokensConserved, NEW u \in User, NEW a \in Asset
    PROVE  /\ wallet[u][a] \in Nat /\ wallet[u][a] < MaxUint
           /\ reserves[a].cash \in Nat /\ reserves[a].cash < MaxUint /\ reserves[a].cash = tokens[a]
<1> DEFINE f == [v \in User |-> wallet[v][a]]
           initial == SumOver([v \in User |-> InitialWallet[v][a]], User)
<1>1. (\A v \in User : f[v] \in Nat) /\ tokens[a] \in Nat /\ reserves[a].cash = tokens[a]
  BY DEF PoolInv, TypeOK, CashMatchesTokens
<1>2. SumOver(f, User) + tokens[a] = initial
  BY DEF TokensConserved, Circulating
<1>3. initial < MaxUint
  BY PanelAssumption
<1>4. f[u] = wallet[u][a]
  OBVIOUS
<1> HIDE DEF f, initial
<1>5. IsFiniteSet(User) /\ MaxUint \in Nat
  BY PoolAssumption
<1>6. SumOver(f, User) \in Nat /\ f[u] <= SumOver(f, User) /\ f[u] \in Nat
  BY <1>1, <1>5, SumType, SumBound
<1> QED BY <1>1, <1>2, <1>3, <1>4, <1>5, <1>6

\* What the panel shows is what the lens reads.
LEMMA PanelShows ==
    ASSUME NEW u \in User, NEW a \in reservesList
    PROVE  LET panel == Panel(u, a)
               h == accountHealth(u)
           IN  /\ panel.market.config = reserves[a].config /\ panel.market.unit = Unit[a]
               /\ panel.market.price.status = IF price[a] = 0 THEN "UNAVAILABLE" ELSE "OK"
               /\ panel.account.priced = h.ok
               /\ panel.position.walletBalance.raw = wallet[u][a]
               /\ panel.position.supplied.raw = supplyBalanceOf(a, u)
               /\ panel.position.borrowed.raw = debtBalanceOf(a, u)
               /\ panel.position.collateralEnabled = (a \in collateral[u])
               /\ panel.position.maxBorrow.raw = IF h.ok THEN _maxBorrow(a, h) ELSE 0
               /\ panel.position.maxWithdraw.raw = _maxWithdraw(a, u, h)
               /\ DOMAIN panel.positions = reservesList
               /\ \A b \in reservesList : panel.positions[b].borrowed.raw = debtBalanceOf(b, u)
<1> DEFINE panel == Panel(u, a)
           h == accountHealth(u)
<1>1. /\ panel.market = marketDto(a) /\ panel.account = healthDto(u)
      /\ panel.positions = accountPositions(u) /\ panel.position = accountPositions(u)[a]
  BY DEF Panel
<1>2. accountPositions(u) = [b \in reservesList |-> positionDto(u, b, h)]
  BY DEF accountPositions, positionsDto
<1>3. /\ marketDto(a).config = reserves[a].config /\ marketDto(a).unit = Unit[a]
      /\ marketDto(a).price.status = IF price[a] = 0 THEN "UNAVAILABLE" ELSE "OK"
  BY DEF marketDto, getMarket
<1>4. healthDto(u).priced = h.ok
  BY DEF healthDto
<1>5. \A b \in reservesList :
        /\ positionDto(u, b, h).walletBalance.raw = wallet[u][b]
        /\ positionDto(u, b, h).supplied.raw = supplyBalanceOf(b, u)
        /\ positionDto(u, b, h).borrowed.raw = debtBalanceOf(b, u)
        /\ positionDto(u, b, h).collateralEnabled = (b \in collateral[u])
        /\ positionDto(u, b, h).maxBorrow.raw = IF h.ok THEN _maxBorrow(b, h) ELSE 0
        /\ positionDto(u, b, h).maxWithdraw.raw = _maxWithdraw(b, u, h)
  BY DEF positionDto, getUserPosition, amountDto
<1> HIDE DEF panel, h
<1>6. panel.position = positionDto(u, a, h) /\ DOMAIN panel.positions = reservesList
  BY <1>1, <1>2
<1>7. \A b \in reservesList : panel.positions[b].borrowed.raw = debtBalanceOf(b, u)
  BY <1>1, <1>2, <1>5
<1> QED BY <1>1, <1>3, <1>4, <1>5, <1>6, <1>7 DEF panel, h

\* What the absence of a blocker says of the market and the account.
LEMMA Unblocked ==
    ASSUME PoolInv, NEW u \in User, NEW a \in reservesList, NEW mode \in Mode,
           ~blocker(mode, Panel(u, a))
    PROVE  /\ reserves[a].config.active
           /\ mode # "repay" => ~reserves[a].config.paused
           /\ mode \in {"supply", "borrow"} => ~reserves[a].config.frozen
           /\ mode = "borrow" => reserves[a].config.borrowingEnabled /\ accountHealth(u).ok
           /\ mode \in {"borrow", "withdraw"} => price[a] # 0
           /\ mode = "withdraw" /\ a \in collateral[u] /\ borrowing[u] # {} => accountHealth(u).ok
<1> DEFINE panel == Panel(u, a)
           hasDebt == \E b \in DOMAIN panel.positions : panel.positions[b].borrowed.raw # 0
<1>1. borrowing[u] # {} => hasDebt
  <2> SUFFICES ASSUME NEW b \in borrowing[u] PROVE hasDebt
    OBVIOUS
  <2>1. b \in Asset
    BY DEF PoolInv, TypeOK
  <2>2. debt[u][b] # 0
    BY <2>1 DEF PoolInv, BitmapInSync
  <2>3. b \in reservesList
    BY <2>1, <2>2, ExposedIsListed DEF reservesList
  <2>4. debtBalanceOf(b, u) # 0
    BY <2>1, DebtShows
  <2> QED BY <2>3, <2>4, PanelShows
<1>2. /\ panel.market.config = reserves[a].config
      /\ panel.market.price.status = IF price[a] = 0 THEN "UNAVAILABLE" ELSE "OK"
      /\ panel.account.priced = accountHealth(u).ok
      /\ panel.position.collateralEnabled = (a \in collateral[u])
  BY PanelShows
<1>3. ~blocker(mode, panel)
  OBVIOUS
<1> HIDE DEF panel
<1>4. /\ ~(panel.market.price.status \notin {"OK", "OK_PRIMARY_ONLY", "OK_FALLBACK"})
           \/ mode \notin {"borrow", "withdraw"}
      /\ panel.market.config.active
      /\ ~panel.market.config.paused \/ mode = "repay"
      /\ ~panel.market.config.frozen \/ mode \notin {"supply", "borrow"}
      /\ mode = "borrow" => panel.market.config.borrowingEnabled /\ panel.account.priced
      /\ mode = "withdraw" /\ panel.position.collateralEnabled /\ hasDebt => panel.account.priced
  BY <1>3 DEF blocker
<1> HIDE DEF hasDebt
<1>5. mode \in {"borrow", "withdraw"} => price[a] # 0
  <2>1. "UNAVAILABLE" \notin {"OK", "OK_PRIMARY_ONLY", "OK_FALLBACK"}
    OBVIOUS
  <2> QED BY <1>2, <1>4, <2>1
<1> QED BY <1>1, <1>2, <1>4, <1>5

\* What the button submits: an amount typed within the maximum, or within the wallet for
\* a repayment, or the maximum, which is written as MaxUint when it is all.
LEMMA Submitted ==
    ASSUME NEW u \in User, NEW a \in reservesList, NEW mode \in Mode,
           NEW n \in submit(mode, Panel(u, a)), maxRaw(mode, Panel(u, a).position) \in Nat,
           wallet[u][a] \in Nat
    PROVE  LET most == maxRaw(mode, Panel(u, a).position)
           IN  /\ ~blocker(mode, Panel(u, a))
               /\ \/ /\ n \in Nat \ {0}
                     /\ mode # "repay" => n <= most
                     /\ mode = "repay" => n <= wallet[u][a]
                  \/ /\ most # 0
                     /\ n = IF isAll(mode, Panel(u, a).position) THEN MaxUint ELSE most
<1> DEFINE panel == Panel(u, a)
           most == maxRaw(mode, panel.position)
           text == parseAmount(formatUnitsExact(most, panel.market.unit), panel.market.unit)
<1>1. a \in Asset /\ panel.market.unit = Unit[a] /\ panel.position.walletBalance.raw = wallet[u][a]
  BY PanelShows DEF reservesList
<1>2. Unit[a] \in Nat \ {0}
  BY <1>1, AssetAssumption
<1>3. text = most
  <2> HIDE DEF most, panel
  <2>1. most \in Nat
    BY DEF most, panel
  <2> QED BY <1>1, <1>2, <2>1, TextExact
<1>4. n \in submit(mode, panel)
  OBVIOUS
<1> HIDE DEF panel
<1>5. /\ ~blocker(mode, panel)
      /\ \/ /\ n \in Typed /\ n # 0 /\ ~exceedsMax(mode, panel.position, n)
            /\ ~insufficientWallet(mode, panel.position, n)
         \/ text # 0 /\ n = IF isAll(mode, panel.position) THEN MaxUint ELSE text
  <2> HIDE DEF text
  <2>1. submit(mode, panel) =
          IF blocker(mode, panel) THEN {}
          ELSE {x \in Typed : /\ x # 0 /\ ~exceedsMax(mode, panel.position, x)
                              /\ ~insufficientWallet(mode, panel.position, x)}
               \cup (IF text = 0 THEN {} ELSE {IF isAll(mode, panel.position) THEN MaxUint ELSE text})
    BY Zenon DEF submit, text, most
  <2> QED BY <1>4, <2>1
<1>6. CASE n \in Typed /\ n # 0 /\ ~exceedsMax(mode, panel.position, n)
           /\ ~insufficientWallet(mode, panel.position, n)
  <2>1. n \in Nat \ {0}
    BY <1>6, PanelAssumption
  <2>2. ~(mode # "repay" /\ n > most) /\ ~(mode = "repay" /\ n > wallet[u][a])
    BY <1>1, <1>6 DEF exceedsMax, insufficientWallet
  <2> HIDE DEF most
  <2>3. (mode # "repay" => n <= most) /\ (mode = "repay" => n <= wallet[u][a])
    <3>1. most \in Nat
      BY DEF most, panel
    <3> QED BY <2>1, <2>2, <3>1
  <2> QED BY <1>5, <2>1, <2>3 DEF most, panel
<1>7. CASE text # 0 /\ n = IF isAll(mode, panel.position) THEN MaxUint ELSE text
  <2> HIDE DEF text, most
  <2> QED BY <1>3, <1>5, <1>7 DEF most, panel
<1> QED BY <1>5, <1>6, <1>7

\* The indexes the pool accrues a listed reserve to are those the lens reads.
LEMMA ListedIndexes ==
    ASSUME PoolInv, NEW a \in Asset, IsListed(reserves[a])
    PROVE  LET r == Accrue(reserves[a], now)
           IN  /\ NormalizedIncome(reserves[a], now) = r.liquidityIndex
               /\ NormalizedDebt(reserves[a], now) = r.borrowIndex
               /\ r.liquidityIndex \in Nat \ {0} /\ r.borrowIndex \in Nat \ {0}
<1>1. reserves[a] \in ReserveData /\ now \in Nat /\ reserves[a].lastUpdateTimestamp <= now
  BY DEF PoolInv, TypeOK, ReservesSane, SaneReserve
<1> QED BY <1>1, Accrued, ViewsAreAccrue

\* A supply the panel submits is taken.
LEMMA SupplyTaken ==
    ASSUME PoolInv, TokensConserved, NEW u \in User, NEW a \in reservesList,
           NEW n \in submit("supply", Panel(u, a)),
           ~paused, reserves[a].config.supplyCap = 0,
           RayDivDown(n, NormalizedIncome(reserves[a], now)) # 0
    PROVE  Accepts("supply", u, a, n)
<1>1. a \in Asset /\ IsListed(reserves[a]) /\ "supply" \in Mode
  BY DEF reservesList, Mode
<1>2. maxRaw("supply", Panel(u, a).position) = wallet[u][a] /\ wallet[u][a] \in Nat
  BY <1>1, PanelShows, HoldingsFit DEF maxRaw
<1>3. ~isAll("supply", Panel(u, a).position)
  BY DEF isAll
<1>4. ~blocker("supply", Panel(u, a)) /\ n <= wallet[u][a]
  BY <1>1, <1>2, <1>3, Submitted
<1>5. ValidateSupply(reserves[a].config)
  BY <1>1, <1>4, Unblocked DEF ValidateSupply, Operational
<1>6. RayDivDown(n, Accrue(reserves[a], now).liquidityIndex) # 0
  BY <1>1, ListedIndexes
<1>7. AcceptsSupply(u, a, n)
  BY <1>4, <1>5, <1>6 DEF AcceptsSupply
<1> QED BY <1>7 DEF Accepts

\* So is a repayment, whether typed, all of the wallet or all of the debt.
LEMMA RepayTaken ==
    ASSUME PoolInv, TokensConserved, NEW u \in User, NEW a \in reservesList,
           NEW n \in submit("repay", Panel(u, a)), debt[u][a] # 0, ~TooSmall(u, a, n)
    PROVE  Accepts("repay", u, a, n)
<1> DEFINE r == Accrue(reserves[a], now)
           scaledDebt == debt[u][a]
           owed == RayMulUp(scaledDebt, r.borrowIndex)
           most == maxRaw("repay", Panel(u, a).position)
           payback == IF n >= owed THEN owed ELSE n
           burn == IF n >= owed THEN scaledDebt ELSE RayDivDown(n, r.borrowIndex)
<1>1. a \in Asset /\ IsListed(reserves[a]) /\ "repay" \in Mode
  BY DEF reservesList, Mode
<1>2. NormalizedDebt(reserves[a], now) = r.borrowIndex /\ debtBalanceOf(a, u) = owed
  BY <1>1, ListedIndexes DEF debtBalanceOf
<1>3. /\ owed \in Nat /\ MaxUint \in Nat
      /\ wallet[u][a] \in Nat /\ wallet[u][a] < MaxUint
  BY <1>1, <1>2, DebtShows, HoldingsFit, PoolAssumption
<1>4. most = Least(owed, wallet[u][a]) /\ (isAll("repay", Panel(u, a).position) <=> most = owed)
  BY <1>1, <1>2, PanelShows DEF maxRaw, isAll
<1>5. most \in Nat /\ most <= owed /\ most <= wallet[u][a]
  <2> HIDE DEF owed, most
  <2> QED BY <1>3, <1>4 DEF Least
<1>6. /\ ~blocker("repay", Panel(u, a))
      /\ \/ n \in Nat \ {0} /\ n <= wallet[u][a]
         \/ most # 0 /\ n = IF isAll("repay", Panel(u, a).position) THEN MaxUint ELSE most
  BY <1>1, <1>3, <1>5, Submitted
<1>7. ~(n # owed /\ RayDivDown(n, r.borrowIndex) = 0)
  BY <1>2 DEF TooSmall
<1>8. n \in Nat /\ payback <= wallet[u][a]
  <2> HIDE DEF owed, most
  <2> QED BY <1>3, <1>4, <1>5, <1>6
<1>9. burn # 0
  <2> HIDE DEF owed
  <2>1. n # owed \/ n >= owed
    BY <1>3, <1>8
  <2> QED BY <1>7, <2>1
<1>10. ValidateRepay(reserves[a].config)
  BY <1>1, <1>6, Unblocked DEF ValidateRepay
<1> HIDE DEF r
<1>11. AcceptsRepay(u, a, n, u)
  BY <1>8, <1>9, <1>10, Zenon DEF AcceptsRepay, r
<1> QED BY <1>11 DEF Accepts

\* A reserve accrued and changed in its balances is valued as it is stored.
LEMMA ChangedViews ==
    ASSUME PoolInv, NEW a \in Asset, IsListed(reserves[a]), NEW q,
           LET r == Accrue(reserves[a], now)
           IN  /\ q.config = r.config /\ q.lastUpdateTimestamp = r.lastUpdateTimestamp
               /\ q.liquidityIndex = r.liquidityIndex /\ q.borrowIndex = r.borrowIndex
    PROVE  LET res == [reserves EXCEPT ![a] = q]
           IN  /\ Valuable(reserves, price, now) /\ Valuable(res, price, now)
               /\ \A b \in Asset : /\ NormalizedIncome(res[b], now) = NormalizedIncome(reserves[b], now)
                                   /\ NormalizedDebt(res[b], now) = NormalizedDebt(reserves[b], now)
                                   /\ res[b].config = reserves[b].config
<1> DEFINE res == [reserves EXCEPT ![a] = q]
<1>1. /\ reserves \in [Asset -> ReserveData] /\ price \in [Asset -> Nat] /\ now \in Nat
      /\ \A b \in Asset : reserves[b].lastUpdateTimestamp <= now
  BY DEF PoolInv, TypeOK, ReservesSane, SaneReserve
<1>2. Valuable(reserves, price, now)
  BY <1>1, PoolValuable
<1>3. \A b \in Asset : res[b] = IF b = a THEN q ELSE reserves[b]
  BY <1>1
<1>4. /\ q.config = reserves[a].config /\ q.lastUpdateTimestamp = now
      /\ q.liquidityIndex = NormalizedIncome(reserves[a], now)
      /\ q.borrowIndex = NormalizedDebt(reserves[a], now)
  BY Accrued, ListedIndexes
<1>5. /\ NormalizedIncome(q, now) = NormalizedIncome(reserves[a], now)
      /\ NormalizedDebt(q, now) = NormalizedDebt(reserves[a], now)
  BY <1>4 DEF NormalizedIncome, NormalizedDebt
<1> HIDE DEF res
<1>6. \A b \in Asset : /\ NormalizedIncome(res[b], now) = NormalizedIncome(reserves[b], now)
                       /\ NormalizedDebt(res[b], now) = NormalizedDebt(reserves[b], now)
                       /\ res[b].config = reserves[b].config
  BY <1>3, <1>4, <1>5
<1>7. Valuable(res, price, now)
  BY <1>2, <1>6 DEF Valuable
<1> QED BY <1>2, <1>6, <1>7 DEF res

\* What the lens reads of an account that can be priced.
LEMMA HealthRead ==
    ASSUME PoolInv, NEW u \in User, accountHealth(u).ok
    PROVE  LET h == accountHealth(u)
               acct == AccountOf(u)
           IN  /\ Priced(u)
               /\ h.totalDebtValue = TotalDebtValue(acct, reserves, price, now)
               /\ h.borrowCapacityValue = BorrowCapacityValue(acct, reserves, price, now)
               /\ h.totalDebtValue \in Nat /\ h.borrowCapacityValue \in Nat
<1> DEFINE h == accountHealth(u)
           acct == AccountOf(u)
           w == [a \in Asset |-> reserves[a].config.ltv]
<1>1. Priced(u) /\ h.totalDebtValue = TotalDebtValue(acct, reserves, price, now)
      /\ h.borrowCapacityValue = BorrowCapacityValue(acct, reserves, price, now)
  BY DEF accountHealth
<1>2. acct \in AccountType
  BY DEF PoolInv, TypeOK, AccountOf, Account, AccountType
<1>3. Valuable(reserves, price, now)
  <2>1. /\ reserves \in [Asset -> ReserveData] /\ price \in [Asset -> Nat] /\ now \in Nat
        /\ \A a \in Asset : reserves[a].lastUpdateTimestamp <= now
    BY DEF PoolInv, TypeOK, ReservesSane, SaneReserve
  <2> QED BY <2>1, PoolValuable
<1>4. \A a \in Asset : w[a] \in Nat
  BY <1>3 DEF Valuable
<1> HIDE DEF acct, w
<1>5. TotalDebtValue(acct, reserves, price, now) \in Nat
      /\ WeightedCollateral(acct, reserves, price, now, w) \in Nat
  BY <1>2, <1>3, <1>4, TotalsType
<1> QED BY <1>1, <1>5, Zenon DEF BorrowCapacityValue, acct, w

\* What the largest borrow is bounded by, its haircut included.
LEMMA BorrowMaximum ==
    ASSUME PoolInv, NEW u \in User, NEW a \in reservesList
    PROVE  LET h == accountHealth(u)
               most == IF h.ok THEN _maxBorrow(a, h) ELSE 0
               excess == h.borrowCapacityValue - h.totalDebtValue
               bound == most + DivUp(most, MILLION)
               borrowed == TotalBorrowed(reserves[a], now)
               cap == reserves[a].config.borrowCap * Unit[a]
           IN  /\ most \in Nat
               /\ most # 0 => /\ ValidateBorrow(reserves[a].config) /\ price[a] # 0
                              /\ excess \in Nat /\ DivUp(most, MILLION) \in Nat
                              /\ bound <= (excess * Unit[a]) \div price[a]
                              /\ bound <= reserves[a].cash
                              /\ reserves[a].config.borrowCap # 0 => borrowed + bound <= cap
<1> DEFINE h == accountHealth(u)
           config == reserves[a].config
           most == IF h.ok THEN _maxBorrow(a, h) ELSE 0
           excess == h.borrowCapacityValue - h.totalDebtValue
           borrowed == TotalBorrowed(reserves[a], now)
           cap == config.borrowCap * Unit[a]
           byCapacity == (excess * Unit[a]) \div price[a]
           byCap == IF config.borrowCap = 0 THEN byCapacity
                    ELSE IF borrowed >= cap THEN 0 ELSE cap - borrowed
           x == Least(Least(byCapacity, reserves[a].cash), byCap)
           refused == \/ ~ValidateBorrow(config) \/ h.borrowCapacityValue <= h.totalDebtValue
                      \/ price[a] = 0
<1>1. a \in Asset /\ IsListed(reserves[a])
  BY DEF reservesList
<1>2. most = IF ~h.ok \/ refused THEN 0 ELSE _haircut(x)
  BY DEF _maxBorrow
<1>3. /\ reserves[a].cash \in Nat /\ price[a] \in Nat /\ Unit[a] \in Nat \ {0}
      /\ config.borrowCap \in Nat
  BY <1>1, AssetAssumption DEF PoolInv, TypeOK, ReserveData, ReserveConfig
<1>4. cap \in Nat /\ borrowed \in Nat
  <2>1. NormalizedDebt(reserves[a], now) \in Nat /\ reserves[a].totalScaledDebt \in Nat
    BY <1>1, ListedIndexes DEF PoolInv, TypeOK, ReserveData
  <2> QED BY <1>3, <2>1, MulNat, RayType DEF TotalBorrowed
<1>5. CASE ~h.ok \/ refused
  <2>1. most = 0
    BY <1>2, <1>5
  <2> QED BY <2>1
<1>6. CASE h.ok /\ ~refused
  <2>1. h.totalDebtValue \in Nat /\ h.borrowCapacityValue \in Nat
    BY <1>6, HealthRead
  <2>2. excess \in Nat /\ price[a] \in Nat \ {0}
    <3>1. ~(h.borrowCapacityValue <= h.totalDebtValue) /\ price[a] # 0
      BY <1>6
    <3> HIDE DEF h
    <3> QED BY <1>3, <2>1, <3>1
  <2>3. byCapacity \in Nat
    <3> HIDE DEF excess
    <3> QED BY <1>3, <2>2, MulNat, DivDown
  <2>4. ValidateBorrow(config) /\ most = _haircut(x)
    BY <1>2, <1>6
  <2> HIDE DEF byCapacity, cap, borrowed, most, h, config
  <2>5. byCap \in Nat /\ (config.borrowCap # 0 /\ byCap # 0 => borrowed + byCap <= cap)
    BY <1>4, <2>3
  <2> HIDE DEF byCap
  <2>6. x \in Nat /\ x <= byCapacity /\ x <= reserves[a].cash /\ x <= byCap
    BY <1>3, <2>3, <2>5 DEF Least
  <2> HIDE DEF x
  <2>7. /\ most \in Nat
        /\ most # 0 => DivUp(most, MILLION) \in Nat /\ most + DivUp(most, MILLION) <= x
    BY <2>4, <2>6, HaircutCovers
  <2> DEFINE bound == most + DivUp(most, MILLION)
  <2>8. ASSUME most # 0
        PROVE  /\ DivUp(most, MILLION) \in Nat /\ bound <= byCapacity /\ bound <= reserves[a].cash
               /\ config.borrowCap # 0 => borrowed + bound <= cap
    <3>1. bound \in Nat \ {0} /\ bound <= x /\ DivUp(most, MILLION) \in Nat
      BY <2>7, <2>8
    <3> HIDE DEF bound
    <3> QED BY <1>3, <1>4, <2>3, <2>5, <2>6, <3>1
  <2> QED BY <2>2, <2>4, <2>7, <2>8 DEF byCapacity, cap, borrowed, most, h, config
<1> QED BY <1>5, <1>6

\* An amount that is within the spare capacity with its rounding passes the check of a borrow.
LEMMA BorrowCovered ==
    ASSUME PoolInv, NEW u \in User, NEW a \in reservesList, NEW n \in Nat \ {0},
           accountHealth(u).ok, price[a] # 0, NEW excess \in Nat,
           excess = accountHealth(u).borrowCapacityValue - accountHealth(u).totalDebtValue,
           n + Rounding(NormalizedDebt(reserves[a], now)) <= (excess * Unit[a]) \div price[a]
    PROVE  LET r == Accrue(reserves[a], now)
               scaled == RayDivUp(n, r.borrowIndex)
               newReserve == [r EXCEPT !.totalScaledDebt = r.totalScaledDebt + scaled, !.cash = @ - n]
               newDebt == [debt[u] EXCEPT ![a] = @ + scaled]
           IN  WithinBorrowCapacity(Account(supply[u], newDebt, collateral[u], borrowing[u] \cup {a}),
                                    [reserves EXCEPT ![a] = newReserve], price, now)
<1> DEFINE r == Accrue(reserves[a], now)
           index == r.borrowIndex
           scaled == RayDivUp(n, index)
           newReserve == [r EXCEPT !.totalScaledDebt = r.totalScaledDebt + scaled, !.cash = @ - n]
           newDebt == [debt[u] EXCEPT ![a] = @ + scaled]
           acct == AccountOf(u)
           acct2 == Account(supply[u], newDebt, collateral[u], borrowing[u] \cup {a})
           res == [reserves EXCEPT ![a] = newReserve]
           p == price[a]
           unit == Unit[a]
           before == RayMulUp(debt[u][a], index)
           after == RayMulUp(debt[u][a] + scaled, index)
           m == n + Rounding(index)
           h == accountHealth(u)
<1>1. a \in Asset /\ IsListed(reserves[a])
  BY DEF reservesList
<1>2. index \in Nat \ {0} /\ index = NormalizedDebt(reserves[a], now)
  BY <1>1, ListedIndexes
<1>3. /\ debt[u] \in [Asset -> Nat] /\ supply[u] \in [Asset -> Nat]
      /\ collateral[u] \subseteq Asset /\ borrowing[u] \subseteq Asset
      /\ p \in Nat \ {0} /\ unit \in Nat \ {0}
  BY <1>1, AssetAssumption DEF PoolInv, TypeOK
<1>4. scaled \in Nat \ {0}
  <2> HIDE DEF index
  <2>1. RayDivUp(n, index) \in Nat \ {0}
    BY <1>2, RayDivUpPositive
  <2> QED BY <2>1
<1>5. /\ Valuable(reserves, price, now) /\ Valuable(res, price, now)
      /\ \A b \in Asset : /\ NormalizedIncome(res[b], now) = NormalizedIncome(reserves[b], now)
                          /\ NormalizedDebt(res[b], now) = NormalizedDebt(reserves[b], now)
                          /\ res[b].config = reserves[b].config
  <2>1. r \in ReserveData
    BY <1>1, Accrued
  <2> HIDE DEF r, scaled
  <2>2. /\ newReserve.config = r.config /\ newReserve.lastUpdateTimestamp = r.lastUpdateTimestamp
        /\ newReserve.liquidityIndex = r.liquidityIndex /\ newReserve.borrowIndex = r.borrowIndex
    BY <2>1 DEF ReserveData
  <2> HIDE DEF newReserve
  <2> QED BY <1>1, <2>2, ChangedViews DEF r
<1>6. /\ acct \in AccountType /\ acct2 \in AccountType
      /\ acct.supply = supply[u] /\ acct2.supply = supply[u]
      /\ acct.collateral = collateral[u] /\ acct2.collateral = collateral[u]
      /\ acct.debt = debt[u] /\ acct2.debt = newDebt
      /\ acct.borrowing = borrowing[u] /\ acct2.borrowing = borrowing[u] \cup {a}
  <2>1. newDebt \in [Asset -> Nat]
    BY <1>1, <1>3, <1>4
  <2> HIDE DEF newDebt
  <2> QED BY <1>1, <1>3, <2>1 DEF AccountOf, Account, AccountType
<1>7. /\ newDebt[a] = debt[u][a] + scaled /\ newDebt[a] # 0
      /\ \A b \in Asset \ {a} : newDebt[b] = debt[u][b]
  <2> HIDE DEF scaled
  <2> QED BY <1>1, <1>3, <1>4
<1>8. PricesUsable(acct, price) /\ h.totalDebtValue = TotalDebtValue(acct, reserves, price, now)
      /\ h.borrowCapacityValue = BorrowCapacityValue(acct, reserves, price, now)
      /\ h.totalDebtValue \in Nat /\ h.borrowCapacityValue \in Nat
  BY HealthRead DEF Priced
<1>9. a \notin borrowing[u] => debt[u][a] = 0
  BY <1>1 DEF PoolInv, BitmapInSync
<1> HIDE DEF acct, acct2, res, newDebt, newReserve, r
<1>10. /\ CollateralAssets(acct2) = CollateralAssets(acct)
       /\ DebtAssets(acct2) = DebtAssets(acct) \cup {a}
       /\ a \notin DebtAssets(acct) => debt[u][a] = 0
  <2>1. CollateralAssets(acct2) = CollateralAssets(acct)
    BY <1>6 DEF CollateralAssets
  <2>2. a \notin DebtAssets(acct) => debt[u][a] = 0
    BY <1>6, <1>9 DEF DebtAssets
  <2>3. DebtAssets(acct2) = DebtAssets(acct) \cup {a}
    BY <1>3, <1>6, <1>7 DEF DebtAssets
  <2> QED BY <2>1, <2>2, <2>3
<1>11. PricesUsable(acct2, price)
  BY <1>8, <1>10 DEF PricesUsable
<1>12. BorrowCapacityValue(acct2, res, price, now) = BorrowCapacityValue(acct, reserves, price, now)
  <2> DEFINE C == CollateralAssets(acct)
             w == [b \in Asset |-> reserves[b].config.ltv]
             w2 == [b \in Asset |-> res[b].config.ltv]
             f == [b \in C |-> CollateralValue(acct, reserves, price, now, b) * w[b]]
             g == [b \in C |-> CollateralValue(acct2, res, price, now, b) * w2[b]]
  <2>1. C \subseteq Asset
    BY <1>6, ExposureFinite
  <2>2. w2 = w
    BY <1>5
  <2>3. \A b \in C : CollateralValue(acct2, res, price, now, b)
                       = CollateralValue(acct, reserves, price, now, b)
    BY <1>5, <1>6, <2>1 DEF CollateralValue
  <2> HIDE DEF C, w, w2
  <2>4. f = g
    BY <2>2, <2>3
  <2>5. /\ BorrowCapacityValue(acct, reserves, price, now) = SumOver(f, C) \div PERCENTAGE_FACTOR
        /\ BorrowCapacityValue(acct2, res, price, now) = SumOver(g, C) \div PERCENTAGE_FACTOR
    BY <1>10, Zenon DEF BorrowCapacityValue, WeightedCollateral, C, w, w2
  <2> HIDE DEF f, g
  <2> QED BY <2>4, <2>5
<1>13. \A b \in DebtAssets(acct) \ {a} :
         DebtValue(acct2, res, price, now, b) = DebtValue(acct, reserves, price, now, b)
  <2>1. DebtAssets(acct) \subseteq Asset
    BY <1>6, ExposureFinite
  <2> QED BY <1>5, <1>6, <1>7, <2>1 DEF DebtValue
<1>14. /\ DebtValue(acct, reserves, price, now, a) = DivUp(before * p, unit)
       /\ DebtValue(acct2, res, price, now, a) = DivUp(after * p, unit)
  BY <1>1, <1>2, <1>5, <1>6, <1>7 DEF DebtValue
<1>15. /\ before \in Nat /\ after \in Nat /\ m \in Nat /\ after <= before + m
       /\ m <= (excess * unit) \div p
  <2> HIDE DEF index
  <2>1. debt[u][a] \in Nat /\ Rounding(index) \in Nat /\ after \in Nat
        /\ after <= before + n + Rounding(index)
    BY <1>1, <1>2, <1>3, BorrowedBalance
  <2>2. before \in Nat
    BY <1>2, <2>1, RayType
  <2> HIDE DEF before, after
  <2> QED BY <1>2, <2>1, <2>2
<1> HIDE DEF before, after, m, p, unit, index, scaled
<1>16. DivUp(after * p, unit) <= DivUp(before * p, unit) + excess
  <2> DEFINE v == DivUp(before * p, unit)
             q == (excess * unit) \div p
  <2>1. /\ before * p \in Nat /\ after * p \in Nat /\ excess * unit \in Nat /\ m * p \in Nat
        /\ (before + m) * p = before * p + m * p
    BY <1>3, <1>15, MulNat
  <2>2. v \in Nat /\ before * p <= v * unit /\ v * unit \in Nat
    <3>1. v \in Nat /\ before * p <= v * unit
      BY <1>3, <2>1, DivUpBounds
    <3> HIDE DEF v
    <3> QED BY <1>3, <3>1, MulNat
  <2>3. q \in Nat /\ q * p <= excess * unit /\ q * p \in Nat
    <3>1. q \in Nat /\ q * p <= excess * unit
      BY <1>3, <2>1, DivDown
    <3> HIDE DEF q
    <3> QED BY <1>3, <3>1, MulNat
  <2>4. m * p <= q * p
    <3> HIDE DEF q
    <3>1. m <= q
      BY <1>15 DEF q
    <3> QED BY <1>3, <1>15, <2>3, <3>1, MulMonotone
  <2>5. after * p <= (before + m) * p
    BY <1>3, <1>15, MulMonotone
  <2> HIDE DEF v, q
  <2>6. (v + excess) * unit = v * unit + excess * unit
    BY <1>3, <2>2
  <2>7. after * p <= (v + excess) * unit
    BY <2>1, <2>2, <2>3, <2>4, <2>5, <2>6
  <2>8. DivUp(after * p, unit) <= v + excess
    BY <1>3, <2>1, <2>2, <2>7, DivUpAtMost
  <2> QED BY <2>8 DEF v
<1>17. a \notin DebtAssets(acct) => DebtValue(acct, reserves, price, now, a) = 0
  <2> SUFFICES ASSUME a \notin DebtAssets(acct) PROVE DebtValue(acct, reserves, price, now, a) = 0
    OBVIOUS
  <2>1. debt[u][a] = 0
    BY <1>10
  <2>2. 0 * index = 0 /\ index \in Nat
    BY <1>2
  <2>3. before = DivUp(0, RAY)
    BY <2>1, <2>2 DEF before, RayMulUp
  <2>4. 0 <= 0 * RAY /\ RAY \in Nat \ {0}
    BY ScaleAssumption
  <2>5. before <= 0
    BY <2>3, <2>4, DivUpAtMost
  <2>6. before = 0
    BY <1>15, <2>5
  <2>7. before * p = 0 /\ 0 <= 0 * unit /\ unit \in Nat \ {0} /\ 0 \in Nat
    BY <1>3, <2>6
  <2>8. DivUp(0, unit) <= 0
    BY <2>7, DivUpAtMost
  <2>9. DivUp(0, unit) \in Nat
    BY <2>7, DivUpBounds
  <2> QED BY <1>14, <2>7, <2>8, <2>9
<1>18. TotalDebtValue(acct2, res, price, now) <= TotalDebtValue(acct, reserves, price, now) + excess
  BY <1>1, <1>5, <1>6, <1>10, <1>13, <1>14, <1>16, <1>17, DebtAdded
<1>19. TotalDebtValue(acct2, res, price, now) <= BorrowCapacityValue(acct2, res, price, now)
  <2>1. excess = BorrowCapacityValue(acct, reserves, price, now)
                   - TotalDebtValue(acct, reserves, price, now)
    BY <1>8
  <2>2. TotalDebtValue(acct, reserves, price, now) \in Nat
        /\ BorrowCapacityValue(acct, reserves, price, now) \in Nat
    BY <1>8
  <2>3. TotalDebtValue(acct, reserves, price, now) + excess
          = BorrowCapacityValue(acct, reserves, price, now)
    BY <2>1, <2>2
  <2> QED BY <1>12, <1>18, <2>3
<1> QED BY <1>11, <1>19, Zenon DEF WithinBorrowCapacity, acct2, res, newDebt, newReserve, scaled, index, r

\* A borrow the panel submits is taken.
LEMMA BorrowTaken ==
    ASSUME PoolInv, TokensConserved, NEW u \in User, NEW a \in reservesList,
           NEW n \in submit("borrow", Panel(u, a)),
           ~Tight("borrow", u, a, maxRaw("borrow", Panel(u, a).position))
    PROVE  Accepts("borrow", u, a, n)
<1> DEFINE r == Accrue(reserves[a], now)
           index == r.borrowIndex
           scaled == RayDivUp(n, index)
           total == r.totalScaledDebt
           config == reserves[a].config
           h == accountHealth(u)
           most == maxRaw("borrow", Panel(u, a).position)
           excess == h.borrowCapacityValue - h.totalDebtValue
           margin == DivUp(most, MILLION)
           loss == Rounding(index)
           borrowed == TotalBorrowed(reserves[a], now)
           cap == config.borrowCap * Unit[a]
           byCapacity == (excess * Unit[a]) \div price[a]
<1>1. a \in Asset /\ IsListed(reserves[a]) /\ "borrow" \in Mode
  BY DEF reservesList, Mode
<1>2. most = IF h.ok THEN _maxBorrow(a, h) ELSE 0
  BY PanelShows DEF maxRaw
<1>3. most \in Nat
  BY <1>2, BorrowMaximum
<1>4. ~isAll("borrow", Panel(u, a).position)
  BY DEF isAll
<1>5. wallet[u][a] \in Nat /\ reserves[a].cash = tokens[a] /\ reserves[a].cash \in Nat
  BY <1>1, HoldingsFit
<1>6. ~blocker("borrow", Panel(u, a)) /\ n \in Nat \ {0} /\ n <= most
  <2> HIDE DEF most
  <2>1. most \in Nat
    BY <1>3
  <2>2. /\ ~blocker("borrow", Panel(u, a))
        /\ \/ n \in Nat \ {0} /\ n <= most
           \/ most # 0 /\ n = most
    BY <1>1, <1>3, <1>4, <1>5, Submitted DEF most
  <2> QED BY <2>1, <2>2
<1>7. h.ok
  BY <1>1, <1>6, Unblocked
<1>8. index \in Nat \ {0} /\ index = NormalizedDebt(reserves[a], now)
      /\ total = reserves[a].totalScaledDebt /\ total \in Nat /\ r.cash = tokens[a]
  BY <1>1, ListedIndexes, Accrued DEF ReserveData
<1>9. /\ ValidateBorrow(config) /\ price[a] # 0 /\ excess \in Nat /\ margin \in Nat
      /\ most + margin <= byCapacity /\ most + margin <= reserves[a].cash
      /\ config.borrowCap # 0 => borrowed + (most + margin) <= cap
  <2>1. most # 0
    <3> HIDE DEF most
    <3> QED BY <1>3, <1>6
  <2> QED BY <1>2, <2>1, BorrowMaximum
<1>10. ~(margin < loss)
  BY <1>8 DEF Tight
<1> HIDE DEF h, most, margin, byCapacity, loss, borrowed, cap
<1>11. loss \in Nat /\ loss <= margin
  <2>1. loss \in Nat
    BY <1>6, <1>8, BorrowedBalance DEF loss
  <2> QED BY <1>9, <1>10, <2>1
<1>12. n + loss <= most + margin /\ n <= most + margin /\ n + loss \in Nat /\ most + margin \in Nat
  BY <1>3, <1>6, <1>9, <1>11
<1>13. byCapacity \in Nat /\ cap \in Nat
  <2>1. price[a] \in Nat \ {0} /\ Unit[a] \in Nat \ {0} /\ config.borrowCap \in Nat
    BY <1>1, <1>9, AssetAssumption DEF PoolInv, TypeOK, ReserveData, ReserveConfig
  <2> HIDE DEF excess
  <2> QED BY <1>9, <2>1, MulNat, DivDown DEF byCapacity, cap
<1>14. n <= r.cash /\ n <= tokens[a]
  BY <1>5, <1>6, <1>8, <1>9, <1>12
<1>15. config.borrowCap # 0 => RayMulUp(total + scaled, index) <= cap
  <2> HIDE DEF index, total
  <2>1. /\ RayMulUp(total + scaled, index) \in Nat /\ RayMulUp(total, index) \in Nat
        /\ RayMulUp(total + scaled, index) <= RayMulUp(total, index) + n + loss
    BY <1>6, <1>8, BorrowedBalance, RayType DEF loss
  <2>2. borrowed = RayMulUp(total, index)
    BY <1>8 DEF borrowed, TotalBorrowed
  <2> DEFINE x == RayMulUp(total + scaled, index)
             y == RayMulUp(total, index)
  <2> HIDE DEF x, y
  <2>3. x \in Nat /\ y \in Nat /\ x <= y + n + loss /\ borrowed = y
    BY <2>1, <2>2 DEF x, y
  <2>4. config.borrowCap # 0 => x <= cap
    BY <1>6, <1>9, <1>11, <1>12, <1>13, <2>3
  <2> QED BY <2>4 DEF x
<1>16. WithinBorrowCapacity(Account(supply[u], [debt[u] EXCEPT ![a] = @ + scaled], collateral[u],
                                    borrowing[u] \cup {a}),
                            [reserves EXCEPT ![a] = [r EXCEPT !.totalScaledDebt = total + scaled,
                                                              !.cash = @ - n]],
                            price, now)
  <2> HIDE DEF excess
  <2>1. n + loss <= byCapacity
    BY <1>9, <1>12, <1>13
  <2> QED BY <1>6, <1>7, <1>8, <1>9, <2>1, BorrowCovered DEF h, loss, byCapacity, excess
<1> HIDE DEF r, scaled, index, total
<1>17. AcceptsBorrow(u, a, n)
  BY <1>9, <1>14, <1>15, <1>16, Zenon DEF AcceptsBorrow, r, scaled, index, total, cap
<1> QED BY <1>17 DEF Accepts

\* What the largest withdrawal is bounded by.
LEMMA WithdrawMaximum ==
    ASSUME PoolInv, NEW u \in User, NEW a \in reservesList,
           a \in collateral[u] /\ borrowing[u] # {} => accountHealth(u).ok /\ price[a] # 0
    PROVE  LET h == accountHealth(u)
               most == _maxWithdraw(a, u, h)
               config == reserves[a].config
               excess == h.borrowCapacityValue - h.totalDebtValue
               byCapacity == (excess * PERCENTAGE_FACTOR * Unit[a]) \div (price[a] * config.ltv)
               margin == IF most = reserves[a].cash THEN 0 ELSE DivUp(most, MILLION)
           IN  /\ supplyBalanceOf(a, u) \in Nat /\ most \in Nat
               /\ most <= supplyBalanceOf(a, u) /\ most <= reserves[a].cash
               /\ most # 0 => Operational(config)
               /\ most # 0 /\ a \in collateral[u] /\ borrowing[u] # {} =>
                    /\ excess \in Nat
                    /\ config.ltv # 0 =>
                         /\ byCapacity \in Nat /\ most <= byCapacity /\ margin \in Nat
                         /\ most # supplyBalanceOf(a, u) => most + margin <= byCapacity
<1> DEFINE h == accountHealth(u)
           most == _maxWithdraw(a, u, h)
           config == reserves[a].config
           cash == reserves[a].cash
           balance == supplyBalanceOf(a, u)
           amount == Least(balance, cash)
           excess == h.borrowCapacityValue - h.totalDebtValue
           weight == price[a] * config.ltv
           byCapacity == (excess * PERCENTAGE_FACTOR * Unit[a]) \div weight
           margin == IF most = cash THEN 0 ELSE DivUp(most, MILLION)
           secured == a \in collateral[u] /\ borrowing[u] # {}
<1>1. a \in Asset /\ IsListed(reserves[a])
  BY DEF reservesList
<1>2. /\ cash \in Nat /\ price[a] \in Nat /\ Unit[a] \in Nat \ {0} /\ config.ltv \in Nat
      /\ PERCENTAGE_FACTOR \in Nat \ {0}
  BY <1>1, AssetAssumption, ScaleAssumption DEF PoolInv, TypeOK, ReserveData, ReserveConfig, Bps
<1>3. balance \in Nat
  <2>1. NormalizedIncome(reserves[a], now) \in Nat /\ supply[u][a] \in Nat
    BY <1>1, ListedIndexes DEF PoolInv, TypeOK
  <2> QED BY <2>1, RayType DEF supplyBalanceOf
<1>4. amount \in Nat /\ amount <= balance /\ amount <= cash /\ amount \in {balance, cash}
  <2> HIDE DEF balance, cash
  <2> QED BY <1>2, <1>3 DEF Least
<1>5. most = IF ~Operational(config) THEN 0
             ELSE IF ~secured THEN amount
             ELSE IF ~h.ok THEN 0
             ELSE IF config.ltv = 0 THEN IF excess < 0 THEN 0 ELSE amount
             ELSE IF excess <= 0 THEN 0
             ELSE IF byCapacity >= amount THEN amount ELSE _haircut(byCapacity)
  BY Zenon DEF _maxWithdraw
<1>6. secured => h.ok /\ price[a] # 0
  OBVIOUS
<1>7. secured => h.totalDebtValue \in Nat /\ h.borrowCapacityValue \in Nat /\ excess \in Int
  <2>1. secured => h.totalDebtValue \in Nat /\ h.borrowCapacityValue \in Nat
    BY <1>6, HealthRead
  <2> HIDE DEF h, secured
  <2> QED BY <2>1
<1> HIDE DEF most, config, cash, balance, amount, excess, secured, h
<1>8. ASSUME secured, config.ltv # 0, ~(excess <= 0)
      PROVE  /\ excess \in Nat /\ byCapacity \in Nat
             /\ _haircut(byCapacity) \in Nat /\ _haircut(byCapacity) <= byCapacity
             /\ _haircut(byCapacity) # 0 =>
                  /\ DivUp(_haircut(byCapacity), MILLION) \in Nat
                  /\ _haircut(byCapacity) + DivUp(_haircut(byCapacity), MILLION) <= byCapacity
  <2>1. excess \in Nat
    BY <1>7, <1>8
  <2>2. weight \in Nat \ {0}
    <3>1. price[a] \in Nat \ {0} /\ config.ltv \in Nat \ {0}
      BY <1>2, <1>6, <1>8
    <3> QED BY <3>1, MulNat
  <2>3. excess * PERCENTAGE_FACTOR * Unit[a] \in Nat
    <3>1. excess * PERCENTAGE_FACTOR \in Nat
      BY <1>2, <2>1, MulNat
    <3> QED BY <1>2, <3>1, MulNat
  <2> HIDE DEF weight
  <2>4. byCapacity \in Nat
    BY <2>2, <2>3, DivDown
  <2> HIDE DEF byCapacity
  <2> QED BY <2>1, <2>4, HaircutCovers
<1> HIDE DEF byCapacity
<1>9. CASE most = 0
  <2>1. 0 <= balance /\ 0 <= cash
    BY <1>2, <1>3
  <2> QED BY <1>3, <1>9, <2>1 DEF most, balance, cash, h
<1>10. ASSUME most # 0
       PROVE  /\ Operational(config)
              /\ ~secured => most = amount
              /\ secured => h.ok
              /\ secured /\ config.ltv = 0 => ~(excess < 0) /\ most = amount
              /\ secured /\ config.ltv # 0 =>
                   /\ ~(excess <= 0)
                   /\ \/ byCapacity >= amount /\ most = amount
                      \/ ~(byCapacity >= amount) /\ most = _haircut(byCapacity)
  BY <1>5, <1>10
<1>11. CASE most # 0
  <2>1. most \in Nat /\ most <= balance /\ most <= cash
    <3>1. CASE most = amount
      BY <1>4, <3>1
    <3>2. CASE most # amount
      <4>1. /\ secured /\ config.ltv # 0 /\ ~(excess <= 0) /\ ~(byCapacity >= amount)
            /\ most = _haircut(byCapacity)
        BY <1>10, <1>11, <3>2
      <4>2. most \in Nat /\ most <= byCapacity /\ byCapacity \in Nat
        BY <1>8, <4>1
      <4> QED BY <1>2, <1>3, <1>4, <4>1, <4>2
    <3> QED BY <3>1, <3>2
  <2>2. secured => excess \in Nat
    BY <1>7, <1>10, <1>11
  <2>3. ASSUME secured, config.ltv # 0
        PROVE  /\ byCapacity \in Nat /\ most <= byCapacity /\ margin \in Nat
               /\ most # balance => most + margin <= byCapacity
    <3>1. ~(excess <= 0)
      BY <1>10, <1>11, <2>3
    <3>2. DivUp(most, MILLION) \in Nat
      <4>1. MILLION \in Nat \ {0}
        BY RulesAssumption
      <4> QED BY <2>1, <4>1, DivUpBounds
    <3>3. byCapacity \in Nat /\ margin \in Nat
      BY <1>8, <2>3, <3>1, <3>2
    <3>4. CASE byCapacity >= amount /\ most = amount
      <4>1. most # balance => margin = 0
        BY <1>4, <3>4
      <4> HIDE DEF margin
      <4> QED BY <1>4, <3>3, <3>4, <4>1
    <3>5. CASE most = _haircut(byCapacity)
      <4>1. most <= byCapacity /\ most + DivUp(most, MILLION) <= byCapacity
        BY <1>8, <1>11, <2>3, <3>1, <3>5
      <4> QED BY <2>1, <3>2, <3>3, <4>1
    <3> QED BY <1>10, <1>11, <2>3, <3>4, <3>5
  <2>4. Operational(config)
    BY <1>10, <1>11
  <2> QED BY <1>3, <2>1, <2>2, <2>3, <2>4
          DEF most, config, cash, balance, excess, secured, h, byCapacity
<1> QED BY <1>9, <1>11

\* A withdrawal of collateral whose loss of value is within the spare capacity passes the check.
LEMMA WithdrawCovered ==
    ASSUME PoolInv, NEW u \in User, NEW a \in reservesList, a \in collateral[u],
           accountHealth(u).ok, NEW burn \in Nat, burn <= supply[u][a], NEW paid,
           accountHealth(u).borrowCapacityValue - accountHealth(u).totalDebtValue \in Nat,
           LET index == NormalizedIncome(reserves[a], now)
               value(s) == (RayMulDown(s, index) * price[a]) \div Unit[a]
           IN  (value(supply[u][a]) - value(supply[u][a] - burn)) * reserves[a].config.ltv
                 <= (accountHealth(u).borrowCapacityValue - accountHealth(u).totalDebtValue)
                      * PERCENTAGE_FACTOR
    PROVE  LET r == Accrue(reserves[a], now)
               newReserve == [r EXCEPT !.totalScaledSupply = @ - burn, !.cash = @ - paid]
               newSupply == [supply[u] EXCEPT ![a] = @ - burn]
               newBits == ClearBit(collateral[u], a, burn, supply[u][a])
           IN  WithinBorrowCapacity(Account(newSupply, debt[u], newBits, borrowing[u]),
                                    [reserves EXCEPT ![a] = newReserve], price, now)
<1> DEFINE r == Accrue(reserves[a], now)
           index == NormalizedIncome(reserves[a], now)
           newReserve == [r EXCEPT !.totalScaledSupply = @ - burn, !.cash = @ - paid]
           newSupply == [supply[u] EXCEPT ![a] = @ - burn]
           newBits == ClearBit(collateral[u], a, burn, supply[u][a])
           acct == AccountOf(u)
           acct2 == Account(newSupply, debt[u], newBits, borrowing[u])
           res == [reserves EXCEPT ![a] = newReserve]
           h == accountHealth(u)
           excess == h.borrowCapacityValue - h.totalDebtValue
           before == (RayMulDown(supply[u][a], index) * price[a]) \div Unit[a]
           after == (RayMulDown(supply[u][a] - burn, index) * price[a]) \div Unit[a]
           left == IF a \in CollateralAssets(acct2) THEN CollateralValue(acct2, res, price, now, a) ELSE 0
<1>1. a \in Asset /\ IsListed(reserves[a])
  BY DEF reservesList
<1>2. /\ supply[u] \in [Asset -> Nat] /\ debt[u] \in [Asset -> Nat]
      /\ collateral[u] \subseteq Asset /\ borrowing[u] \subseteq Asset
      /\ price[a] \in Nat /\ Unit[a] \in Nat \ {0} /\ index \in Nat
      /\ supply[u][a] # 0
  BY <1>1, AssetAssumption, ListedIndexes DEF PoolInv, TypeOK, BitmapInSync
<1>3. /\ Valuable(reserves, price, now) /\ Valuable(res, price, now)
      /\ \A b \in Asset : /\ NormalizedIncome(res[b], now) = NormalizedIncome(reserves[b], now)
                          /\ NormalizedDebt(res[b], now) = NormalizedDebt(reserves[b], now)
                          /\ res[b].config = reserves[b].config
  <2>1. r \in ReserveData
    BY <1>1, Accrued
  <2> HIDE DEF r
  <2>2. /\ newReserve.config = r.config /\ newReserve.lastUpdateTimestamp = r.lastUpdateTimestamp
        /\ newReserve.liquidityIndex = r.liquidityIndex /\ newReserve.borrowIndex = r.borrowIndex
    BY <2>1 DEF ReserveData
  <2> HIDE DEF newReserve
  <2> QED BY <1>1, <2>2, ChangedViews DEF r
<1>4. /\ newSupply \in [Asset -> Nat] /\ newSupply[a] = supply[u][a] - burn
      /\ \A b \in Asset \ {a} : newSupply[b] = supply[u][b]
  BY <1>1, <1>2
<1>5. newBits = IF burn = supply[u][a] THEN collateral[u] \ {a} ELSE collateral[u]
  BY DEF ClearBit
<1>6. /\ acct \in AccountType /\ acct2 \in AccountType
      /\ acct.supply = supply[u] /\ acct2.supply = newSupply
      /\ acct.collateral = collateral[u] /\ acct2.collateral = newBits
      /\ acct.debt = debt[u] /\ acct2.debt = debt[u]
      /\ acct.borrowing = borrowing[u] /\ acct2.borrowing = borrowing[u]
  <2> HIDE DEF newSupply, newBits
  <2>1. newBits \subseteq Asset
    BY <1>2, <1>5
  <2> QED BY <1>2, <1>4, <2>1 DEF AccountOf, Account, AccountType
<1>7. /\ PricesUsable(acct, price) /\ h.totalDebtValue = TotalDebtValue(acct, reserves, price, now)
      /\ h.borrowCapacityValue = BorrowCapacityValue(acct, reserves, price, now)
      /\ h.totalDebtValue \in Nat /\ h.borrowCapacityValue \in Nat
  BY HealthRead DEF Priced
<1> HIDE DEF acct, acct2, res, newSupply, newBits, newReserve, r, index
<1>8. /\ a \in CollateralAssets(acct)
      /\ CollateralAssets(acct2) = IF burn = supply[u][a] THEN CollateralAssets(acct) \ {a}
                                   ELSE CollateralAssets(acct)
      /\ DebtAssets(acct2) = DebtAssets(acct)
  <2>1. DebtAssets(acct2) = DebtAssets(acct) /\ a \in CollateralAssets(acct)
    BY <1>2, <1>6 DEF DebtAssets, CollateralAssets
  <2>2. CASE burn = supply[u][a]
    <3>1. newBits = collateral[u] \ {a}
      BY <1>5, <2>2
    <3> QED BY <1>2, <1>4, <1>6, <2>1, <2>2, <3>1 DEF CollateralAssets
  <2>3. CASE burn # supply[u][a]
    <3>1. newBits = collateral[u] /\ newSupply[a] # 0
      BY <1>1, <1>2, <1>4, <1>5, <2>3
    <3> QED BY <1>2, <1>4, <1>6, <2>1, <2>3, <3>1 DEF CollateralAssets
  <2> QED BY <2>1, <2>2, <2>3
<1>9. PricesUsable(acct2, price)
  BY <1>7, <1>8 DEF PricesUsable
<1>10. \A b \in CollateralAssets(acct) \ {a} :
         CollateralValue(acct2, res, price, now, b) = CollateralValue(acct, reserves, price, now, b)
  <2>1. CollateralAssets(acct) \subseteq Asset
    BY <1>6, ExposureFinite
  <2> QED BY <1>3, <1>4, <1>6, <2>1 DEF CollateralValue
<1>11. \A b \in CollateralAssets(acct) : res[b].config.ltv = reserves[b].config.ltv
  <2>1. CollateralAssets(acct) \subseteq Asset
    BY <1>6, ExposureFinite
  <2> QED BY <1>3, <2>1
<1>12. TotalDebtValue(acct2, res, price, now) = TotalDebtValue(acct, reserves, price, now)
  <2> DEFINE D == DebtAssets(acct)
             f == [b \in D |-> DebtValue(acct, reserves, price, now, b)]
             g == [b \in D |-> DebtValue(acct2, res, price, now, b)]
  <2>1. D \subseteq Asset
    BY <1>6, ExposureFinite
  <2>2. \A b \in D : DebtValue(acct2, res, price, now, b) = DebtValue(acct, reserves, price, now, b)
    BY <1>3, <1>6, <2>1 DEF DebtValue
  <2> HIDE DEF D
  <2>3. f = g
    BY <2>2
  <2>4. /\ TotalDebtValue(acct, reserves, price, now) = SumOver(f, D)
        /\ TotalDebtValue(acct2, res, price, now) = SumOver(g, D)
    BY <1>8, Zenon DEF TotalDebtValue, D
  <2> HIDE DEF f, g
  <2> QED BY <2>3, <2>4
<1>13. CollateralValue(acct, reserves, price, now, a) = before
  BY <1>6 DEF CollateralValue, index
<1>14. left = after
  <2>1. CASE burn = supply[u][a]
    <3>1. left = 0
      BY <1>8, <2>1
    <3>2. supply[u][a] - burn = 0 /\ 0 * index = 0 /\ 0 * price[a] = 0
      BY <1>1, <1>2, <2>1
    <3>3. 0 \div RAY = 0 /\ 0 \div Unit[a] = 0
      <4>1. \A k \in Nat \ {0} : 0 \div k = 0
        OBVIOUS
      <4> QED BY <1>2, <4>1, ScaleAssumption
    <3>4. RayMulDown(0, index) = 0
      BY <3>2, <3>3 DEF RayMulDown
    <3>5. after = 0
      BY <3>2, <3>3, <3>4
    <3> QED BY <3>1, <3>5
  <2>2. CASE burn # supply[u][a]
    <3>1. left = CollateralValue(acct2, res, price, now, a)
      BY <1>8, <2>2
    <3>2. CollateralValue(acct2, res, price, now, a) = after
      BY <1>1, <1>3, <1>4, <1>6 DEF CollateralValue, index
    <3> QED BY <3>1, <3>2
  <2> QED BY <2>1, <2>2
<1>15. left \in Nat
  BY <1>1, <1>3, <1>6, ValueTypes
<1>16. (before - after) * reserves[a].config.ltv <= excess * PERCENTAGE_FACTOR /\ excess \in Nat
  BY Zenon DEF index
<1>17. /\ (CollateralValue(acct, reserves, price, now, a) - left) * reserves[a].config.ltv
             <= (BorrowCapacityValue(acct, reserves, price, now)
                   - TotalDebtValue(acct, reserves, price, now)) * PERCENTAGE_FACTOR
       /\ TotalDebtValue(acct, reserves, price, now) <= BorrowCapacityValue(acct, reserves, price, now)
  <2> HIDE DEF left, before, after, h
  <2>1. excess = BorrowCapacityValue(acct, reserves, price, now)
                   - TotalDebtValue(acct, reserves, price, now)
    BY <1>7
  <2>2. TotalDebtValue(acct, reserves, price, now) <= BorrowCapacityValue(acct, reserves, price, now)
    <3>1. h.totalDebtValue <= h.borrowCapacityValue
      <4> DEFINE x == h.totalDebtValue
                 y == h.borrowCapacityValue
      <4>1. x \in Nat /\ y \in Nat /\ y - x \in Nat
        BY <1>7, <1>16
      <4> HIDE DEF x, y
      <4>2. x <= y
        BY <4>1
      <4> QED BY <4>2 DEF x, y
    <3> QED BY <1>7, <3>1
  <2> HIDE DEF excess
  <2> QED BY <1>13, <1>14, <1>16, <2>1, <2>2
<1>18. CollateralAssets(acct2) \in {CollateralAssets(acct), CollateralAssets(acct) \ {a}}
  BY <1>8
<1>19. TotalDebtValue(acct2, res, price, now) <= BorrowCapacityValue(acct2, res, price, now)
  BY <1>3, <1>6, <1>8, <1>10, <1>11, <1>12, <1>15, <1>17, <1>18, CapacityLeft
<1> QED BY <1>9, <1>19, Zenon DEF WithinBorrowCapacity, acct2, res, newSupply, newBits, newReserve, r

\* A withdrawal the panel submits, of a part or of all of the balance, is taken.
LEMMA WithdrawTaken ==
    ASSUME PoolInv, TokensConserved, NEW u \in User, NEW a \in reservesList,
           NEW n \in submit("withdraw", Panel(u, a)),
           ~Tight("withdraw", u, a, maxRaw("withdraw", Panel(u, a).position))
    PROVE  Accepts("withdraw", u, a, n)
<1> DEFINE r == Accrue(reserves[a], now)
           index == r.liquidityIndex
           scaledBalance == supply[u][a]
           balance == RayMulDown(scaledBalance, index)
           all == n = MaxUint \/ n = balance
           paid == IF all THEN balance ELSE n
           burn == IF all THEN scaledBalance ELSE RayDivUp(n, index)
           config == reserves[a].config
           h == accountHealth(u)
           most == maxRaw("withdraw", Panel(u, a).position)
           excess == h.borrowCapacityValue - h.totalDebtValue
           spare == excess * PERCENTAGE_FACTOR
           cash == reserves[a].cash
           margin == IF most = cash THEN 0 ELSE DivUp(most, MILLION)
           loss == Rounding(index)
           valueLoss == ValueRounding(a)
           byCapacity == (spare * Unit[a]) \div (price[a] * config.ltv)
           secured == a \in collateral[u] /\ borrowing[u] # {}
<1>1. a \in Asset /\ IsListed(reserves[a]) /\ "withdraw" \in Mode
  BY DEF reservesList, Mode
<1>2. most = _maxWithdraw(a, u, h)
  BY PanelShows DEF maxRaw
<1>3. index \in Nat \ {0} /\ index = NormalizedIncome(reserves[a], now) /\ r.cash = tokens[a]
      /\ balance = supplyBalanceOf(a, u)
  BY <1>1, ListedIndexes, Accrued DEF supplyBalanceOf
<1>4. cash \in Nat /\ cash < MaxUint /\ cash = tokens[a] /\ wallet[u][a] \in Nat /\ MaxUint \in Nat
  BY <1>1, HoldingsFit, PoolAssumption
<1>5. n \in submit("withdraw", Panel(u, a))
  OBVIOUS
<1>6. ~blocker("withdraw", Panel(u, a))
  <2>1. blocker("withdraw", Panel(u, a)) => submit("withdraw", Panel(u, a)) = {}
    BY Zenon DEF submit
  <2> QED BY <1>5, <2>1
<1>7. price[a] # 0 /\ (secured => h.ok)
  BY <1>1, <1>6, Unblocked
<1>8. /\ balance \in Nat /\ most \in Nat /\ most <= balance /\ most <= cash
      /\ most # 0 => Operational(config)
      /\ most # 0 /\ secured =>
           /\ excess \in Nat
           /\ config.ltv # 0 =>
                /\ byCapacity \in Nat /\ most <= byCapacity /\ margin \in Nat
                /\ most # balance => most + margin <= byCapacity
  <2> HIDE DEF balance, h, cash
  <2>1. most = _maxWithdraw(a, u, accountHealth(u)) /\ balance = supplyBalanceOf(a, u)
    BY <1>2, <1>3 DEF h
  <2> HIDE DEF most
  <2> QED BY <1>7, <2>1, WithdrawMaximum DEF h, cash
<1>9. isAll("withdraw", Panel(u, a).position) <=> most = balance
  BY <1>3, PanelShows DEF isAll
<1>10. \/ n \in Nat \ {0} /\ n <= most
       \/ most # 0 /\ n = IF most = balance THEN MaxUint ELSE most
  <2> HIDE DEF most, balance
  <2>1. most = maxRaw("withdraw", Panel(u, a).position)
    BY DEF most
  <2> QED BY <1>1, <1>4, <1>8, <1>9, <2>1, Submitted
<1>11. ~Tight("withdraw", u, a, most)
  OBVIOUS
<1>12. secured /\ config.ltv # 0 /\ most # balance => ~(margin < loss + valueLoss)
  <2> HIDE DEF most, balance
  <2> QED BY <1>3, <1>11 DEF Tight
<1> HIDE DEF most, balance, margin, loss, valueLoss, byCapacity, h, cash, index
<1>13. /\ most # 0 /\ n \in Nat
       /\ all => most = balance
       /\ ~all => n \in Nat \ {0} /\ n <= most
       /\ paid \in Nat \ {0} /\ paid <= most /\ paid <= balance /\ paid <= cash
  BY <1>4, <1>8, <1>10
<1>14. scaledBalance \in Nat
  BY <1>1 DEF PoolInv, TypeOK
<1>15. burn \in Nat /\ burn <= scaledBalance
  <2>1. CASE all
    <3>1. burn = scaledBalance
      BY <2>1
    <3> HIDE DEF scaledBalance, burn
    <3> QED BY <1>14, <3>1
  <2>2. CASE ~all
    <3>1. n \in Nat /\ n <= RayMulDown(scaledBalance, index)
      BY <1>13, <2>2 DEF balance
    <3>2. RayDivUp(n, index) \in Nat /\ RayDivUp(n, index) <= scaledBalance
      BY <1>3, <1>14, <3>1, BurnUpWithinBalance
    <3> QED BY <2>2, <3>2
  <2> QED BY <2>1, <2>2
<1> DEFINE left == RayMulDown(scaledBalance - burn, index)
           m == IF all THEN balance ELSE n + loss
           lost == (balance * price[a]) \div Unit[a] - (left * price[a]) \div Unit[a]
<1>16. left \in Nat /\ loss \in Nat /\ m \in Nat /\ balance <= left + m
  <2>1. left \in Nat
    <3>1. scaledBalance - burn \in Nat
      BY <1>14, <1>15
    <3> QED BY <1>3, <3>1, RayType
  <2>2. loss \in Nat
    <3>1. index \in Nat \ {0} /\ 0 \in Nat
      BY <1>3
    <3> QED BY <3>1, BorrowedBalance DEF loss
  <2>3. CASE all
    <3> HIDE DEF left
    <3>1. m = balance
      BY <2>3
    <3> HIDE DEF m
    <3> QED BY <1>8, <2>1, <2>2, <3>1
  <2>4. CASE ~all
    <3>1. burn = RayDivUp(n, index) /\ m = n + loss
      BY <2>4
    <3>2. balance <= left + n + loss
      <4>1. RayDivUp(n, index) <= scaledBalance
        BY <1>15, <3>1
      <4>2. RayMulDown(scaledBalance, index)
              <= RayMulDown(scaledBalance - RayDivUp(n, index), index) + n + Rounding(index)
        BY <1>3, <1>13, <1>14, <4>1, WithdrawnBalance
      <4> QED BY <3>1, <4>2 DEF balance, loss
    <3> HIDE DEF left, m, burn
    <3> QED BY <1>8, <1>13, <2>1, <2>2, <3>1, <3>2
  <2> QED BY <2>3, <2>4
<1> HIDE DEF left, m
<1>17. Unit[a] \in Nat \ {0} /\ price[a] \in Nat \ {0} /\ config.ltv \in Nat
       /\ PERCENTAGE_FACTOR \in Nat
  BY <1>1, <1>7, AssetAssumption, ScaleAssumption DEF PoolInv, TypeOK, ReserveData, ReserveConfig, Bps
<1>18. /\ valueLoss \in Nat /\ lost \in Int
       /\ lost * Unit[a] <= (m + valueLoss) * price[a] /\ lost * Unit[a] <= balance * price[a]
  BY <1>1, <1>8, <1>16, <1>17, ValueLost DEF valueLoss
<1>19. ASSUME secured
       PROVE  lost * config.ltv <= spare
  <2>1. excess \in Nat /\ spare \in Nat
    <3>1. excess \in Nat
      BY <1>8, <1>13, <1>19
    <3> HIDE DEF excess
    <3> QED BY <1>17, <3>1, MulNat
  <2> HIDE DEF lost, spare
  <2>2. CASE config.ltv = 0
    <3>1. lost * config.ltv = 0
      BY <1>18, <2>2
    <3> QED BY <2>1, <3>1
  <2>3. CASE config.ltv # 0
    <3>1. PICK y \in Nat : lost * Unit[a] <= y * price[a] /\ y <= byCapacity
      <4>1. CASE most = balance
        BY <1>8, <1>13, <1>18, <1>19, <2>3, <4>1
      <4>2. CASE most # balance
        <5>1. ~all /\ m = n + loss /\ n \in Nat /\ n <= most
          BY <1>13, <4>2 DEF m
        <5>2. margin \in Nat /\ byCapacity \in Nat /\ most + margin <= byCapacity
          BY <1>8, <1>13, <1>19, <2>3, <4>2
        <5>3. ~(margin < loss + valueLoss)
          BY <1>12, <1>19, <2>3, <4>2
        <5>4. m + valueLoss \in Nat /\ m + valueLoss <= byCapacity
          BY <1>8, <1>16, <1>18, <5>1, <5>2, <5>3
        <5> QED BY <1>18, <5>4
      <4> QED BY <4>1, <4>2
    <3>2. config.ltv \in Nat \ {0} /\ lost \in Int /\ y <= (spare * Unit[a]) \div (price[a] * config.ltv)
      BY <1>17, <1>18, <2>3, <3>1 DEF byCapacity
    <3> QED BY <1>17, <2>1, <3>1, <3>2, WithinSpare
  <2> QED BY <2>2, <2>3
<1> DEFINE newBits == ClearBit(collateral[u], a, burn, scaledBalance)
           newReserve == [r EXCEPT !.totalScaledSupply = @ - burn, !.cash = @ - paid]
           newSupply == [supply[u] EXCEPT ![a] = @ - burn]
<1>20. ASSUME NeedsCapacityCheck(a \in collateral[u], a \in newBits, borrowing[u])
       PROVE  WithinBorrowCapacity(Account(newSupply, debt[u], newBits, borrowing[u]),
                                   [reserves EXCEPT ![a] = newReserve], price, now)
  <2>1. secured
    BY <1>20 DEF NeedsCapacityCheck
  <2>2. a \in collateral[u] /\ h.ok /\ excess \in Nat
    BY <1>7, <1>8, <1>13, <2>1
  <2>3. lost * config.ltv <= spare
    BY <1>19, <2>1
  <2> HIDE DEF burn, paid
  <2>4. ((RayMulDown(scaledBalance, index) * price[a]) \div Unit[a]
           - (RayMulDown(scaledBalance - burn, index) * price[a]) \div Unit[a]) * config.ltv <= spare
    BY <2>3, Zenon DEF balance, left
  <2> QED BY <1>3, <1>15, <2>2, <2>4, WithdrawCovered DEF h
<1>21. Operational(config)
  BY <1>8, <1>13
<1>22. paid <= balance /\ paid # 0 /\ paid <= r.cash /\ paid <= tokens[a]
  <2> HIDE DEF paid, r
  <2> QED BY <1>3, <1>4, <1>13
<1> HIDE DEF newBits, newReserve, newSupply, burn, paid, r
<1>23. AcceptsWithdraw(u, a, n)
  BY <1>20, <1>21, <1>22, Zenon
     DEF AcceptsWithdraw, newBits, newReserve, newSupply, burn, paid, balance, index, r
<1> QED BY <1>23 DEF Accepts

\* The pool under the panel conserves the tokens.
LEMMA TokensInvariant == Spec => [](PoolInv /\ TokensConserved)
<1>1. Init => PoolInv /\ TokensConserved
  <2> SUFFICES ASSUME Init PROVE PoolInv /\ TokensConserved
    OBVIOUS
  <2>1. PoolInv
    BY InitEstablishes
  <2>2. ASSUME NEW a \in Asset
        PROVE  Circulating(a) = SumOver([u \in User |-> InitialWallet[u][a]], User)
    <3> DEFINE f == [u \in User |-> InitialWallet[u][a]]
    <3>1. Circulating(a) = SumOver(f, User) + 0
      BY <2>2 DEF Init, Circulating, NoBalance
    <3>2. \A u \in User : f[u] \in Nat
      BY PoolAssumption
    <3> HIDE DEF f
    <3>3. SumOver(f, User) \in Nat
      BY <3>2, PoolAssumption, SumType
    <3>4. Circulating(a) = SumOver(f, User)
      BY <3>1, <3>3
    <3> QED BY <3>4 DEF f
  <2> QED BY <2>1, <2>2 DEF TokensConserved
<1>2. PoolInv /\ TokensConserved /\ [Next]_vars => PoolInv' /\ TokensConserved'
  <2> SUFFICES ASSUME PoolInv, TokensConserved, [Next]_vars PROVE PoolInv' /\ TokensConserved'
    OBVIOUS
  <2>1. CASE UNCHANGED vars
    <3>1. PoolInv'
      BY <2>1, StepKeeps
    <3>2. wallet' = wallet /\ tokens' = tokens
      BY <2>1 DEF vars, tokenVars
    <3> QED BY <3>1, <3>2 DEF TokensConserved, Circulating
  <2> QED BY <2>1, StepConserves
<1> QED BY <1>1, <1>2, PTL DEF Spec

\* What the action panel lets a user submit, typed within the maximum or by its MAX button,
\* the pool accepts: within the wallet, the cash and the cap, and with a haircut that covers
\* what rounding takes besides, within the capacity of the account.
THEOREM SubmissionsAreAccepted == Spec => []SubmittableAccepted
<1>1. PoolInv /\ TokensConserved => SubmittableAccepted
  <2> SUFFICES ASSUME PoolInv, TokensConserved, NEW u \in User, NEW a \in reservesList,
                      NEW mode \in Mode, NEW n \in submit(mode, Panel(u, a)),
                      ~(mode = "supply" /\ (paused \/ reserves[a].config.supplyCap # 0)),
                      ~(mode = "repay" /\ debt[u][a] = 0),
                      ~Tight(mode, u, a, maxRaw(mode, Panel(u, a).position)),
                      ~(mode = "supply" /\ RayDivDown(n, NormalizedIncome(reserves[a], now)) = 0),
                      ~(mode = "repay" /\ TooSmall(u, a, n))
               PROVE  Accepts(mode, u, a, n)
    BY Zenon DEF SubmittableAccepted
  <2>1. CASE mode = "supply"
    BY <2>1, SupplyTaken
  <2>2. CASE mode = "withdraw"
    BY <2>2, WithdrawTaken
  <2>3. CASE mode = "borrow"
    BY <2>3, BorrowTaken
  <2>4. CASE mode = "repay"
    BY <2>4, RepayTaken
  <2> QED BY <2>1, <2>2, <2>3, <2>4 DEF Mode
<1> QED BY <1>1, TokensInvariant, PTL
=============================================================================
