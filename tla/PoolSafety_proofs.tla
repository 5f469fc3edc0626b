------------------------- MODULE PoolSafety_proofs -------------------------
(***************************************************************************)
(* Safety properties of LendingPool that rest on its inductive invariant,  *)
(* for every instance.                                                     *)
(*                                                                         *)
(* NoNakedDebt: an account with debt has a reserve flagged as collateral.  *)
(* Withdrawing, disabling collateral and borrowing check the borrowing     *)
(* capacity of what they leave, and the capacity of an account without     *)
(* collateral is 0 while its debt is worth at least one unit, because      *)
(* every step of its valuation rounds up.  A liquidation makes no such     *)
(* check: it writes off every debt when it takes the last collateral bit.  *)
(* Every other step keeps the collateral and adds no borrowing.            *)
(*                                                                         *)
(* RatesCurrent: the stored rates are those of the stored balances,        *)
(* because every step that writes a reserve ends by updating its rates     *)
(* and updating them twice is updating them once.                          *)
(*                                                                         *)
(* LossWaterfall and ConfigNotRetroactive: only a write-off adds to a      *)
(* deficit, and what the treasury cannot absorb of it finds the treasury   *)
(* empty; only the two setters replace a reserve's configuration or rate   *)
(* model, and they accrue it first.                                        *)
(*                                                                         *)
(* EmergencyMatrix: the guards of each call exclude what the matrix        *)
(* forbids, and a liquidation moves supply in its collateral reserve only. *)
(*                                                                         *)
(* RoundingFavoursPool: every conversion rounds against whoever calls, so  *)
(* the tokens a call brings and the debts it books are worth at least the  *)
(* claims it creates; a write-off books a deficit worth the debt it takes  *)
(* off.                                                                    *)
(*                                                                         *)
(* HealthyStaysHealthy: a call prices an account before it accrues or      *)
(* after, through the views or through stored indexes, and then writes the *)
(* reserve with new rates; at the moment of the call all of these agree    *)
(* (Tracked).  A call leaves each account no worse than it was, or without *)
(* debt, or within its borrowing capacity, or it was unhealthy before      *)
(* (Judged).  The capacity implies health because no configuration lends   *)
(* more than its liquidation threshold, which is the conjunct the          *)
(* invariant needs beyond PoolInv (ThresholdsCover).                       *)
(*                                                                         *)
(* SurplusFallsByDust, Solvent: calls lose nothing by rounding, and        *)
(* interest, whose rate is derived from a debt rounded up, credits at most *)
(* InterestDust more than it charges; summed up over the intervals of a    *)
(* reserve this bounds what it may ever lack.                              *)
(*                                                                         *)
(* HoldersKeepTheirOwn: the indexes do not move within a block (Tracked)   *)
(* and the supply index grows with time, so a claim falls only with its    *)
(* scaled balance, which others never lower (Undisturbed).                 *)
(*                                                                         *)
(* ExitsStayOpen: a repayment in full burns the whole debt, and a          *)
(* withdrawal in full the whole balance, which is worth at least one unit  *)
(* because an index is at least a ray (IncomeAbovePar). A market is        *)
(* switched off only while it is empty (InactiveIsEmpty), and neither exit *)
(* asks the oracle.                                                        *)
(***************************************************************************)
EXTENDS LendingPool_proofs, PoolSolvency

\* The invariant of the first argument.
SecuredInv == PoolInv /\ NoNakedDebt

\* A debt in a reserve with a borrow index is worth at least one unit of account.
LEMMA DebtHasValue ==
    ASSUME NEW acct, NEW res, NEW prices, NEW t, NEW a \in Asset,
           acct.debt[a] \in Nat \ {0}, NormalizedDebt(res[a], t) \in Nat \ {0},
           prices[a] \in Nat \ {0}
    PROVE  DebtValue(acct, res, prices, t, a) \in Nat \ {0}
<1> DEFINE q == acct.debt[a]
           index == NormalizedDebt(res[a], t)
           p == prices[a]
           owed == RayMulUp(q, index)
<1>1. q \in Nat \ {0} /\ index \in Nat \ {0} /\ p \in Nat \ {0}
  OBVIOUS
<1> HIDE DEF q, index, p
<1>2. q * index \in Nat \ {0} /\ RAY \in Nat \ {0}
  BY <1>1, MulNat, ScaleAssumption
<1>3. owed \in Nat \ {0}
  <2>1. DivUp(q * index, RAY) \in Nat /\ q * index <= DivUp(q * index, RAY) * RAY
    BY <1>2, DivUpBounds
  <2> QED BY <1>2, <2>1 DEF RayMulUp
<1> HIDE DEF owed
<1>4. owed * p \in Nat \ {0} /\ Unit[a] \in Nat \ {0}
  BY <1>1, <1>3, MulNat, AssetAssumption
<1>5. DivUp(owed * p, Unit[a]) \in Nat \ {0}
  <2> DEFINE m == owed * p
             v == Unit[a]
  <2>1. m \in Nat \ {0} /\ v \in Nat \ {0}
    BY <1>4
  <2> HIDE DEF m, v
  <2>2. DivUp(m, v) \in Nat /\ m <= DivUp(m, v) * v
    BY <2>1, DivUpBounds
  <2>3. DivUp(m, v) \in Nat \ {0}
    BY <2>1, <2>2
  <2> QED BY <2>3 DEF m, v
<1> QED BY <1>5 DEF DebtValue, q, index, p, owed

\* The capacity check refuses an account with debt and no collateral.
LEMMA UnsecuredExceedsCapacity ==
    ASSUME NEW acct, NEW res, NEW prices \in [Asset -> Nat], NEW t,
           acct.collateral = {}, acct.borrowing \subseteq Asset, acct.borrowing # {},
           \A a \in acct.borrowing : /\ acct.debt[a] \in Nat \ {0}
                                     /\ NormalizedDebt(res[a], t) \in Nat \ {0}
    PROVE  ~WithinBorrowCapacity(acct, res, prices, t)
<1>1. SUFFICES ASSUME PricesUsable(acct, prices),
                      TotalDebtValue(acct, res, prices, t) <= BorrowCapacityValue(acct, res, prices, t)
               PROVE  FALSE
  BY DEF WithinBorrowCapacity
<1> DEFINE S == acct.borrowing
           f == [a \in S |-> DebtValue(acct, res, prices, t, a)]
<1>2. DebtAssets(acct) = S /\ CollateralAssets(acct) = {}
  BY DEF DebtAssets, CollateralAssets
<1>3. IsFiniteSet(S)
  BY FS_Subset, AssetAssumption
<1>4. \A a \in S : f[a] \in Nat \ {0}
  <2> SUFFICES ASSUME NEW a \in S PROVE DebtValue(acct, res, prices, t, a) \in Nat \ {0}
    OBVIOUS
  <2>1. prices[a] \in Nat \ {0}
    BY <1>1, <1>2 DEF PricesUsable
  <2> QED BY <2>1, DebtHasValue
<1>5. PICK b \in S : TRUE
  OBVIOUS
<1>6. TotalDebtValue(acct, res, prices, t) = SumOver(f, S)
  BY <1>2 DEF TotalDebtValue
<1> HIDE DEF f
<1>7. SumOver(f, S) \in Nat /\ f[b] <= SumOver(f, S)
  BY <1>3, <1>4, SumType, SumBound
<1>8. BorrowCapacityValue(acct, res, prices, t) = 0
  <2>1. \A g : SumOver(g, {}) = 0
    BY SumEmpty
  <2>2. 0 \div PERCENTAGE_FACTOR = 0
    BY ScaleAssumption
  <2> QED BY <1>2, <2>1, <2>2 DEF BorrowCapacityValue, WeightedCollateral
<1> QED BY <1>1, <1>4, <1>6, <1>7, <1>8

\* What an account owes in the reserves it borrowed from, as the capacity check sees it.
LEMMA BorrowedHasIndex ==
    ASSUME PoolInv, NEW u \in User, NEW a \in borrowing[u]
    PROVE  /\ a \in Asset
           /\ debt[u][a] \in Nat \ {0}
           /\ IsListed(reserves[a])
           /\ NormalizedDebt(reserves[a], now) \in Nat \ {0}
<1>1. a \in Asset
  BY DEF PoolInv, TypeOK
<1>2. debt[u][a] \in Nat \ {0}
  BY <1>1 DEF PoolInv, TypeOK, BitmapInSync
<1>3. IsListed(reserves[a])
  <2>1. debt[u][a] <= reserves[a].totalScaledDebt
    BY <1>1, BalancesWithinTotals DEF PoolInv
  <2>2. reserves[a].totalScaledDebt # 0
    BY <1>2, <2>1
  <2> QED BY <1>1, <2>2 DEF PoolInv, ReservesSane, SaneReserve
<1>4. Accrue(reserves[a], now).borrowIndex \in Nat \ {0}
  BY <1>1, <1>3, Accrued
<1>5. NormalizedDebt(reserves[a], now) = Accrue(reserves[a], now).borrowIndex
  <2>1. reserves[a] \in ReserveData /\ now \in Nat /\ reserves[a].lastUpdateTimestamp <= now
    BY <1>1 DEF PoolInv, TypeOK, ReservesSane, SaneReserve
  <2> QED BY <2>1, ViewsAreAccrue
<1> QED BY <1>1, <1>2, <1>3, <1>4, <1>5

\* The same, when the check sees reserve a as the call is about to leave it.
LEMMA BorrowedHasIndexDuring ==
    ASSUME PoolInv, NEW u \in User, NEW a \in Asset, NEW nr,
           nr.lastUpdateTimestamp = now, nr.borrowIndex \in Nat \ {0},
           NEW b \in borrowing[u] \cup {a}
    PROVE  NormalizedDebt([reserves EXCEPT ![a] = nr][b], now) \in Nat \ {0}
<1>1. reserves \in [Asset -> ReserveData]
  BY DEF PoolInv, TypeOK
<1>2. CASE b = a
  BY <1>1, <1>2 DEF NormalizedDebt
<1>3. CASE b # a
  <2>1. b \in Asset /\ NormalizedDebt(reserves[b], now) \in Nat \ {0}
    BY <1>3, BorrowedHasIndex
  <2>2. [reserves EXCEPT ![a] = nr][b] = reserves[b]
    BY <1>1, <1>3, <2>1
  <2> QED BY <2>1, <2>2
<1> QED BY <1>2, <1>3

\* A step that takes no collateral and adds no borrowing.
LEMMA HarmlessStep ==
    ASSUME NoNakedDebt,
           \A u \in User : /\ collateral[u] \subseteq collateral'[u]
                           /\ borrowing'[u] \subseteq borrowing[u]
    PROVE  NoNakedDebt'
BY DEF NoNakedDebt

\* A withdrawal that empties the last collateral is refused while debt remains.
LEMMA WithdrawSecures ==
    ASSUME PoolInv, NoNakedDebt, NEW sender \in User, NEW a \in Asset, NEW amount \in Amounts,
           NEW to \in Beneficiaries[sender], Withdraw(sender, a, amount, to)
    PROVE  NoNakedDebt'
<1> DEFINE r == Accrue(reserves[a], now)
           scaledBalance == supply[sender][a]
           balance == RayMulDown(scaledBalance, r.liquidityIndex)
           all == amount = MaxUint \/ amount = balance
           paid == IF all THEN balance ELSE amount
           burn == IF all THEN scaledBalance ELSE RayDivUp(amount, r.liquidityIndex)
           nr == [r EXCEPT !.totalScaledSupply = @ - burn, !.cash = @ - paid]
           newSupply == [supply[sender] EXCEPT ![a] = @ - burn]
           bits == ClearBit(collateral[sender], a, burn, scaledBalance)
           acct == Account(newSupply, debt[sender], bits, borrowing[sender])
           res == [reserves EXCEPT ![a] = nr]
<1>1. TypeOK
  BY DEF PoolInv
<1>2. /\ r \in ReserveData
      /\ r.lastUpdateTimestamp = now
      /\ r.borrowIndex \in Nat \ {0}
  <2>1. IsListed(reserves[a])
    BY ActiveIsListed DEF Withdraw, AcceptsWithdraw, Operational
  <2> QED BY <2>1, Accrued
<1>3. /\ NeedsCapacityCheck(a \in collateral[sender], a \in bits, borrowing[sender]) =>
           WithinBorrowCapacity(acct, res, price, now)
      /\ collateral' = [collateral EXCEPT ![sender] = bits]
      /\ borrowing' = borrowing
  BY Zenon DEF Withdraw, AcceptsWithdraw
<1> HIDE DEF r
<1>4. nr.lastUpdateTimestamp = now /\ nr.borrowIndex \in Nat \ {0}
  BY <1>2 DEF ReserveData
<1>5. bits \in {collateral[sender], collateral[sender] \ {a}}
  BY DEF ClearBit
<1> HIDE DEF nr, newSupply, bits
<1>6. borrowing[sender] # {} => bits # {}
  <2> SUFFICES ASSUME borrowing[sender] # {}, bits = {} PROVE FALSE
    OBVIOUS
  <2>1. a \in collateral[sender]
    BY <1>5 DEF NoNakedDebt
  <2>2. WithinBorrowCapacity(acct, res, price, now)
    BY <1>3, <2>1, Zenon DEF NeedsCapacityCheck
  <2>3. /\ acct.collateral = {} /\ acct.borrowing = borrowing[sender]
        /\ acct.debt = debt[sender]
    BY DEF Account
  <2> HIDE DEF acct
  <2>4. \A b \in borrowing[sender] : /\ b \in Asset /\ debt[sender][b] \in Nat \ {0}
                                     /\ NormalizedDebt(res[b], now) \in Nat \ {0}
    BY <1>4, BorrowedHasIndex, BorrowedHasIndexDuring
  <2> HIDE DEF res
  <2>5. price \in [Asset -> Nat]
    BY <1>1 DEF TypeOK
  <2> QED BY <2>2, <2>3, <2>4, <2>5, UnsecuredExceedsCapacity
<1>7. collateral'[sender] = bits /\ \A u \in User \ {sender} : collateral'[u] = collateral[u]
  BY <1>1, <1>3 DEF TypeOK
<1> QED BY <1>3, <1>6, <1>7 DEF NoNakedDebt

\* Disabling the last collateral is refused while debt remains.
LEMMA SetUseReserveAsCollateralSecures ==
    ASSUME PoolInv, NoNakedDebt, NEW sender \in User, NEW a \in Asset, NEW enabled \in BOOLEAN,
           SetUseReserveAsCollateral(sender, a, enabled)
    PROVE  NoNakedDebt'
<1> DEFINE bits == IF enabled THEN collateral[sender] \cup {a} ELSE collateral[sender] \ {a}
           acct == Account(supply[sender], debt[sender], bits, borrowing[sender])
<1>1. TypeOK
  BY DEF PoolInv
<1>2. /\ ~enabled /\ borrowing[sender] # {} => WithinBorrowCapacity(acct, reserves, price, now)
      /\ collateral' = [collateral EXCEPT ![sender] = bits]
      /\ borrowing' = borrowing
  BY Zenon DEF SetUseReserveAsCollateral
<1>3. borrowing[sender] # {} => bits # {}
  <2> SUFFICES ASSUME borrowing[sender] # {}, bits = {} PROVE FALSE
    OBVIOUS
  <2>1. ~enabled
    OBVIOUS
  <2> HIDE DEF bits
  <2>2. WithinBorrowCapacity(acct, reserves, price, now)
    BY <1>2, <2>1, Zenon
  <2>3. /\ acct.collateral = {} /\ acct.borrowing = borrowing[sender]
        /\ acct.debt = debt[sender]
    BY DEF Account
  <2> HIDE DEF acct
  <2>4. \A b \in borrowing[sender] : /\ b \in Asset /\ debt[sender][b] \in Nat \ {0}
                                     /\ NormalizedDebt(reserves[b], now) \in Nat \ {0}
    BY BorrowedHasIndex
  <2>5. price \in [Asset -> Nat]
    BY <1>1 DEF TypeOK
  <2> QED BY <2>2, <2>3, <2>4, <2>5, UnsecuredExceedsCapacity
<1> HIDE DEF bits
<1>4. collateral'[sender] = bits /\ \A u \in User \ {sender} : collateral'[u] = collateral[u]
  BY <1>1, <1>2 DEF TypeOK
<1> QED BY <1>2, <1>3, <1>4 DEF NoNakedDebt

\* Borrowing needs collateral: the new debt is worth something, however small.
LEMMA BorrowSecures ==
    ASSUME PoolInv, NoNakedDebt, NEW sender \in User, NEW a \in Asset, NEW amount \in Amounts,
           Borrow(sender, a, amount)
    PROVE  NoNakedDebt'
<1> DEFINE r == Accrue(reserves[a], now)
           scaled == RayDivUp(amount, r.borrowIndex)
           nr == [r EXCEPT !.totalScaledDebt = r.totalScaledDebt + scaled, !.cash = @ - amount]
           newDebt == [debt[sender] EXCEPT ![a] = @ + scaled]
           bits == borrowing[sender] \cup {a}
           acct == Account(supply[sender], newDebt, collateral[sender], bits)
           res == [reserves EXCEPT ![a] = nr]
<1>1. TypeOK /\ amount \in Nat \ {0}
  BY PoolAssumption DEF PoolInv
<1>2. /\ r \in ReserveData
      /\ r.lastUpdateTimestamp = now
      /\ r.borrowIndex \in Nat \ {0}
  <2>1. IsListed(reserves[a])
    BY ActiveIsListed DEF Borrow, AcceptsBorrow, ValidateBorrow, Operational
  <2> QED BY <2>1, Accrued
<1>3. /\ WithinBorrowCapacity(acct, res, price, now)
      /\ borrowing' = [borrowing EXCEPT ![sender] = bits]
      /\ collateral' = collateral
  BY Zenon DEF Borrow, AcceptsBorrow
<1> HIDE DEF r
<1>4. nr.lastUpdateTimestamp = now /\ nr.borrowIndex \in Nat \ {0}
  BY <1>2 DEF ReserveData
<1>5. scaled \in Nat \ {0}
  BY <1>1, <1>2, RayDivUpPositive
<1> HIDE DEF nr, scaled
<1>6. \A b \in bits : /\ b \in Asset /\ newDebt[b] \in Nat \ {0}
                      /\ NormalizedDebt(res[b], now) \in Nat \ {0}
  <2> TAKE b \in bits
  <2>1. debt[sender] \in [Asset -> Nat]
    BY <1>1 DEF TypeOK
  <2>2. NormalizedDebt(res[b], now) \in Nat \ {0}
    BY <1>4, BorrowedHasIndexDuring
  <2>3. CASE b = a
    BY <1>5, <2>1, <2>2, <2>3
  <2>4. CASE b # a
    <3>1. b \in Asset /\ debt[sender][b] \in Nat \ {0}
      BY <2>4, BorrowedHasIndex
    <3> QED BY <2>1, <2>2, <2>4, <3>1
  <2> QED BY <2>3, <2>4
<1>7. collateral[sender] # {}
  <2> SUFFICES ASSUME collateral[sender] = {} PROVE FALSE
    OBVIOUS
  <2>1. acct.collateral = {} /\ acct.borrowing = bits /\ acct.debt = newDebt
    BY DEF Account
  <2>2. bits # {}
    OBVIOUS
  <2> HIDE DEF acct, res, newDebt, bits
  <2>3. price \in [Asset -> Nat]
    BY <1>1 DEF TypeOK
  <2> QED BY <1>3, <1>6, <2>1, <2>2, <2>3, UnsecuredExceedsCapacity
<1>8. \A u \in User \ {sender} : borrowing'[u] = borrowing[u]
  BY <1>1, <1>3 DEF TypeOK
<1> QED BY <1>3, <1>7, <1>8 DEF NoNakedDebt

\* A liquidation that takes the last collateral bit leaves no debt.
LEMMA LiquidateSecures ==
    ASSUME PoolInv, NoNakedDebt, NEW sender \in User, NEW c \in Asset, NEW d \in Asset,
           NEW b \in User, NEW cover \in Amounts, NEW receiveSupply \in BOOLEAN,
           Liquidate(sender, c, d, b, cover, receiveSupply)
    PROVE  NoNakedDebt'
<1>1. TypeOK
  BY DEF PoolInv
<1>2. PICK db, cb, enables :
        LET seizedBits == [collateral EXCEPT ![b] = ClearBit(@, c, cb, supply[b][c])]
            newBits == IF enables
                       THEN [seizedBits EXCEPT ![sender] = @ \cup {c}]
                       ELSE seizedBits
            borrowingLeft == ClearBit(borrowing[b], d, db, debt[b][d])
        IN  /\ collateral' = newBits
            /\ borrowing' = [borrowing EXCEPT ![b] =
                               borrowingLeft \ WrittenOff(newBits[b], borrowingLeft, d)]
  <2> DEFINE accrued == AccruedPair(c, d)
             i == LiquidationInput(accrued, c, d, b, cover)
             repaid == CalculateAmounts(i).debtRepaid
             seized == CalculateAmounts(i).collateralSeized
             db == IF repaid = i.borrowerDebt
                   THEN debt[b][d]
                   ELSE RayDivDown(repaid, accrued[d].borrowIndex)
             cb == IF seized = i.borrowerCollateral
                   THEN supply[b][c]
                   ELSE RayDivUp(seized, accrued[c].liquidityIndex)
             seizedSupply == [supply EXCEPT ![b][c] = @ - cb]
             enables == receiveSupply /\ AutoEnables(accrued[c].config, seizedSupply[sender][c])
             seizedBits == [collateral EXCEPT ![b] = ClearBit(@, c, cb, supply[b][c])]
             newBits == IF enables
                        THEN [seizedBits EXCEPT ![sender] = @ \cup {c}]
                        ELSE seizedBits
             borrowingLeft == ClearBit(borrowing[b], d, db, debt[b][d])
  <2>1. /\ collateral' = newBits
        /\ borrowing' = [borrowing EXCEPT ![b] =
                           borrowingLeft \ WrittenOff(newBits[b], borrowingLeft, d)]
    BY Zenon DEF Liquidate, AccruedPair
  <2> HIDE DEF accrued, i, repaid, seized, db, cb, enables
  <2> QED BY <2>1, Zenon
<1> DEFINE seizedBits == [collateral EXCEPT ![b] = ClearBit(@, c, cb, supply[b][c])]
           newBits == IF enables
                      THEN [seizedBits EXCEPT ![sender] = @ \cup {c}]
                      ELSE seizedBits
           borrowingLeft == ClearBit(borrowing[b], d, db, debt[b][d])
<1>3. /\ collateral' = newBits
      /\ borrowing' = [borrowing EXCEPT ![b] =
                         borrowingLeft \ WrittenOff(newBits[b], borrowingLeft, d)]
  BY <1>2
<1>4. collateral \in [User -> SUBSET Asset] /\ borrowing \in [User -> SUBSET Asset]
  BY <1>1 DEF TypeOK
<1>5. \A u \in User \ {b} : /\ collateral[u] \subseteq collateral'[u]
                            /\ borrowing'[u] = borrowing[u]
  <2>1. \A u \in User : seizedBits[u] \subseteq newBits[u]
    <3>1. seizedBits \in [User -> SUBSET Asset]
      BY <1>4 DEF ClearBit
    <3> HIDE DEF seizedBits
    <3> QED BY <3>1
  <2>2. \A u \in User \ {b} : seizedBits[u] = collateral[u]
    BY <1>4
  <2> HIDE DEF seizedBits, newBits
  <2> QED BY <1>3, <1>4, <2>1, <2>2
<1>6. newBits[b] = {} => borrowing'[b] = {}
  <2> HIDE DEF newBits
  <2> QED BY <1>3, <1>4 DEF WrittenOff
<1> QED BY <1>3, <1>5, <1>6 DEF NoNakedDebt

\* Every other step is harmless.
LEMMA OtherStepsSecure ==
    ASSUME PoolInv, NoNakedDebt,
           \/ UNCHANGED <<collateral, borrowing>>
           \/ \E sender \in User, a \in Asset, amount \in Amounts :
                \E onBehalfOf \in Beneficiaries[sender] : \/ Supply(sender, a, amount, onBehalfOf)
                                                         \/ Repay(sender, a, amount, onBehalfOf)
    PROVE  NoNakedDebt'
<1>1. collateral \in [User -> SUBSET Asset] /\ borrowing \in [User -> SUBSET Asset]
  BY DEF PoolInv, TypeOK
<1>2. CASE UNCHANGED <<collateral, borrowing>>
  BY <1>2, HarmlessStep
<1>3. ASSUME NEW sender \in User, NEW a \in Asset, NEW amount \in Amounts,
             NEW onBehalfOf \in Beneficiaries[sender], Supply(sender, a, amount, onBehalfOf)
      PROVE  NoNakedDebt'
  <2>1. /\ \/ collateral' = collateral
           \/ collateral' = [collateral EXCEPT ![onBehalfOf] = @ \cup {a}]
        /\ borrowing' = borrowing
    BY <1>3, Zenon DEF Supply, SupplyPaidBy
  <2> QED BY <1>1, <2>1, HarmlessStep
<1>4. ASSUME NEW sender \in User, NEW a \in Asset, NEW amount \in Amounts,
             NEW onBehalfOf \in Beneficiaries[sender], Repay(sender, a, amount, onBehalfOf)
      PROVE  NoNakedDebt'
  <2>1. PICK burn, balance :
          /\ borrowing' = [borrowing EXCEPT ![onBehalfOf] = ClearBit(@, a, burn, balance)]
          /\ collateral' = collateral
    BY <1>4, Zenon DEF Repay
  <2>2. \A u \in User : borrowing'[u] \subseteq borrowing[u]
    BY <1>1, <2>1 DEF ClearBit
  <2> QED BY <2>1, <2>2, HarmlessStep
<1> QED BY <1>2, <1>3, <1>4

\* Every step keeps every debt secured.
LEMMA StepSecures ==
    ASSUME PoolInv, NoNakedDebt, [Next]_vars
    PROVE  NoNakedDebt'
<1>1. CASE UNCHANGED vars
  BY <1>1, OtherStepsSecure DEF vars, accountVars
<1>2. CASE UserNext
  <2>1. PICK sender \in User, a \in Asset :
          \/ \E amount \in Amounts :
               \/ \E onBehalfOf \in Beneficiaries[sender] : Supply(sender, a, amount, onBehalfOf)
               \/ \E to \in Beneficiaries[sender] : Withdraw(sender, a, amount, to)
               \/ Borrow(sender, a, amount)
               \/ \E onBehalfOf \in Beneficiaries[sender] : Repay(sender, a, amount, onBehalfOf)
               \/ \E c \in Asset, b \in User, receiveSupply \in BOOLEAN :
                      Liquidate(sender, c, a, b, amount, receiveSupply)
               \/ CoverDeficit(sender, a, amount)
          \/ \E enabled \in BOOLEAN : SetUseReserveAsCollateral(sender, a, enabled)
    BY <1>2, Zenon DEF UserNext
  <2>2. CASE \E enabled \in BOOLEAN : SetUseReserveAsCollateral(sender, a, enabled)
    BY <2>2, SetUseReserveAsCollateralSecures, Zenon
  <2>3. ASSUME NEW amount \in Amounts,
               \E onBehalfOf \in Beneficiaries[sender] : \/ Supply(sender, a, amount, onBehalfOf)
                                                        \/ Repay(sender, a, amount, onBehalfOf)
        PROVE  NoNakedDebt'
    BY <2>3, OtherStepsSecure, Zenon
  <2>4. ASSUME NEW amount \in Amounts,
               \E to \in Beneficiaries[sender] : Withdraw(sender, a, amount, to)
        PROVE  NoNakedDebt'
    BY <2>4, WithdrawSecures, Zenon
  <2>5. ASSUME NEW amount \in Amounts, Borrow(sender, a, amount) PROVE NoNakedDebt'
    BY <2>5, BorrowSecures, Zenon
  <2>6. ASSUME NEW amount \in Amounts,
               \E c \in Asset, b \in User, receiveSupply \in BOOLEAN :
                   Liquidate(sender, c, a, b, amount, receiveSupply)
        PROVE  NoNakedDebt'
    BY <2>6, LiquidateSecures, Zenon
  <2>7. ASSUME NEW amount \in Amounts, CoverDeficit(sender, a, amount) PROVE NoNakedDebt'
    <3>1. UNCHANGED accountVars
      BY <2>7, Zenon DEF CoverDeficit
    <3> QED BY <3>1, OtherStepsSecure DEF accountVars
  <2> QED BY <2>1, <2>2, <2>3, <2>4, <2>5, <2>6, <2>7, Zenon
<1>3. CASE ConfiguratorNext \/ EnvironmentNext
  <2>1. UNCHANGED accountVars
    BY <1>3, Zenon DEF ConfiguratorNext, EnvironmentNext, InitReserve, SetReserveConfig,
       SetInterestRateModel, SetPoolPaused, SetLiquidationGracePeriod, WithdrawReserves,
       Tick, SetPrice
  <2> QED BY <2>1, OtherStepsSecure DEF accountVars
<1> QED BY <1>1, <1>2, <1>3, Zenon DEF Next

\* Every borrower has collateral flagged, in every reachable state.
THEOREM DebtSecured == Spec => []NoNakedDebt
<1>1. Init => SecuredInv
  <2> SUFFICES ASSUME Init PROVE SecuredInv
    OBVIOUS
  <2>1. PoolInv
    BY InitEstablishes
  <2>2. NoNakedDebt
    BY DEF Init, NoNakedDebt
  <2> QED BY <2>1, <2>2 DEF SecuredInv
<1>2. SecuredInv /\ [Next]_vars => SecuredInv'
  BY StepKeeps, StepSecures DEF SecuredInv
<1>3. SecuredInv => NoNakedDebt
  BY DEF SecuredInv
<1> QED BY <1>1, <1>2, <1>3, PTL DEF Spec
-----------------------------------------------------------------------------
(***************************************************************************)
(* The stored rates.                                                       *)
(***************************************************************************)

\* Updating the rates of a reserve twice is updating them once: they depend on
\* nothing that the update writes.
LEMMA UpdateRatesIdempotent ==
    ASSUME NEW r, UpdateRates(r) \in ReserveData
    PROVE  UpdateRates(UpdateRates(r)) = UpdateRates(r)
<1> DEFINE b == GetBorrowRate(r.interestRateModel, r.cash,
                              RayMulUp(r.totalScaledDebt, r.borrowIndex))
           l == LiquidityRate(r, b)
           s == UpdateRates(r)
<1>1. s = [r EXCEPT !.liquidityRate = l, !.borrowRate = b]
  BY DEF UpdateRates
<1> HIDE DEF b, l, s
<1>2. s \in ReserveData
  BY DEF s
<1>3. /\ s.interestRateModel = r.interestRateModel
      /\ s.cash = r.cash
      /\ s.totalScaledDebt = r.totalScaledDebt
      /\ s.borrowIndex = r.borrowIndex
      /\ s.totalScaledSupply = r.totalScaledSupply
      /\ s.accruedToTreasury = r.accruedToTreasury
      /\ s.liquidityIndex = r.liquidityIndex
      /\ s.config = r.config
      /\ s.liquidityRate = l
      /\ s.borrowRate = b
  BY <1>1, <1>2 DEF ReserveData
<1>4. GetBorrowRate(s.interestRateModel, s.cash, RayMulUp(s.totalScaledDebt, s.borrowIndex)) = b
  BY <1>3 DEF b
<1>5. LiquidityRate(s, b) = l
  BY <1>3, Zenon DEF LiquidityRate, l
<1>6. UpdateRates(s) = [s EXCEPT !.liquidityRate = l, !.borrowRate = b]
  BY <1>4, <1>5 DEF UpdateRates
<1>7. [s EXCEPT !.liquidityRate = l, !.borrowRate = b] = s
  BY <1>2, <1>3 DEF ReserveData
<1> QED BY <1>6, <1>7 DEF s

\* What a step may leave in a reserve: what was there, or a reserve just priced.
Repriced(a) == reserves'[a] = reserves[a] \/ \E r : reserves'[a] = UpdateRates(r)

\* Writing one reserve through updateRates.
LEMMA OneRepriced ==
    ASSUME PoolInv, NEW a \in Asset, NEW r,
           reserves' = [reserves EXCEPT ![a] = UpdateRates(r)]
    PROVE  \A b \in Asset : Repriced(b)
<1>1. reserves \in [Asset -> ReserveData]
  BY DEF PoolInv, TypeOK
<1> DEFINE s == UpdateRates(r)
<1>2. reserves' = [reserves EXCEPT ![a] = s]
  OBVIOUS
<1> HIDE DEF s
<1>3. \A b \in Asset : reserves'[b] = reserves[b] \/ reserves'[b] = s
  BY <1>1, <1>2
<1> QED BY <1>3, Zenon DEF Repriced, s

\* A liquidation prices both of its reserves and every reserve it writes debt off in.
LEMMA LiquidateReprices ==
    ASSUME NEW sender \in User, NEW c \in Asset, NEW d \in Asset, NEW b \in User,
           NEW cover \in Amounts, NEW receiveSupply \in BOOLEAN,
           Liquidate(sender, c, d, b, cover, receiveSupply)
    PROVE  \A a \in Asset : Repriced(a)
<1>1. PICK written, sr, left :
        reserves' = [a \in Asset |->
                       IF a \in written
                       THEN WriteOffAt(sr[a], left[a], now)
                       ELSE IF a \in {c, d} THEN UpdateRates(sr[a]) ELSE reserves[a]]
  <2> DEFINE accrued == AccruedPair(c, d)
             i == LiquidationInput(accrued, c, d, b, cover)
             repaid == CalculateAmounts(i).debtRepaid
             seized == CalculateAmounts(i).collateralSeized
             db == IF repaid = i.borrowerDebt
                   THEN debt[b][d]
                   ELSE RayDivDown(repaid, accrued[d].borrowIndex)
             cb == IF seized = i.borrowerCollateral
                   THEN supply[b][c]
                   ELSE RayDivUp(seized, accrued[c].liquidityIndex)
             sr == SeizedPair(c, d, db, cb, repaid, seized, receiveSupply)
             left == [debt[b] EXCEPT ![d] = @ - db]
             borrowingLeft == ClearBit(borrowing[b], d, db, debt[b][d])
             seizedSupply == [supply EXCEPT ![b][c] = @ - cb]
             seizedBits == [collateral EXCEPT ![b] = ClearBit(@, c, cb, supply[b][c])]
             enables == receiveSupply /\ AutoEnables(accrued[c].config, seizedSupply[sender][c])
             newBits == IF enables
                        THEN [seizedBits EXCEPT ![sender] = @ \cup {c}]
                        ELSE seizedBits
             written == WrittenOff(newBits[b], borrowingLeft, d)
  <2>1. reserves' = [a \in Asset |->
                       IF a \in written
                       THEN WriteOffAt(sr[a], left[a], now)
                       ELSE IF a \in {c, d} THEN UpdateRates(sr[a]) ELSE reserves[a]]
    BY Zenon DEF Liquidate, AccruedPair, RepaidPair, SeizedPair
  <2> HIDE DEF written, sr, left
  <2> QED BY <2>1, Zenon
<1> TAKE a \in Asset
<1>2. reserves'[a] = IF a \in written
                     THEN WriteOffAt(sr[a], left[a], now)
                     ELSE IF a \in {c, d} THEN UpdateRates(sr[a]) ELSE reserves[a]
  BY <1>1, Zenon
<1>3. CASE a \in written
  BY <1>2, <1>3, Zenon DEF Repriced, WriteOffAt
<1>4. CASE a \notin written
  BY <1>2, <1>4, Zenon DEF Repriced
<1> QED BY <1>3, <1>4

\* Every step leaves every reserve as it was or prices it anew.
LEMMA StepReprices ==
    ASSUME PoolInv, [Next]_vars
    PROVE  \A a \in Asset : Repriced(a)
<1>1. CASE UNCHANGED reserves
  BY <1>1, Zenon DEF Repriced
<1>2. CASE UserNext
  <2>1. PICK sender \in User, a \in Asset :
          \/ \E amount \in Amounts :
               \/ \E onBehalfOf \in Beneficiaries[sender] : Supply(sender, a, amount, onBehalfOf)
               \/ \E to \in Beneficiaries[sender] : Withdraw(sender, a, amount, to)
               \/ Borrow(sender, a, amount)
               \/ \E onBehalfOf \in Beneficiaries[sender] : Repay(sender, a, amount, onBehalfOf)
               \/ \E c \in Asset, b \in User, receiveSupply \in BOOLEAN :
                      Liquidate(sender, c, a, b, amount, receiveSupply)
               \/ CoverDeficit(sender, a, amount)
          \/ \E enabled \in BOOLEAN : SetUseReserveAsCollateral(sender, a, enabled)
    BY <1>2, Zenon DEF UserNext
  <2>2. CASE \E enabled \in BOOLEAN : SetUseReserveAsCollateral(sender, a, enabled)
    BY <2>2, <1>1, Zenon DEF SetUseReserveAsCollateral
  <2>3. ASSUME NEW amount \in Amounts, NEW v \in Beneficiaries[sender],
               Supply(sender, a, amount, v)
        PROVE  \E r : reserves' = [reserves EXCEPT ![a] = UpdateRates(r)]
    BY <2>3, Zenon DEF Supply, SupplyPaidBy
  <2>4. ASSUME NEW amount \in Amounts, NEW v \in Beneficiaries[sender],
               Withdraw(sender, a, amount, v)
        PROVE  \E r : reserves' = [reserves EXCEPT ![a] = UpdateRates(r)]
    BY <2>4, Zenon DEF Withdraw
  <2>5. ASSUME NEW amount \in Amounts, Borrow(sender, a, amount)
        PROVE  \E r : reserves' = [reserves EXCEPT ![a] = UpdateRates(r)]
    BY <2>5, Zenon DEF Borrow
  <2>6. ASSUME NEW amount \in Amounts, NEW v \in Beneficiaries[sender],
               Repay(sender, a, amount, v)
        PROVE  \E r : reserves' = [reserves EXCEPT ![a] = UpdateRates(r)]
    BY <2>6, Zenon DEF Repay
  <2>7. ASSUME NEW amount \in Amounts, CoverDeficit(sender, a, amount)
        PROVE  \E r : reserves' = [reserves EXCEPT ![a] = UpdateRates(r)]
    BY <2>7, Zenon DEF CoverDeficit
  <2>8. CASE \E r : reserves' = [reserves EXCEPT ![a] = UpdateRates(r)]
    BY <2>8, OneRepriced
  <2>9. CASE \E amount \in Amounts, c \in Asset, b \in User, receiveSupply \in BOOLEAN :
                 Liquidate(sender, c, a, b, amount, receiveSupply)
    <3>1. PICK amount \in Amounts, c \in Asset, b \in User, receiveSupply \in BOOLEAN :
                  Liquidate(sender, c, a, b, amount, receiveSupply)
      BY <2>9, Zenon
    <3> QED BY <3>1, LiquidateReprices
  <2> QED BY <2>1, <2>2, <2>3, <2>4, <2>5, <2>6, <2>7, <2>8, <2>9, Zenon
<1>3. CASE ConfiguratorNext
  <2>1. CASE \E a \in Asset : \E model \in RateModels[a], config \in Configs[a] :
                 InitReserve(a, model, config)
    <3>1. PICK a \in Asset : \E model \in RateModels[a], config \in Configs[a] : InitReserve(a, model, config)
      BY <2>1, Zenon
    <3>2. \E r : reserves' = [reserves EXCEPT ![a] = UpdateRates(r)]
      BY <3>1, Zenon DEF InitReserve, NewReserve
    <3> QED BY <3>2, OneRepriced
  <2>2. CASE \E a \in Asset : \E config \in Configs[a] : SetReserveConfig(a, config)
    <3>1. PICK a \in Asset : \E config \in Configs[a] : SetReserveConfig(a, config)
      BY <2>2, Zenon
    <3>2. \E r : reserves' = [reserves EXCEPT ![a] = UpdateRates(r)]
      BY <3>1, Zenon DEF SetReserveConfig, Configured
    <3> QED BY <3>2, OneRepriced
  <2>3. CASE \E a \in Asset : \E model \in RateModels[a] : SetInterestRateModel(a, model)
    <3>1. PICK a \in Asset : \E model \in RateModels[a] : SetInterestRateModel(a, model)
      BY <2>3, Zenon
    <3>2. \E r : reserves' = [reserves EXCEPT ![a] = UpdateRates(r)]
      BY <3>1, Zenon DEF SetInterestRateModel
    <3> QED BY <3>2, OneRepriced
  <2>4. CASE \E a \in Asset, amount \in Amounts, to \in User : WithdrawReserves(a, amount, to)
    <3>1. PICK a \in Asset, amount \in Amounts, to \in User : WithdrawReserves(a, amount, to)
      BY <2>4, Zenon
    <3>2. \E r : reserves' = [reserves EXCEPT ![a] = UpdateRates(r)]
      BY <3>1, Zenon DEF WithdrawReserves
    <3> QED BY <3>2, OneRepriced
  <2>5. CASE \/ \E newPaused \in Pauses : SetPoolPaused(newPaused)
             \/ \E period \in GracePeriods : SetLiquidationGracePeriod(period)
    BY <2>5, <1>1, Zenon DEF SetPoolPaused, SetLiquidationGracePeriod
  <2> QED BY <1>3, <2>1, <2>2, <2>3, <2>4, <2>5, Zenon DEF ConfiguratorNext
<1>4. CASE EnvironmentNext
  BY <1>4, <1>1, Zenon DEF EnvironmentNext, Tick, SetPrice
<1>5. CASE UNCHANGED vars
  BY <1>5, <1>1, Zenon DEF vars
<1> QED BY <1>2, <1>3, <1>4, <1>5, Zenon DEF Next

\* In every reachable state the rates a reserve stores are those of its balances,
\* its configuration and its model.
THEOREM RatesAreCurrent == Spec => []RatesCurrent
<1> DEFINE Inv == PoolInv /\ RatesCurrent
<1>1. Init => Inv
  <2> SUFFICES ASSUME Init PROVE Inv
    OBVIOUS
  <2>1. PoolInv
    BY InitEstablishes
  <2>2. ASSUME NEW a \in Asset, IsListed(reserves[a])
        PROVE  UpdateRates(reserves[a]) = reserves[a]
    <3>1. a \in Listed
      BY <2>2 DEF Init, IsListed, UnlistedReserve
    <3>2. PICK r : reserves[a] = UpdateRates(r)
      BY <3>1 DEF Init, NewReserve
    <3>3. reserves[a] \in ReserveData
      BY <2>1 DEF PoolInv, TypeOK
    <3> QED BY <3>2, <3>3, UpdateRatesIdempotent
  <2> QED BY <2>1, <2>2 DEF RatesCurrent
<1>2. Inv /\ [Next]_vars => Inv'
  <2> SUFFICES ASSUME PoolInv, RatesCurrent, [Next]_vars PROVE PoolInv' /\ RatesCurrent'
    OBVIOUS
  <2>1. PoolInv'
    BY StepKeeps
  <2>2. ASSUME NEW a \in Asset, IsListed(reserves'[a])
        PROVE  UpdateRates(reserves'[a]) = reserves'[a]
    <3>1. CASE reserves'[a] = reserves[a]
      BY <2>2, <3>1 DEF RatesCurrent
    <3>2. ASSUME NEW r, reserves'[a] = UpdateRates(r)
          PROVE  UpdateRates(reserves'[a]) = reserves'[a]
      <4>1. reserves'[a] \in ReserveData
        BY <2>1 DEF PoolInv, TypeOK
      <4> QED BY <3>2, <4>1, UpdateRatesIdempotent
    <3> QED BY <3>1, <3>2, StepReprices DEF Repriced
  <2> QED BY <2>1, <2>2 DEF RatesCurrent
<1> QED BY <1>1, <1>2, PTL DEF Spec
-----------------------------------------------------------------------------
(***************************************************************************)
(* What an operation leaves of a reserve's settings and deficit.           *)
(***************************************************************************)

\* A reserve record s with the fields of r, its configuration and its rate model.
SameSetup(r, s) ==
    /\ DOMAIN s = DOMAIN r
    /\ s.config = r.config /\ s.interestRateModel = r.interestRateModel

HasSetup(r) == {"config", "interestRateModel", "deficit"} \subseteq DOMAIN r

\* Leaving the settings alone is transitive.
LEMMA SetupFollows ==
    ASSUME NEW p, NEW q, NEW r, SameSetup(p, q), SameSetup(q, r)
    PROVE  SameSetup(p, r)
BY DEF SameSetup

\* Accruing changes neither, nor the deficit.
LEMMA AccrueSetup ==
    ASSUME NEW r, HasSetup(r), NEW t
    PROVE  SameSetup(r, Accrue(r, t)) /\ Accrue(r, t).deficit = r.deficit
<1>1. PICK li, bi, tr :
        \/ Accrue(r, t) = r
        \/ Accrue(r, t) = [r EXCEPT !.liquidityIndex = li, !.lastUpdateTimestamp = t]
        \/ Accrue(r, t) = [r EXCEPT !.liquidityIndex = li, !.borrowIndex = bi,
                                    !.accruedToTreasury = tr, !.lastUpdateTimestamp = t]
  BY Zenon DEF Accrue
<1> QED BY <1>1 DEF SameSetup, HasSetup

\* Nor does updating the rates.
LEMMA RatesSetup ==
    ASSUME NEW r, HasSetup(r)
    PROVE  SameSetup(r, UpdateRates(r)) /\ UpdateRates(r).deficit = r.deficit
<1>1. PICK l, b : UpdateRates(r) = [r EXCEPT !.liquidityRate = l, !.borrowRate = b]
  BY Zenon DEF UpdateRates
<1> QED BY <1>1 DEF SameSetup, HasSetup

\* A write-off raises the deficit only by what is left of a debt once the treasury
\* is used up.
LEMMA WriteOffSpendsTreasury ==
    ASSUME NEW r \in ReserveData, NEW t \in Nat, SaneReserve(r, t), IsListed(r),
           NEW scaled \in Nat
    PROVE  LET s == WriteOffAt(r, scaled, t)
           IN  /\ SameSetup(r, s)
               /\ s.deficit > r.deficit => s.accruedToTreasury = 0
<1> DEFINE p == Accrue(r, t)
           q == WriteOffDebt(p, scaled)
           s == UpdateRates(q)
<1>1. /\ p \in ReserveData
      /\ p.deficit = r.deficit
      /\ p.liquidityIndex \in Nat \ {0}
  BY AccruedReserve
<1>2. SameSetup(r, p)
  BY AccrueSetup DEF HasSetup, ReserveData
<1> HIDE DEF p
<1>3. PICK tr \in Nat, df \in Nat :
        q = [p EXCEPT !.totalScaledDebt = @ - scaled, !.accruedToTreasury = tr, !.deficit = df]
  <2>1. p.liquidityIndex # 0
    BY <1>1
  <2>2. WrittenDown(p, q, scaled)
    BY <1>1, <2>1, WriteOffKeeps
  <2> QED BY <2>2, Zenon DEF WrittenDown
<1>4. q.deficit > p.deficit => q.accruedToTreasury = 0
  <2>1. CASE scaled = 0
    BY <1>1, <2>1 DEF WriteOffDebt, ReserveData
  <2>2. CASE scaled # 0
    <3> DEFINE loss == RayMulUp(scaled, p.borrowIndex)
               treasury == AbsorbWithTreasury(p, loss).accruedToTreasury
               covered == AbsorbWithTreasury(p, loss).covered
    <3>1. q = [p EXCEPT !.totalScaledDebt = p.totalScaledDebt - scaled,
                        !.accruedToTreasury = treasury,
                        !.deficit = p.deficit + (loss - covered)]
      BY <2>2, Zenon DEF WriteOffDebt
    <3>2. treasury = 0 \/ covered = loss
      BY DEF AbsorbWithTreasury
    <3>3. loss \in Nat
      BY <1>1, RayType DEF ReserveData
    <3> HIDE DEF treasury, covered, loss, q
    <3>4. q.deficit = p.deficit + (loss - covered) /\ q.accruedToTreasury = treasury
      BY <1>1, <3>1 DEF ReserveData
    <3>5. p.deficit \in Nat
      BY <1>1 DEF ReserveData
    <3> QED BY <3>2, <3>3, <3>4, <3>5
  <2> QED BY <2>1, <2>2
<1> HIDE DEF q
<1>5. SameSetup(p, q) /\ HasSetup(q) /\ "accruedToTreasury" \in DOMAIN q
  BY <1>1, <1>3 DEF SameSetup, HasSetup, ReserveData
<1>6. SameSetup(q, s) /\ s.deficit = q.deficit
  BY <1>5, RatesSetup
<1>7. s.accruedToTreasury = q.accruedToTreasury
  <2>1. PICK l, b : s = [q EXCEPT !.liquidityRate = l, !.borrowRate = b]
    BY Zenon DEF UpdateRates
  <2> HIDE DEF s
  <2> QED BY <1>5, <2>1
<1>8. WriteOffAt(r, scaled, t) = s
  BY DEF WriteOffAt, p, q
<1> HIDE DEF s
<1>9. SameSetup(r, s)
  BY <1>2, <1>5, <1>6, SetupFollows
<1> QED BY <1>1, <1>4, <1>6, <1>7, <1>8, <1>9
-----------------------------------------------------------------------------
(***************************************************************************)
(* The surplus of a reserve.                                               *)
(***************************************************************************)

\* q holds, beyond what it owes, at least what p does.
Gains(p, q) ==
    SurplusRay(p) \in Int /\ SurplusRay(q) \in Int /\ SurplusRay(q) >= SurplusRay(p)

\* Gains add up.
LEMMA GainsFollow ==
    ASSUME NEW p, NEW q, NEW r, Gains(p, q), Gains(q, r)
    PROVE  Gains(p, r)
BY DEF Gains

\* A reserve gains on itself.
LEMMA GainsReflexive ==
    ASSUME NEW p \in ReserveData
    PROVE  Gains(p, p)
<1>1. /\ p.cash \in Nat /\ p.deficit \in Nat /\ p.totalScaledSupply \in Nat
      /\ p.totalScaledDebt \in Nat /\ p.accruedToTreasury \in Nat
      /\ p.liquidityIndex \in Nat /\ p.borrowIndex \in Nat /\ RAY \in Nat
  BY ScaleAssumption DEF ReserveData
<1> QED BY <1>1 DEF Gains, SurplusRay

HasBooks(r) ==
    {"cash", "deficit", "totalScaledSupply", "totalScaledDebt",
     "liquidityIndex", "borrowIndex", "accruedToTreasury"} \subseteq DOMAIN r

\* The surplus of moved books: what comes in covers what is newly owed.
LEMMA SurplusMoves ==
    ASSUME NEW K \in Int, NEW D \in Int, NEW S \in Int,
           NEW R \in Int, NEW B \in Int, NEW L \in Int,
           NEW k \in Int, NEW d \in Int, NEW s \in Int, s * L <= k * R + d * B
    PROVE  K * R + D * B - S * L <= (K + k) * R + (D + d) * B - (S + s) * L
<1>1. /\ (K + k) * R = K * R + k * R
      /\ (D + d) * B = D * B + d * B
      /\ (S + s) * L = S * L + s * L
  OBVIOUS
<1>2. /\ K * R \in Int /\ D * B \in Int /\ S * L \in Int
      /\ k * R \in Int /\ d * B \in Int /\ s * L \in Int
  OBVIOUS
<1> DEFINE KR == K * R
           DB == D * B
           SL == S * L
           kR == k * R
           dB == d * B
           sL == s * L
<1>3. KR + DB - SL <= (KR + kR) + (DB + dB) - (SL + sL)
  <2>1. KR \in Int /\ DB \in Int /\ SL \in Int /\ kR \in Int /\ dB \in Int /\ sL \in Int
        /\ sL <= kR + dB
    BY <1>2
  <2> HIDE DEF KR, DB, SL, kR, dB, sL
  <2> QED BY <2>1
<1> QED BY <1>1, <1>3

\* Updating the rates leaves the books, and so the surplus, alone.
LEMMA RatesKeepSurplus ==
    ASSUME NEW r, HasBooks(r)
    PROVE  SurplusRay(UpdateRates(r)) = SurplusRay(r)
<1> DEFINE s == UpdateRates(r)
<1>1. PICK l, b : s = [r EXCEPT !.liquidityRate = l, !.borrowRate = b]
  BY Zenon DEF UpdateRates
<1> HIDE DEF s
<1>2. /\ s.cash = r.cash /\ s.deficit = r.deficit
      /\ s.totalScaledSupply = r.totalScaledSupply /\ s.totalScaledDebt = r.totalScaledDebt
      /\ s.liquidityIndex = r.liquidityIndex /\ s.borrowIndex = r.borrowIndex
      /\ s.accruedToTreasury = r.accruedToTreasury
  BY <1>1 DEF HasBooks
<1> QED BY <1>2, Zenon DEF SurplusRay, s

\* The amounts a call adds to the cash, deficit, debt, supply and treasury of p.
MovedBy(p, q, cash, deficit, borrowed, supplied, treasury) ==
    /\ HasBooks(q)
    /\ q.liquidityIndex = p.liquidityIndex /\ q.borrowIndex = p.borrowIndex
    /\ q.cash = p.cash + cash /\ q.deficit = p.deficit + deficit
    /\ q.totalScaledDebt = p.totalScaledDebt + borrowed
    /\ q.totalScaledSupply = p.totalScaledSupply + supplied
    /\ q.accruedToTreasury = p.accruedToTreasury + treasury

\* A reserve gains when the claims it adds are worth no more, at its indexes, than the
\* tokens, the deficit and the debts it adds.
LEMMA MovedGains ==
    ASSUME NEW p \in ReserveData, NEW q,
           NEW cash \in Int, NEW deficit \in Int, NEW borrowed \in Int,
           NEW supplied \in Int, NEW treasury \in Int,
           MovedBy(p, q, cash, deficit, borrowed, supplied, treasury),
           (supplied + treasury) * p.liquidityIndex
             <= (cash + deficit) * RAY + borrowed * p.borrowIndex
    PROVE  Gains(p, q)
<1> DEFINE K == p.cash + p.deficit
           D == p.totalScaledDebt
           S == p.totalScaledSupply + p.accruedToTreasury
           k == cash + deficit
           s == supplied + treasury
           L == p.liquidityIndex
           B == p.borrowIndex
<1>1. /\ p.cash \in Int /\ p.deficit \in Int /\ p.totalScaledSupply \in Int
      /\ p.accruedToTreasury \in Int
      /\ K \in Int /\ D \in Int /\ S \in Int /\ L \in Int /\ B \in Int
      /\ k \in Int /\ s \in Int /\ RAY \in Int
  BY ScaleAssumption DEF ReserveData
<1>2. /\ q.cash + q.deficit = K + k
      /\ q.totalScaledDebt = D + borrowed
      /\ q.totalScaledSupply + q.accruedToTreasury = S + s
      /\ q.liquidityIndex = L /\ q.borrowIndex = B
  BY <1>1 DEF MovedBy
<1>3. s * L <= k * RAY + borrowed * B
  OBVIOUS
<1>4. SurplusRay(p) = K * RAY + D * B - S * L
  BY DEF SurplusRay
<1> HIDE DEF K, D, S, k, s, L, B
<1>5. SurplusRay(q) = (K + k) * RAY + (D + borrowed) * B - (S + s) * L
  BY <1>2, Zenon DEF SurplusRay
<1>6. K * RAY + D * B - S * L <= (K + k) * RAY + (D + borrowed) * B - (S + s) * L
  BY <1>1, <1>3, SurplusMoves
<1> DEFINE v == K * RAY + D * B - S * L
           w == (K + k) * RAY + (D + borrowed) * B - (S + s) * L
<1>7. v <= w /\ v \in Int /\ w \in Int
  BY <1>1, <1>6
<1> HIDE DEF v, w
<1> QED BY <1>4, <1>5, <1>7 DEF Gains, v, w

\* What a rounded conversion is worth.
LEMMA Conversions ==
    ASSUME NEW amount \in Nat, NEW index \in Nat \ {0}
    PROVE  /\ RayDivDown(amount, index) \in Nat
           /\ RayDivDown(amount, index) * index <= amount * RAY
           /\ RayDivUp(amount, index) \in Nat
           /\ amount * RAY <= RayDivUp(amount, index) * index
           /\ RayMulDown(amount, index) \in Nat
           /\ RayMulDown(amount, index) * RAY <= amount * index
           /\ RayMulUp(amount, index) \in Nat
           /\ amount * index <= RayMulUp(amount, index) * RAY
<1>1. amount * RAY \in Nat /\ amount * index \in Nat /\ RAY \in Nat \ {0}
  BY MulNat, ScaleAssumption
<1> QED BY <1>1, DivDown, DivUpBounds DEF RayDivDown, RayDivUp, RayMulDown, RayMulUp

\* A write-off trades a debt for a deficit and treasury claims worth at least as much.
LEMMA WriteOffFavours ==
    ASSUME NEW p \in ReserveData, p.liquidityIndex # 0, p.borrowIndex # 0,
           NEW scaled \in Nat
    PROVE  Gains(p, WriteOffDebt(p, scaled)) /\ HasBooks(WriteOffDebt(p, scaled))
<1> DEFINE loss == RayMulUp(scaled, p.borrowIndex)
           value == RayMulDown(p.accruedToTreasury, p.liquidityIndex)
           absorbed == AbsorbWithTreasury(p, loss)
           covered == absorbed.covered
           burn == IF value <= loss THEN p.accruedToTreasury ELSE RayDivUp(loss, p.liquidityIndex)
           q == WriteOffDebt(p, scaled)
<1>1. /\ p.liquidityIndex \in Nat \ {0} /\ p.borrowIndex \in Nat \ {0}
      /\ p.accruedToTreasury \in Nat /\ p.totalScaledDebt \in Nat /\ p.deficit \in Nat
      /\ p.cash \in Nat /\ p.totalScaledSupply \in Nat /\ RAY \in Nat
  BY ScaleAssumption DEF ReserveData
<1>2. /\ loss \in Nat /\ scaled * p.borrowIndex <= loss * RAY
  BY <1>1, Conversions
<1>3. /\ value \in Nat /\ value * RAY <= p.accruedToTreasury * p.liquidityIndex
      /\ RayDivUp(loss, p.liquidityIndex) \in Nat
      /\ loss * RAY <= RayDivUp(loss, p.liquidityIndex) * p.liquidityIndex
  <2> HIDE DEF loss
  <2> QED BY <1>1, <1>2, Conversions
<1>4. covered = (IF value <= loss THEN value ELSE loss)
      /\ absorbed.accruedToTreasury = p.accruedToTreasury - burn
  <2> HIDE DEF loss
  <2>1. p.accruedToTreasury - p.accruedToTreasury = 0
    BY <1>1
  <2> QED BY <2>1, <1>1 DEF AbsorbWithTreasury
<1>5. CASE scaled = 0
  <2>1. q = p
    BY <1>5 DEF WriteOffDebt
  <2>2. SurplusRay(p) \in Int
    BY <1>1 DEF SurplusRay
  <2>3. HasBooks(p)
    BY DEF HasBooks, ReserveData
  <2> HIDE DEF q
  <2> QED BY <2>1, <2>2, <2>3 DEF Gains, q
<1>6. CASE scaled # 0
  <2>1. q = [p EXCEPT !.totalScaledDebt = p.totalScaledDebt - scaled,
                      !.accruedToTreasury = absorbed.accruedToTreasury,
                      !.deficit = p.deficit + (loss - covered)]
    BY <1>6, Zenon DEF WriteOffDebt
  <2> HIDE DEF absorbed, covered, q, loss, value
  <2>2. burn \in Nat /\ covered \in Nat /\ covered * RAY <= burn * p.liquidityIndex
    BY <1>1, <1>2, <1>3, <1>4
  <2> HIDE DEF burn
  <2>3. MovedBy(p, q, 0, loss - covered, -scaled, 0, -burn)
    BY <1>1, <1>2, <1>4, <2>1, <2>2 DEF MovedBy, HasBooks, ReserveData
  <2>4. (0 + (-burn)) * p.liquidityIndex
          <= (0 + (loss - covered)) * RAY + (-scaled) * p.borrowIndex
    <3>1. /\ (0 + (-burn)) * p.liquidityIndex = -(burn * p.liquidityIndex)
          /\ (0 + (loss - covered)) * RAY = loss * RAY - covered * RAY
          /\ (-scaled) * p.borrowIndex = -(scaled * p.borrowIndex)
      BY <1>1, <1>2, <2>2
    <3> DEFINE w == burn * p.liquidityIndex
               x == loss * RAY
               y == covered * RAY
               z == scaled * p.borrowIndex
    <3>2. w \in Nat /\ x \in Nat /\ y \in Nat /\ z \in Nat /\ y <= w /\ z <= x
      BY <1>1, <1>2, <2>2
    <3>3. -w <= (x - y) + (-z)
      <4> HIDE DEF w, x, y, z
      <4> QED BY <3>2
    <3> QED BY <3>1, <3>3
  <2>5. Gains(p, q)
    <3>1. 0 \in Int /\ loss - covered \in Int /\ -scaled \in Int /\ -burn \in Int
      BY <1>2, <2>2
    <3> QED BY <2>3, <2>4, <3>1, MovedGains
  <2> QED BY <2>3, <2>5 DEF MovedBy, q
<1> QED BY <1>5, <1>6
-----------------------------------------------------------------------------
(***************************************************************************)
(* What a liquidation writes.                                              *)
(***************************************************************************)

\* s is r with its two indexes.
SameIndexes(r, s) == s.liquidityIndex = r.liquidityIndex /\ s.borrowIndex = r.borrowIndex

\* What a liquidation writes in the reserves: in the ones whose debts it writes off,
\* in its own two, and nothing elsewhere; every debt is written off or none.  The
\* accounts other than the borrower's lose nothing.
LiquidationWrites(c, d, b, written, sr, left) ==
    /\ \A x \in Asset :
         /\ sr[x] \in ReserveData /\ SaneReserve(sr[x], now)
         /\ IsListed(reserves[x]) => IsListed(sr[x])
         /\ SameSetup(reserves[x], sr[x]) /\ sr[x].deficit = reserves[x].deficit
         /\ sr[x].totalScaledSupply <= reserves[x].totalScaledSupply
         /\ left[x] \in Nat /\ left[x] <= sr[x].totalScaledDebt
         /\ left[x] <= debt[b][x]
         /\ x \in {c, d} => /\ sr[x].lastUpdateTimestamp = now
                            /\ SameIndexes(Accrue(reserves[x], now), sr[x])
                            /\ Gains(Accrue(reserves[x], now), sr[x])
         /\ x \notin {c, d} => sr[x] = reserves[x]
    /\ written \subseteq borrowing[b]
    /\ written # {} => collateral'[b] = {} /\ borrowing'[b] = {}
    /\ reserves' = [a \in Asset |->
                      IF a \in written
                      THEN WriteOffAt(sr[a], left[a], now)
                      ELSE IF a \in {c, d} THEN UpdateRates(sr[a]) ELSE reserves[a]]
    /\ debt' = [debt EXCEPT ![b] = [a \in Asset |-> IF a \in written THEN 0 ELSE left[a]]]
    /\ \A u \in User, x \in Asset \ {c} : supply'[u][x] = supply[u][x]
    /\ \A u \in User \ {b} : /\ supply[u][c] <= supply'[u][c]
                              /\ collateral[u] \subseteq collateral'[u]
                              /\ borrowing'[u] = borrowing[u]

\* Neither leg touches a configuration, a rate model or a deficit.
LEMMA SeizedPairSetup ==
    ASSUME PoolInv, NEW c \in Asset, NEW d \in Asset, NEW db, NEW cb, NEW repaid, NEW seized,
           NEW receiveSupply \in BOOLEAN, NEW x \in Asset
    PROVE  LET r == SeizedPair(c, d, db, cb, repaid, seized, receiveSupply)[x]
           IN  SameSetup(reserves[x], r) /\ r.deficit = reserves[x].deficit
<1> DEFINE p == AccruedPair(c, d)[x]
           q == RepaidPair(c, d, db, repaid)[x]
           r == SeizedPair(c, d, db, cb, repaid, seized, receiveSupply)[x]
<1>1. HasSetup(reserves[x])
  BY DEF PoolInv, TypeOK, ReserveData, HasSetup
<1>2. SameSetup(reserves[x], p) /\ p.deficit = reserves[x].deficit
  <2>1. p = reserves[x] \/ p = Accrue(reserves[x], now)
    BY DEF AccruedPair
  <2>2. /\ SameSetup(reserves[x], Accrue(reserves[x], now))
        /\ Accrue(reserves[x], now).deficit = reserves[x].deficit
    BY <1>1, AccrueSetup
  <2>3. CASE p = reserves[x]
    BY <2>3 DEF SameSetup
  <2>4. CASE p = Accrue(reserves[x], now)
    BY <2>2, <2>4
  <2> QED BY <2>1, <2>3, <2>4
<1>3. HasSetup(p)
  BY <1>1, <1>2 DEF SameSetup, HasSetup
<1>4. q = p \/ q = [p EXCEPT !.totalScaledDebt = p.totalScaledDebt - db, !.cash = p.cash + repaid]
  BY DEF RepaidPair, AccruedPair, Repaid
<1>5. SameSetup(p, q) /\ q.deficit = p.deficit
  <2> DEFINE u == p.totalScaledDebt - db
             v == p.cash + repaid
  <2> HIDE DEF p, q, u, v
  <2>1. q = p \/ q = [p EXCEPT !.totalScaledDebt = u, !.cash = v]
    BY <1>4 DEF u, v
  <2> QED BY <1>3, <2>1 DEF SameSetup, HasSetup
<1>6. HasSetup(q)
  BY <1>3, <1>5 DEF SameSetup, HasSetup
<1>7. \/ r = q
      \/ r = [q EXCEPT !.totalScaledSupply = q.totalScaledSupply - cb, !.cash = q.cash - seized]
  BY DEF SeizedPair, RepaidPair, AccruedPair, Seize
<1>8. SameSetup(q, r) /\ r.deficit = q.deficit
  <2> DEFINE u == q.totalScaledSupply - cb
             v == q.cash - seized
  <2> HIDE DEF q, r, u, v
  <2>1. r = q \/ r = [q EXCEPT !.totalScaledSupply = u, !.cash = v]
    BY <1>7 DEF u, v
  <2> QED BY <1>6, <2>1 DEF SameSetup, HasSetup
<1> HIDE DEF p, q, r
<1>9. SameSetup(reserves[x], r) /\ r.deficit = reserves[x].deficit
  BY <1>2, <1>5, <1>8, SetupFollows
<1> QED BY <1>9 DEF r

\* Nor an index: both legs are priced at those of the accrual.
LEMMA SeizedPairIndexes ==
    ASSUME PoolInv, NEW c \in Asset, NEW d \in Asset,
           IsListed(reserves[c]), IsListed(reserves[d]),
           NEW db, NEW cb, NEW repaid, NEW seized,
           NEW receiveSupply \in BOOLEAN, NEW x \in {c, d}
    PROVE  SameIndexes(Accrue(reserves[x], now),
                       SeizedPair(c, d, db, cb, repaid, seized, receiveSupply)[x])
<1> DEFINE p == AccruedPair(c, d)[x]
           q == RepaidPair(c, d, db, repaid)[x]
           r == SeizedPair(c, d, db, cb, repaid, seized, receiveSupply)[x]
<1>1. p = Accrue(reserves[x], now) /\ p \in ReserveData
  BY Accrued DEF AccruedPair
<1>2. q = p \/ q = [p EXCEPT !.totalScaledDebt = p.totalScaledDebt - db, !.cash = p.cash + repaid]
  BY DEF RepaidPair, AccruedPair, Repaid
<1>3. \/ r = q
      \/ r = [q EXCEPT !.totalScaledSupply = q.totalScaledSupply - cb, !.cash = q.cash - seized]
  BY DEF SeizedPair, RepaidPair, AccruedPair, Seize
<1> HIDE DEF p, q, r
<1>4. /\ SameIndexes(p, q)
      /\ {"liquidityIndex", "borrowIndex"} \subseteq DOMAIN q
  <2> DEFINE u == p.totalScaledDebt - db
             v == p.cash + repaid
  <2>1. q = p \/ q = [p EXCEPT !.totalScaledDebt = u, !.cash = v]
    BY <1>2
  <2> HIDE DEF u, v
  <2> QED BY <1>1, <2>1 DEF SameIndexes, ReserveData
<1>5. SameIndexes(q, r)
  <2> DEFINE u == q.totalScaledSupply - cb
             v == q.cash - seized
  <2>1. r = q \/ r = [q EXCEPT !.totalScaledSupply = u, !.cash = v]
    BY <1>3
  <2> HIDE DEF u, v
  <2> QED BY <1>4, <2>1 DEF SameIndexes
<1>6. SameIndexes(p, r)
  BY <1>4, <1>5 DEF SameIndexes
<1> QED BY <1>1, <1>6 DEF r

\* The two legs burn at most what was repaid and at least what is seized.
LEMMA SeizedPairGains ==
    ASSUME PoolInv, NEW c \in Asset, NEW d \in Asset, NEW b \in User,
           IsListed(reserves[c]), IsListed(reserves[d]),
           NEW db \in Nat, db <= debt[b][d], NEW cb \in Nat, cb <= supply[b][c],
           NEW repaid \in Nat, NEW seized \in Nat, NEW receiveSupply \in BOOLEAN,
           db * AccruedPair(c, d)[d].borrowIndex <= repaid * RAY,
           seized * RAY <= cb * AccruedPair(c, d)[c].liquidityIndex,
           NEW x \in {c, d}
    PROVE  LET r == SeizedPair(c, d, db, cb, repaid, seized, receiveSupply)[x]
           IN  r.lastUpdateTimestamp = now /\ Gains(Accrue(reserves[x], now), r)
<1> DEFINE p == AccruedPair(c, d)[x]
           q == RepaidPair(c, d, db, repaid)[x]
           r == SeizedPair(c, d, db, cb, repaid, seized, receiveSupply)[x]
<1>1. x \in Asset /\ p = Accrue(reserves[x], now) /\ RAY \in Nat
  BY ScaleAssumption DEF AccruedPair
<1>2. p \in ReserveData /\ p.lastUpdateTimestamp = now
  BY <1>1, AccruedPairKeeps
<1>3. q \in ReserveData
  BY <1>1, RepaidPairKeeps
<1>4. /\ q.liquidityIndex = p.liquidityIndex /\ q.lastUpdateTimestamp = now
      /\ Gains(p, q)
  <2>1. CASE x = d
    <3>1. q = [p EXCEPT !.totalScaledDebt = p.totalScaledDebt - db, !.cash = p.cash + repaid]
      BY <1>1, <2>1 DEF RepaidPair, AccruedPair, Repaid
    <3>2. db * p.borrowIndex <= repaid * RAY
      BY <2>1
    <3> HIDE DEF p, q
    <3>3. MovedBy(p, q, repaid, 0, -db, 0, 0)
      BY <1>2, <3>1 DEF MovedBy, HasBooks, ReserveData
    <3>4. (0 + 0) * p.liquidityIndex <= (repaid + 0) * RAY + (-db) * p.borrowIndex
      <4>1. p.liquidityIndex \in Nat /\ p.borrowIndex \in Nat
        BY <1>2 DEF ReserveData
      <4>2. /\ (0 + 0) * p.liquidityIndex = 0
            /\ (repaid + 0) * RAY = repaid * RAY
            /\ (-db) * p.borrowIndex = -(db * p.borrowIndex)
            /\ db * p.borrowIndex \in Nat /\ repaid * RAY \in Nat
        BY <1>1, <4>1
      <4> QED BY <3>2, <4>2
    <3>5. Gains(p, q)
      BY <1>2, <3>3, <3>4, MovedGains
    <3> QED BY <1>2, <3>1, <3>5 DEF ReserveData
  <2>2. CASE x # d
    <3>1. q = p
      BY <1>1, <2>2 DEF RepaidPair, AccruedPair
    <3> HIDE DEF p, q
    <3> QED BY <1>2, <3>1, GainsReflexive
  <2> QED BY <2>1, <2>2
<1>5. r.lastUpdateTimestamp = now /\ Gains(q, r)
  <2>1. CASE x = c /\ ~receiveSupply
    <3>1. r = [q EXCEPT !.totalScaledSupply = q.totalScaledSupply - cb, !.cash = q.cash - seized]
      BY <1>1, <2>1 DEF SeizedPair, RepaidPair, AccruedPair, Seize
    <3>2. seized * RAY <= cb * p.liquidityIndex
      BY <2>1
    <3> HIDE DEF p, q, r
    <3>3. MovedBy(q, r, -seized, 0, 0, -cb, 0)
      BY <1>3, <3>1 DEF MovedBy, HasBooks, ReserveData
    <3>4. (-cb + 0) * q.liquidityIndex <= (-seized + 0) * RAY + 0 * q.borrowIndex
      <4>1. q.liquidityIndex \in Nat /\ q.borrowIndex \in Nat
        BY <1>3 DEF ReserveData
      <4>2. /\ (-cb + 0) * q.liquidityIndex = -(cb * q.liquidityIndex)
            /\ (-seized + 0) * RAY = -(seized * RAY)
            /\ 0 * q.borrowIndex = 0
            /\ cb * q.liquidityIndex \in Nat /\ seized * RAY \in Nat
        BY <1>1, <4>1
      <4> QED BY <1>4, <3>2, <4>2
    <3>5. Gains(q, r)
      BY <1>3, <3>3, <3>4, MovedGains
    <3> QED BY <1>3, <1>4, <3>1, <3>5 DEF ReserveData
  <2>2. CASE ~(x = c /\ ~receiveSupply)
    <3>1. r = q
      <4>1. CASE x # c
        BY <1>1, <4>1 DEF SeizedPair, RepaidPair, AccruedPair
      <4>2. CASE x = c /\ receiveSupply
        BY <1>1, <4>2 DEF SeizedPair, RepaidPair, AccruedPair, Seize
      <4> QED BY <2>2, <4>1, <4>2
    <3> HIDE DEF p, q, r
    <3> QED BY <1>3, <1>4, <3>1, GainsReflexive
  <2> QED BY <2>1, <2>2
<1> HIDE DEF p, q, r
<1>6. Gains(p, r)
  BY <1>4, <1>5, GainsFollow
<1> QED BY <1>1, <1>5, <1>6 DEF r

\* What a liquidation writes.
LEMMA LiquidationHasWrites ==
    ASSUME PoolInv, NEW sender \in User, NEW c \in Asset, NEW d \in Asset, NEW b \in User,
           NEW cover \in Amounts, NEW receiveSupply \in BOOLEAN,
           Liquidate(sender, c, d, b, cover, receiveSupply)
    PROVE  \E written, sr, left : LiquidationWrites(c, d, b, written, sr, left)
<1> DEFINE accrued == AccruedPair(c, d)
           i == LiquidationInput(accrued, c, d, b, cover)
           repaid == CalculateAmounts(i).debtRepaid
           seized == CalculateAmounts(i).collateralSeized
           db == IF repaid = i.borrowerDebt
                 THEN debt[b][d]
                 ELSE RayDivDown(repaid, accrued[d].borrowIndex)
           cb == IF seized = i.borrowerCollateral
                 THEN supply[b][c]
                 ELSE RayDivUp(seized, accrued[c].liquidityIndex)
           paidOut == IF receiveSupply THEN 0 ELSE seized
           sr == SeizedPair(c, d, db, cb, repaid, seized, receiveSupply)
           left == [debt[b] EXCEPT ![d] = @ - db]
           borrowingLeft == ClearBit(borrowing[b], d, db, debt[b][d])
           seizedSupply == [supply EXCEPT ![b][c] = @ - cb]
           seizedBits == [collateral EXCEPT ![b] = ClearBit(@, c, cb, supply[b][c])]
           enables == receiveSupply /\ AutoEnables(accrued[c].config, seizedSupply[sender][c])
           newBits == IF enables
                      THEN [seizedBits EXCEPT ![sender] = @ \cup {c}]
                      ELSE seizedBits
           written == WrittenOff(newBits[b], borrowingLeft, d)
<1>1. TypeOK /\ cover \in Nat
  BY PoolAssumption DEF PoolInv
<1>2. /\ reserves[d].config.active /\ reserves[c].config.active
      /\ d \in borrowing[b] /\ c \in collateral[b]
      /\ price[c] # 0 /\ price[d] # 0
      /\ CalculateAmounts(i).status = "OK"
      /\ paidOut <= RepaidPair(c, d, db, repaid)[c].cash
  BY Zenon DEF Liquidate, AccruedPair, RepaidPair, ValidateLiquidationReserve
<1>3. /\ supply' = IF receiveSupply
                   THEN [seizedSupply EXCEPT ![sender][c] = @ + cb]
                   ELSE seizedSupply
      /\ collateral' = newBits
      /\ debt' = [debt EXCEPT ![b] = [a \in Asset |-> IF a \in written THEN 0 ELSE left[a]]]
      /\ borrowing' = [borrowing EXCEPT ![b] = borrowingLeft \ written]
  BY Zenon DEF Liquidate, AccruedPair
<1>4. reserves' = [a \in Asset |->
                     IF a \in written
                     THEN WriteOffAt(sr[a], left[a], now)
                     ELSE IF a \in {c, d} THEN UpdateRates(sr[a]) ELSE reserves[a]]
  BY Zenon DEF Liquidate, AccruedPair, RepaidPair, SeizedPair
<1>5. IsListed(reserves[c]) /\ IsListed(reserves[d])
  BY <1>2, ActiveIsListed
<1>6. supply[b][c] # 0
  BY <1>2 DEF PoolInv, BitmapInSync
<1>7. /\ repaid \in Nat /\ seized \in Nat
      /\ db \in Nat /\ db <= debt[b][d]
      /\ cb \in Nat \ {0} /\ cb <= supply[b][c]
      /\ db * accrued[d].borrowIndex <= repaid * RAY
      /\ seized * RAY <= cb * accrued[c].liquidityIndex
  <2>1. LiquidationAmounts(c, d, b, cover, repaid, seized)
    BY <1>2, Zenon DEF LiquidationAmounts
  <2>2. /\ i.borrowerDebt = RayMulUp(debt[b][d], accrued[d].borrowIndex)
        /\ i.borrowerCollateral = RayMulDown(supply[b][c], accrued[c].liquidityIndex)
    BY DEF LiquidationInput
  <2> HIDE DEF i
  <2>3. Burns(c, d, b, repaid, seized, db, cb)
    BY <2>2, Zenon DEF Burns
  <2>4. /\ accrued[d].borrowIndex \in Nat \ {0} /\ accrued[c].liquidityIndex \in Nat \ {0}
        /\ debt[b][d] \in Nat /\ supply[b][c] \in Nat
    BY <1>1, <1>5, AccruedPairKeeps DEF TypeOK
  <2> HIDE DEF repaid, seized, db, cb
  <2>5. /\ repaid \in Nat /\ seized \in Nat
        /\ db \in Nat /\ db <= debt[b][d]
        /\ cb \in Nat \ {0} /\ cb <= supply[b][c]
    BY <1>1, <1>2, <1>5, <1>6, <2>1, <2>3, BurnsWithinBalances
  <2>6. /\ db * accrued[d].borrowIndex <= repaid * RAY
        /\ seized * RAY <= cb * accrued[c].liquidityIndex
    <3>1. /\ db = IF repaid = RayMulUp(debt[b][d], accrued[d].borrowIndex)
                  THEN debt[b][d]
                  ELSE RayDivDown(repaid, accrued[d].borrowIndex)
          /\ cb = IF seized = RayMulDown(supply[b][c], accrued[c].liquidityIndex)
                  THEN supply[b][c]
                  ELSE RayDivUp(seized, accrued[c].liquidityIndex)
      BY <2>3, Zenon DEF Burns
    <3> HIDE DEF accrued
    <3> QED BY <2>4, <2>5, <3>1, Conversions
  <2> QED BY <2>5, <2>6
<1> HIDE DEF repaid, seized, db, cb
<1>8. ASSUME NEW x \in Asset
      PROVE  /\ sr[x] \in ReserveData /\ SaneReserve(sr[x], now)
             /\ IsListed(reserves[x]) => IsListed(sr[x])
             /\ sr[x].totalScaledSupply = reserves[x].totalScaledSupply
                                            - (IF x = c /\ ~receiveSupply THEN cb ELSE 0)
             /\ sr[x].totalScaledDebt = reserves[x].totalScaledDebt - (IF x = d THEN db ELSE 0)
  <2>1. paidOut <= RepaidPair(c, d, db, repaid)[c].cash
    BY <1>2
  <2> QED BY <1>5, <1>7, <2>1, SeizedPairKeeps
<1>9. ASSUME NEW x \in Asset
      PROVE  SameSetup(reserves[x], sr[x]) /\ sr[x].deficit = reserves[x].deficit
  BY SeizedPairSetup
<1>10. ASSUME NEW x \in Asset
       PROVE  /\ x \in {c, d} => /\ sr[x].lastUpdateTimestamp = now
                                 /\ SameIndexes(Accrue(reserves[x], now), sr[x])
                                 /\ Gains(Accrue(reserves[x], now), sr[x])
              /\ x \notin {c, d} => sr[x] = reserves[x]
  <2>1. CASE x \in {c, d}
    BY <1>5, <1>7, <2>1, SeizedPairGains, SeizedPairIndexes
  <2>2. CASE x \notin {c, d}
    BY <2>2 DEF SeizedPair, RepaidPair, AccruedPair
  <2> QED BY <2>1, <2>2
<1>11. ASSUME NEW x \in Asset
       PROVE  /\ left[x] \in Nat /\ left[x] <= debt[b][x] /\ left[x] <= sr[x].totalScaledDebt
              /\ sr[x].totalScaledSupply <= reserves[x].totalScaledSupply
  <2>1. /\ debt[b][x] \in Nat /\ reserves[x].totalScaledSupply \in Nat
        /\ reserves[x].totalScaledDebt \in Nat
    BY <1>1 DEF TypeOK, ReserveData
  <2>2. debt[b][x] <= reserves[x].totalScaledDebt
    BY BalancesWithinTotals DEF PoolInv
  <2>3. left[x] = debt[b][x] - (IF x = d THEN db ELSE 0)
    BY <1>1 DEF TypeOK
  <2>4. /\ sr[x].totalScaledSupply = reserves[x].totalScaledSupply
                                       - (IF x = c /\ ~receiveSupply THEN cb ELSE 0)
        /\ sr[x].totalScaledDebt = reserves[x].totalScaledDebt - (IF x = d THEN db ELSE 0)
    BY <1>8
  <2> HIDE DEF left, sr
  <2> QED BY <1>7, <2>1, <2>2, <2>3, <2>4
<1>12. \A u \in User, x \in Asset \ {c} : supply'[u][x] = supply[u][x]
  <2>1. supply \in [User -> [Asset -> Nat]]
    BY <1>1 DEF TypeOK
  <2>2. seizedSupply \in [User -> [Asset -> Int]]
        /\ \A u \in User, x \in Asset \ {c} : seizedSupply[u][x] = supply[u][x]
    BY <2>1, <1>7
  <2> HIDE DEF seizedSupply
  <2> QED BY <1>3, <2>2
<1>13. /\ borrowingLeft \subseteq borrowing[b]
       /\ written \subseteq borrowingLeft
       /\ written # {} => newBits[b] = {} /\ written = borrowingLeft
  BY Zenon DEF ClearBit, WrittenOff
<1>14. written # {} => collateral'[b] = {} /\ borrowing'[b] = {}
  <2>1. borrowing'[b] = borrowingLeft \ written
    BY <1>1, <1>3 DEF TypeOK
  <2> HIDE DEF written, borrowingLeft, newBits
  <2> QED BY <1>3, <1>13, <2>1
<1>15. \A u \in User \ {b} : /\ supply[u][c] <= supply'[u][c]
                             /\ collateral[u] \subseteq collateral'[u]
                             /\ borrowing'[u] = borrowing[u]
  <2> TAKE u \in User \ {b}
  <2>1. /\ supply \in [User -> [Asset -> Nat]] /\ collateral \in [User -> SUBSET Asset]
        /\ borrowing \in [User -> SUBSET Asset]
    BY <1>1 DEF TypeOK
  <2>2. supply[u][c] <= supply'[u][c]
    <3>1. seizedSupply \in [User -> [Asset -> Int]] /\ seizedSupply[u][c] = supply[u][c]
          /\ supply[u][c] \in Nat
      BY <2>1, <1>7
    <3> HIDE DEF seizedSupply
    <3> QED BY <1>3, <1>7, <3>1
  <2>3. collateral[u] \subseteq collateral'[u]
    <3>1. seizedBits \in [User -> SUBSET Asset] /\ seizedBits[u] = collateral[u]
      BY <2>1 DEF ClearBit
    <3> HIDE DEF seizedBits, enables
    <3> QED BY <1>3, <3>1
  <2>4. borrowing'[u] = borrowing[u]
    <3> HIDE DEF borrowingLeft, written
    <3> QED BY <1>3, <2>1
  <2> QED BY <2>2, <2>3, <2>4
<1> HIDE DEF sr, left, written, borrowingLeft
<1>16. LiquidationWrites(c, d, b, written, sr, left)
  BY <1>3, <1>4, <1>8, <1>9, <1>10, <1>11, <1>12, <1>13, <1>14, <1>15, Zenon DEF LiquidationWrites
<1> QED BY <1>16, Zenon
-----------------------------------------------------------------------------
(***************************************************************************)
(* Losses and configurations.                                              *)
(***************************************************************************)

\* A reserve reconfigured: accrued, then one of its two settings replaced.
Reconfigured(a) ==
    \/ \E config : reserves'[a] = UpdateRates([Accrue(reserves[a], now) EXCEPT !.config = config])
    \/ \E model :
          reserves'[a] = UpdateRates([Accrue(reserves[a], now) EXCEPT !.interestRateModel = model])

\* What a step may do to the settings of a listed reserve.
SettingsKept(a) ==
    IsListed(reserves[a]) => SameSetup(reserves[a], reserves'[a]) \/ Reconfigured(a)

\* LossWaterfall of one reserve.
LossBorne(a) ==
    reserves'[a].deficit > reserves[a].deficit =>
        /\ reserves'[a].accruedToTreasury = 0
        /\ \E u \in User : /\ debt[u][a] # 0
                           /\ collateral'[u] = {}
                           /\ \A b \in Asset : debt'[u][b] = 0

\* What a call on one reserve books after accruing it, apart from liquidations.
Booked(r, q) ==
    \E x, y : \/ q = [r EXCEPT !.totalScaledSupply = x, !.cash = y]
              \/ q = [r EXCEPT !.totalScaledDebt = x, !.cash = y]
              \/ q = [r EXCEPT !.accruedToTreasury = x, !.cash = y]
              \/ x \in Nat /\ q = [r EXCEPT !.deficit = r.deficit - x, !.cash = y]

\* Such a call leaves the settings alone and raises no deficit.
LEMMA BookedHarmless ==
    ASSUME PoolInv, NEW a \in Asset, NEW q, Booked(Accrue(reserves[a], now), q),
           reserves' = [reserves EXCEPT ![a] = UpdateRates(q)]
    PROVE  \A b \in Asset : SettingsKept(b) /\ LossBorne(b)
<1> DEFINE r == reserves[a]
           p == Accrue(r, now)
           s == UpdateRates(q)
<1>1. reserves \in [Asset -> ReserveData] /\ r.deficit \in Nat
  BY DEF PoolInv, TypeOK, ReserveData
<1>2. HasSetup(r)
  BY <1>1 DEF HasSetup, ReserveData
<1>3. SameSetup(r, p) /\ p.deficit = r.deficit /\ HasSetup(p)
  <2>1. SameSetup(r, p) /\ p.deficit = r.deficit
    BY <1>2, AccrueSetup
  <2> QED BY <1>2, <2>1 DEF SameSetup, HasSetup
<1>4. Booked(p, q)
  OBVIOUS
<1> HIDE DEF p
<1>5. /\ SameSetup(p, q) /\ HasSetup(q)
      /\ q.deficit = p.deficit \/ \E x \in Nat : q.deficit = p.deficit - x
  <2>1. PICK x, y : \/ q = [p EXCEPT !.totalScaledSupply = x, !.cash = y]
                    \/ q = [p EXCEPT !.totalScaledDebt = x, !.cash = y]
                    \/ q = [p EXCEPT !.accruedToTreasury = x, !.cash = y]
                    \/ x \in Nat /\ q = [p EXCEPT !.deficit = p.deficit - x, !.cash = y]
    BY <1>4, Zenon DEF Booked
  <2>2. CASE \/ q = [p EXCEPT !.totalScaledSupply = x, !.cash = y]
             \/ q = [p EXCEPT !.totalScaledDebt = x, !.cash = y]
             \/ q = [p EXCEPT !.accruedToTreasury = x, !.cash = y]
    BY <1>3, <2>2 DEF SameSetup, HasSetup
  <2>3. CASE x \in Nat /\ q = [p EXCEPT !.deficit = p.deficit - x, !.cash = y]
    BY <1>3, <2>3 DEF SameSetup, HasSetup
  <2> QED BY <2>1, <2>2, <2>3
<1>6. SameSetup(q, s) /\ s.deficit = q.deficit
  BY <1>5, RatesSetup
<1>7. reserves' = [reserves EXCEPT ![a] = s]
  OBVIOUS
<1> HIDE DEF s
<1>8. SameSetup(r, s)
  BY <1>3, <1>5, <1>6, SetupFollows
<1>9. ~(s.deficit > r.deficit)
  BY <1>1, <1>3, <1>5, <1>6
<1> TAKE b \in Asset
<1>10. CASE b = a
  <2>1. reserves'[b] = s /\ reserves[b] = r
    BY <1>1, <1>7, <1>10
  <2> HIDE DEF r
  <2> QED BY <1>8, <1>9, <2>1, Zenon DEF SettingsKept, LossBorne
<1>11. CASE b # a
  <2>1. reserves'[b] = reserves[b] /\ reserves[b].deficit \in Nat
    BY <1>1, <1>7, <1>11 DEF ReserveData
  <2>2. SameSetup(reserves[b], reserves'[b]) /\ ~(reserves'[b].deficit > reserves[b].deficit)
    BY <2>1 DEF SameSetup
  <2> QED BY <2>2, Zenon DEF SettingsKept, LossBorne
<1> QED BY <1>10, <1>11

\* Neither does a step that leaves the reserves alone.
LEMMA IdleHarmless ==
    ASSUME PoolInv, UNCHANGED reserves
    PROVE  \A b \in Asset : SettingsKept(b) /\ LossBorne(b)
<1> TAKE b \in Asset
<1>1. reserves'[b] = reserves[b] /\ reserves[b].deficit \in Nat
  BY DEF PoolInv, TypeOK, ReserveData
<1>2. SameSetup(reserves[b], reserves'[b]) /\ ~(reserves'[b].deficit > reserves[b].deficit)
  BY <1>1 DEF SameSetup
<1> QED BY <1>2, Zenon DEF SettingsKept, LossBorne

\* A liquidation leaves the settings alone, and a deficit that it raises has used up
\* its treasury and belongs to a borrower left with nothing.
LEMMA LiquidateBearsLoss ==
    ASSUME PoolInv, NEW sender \in User, NEW c \in Asset, NEW d \in Asset, NEW b \in User,
           NEW cover \in Amounts, NEW receiveSupply \in BOOLEAN,
           Liquidate(sender, c, d, b, cover, receiveSupply)
    PROVE  \A a \in Asset : SettingsKept(a) /\ LossBorne(a)
<1>1. PICK written, sr, left : LiquidationWrites(c, d, b, written, sr, left)
  BY LiquidationHasWrites
<1>2. TypeOK /\ BitmapInSync /\ BitmapInSync'
  BY LiquidateKeeps DEF PoolInv
<1> SUFFICES ASSUME NEW a \in Asset PROVE SettingsKept(a) /\ LossBorne(a)
  OBVIOUS
<1> DEFINE r == reserves[a]
           s == sr[a]
<1>3. /\ r \in ReserveData /\ now \in Nat \ {0} /\ r.deficit \in Nat
      /\ s \in ReserveData /\ SaneReserve(s, now)
      /\ IsListed(r) => IsListed(s)
      /\ SameSetup(r, s) /\ s.deficit = r.deficit
      /\ left[a] \in Nat
  BY <1>1, <1>2 DEF LiquidationWrites, TypeOK, ReserveData
<1>4. reserves'[a] = IF a \in written
                     THEN WriteOffAt(s, left[a], now)
                     ELSE IF a \in {c, d} THEN UpdateRates(s) ELSE r
  BY <1>1, Zenon DEF LiquidationWrites
<1>5. CASE a \in written
  <2>1. debt[b][a] # 0 /\ collateral'[b] = {} /\ \A x \in Asset : debt'[b][x] = 0
    <3>1. a \in borrowing[b] /\ collateral'[b] = {} /\ borrowing'[b] = {}
      BY <1>1, <1>5 DEF LiquidationWrites
    <3> QED BY <1>2, <3>1 DEF BitmapInSync
  <2>2. IsListed(r)
    <3>1. debt[b][a] \in Nat /\ debt[b][a] <= r.totalScaledDebt
      BY BalancesWithinTotals DEF PoolInv
    <3>2. r.totalScaledDebt # 0
      BY <2>1, <3>1
    <3> QED BY <3>2 DEF PoolInv, ReservesSane, SaneReserve
  <2> DEFINE w == WriteOffAt(s, left[a], now)
  <2>3. SameSetup(s, w) /\ (w.deficit > s.deficit => w.accruedToTreasury = 0)
    BY <1>3, <2>2, WriteOffSpendsTreasury
  <2>4. reserves'[a] = w
    BY <1>4, <1>5
  <2> HIDE DEF w, s
  <2>5. SameSetup(r, w)
    BY <1>3, <2>3, SetupFollows
  <2> QED BY <1>3, <2>1, <2>3, <2>4, <2>5, Zenon DEF SettingsKept, LossBorne
<1>6. CASE a \notin written /\ a \in {c, d}
  <2> DEFINE w == UpdateRates(s)
  <2>1. SameSetup(s, w) /\ w.deficit = s.deficit
    BY <1>3, RatesSetup DEF HasSetup, ReserveData
  <2>2. reserves'[a] = w
    BY <1>4, <1>6
  <2> HIDE DEF w, s
  <2>3. SameSetup(r, w)
    BY <1>3, <2>1, SetupFollows
  <2>4. ~(w.deficit > r.deficit)
    BY <1>3, <2>1
  <2> QED BY <2>2, <2>3, <2>4, Zenon DEF SettingsKept, LossBorne
<1>7. CASE a \notin written /\ a \notin {c, d}
  <2>1. reserves'[a] = r
    BY <1>4, <1>7
  <2>2. SameSetup(r, reserves'[a]) /\ ~(reserves'[a].deficit > r.deficit)
    BY <1>3, <2>1 DEF SameSetup
  <2> QED BY <2>2, Zenon DEF SettingsKept, LossBorne
<1> QED BY <1>5, <1>6, <1>7

\* Nor does listing a reserve, or reconfiguring one, raise a deficit.
LEMMA ReconfiguringHarmless ==
    ASSUME PoolInv, NEW a \in Asset, NEW s, reserves' = [reserves EXCEPT ![a] = s],
           \/ ~IsListed(reserves[a]) /\ \E config, model : s = NewReserve(config, model, now)
           \/ \E config : s = UpdateRates([Accrue(reserves[a], now) EXCEPT !.config = config])
           \/ \E model :
                 s = UpdateRates([Accrue(reserves[a], now) EXCEPT !.interestRateModel = model])
    PROVE  \A b \in Asset : SettingsKept(b) /\ LossBorne(b)
<1> DEFINE r == reserves[a]
           p == Accrue(r, now)
<1>1. reserves \in [Asset -> ReserveData] /\ r.deficit \in Nat
  BY DEF PoolInv, TypeOK, ReserveData
<1>2. HasSetup(r)
  BY <1>1 DEF HasSetup, ReserveData
<1>3. p.deficit = r.deficit /\ HasSetup(p)
  <2>1. SameSetup(r, p) /\ p.deficit = r.deficit
    BY <1>2, AccrueSetup
  <2> QED BY <1>2, <2>1 DEF SameSetup, HasSetup
<1>4. reserves'[a] = s /\ \A b \in Asset \ {a} : reserves'[b] = reserves[b]
  BY <1>1
<1>5. ASSUME NEW b \in Asset \ {a} PROVE SettingsKept(b) /\ LossBorne(b)
  <2>1. reserves'[b] = reserves[b] /\ reserves[b].deficit \in Nat
    BY <1>1, <1>4 DEF ReserveData
  <2>2. SameSetup(reserves[b], reserves'[b]) /\ ~(reserves'[b].deficit > reserves[b].deficit)
    BY <2>1 DEF SameSetup
  <2> QED BY <2>2, Zenon DEF SettingsKept, LossBorne
<1>6. ASSUME ~IsListed(r), NEW config, NEW model, s = NewReserve(config, model, now)
      PROVE  SettingsKept(a) /\ LossBorne(a)
  <2> DEFINE q == [UnlistedReserve EXCEPT !.config = config, !.liquidityIndex = RAY,
                                          !.borrowIndex = RAY, !.interestRateModel = model,
                                          !.lastUpdateTimestamp = now]
  <2>1. HasSetup(q) /\ q.deficit = 0
    BY DEF HasSetup, UnlistedReserve
  <2>2. s = UpdateRates(q)
    BY <1>6, Zenon DEF NewReserve
  <2> HIDE DEF q
  <2>3. s.deficit = 0
    BY <2>1, <2>2, RatesSetup
  <2>4. ~(s.deficit > r.deficit)
    BY <1>1, <2>3
  <2> QED BY <1>4, <1>6, <2>4, Zenon DEF SettingsKept, LossBorne
<1>7. ASSUME NEW config, s = UpdateRates([p EXCEPT !.config = config])
      PROVE  SettingsKept(a) /\ LossBorne(a)
  <2> DEFINE q == [p EXCEPT !.config = config]
  <2>1. HasSetup(q) /\ q.deficit = r.deficit
    BY <1>3 DEF HasSetup
  <2> HIDE DEF q
  <2>2. s.deficit = r.deficit
    BY <1>7, <2>1, RatesSetup DEF q
  <2>3. ~(s.deficit > r.deficit)
    BY <1>1, <2>2
  <2> QED BY <1>4, <1>7, <2>3, Zenon DEF SettingsKept, LossBorne, Reconfigured
<1>8. ASSUME NEW model, s = UpdateRates([p EXCEPT !.interestRateModel = model])
      PROVE  SettingsKept(a) /\ LossBorne(a)
  <2> DEFINE q == [p EXCEPT !.interestRateModel = model]
  <2>1. HasSetup(q) /\ q.deficit = r.deficit
    BY <1>3 DEF HasSetup
  <2> HIDE DEF q
  <2>2. s.deficit = r.deficit
    BY <1>8, <2>1, RatesSetup DEF q
  <2>3. ~(s.deficit > r.deficit)
    BY <1>1, <2>2
  <2> QED BY <1>4, <1>8, <2>3, Zenon DEF SettingsKept, LossBorne, Reconfigured
<1>9. SettingsKept(a) /\ LossBorne(a)
  <2> HIDE DEF p, r
  <2> QED BY <1>6, <1>7, <1>8, Zenon DEF p, r
<1> QED BY <1>5, <1>9

\* Every step leaves the settings of a listed reserve alone or reconfigures it after
\* accruing, and raises a deficit only as the waterfall allows.
LEMMA StepBears ==
    ASSUME PoolInv, [Next]_vars
    PROVE  \A a \in Asset : SettingsKept(a) /\ LossBorne(a)
<1>1. CASE UNCHANGED reserves
  BY <1>1, IdleHarmless
<1>2. CASE \E a \in Asset : \E q : /\ Booked(Accrue(reserves[a], now), q)
                                     /\ reserves' = [reserves EXCEPT ![a] = UpdateRates(q)]
  BY <1>2, BookedHarmless
<1>3. CASE UserNext
  <2>1. PICK sender \in User, a \in Asset :
          \/ \E amount \in Amounts :
               \/ \E onBehalfOf \in Beneficiaries[sender] : Supply(sender, a, amount, onBehalfOf)
               \/ \E to \in Beneficiaries[sender] : Withdraw(sender, a, amount, to)
               \/ Borrow(sender, a, amount)
               \/ \E onBehalfOf \in Beneficiaries[sender] : Repay(sender, a, amount, onBehalfOf)
               \/ \E c \in Asset, b \in User, receiveSupply \in BOOLEAN :
                      Liquidate(sender, c, a, b, amount, receiveSupply)
               \/ CoverDeficit(sender, a, amount)
          \/ \E enabled \in BOOLEAN : SetUseReserveAsCollateral(sender, a, enabled)
    BY <1>3, Zenon DEF UserNext
  <2>2. CASE \E enabled \in BOOLEAN : SetUseReserveAsCollateral(sender, a, enabled)
    BY <2>2, <1>1, Zenon DEF SetUseReserveAsCollateral
  <2>3. CASE \E amount \in Amounts, v \in Beneficiaries[sender] : Supply(sender, a, amount, v)
    <3>1. PICK x, y : reserves' = [reserves EXCEPT ![a] = UpdateRates(
                [Accrue(reserves[a], now) EXCEPT !.totalScaledSupply = x, !.cash = y])]
      BY <2>3, Zenon DEF Supply, SupplyPaidBy
    <3>2. \E q : /\ Booked(Accrue(reserves[a], now), q)
                 /\ reserves' = [reserves EXCEPT ![a] = UpdateRates(q)]
      BY <3>1, Zenon DEF Booked
    <3> QED BY <3>2, <1>2
  <2>4. CASE \E amount \in Amounts, v \in Beneficiaries[sender] : Withdraw(sender, a, amount, v)
    <3>1. PICK x, y : reserves' = [reserves EXCEPT ![a] = UpdateRates(
                [Accrue(reserves[a], now) EXCEPT !.totalScaledSupply = x, !.cash = y])]
      BY <2>4, Zenon DEF Withdraw
    <3>2. \E q : /\ Booked(Accrue(reserves[a], now), q)
                 /\ reserves' = [reserves EXCEPT ![a] = UpdateRates(q)]
      BY <3>1, Zenon DEF Booked
    <3> QED BY <3>2, <1>2
  <2>5. CASE \E amount \in Amounts : Borrow(sender, a, amount)
    <3>1. PICK x, y : reserves' = [reserves EXCEPT ![a] = UpdateRates(
                [Accrue(reserves[a], now) EXCEPT !.totalScaledDebt = x, !.cash = y])]
      BY <2>5, Zenon DEF Borrow
    <3>2. \E q : /\ Booked(Accrue(reserves[a], now), q)
                 /\ reserves' = [reserves EXCEPT ![a] = UpdateRates(q)]
      BY <3>1, Zenon DEF Booked
    <3> QED BY <3>2, <1>2
  <2>6. CASE \E amount \in Amounts, v \in Beneficiaries[sender] : Repay(sender, a, amount, v)
    <3>1. PICK x, y : reserves' = [reserves EXCEPT ![a] = UpdateRates(
                [Accrue(reserves[a], now) EXCEPT !.totalScaledDebt = x, !.cash = y])]
      BY <2>6, Zenon DEF Repay
    <3>2. \E q : /\ Booked(Accrue(reserves[a], now), q)
                 /\ reserves' = [reserves EXCEPT ![a] = UpdateRates(q)]
      BY <3>1, Zenon DEF Booked
    <3> QED BY <3>2, <1>2
  <2>7. CASE \E amount \in Amounts : CoverDeficit(sender, a, amount)
    <3>1. PICK amount \in Amounts : CoverDeficit(sender, a, amount)
      BY <2>7
    <3> DEFINE r == Accrue(reserves[a], now)
               covered == IF amount > r.deficit THEN r.deficit ELSE amount
               q == [r EXCEPT !.deficit = r.deficit - covered, !.cash = r.cash + covered]
    <3>2. reserves' = [reserves EXCEPT ![a] = UpdateRates(q)]
      BY <3>1, Zenon DEF CoverDeficit
    <3>3. reserves[a].deficit \in Nat /\ amount \in Nat
      BY PoolAssumption DEF PoolInv, TypeOK, ReserveData
    <3>4. r.deficit = reserves[a].deficit
      <4>1. HasSetup(reserves[a])
        BY DEF PoolInv, TypeOK, ReserveData, HasSetup
      <4> QED BY <4>1, AccrueSetup
    <3> HIDE DEF r
    <3>5. covered \in Nat
      BY <3>3, <3>4
    <3> HIDE DEF covered
    <3>6. Booked(r, q)
      BY <3>5, Zenon DEF Booked
    <3> HIDE DEF q
    <3> QED BY <3>2, <3>6, BookedHarmless DEF r
  <2>8. CASE \E amount \in Amounts, c \in Asset, b \in User, receiveSupply \in BOOLEAN :
                 Liquidate(sender, c, a, b, amount, receiveSupply)
    <3>1. PICK amount \in Amounts, c \in Asset, b \in User, receiveSupply \in BOOLEAN :
                  Liquidate(sender, c, a, b, amount, receiveSupply)
      BY <2>8, Zenon
    <3> QED BY <3>1, LiquidateBearsLoss
  <2> QED BY <2>1, <2>2, <2>3, <2>4, <2>5, <2>6, <2>7, <2>8, Zenon
<1>4. CASE ConfiguratorNext
  <2>1. CASE \E a \in Asset : \E model \in RateModels[a], config \in Configs[a] :
                 InitReserve(a, model, config)
    BY <2>1, ReconfiguringHarmless, Zenon DEF InitReserve
  <2>2. CASE \E a \in Asset : \E config \in Configs[a] : SetReserveConfig(a, config)
    BY <2>2, ReconfiguringHarmless, Zenon DEF SetReserveConfig, Configured
  <2>3. CASE \E a \in Asset : \E model \in RateModels[a] : SetInterestRateModel(a, model)
    BY <2>3, ReconfiguringHarmless, Zenon DEF SetInterestRateModel
  <2>4. CASE \E a \in Asset, amount \in Amounts, to \in User : WithdrawReserves(a, amount, to)
    <3>0. PICK a \in Asset : \E amount \in Amounts, to \in User : WithdrawReserves(a, amount, to)
      BY <2>4
    <3>1. PICK x, y : reserves' = [reserves EXCEPT ![a] = UpdateRates(
                [Accrue(reserves[a], now) EXCEPT !.accruedToTreasury = x, !.cash = y])]
      BY <3>0, Zenon DEF WithdrawReserves
    <3>2. \E q : /\ Booked(Accrue(reserves[a], now), q)
                 /\ reserves' = [reserves EXCEPT ![a] = UpdateRates(q)]
      BY <3>1, Zenon DEF Booked
    <3> QED BY <3>2, <1>2
  <2>5. CASE \/ \E newPaused \in Pauses : SetPoolPaused(newPaused)
             \/ \E period \in GracePeriods : SetLiquidationGracePeriod(period)
    BY <2>5, <1>1, Zenon DEF SetPoolPaused, SetLiquidationGracePeriod
  <2> QED BY <1>4, <2>1, <2>2, <2>3, <2>4, <2>5, Zenon DEF ConfiguratorNext
<1>5. CASE EnvironmentNext
  BY <1>5, <1>1, Zenon DEF EnvironmentNext, Tick, SetPrice
<1>6. CASE UNCHANGED vars
  BY <1>6, <1>1, Zenon DEF vars
<1> QED BY <1>3, <1>4, <1>5, <1>6, Zenon DEF Next

\* What a reserve's holders can claim and owe at time t, as its views project it.
SameClaims(r, s, t) ==
    /\ TotalSupplyLiabilities(s, t) = TotalSupplyLiabilities(r, t)
    /\ TotalBorrowed(s, t) = TotalBorrowed(r, t)
    /\ TreasuryScaledNow(s, t) = TreasuryScaledNow(r, t)

\* A reconfigured reserve stores exactly what its views projected before.
LEMMA ReconfiguredClaims ==
    ASSUME NEW r \in ReserveData, NEW t \in Nat, SaneReserve(r, t), IsListed(r),
           NEW q, NEW s,
           \/ \E config : q = [Accrue(r, t) EXCEPT !.config = config]
           \/ \E model : q = [Accrue(r, t) EXCEPT !.interestRateModel = model],
           s = UpdateRates(q)
    PROVE  SameClaims(r, s, t)
<1> DEFINE p == Accrue(r, t)
<1>1. /\ p \in ReserveData
      /\ p.totalScaledSupply = r.totalScaledSupply
      /\ p.totalScaledDebt = r.totalScaledDebt
      /\ p.lastUpdateTimestamp = t
  BY AccruedReserve
<1>2. /\ NormalizedIncome(r, t) = p.liquidityIndex
      /\ NormalizedDebt(r, t) = p.borrowIndex
      /\ TreasuryScaledNow(r, t) = p.accruedToTreasury
  <2>1. r.lastUpdateTimestamp <= t
    BY DEF SaneReserve
  <2> QED BY <2>1, ViewsAreAccrue
<1> HIDE DEF p
<1>3. PICK l, b : s = [q EXCEPT !.liquidityRate = l, !.borrowRate = b]
  BY Zenon DEF UpdateRates
<1>4. /\ s.totalScaledSupply = p.totalScaledSupply
      /\ s.totalScaledDebt = p.totalScaledDebt
      /\ s.lastUpdateTimestamp = t
      /\ s.liquidityIndex = p.liquidityIndex
      /\ s.borrowIndex = p.borrowIndex
      /\ s.accruedToTreasury = p.accruedToTreasury
  <2>1. CASE \E config : q = [p EXCEPT !.config = config]
    BY <1>1, <1>3, <2>1 DEF ReserveData
  <2>2. CASE \E model : q = [p EXCEPT !.interestRateModel = model]
    BY <1>1, <1>3, <2>2 DEF ReserveData
  <2> QED BY <2>1, <2>2 DEF p
<1>5. /\ NormalizedIncome(s, t) = p.liquidityIndex
      /\ NormalizedDebt(s, t) = p.borrowIndex
      /\ TreasuryScaledNow(s, t) = p.accruedToTreasury
  BY <1>4, Zenon DEF NormalizedIncome, NormalizedDebt, TreasuryScaledNow
<1> QED BY <1>1, <1>2, <1>4, <1>5, Zenon DEF SameClaims, TotalSupplyLiabilities, TotalBorrowed

\* A loss reaches a deficit only after the treasury, and only from a borrower left
\* without collateral and without debt.
THEOREM LossesFollowWaterfall == Spec => LossWaterfall
<1> DEFINE Borne ==
        \A a \in Asset : reserves'[a].deficit > reserves[a].deficit =>
          /\ reserves'[a].accruedToTreasury = 0
          /\ \E u \in User : /\ debt[u][a] # 0
                             /\ collateral'[u] = {}
                             /\ \A b \in Asset : debt'[u][b] = 0
<1>1. PoolInv /\ [Next]_vars => Borne
  <2> SUFFICES ASSUME PoolInv, [Next]_vars, NEW a \in Asset PROVE LossBorne(a)
    BY Zenon DEF LossBorne
  <2> QED BY StepBears
<1> QED BY <1>1, PoolInvariant, PTL DEF Spec, LossWaterfall

\* A configuration or a rate model applies to no time before it was set.
THEOREM ReconfigurationNotRetroactive == Spec => ConfigNotRetroactive
<1> DEFINE NotRetroactive ==
        \A a \in Asset :
          LET r == reserves[a]
              s == reserves'[a]
          IN  /\ IsListed(r)
              /\ s.config # r.config \/ s.interestRateModel # r.interestRateModel
              => /\ TotalSupplyLiabilities(s, now) = TotalSupplyLiabilities(r, now)
                 /\ TotalBorrowed(s, now) = TotalBorrowed(r, now)
                 /\ TreasuryScaledNow(s, now) = TreasuryScaledNow(r, now)
<1>1. PoolInv /\ [Next]_vars => NotRetroactive
  <2> SUFFICES ASSUME PoolInv, [Next]_vars, NEW a \in Asset, IsListed(reserves[a]),
                      ~SameSetup(reserves[a], reserves'[a])
               PROVE  SameClaims(reserves[a], reserves'[a], now)
    BY Zenon DEF SameSetup, SameClaims
  <2>1. Reconfigured(a)
    BY StepBears DEF SettingsKept
  <2>2. PICK q : /\ \/ \E config : q = [Accrue(reserves[a], now) EXCEPT !.config = config]
                    \/ \E model : q = [Accrue(reserves[a], now) EXCEPT !.interestRateModel = model]
                 /\ reserves'[a] = UpdateRates(q)
    BY <2>1, Zenon DEF Reconfigured
  <2>3. reserves[a] \in ReserveData /\ now \in Nat /\ SaneReserve(reserves[a], now)
    BY DEF PoolInv, TypeOK, ReservesSane
  <2> QED BY <2>2, <2>3, ReconfiguredClaims
<1> QED BY <1>1, PoolInvariant, PTL DEF Spec, ConfigNotRetroactive
-----------------------------------------------------------------------------
(***************************************************************************)
(* The emergency matrix.                                                   *)
(***************************************************************************)

\* EmergencyMatrix of one account and one reserve.
MatrixKept(u, a) ==
    /\ paused \/ reserves[a].config.paused =>
         supply'[u][a] = supply[u][a] /\ debt'[u][a] <= debt[u][a]
    /\ paused => collateral'[u] = collateral[u]
    /\ reserves[a].config.frozen =>
         /\ debt'[u][a] <= debt[u][a]
         /\ reserves'[a].totalScaledSupply <= reserves[a].totalScaledSupply

\* What the matrix asks of an account in a call on reserve a.
AccountWithin(u, a) ==
    /\ \A b \in Asset \ {a} : supply'[u][b] = supply[u][b] /\ debt'[u][b] = debt[u][b]
    /\ paused \/ reserves[a].config.paused => supply'[u][a] = supply[u][a]
    /\ paused \/ reserves[a].config.paused \/ reserves[a].config.frozen =>
         debt'[u][a] <= debt[u][a]
    /\ paused => collateral'[u] = collateral[u]

\* A call that writes one reserve is judged there.
LEMMA CallWithinMatrix ==
    ASSUME PoolInv, NEW a \in Asset, NEW s, reserves' = [reserves EXCEPT ![a] = s],
           reserves[a].config.frozen => s.totalScaledSupply <= reserves[a].totalScaledSupply,
           \A u \in User : AccountWithin(u, a)
    PROVE  \A u \in User, b \in Asset : MatrixKept(u, b)
<1> TAKE u \in User, b \in Asset
<1>1. /\ reserves \in [Asset -> ReserveData]
      /\ debt[u][b] \in Nat /\ reserves[b].totalScaledSupply \in Nat
  BY DEF PoolInv, TypeOK, ReserveData
<1>2. AccountWithin(u, a)
  OBVIOUS
<1>3. CASE b = a
  <2>1. reserves'[b] = s
    BY <1>1, <1>3
  <2> QED BY <1>2, <1>3, <2>1, Zenon DEF AccountWithin, MatrixKept
<1>4. CASE b # a
  <2>1. reserves'[b] = reserves[b]
    BY <1>1, <1>4
  <2>2. supply'[u][b] = supply[u][b] /\ debt'[u][b] = debt[u][b]
    BY <1>2, <1>4 DEF AccountWithin
  <2>3. debt'[u][b] <= debt[u][b] /\ reserves'[b].totalScaledSupply <= reserves[b].totalScaledSupply
    BY <1>1, <2>1, <2>2
  <2> QED BY <1>2, <2>2, <2>3, Zenon DEF AccountWithin, MatrixKept
<1> QED BY <1>3, <1>4

\* Accruing and updating the rates leave the supply total alone.
LEMMA TotalFrame ==
    ASSUME NEW r, "totalScaledSupply" \in DOMAIN r, NEW t
    PROVE  /\ "totalScaledSupply" \in DOMAIN Accrue(r, t)
           /\ Accrue(r, t).totalScaledSupply = r.totalScaledSupply
           /\ UpdateRates(r).totalScaledSupply = r.totalScaledSupply
<1>1. PICK li, bi, tr :
        \/ Accrue(r, t) = r
        \/ Accrue(r, t) = [r EXCEPT !.liquidityIndex = li, !.lastUpdateTimestamp = t]
        \/ Accrue(r, t) = [r EXCEPT !.liquidityIndex = li, !.borrowIndex = bi,
                                    !.accruedToTreasury = tr, !.lastUpdateTimestamp = t]
  BY Zenon DEF Accrue
<1>2. PICK l, b : UpdateRates(r) = [r EXCEPT !.liquidityRate = l, !.borrowRate = b]
  BY Zenon DEF UpdateRates
<1> QED BY <1>1, <1>2

\* A step that leaves the accounts alone and books no supply keeps the matrix.
LEMMA QuietWithinMatrix ==
    ASSUME PoolInv, NEW a \in Asset, NEW q, UNCHANGED accountVars,
           reserves' = [reserves EXCEPT ![a] = UpdateRates(q)],
           "totalScaledSupply" \in DOMAIN q,
           q.totalScaledSupply = reserves[a].totalScaledSupply
    PROVE  \A u \in User, b \in Asset : MatrixKept(u, b)
<1>1. reserves[a].totalScaledSupply \in Nat /\ \A u \in User, b \in Asset : debt[u][b] \in Nat
  BY DEF PoolInv, TypeOK, ReserveData
<1>2. \A u \in User : AccountWithin(u, a)
  <2>1. supply' = supply /\ debt' = debt /\ collateral' = collateral
    BY DEF accountVars
  <2> QED BY <1>1, <2>1 DEF AccountWithin
<1> DEFINE s == UpdateRates(q)
<1>3. s.totalScaledSupply <= reserves[a].totalScaledSupply
  BY <1>1, TotalFrame
<1>4. reserves' = [reserves EXCEPT ![a] = s]
  OBVIOUS
<1> HIDE DEF s
<1> QED BY <1>2, <1>3, <1>4, CallWithinMatrix

\* Supplying needs an unpaused, unfrozen reserve.
LEMMA SupplyWithinMatrix ==
    ASSUME PoolInv, NEW sender \in User, NEW a \in Asset, NEW amount, NEW v \in User,
           Supply(sender, a, amount, v)
    PROVE  \A u \in User, b \in Asset : MatrixKept(u, b)
<1>1. PICK x, s : /\ supply' = [supply EXCEPT ![v][a] = x]
                  /\ reserves' = [reserves EXCEPT ![a] = s]
  BY Zenon DEF Supply, SupplyPaidBy
<1>2. /\ ~paused /\ ~reserves[a].config.paused /\ ~reserves[a].config.frozen
      /\ debt' = debt
  BY Zenon DEF Supply, SupplyPaidBy, AcceptsSupply, ValidateSupply, Operational
<1>3. supply \in [User -> [Asset -> Nat]]
  BY DEF PoolInv, TypeOK
<1>4. \A u \in User, b \in Asset \ {a} : supply'[u][b] = supply[u][b]
  BY <1>1, <1>3
<1>5. \A u \in User : AccountWithin(u, a)
  BY <1>2, <1>4, Zenon DEF AccountWithin
<1> QED BY <1>1, <1>2, <1>5, CallWithinMatrix

\* So does borrowing.
LEMMA BorrowWithinMatrix ==
    ASSUME PoolInv, NEW sender \in User, NEW a \in Asset, NEW amount,
           Borrow(sender, a, amount)
    PROVE  \A u \in User, b \in Asset : MatrixKept(u, b)
<1>1. PICK x, s : /\ debt' = [debt EXCEPT ![sender] = [debt[sender] EXCEPT ![a] = x]]
                  /\ reserves' = [reserves EXCEPT ![a] = s]
  BY Zenon DEF Borrow
<1>2. /\ ~paused /\ ~reserves[a].config.paused /\ ~reserves[a].config.frozen
      /\ supply' = supply
  BY Zenon DEF Borrow, AcceptsBorrow, ValidateBorrow, Operational
<1>3. debt \in [User -> [Asset -> Nat]]
  BY DEF PoolInv, TypeOK
<1>4. \A u \in User, b \in Asset \ {a} : debt'[u][b] = debt[u][b]
  BY <1>1, <1>3
<1>5. \A u \in User : AccountWithin(u, a)
  BY <1>2, <1>4, Zenon DEF AccountWithin
<1> QED BY <1>1, <1>2, <1>5, CallWithinMatrix

\* Withdrawing needs an unpaused reserve, and lowers its supply.
LEMMA WithdrawWithinMatrix ==
    ASSUME PoolInv, NEW sender \in User, NEW a \in Asset, NEW amount \in Amounts, NEW to,
           Withdraw(sender, a, amount, to)
    PROVE  \A u \in User, b \in Asset : MatrixKept(u, b)
<1> DEFINE r == Accrue(reserves[a], now)
           all == amount = MaxUint \/ amount = RayMulDown(supply[sender][a], r.liquidityIndex)
           burn == IF all THEN supply[sender][a] ELSE RayDivUp(amount, r.liquidityIndex)
<1>1. PICK y : reserves' = [reserves EXCEPT ![a] = UpdateRates(
                 [r EXCEPT !.totalScaledSupply = r.totalScaledSupply - burn, !.cash = y])]
  BY Zenon DEF Withdraw
<1>2. /\ ~paused /\ ~reserves[a].config.paused /\ reserves[a].config.active
      /\ supply' = [supply EXCEPT ![sender] = [supply[sender] EXCEPT ![a] = @ - burn]]
      /\ debt' = debt
  BY Zenon DEF Withdraw, AcceptsWithdraw, Operational
<1>3. /\ supply \in [User -> [Asset -> Nat]] /\ amount \in Nat
      /\ debt \in [User -> [Asset -> Nat]]
      /\ reserves[a].totalScaledSupply \in Nat
  BY PoolAssumption DEF PoolInv, TypeOK, ReserveData
<1>4. /\ r.liquidityIndex \in Nat \ {0} /\ r \in ReserveData
      /\ r.totalScaledSupply = reserves[a].totalScaledSupply
  BY <1>2, ActiveIsListed, Accrued
<1> HIDE DEF r
<1>5. burn \in Nat
  BY <1>3, <1>4, RayType
<1> HIDE DEF burn
<1> DEFINE q == [r EXCEPT !.totalScaledSupply = r.totalScaledSupply - burn, !.cash = y]
           s == UpdateRates(q)
<1>6. "totalScaledSupply" \in DOMAIN q /\ q.totalScaledSupply <= reserves[a].totalScaledSupply
  BY <1>3, <1>4, <1>5 DEF ReserveData
<1>7. reserves' = [reserves EXCEPT ![a] = s]
  BY <1>1
<1> HIDE DEF q
<1>8. s.totalScaledSupply <= reserves[a].totalScaledSupply
  BY <1>6, TotalFrame
<1> HIDE DEF s
<1>9. \A u \in User, b \in Asset \ {a} : supply'[u][b] = supply[u][b]
  BY <1>2, <1>3
<1>10. \A u \in User : debt'[u][a] <= debt[u][a]
  BY <1>2, <1>3
<1>11. \A u \in User : AccountWithin(u, a)
  BY <1>2, <1>9, <1>10, Zenon DEF AccountWithin
<1> QED BY <1>7, <1>8, <1>11, CallWithinMatrix

\* Repaying, paused or not, lowers one debt.
LEMMA RepayWithinMatrix ==
    ASSUME PoolInv, NEW sender \in User, NEW a \in Asset, NEW amount \in Amounts, NEW v \in User,
           Repay(sender, a, amount, v)
    PROVE  \A u \in User, b \in Asset : MatrixKept(u, b)
<1> DEFINE r == Accrue(reserves[a], now)
           burn == IF amount >= RayMulUp(debt[v][a], r.borrowIndex)
                   THEN debt[v][a]
                   ELSE RayDivDown(amount, r.borrowIndex)
<1>1. PICK x, y : reserves' = [reserves EXCEPT ![a] = UpdateRates(
                    [r EXCEPT !.totalScaledDebt = x, !.cash = y])]
  BY Zenon DEF Repay
<1>2. /\ reserves[a].config.active
      /\ debt' = [debt EXCEPT ![v][a] = @ - burn]
      /\ supply' = supply /\ collateral' = collateral
  BY Zenon DEF Repay, AcceptsRepay, ValidateRepay
<1>3. /\ debt \in [User -> [Asset -> Nat]] /\ amount \in Nat
      /\ reserves[a].totalScaledSupply \in Nat
  BY PoolAssumption DEF PoolInv, TypeOK, ReserveData
<1>4. /\ r.borrowIndex \in Nat \ {0} /\ r \in ReserveData
      /\ r.totalScaledSupply = reserves[a].totalScaledSupply
  BY <1>2, ActiveIsListed, Accrued
<1> HIDE DEF r
<1>5. burn \in Nat
  BY <1>3, <1>4, RayType
<1> HIDE DEF burn
<1> DEFINE q == [r EXCEPT !.totalScaledDebt = x, !.cash = y]
           s == UpdateRates(q)
<1>6. "totalScaledSupply" \in DOMAIN q /\ q.totalScaledSupply = reserves[a].totalScaledSupply
  BY <1>4 DEF ReserveData
<1>7. reserves' = [reserves EXCEPT ![a] = s]
  BY <1>1
<1> HIDE DEF q
<1>8. s.totalScaledSupply <= reserves[a].totalScaledSupply
  <2>1. s.totalScaledSupply = reserves[a].totalScaledSupply
    BY <1>6, TotalFrame
  <2> QED BY <1>3, <2>1
<1> HIDE DEF s
<1>9. /\ \A u \in User, b \in Asset \ {a} : debt'[u][b] = debt[u][b]
      /\ \A u \in User : debt'[u][a] <= debt[u][a]
  BY <1>2, <1>3, <1>5
<1>10. \A u \in User : AccountWithin(u, a)
  BY <1>2, <1>9, Zenon DEF AccountWithin
<1> QED BY <1>7, <1>8, <1>10, CallWithinMatrix

\* A liquidation needs two unpaused reserves: it moves supply in one of them, and
\* elsewhere it only clears debts.
LEMMA LiquidateWithinMatrix ==
    ASSUME PoolInv, NEW sender \in User, NEW c \in Asset, NEW d \in Asset, NEW b \in User,
           NEW cover \in Amounts, NEW receiveSupply \in BOOLEAN,
           Liquidate(sender, c, d, b, cover, receiveSupply)
    PROVE  \A u \in User, a \in Asset : MatrixKept(u, a)
<1>1. PICK written, sr, left : LiquidationWrites(c, d, b, written, sr, left)
  BY LiquidationHasWrites
<1>2. ~paused /\ ~reserves[c].config.paused
  BY Zenon DEF Liquidate, ValidateLiquidationReserve
<1> SUFFICES ASSUME NEW u \in User, NEW a \in Asset PROVE MatrixKept(u, a)
  OBVIOUS
<1> DEFINE r == reserves[a]
           s == sr[a]
<1>3. /\ debt \in [User -> [Asset -> Nat]] /\ debt[u][a] \in Nat
      /\ r \in ReserveData /\ r.totalScaledSupply \in Nat /\ now \in Nat \ {0}
      /\ s \in ReserveData /\ SaneReserve(s, now)
      /\ s.totalScaledSupply <= r.totalScaledSupply
      /\ left[a] \in Nat /\ left[a] <= s.totalScaledDebt /\ left[a] <= debt[b][a]
      /\ debt[b][a] \in Nat
  BY <1>1 DEF LiquidationWrites, PoolInv, TypeOK, ReserveData
<1>4. debt'[u][a] <= debt[u][a]
  <2> DEFINE row == [x \in Asset |-> IF x \in written THEN 0 ELSE left[x]]
  <2>1. debt' = [debt EXCEPT ![b] = row]
    BY <1>1, Zenon DEF LiquidationWrites
  <2>2. row[a] <= debt[b][a]
    BY <1>3
  <2> HIDE DEF row
  <2>3. CASE u = b
    BY <1>3, <2>1, <2>2, <2>3
  <2>4. CASE u # b
    BY <1>3, <2>1, <2>4
  <2> QED BY <2>3, <2>4
<1>5. a # c => supply'[u][a] = supply[u][a]
  BY <1>1, Zenon DEF LiquidationWrites
<1>6. reserves'[a].totalScaledSupply <= r.totalScaledSupply
  <2>1. reserves'[a] = IF a \in written
                       THEN WriteOffAt(s, left[a], now)
                       ELSE IF a \in {c, d} THEN UpdateRates(s) ELSE r
    BY <1>1, Zenon DEF LiquidationWrites
  <2>2. CASE a \in written
    <3>1. a \in borrowing[b]
      BY <1>1, <2>2 DEF LiquidationWrites
    <3>2. debt[b][a] # 0
      BY <3>1 DEF PoolInv, BitmapInSync
    <3>3. IsListed(r)
      <4>1. debt[b][a] <= r.totalScaledDebt
        BY BalancesWithinTotals DEF PoolInv
      <4>2. r.totalScaledDebt # 0
        BY <1>3, <3>2, <4>1
      <4> QED BY <4>2 DEF PoolInv, ReservesSane, SaneReserve
    <3>4. IsListed(s)
      BY <1>1, <3>3, Zenon DEF LiquidationWrites
    <3> DEFINE w == WriteOffAt(s, left[a], now)
    <3>5. w.totalScaledSupply = s.totalScaledSupply
      BY <1>3, <3>4, WriteOffAtKeeps
    <3>6. reserves'[a] = w
      BY <2>1, <2>2
    <3> HIDE DEF w, r, s
    <3> QED BY <1>3, <3>5, <3>6
  <2>3. CASE a \notin written /\ a \in {c, d}
    <3> DEFINE w == UpdateRates(s)
    <3>1. w.totalScaledSupply = s.totalScaledSupply
      BY <1>3, RatedReserve
    <3>2. reserves'[a] = w
      BY <2>1, <2>3
    <3> HIDE DEF w, r, s
    <3> QED BY <1>3, <3>1, <3>2
  <2>4. CASE a \notin written /\ a \notin {c, d}
    <3>1. reserves'[a] = r
      BY <2>1, <2>4
    <3> HIDE DEF r
    <3> QED BY <1>3, <3>1
  <2> QED BY <2>2, <2>3, <2>4
<1> HIDE DEF r
<1> QED BY <1>2, <1>4, <1>5, <1>6, Zenon DEF MatrixKept, r

\* A step that leaves the accounts and the reserves alone keeps the matrix.
LEMMA IdleWithinMatrix ==
    ASSUME PoolInv, UNCHANGED <<reserves, supply, debt>>, paused => UNCHANGED collateral
    PROVE  \A u \in User, b \in Asset : MatrixKept(u, b)
<1> TAKE u \in User, b \in Asset
<1>1. debt[u][b] \in Nat /\ reserves[b].totalScaledSupply \in Nat
  BY DEF PoolInv, TypeOK, ReserveData
<1>2. debt'[u][b] <= debt[u][b] /\ reserves'[b].totalScaledSupply <= reserves[b].totalScaledSupply
  BY <1>1
<1> QED BY <1>2, Zenon DEF MatrixKept

\* Every step keeps the matrix.
LEMMA StepWithinMatrix ==
    ASSUME PoolInv, [Next]_vars
    PROVE  \A u \in User, b \in Asset : MatrixKept(u, b)
<1>1. CASE UNCHANGED <<reserves, supply, debt, collateral>>
  BY <1>1, IdleWithinMatrix, Zenon
<1>2. CASE UserNext
  <2>1. PICK sender \in User, a \in Asset :
          \/ \E amount \in Amounts :
               \/ \E onBehalfOf \in Beneficiaries[sender] : Supply(sender, a, amount, onBehalfOf)
               \/ \E to \in Beneficiaries[sender] : Withdraw(sender, a, amount, to)
               \/ Borrow(sender, a, amount)
               \/ \E onBehalfOf \in Beneficiaries[sender] : Repay(sender, a, amount, onBehalfOf)
               \/ \E c \in Asset, b \in User, receiveSupply \in BOOLEAN :
                      Liquidate(sender, c, a, b, amount, receiveSupply)
               \/ CoverDeficit(sender, a, amount)
          \/ \E enabled \in BOOLEAN : SetUseReserveAsCollateral(sender, a, enabled)
    BY <1>2, Zenon DEF UserNext
  <2>2. Beneficiaries[sender] \subseteq User
    BY PoolAssumption
  <2>3. CASE \E enabled \in BOOLEAN : SetUseReserveAsCollateral(sender, a, enabled)
    <3>1. UNCHANGED <<reserves, supply, debt>> /\ ~paused
      BY <2>3, Zenon DEF SetUseReserveAsCollateral, ValidateSetCollateral, Operational
    <3> QED BY <3>1, IdleWithinMatrix, Zenon
  <2>4. CASE \E amount \in Amounts, v \in Beneficiaries[sender] : Supply(sender, a, amount, v)
    BY <2>2, <2>4, SupplyWithinMatrix
  <2>5. CASE \E amount \in Amounts, v \in Beneficiaries[sender] : Withdraw(sender, a, amount, v)
    BY <2>2, <2>5, WithdrawWithinMatrix
  <2>6. CASE \E amount \in Amounts : Borrow(sender, a, amount)
    BY <2>6, BorrowWithinMatrix
  <2>7. CASE \E amount \in Amounts, v \in Beneficiaries[sender] : Repay(sender, a, amount, v)
    BY <2>2, <2>7, RepayWithinMatrix
  <2>8. CASE \E amount \in Amounts, c \in Asset, b \in User, receiveSupply \in BOOLEAN :
                 Liquidate(sender, c, a, b, amount, receiveSupply)
    <3>1. PICK amount \in Amounts, c \in Asset, b \in User, receiveSupply \in BOOLEAN :
                  Liquidate(sender, c, a, b, amount, receiveSupply)
      BY <2>8, Zenon
    <3> QED BY <3>1, LiquidateWithinMatrix
  <2>9. CASE \E amount \in Amounts : CoverDeficit(sender, a, amount)
    <3>1. PICK x, y :
            reserves' = [reserves EXCEPT ![a] = UpdateRates(
              [Accrue(reserves[a], now) EXCEPT !.deficit = x, !.cash = y])]
      BY <2>9, Zenon DEF CoverDeficit
    <3>2. UNCHANGED accountVars
      BY <2>9, Zenon DEF CoverDeficit
    <3> DEFINE q == [Accrue(reserves[a], now) EXCEPT !.deficit = x, !.cash = y]
    <3>3. "totalScaledSupply" \in DOMAIN q /\ q.totalScaledSupply = reserves[a].totalScaledSupply
      <4>1. "totalScaledSupply" \in DOMAIN reserves[a]
        BY DEF PoolInv, TypeOK, ReserveData
      <4> QED BY <4>1, TotalFrame
    <3> HIDE DEF q
    <3> QED BY <3>1, <3>2, <3>3, QuietWithinMatrix DEF q
  <2> QED BY <2>1, <2>3, <2>4, <2>5, <2>6, <2>7, <2>8, <2>9, Zenon
<1>3. CASE ConfiguratorNext
  <2>1. ASSUME NEW a \in Asset PROVE "totalScaledSupply" \in DOMAIN reserves[a]
    BY DEF PoolInv, TypeOK, ReserveData
  <2>2. CASE \E a \in Asset : \E model \in RateModels[a], config \in Configs[a] :
                 InitReserve(a, model, config)
    <3>0. PICK a \in Asset : \E model, config : InitReserve(a, model, config)
      BY <2>2, Zenon
    <3>1. PICK model, config : InitReserve(a, model, config)
      BY <3>0
    <3> DEFINE q == [UnlistedReserve EXCEPT !.config = config, !.liquidityIndex = RAY,
                                            !.borrowIndex = RAY, !.interestRateModel = model,
                                            !.lastUpdateTimestamp = now]
    <3>2. /\ reserves' = [reserves EXCEPT ![a] = UpdateRates(q)]
          /\ ~IsListed(reserves[a]) /\ UNCHANGED accountVars
      BY <3>1, Zenon DEF InitReserve, NewReserve
    <3>3. "totalScaledSupply" \in DOMAIN q /\ q.totalScaledSupply = 0
      BY DEF UnlistedReserve
    <3>4. reserves[a].totalScaledSupply = 0
      BY <3>2 DEF PoolInv, ReservesSane, SaneReserve
    <3> HIDE DEF q
    <3> QED BY <3>2, <3>3, <3>4, QuietWithinMatrix
  <2>3. CASE \E a \in Asset : \E config \in Configs[a] : SetReserveConfig(a, config)
    <3>0. PICK a \in Asset : \E config : SetReserveConfig(a, config)
      BY <2>3, Zenon
    <3>1. PICK config : SetReserveConfig(a, config)
      BY <3>0
    <3> DEFINE q == [Accrue(reserves[a], now) EXCEPT !.config = config]
    <3>2. reserves' = [reserves EXCEPT ![a] = UpdateRates(q)] /\ UNCHANGED accountVars
      BY <3>1, Zenon DEF SetReserveConfig, Configured
    <3>3. "totalScaledSupply" \in DOMAIN q /\ q.totalScaledSupply = reserves[a].totalScaledSupply
      BY <2>1, TotalFrame
    <3> HIDE DEF q
    <3> QED BY <3>2, <3>3, QuietWithinMatrix
  <2>4. CASE \E a \in Asset : \E model \in RateModels[a] : SetInterestRateModel(a, model)
    <3>0. PICK a \in Asset : \E model : SetInterestRateModel(a, model)
      BY <2>4, Zenon
    <3>1. PICK model : SetInterestRateModel(a, model)
      BY <3>0
    <3> DEFINE q == [Accrue(reserves[a], now) EXCEPT !.interestRateModel = model]
    <3>2. reserves' = [reserves EXCEPT ![a] = UpdateRates(q)] /\ UNCHANGED accountVars
      BY <3>1, Zenon DEF SetInterestRateModel
    <3>3. "totalScaledSupply" \in DOMAIN q /\ q.totalScaledSupply = reserves[a].totalScaledSupply
      BY <2>1, TotalFrame
    <3> HIDE DEF q
    <3> QED BY <3>2, <3>3, QuietWithinMatrix
  <2>5. CASE \E a \in Asset, amount \in Amounts, to \in User : WithdrawReserves(a, amount, to)
    <3>0. PICK a \in Asset : \E amount \in Amounts, to \in User : WithdrawReserves(a, amount, to)
      BY <2>5
    <3>1. PICK x, y :
            /\ reserves' = [reserves EXCEPT ![a] = UpdateRates(
                 [Accrue(reserves[a], now) EXCEPT !.accruedToTreasury = x, !.cash = y])]
            /\ UNCHANGED accountVars
      BY <3>0, Zenon DEF WithdrawReserves
    <3> DEFINE q == [Accrue(reserves[a], now) EXCEPT !.accruedToTreasury = x, !.cash = y]
    <3>2. reserves' = [reserves EXCEPT ![a] = UpdateRates(q)]
      BY <3>1
    <3>3. "totalScaledSupply" \in DOMAIN q /\ q.totalScaledSupply = reserves[a].totalScaledSupply
      BY <2>1, TotalFrame
    <3> HIDE DEF q
    <3> QED BY <3>1, <3>2, <3>3, QuietWithinMatrix
  <2>6. CASE \/ \E newPaused \in Pauses : SetPoolPaused(newPaused)
             \/ \E period \in GracePeriods : SetLiquidationGracePeriod(period)
    <3>1. UNCHANGED reserves /\ UNCHANGED accountVars
      BY <2>6, Zenon DEF SetPoolPaused, SetLiquidationGracePeriod
    <3> QED BY <3>1, <1>1 DEF accountVars
  <2> QED BY <1>3, <2>2, <2>3, <2>4, <2>5, <2>6, Zenon DEF ConfiguratorNext
<1>4. CASE EnvironmentNext
  <2>1. UNCHANGED reserves /\ UNCHANGED accountVars
    BY <1>4, Zenon DEF EnvironmentNext, Tick, SetPrice
  <2> QED BY <2>1, <1>1 DEF accountVars
<1>5. CASE UNCHANGED vars
  BY <1>5, <1>1 DEF vars, accountVars
<1> QED BY <1>2, <1>3, <1>4, <1>5, Zenon DEF Next

\* The emergency action matrix holds of every transaction: what a pause or a freeze
\* forbids, no call does by another way.
THEOREM EmergencyMatrixHolds == Spec => EmergencyMatrix
<1> DEFINE Kept ==
        \A u \in User, a \in Asset :
          /\ paused \/ reserves[a].config.paused =>
               supply'[u][a] = supply[u][a] /\ debt'[u][a] <= debt[u][a]
          /\ paused => collateral'[u] = collateral[u]
          /\ reserves[a].config.frozen =>
               /\ debt'[u][a] <= debt[u][a]
               /\ reserves'[a].totalScaledSupply <= reserves[a].totalScaledSupply
<1>1. PoolInv /\ [Next]_vars => Kept
  <2> SUFFICES ASSUME PoolInv, [Next]_vars, NEW u \in User, NEW a \in Asset
               PROVE  MatrixKept(u, a)
    BY Zenon DEF MatrixKept
  <2> QED BY StepWithinMatrix
<1> QED BY <1>1, PoolInvariant, PTL DEF Spec, EmergencyMatrix
-----------------------------------------------------------------------------
(***************************************************************************)
(* Rounding.                                                               *)
(***************************************************************************)

\* No call lowers the surplus of a reserve it writes, interest apart.
Favoured(a) ==
    reserves'[a] # reserves[a] => Gains(Accrue(reserves[a], now), reserves'[a])

\* A call that writes one reserve is judged there.
LEMMA OneFavoured ==
    ASSUME PoolInv, NEW a \in Asset, NEW q, HasBooks(q),
           reserves' = [reserves EXCEPT ![a] = UpdateRates(q)],
           Gains(Accrue(reserves[a], now), q)
    PROVE  \A b \in Asset : Favoured(b)
<1> DEFINE s == UpdateRates(q)
<1>1. reserves \in [Asset -> ReserveData] /\ reserves' = [reserves EXCEPT ![a] = s]
  BY DEF PoolInv, TypeOK
<1>2. SurplusRay(s) = SurplusRay(q)
  BY RatesKeepSurplus
<1> HIDE DEF s
<1>3. Gains(Accrue(reserves[a], now), s)
  BY <1>2, Zenon DEF Gains
<1> TAKE b \in Asset
<1>4. CASE b = a
  <2>1. reserves'[a] = s
    BY <1>1
  <2> QED BY <1>3, <1>4, <2>1, Zenon DEF Favoured
<1>5. CASE b # a
  BY <1>1, <1>5 DEF Favoured
<1> QED BY <1>4, <1>5

\* A supply mints at most what it brings.
LEMMA SupplyFavours ==
    ASSUME PoolInv, NEW sender \in User, NEW a \in Asset, NEW amount \in Amounts, NEW v \in User,
           Supply(sender, a, amount, v)
    PROVE  \A b \in Asset : Favoured(b)
<1> DEFINE p == Accrue(reserves[a], now)
           scaled == RayDivDown(amount, p.liquidityIndex)
           q == [p EXCEPT !.totalScaledSupply = p.totalScaledSupply + scaled,
                          !.cash = p.cash + amount]
<1>1. reserves[a].config.active /\ reserves' = [reserves EXCEPT ![a] = UpdateRates(q)]
  BY Zenon DEF Supply, SupplyPaidBy, AcceptsSupply, ValidateSupply, Operational
<1>2. p \in ReserveData /\ p.liquidityIndex \in Nat \ {0}
  BY <1>1, ActiveIsListed, Accrued
<1>3. amount \in Nat
  BY PoolAssumption
<1> HIDE DEF p
<1>4. scaled \in Nat /\ scaled * p.liquidityIndex <= amount * RAY
  BY <1>2, <1>3, Conversions
<1> HIDE DEF scaled
<1>5. MovedBy(p, q, amount, 0, 0, scaled, 0)
  BY <1>2, <1>3, <1>4 DEF MovedBy, HasBooks, ReserveData
<1>6. (scaled + 0) * p.liquidityIndex <= (amount + 0) * RAY + 0 * p.borrowIndex
  <2>1. p.borrowIndex \in Nat /\ RAY \in Nat
    BY <1>2, ScaleAssumption DEF ReserveData
  <2>2. scaled + 0 = scaled /\ amount + 0 = amount /\ 0 * p.borrowIndex = 0
    BY <2>1, <1>3, <1>4
  <2>3. amount * RAY \in Nat
    BY <2>1, <1>3, MulNat
  <2> QED BY <1>4, <2>2, <2>3
<1> HIDE DEF q
<1>7. Gains(p, q)
  BY <1>2, <1>3, <1>4, <1>5, <1>6, MovedGains
<1> QED BY <1>1, <1>5, <1>7, OneFavoured DEF MovedBy, p

\* A withdrawal burns at least what it pays.
LEMMA WithdrawFavours ==
    ASSUME PoolInv, NEW sender \in User, NEW a \in Asset, NEW amount \in Amounts, NEW to,
           Withdraw(sender, a, amount, to)
    PROVE  \A b \in Asset : Favoured(b)
<1> DEFINE p == Accrue(reserves[a], now)
           balance == RayMulDown(supply[sender][a], p.liquidityIndex)
           all == amount = MaxUint \/ amount = balance
           paid == IF all THEN balance ELSE amount
           burn == IF all THEN supply[sender][a] ELSE RayDivUp(amount, p.liquidityIndex)
           q == [p EXCEPT !.totalScaledSupply = p.totalScaledSupply - burn,
                          !.cash = p.cash - paid]
<1>1. reserves[a].config.active /\ reserves' = [reserves EXCEPT ![a] = UpdateRates(q)]
  BY Zenon DEF Withdraw, AcceptsWithdraw, Operational
<1>2. p \in ReserveData /\ p.liquidityIndex \in Nat \ {0}
  BY <1>1, ActiveIsListed, Accrued
<1>3. amount \in Nat /\ supply[sender][a] \in Nat
  BY PoolAssumption DEF PoolInv, TypeOK
<1> HIDE DEF p
<1>4. burn \in Nat /\ paid \in Nat /\ paid * RAY <= burn * p.liquidityIndex
  BY <1>2, <1>3, Conversions
<1> HIDE DEF burn, paid
<1>5. MovedBy(p, q, -paid, 0, 0, -burn, 0)
  BY <1>2, <1>4 DEF MovedBy, HasBooks, ReserveData
<1>6. (-burn + 0) * p.liquidityIndex <= (-paid + 0) * RAY + 0 * p.borrowIndex
  <2>1. p.borrowIndex \in Nat /\ RAY \in Nat
    BY <1>2, ScaleAssumption DEF ReserveData
  <2>2. /\ (-burn + 0) * p.liquidityIndex = -(burn * p.liquidityIndex)
        /\ (-paid + 0) * RAY = -(paid * RAY)
        /\ 0 * p.borrowIndex = 0
        /\ burn * p.liquidityIndex \in Nat /\ paid * RAY \in Nat
    BY <1>2, <1>4, <2>1
  <2> QED BY <1>4, <2>2
<1> HIDE DEF q
<1>7. Gains(p, q)
  BY <1>2, <1>4, <1>5, <1>6, MovedGains
<1> QED BY <1>1, <1>5, <1>7, OneFavoured DEF MovedBy, p

\* A loan is charged at least what it pays out.
LEMMA BorrowFavours ==
    ASSUME PoolInv, NEW sender \in User, NEW a \in Asset, NEW amount \in Amounts,
           Borrow(sender, a, amount)
    PROVE  \A b \in Asset : Favoured(b)
<1> DEFINE p == Accrue(reserves[a], now)
           scaled == RayDivUp(amount, p.borrowIndex)
           q == [p EXCEPT !.totalScaledDebt = p.totalScaledDebt + scaled,
                          !.cash = p.cash - amount]
<1>1. reserves[a].config.active /\ reserves' = [reserves EXCEPT ![a] = UpdateRates(q)]
  BY Zenon DEF Borrow, AcceptsBorrow, ValidateBorrow, Operational
<1>2. p \in ReserveData /\ p.borrowIndex \in Nat \ {0}
  BY <1>1, ActiveIsListed, Accrued
<1>3. amount \in Nat
  BY PoolAssumption
<1> HIDE DEF p
<1>4. scaled \in Nat /\ amount * RAY <= scaled * p.borrowIndex
  BY <1>2, <1>3, Conversions
<1> HIDE DEF scaled
<1>5. MovedBy(p, q, -amount, 0, scaled, 0, 0)
  BY <1>2, <1>3, <1>4 DEF MovedBy, HasBooks, ReserveData
<1>6. (0 + 0) * p.liquidityIndex <= (-amount + 0) * RAY + scaled * p.borrowIndex
  <2>1. p.liquidityIndex \in Nat /\ RAY \in Nat
    BY <1>2, ScaleAssumption DEF ReserveData
  <2>2. /\ (0 + 0) * p.liquidityIndex = 0
        /\ (-amount + 0) * RAY = -(amount * RAY)
        /\ scaled * p.borrowIndex \in Nat /\ amount * RAY \in Nat
    BY <1>2, <1>3, <1>4, <2>1
  <2> QED BY <1>4, <2>2
<1> HIDE DEF q
<1>7. Gains(p, q)
  BY <1>2, <1>3, <1>4, <1>5, <1>6, MovedGains
<1> QED BY <1>1, <1>5, <1>7, OneFavoured DEF MovedBy, p

\* A repayment forgives at most what it brings.
LEMMA RepayFavours ==
    ASSUME PoolInv, NEW sender \in User, NEW a \in Asset, NEW amount \in Amounts, NEW v \in User,
           Repay(sender, a, amount, v)
    PROVE  \A b \in Asset : Favoured(b)
<1> DEFINE p == Accrue(reserves[a], now)
           owed == RayMulUp(debt[v][a], p.borrowIndex)
           payback == IF amount >= owed THEN owed ELSE amount
           burn == IF amount >= owed THEN debt[v][a] ELSE RayDivDown(amount, p.borrowIndex)
           q == [p EXCEPT !.totalScaledDebt = p.totalScaledDebt - burn,
                          !.cash = p.cash + payback]
<1>1. reserves[a].config.active /\ reserves' = [reserves EXCEPT ![a] = UpdateRates(q)]
  BY Zenon DEF Repay, AcceptsRepay, ValidateRepay
<1>2. p \in ReserveData /\ p.borrowIndex \in Nat \ {0}
  BY <1>1, ActiveIsListed, Accrued
<1>3. amount \in Nat /\ debt[v][a] \in Nat
  BY PoolAssumption DEF PoolInv, TypeOK
<1> HIDE DEF p
<1>4. burn \in Nat /\ payback \in Nat /\ burn * p.borrowIndex <= payback * RAY
  BY <1>2, <1>3, Conversions
<1> HIDE DEF burn, payback
<1>5. MovedBy(p, q, payback, 0, -burn, 0, 0)
  BY <1>2, <1>4 DEF MovedBy, HasBooks, ReserveData
<1>6. (0 + 0) * p.liquidityIndex <= (payback + 0) * RAY + (-burn) * p.borrowIndex
  <2>1. p.liquidityIndex \in Nat /\ RAY \in Nat
    BY <1>2, ScaleAssumption DEF ReserveData
  <2>2. /\ (0 + 0) * p.liquidityIndex = 0
        /\ (payback + 0) * RAY = payback * RAY
        /\ (-burn) * p.borrowIndex = -(burn * p.borrowIndex)
        /\ burn * p.borrowIndex \in Nat /\ payback * RAY \in Nat
    BY <1>2, <1>4, <2>1
  <2> QED BY <1>4, <2>2
<1> HIDE DEF q
<1>7. Gains(p, q)
  BY <1>2, <1>4, <1>5, <1>6, MovedGains
<1> QED BY <1>1, <1>5, <1>7, OneFavoured DEF MovedBy, p

\* So does a payment into the deficit, exactly.
LEMMA CoverDeficitFavours ==
    ASSUME PoolInv, NEW sender \in User, NEW a \in Asset, NEW amount \in Amounts,
           CoverDeficit(sender, a, amount)
    PROVE  \A b \in Asset : Favoured(b)
<1> DEFINE p == Accrue(reserves[a], now)
           covered == IF amount > p.deficit THEN p.deficit ELSE amount
           q == [p EXCEPT !.deficit = p.deficit - covered, !.cash = p.cash + covered]
<1>1. p.deficit # 0 /\ reserves' = [reserves EXCEPT ![a] = UpdateRates(q)]
  BY Zenon DEF CoverDeficit
<1>2. p \in ReserveData
  <2>1. HasSetup(reserves[a])
    BY DEF PoolInv, TypeOK, ReserveData, HasSetup
  <2>2. reserves[a].deficit # 0
    BY <1>1, <2>1, AccrueSetup
  <2>3. IsListed(reserves[a])
    BY <2>2 DEF PoolInv, ReservesSane, SaneReserve
  <2> QED BY <2>3, Accrued
<1>3. amount \in Nat
  BY PoolAssumption
<1> HIDE DEF p
<1>4. covered \in Nat
  BY <1>2, <1>3 DEF ReserveData
<1> HIDE DEF covered
<1>5. MovedBy(p, q, covered, -covered, 0, 0, 0)
  BY <1>2, <1>4 DEF MovedBy, HasBooks, ReserveData
<1>6. (0 + 0) * p.liquidityIndex <= (covered + (-covered)) * RAY + 0 * p.borrowIndex
  <2>1. p.liquidityIndex \in Nat /\ RAY \in Nat /\ p.borrowIndex \in Nat
    BY <1>2, ScaleAssumption DEF ReserveData
  <2> QED BY <1>4, <2>1
<1> HIDE DEF q
<1>7. Gains(p, q)
  BY <1>2, <1>4, <1>5, <1>6, MovedGains
<1> QED BY <1>1, <1>5, <1>7, OneFavoured DEF MovedBy, p

\* Treasury income paid out is burnt in full.
LEMMA WithdrawReservesFavours ==
    ASSUME PoolInv, NEW a \in Asset, NEW amount \in Amounts, NEW to,
           WithdrawReserves(a, amount, to)
    PROVE  \A b \in Asset : Favoured(b)
<1> DEFINE p == Accrue(reserves[a], now)
           available == RayMulDown(p.accruedToTreasury, p.liquidityIndex)
           paid == IF amount >= available THEN available ELSE amount
           burn == IF amount >= available
                   THEN p.accruedToTreasury
                   ELSE RayDivUp(amount, p.liquidityIndex)
           q == [p EXCEPT !.accruedToTreasury = p.accruedToTreasury - burn,
                          !.cash = p.cash - paid]
<1>1. IsListed(reserves[a]) /\ reserves' = [reserves EXCEPT ![a] = UpdateRates(q)]
  BY Zenon DEF WithdrawReserves
<1>2. p \in ReserveData /\ p.liquidityIndex \in Nat \ {0}
  BY <1>1, Accrued
<1>3. amount \in Nat /\ p.accruedToTreasury \in Nat
  BY <1>2, PoolAssumption DEF ReserveData
<1> HIDE DEF p
<1>4. burn \in Nat /\ paid \in Nat /\ paid * RAY <= burn * p.liquidityIndex
  BY <1>2, <1>3, Conversions
<1> HIDE DEF burn, paid
<1>5. MovedBy(p, q, -paid, 0, 0, 0, -burn)
  BY <1>2, <1>4 DEF MovedBy, HasBooks, ReserveData
<1>6. (0 + (-burn)) * p.liquidityIndex <= (-paid + 0) * RAY + 0 * p.borrowIndex
  <2>1. p.borrowIndex \in Nat /\ RAY \in Nat
    BY <1>2, ScaleAssumption DEF ReserveData
  <2>2. /\ (0 + (-burn)) * p.liquidityIndex = -(burn * p.liquidityIndex)
        /\ (-paid + 0) * RAY = -(paid * RAY)
        /\ 0 * p.borrowIndex = 0
        /\ burn * p.liquidityIndex \in Nat /\ paid * RAY \in Nat
    BY <1>2, <1>4, <2>1
  <2> QED BY <1>4, <2>2
<1> HIDE DEF q
<1>7. Gains(p, q)
  BY <1>2, <1>4, <1>5, <1>6, MovedGains
<1> QED BY <1>1, <1>5, <1>7, OneFavoured DEF MovedBy, p

\* Reconfiguring an accrued reserve moves nothing.
LEMMA ReconfiguringFavours ==
    ASSUME PoolInv, NEW a \in Asset, IsListed(reserves[a]), NEW q,
           \/ \E config : q = [Accrue(reserves[a], now) EXCEPT !.config = config]
           \/ \E model : q = [Accrue(reserves[a], now) EXCEPT !.interestRateModel = model],
           reserves' = [reserves EXCEPT ![a] = UpdateRates(q)]
    PROVE  \A b \in Asset : Favoured(b)
<1> DEFINE p == Accrue(reserves[a], now)
<1>1. p \in ReserveData
  BY Accrued
<1> HIDE DEF p
<1>2. PICK none \in Int : none = 0
  OBVIOUS
<1>3. MovedBy(p, q, none, none, none, none, none)
  <2>1. CASE \E config : q = [p EXCEPT !.config = config]
    BY <1>1, <1>2, <2>1 DEF MovedBy, HasBooks, ReserveData
  <2>2. CASE \E model : q = [p EXCEPT !.interestRateModel = model]
    BY <1>1, <1>2, <2>2 DEF MovedBy, HasBooks, ReserveData
  <2> QED BY <2>1, <2>2 DEF p
<1>4. (none + none) * p.liquidityIndex <= (none + none) * RAY + none * p.borrowIndex
  BY <1>1, <1>2, ScaleAssumption DEF ReserveData
<1>5. Gains(p, q)
  BY <1>1, <1>3, <1>4, MovedGains
<1> QED BY <1>3, <1>5, OneFavoured DEF MovedBy, p

\* A reserve that is not listed has no books, whatever time passes over it.
LEMMA UnlistedAccrues ==
    ASSUME PoolInv, NEW a \in Asset, ~IsListed(reserves[a])
    PROVE  SurplusRay(Accrue(reserves[a], now)) = 0
<1> DEFINE r == reserves[a]
           p == Accrue(r, now)
<1>1. /\ r \in ReserveData /\ r.lastUpdateTimestamp = 0 /\ now \in Nat \ {0}
      /\ r.totalScaledSupply = 0 /\ r.totalScaledDebt = 0 /\ r.cash = 0
      /\ r.accruedToTreasury = 0 /\ r.deficit = 0
  BY DEF PoolInv, TypeOK, ReservesSane, SaneReserve, IsListed
<1>2. PICK li \in Nat : p = [r EXCEPT !.liquidityIndex = li, !.lastUpdateTimestamp = now]
  <2> DEFINE dt == now - r.lastUpdateTimestamp
             li == IF r.liquidityRate = 0
                   THEN r.liquidityIndex
                   ELSE RayMulDown(LinearInterest(r.liquidityRate, dt), r.liquidityIndex)
  <2>1. r.liquidityRate \in Nat /\ dt \in Nat /\ r.liquidityIndex \in Nat
    BY <1>1 DEF ReserveData
  <2>2. li \in Nat
    BY <2>1, GrowthFactors, RayType
  <2>3. r.lastUpdateTimestamp # now /\ r.totalScaledDebt = 0
    BY <1>1
  <2>4. p = [r EXCEPT !.liquidityIndex = li, !.lastUpdateTimestamp = now]
    BY <2>3, Zenon DEF Accrue
  <2> HIDE DEF li, p, r
  <2> QED BY <2>2, <2>4, Zenon
<1>3. r.borrowIndex \in Nat /\ RAY \in Nat
  BY <1>1, ScaleAssumption DEF ReserveData
<1> HIDE DEF p
<1>4. SurplusRay(p) = (0 + 0) * RAY + 0 * r.borrowIndex - (0 + 0) * li
  BY <1>1, <1>2 DEF ReserveData, SurplusRay
<1>5. SurplusRay(p) = 0
  BY <1>3, <1>4
<1> QED BY <1>5 DEF p, r

\* A reserve being listed has no books.
LEMMA ListingFavours ==
    ASSUME PoolInv, NEW a \in Asset, NEW model, NEW config, InitReserve(a, model, config)
    PROVE  \A b \in Asset : Favoured(b)
<1> DEFINE p == Accrue(reserves[a], now)
           q == [UnlistedReserve EXCEPT !.config = config, !.liquidityIndex = RAY,
                                        !.borrowIndex = RAY, !.interestRateModel = model,
                                        !.lastUpdateTimestamp = now]
<1>1. ~IsListed(reserves[a]) /\ reserves' = [reserves EXCEPT ![a] = UpdateRates(q)]
  BY Zenon DEF InitReserve, NewReserve
<1>2. SurplusRay(p) = 0
  BY <1>1, UnlistedAccrues
<1>3. HasBooks(q) /\ SurplusRay(q) = (0 + 0) * RAY + 0 * RAY - (0 + 0) * RAY
  BY DEF UnlistedReserve, SurplusRay, HasBooks
<1>4. RAY \in Nat
  BY ScaleAssumption
<1> HIDE DEF p, q
<1>5. Gains(p, q)
  BY <1>2, <1>3, <1>4 DEF Gains
<1> QED BY <1>1, <1>3, <1>5, OneFavoured DEF p

\* Both legs of a liquidation and every write-off favour the pool.
LEMMA LiquidateFavours ==
    ASSUME PoolInv, NEW sender \in User, NEW c \in Asset, NEW d \in Asset, NEW b \in User,
           NEW cover \in Amounts, NEW receiveSupply \in BOOLEAN,
           Liquidate(sender, c, d, b, cover, receiveSupply)
    PROVE  \A a \in Asset : Favoured(a)
<1>1. PICK written, sr, left : LiquidationWrites(c, d, b, written, sr, left)
  BY LiquidationHasWrites
<1> SUFFICES ASSUME NEW a \in Asset PROVE Favoured(a)
  OBVIOUS
<1> DEFINE r == reserves[a]
           p == Accrue(r, now)
           s == sr[a]
<1>2. /\ r \in ReserveData /\ r.totalScaledDebt \in Nat /\ now \in Nat \ {0}
      /\ s \in ReserveData /\ SaneReserve(s, now)
      /\ IsListed(r) => IsListed(s)
      /\ left[a] \in Nat
      /\ a \in {c, d} => s.lastUpdateTimestamp = now /\ Gains(p, s)
      /\ a \notin {c, d} => s = r
  BY <1>1 DEF LiquidationWrites, PoolInv, TypeOK, ReserveData
<1>3. reserves'[a] = IF a \in written
                     THEN WriteOffAt(s, left[a], now)
                     ELSE IF a \in {c, d} THEN UpdateRates(s) ELSE r
  BY <1>1, Zenon DEF LiquidationWrites
<1>4. CASE a \in written
  <2>1. IsListed(r)
    <3>1. a \in borrowing[b]
      BY <1>1, <1>4 DEF LiquidationWrites
    <3>2. debt[b][a] # 0 /\ debt[b][a] \in Nat /\ debt[b][a] <= r.totalScaledDebt
      BY <3>1, BalancesWithinTotals DEF PoolInv, BitmapInSync
    <3>3. r.totalScaledDebt # 0
      BY <1>2, <3>2
    <3> QED BY <3>3 DEF PoolInv, ReservesSane, SaneReserve
  <2> DEFINE t == Accrue(s, now)
             q == WriteOffDebt(t, left[a])
  <2>2. /\ t \in ReserveData
        /\ t.liquidityIndex \in Nat \ {0} /\ t.borrowIndex \in Nat \ {0}
    BY <1>2, <2>1, AccruedReserve
  <2>3. Gains(p, t)
    <3>1. CASE a \in {c, d}
      <4>1. t = s
        BY <1>2, <3>1 DEF Accrue
      <4> QED BY <1>2, <3>1, <4>1
    <3>2. CASE a \notin {c, d}
      <4>1. t = p
        BY <1>2, <3>2
      <4> HIDE DEF t
      <4> QED BY <2>2, <4>1, GainsReflexive
    <3> QED BY <3>1, <3>2
  <2> HIDE DEF t
  <2>4. Gains(t, q) /\ HasBooks(q)
    BY <1>2, <2>2, WriteOffFavours
  <2> HIDE DEF q
  <2>5. reserves'[a] = UpdateRates(q)
    BY <1>3, <1>4 DEF WriteOffAt, q, t
  <2>6. SurplusRay(UpdateRates(q)) = SurplusRay(q)
    BY <2>4, RatesKeepSurplus
  <2>7. Gains(p, q)
    BY <2>3, <2>4, GainsFollow
  <2> HIDE DEF p
  <2> QED BY <2>5, <2>6, <2>7, Zenon DEF Favoured, Gains, p
<1>5. CASE a \notin written /\ a \in {c, d}
  <2>1. reserves'[a] = UpdateRates(s)
    BY <1>3, <1>5
  <2>2. HasBooks(s)
    BY <1>2 DEF HasBooks, ReserveData
  <2>3. SurplusRay(UpdateRates(s)) = SurplusRay(s)
    BY <2>2, RatesKeepSurplus
  <2>4. Gains(p, s)
    BY <1>2, <1>5
  <2> HIDE DEF p, s
  <2> QED BY <2>1, <2>3, <2>4, Zenon DEF Favoured, Gains, p
<1>6. CASE a \notin written /\ a \notin {c, d}
  BY <1>3, <1>6 DEF Favoured
<1> QED BY <1>4, <1>5, <1>6

\* Every step favours the pool in every reserve that it writes.
LEMMA StepFavours ==
    ASSUME PoolInv, [Next]_vars
    PROVE  \A a \in Asset : Favoured(a)
<1>1. CASE UNCHANGED reserves
  BY <1>1 DEF Favoured
<1>2. CASE UserNext
  <2>1. PICK sender \in User, a \in Asset :
          \/ \E amount \in Amounts :
               \/ \E onBehalfOf \in Beneficiaries[sender] : Supply(sender, a, amount, onBehalfOf)
               \/ \E to \in Beneficiaries[sender] : Withdraw(sender, a, amount, to)
               \/ Borrow(sender, a, amount)
               \/ \E onBehalfOf \in Beneficiaries[sender] : Repay(sender, a, amount, onBehalfOf)
               \/ \E c \in Asset, b \in User, receiveSupply \in BOOLEAN :
                      Liquidate(sender, c, a, b, amount, receiveSupply)
               \/ CoverDeficit(sender, a, amount)
          \/ \E enabled \in BOOLEAN : SetUseReserveAsCollateral(sender, a, enabled)
    BY <1>2, Zenon DEF UserNext
  <2>2. Beneficiaries[sender] \subseteq User
    BY PoolAssumption
  <2>3. CASE \E enabled \in BOOLEAN : SetUseReserveAsCollateral(sender, a, enabled)
    BY <2>3, <1>1, Zenon DEF SetUseReserveAsCollateral
  <2>4. CASE \E amount \in Amounts, v \in Beneficiaries[sender] : Supply(sender, a, amount, v)
    BY <2>2, <2>4, SupplyFavours
  <2>5. CASE \E amount \in Amounts, v \in Beneficiaries[sender] : Withdraw(sender, a, amount, v)
    BY <2>2, <2>5, WithdrawFavours
  <2>6. CASE \E amount \in Amounts : Borrow(sender, a, amount)
    BY <2>6, BorrowFavours
  <2>7. CASE \E amount \in Amounts, v \in Beneficiaries[sender] : Repay(sender, a, amount, v)
    BY <2>2, <2>7, RepayFavours
  <2>8. CASE \E amount \in Amounts, c \in Asset, b \in User, receiveSupply \in BOOLEAN :
                 Liquidate(sender, c, a, b, amount, receiveSupply)
    <3>1. PICK amount \in Amounts, c \in Asset, b \in User, receiveSupply \in BOOLEAN :
                  Liquidate(sender, c, a, b, amount, receiveSupply)
      BY <2>8, Zenon
    <3> QED BY <3>1, LiquidateFavours
  <2>9. CASE \E amount \in Amounts : CoverDeficit(sender, a, amount)
    BY <2>9, CoverDeficitFavours
  <2> QED BY <2>1, <2>3, <2>4, <2>5, <2>6, <2>7, <2>8, <2>9, Zenon
<1>3. CASE ConfiguratorNext
  <2>1. CASE \E a \in Asset : \E model \in RateModels[a], config \in Configs[a] :
                 InitReserve(a, model, config)
    BY <2>1, ListingFavours
  <2>2. CASE \E a \in Asset : \E config \in Configs[a] : SetReserveConfig(a, config)
    <3>0. PICK a \in Asset : \E config : SetReserveConfig(a, config)
      BY <2>2, Zenon
    <3>1. PICK config : SetReserveConfig(a, config)
      BY <3>0
    <3> DEFINE q == [Accrue(reserves[a], now) EXCEPT !.config = config]
    <3>2. IsListed(reserves[a]) /\ reserves' = [reserves EXCEPT ![a] = UpdateRates(q)]
      BY <3>1, Zenon DEF SetReserveConfig, Configured
    <3> HIDE DEF q
    <3> QED BY <3>2, ReconfiguringFavours DEF q
  <2>3. CASE \E a \in Asset : \E model \in RateModels[a] : SetInterestRateModel(a, model)
    <3>0. PICK a \in Asset : \E model : SetInterestRateModel(a, model)
      BY <2>3, Zenon
    <3>1. PICK model : SetInterestRateModel(a, model)
      BY <3>0
    <3> DEFINE q == [Accrue(reserves[a], now) EXCEPT !.interestRateModel = model]
    <3>2. IsListed(reserves[a]) /\ reserves' = [reserves EXCEPT ![a] = UpdateRates(q)]
      BY <3>1, Zenon DEF SetInterestRateModel
    <3> HIDE DEF q
    <3> QED BY <3>2, ReconfiguringFavours DEF q
  <2>4. CASE \E a \in Asset, amount \in Amounts, to \in User : WithdrawReserves(a, amount, to)
    BY <2>4, WithdrawReservesFavours
  <2>5. CASE \/ \E newPaused \in Pauses : SetPoolPaused(newPaused)
             \/ \E period \in GracePeriods : SetLiquidationGracePeriod(period)
    BY <2>5, <1>1, Zenon DEF SetPoolPaused, SetLiquidationGracePeriod
  <2> QED BY <1>3, <2>1, <2>2, <2>3, <2>4, <2>5, Zenon DEF ConfiguratorNext
<1>4. CASE EnvironmentNext
  BY <1>4, <1>1, Zenon DEF EnvironmentNext, Tick, SetPrice
<1>5. CASE UNCHANGED vars
  BY <1>5, <1>1, Zenon DEF vars
<1> QED BY <1>2, <1>3, <1>4, <1>5, Zenon DEF Next

\* Interest apart, no transaction lowers what a reserve holds beyond what it owes:
\* not with the smallest amount, and not in a liquidation.
THEOREM RoundingFavours == Spec => RoundingFavoursPool
<1> DEFINE Kept ==
        \A a \in Asset : reserves'[a] # reserves[a] =>
            SurplusRay(reserves'[a]) >= SurplusRay(Accrue(reserves[a], now))
<1>1. PoolInv /\ [Next]_vars => Kept
  <2> SUFFICES ASSUME PoolInv, [Next]_vars, NEW a \in Asset, reserves'[a] # reserves[a]
               PROVE  SurplusRay(reserves'[a]) >= SurplusRay(Accrue(reserves[a], now))
    OBVIOUS
  <2>1. Favoured(a)
    BY StepFavours
  <2> QED BY <2>1, Zenon DEF Favoured, Gains
<1> QED BY <1>1, PoolInvariant, PTL DEF Spec, RoundingFavoursPool

-----------------------------------------------------------------------------
(***************************************************************************)
(* Healthy accounts stay healthy.                                          *)
(***************************************************************************)

\* No reserve lends more on a collateral than it liquidates at.
ThresholdsCover ==
    \A a \in Asset : reserves[a].config.ltv <= reserves[a].config.liquidationThreshold

HealthInv == PoolInv /\ ThresholdsCover

-----------------------------------------------------------------------------
(***************************************************************************)
(* What a step writes in the reserves.                                     *)
(***************************************************************************)

\* What a step leaves in reserve a, before its rates are updated: the accrued reserve
\* with an amount booked or a setting replaced, or a reserve just listed.
Written(a, q) ==
    LET r == Accrue(reserves[a], now)
    IN  \/ Booked(r, q)
        \/ \E config \in Configs[a] : IsListed(reserves[a]) /\ q = [r EXCEPT !.config = config]
        \/ \E model : IsListed(reserves[a]) /\ q = [r EXCEPT !.interestRateModel = model]
        \/ \E config \in Configs[a], model \in RateModels[a] :
             ~IsListed(reserves[a]) /\ q = Fresh(config, model, now)

\* The step of a call on one reserve.
WritesOne == \E a \in Asset : \E q : Written(a, q) /\ reserves' = [reserves EXCEPT ![a] = UpdateRates(q)]

\* Every step leaves the reserves alone, writes one of them, or liquidates.
LEMMA StepWrites ==
    ASSUME PoolInv, [Next]_vars
    PROVE  \/ UNCHANGED reserves
           \/ WritesOne
           \/ \E sender \in User, c \in Asset, d \in Asset, b \in User, cover \in Amounts,
                 receiveSupply \in BOOLEAN : Liquidate(sender, c, d, b, cover, receiveSupply)
<1>0. ASSUME NEW a \in Asset, NEW q, Booked(Accrue(reserves[a], now), q),
             reserves' = [reserves EXCEPT ![a] = UpdateRates(q)]
      PROVE  WritesOne
  BY <1>0, Zenon DEF WritesOne, Written
<1>1. CASE UserNext
  <2>1. PICK sender \in User, a \in Asset :
          \/ \E amount \in Amounts :
               \/ \E onBehalfOf \in Beneficiaries[sender] : Supply(sender, a, amount, onBehalfOf)
               \/ \E to \in Beneficiaries[sender] : Withdraw(sender, a, amount, to)
               \/ Borrow(sender, a, amount)
               \/ \E onBehalfOf \in Beneficiaries[sender] : Repay(sender, a, amount, onBehalfOf)
               \/ \E c \in Asset, b \in User, receiveSupply \in BOOLEAN :
                      Liquidate(sender, c, a, b, amount, receiveSupply)
               \/ CoverDeficit(sender, a, amount)
          \/ \E enabled \in BOOLEAN : SetUseReserveAsCollateral(sender, a, enabled)
    BY <1>1, Zenon DEF UserNext
  <2>2. CASE \E enabled \in BOOLEAN : SetUseReserveAsCollateral(sender, a, enabled)
    BY <2>2, Zenon DEF SetUseReserveAsCollateral
  <2>3. CASE \E amount \in Amounts, v \in Beneficiaries[sender] :
                 Supply(sender, a, amount, v) \/ Withdraw(sender, a, amount, v)
    <3>1. PICK x, y : reserves' = [reserves EXCEPT ![a] = UpdateRates(
                [Accrue(reserves[a], now) EXCEPT !.totalScaledSupply = x, !.cash = y])]
      BY <2>3, Zenon DEF Supply, SupplyPaidBy, Withdraw
    <3>2. Booked(Accrue(reserves[a], now),
                 [Accrue(reserves[a], now) EXCEPT !.totalScaledSupply = x, !.cash = y])
      BY Zenon DEF Booked
    <3> QED BY <3>1, <3>2, <1>0
  <2>4. CASE \E amount \in Amounts : \/ Borrow(sender, a, amount)
                                     \/ \E v \in Beneficiaries[sender] : Repay(sender, a, amount, v)
    <3>1. PICK x, y : reserves' = [reserves EXCEPT ![a] = UpdateRates(
                [Accrue(reserves[a], now) EXCEPT !.totalScaledDebt = x, !.cash = y])]
      BY <2>4, Zenon DEF Borrow, Repay
    <3>2. Booked(Accrue(reserves[a], now),
                 [Accrue(reserves[a], now) EXCEPT !.totalScaledDebt = x, !.cash = y])
      BY Zenon DEF Booked
    <3> QED BY <3>1, <3>2, <1>0
  <2>5. CASE \E amount \in Amounts : CoverDeficit(sender, a, amount)
    <3>1. PICK amount \in Amounts : CoverDeficit(sender, a, amount)
      BY <2>5
    <3> DEFINE r == Accrue(reserves[a], now)
               covered == IF amount > r.deficit THEN r.deficit ELSE amount
               q == [r EXCEPT !.deficit = r.deficit - covered, !.cash = r.cash + covered]
    <3>2. reserves' = [reserves EXCEPT ![a] = UpdateRates(q)]
      BY <3>1, Zenon DEF CoverDeficit
    <3>3. reserves[a].deficit \in Nat /\ amount \in Nat
      BY PoolAssumption DEF PoolInv, TypeOK, ReserveData
    <3>4. r.deficit = reserves[a].deficit
      <4>1. HasSetup(reserves[a])
        BY DEF PoolInv, TypeOK, ReserveData, HasSetup
      <4> QED BY <4>1, AccrueSetup
    <3> HIDE DEF r
    <3>5. covered \in Nat
      BY <3>3, <3>4
    <3> HIDE DEF covered
    <3>6. Booked(r, q)
      BY <3>5, Zenon DEF Booked
    <3> HIDE DEF q
    <3> QED BY <3>2, <3>6, <1>0 DEF r
  <2>6. CASE \E amount \in Amounts, c \in Asset, b \in User, receiveSupply \in BOOLEAN :
                 Liquidate(sender, c, a, b, amount, receiveSupply)
    BY <2>6, Zenon
  <2> QED BY <2>1, <2>2, <2>3, <2>4, <2>5, <2>6, Zenon
<1>2. CASE ConfiguratorNext
  <2>1. CASE \E a \in Asset : \E model \in RateModels[a], config \in Configs[a] :
                 InitReserve(a, model, config)
    <3>1. PICK a \in Asset : \E model \in RateModels[a], config \in Configs[a] :
                 InitReserve(a, model, config)
      BY <2>1, Zenon
    <3>2. PICK model \in RateModels[a], config \in Configs[a] : InitReserve(a, model, config)
      BY <3>1, Zenon
    <3>3. /\ ~IsListed(reserves[a])
          /\ reserves' = [reserves EXCEPT ![a] = UpdateRates(Fresh(config, model, now))]
      BY <3>2, Zenon DEF InitReserve, NewReserve, Fresh
    <3>4. Written(a, Fresh(config, model, now))
      BY <3>3, Zenon DEF Written
    <3> QED BY <3>3, <3>4, Zenon DEF WritesOne
  <2>2. CASE \E a \in Asset : \E config \in Configs[a] : SetReserveConfig(a, config)
    BY <2>2, Zenon DEF SetReserveConfig, Configured, WritesOne, Written
  <2>3. CASE \E a \in Asset : \E model \in RateModels[a] : SetInterestRateModel(a, model)
    BY <2>3, Zenon DEF SetInterestRateModel, WritesOne, Written
  <2>4. CASE \E a \in Asset, amount \in Amounts, to \in User : WithdrawReserves(a, amount, to)
    <3>0. PICK a \in Asset : \E amount \in Amounts, to \in User : WithdrawReserves(a, amount, to)
      BY <2>4
    <3>1. PICK x, y : reserves' = [reserves EXCEPT ![a] = UpdateRates(
                [Accrue(reserves[a], now) EXCEPT !.accruedToTreasury = x, !.cash = y])]
      BY <3>0, Zenon DEF WithdrawReserves
    <3>2. Booked(Accrue(reserves[a], now),
                 [Accrue(reserves[a], now) EXCEPT !.accruedToTreasury = x, !.cash = y])
      BY Zenon DEF Booked
    <3> QED BY <3>1, <3>2, <1>0
  <2>5. CASE \/ \E newPaused \in Pauses : SetPoolPaused(newPaused)
             \/ \E period \in GracePeriods : SetLiquidationGracePeriod(period)
    BY <2>5, Zenon DEF SetPoolPaused, SetLiquidationGracePeriod
  <2> QED BY <1>2, <2>1, <2>2, <2>3, <2>4, <2>5, Zenon DEF ConfiguratorNext
<1>3. CASE EnvironmentNext
  BY <1>3, Zenon DEF EnvironmentNext, Tick, SetPrice
<1>4. CASE UNCHANGED vars
  BY <1>4, Zenon DEF vars
<1> QED BY <1>1, <1>2, <1>3, <1>4, Zenon DEF Next

\* What a call books leaves the settings and the indexes.
LEMMA BookedKeeps ==
    ASSUME NEW p, HasSetup(p), {"liquidityIndex", "borrowIndex", "lastUpdateTimestamp"} \subseteq DOMAIN p,
           NEW q, Booked(p, q)
    PROVE  SameSetup(p, q) /\ SameIndexes(p, q) /\ q.lastUpdateTimestamp = p.lastUpdateTimestamp
<1>1. PICK x, y : \/ q = [p EXCEPT !.totalScaledSupply = x, !.cash = y]
                  \/ q = [p EXCEPT !.totalScaledDebt = x, !.cash = y]
                  \/ q = [p EXCEPT !.accruedToTreasury = x, !.cash = y]
                  \/ x \in Nat /\ q = [p EXCEPT !.deficit = p.deficit - x, !.cash = y]
  BY Zenon DEF Booked
<1>2. CASE \/ q = [p EXCEPT !.totalScaledSupply = x, !.cash = y]
           \/ q = [p EXCEPT !.totalScaledDebt = x, !.cash = y]
           \/ q = [p EXCEPT !.accruedToTreasury = x, !.cash = y]
  BY <1>2 DEF SameSetup, HasSetup, SameIndexes
<1>3. CASE x \in Nat /\ q = [p EXCEPT !.deficit = p.deficit - x, !.cash = y]
  BY <1>3 DEF SameSetup, HasSetup, SameIndexes
<1> QED BY <1>1, <1>2, <1>3

\* The views of a reserve accrued to t, with its rates or with new ones, are its indexes.
LEMMA ViewsOfAccrued ==
    ASSUME NEW q, NEW t, {"liquidityIndex", "borrowIndex", "lastUpdateTimestamp"} \subseteq DOMAIN q,
           q.lastUpdateTimestamp = t
    PROVE  /\ NormalizedIncome(q, t) = q.liquidityIndex /\ NormalizedDebt(q, t) = q.borrowIndex
           /\ NormalizedIncome(UpdateRates(q), t) = q.liquidityIndex
           /\ NormalizedDebt(UpdateRates(q), t) = q.borrowIndex
<1>1. PICK x, y : UpdateRates(q) = [q EXCEPT !.liquidityRate = x, !.borrowRate = y]
  BY DEF UpdateRates
<1> DEFINE s == UpdateRates(q)
<1>2. s = [q EXCEPT !.liquidityRate = x, !.borrowRate = y]
  BY <1>1
<1> HIDE DEF s
<1>3. /\ s.lastUpdateTimestamp = t /\ s.liquidityIndex = q.liquidityIndex
      /\ s.borrowIndex = q.borrowIndex
  BY <1>2
<1> QED BY <1>3 DEF NormalizedIncome, NormalizedDebt, s

\* At the moment of the call, reserve r and reserve s are worth the same to an account.
SameViews(r, s, t) ==
    /\ NormalizedIncome(s, t) = NormalizedIncome(r, t)
    /\ NormalizedDebt(s, t) = NormalizedDebt(r, t)

\* Accruing changes no view.
LEMMA AccrueTracks ==
    ASSUME PoolInv, NEW a \in Asset, IsListed(reserves[a]), NEW q,
           {"liquidityIndex", "borrowIndex", "lastUpdateTimestamp"} \subseteq DOMAIN q,
           q.lastUpdateTimestamp = now, SameIndexes(Accrue(reserves[a], now), q)
    PROVE  SameViews(reserves[a], q, now) /\ SameViews(reserves[a], UpdateRates(q), now)
<1> DEFINE r == Accrue(reserves[a], now)
<1>1. reserves[a] \in ReserveData /\ now \in Nat /\ reserves[a].lastUpdateTimestamp <= now
  BY DEF PoolInv, TypeOK, ReservesSane, SaneReserve
<1>2. /\ NormalizedIncome(reserves[a], now) = r.liquidityIndex
      /\ NormalizedDebt(reserves[a], now) = r.borrowIndex
  BY <1>1, ViewsAreAccrue
<1> HIDE DEF r
<1>3. q.liquidityIndex = r.liquidityIndex /\ q.borrowIndex = r.borrowIndex
  BY DEF SameIndexes, r
<1> QED BY <1>2, <1>3, ViewsOfAccrued DEF SameViews

\* The views of a listed reserve do not move with the calls of a block.
Tracked(a) == IsListed(reserves[a]) => SameViews(reserves[a], reserves'[a], now)

\* A call on one reserve moves no view.
LEMMA WriteTracks ==
    ASSUME PoolInv, NEW a \in Asset, NEW q, Written(a, q),
           reserves' = [reserves EXCEPT ![a] = UpdateRates(q)]
    PROVE  \A b \in Asset : Tracked(b)
<1> DEFINE r == Accrue(reserves[a], now)
           s == UpdateRates(q)
<1>1. reserves \in [Asset -> ReserveData]
  BY DEF PoolInv, TypeOK
<1>2. ASSUME IsListed(reserves[a]) PROVE SameViews(reserves[a], s, now)
  <2>1. r \in ReserveData /\ r.lastUpdateTimestamp = now
    BY <1>2, Accrued
  <2>2. \/ Booked(r, q)
        \/ \E config : q = [r EXCEPT !.config = config]
        \/ \E model : q = [r EXCEPT !.interestRateModel = model]
    BY <1>2, Zenon DEF Written
  <2> HIDE DEF r
  <2>3. HasSetup(r) /\ {"liquidityIndex", "borrowIndex", "lastUpdateTimestamp"} \subseteq DOMAIN r
    BY <2>1 DEF ReserveData, HasSetup
  <2>4. /\ SameIndexes(r, q) /\ q.lastUpdateTimestamp = now
        /\ {"liquidityIndex", "borrowIndex", "lastUpdateTimestamp"} \subseteq DOMAIN q
    <3>1. CASE Booked(r, q)
      BY <2>1, <2>3, <3>1, BookedKeeps DEF SameSetup
    <3>2. CASE \/ \E config : q = [r EXCEPT !.config = config]
               \/ \E model : q = [r EXCEPT !.interestRateModel = model]
      BY <2>1, <2>3, <3>2 DEF SameIndexes
    <3> QED BY <2>2, <3>1, <3>2
  <2> QED BY <1>2, <2>4, AccrueTracks DEF r
<1> HIDE DEF s
<1>3. reserves' = [reserves EXCEPT ![a] = s]
  BY DEF s
<1> TAKE b \in Asset
<1>4. CASE b = a
  <2>1. reserves'[b] = s
    BY <1>1, <1>3, <1>4
  <2> QED BY <1>2, <1>4, <2>1 DEF Tracked
<1>5. CASE b # a
  <2>1. reserves'[b] = reserves[b]
    BY <1>1, <1>3, <1>5
  <2> QED BY <2>1 DEF Tracked, SameViews
<1> QED BY <1>4, <1>5

\* A write-off accrues, and moves no view either.
LEMMA WriteOffTracks ==
    ASSUME NEW r \in ReserveData, NEW t \in Nat \ {0}, SaneReserve(r, t), IsListed(r), NEW scaled
    PROVE  SameViews(r, WriteOffAt(r, scaled, t), t)
<1> DEFINE p == Accrue(r, t)
           q == WriteOffDebt(p, scaled)
<1>1. p \in ReserveData /\ p.lastUpdateTimestamp = t
  BY AccruedReserve
<1>2. /\ NormalizedIncome(r, t) = p.liquidityIndex /\ NormalizedDebt(r, t) = p.borrowIndex
  BY ViewsAreAccrue DEF SaneReserve
<1> HIDE DEF p
<1>3. \/ q = p
      \/ \E x, y, z : q = [p EXCEPT !.totalScaledDebt = x, !.accruedToTreasury = y, !.deficit = z]
  BY Zenon DEF WriteOffDebt
<1> HIDE DEF q
<1>4. /\ q.lastUpdateTimestamp = t /\ q.liquidityIndex = p.liquidityIndex
      /\ q.borrowIndex = p.borrowIndex
      /\ {"liquidityIndex", "borrowIndex", "lastUpdateTimestamp"} \subseteq DOMAIN q
  BY <1>1, <1>3 DEF ReserveData
<1>5. /\ NormalizedIncome(UpdateRates(q), t) = q.liquidityIndex
      /\ NormalizedDebt(UpdateRates(q), t) = q.borrowIndex
  BY <1>4, ViewsOfAccrued
<1> QED BY <1>2, <1>4, <1>5 DEF SameViews, WriteOffAt, p, q

\* Nor does a liquidation, in its two reserves or in those it writes debt off in.
LEMMA LiquidateTracks ==
    ASSUME PoolInv, NEW sender \in User, NEW c \in Asset, NEW d \in Asset, NEW b \in User,
           NEW cover \in Amounts, NEW receiveSupply \in BOOLEAN,
           Liquidate(sender, c, d, b, cover, receiveSupply)
    PROVE  \A a \in Asset : Tracked(a)
<1>1. PICK written, sr, left : LiquidationWrites(c, d, b, written, sr, left)
  BY LiquidationHasWrites
<1> SUFFICES ASSUME NEW a \in Asset, IsListed(reserves[a])
             PROVE  SameViews(reserves[a], reserves'[a], now)
  BY DEF Tracked
<1> DEFINE s == sr[a]
<1>2. /\ s \in ReserveData /\ SaneReserve(s, now) /\ IsListed(s)
      /\ a \in {c, d} => s.lastUpdateTimestamp = now /\ SameIndexes(Accrue(reserves[a], now), s)
      /\ a \notin {c, d} => s = reserves[a]
      /\ reserves'[a] = IF a \in written
                        THEN WriteOffAt(s, left[a], now)
                        ELSE IF a \in {c, d} THEN UpdateRates(s) ELSE reserves[a]
  BY <1>1, Zenon DEF LiquidationWrites
<1>3. now \in Nat \ {0}
  BY DEF PoolInv, TypeOK
<1> HIDE DEF s
<1>4. {"liquidityIndex", "borrowIndex", "lastUpdateTimestamp"} \subseteq DOMAIN s
  BY <1>2 DEF ReserveData
<1>5. SameViews(reserves[a], s, now) /\ (a \in {c, d} => SameViews(reserves[a], UpdateRates(s), now))
  <2>1. CASE a \in {c, d}
    BY <1>2, <1>4, <2>1, AccrueTracks
  <2>2. CASE a \notin {c, d}
    BY <1>2, <2>2 DEF SameViews
  <2> QED BY <2>1, <2>2
<1>6. SameViews(s, WriteOffAt(s, left[a], now), now)
  BY <1>2, <1>3, WriteOffTracks
<1>7. CASE a \in written
  BY <1>2, <1>5, <1>6, <1>7 DEF SameViews
<1>8. CASE a \notin written /\ a \in {c, d}
  BY <1>2, <1>5, <1>8
<1>9. CASE a \notin written /\ a \notin {c, d}
  BY <1>2, <1>9 DEF SameViews
<1> QED BY <1>7, <1>8, <1>9

\* At one moment, no step moves a view: every user of a block sees the same indexes.
LEMMA StepTracks ==
    ASSUME PoolInv, [Next]_vars
    PROVE  \A a \in Asset : Tracked(a)
<1>1. CASE UNCHANGED reserves
  BY <1>1 DEF Tracked, SameViews
<1>2. CASE WritesOne
  BY <1>2, WriteTracks DEF WritesOne
<1>3. CASE \E sender \in User, c \in Asset, d \in Asset, b \in User, cover \in Amounts,
              receiveSupply \in BOOLEAN : Liquidate(sender, c, d, b, cover, receiveSupply)
  <2>1. PICK sender \in User, c \in Asset, d \in Asset, b \in User, cover \in Amounts,
              receiveSupply \in BOOLEAN : Liquidate(sender, c, d, b, cover, receiveSupply)
    BY <1>3, Zenon
  <2> QED BY <2>1, LiquidateTracks
<1> QED BY <1>1, <1>2, <1>3, StepWrites, Zenon

-----------------------------------------------------------------------------
(***************************************************************************)
(* Every configuration covers its loans.                                   *)
(***************************************************************************)

\* Thresholds at least as high as the loan-to-value, of one configuration.
Covers(config) == config.ltv <= config.liquidationThreshold

\* The configurator lets no other configuration through.
LEMMA ValidCovers ==
    ASSUME NEW config \in ValidConfig
    PROVE  Covers(config)
<1>1. config \in ReserveConfig /\ ValidRiskParams(config)
  BY DEF ValidConfig
<1>2. config.ltv \in Nat /\ config.liquidationThreshold \in Nat
  BY <1>1, ScaleAssumption DEF ReserveConfig, Bps
<1>3. \/ config.liquidationThreshold = 0 /\ config.ltv = 0
      \/ config.ltv < config.liquidationThreshold
  BY <1>1 DEF ValidRiskParams
<1> QED BY <1>2, <1>3 DEF Covers

\* A call on one reserve leaves its configuration, or replaces it by a valid one.
LEMMA WriteCovers ==
    ASSUME PoolInv, ThresholdsCover, NEW a \in Asset, NEW q, Written(a, q)
    PROVE  Covers(UpdateRates(q).config)
<1> DEFINE r == Accrue(reserves[a], now)
<1>1. HasSetup(reserves[a]) /\ Covers(reserves[a].config)
  BY DEF PoolInv, TypeOK, ReserveData, HasSetup, ThresholdsCover, Covers
<1>2. SameSetup(reserves[a], r)
  BY <1>1, AccrueSetup
<1>3. HasSetup(r) /\ r.config = reserves[a].config
  BY <1>1, <1>2 DEF HasSetup, SameSetup
<1>4. \A config \in Configs[a] : Covers(config) /\ config \in ReserveConfig
  BY ValidCovers, PoolAssumption DEF ValidConfig
<1>5. \/ Booked(r, q)
      \/ \E config \in Configs[a] : q = [r EXCEPT !.config = config]
      \/ \E model : q = [r EXCEPT !.interestRateModel = model]
      \/ \E config \in Configs[a], model \in RateModels[a] : q = Fresh(config, model, now)
  BY Zenon DEF Written
<1> HIDE DEF r
<1>6. HasSetup(q) /\ Covers(q.config)
  <2>1. CASE Booked(r, q)
    <3>1. PICK x, y : \/ q = [r EXCEPT !.totalScaledSupply = x, !.cash = y]
                      \/ q = [r EXCEPT !.totalScaledDebt = x, !.cash = y]
                      \/ q = [r EXCEPT !.accruedToTreasury = x, !.cash = y]
                      \/ q = [r EXCEPT !.deficit = r.deficit - x, !.cash = y]
      BY <2>1, Zenon DEF Booked
    <3>2. HasSetup(q) /\ q.config = r.config
      BY <1>3, <3>1 DEF HasSetup
    <3> QED BY <1>1, <1>3, <3>2
  <2>2. CASE \E config \in Configs[a] : q = [r EXCEPT !.config = config]
    BY <1>3, <1>4, <2>2 DEF HasSetup
  <2>3. CASE \E model : q = [r EXCEPT !.interestRateModel = model]
    BY <1>1, <1>3, <2>3 DEF HasSetup
  <2>4. CASE \E config \in Configs[a], model \in RateModels[a] : q = Fresh(config, model, now)
    <3>1. PICK config \in Configs[a], model \in RateModels[a] : q = Fresh(config, model, now)
      BY <2>4
    <3>2. config \in ReserveConfig /\ model \in InterestRateModel /\ now \in Nat
      BY <1>4, PoolAssumption DEF PoolInv, TypeOK
    <3>3. q \in ReserveData /\ q.config = config
      BY <3>1, <3>2, FreshType
    <3> QED BY <1>4, <3>3 DEF HasSetup, ReserveData
  <2> QED BY <1>5, <2>1, <2>2, <2>3, <2>4
<1> QED BY <1>6, RatesSetup DEF SameSetup

\* A liquidation leaves every configuration.
LEMMA LiquidateKeepsConfigs ==
    ASSUME PoolInv, NEW sender \in User, NEW c \in Asset, NEW d \in Asset, NEW b \in User,
           NEW cover \in Amounts, NEW receiveSupply \in BOOLEAN,
           Liquidate(sender, c, d, b, cover, receiveSupply)
    PROVE  \A a \in Asset : reserves'[a].config = reserves[a].config
<1>1. PICK written, sr, left : LiquidationWrites(c, d, b, written, sr, left)
  BY LiquidationHasWrites
<1> SUFFICES ASSUME NEW a \in Asset
             PROVE  reserves'[a].config = reserves[a].config
  OBVIOUS
<1> DEFINE s == sr[a]
<1>2. /\ s \in ReserveData /\ SaneReserve(s, now) /\ left[a] \in Nat
      /\ SameSetup(reserves[a], s)
      /\ left[a] <= s.totalScaledDebt
      /\ reserves'[a] = IF a \in written
                        THEN WriteOffAt(s, left[a], now)
                        ELSE IF a \in {c, d} THEN UpdateRates(s) ELSE reserves[a]
      /\ written \subseteq borrowing[b] /\ (IsListed(reserves[a]) => IsListed(s))
  BY <1>1, Zenon DEF LiquidationWrites
<1>3. now \in Nat
  BY DEF PoolInv, TypeOK
<1> HIDE DEF s
<1>4. CASE a \in written
  <2>1. IsListed(s)
    BY <1>2, <1>4, BorrowedHasIndex
  <2>2. SameSetup(s, WriteOffAt(s, left[a], now))
    BY <1>2, <1>3, <2>1, WriteOffSpendsTreasury
  <2> QED BY <1>2, <1>4, <2>2 DEF SameSetup
<1>5. CASE a \notin written
  <2>1. SameSetup(s, UpdateRates(s))
    BY <1>2, RatesSetup DEF HasSetup, ReserveData
  <2> QED BY <1>2, <1>5, <2>1 DEF SameSetup
<1> QED BY <1>4, <1>5

\* Every step keeps the thresholds above the loans.
LEMMA StepCovers ==
    ASSUME PoolInv, ThresholdsCover, [Next]_vars
    PROVE  ThresholdsCover'
<1>1. reserves \in [Asset -> ReserveData]
  BY DEF PoolInv, TypeOK
<1>2. CASE UNCHANGED reserves
  BY <1>2 DEF ThresholdsCover
<1>3. ASSUME NEW a \in Asset, NEW q, Written(a, q),
             reserves' = [reserves EXCEPT ![a] = UpdateRates(q)]
      PROVE  ThresholdsCover'
  <2>1. Covers(UpdateRates(q).config)
    BY <1>3, WriteCovers
  <2> DEFINE s == UpdateRates(q)
  <2>2. Covers(s.config) /\ reserves' = [reserves EXCEPT ![a] = s]
    BY <1>3, <2>1
  <2> HIDE DEF s
  <2> QED BY <1>1, <2>2 DEF ThresholdsCover, Covers
<1>4. ASSUME NEW sender \in User, NEW c \in Asset, NEW d \in Asset, NEW b \in User,
             NEW cover \in Amounts, NEW receiveSupply \in BOOLEAN,
             Liquidate(sender, c, d, b, cover, receiveSupply)
      PROVE  ThresholdsCover'
  BY <1>4, LiquidateKeepsConfigs DEF ThresholdsCover
<1> QED BY <1>2, <1>3, <1>4, StepWrites, Zenon DEF WritesOne

\* The reserves the pool starts with cover their loans.
LEMMA InitCovers ==
    ASSUME Init
    PROVE  ThresholdsCover
<1> SUFFICES ASSUME NEW a \in Asset PROVE Covers(reserves[a].config)
  BY DEF ThresholdsCover, Covers
<1>1. reserves[a] = IF a \in Listed
                    THEN NewReserve(InitialConfig[a], InitialRateModel[a], Genesis)
                    ELSE UnlistedReserve
  BY DEF Init
<1>2. CASE a \in Listed
  <2> DEFINE q == Fresh(InitialConfig[a], InitialRateModel[a], Genesis)
  <2>1. InitialConfig[a] \in ValidConfig /\ InitialRateModel[a] \in InterestRateModel
    BY PoolAssumption
  <2>2. InitialConfig[a] \in ReserveConfig /\ Covers(InitialConfig[a]) /\ Genesis \in Nat
    BY <2>1, ValidCovers DEF ValidConfig, Genesis
  <2>3. q \in ReserveData /\ q.config = InitialConfig[a]
    BY <2>1, <2>2, FreshType
  <2>4. reserves[a] = UpdateRates(q)
    BY <1>1, <1>2, Zenon DEF NewReserve, Fresh
  <2> HIDE DEF q
  <2>5. SameSetup(q, UpdateRates(q))
    BY <2>3, RatesSetup DEF HasSetup, ReserveData
  <2> QED BY <2>2, <2>3, <2>4, <2>5 DEF SameSetup
<1>3. CASE a \notin Listed
  BY <1>1, <1>3 DEF UnlistedReserve, Covers
<1> QED BY <1>2, <1>3

\* The invariant of the argument holds in every reachable state.
LEMMA HealthInvariant == Spec => []HealthInv
<1>1. Init => HealthInv
  BY InitEstablishes, InitCovers DEF HealthInv
<1>2. HealthInv /\ [Next]_vars => HealthInv'
  BY StepKeeps, StepCovers DEF HealthInv
<1> QED BY <1>1, <1>2, PTL DEF Spec

-----------------------------------------------------------------------------
(***************************************************************************)
(* What a call leaves of an account, and why that is healthy.              *)
(***************************************************************************)

\* A reserve last written in the past can be valued.
LEMMA ViewsType ==
    ASSUME NEW r \in ReserveData, NEW t \in Nat, r.lastUpdateTimestamp <= t
    PROVE  NormalizedIncome(r, t) \in Nat /\ NormalizedDebt(r, t) \in Nat
<1> DEFINE dt == t - r.lastUpdateTimestamp
           li == LinearInterest(r.liquidityRate, dt)
           ci == CompoundedInterest(r.borrowRate, dt)
<1>1. /\ dt \in Nat /\ r.liquidityRate \in Nat /\ r.borrowRate \in Nat
      /\ r.liquidityIndex \in Nat /\ r.borrowIndex \in Nat
  BY DEF ReserveData
<1> HIDE DEF dt
<1>2. li \in Nat /\ ci \in Nat
  BY <1>1, GrowthFactors
<1> HIDE DEF li, ci
<1>3. RayMulDown(li, r.liquidityIndex) \in Nat /\ RayMulUp(ci, r.borrowIndex) \in Nat
  BY <1>1, <1>2, RayType
<1> QED BY <1>1, <1>3 DEF NormalizedIncome, NormalizedDebt, li, ci, dt

\* So can the reserves of the pool.
LEMMA PoolValuable ==
    ASSUME NEW res \in [Asset -> ReserveData], NEW t \in Nat, NEW prices \in [Asset -> Nat],
           \A a \in Asset : res[a].lastUpdateTimestamp <= t
    PROVE  Valuable(res, prices, t)
<1> SUFFICES ASSUME NEW a \in Asset
             PROVE  /\ NormalizedIncome(res[a], t) \in Nat /\ NormalizedDebt(res[a], t) \in Nat
                    /\ res[a].config.ltv \in Nat /\ res[a].config.liquidationThreshold \in Nat
  BY DEF Valuable
<1>1. res[a] \in ReserveData /\ res[a].lastUpdateTimestamp <= t
  OBVIOUS
<1>2. NormalizedIncome(res[a], t) \in Nat /\ NormalizedDebt(res[a], t) \in Nat
  BY <1>1, ViewsType
<1>3. res[a].config \in ReserveConfig
  BY <1>1 DEF ReserveData
<1>4. res[a].config.ltv \in Nat /\ res[a].config.liquidationThreshold \in Nat
  BY <1>3, ScaleAssumption DEF ReserveConfig, Bps
<1> QED BY <1>2, <1>4

\* What a valuation reads before and after a step that is neither time nor price.
LEMMA StepValuable ==
    ASSUME PoolInv, PoolInv', now' = now
    PROVE  /\ Valuable(reserves, price, now) /\ Valuable(reserves', price', now)
           /\ \A u \in User : AccountOf(u) \in AccountType /\ AccountOf(u)' \in AccountType
<1>1. /\ reserves \in [Asset -> ReserveData] /\ price \in [Asset -> Nat] /\ now \in Nat
      /\ \A a \in Asset : reserves[a].lastUpdateTimestamp <= now
  BY DEF PoolInv, TypeOK, ReservesSane, SaneReserve
<1>2. /\ reserves' \in [Asset -> ReserveData] /\ price' \in [Asset -> Nat]
      /\ \A a \in Asset : reserves'[a].lastUpdateTimestamp <= now
  BY DEF PoolInv, TypeOK, ReservesSane, SaneReserve
<1>3. \A u \in User : AccountOf(u) \in AccountType
  BY DEF PoolInv, TypeOK, AccountOf, Account, AccountType
<1>4. \A u \in User : AccountOf(u)' \in AccountType
  BY DEF PoolInv, TypeOK, AccountOf, Account, AccountType
<1> QED BY <1>1, <1>2, <1>3, <1>4, PoolValuable

\* The step takes no collateral from u and adds no debt.
Milder(u) ==
    \A a \in Asset :
        /\ a \in borrowing'[u] /\ debt'[u][a] # 0 =>
             a \in borrowing[u] /\ debt[u][a] # 0 /\ debt'[u][a] <= debt[u][a]
        /\ a \in collateral[u] /\ supply[u][a] # 0 =>
             a \in collateral'[u] /\ supply'[u][a] # 0 /\ supply[u][a] <= supply'[u][a]

\* The step passed the capacity check with the account it leaves u, at the reserves
\* it was about to write.
Checked(u) ==
    \E res : /\ WithinBorrowCapacity(AccountOf(u)', res, price, now)
             /\ \A a \in Asset : /\ SameViews(res[a], reserves'[a], now)
                                 /\ res[a].config = reserves[a].config

\* What every call leaves of every account.
Judged(u) == Milder(u) \/ borrowing'[u] = {} \/ Checked(u) \/ ~Healthy(u)

\* Balances are in listed reserves.
LEMMA ExposedIsListed ==
    ASSUME PoolInv, NEW u \in User, NEW a \in Asset, supply[u][a] # 0 \/ debt[u][a] # 0
    PROVE  IsListed(reserves[a])
<1>1. /\ supply[u][a] \in Nat /\ supply[u][a] <= reserves[a].totalScaledSupply
      /\ debt[u][a] \in Nat /\ debt[u][a] <= reserves[a].totalScaledDebt
  BY BalancesWithinTotals DEF PoolInv
<1>2. ~(reserves[a].totalScaledSupply = 0 /\ reserves[a].totalScaledDebt = 0)
  BY <1>1
<1> QED BY <1>2 DEF PoolInv, ReservesSane, SaneReserve

\* A milder account at the same prices, indexes and thresholds stays healthy.
LEMMA MilderStaysHealthy ==
    ASSUME PoolInv, PoolInv', now' = now, price' = price, \A a \in Asset : Tracked(a),
           \A a \in Asset : reserves'[a].config = reserves[a].config,
           NEW u \in User, Milder(u), Healthy(u)
    PROVE  Healthy(u)'
<1>1. /\ Valuable(reserves, price, now) /\ Valuable(reserves', price, now)
      /\ AccountOf(u) \in AccountType /\ AccountOf(u)' \in AccountType
  BY StepValuable
<1> DEFINE acct == AccountOf(u)
           eased == AccountOf(u)'
<1>2. /\ acct.supply = supply[u] /\ acct.debt = debt[u]
      /\ acct.collateral = collateral[u] /\ acct.borrowing = borrowing[u]
      /\ eased.supply = supply'[u] /\ eased.debt = debt'[u]
      /\ eased.collateral = collateral'[u] /\ eased.borrowing = borrowing'[u]
  BY DEF AccountOf, Account
<1>3. collateral[u] \subseteq Asset /\ borrowing'[u] \subseteq Asset
  BY DEF PoolInv, TypeOK
<1> HIDE DEF acct, eased
<1>4. ASSUME NEW a \in DebtAssets(eased)
      PROVE  /\ a \in DebtAssets(acct) /\ eased.debt[a] <= acct.debt[a]
             /\ NormalizedDebt(reserves'[a], now) = NormalizedDebt(reserves[a], now)
  <2>1. a \in borrowing'[u] /\ debt'[u][a] # 0 /\ a \in Asset
    BY <1>2, <1>3, <1>4 DEF DebtAssets
  <2>2. a \in borrowing[u] /\ debt[u][a] # 0 /\ debt'[u][a] <= debt[u][a]
    BY <2>1 DEF Milder
  <2>3. Tracked(a) /\ IsListed(reserves[a])
    BY <2>1, <2>2, ExposedIsListed
  <2> QED BY <1>2, <2>2, <2>3 DEF DebtAssets, Tracked, SameViews
<1>5. ASSUME NEW a \in CollateralAssets(acct)
      PROVE  /\ a \in CollateralAssets(eased) /\ acct.supply[a] <= eased.supply[a]
             /\ NormalizedIncome(reserves'[a], now) = NormalizedIncome(reserves[a], now)
             /\ reserves'[a].config.liquidationThreshold = reserves[a].config.liquidationThreshold
  <2>1. a \in collateral[u] /\ supply[u][a] # 0 /\ a \in Asset
    BY <1>2, <1>3, <1>5 DEF CollateralAssets
  <2>2. a \in collateral'[u] /\ supply'[u][a] # 0 /\ supply[u][a] <= supply'[u][a]
    BY <2>1 DEF Milder
  <2>3. Tracked(a) /\ IsListed(reserves[a])
    BY <2>1, ExposedIsListed
  <2> QED BY <1>2, <2>1, <2>2, <2>3 DEF CollateralAssets, Tracked, SameViews
<1>6. Eases(acct, reserves, eased, reserves', now)
  BY <1>4, <1>5, Zenon DEF Eases
<1>7. IsHealthy(acct, reserves, price, now)
  BY DEF Healthy, acct
<1>8. IsHealthy(eased, reserves', price, now)
  BY <1>1, <1>6, <1>7, EasedStaysHealthy DEF acct, eased
<1> QED BY <1>8, Zenon DEF Healthy, eased

\* So does an account that passed the capacity check.
LEMMA CheckedIsHealthy ==
    ASSUME PoolInv, PoolInv', ThresholdsCover, now' = now, price' = price,
           \A a \in Asset : reserves'[a].config = reserves[a].config,
           NEW u \in User, Checked(u)
    PROVE  Healthy(u)'
<1> DEFINE acct == AccountOf(u)'
<1>1. Valuable(reserves', price, now) /\ acct \in AccountType
  BY StepValuable
<1>2. PICK res : /\ WithinBorrowCapacity(acct, res, price, now)
                 /\ \A a \in Asset : /\ SameViews(res[a], reserves'[a], now)
                                     /\ res[a].config = reserves'[a].config
  BY Zenon DEF Checked
<1> HIDE DEF acct
<1>3. Valuable(res, price, now)
  BY <1>1, <1>2 DEF Valuable, SameViews
<1>4. \A a \in Asset : res[a].config.ltv <= res[a].config.liquidationThreshold
  BY <1>2 DEF ThresholdsCover
<1>5. IsHealthy(acct, res, price, now)
  BY <1>1, <1>2, <1>3, <1>4, CapacityIsHealthy
<1>6. Eases(acct, res, acct, reserves', now)
  <2>1. acct.supply \in [Asset -> Nat] /\ acct.debt \in [Asset -> Nat]
    BY <1>1 DEF AccountType
  <2>2. CollateralAssets(acct) \subseteq Asset /\ DebtAssets(acct) \subseteq Asset
    BY <1>1, ExposureFinite
  <2>3. \A a \in Asset : acct.supply[a] <= acct.supply[a] /\ acct.debt[a] <= acct.debt[a]
    BY <2>1
  <2> QED BY <1>2, <2>2, <2>3 DEF Eases, SameViews
<1>7. IsHealthy(acct, reserves', price, now)
  BY <1>1, <1>3, <1>5, <1>6, EasedStaysHealthy
<1> QED BY <1>7, Zenon DEF Healthy, acct

\* An account without debt is healthy.
LEMMA DebtFreeIsHealthy ==
    ASSUME NEW u \in User, borrowing'[u] = {}
    PROVE  Healthy(u)'
<1> DEFINE acct == AccountOf(u)'
<1>1. acct.borrowing = {}
  BY DEF AccountOf, Account
<1> HIDE DEF acct
<1>2. DebtAssets(acct) = {}
  BY <1>1 DEF DebtAssets
<1>3. TotalDebtValue(acct, reserves', price', now') = 0
  BY <1>2, SumEmpty DEF TotalDebtValue
<1> QED BY <1>3, Zenon DEF Healthy, IsHealthy, acct

\* The three together: a judged account that was healthy stays so.
LEMMA JudgedStaysHealthy ==
    ASSUME PoolInv, PoolInv', ThresholdsCover, now' = now, price' = price,
           \A a \in Asset : Tracked(a),
           \A a \in Asset : reserves'[a].config = reserves[a].config,
           NEW u \in User, Judged(u), Healthy(u)
    PROVE  Healthy(u)'
BY MilderStaysHealthy, CheckedIsHealthy, DebtFreeIsHealthy DEF Judged

-----------------------------------------------------------------------------
(***************************************************************************)
(* Every call judges every account.                                        *)
(***************************************************************************)

\* The step leaves the balances and the bits of u.
Untouched(u) ==
    /\ supply'[u] = supply[u] /\ debt'[u] = debt[u]
    /\ collateral'[u] = collateral[u] /\ borrowing'[u] = borrowing[u]

\* An account left alone is none the worse.
LEMMA UntouchedIsMilder ==
    ASSUME PoolInv, NEW u \in User, Untouched(u)
    PROVE  Milder(u)
<1>1. \A a \in Asset : supply[u][a] \in Nat /\ debt[u][a] \in Nat
  BY DEF PoolInv, TypeOK
<1>2. \A a \in Asset : supply[u][a] <= supply[u][a] /\ debt[u][a] <= debt[u][a]
  BY <1>1
<1> QED BY <1>2, Zenon DEF Untouched, Milder

\* A step that leaves the accounts alone judges them all.
LEMMA QuietJudges ==
    ASSUME PoolInv, UNCHANGED accountVars
    PROVE  \A u \in User : Judged(u)
<1> TAKE u \in User
<1>1. Untouched(u)
  BY DEF accountVars, Untouched
<1> QED BY <1>1, UntouchedIsMilder DEF Judged

\* Supplying adds to one balance, and may flag it as collateral.
LEMMA SupplyJudges ==
    ASSUME PoolInv, NEW sender \in User, NEW a \in Asset, NEW amount \in Amounts, NEW v \in User,
           Supply(sender, a, amount, v)
    PROVE  \A u \in User : Judged(u)
<1> DEFINE r == Accrue(reserves[a], now)
           scaled == RayDivDown(amount, r.liquidityIndex)
<1>1. /\ supply' = [supply EXCEPT ![v][a] = @ + scaled]
      /\ collateral' = collateral \/ collateral' = [collateral EXCEPT ![v] = @ \cup {a}]
      /\ debt' = debt /\ borrowing' = borrowing
      /\ reserves[a].config.active
  BY Zenon DEF Supply, SupplyPaidBy, AcceptsSupply, ValidateSupply, Operational
<1>2. /\ supply \in [User -> [Asset -> Nat]] /\ debt \in [User -> [Asset -> Nat]]
      /\ collateral \in [User -> SUBSET Asset] /\ amount \in Nat
  BY PoolAssumption DEF PoolInv, TypeOK
<1>3. r.liquidityIndex \in Nat \ {0}
  BY <1>1, ActiveIsListed, Accrued
<1> HIDE DEF r
<1>4. scaled \in Nat
  BY <1>2, <1>3, RayType
<1> HIDE DEF scaled
<1> SUFFICES ASSUME NEW u \in User PROVE Milder(u)
  BY DEF Judged
<1>5. collateral[u] \subseteq collateral'[u]
  BY <1>1, <1>2
<1>6. ASSUME NEW b \in Asset
      PROVE  /\ supply[u][b] <= supply'[u][b] /\ (supply[u][b] # 0 => supply'[u][b] # 0)
             /\ debt[u][b] <= debt[u][b]
  BY <1>1, <1>2, <1>4
<1> QED BY <1>1, <1>5, <1>6, Zenon DEF Milder

\* Repaying takes from one debt.
LEMMA RepayJudges ==
    ASSUME PoolInv, PoolInv', NEW sender \in User, NEW a \in Asset, NEW amount \in Amounts,
           NEW v \in User, Repay(sender, a, amount, v)
    PROVE  \A u \in User : Judged(u)
<1> DEFINE r == Accrue(reserves[a], now)
           burn == IF amount >= RayMulUp(debt[v][a], r.borrowIndex)
                   THEN debt[v][a]
                   ELSE RayDivDown(amount, r.borrowIndex)
<1>1. /\ debt' = [debt EXCEPT ![v][a] = @ - burn]
      /\ borrowing' = [borrowing EXCEPT ![v] = ClearBit(@, a, burn, debt[v][a])]
      /\ supply' = supply /\ collateral' = collateral
      /\ reserves[a].config.active
  BY Zenon DEF Repay, AcceptsRepay, ValidateRepay
<1>2. /\ supply \in [User -> [Asset -> Nat]] /\ debt \in [User -> [Asset -> Nat]]
      /\ debt' \in [User -> [Asset -> Nat]]
      /\ borrowing \in [User -> SUBSET Asset] /\ amount \in Nat
  BY PoolAssumption DEF PoolInv, TypeOK
<1>3. r.borrowIndex \in Nat \ {0}
  BY <1>1, ActiveIsListed, Accrued
<1> HIDE DEF r
<1>4. burn \in Nat
  BY <1>2, <1>3, RayType
<1> HIDE DEF burn
<1> SUFFICES ASSUME NEW u \in User PROVE Milder(u)
  BY DEF Judged
<1>5. borrowing'[u] \subseteq borrowing[u]
  BY <1>1, <1>2 DEF ClearBit
<1>6. ASSUME NEW b \in Asset
      PROVE  /\ debt'[u][b] <= debt[u][b] /\ (debt'[u][b] # 0 => debt[u][b] # 0)
             /\ supply[u][b] <= supply[u][b]
  <2>1. debt'[u][b] <= debt[u][b]
    BY <1>1, <1>2, <1>4
  <2>2. debt'[u][b] \in Nat /\ debt[u][b] \in Nat /\ supply[u][b] \in Nat
    BY <1>2
  <2> QED BY <2>1, <2>2
<1> QED BY <1>1, <1>5, <1>6, Zenon DEF Milder

\* A call that checks the account it leaves, at the reserve it is about to write.
LEMMA CheckedBy ==
    ASSUME PoolInv, NEW u \in User, NEW a \in Asset, NEW nr \in ReserveData,
           nr.lastUpdateTimestamp = now, nr.config = reserves[a].config,
           reserves' = [reserves EXCEPT ![a] = UpdateRates(nr)],
           WithinBorrowCapacity(AccountOf(u)', [reserves EXCEPT ![a] = nr], price, now)
    PROVE  Checked(u)
<1> DEFINE res == [reserves EXCEPT ![a] = nr]
           s == UpdateRates(nr)
<1>1. reserves \in [Asset -> ReserveData]
  BY DEF PoolInv, TypeOK
<1>2. SameViews(nr, s, now)
  BY ViewsOfAccrued DEF ReserveData, SameViews
<1>3. reserves' = [reserves EXCEPT ![a] = s]
  OBVIOUS
<1> HIDE DEF s
<1>4. \A b \in Asset : SameViews(res[b], reserves'[b], now) /\ res[b].config = reserves[b].config
  <2> TAKE b \in Asset
  <2>1. CASE b = a
    <3>1. res[b] = nr /\ reserves'[b] = s
      BY <1>1, <1>3, <2>1
    <3> QED BY <1>2, <2>1, <3>1
  <2>2. CASE b # a
    <3>1. res[b] = reserves[b] /\ reserves'[b] = reserves[b]
      BY <1>1, <1>3, <2>2
    <3> QED BY <3>1 DEF SameViews
  <2> QED BY <2>1, <2>2
<1> HIDE DEF res
<1> QED BY <1>4, Zenon DEF Checked, res

\* Borrowing is checked.
LEMMA BorrowJudges ==
    ASSUME PoolInv, NEW sender \in User, NEW a \in Asset, NEW amount \in Amounts,
           Borrow(sender, a, amount), PoolInv'
    PROVE  \A u \in User : Judged(u)
<1> DEFINE r == Accrue(reserves[a], now)
           scaled == RayDivUp(amount, r.borrowIndex)
           nr == [r EXCEPT !.totalScaledDebt = r.totalScaledDebt + scaled, !.cash = r.cash - amount]
           newDebt == [debt[sender] EXCEPT ![a] = @ + scaled]
           bits == borrowing[sender] \cup {a}
<1>1. TypeOK /\ amount \in Nat \ {0}
  BY PoolAssumption DEF PoolInv
<1>2. /\ WithinBorrowCapacity(Account(supply[sender], newDebt, collateral[sender], bits),
                              [reserves EXCEPT ![a] = nr], price, now)
      /\ debt' = [debt EXCEPT ![sender] = newDebt]
      /\ borrowing' = [borrowing EXCEPT ![sender] = bits]
      /\ supply' = supply /\ collateral' = collateral
      /\ reserves' = [reserves EXCEPT ![a] = UpdateRates(nr)]
      /\ reserves[a].config.active
      /\ amount <= r.cash
  BY Zenon DEF Borrow, AcceptsBorrow, ValidateBorrow, Operational
<1>3. /\ r \in ReserveData /\ r.lastUpdateTimestamp = now /\ r.config = reserves[a].config
      /\ r.borrowIndex \in Nat \ {0}
  BY <1>2, ActiveIsListed, Accrued
<1> HIDE DEF r
<1>4. scaled \in Nat
  BY <1>1, <1>3, RayDivUpPositive
<1> HIDE DEF scaled
<1>5. nr \in ReserveData /\ nr.lastUpdateTimestamp = now /\ nr.config = reserves[a].config
  <2>1. r.totalScaledDebt + scaled \in Nat /\ r.cash - amount \in Nat
    BY <1>1, <1>2, <1>3, <1>4 DEF ReserveData
  <2>2. r.config \in ReserveConfig
    BY <1>3 DEF ReserveData
  <2> QED BY <1>3, <2>1, <2>2 DEF ReserveData
<1> HIDE DEF nr, newDebt, bits
<1>6. Judged(sender)
  <2>1. debt'[sender] = newDebt /\ borrowing'[sender] = bits
    BY <1>1, <1>2 DEF TypeOK
  <2>2. AccountOf(sender)' = Account(supply[sender], newDebt, collateral[sender], bits)
    BY <1>2, <2>1 DEF AccountOf, Account
  <2>3. Checked(sender)
    BY <1>2, <1>5, <2>2, CheckedBy
  <2> QED BY <2>3 DEF Judged
<1>7. ASSUME NEW u \in User \ {sender} PROVE Judged(u)
  <2>1. Untouched(u)
    BY <1>1, <1>2 DEF TypeOK, Untouched
  <2> QED BY <2>1, UntouchedIsMilder DEF Judged
<1> QED BY <1>6, <1>7

\* Withdrawing collateral of an account with debt is checked.
LEMMA WithdrawJudges ==
    ASSUME PoolInv, NEW sender \in User, NEW a \in Asset, NEW amount \in Amounts, NEW to,
           Withdraw(sender, a, amount, to), PoolInv'
    PROVE  \A u \in User : Judged(u)
<1> DEFINE r == Accrue(reserves[a], now)
           balance == RayMulDown(supply[sender][a], r.liquidityIndex)
           all == amount = MaxUint \/ amount = balance
           paid == IF all THEN balance ELSE amount
           burn == IF all THEN supply[sender][a] ELSE RayDivUp(amount, r.liquidityIndex)
           nr == [r EXCEPT !.totalScaledSupply = r.totalScaledSupply - burn, !.cash = r.cash - paid]
           newSupply == [supply[sender] EXCEPT ![a] = @ - burn]
           bits == ClearBit(collateral[sender], a, burn, supply[sender][a])
<1>1. /\ TypeOK /\ TypeOK' /\ amount \in Nat
      /\ supply[sender][a] \in Nat /\ supply[sender][a] <= reserves[a].totalScaledSupply
  BY PoolAssumption, BalancesWithinTotals DEF PoolInv
<1>2. /\ NeedsCapacityCheck(a \in collateral[sender], a \in bits, borrowing[sender]) =>
           WithinBorrowCapacity(Account(newSupply, debt[sender], bits, borrowing[sender]),
                                [reserves EXCEPT ![a] = nr], price, now)
      /\ supply' = [supply EXCEPT ![sender] = newSupply]
      /\ collateral' = [collateral EXCEPT ![sender] = bits]
      /\ debt' = debt /\ borrowing' = borrowing
      /\ reserves' = [reserves EXCEPT ![a] = UpdateRates(nr)]
      /\ reserves[a].config.active
      /\ paid <= balance /\ paid <= r.cash
  BY Zenon DEF Withdraw, AcceptsWithdraw, Operational
<1>3. /\ r \in ReserveData /\ r.lastUpdateTimestamp = now /\ r.config = reserves[a].config
      /\ r.liquidityIndex \in Nat \ {0} /\ r.totalScaledSupply = reserves[a].totalScaledSupply
  BY <1>2, ActiveIsListed, Accrued
<1> HIDE DEF r
<1>4. balance \in Nat
  BY <1>1, <1>3, RayType
<1>5. paid \in Nat /\ burn \in Nat /\ burn <= supply[sender][a]
  BY <1>1, <1>2, <1>3, <1>4, BurnUpWithinBalance
<1> HIDE DEF paid, burn, balance
<1>6. nr \in ReserveData /\ nr.lastUpdateTimestamp = now /\ nr.config = reserves[a].config
  <2>1. r.totalScaledSupply - burn \in Nat /\ r.cash - paid \in Nat
    BY <1>1, <1>2, <1>3, <1>5 DEF ReserveData
  <2> QED BY <1>3, <2>1 DEF ReserveData
<1>7. \A b \in Asset \ {a} : newSupply[b] = supply[sender][b]
  BY <1>1 DEF TypeOK
<1>8. a \notin collateral[sender] => bits = collateral[sender]
  BY DEF ClearBit
<1> HIDE DEF nr, newSupply, bits
<1>9. supply'[sender] = newSupply /\ collateral'[sender] = bits
  BY <1>1, <1>2 DEF TypeOK
<1>10. CASE a \in collateral[sender] /\ borrowing[sender] # {}
  <2>1. AccountOf(sender)' = Account(newSupply, debt[sender], bits, borrowing[sender])
    BY <1>2, <1>9 DEF AccountOf, Account
  <2>2. WithinBorrowCapacity(Account(newSupply, debt[sender], bits, borrowing[sender]),
                             [reserves EXCEPT ![a] = nr], price, now)
    BY <1>2, <1>10, Zenon DEF NeedsCapacityCheck
  <2>3. Checked(sender)
    BY <1>2, <1>6, <2>1, <2>2, CheckedBy
  <2> QED BY <1>2, <2>3, <1>1, UntouchedIsMilder DEF Judged, Untouched, TypeOK
<1>11. CASE borrowing[sender] = {}
  <2>1. Judged(sender)
    BY <1>2, <1>11 DEF Judged
  <2> QED BY <1>2, <2>1, <1>1, UntouchedIsMilder DEF Judged, Untouched, TypeOK
<1>12. CASE a \notin collateral[sender]
  <2>1. \A b \in Asset : /\ supply[sender][b] \in Nat /\ debt[sender][b] \in Nat
                         /\ supply[sender][b] <= supply[sender][b]
                         /\ debt[sender][b] <= debt[sender][b]
    BY <1>1 DEF TypeOK
  <2>2. Milder(sender)
    BY <1>2, <1>7, <1>8, <1>9, <1>12, <2>1, Zenon DEF Milder
  <2> QED BY <1>2, <2>2, <1>1, UntouchedIsMilder DEF Judged, Untouched, TypeOK
<1> QED BY <1>10, <1>11, <1>12

\* Flagging a balance as collateral adds to the account; unflagging it is checked.
LEMMA SetUseReserveAsCollateralJudges ==
    ASSUME PoolInv, NEW sender \in User, NEW a \in Asset, NEW enabled \in BOOLEAN,
           SetUseReserveAsCollateral(sender, a, enabled)
    PROVE  \A u \in User : Judged(u)
<1> DEFINE bits == IF enabled THEN collateral[sender] \cup {a} ELSE collateral[sender] \ {a}
<1>1. /\ ~enabled /\ borrowing[sender] # {} =>
           WithinBorrowCapacity(Account(supply[sender], debt[sender], bits, borrowing[sender]),
                                reserves, price, now)
      /\ collateral' = [collateral EXCEPT ![sender] = bits]
      /\ UNCHANGED <<reserves, supply, debt, borrowing>>
  BY Zenon DEF SetUseReserveAsCollateral
<1>2. TypeOK
  BY DEF PoolInv
<1>3. enabled => collateral[sender] \subseteq bits
  OBVIOUS
<1> HIDE DEF bits
<1>4. collateral'[sender] = bits
  BY <1>1, <1>2 DEF TypeOK
<1>5. Judged(sender)
  <2>1. CASE borrowing[sender] = {}
    BY <1>1, <2>1 DEF Judged
  <2>2. CASE enabled
    <3>1. \A b \in Asset : supply[sender][b] <= supply[sender][b] /\ debt[sender][b] <= debt[sender][b]
      BY <1>2 DEF TypeOK
    <3>2. collateral[sender] \subseteq collateral'[sender]
      BY <1>3, <1>4, <2>2
    <3>3. Milder(sender)
      BY <1>1, <3>1, <3>2, Zenon DEF Milder
    <3> QED BY <3>3 DEF Judged
  <2>3. CASE borrowing[sender] # {} /\ ~enabled
    <3>1. AccountOf(sender)' = Account(supply[sender], debt[sender], bits, borrowing[sender])
      BY <1>1, <1>4 DEF AccountOf, Account
    <3>2. \A b \in Asset : SameViews(reserves[b], reserves'[b], now)
      BY <1>1 DEF SameViews
    <3>3. Checked(sender)
      BY <1>1, <2>3, <3>1, <3>2, Zenon DEF Checked
    <3> QED BY <3>3 DEF Judged
  <2> QED BY <2>1, <2>2, <2>3
<1>6. ASSUME NEW u \in User \ {sender} PROVE Judged(u)
  <2>1. Untouched(u)
    BY <1>1, <1>2 DEF TypeOK, Untouched
  <2> QED BY <2>1, UntouchedIsMilder DEF Judged
<1> QED BY <1>5, <1>6

\* Only an unhealthy account is liquidated, and the others lose nothing by it.
LEMMA LiquidateJudges ==
    ASSUME PoolInv, NEW sender \in User, NEW c \in Asset, NEW d \in Asset, NEW b \in User,
           NEW cover \in Amounts, NEW receiveSupply \in BOOLEAN,
           Liquidate(sender, c, d, b, cover, receiveSupply), PoolInv'
    PROVE  \A u \in User : Judged(u)
<1> DEFINE accrued == AccruedPair(c, d)
<1>1. /\ ~IsHealthy(AccountOf(b), accrued, price, now)
      /\ reserves[c].config.active /\ reserves[d].config.active
  BY Zenon DEF Liquidate, AccruedPair, AccountOf, ValidateLiquidationReserve
<1>2. /\ reserves \in [Asset -> ReserveData] /\ price \in [Asset -> Nat] /\ now \in Nat
      /\ \A a \in Asset : reserves[a].lastUpdateTimestamp <= now
      /\ IsListed(reserves[c]) /\ IsListed(reserves[d])
  BY <1>1, ActiveIsListed DEF PoolInv, TypeOK, ReservesSane, SaneReserve
<1>3. ASSUME NEW a \in Asset
      PROVE  /\ accrued[a] \in ReserveData /\ accrued[a].lastUpdateTimestamp <= now
             /\ accrued[a].config = reserves[a].config
             /\ SameViews(reserves[a], accrued[a], now)
  <2>1. CASE a \in {c, d}
    <3> DEFINE q == Accrue(reserves[a], now)
    <3>1. accrued[a] = q
      BY <2>1 DEF AccruedPair
    <3>2. /\ q \in ReserveData /\ q.lastUpdateTimestamp = now /\ q.config = reserves[a].config
      BY <1>2, <2>1, Accrued
    <3>3. SameIndexes(Accrue(reserves[a], now), q)
      BY DEF SameIndexes
    <3>4. IsListed(reserves[a])
      BY <1>2, <2>1
    <3> HIDE DEF q
    <3>5. {"liquidityIndex", "borrowIndex", "lastUpdateTimestamp"} \subseteq DOMAIN q
      BY <3>2 DEF ReserveData
    <3>6. SameViews(reserves[a], q, now)
      BY <3>2, <3>3, <3>4, <3>5, AccrueTracks
    <3>7. q.lastUpdateTimestamp <= now
      BY <1>2, <3>2
    <3> HIDE DEF accrued
    <3> QED BY <3>1, <3>2, <3>6, <3>7
  <2>2. CASE a \notin {c, d}
    <3>1. accrued[a] = reserves[a]
      BY <2>2 DEF AccruedPair
    <3> HIDE DEF accrued
    <3> QED BY <1>2, <3>1 DEF SameViews
  <2> QED BY <2>1, <2>2
<1>4. accrued \in [Asset -> ReserveData]
  <2>1. accrued = [a \in Asset |-> accrued[a]]
    BY DEF AccruedPair
  <2> HIDE DEF accrued
  <2> QED BY <1>3, <2>1
<1> HIDE DEF accrued
<1>5. /\ Valuable(reserves, price, now) /\ Valuable(accrued, price, now)
      /\ AccountOf(b) \in AccountType
  <2>1. AccountOf(b) \in AccountType
    BY DEF PoolInv, TypeOK, AccountOf, Account, AccountType
  <2> QED BY <1>2, <1>3, <1>4, <2>1, PoolValuable
<1>6. Eases(AccountOf(b), reserves, AccountOf(b), accrued, now)
  <2> DEFINE acct == AccountOf(b)
  <2>1. acct \in AccountType
    BY <1>5
  <2> HIDE DEF acct
  <2>2. CollateralAssets(acct) \subseteq Asset /\ DebtAssets(acct) \subseteq Asset
    BY <2>1, ExposureFinite
  <2>3. \A a \in Asset : acct.supply[a] <= acct.supply[a] /\ acct.debt[a] <= acct.debt[a]
    BY <2>1 DEF AccountType
  <2>4. Eases(acct, reserves, acct, accrued, now)
    BY <1>3, <2>2, <2>3 DEF Eases, SameViews
  <2> QED BY <2>4 DEF acct
<1>7. ~Healthy(b)
  BY <1>1, <1>5, <1>6, EasedStaysHealthy DEF Healthy
<1>8. ASSUME NEW u \in User \ {b} PROVE Milder(u)
  <2>1. PICK written, sr, left : LiquidationWrites(c, d, b, written, sr, left)
    BY LiquidationHasWrites
  <2>2. /\ \A x \in Asset \ {c} : supply'[u][x] = supply[u][x]
        /\ supply[u][c] <= supply'[u][c]
        /\ collateral[u] \subseteq collateral'[u]
        /\ borrowing'[u] = borrowing[u]
    BY <2>1, Zenon DEF LiquidationWrites
  <2>3. /\ supply \in [User -> [Asset -> Nat]] /\ supply' \in [User -> [Asset -> Nat]]
        /\ debt \in [User -> [Asset -> Nat]]
    BY DEF PoolInv, TypeOK
  <2>4. debt'[u] = debt[u]
    BY <2>1, <2>3 DEF LiquidationWrites
  <2>5. ASSUME NEW a \in Asset
        PROVE  /\ supply[u][a] <= supply'[u][a] /\ (supply[u][a] # 0 => supply'[u][a] # 0)
               /\ debt[u][a] <= debt[u][a]
    <3>1. supply[u][a] \in Nat /\ supply'[u][a] \in Nat /\ debt[u][a] \in Nat
      BY <2>3
    <3>2. CASE a = c
      BY <2>2, <3>1, <3>2
    <3>3. CASE a # c
      BY <2>2, <3>1, <3>3
    <3> QED BY <3>2, <3>3
  <2> QED BY <2>2, <2>4, <2>5, Zenon DEF Milder
<1> QED BY <1>7, <1>8 DEF Judged

\* Every step judges every account.
LEMMA StepJudges ==
    ASSUME PoolInv, PoolInv', [Next]_vars
    PROVE  \A u \in User : Judged(u)
<1>1. CASE UserNext
  <2>1. PICK sender \in User, a \in Asset :
          \/ \E amount \in Amounts :
               \/ \E onBehalfOf \in Beneficiaries[sender] : Supply(sender, a, amount, onBehalfOf)
               \/ \E to \in Beneficiaries[sender] : Withdraw(sender, a, amount, to)
               \/ Borrow(sender, a, amount)
               \/ \E onBehalfOf \in Beneficiaries[sender] : Repay(sender, a, amount, onBehalfOf)
               \/ \E c \in Asset, b \in User, receiveSupply \in BOOLEAN :
                      Liquidate(sender, c, a, b, amount, receiveSupply)
               \/ CoverDeficit(sender, a, amount)
          \/ \E enabled \in BOOLEAN : SetUseReserveAsCollateral(sender, a, enabled)
    BY <1>1, Zenon DEF UserNext
  <2>2. Beneficiaries[sender] \subseteq User
    BY PoolAssumption
  <2>3. CASE \E enabled \in BOOLEAN : SetUseReserveAsCollateral(sender, a, enabled)
    BY <2>3, SetUseReserveAsCollateralJudges
  <2>4. CASE \E amount \in Amounts, v \in Beneficiaries[sender] : Supply(sender, a, amount, v)
    BY <2>2, <2>4, SupplyJudges
  <2>5. CASE \E amount \in Amounts, v \in Beneficiaries[sender] : Withdraw(sender, a, amount, v)
    BY <2>5, WithdrawJudges
  <2>6. CASE \E amount \in Amounts : Borrow(sender, a, amount)
    BY <2>6, BorrowJudges
  <2>7. CASE \E amount \in Amounts, v \in Beneficiaries[sender] : Repay(sender, a, amount, v)
    BY <2>2, <2>7, RepayJudges
  <2>8. CASE \E amount \in Amounts, c \in Asset, b \in User, receiveSupply \in BOOLEAN :
                 Liquidate(sender, c, a, b, amount, receiveSupply)
    <3>1. PICK amount \in Amounts, c \in Asset, b \in User, receiveSupply \in BOOLEAN :
                  Liquidate(sender, c, a, b, amount, receiveSupply)
      BY <2>8, Zenon
    <3> QED BY <3>1, LiquidateJudges
  <2>9. CASE \E amount \in Amounts : CoverDeficit(sender, a, amount)
    BY <2>9, QuietJudges, Zenon DEF CoverDeficit
  <2> QED BY <2>1, <2>3, <2>4, <2>5, <2>6, <2>7, <2>8, <2>9, Zenon
<1>2. CASE ConfiguratorNext \/ EnvironmentNext
  <2>1. UNCHANGED accountVars
    BY <1>2, Zenon DEF ConfiguratorNext, EnvironmentNext, InitReserve, SetReserveConfig,
       SetInterestRateModel, SetPoolPaused, SetLiquidationGracePeriod, WithdrawReserves,
       Tick, SetPrice
  <2> QED BY <2>1, QuietJudges
<1>3. CASE UNCHANGED vars
  BY <1>3, QuietJudges DEF vars
<1> QED BY <1>1, <1>2, <1>3, Zenon DEF Next

\* Nothing users do makes a healthy account unhealthy: not its owner's withdrawals or
\* borrowings, nor what others supply, repay or liquidate; only time, prices and
\* configurations can (requireWithinBorrowCapacity and the guard of executeLiquidation).
THEOREM HealthyAccountsStay == Spec => HealthyStaysHealthy
<1> DEFINE Kept ==
        (/\ now' = now
         /\ price' = price
         /\ \A a \in Asset : reserves'[a].config = reserves[a].config)
        => \A u \in User : Priced(u) /\ Priced(u)' /\ Healthy(u) => Healthy(u)'
<1>1. HealthInv /\ [Next]_vars => Kept
  <2> SUFFICES ASSUME HealthInv, [Next]_vars, now' = now, price' = price,
                      \A a \in Asset : reserves'[a].config = reserves[a].config,
                      NEW u \in User, Healthy(u)
               PROVE  Healthy(u)'
    OBVIOUS
  <2>1. PoolInv /\ PoolInv' /\ ThresholdsCover
    BY StepKeeps DEF HealthInv
  <2>2. Judged(u) /\ \A a \in Asset : Tracked(a)
    BY <2>1, StepJudges, StepTracks
  <2> QED BY <2>1, <2>2, JudgedStaysHealthy
<1> QED BY <1>1, HealthInvariant, PTL DEF Spec, HealthyStaysHealthy

-----------------------------------------------------------------------------
(***************************************************************************)
(* Solvency up to the rounding of interest.                                *)
(***************************************************************************)

\* The surplus before and after an interval, from what each side of the books gained.
LEMMA SurplusOfInterval ==
    ASSUME NEW cash \in Int, NEW R \in Int, NEW D \in Int, NEW bi \in Int, NEW gb \in Int,
           NEW Q \in Int, NEW li \in Int, NEW gl \in Int, NEW dT \in Int, NEW dust \in Int,
           Q * gl + dT * (li + gl) <= D * gb + dust
    PROVE  cash * R + D * bi - Q * li
             <= cash * R + D * (bi + gb) - (Q + dT) * (li + gl) + dust
<1>1. /\ D * (bi + gb) = D * bi + D * gb
      /\ (Q + dT) * (li + gl) = Q * li + Q * gl + dT * (li + gl)
  OBVIOUS
<1> DEFINE v == D * bi
           w == D * gb
           x == Q * li
           y == Q * gl
           z == dT * (li + gl)
           k == cash * R
<1>2. v \in Int /\ w \in Int /\ x \in Int /\ y \in Int /\ z \in Int /\ k \in Int /\ y + z <= w + dust
  OBVIOUS
<1>3. k + v - x <= k + (v + w) - (x + y + z) + dust
  <2> HIDE DEF v, w, x, y, z, k
  <2> QED BY <1>2
<1> QED BY <1>1, <1>3

\* The treasury's part of an interval, for an index ni and a borrow index gb higher.
LEMMA TreasuryInterest ==
    ASSUME NEW r \in ReserveData, NEW gb \in Nat, NEW ni \in Nat \ {0}
    PROVE  LET dT == TreasuryAccrualScaled(r, r.borrowIndex + gb, ni)
           IN  dT \in Nat
               /\ (dT * ni) * PERCENTAGE_FACTOR
                    <= (r.totalScaledDebt * gb + RAY) * r.config.reserveFactor
<1> DEFINE D  == r.totalScaledDebt
           bi == r.borrowIndex
           rf == r.config.reserveFactor
           nb == bi + gb
           new == RayMulDown(D, nb)
           old == RayMulDown(D, bi)
           I  == new - old
           share == PercentMulDown(I, rf)
           dT == TreasuryAccrualScaled(r, nb, ni)
           W == RayDivDown(share, ni)
<1>1. /\ D \in Nat /\ bi \in Nat /\ rf \in Nat
      /\ RAY \in Nat \ {0} /\ PERCENTAGE_FACTOR \in Nat \ {0}
  BY ScaleAssumption DEF ReserveData, ReserveConfig, Bps
<1>2. dT = IF rf = 0 THEN 0 ELSE W
  BY DEF TreasuryAccrualScaled
<1>3. dT \in Nat
  <2>1. nb \in Nat /\ r.borrowIndex <= nb
    BY <1>1
  <2> QED BY <2>1, TreasuryAccrualType
<1> HIDE DEF D, bi, rf, dT
<1>4. D * nb = D * bi + D * gb /\ D * bi \in Nat /\ D * gb \in Nat /\ D * nb \in Nat
  BY <1>1, MulNat
<1>5. /\ new \in Nat /\ new * RAY <= D * nb
      /\ old \in Nat /\ D * bi < old * RAY + RAY
  BY <1>1, <1>4, DivDown DEF RayMulDown
<1>6. old <= new
  BY <1>1, <1>4, DivDownMonotone DEF RayMulDown
<1> HIDE DEF new, old, nb
<1>7. I \in Nat /\ I * RAY <= D * gb + RAY
  <2>1. I * RAY = new * RAY - old * RAY /\ new * RAY \in Nat /\ old * RAY \in Nat
    BY <1>1, <1>5, MulNat
  <2> QED BY <1>1, <1>4, <1>5, <1>6, <2>1
<1> HIDE DEF I
<1>8. share \in Nat /\ share * PERCENTAGE_FACTOR <= I * rf
  BY <1>1, <1>7, MulNat, DivDown DEF PercentMulDown
<1> HIDE DEF share
<1>9. W \in Nat /\ W * ni <= share * RAY
  BY <1>1, <1>8, MulNat, DivDown DEF RayDivDown
<1>10. dT * ni <= share * RAY
  <2>1. 0 * ni = 0 /\ share * RAY \in Nat
    BY <1>1, <1>8, MulNat
  <2> QED BY <1>2, <1>9, <2>1
<1> HIDE DEF W
<1>11. (dT * ni) * PERCENTAGE_FACTOR <= (D * gb + RAY) * rf
  BY <1>1, <1>3, <1>4, <1>7, <1>8, <1>10, TreasuryShare
<1> QED BY <1>3, <1>11 DEF dT, D, rf, nb, bi

\* The suppliers' part of an interval in which the liquidity index grew by gl.
LEMMA SuppliersInterest ==
    ASSUME NEW r \in ReserveData, r.liquidityRate = LiquidityRate(r, r.borrowRate),
           NEW dt \in Nat, NEW gl \in Nat,
           r.liquidityRate = 0 => gl = 0,
           gl * RAY <= ((r.liquidityRate * dt) \div SECONDS_PER_YEAR) * r.liquidityIndex
    PROVE  LET Dh == RayMulUp(r.totalScaledDebt, r.borrowIndex)
               xb == (r.borrowRate * dt) \div SECONDS_PER_YEAR
           IN  ((r.totalScaledSupply + r.accruedToTreasury) * gl) * PERCENTAGE_FACTOR
                 <= (Dh * (xb + 1)) * (PERCENTAGE_FACTOR - r.config.reserveFactor)
<1> DEFINE Dh == RayMulUp(r.totalScaledDebt, r.borrowIndex)
           lr == r.liquidityRate
           b  == r.borrowRate
           Q  == r.totalScaledSupply + r.accruedToTreasury
           li == r.liquidityIndex
           K  == PERCENTAGE_FACTOR - r.config.reserveFactor
           xl == (lr * dt) \div SECONDS_PER_YEAR
           xb == (b * dt) \div SECONDS_PER_YEAR
<1>1. /\ r.totalScaledDebt \in Nat /\ r.borrowIndex \in Nat
      /\ lr \in Nat /\ b \in Nat /\ Q \in Nat /\ li \in Nat /\ K \in Nat
      /\ RAY \in Nat \ {0} /\ PERCENTAGE_FACTOR \in Nat \ {0} /\ SECONDS_PER_YEAR \in Nat \ {0}
  BY ScaleAssumption, YearAssumption DEF ReserveData, ReserveConfig, Bps
<1>2. Dh \in Nat
  BY <1>1, RayType
<1>3. /\ xl \in Nat /\ xl * SECONDS_PER_YEAR <= lr * dt
      /\ xb \in Nat /\ b * dt <= (xb + 1) * SECONDS_PER_YEAR
  <2>1. lr * dt \in Nat /\ b * dt \in Nat
    BY <1>1, MulNat
  <2>2. /\ xl \in Nat /\ xl * SECONDS_PER_YEAR <= lr * dt
        /\ xb \in Nat /\ b * dt < xb * SECONDS_PER_YEAR + SECONDS_PER_YEAR
    BY <1>1, <2>1, DivDown
  <2> HIDE DEF xl, xb, lr, b
  <2>3. (xb + 1) * SECONDS_PER_YEAR = xb * SECONDS_PER_YEAR + SECONDS_PER_YEAR
        /\ xb * SECONDS_PER_YEAR \in Nat
    BY <1>1, <2>2, MulNat
  <2> QED BY <1>1, <2>1, <2>2, <2>3
<1>4. CASE lr = 0
  <2>1. gl = 0
    BY <1>4
  <2> HIDE DEF Q, Dh, K, xb
  <2>2. (Q * gl) * PERCENTAGE_FACTOR = 0 /\ (Dh * (xb + 1)) * K \in Nat
    BY <1>1, <1>2, <1>3, <2>1, MulNat
  <2>3. (Q * gl) * PERCENTAGE_FACTOR <= (Dh * (xb + 1)) * K
    BY <2>2
  <2> QED BY <2>3 DEF Q, Dh, K, xb
<1>5. CASE lr # 0
  <2>1. PICK u \in Nat, Lh \in Nat :
           /\ Q * li <= Lh * RAY
           /\ u * Lh <= Dh * RAY
           /\ (lr * RAY) * PERCENTAGE_FACTOR <= (b * u) * K
    BY <1>1, <1>5, LiquidityRateBound
  <2>2. gl * RAY <= xl * li
    OBVIOUS
  <2> HIDE DEF Q, Dh, K, lr, b, li, xl, xb
  <2>3. (Q * gl) * PERCENTAGE_FACTOR <= (Dh * (xb + 1)) * K
    BY <1>1, <1>2, <1>3, <2>1, <2>2, SuppliersShare
  <2> QED BY <2>3 DEF Q, Dh, K, xb, b
<1> QED BY <1>4, <1>5

\* Accruing a reserve whose rates are current lowers its exact surplus by at most the
\* dust of the interval.
THEOREM AccrueCosts ==
    ASSUME NEW r \in ReserveData, NEW t \in Nat, Current(r, t), UpdateRates(r) = r
    PROVE  /\ InterestDust(r, t) \in Nat
           /\ SurplusRay(r) \in Int /\ SurplusRay(Accrue(r, t)) \in Int
           /\ SurplusRay(r) <= SurplusRay(Accrue(r, t)) + InterestDust(r, t)
<1> DEFINE dt == t - r.lastUpdateTimestamp
           D  == r.totalScaledDebt
           bi == r.borrowIndex
           li == r.liquidityIndex
           T  == r.accruedToTreasury
           Q  == r.totalScaledSupply + T
           rf == r.config.reserveFactor
           K  == PERCENTAGE_FACTOR - rf
           Dh == RayMulUp(D, bi)
           xl == (r.liquidityRate * dt) \div SECONDS_PER_YEAR
           xb == (r.borrowRate * dt) \div SECONDS_PER_YEAR
           ni == IF r.liquidityRate = 0 THEN li
                 ELSE RayMulDown(LinearInterest(r.liquidityRate, dt), li)
           nb == RayMulUp(CompoundedInterest(r.borrowRate, dt), bi)
           gl == ni - li
           gb == nb - bi
           dT == TreasuryAccrualScaled(r, nb, ni)
           cash == r.cash + r.deficit
           s == Accrue(r, t)
           dust == DivUp((Dh + xb) * K + RAY * rf, PERCENTAGE_FACTOR)
<1>1. /\ dt \in Nat /\ D \in Nat /\ bi \in Nat \ {0} /\ li \in Nat \ {0} /\ T \in Nat /\ Q \in Nat
      /\ r.totalScaledSupply \in Nat
      /\ rf \in Nat /\ K \in Nat /\ K + rf = PERCENTAGE_FACTOR /\ cash \in Nat
      /\ r.liquidityRate \in Nat /\ r.borrowRate \in Nat
      /\ RAY \in Nat \ {0} /\ PERCENTAGE_FACTOR \in Nat \ {0} /\ SECONDS_PER_YEAR \in Nat \ {0}
  BY ScaleAssumption, YearAssumption DEF ReserveData, ReserveConfig, Bps, Current
<1>2. SurplusRay(r) = cash * RAY + D * bi - Q * li /\ SurplusRay(r) \in Int
  BY <1>1 DEF SurplusRay
<1>3. r.liquidityRate = LiquidityRate(r, r.borrowRate)
  <2>1. PICK l, b : UpdateRates(r) = [r EXCEPT !.liquidityRate = l, !.borrowRate = b]
                    /\ l = LiquidityRate(r, b)
    BY Zenon DEF UpdateRates
  <2>2. [r EXCEPT !.liquidityRate = l, !.borrowRate = b].liquidityRate = l
        /\ [r EXCEPT !.liquidityRate = l, !.borrowRate = b].borrowRate = b
    BY DEF ReserveData
  <2> QED BY <2>1, <2>2
<1>4. xl \in Nat /\ xb \in Nat
  BY <1>1, MulNat, DivDown
<1>5. Dh \in Nat
  BY <1>1, RayType
<1>6. gl \in Nat /\ gl * RAY <= xl * li /\ (r.liquidityRate = 0 => gl = 0) /\ ni \in Nat \ {0}
  <2>1. CASE r.liquidityRate = 0
    <3>1. gl = 0 /\ gl * RAY = 0
      BY <1>1, <2>1
    <3>2. xl * li \in Nat
      BY <1>1, <1>4, MulNat
    <3> QED BY <1>1, <2>1, <3>1, <3>2
  <2>2. CASE r.liquidityRate # 0
    <3> DEFINE f == LinearInterest(r.liquidityRate, dt)
    <3>1. f = RAY + xl
      BY DEF LinearInterest
    <3>2. f \in Nat /\ RAY <= f /\ f <= RAY + xl
      BY <1>1, <1>4, <3>1
    <3> HIDE DEF f, xl
    <3>3. (RayMulDown(f, li) - li) * RAY <= xl * li
      BY <1>1, <1>4, <3>2, IndexGains
    <3>4. RayMulDown(f, li) \in Nat /\ li <= RayMulDown(f, li)
      BY <1>1, <3>2, RayMulGrows, RayType
    <3>5. ni = RayMulDown(f, li)
      BY <2>2 DEF f
    <3> HIDE DEF ni
    <3> QED BY <1>1, <2>2, <3>3, <3>4, <3>5 DEF xl
  <2> QED BY <2>1, <2>2
<1>7. gb \in Nat /\ xb * bi <= gb * RAY /\ nb = bi + gb
  <2> DEFINE f == CompoundedInterest(r.borrowRate, dt)
  <2>1. f \in Nat /\ RAY + xb <= f
    <3> DEFINE xx == RayMulDown(xb, xb)
               xxx == RayMulDown(xx, xb)
    <3>1. f = RAY + xb + xx \div 2 + xxx \div 6
      BY DEF CompoundedInterest
    <3> HIDE DEF f, xb
    <3>2. xx \in Nat
      BY <1>4, RayType DEF xb
    <3>3. xxx \in Nat
      BY <1>4, <3>2, RayType DEF xb
    <3> HIDE DEF xx, xxx
    <3>4. xx \div 2 \in Nat /\ xxx \div 6 \in Nat
      BY <3>2, <3>3, DivDown
    <3> QED BY <1>1, <1>4, <3>1, <3>4 DEF xb
  <2> HIDE DEF f, xb
  <2>2. xb \in Nat
    BY <1>4 DEF xb
  <2>3. xb * bi <= (RayMulUp(f, bi) - bi) * RAY
    BY <1>1, <2>1, <2>2, IndexGains
  <2>4. RayMulUp(f, bi) \in Nat /\ bi <= RayMulUp(f, bi)
    <3>1. RAY <= f
      BY <1>1, <2>1, <2>2
    <3> QED BY <1>1, <2>1, <3>1, RayMulGrows, RayType
  <2>5. nb = RayMulUp(f, bi)
    BY DEF f
  <2> HIDE DEF nb
  <2> QED BY <1>1, <2>3, <2>4, <2>5 DEF xb
<1>8. dT \in Nat /\ (dT * ni) * PERCENTAGE_FACTOR <= (D * gb + RAY) * rf
  <2> HIDE DEF ni, gb, nb
  <2> QED BY <1>6, <1>7, TreasuryInterest
<1>9. (Q * gl) * PERCENTAGE_FACTOR <= (D * gb + xb + Dh) * K
  <2>1. (Q * gl) * PERCENTAGE_FACTOR <= (Dh * (xb + 1)) * K
    <3> HIDE DEF gl
    <3> QED BY <1>1, <1>3, <1>6, SuppliersInterest
  <2>2. Dh * RAY <= D * bi + RAY
    <3>1. D * bi \in Nat
      BY <1>1, MulNat
    <3>2. Dh * RAY < D * bi + RAY /\ Dh * RAY \in Nat
      BY <1>1, <1>5, <3>1, DivUpBounds, MulNat DEF RayMulUp
    <3> HIDE DEF Dh
    <3> QED BY <1>1, <3>1, <3>2
  <2> HIDE DEF Dh, D, bi, gb, xb, gl, Q, K
  <2>3. Dh * (xb + 1) <= D * gb + xb + Dh
    BY <1>1, <1>4, <1>5, <1>7, <2>2, BorrowersCharge
  <2>4. Dh * (xb + 1) \in Nat /\ D * gb \in Nat
    BY <1>1, <1>4, <1>5, <1>7, MulNat
  <2>5. (Dh * (xb + 1)) * K <= (D * gb + xb + Dh) * K
    BY <1>1, <1>4, <1>5, <2>3, <2>4, MulMonotone
  <2>6. /\ (Q * gl) * PERCENTAGE_FACTOR \in Nat /\ (Dh * (xb + 1)) * K \in Nat
        /\ (D * gb + xb + Dh) * K \in Nat
    BY <1>1, <1>4, <1>5, <1>6, <2>4, MulNat
  <2> QED BY <2>1, <2>5, <2>6
<1>10. dust \in Nat /\ Q * gl + dT * ni <= D * gb + dust
  <2> HIDE DEF Dh, D, gb, xb, gl, Q, K, dT, ni, rf
  <2>1. Q * gl \in Nat /\ dT * ni \in Nat /\ D * gb \in Nat
    BY <1>1, <1>6, <1>7, <1>8, MulNat
  <2> QED BY <1>1, <1>4, <1>5, <1>8, <1>9, <2>1, SharesAtMost
<1>11. CASE dt = 0
  <2>1. s = r /\ InterestDust(r, t) = 0
    <3>1. t = r.lastUpdateTimestamp
      BY <1>11 DEF ReserveData, Current
    <3> QED BY <3>1 DEF Accrue, InterestDust
  <2> HIDE DEF s
  <2> QED BY <1>2, <2>1 DEF s
<1>12. CASE dt # 0 /\ D = 0
  <2>1. InterestDust(r, t) = 0
    BY <1>12 DEF InterestDust
  <2>2. s = [r EXCEPT !.liquidityIndex = ni, !.lastUpdateTimestamp = t]
    BY <1>1, <1>12 DEF Accrue
  <2>3. gl = 0
    <3>1. Dh = 0
      <4>1. D * bi = 0 /\ 0 \div RAY = 0 /\ 0 % RAY = 0
        BY <1>1, <1>12
      <4> QED BY <4>1 DEF RayMulUp, DivUp
    <3>2. r.liquidityRate = 0
      BY <1>3, <3>1 DEF LiquidityRate
    <3> QED BY <1>6, <3>2
  <2>4. ni = li
    <3> HIDE DEF ni, li
    <3> QED BY <1>1, <1>6, <2>3
  <2> HIDE DEF s, ni, gl
  <2>5. SurplusRay(s) = SurplusRay(r)
    <3>1. /\ s.cash = r.cash /\ s.deficit = r.deficit
          /\ s.totalScaledSupply = r.totalScaledSupply /\ s.totalScaledDebt = r.totalScaledDebt
          /\ s.liquidityIndex = r.liquidityIndex /\ s.borrowIndex = r.borrowIndex
          /\ s.accruedToTreasury = r.accruedToTreasury
      BY <2>2, <2>4 DEF ReserveData
    <3> QED BY <3>1, Zenon DEF SurplusRay
  <2> QED BY <1>2, <2>1, <2>5 DEF s
<1>13. CASE dt # 0 /\ D # 0
  <2>1. InterestDust(r, t) = dust
    <3>1. t # r.lastUpdateTimestamp
      BY <1>13 DEF ReserveData, Current
    <3> QED BY <1>13, <3>1 DEF InterestDust
  <2>2. s = [r EXCEPT !.liquidityIndex = ni, !.borrowIndex = nb,
                      !.accruedToTreasury = T + dT, !.lastUpdateTimestamp = t]
    <3>1. t # r.lastUpdateTimestamp
      BY <1>13 DEF ReserveData, Current
    <3> QED BY <1>13, <3>1, Zenon DEF Accrue
  <2> HIDE DEF s, ni, nb, dT, dust
  <2>3. /\ s.cash + s.deficit = cash
        /\ s.totalScaledSupply + s.accruedToTreasury = Q + dT /\ s.totalScaledDebt = D
        /\ s.liquidityIndex = li + gl /\ s.borrowIndex = bi + gb
    BY <1>1, <1>6, <1>7, <1>8, <2>2 DEF ReserveData
  <2>4. SurplusRay(s) = cash * RAY + D * (bi + gb) - (Q + dT) * (li + gl)
    BY <2>3, Zenon DEF SurplusRay
  <2>5. ni = li + gl
    BY <1>1, <1>6
  <2> HIDE DEF cash, D, bi, gb, Q, li, gl
  <2>6. Q * gl + dT * (li + gl) <= D * gb + dust
    BY <1>10, <2>5
  <2>7. cash * RAY + D * bi - Q * li
          <= cash * RAY + D * (bi + gb) - (Q + dT) * (li + gl) + dust
    BY <1>1, <1>6, <1>7, <1>8, <1>10, <2>6, SurplusOfInterval
  <2>8. cash * RAY + D * (bi + gb) - (Q + dT) * (li + gl) \in Int
    BY <1>1, <1>6, <1>7, <1>8
  <2> QED BY <1>2, <1>10, <2>1, <2>4, <2>7, <2>8 DEF s
<1> QED BY <1>11, <1>12, <1>13

\* The accrued surplus covers what the views count: cash, debts and deficit against
\* the claims.
LEMMA SurplusOfViews ==
    ASSUME NEW r \in ReserveData, NEW t \in Nat, Current(r, t)
    PROVE  LET held == r.cash + TotalBorrowed(r, t) + r.deficit
               owed == TotalSupplyLiabilities(r, t)
           IN  /\ held \in Nat /\ owed \in Nat
               /\ SurplusRay(Accrue(r, t)) <= (held - owed) * RAY
<1> DEFINE s == Accrue(r, t)
           D == s.totalScaledDebt
           bi == s.borrowIndex
           Q == s.totalScaledSupply + s.accruedToTreasury
           li == s.liquidityIndex
           borrowed == RayMulUp(D, bi)
           owed == RayMulDown(Q, li)
           held == r.cash + borrowed + r.deficit
<1>1. s \in ReserveData /\ s.cash = r.cash /\ s.deficit = r.deficit
      /\ s.totalScaledSupply = r.totalScaledSupply /\ s.totalScaledDebt = r.totalScaledDebt
  <2>1. Grown(r, s, t)
    BY AccrueGrows
  <2> HIDE DEF s
  <2>2. PICK ni \in Nat, nb \in Nat, tr \in Nat :
          s = [r EXCEPT !.liquidityIndex = ni, !.borrowIndex = nb,
                        !.accruedToTreasury = tr, !.lastUpdateTimestamp = t]
    BY <2>1, Zenon DEF Grown
  <2>3. t \in Nat
    OBVIOUS
  <2> QED BY <2>2, <2>3 DEF ReserveData
<1>2. /\ NormalizedIncome(r, t) = li /\ NormalizedDebt(r, t) = bi
      /\ TreasuryScaledNow(r, t) = s.accruedToTreasury
  BY ViewsAreAccrue DEF Current
<1> HIDE DEF s
<1>3. TotalBorrowed(r, t) = borrowed /\ TotalSupplyLiabilities(r, t) = owed
  BY <1>1, <1>2 DEF TotalBorrowed, TotalSupplyLiabilities
<1>4. /\ D \in Nat /\ bi \in Nat /\ Q \in Nat /\ li \in Nat
      /\ r.cash \in Nat /\ r.deficit \in Nat /\ RAY \in Nat \ {0}
  BY <1>1, ScaleAssumption DEF ReserveData
<1>5. SurplusRay(s) = (r.cash + r.deficit) * RAY + D * bi - Q * li
  BY <1>1, Zenon DEF SurplusRay
<1> HIDE DEF D, bi, Q, li
<1>6. D * bi \in Nat /\ Q * li \in Nat
  BY <1>4, MulNat
<1>7. borrowed \in Nat /\ D * bi <= borrowed * RAY
  BY <1>4, <1>6, DivUpBounds DEF RayMulUp
<1>8. owed \in Nat /\ owed * RAY <= Q * li
  BY <1>4, <1>6, DivDown DEF RayMulDown
<1> HIDE DEF borrowed, owed
<1>9. held \in Nat
  BY <1>4, <1>7
<1>10. (held - owed) * RAY = (r.cash + r.deficit) * RAY + borrowed * RAY - owed * RAY
  BY <1>4, <1>7, <1>8
<1>11. SurplusRay(s) <= (held - owed) * RAY
  <2>1. borrowed * RAY \in Nat /\ owed * RAY \in Nat /\ (r.cash + r.deficit) * RAY \in Nat
    BY <1>4, <1>7, <1>8, MulNat
  <2> QED BY <1>5, <1>6, <1>7, <1>8, <1>10, <2>1
<1> QED BY <1>3, <1>8, <1>9, <1>11 DEF s

\* A reserve of a reachable state, whose rates are current.
LEMMA ListedIsCurrent ==
    ASSUME PoolInv, RatesCurrent, NEW a \in Asset
    PROVE  /\ reserves[a] \in ReserveData /\ now \in Nat
           /\ IsListed(reserves[a]) =>
                Current(reserves[a], now) /\ UpdateRates(reserves[a]) = reserves[a]
<1>1. reserves[a] \in ReserveData /\ now \in Nat /\ SaneReserve(reserves[a], now)
  BY DEF PoolInv, TypeOK, ReservesSane
<1> QED BY <1>1 DEF RatesCurrent, SaneReserve, Current

\* Nothing accrues in a reserve that is not listed, and nothing is booked.
LEMMA UnlistedBooks ==
    ASSUME PoolInv, NEW a \in Asset, ~IsListed(reserves[a])
    PROVE  SurplusRay(reserves[a]) = 0 /\ InterestDust(reserves[a], now) = 0
<1> DEFINE r == reserves[a]
<1>1. r \in ReserveData /\ SaneReserve(r, now)
  BY DEF PoolInv, TypeOK, ReservesSane
<1>2. /\ r.cash = 0 /\ r.deficit = 0 /\ r.totalScaledDebt = 0 /\ r.totalScaledSupply = 0
      /\ r.accruedToTreasury = 0 /\ r.liquidityIndex \in Nat /\ r.borrowIndex \in Nat /\ RAY \in Nat
  BY <1>1, ScaleAssumption DEF SaneReserve, ReserveData
<1>3. SurplusRay(r) = (0 + 0) * RAY + 0 * r.borrowIndex - (0 + 0) * r.liquidityIndex
  BY <1>2 DEF SurplusRay
<1>4. SurplusRay(r) = 0
  BY <1>2, <1>3
<1>5. InterestDust(r, now) = 0
  BY <1>2 DEF InterestDust
<1> QED BY <1>4, <1>5

\* One step costs a reserve at most the dust of the interval it ends; one that leaves
\* the reserve alone costs nothing.
LEMMA StepCosts ==
    ASSUME PoolInv, RatesCurrent, [Next]_vars, NEW a \in Asset
    PROVE  LET dust == IF reserves'[a] # reserves[a] THEN InterestDust(reserves[a], now) ELSE 0
           IN  /\ InterestDust(reserves[a], now) \in Nat /\ dust \in Nat
               /\ SurplusRay(reserves[a]) \in Int /\ SurplusRay(reserves'[a]) \in Int
               /\ SurplusRay(reserves[a]) <= SurplusRay(reserves'[a]) + dust
<1> DEFINE r == reserves[a]
           s == reserves'[a]
<1>1. /\ InterestDust(r, now) \in Nat
      /\ SurplusRay(r) \in Int /\ SurplusRay(Accrue(r, now)) \in Int
      /\ SurplusRay(r) <= SurplusRay(Accrue(r, now)) + InterestDust(r, now)
  <2>1. CASE IsListed(r)
    <3>1. r \in ReserveData /\ now \in Nat /\ Current(r, now) /\ UpdateRates(r) = r
      BY <2>1, ListedIsCurrent
    <3> HIDE DEF r
    <3> QED BY <3>1, AccrueCosts
  <2>2. CASE ~IsListed(r)
    <3>1. SurplusRay(r) = 0 /\ InterestDust(r, now) = 0
      BY <2>2, UnlistedBooks
    <3>2. SurplusRay(Accrue(r, now)) = 0
      BY <2>2, UnlistedAccrues
    <3> HIDE DEF r
    <3> QED BY <3>1, <3>2
  <2> QED BY <2>1, <2>2
<1>2. CASE s = r
  <2> HIDE DEF r, s
  <2>1. ~(s # r)
    BY <1>2
  <2> QED BY <1>1, <1>2, <2>1 DEF r, s
<1>3. CASE s # r
  <2>1. Gains(Accrue(r, now), s)
    BY <1>3, StepFavours DEF Favoured
  <2> HIDE DEF r, s
  <2>2. /\ SurplusRay(s) \in Int /\ SurplusRay(r) <= SurplusRay(s) + InterestDust(r, now)
    BY <1>1, <2>1 DEF Gains
  <2> QED BY <1>1, <1>3, <2>2 DEF r, s
<1> QED BY <1>2, <1>3

\* Interest included, no step costs a listed reserve more than the dust of the interval
\* it ends.
THEOREM InterestCostsDust == Spec => SurplusFallsByDust
<1> DEFINE Falls ==
        \A a \in Asset : IsListed(reserves[a]) =>
            SurplusRay(reserves'[a]) + InterestDust(reserves[a], now) >= SurplusRay(reserves[a])
<1>1. PoolInv /\ RatesCurrent /\ [Next]_vars => Falls
  <2> SUFFICES ASSUME PoolInv, RatesCurrent, [Next]_vars, NEW a \in Asset
               PROVE  SurplusRay(reserves'[a]) + InterestDust(reserves[a], now)
                        >= SurplusRay(reserves[a])
    OBVIOUS
  <2> DEFINE dust == InterestDust(reserves[a], now)
             before == SurplusRay(reserves[a])
             after == SurplusRay(reserves'[a])
             cost == IF reserves'[a] # reserves[a] THEN dust ELSE 0
  <2>1. dust \in Nat /\ before \in Int /\ after \in Int /\ before <= after + cost
    BY StepCosts
  <2> HIDE DEF dust, before, after
  <2>2. cost <= dust /\ cost \in Nat
    BY <2>1
  <2> HIDE DEF cost
  <2>3. after + dust >= before
    BY <2>1, <2>2
  <2> QED BY <2>3 DEF dust, before, after
<1> QED BY <1>1, PoolInvariant, RatesAreCurrent, PTL DEF Spec, SurplusFallsByDust

\* What the ledger has counted covers what every reserve lacks.
Tolerated ==
    /\ tolerance \in [Asset -> Nat]
    /\ \A a \in Asset : SurplusRay(reserves[a]) \in Int /\ 0 <= SurplusRay(reserves[a]) + tolerance[a]

\* A pool nobody has called holds nothing and owes nothing.
LEMMA InitTolerated ==
    ASSUME LedgerInit
    PROVE  Tolerated
<1>1. PoolInv
  BY InitEstablishes DEF LedgerInit
<1>2. ASSUME NEW a \in Asset
      PROVE  SurplusRay(reserves[a]) = 0
  <2>1. CASE a \notin Listed
    <3>1. ~IsListed(reserves[a])
      BY <2>1 DEF LedgerInit, Init, IsListed, UnlistedReserve
    <3> QED BY <1>1, <3>1, UnlistedBooks
  <2>2. CASE a \in Listed
    <3> DEFINE q == [UnlistedReserve EXCEPT !.config = InitialConfig[a], !.liquidityIndex = RAY,
                                            !.borrowIndex = RAY,
                                            !.interestRateModel = InitialRateModel[a],
                                            !.lastUpdateTimestamp = now]
    <3>1. reserves[a] = UpdateRates(q)
      BY <2>2 DEF LedgerInit, Init, NewReserve
    <3>2. HasBooks(q) /\ SurplusRay(q) = (0 + 0) * RAY + 0 * RAY - (0 + 0) * RAY
      BY DEF UnlistedReserve, SurplusRay, HasBooks
    <3> HIDE DEF q
    <3>3. SurplusRay(UpdateRates(q)) = SurplusRay(q)
      BY <3>2, RatesKeepSurplus
    <3>4. SurplusRay(q) = 0
      BY <3>2, ScaleAssumption
    <3> QED BY <3>1, <3>3, <3>4
  <2> QED BY <2>1, <2>2
<1>3. tolerance \in [Asset -> Nat] /\ \A a \in Asset : tolerance[a] = 0
  BY DEF LedgerInit
<1> QED BY <1>2, <1>3 DEF Tolerated

LEMMA StepTolerated ==
    ASSUME PoolInv, RatesCurrent, Tolerated, [LedgerNext]_<<vars, tolerance>>
    PROVE  Tolerated'
<1>1. [Next]_vars
  BY Zenon DEF LedgerNext
<1>2. CASE UNCHANGED <<vars, tolerance>>
  <2>1. reserves' = reserves /\ tolerance' = tolerance
    BY <1>2 DEF vars
  <2> QED BY <2>1 DEF Tolerated
<1>3. CASE LedgerNext
  <2> DEFINE cost(a) == IF reserves'[a] # reserves[a] THEN InterestDust(reserves[a], now) ELSE 0
  <2>1. tolerance' = [a \in Asset |-> tolerance[a] + cost(a)]
    BY <1>3 DEF LedgerNext
  <2>2. ASSUME NEW a \in Asset
        PROVE  /\ cost(a) \in Nat /\ SurplusRay(reserves[a]) \in Int
               /\ SurplusRay(reserves'[a]) \in Int
               /\ SurplusRay(reserves[a]) <= SurplusRay(reserves'[a]) + cost(a)
    BY <1>1, StepCosts
  <2> HIDE DEF cost
  <2>3. tolerance' \in [Asset -> Nat]
    BY <2>1, <2>2 DEF Tolerated
  <2>4. ASSUME NEW a \in Asset
        PROVE  0 <= SurplusRay(reserves'[a]) + tolerance'[a]
    <3> DEFINE before == SurplusRay(reserves[a])
               after == SurplusRay(reserves'[a])
    <3>1. tolerance'[a] = tolerance[a] + cost(a) /\ tolerance[a] \in Nat /\ 0 <= before + tolerance[a]
      BY <2>1 DEF Tolerated
    <3>2. cost(a) \in Nat /\ before \in Int /\ after \in Int /\ before <= after + cost(a)
      BY <2>2
    <3> HIDE DEF before, after
    <3>3. 0 <= after + tolerance'[a]
      BY <3>1, <3>2
    <3> QED BY <3>3 DEF after
  <2> QED BY <2>2, <2>3, <2>4 DEF Tolerated
<1> QED BY <1>2, <1>3

\* A reserve short of less than a unit more than Dust is solvent up to Dust units.
LEMMA ToleratedIsSolvent ==
    ASSUME PoolInv, RatesCurrent, Tolerated, DustCovers
    PROVE  Solvent
<1> SUFFICES ASSUME NEW a \in Asset, IsListed(reserves[a])
             PROVE  reserves[a].cash + TotalBorrowed(reserves[a], now) + reserves[a].deficit + Dust
                      >= TotalSupplyLiabilities(reserves[a], now)
  BY DEF Solvent
<1> DEFINE r == reserves[a]
           held == r.cash + TotalBorrowed(r, now) + r.deficit
           owed == TotalSupplyLiabilities(r, now)
           dust == InterestDust(r, now)
           later == SurplusRay(Accrue(r, now))
<1>1. r \in ReserveData /\ now \in Nat /\ Current(r, now) /\ UpdateRates(r) = r
  BY ListedIsCurrent
<1>2. tolerance[a] \in Nat /\ 0 <= SurplusRay(r) + tolerance[a]
  BY DEF Tolerated
<1>3. tolerance[a] + dust < (Dust + 1) * RAY
  BY DEF DustCovers
<1> HIDE DEF r
<1>4. /\ dust \in Nat /\ SurplusRay(r) \in Int /\ later \in Int /\ SurplusRay(r) <= later + dust
  BY <1>1, AccrueCosts
<1>5. held \in Nat /\ owed \in Nat /\ later <= (held - owed) * RAY
  BY <1>1, SurplusOfViews
<1> HIDE DEF held, owed, dust, later
<1>6. Dust \in Nat /\ RAY \in Nat \ {0}
  BY DustAssumption, ScaleAssumption
<1>7. 0 < (held - owed + Dust + 1) * RAY
  <2>1. (held - owed + Dust + 1) * RAY = (held - owed) * RAY + (Dust + 1) * RAY
    BY <1>5, <1>6
  <2>2. (held - owed) * RAY \in Int /\ (Dust + 1) * RAY \in Int
    BY <1>5, <1>6
  <2> QED BY <1>2, <1>3, <1>4, <1>5, <2>1, <2>2
<1>8. 0 < held - owed + Dust + 1
  <2> DEFINE n == owed - held - Dust - 1
  <2>1. SUFFICES ASSUME 0 <= n PROVE FALSE
    BY <1>5, <1>6
  <2>2. n \in Nat
    BY <1>5, <1>6, <2>1
  <2>3. (held - owed + Dust + 1) * RAY = -(n * RAY)
    BY <1>5, <1>6
  <2> HIDE DEF n
  <2>4. n * RAY \in Nat
    BY <1>6, <2>2, MulNat
  <2> QED BY <1>7, <2>3, <2>4
<1>9. held + Dust >= owed
  BY <1>5, <1>6, <1>8
<1>10. r.cash + TotalBorrowed(r, now) + r.deficit + Dust >= owed
  BY <1>9 DEF held
<1> QED BY <1>10 DEF owed, r

\* Cash, debts and deficit cover all claims as long as Dust covers what the intervals
\* of the reserves have cost in rounding: the pool loses nothing else, by any sequence
\* of calls, prices, write-offs and reconfigurations.
THEOREM SolventUpToDust == LedgerSpec => [](DustCovers => Solvent)
<1>1. LedgerSpec => Spec
  <2>1. LedgerInit => Init
    BY DEF LedgerInit
  <2>2. [LedgerNext]_<<vars, tolerance>> => [Next]_vars
    BY Zenon DEF LedgerNext
  <2> QED BY <2>1, <2>2, PTL DEF LedgerSpec, Spec
<1>2. LedgerInit => Tolerated
  BY InitTolerated
<1>3. PoolInv /\ RatesCurrent /\ Tolerated /\ [LedgerNext]_<<vars, tolerance>> => Tolerated'
  BY StepTolerated
<1>4. PoolInv /\ RatesCurrent /\ Tolerated => (DustCovers => Solvent)
  BY ToleratedIsSolvent
<1> QED BY <1>1, <1>2, <1>3, <1>4, PoolInvariant, RatesAreCurrent, PTL DEF LedgerSpec

-----------------------------------------------------------------------------
(***************************************************************************)
(* What the holders keep.                                                  *)
(***************************************************************************)

\* The conversions between scaled balances and amounts are monotone in both factors.
LEMMA RayMulMonotone ==
    ASSUME NEW x \in Nat, NEW y \in Nat, NEW i \in Nat, NEW j \in Nat, x <= y, i <= j
    PROVE  RayMulDown(x, i) <= RayMulDown(y, j) /\ RayMulUp(x, i) <= RayMulUp(y, j)
<1>1. x * i <= y * i /\ i * y <= j * y
  BY MulMonotone
<1>2. x * i \in Nat /\ y * i \in Nat /\ y * j \in Nat /\ i * y = y * i /\ j * y = y * j
  BY MulNat
<1>3. x * i <= y * j
  BY <1>1, <1>2
<1> QED BY <1>2, <1>3, ScaleAssumption, DivDownMonotone, DivUpMonotone DEF RayMulDown, RayMulUp

\* The views grow with time.
LEMMA IncomeGrows ==
    ASSUME NEW r \in ReserveData, NEW t \in Nat, r.lastUpdateTimestamp <= t
    PROVE  NormalizedIncome(r, t) <= NormalizedIncome(r, t + 1)
<1> DEFINE dt == t - r.lastUpdateTimestamp
           f == LinearInterest(r.liquidityRate, dt)
           g == LinearInterest(r.liquidityRate, dt + 1)
<1>1. /\ r.lastUpdateTimestamp \in Nat /\ r.liquidityRate \in Nat /\ r.liquidityIndex \in Nat
      /\ dt \in Nat /\ (t + 1) - r.lastUpdateTimestamp = dt + 1
  BY DEF ReserveData
<1>2. NormalizedIncome(r, t + 1) = RayMulDown(g, r.liquidityIndex)
  BY <1>1 DEF NormalizedIncome
<1>3. NormalizedIncome(r, t) = IF dt = 0 THEN r.liquidityIndex ELSE RayMulDown(f, r.liquidityIndex)
  BY <1>1 DEF NormalizedIncome
<1> HIDE DEF dt
<1>4. f \in Nat /\ g \in Nat /\ RAY <= g /\ RAY \in Nat
  <2>1. dt + 1 \in Nat
    BY <1>1
  <2>2. f \in Nat
    BY <1>1, GrowthFactors
  <2>3. g \in Nat /\ RAY <= g
    BY <1>1, <2>1, GrowthFactors
  <2> QED BY <2>2, <2>3, ScaleAssumption
<1>5. f <= g
  <2> DEFINE m == r.liquidityRate * dt
             n == r.liquidityRate * (dt + 1)
  <2>1. m \in Nat /\ n \in Nat /\ m <= n
    BY <1>1, MulNat
  <2>2. f = RAY + m \div SECONDS_PER_YEAR /\ g = RAY + n \div SECONDS_PER_YEAR
    BY DEF LinearInterest
  <2> HIDE DEF m, n, f, g
  <2>3. /\ m \div SECONDS_PER_YEAR \in Nat /\ n \div SECONDS_PER_YEAR \in Nat
        /\ m \div SECONDS_PER_YEAR <= n \div SECONDS_PER_YEAR
    BY <2>1, YearAssumption, DivDown, DivDownMonotone
  <2> QED BY <1>4, <2>2, <2>3
<1> HIDE DEF f, g
<1>6. r.liquidityIndex <= RayMulDown(g, r.liquidityIndex)
  BY <1>1, <1>4, RayMulGrows
<1>7. RayMulDown(f, r.liquidityIndex) <= RayMulDown(g, r.liquidityIndex)
  BY <1>1, <1>4, <1>5, RayMulMonotone
<1> QED BY <1>2, <1>3, <1>6, <1>7

\* The step moves no balance against its holder: claims of u in a fall only in a call
\* that names them, and so do its debts rise.
Undisturbed(u, a) ==
    /\ supply[u][a] <= supply'[u][a] \/ Withdraws(u, a) \/ IsSeized(u, a)
    /\ debt'[u][a] <= debt[u][a] \/ Borrows(u, a)

\* A step that leaves balances alone.
LEMMA QuietLeaves ==
    ASSUME PoolInv, UNCHANGED <<supply, debt>>
    PROVE  \A u \in User, a \in Asset : Undisturbed(u, a)
<1>1. \A u \in User, a \in Asset : supply[u][a] \in Nat /\ debt[u][a] \in Nat
  BY DEF PoolInv, TypeOK
<1>2. \A u \in User, a \in Asset : supply[u][a] <= supply'[u][a] /\ debt'[u][a] <= debt[u][a]
  BY <1>1
<1> QED BY <1>2, Zenon DEF Undisturbed

\* Supplying adds to one claim.
LEMMA SupplyLeaves ==
    ASSUME PoolInv, NEW sender \in User, NEW a \in Asset, NEW amount \in Amounts, NEW v \in User,
           Supply(sender, a, amount, v)
    PROVE  \A u \in User, b \in Asset : Undisturbed(u, b)
<1> DEFINE r == Accrue(reserves[a], now)
           scaled == RayDivDown(amount, r.liquidityIndex)
<1>1. /\ supply' = [supply EXCEPT ![v][a] = @ + scaled] /\ debt' = debt
      /\ reserves[a].config.active
  BY Zenon DEF Supply, SupplyPaidBy, AcceptsSupply, ValidateSupply, Operational
<1>2. /\ supply \in [User -> [Asset -> Nat]] /\ debt \in [User -> [Asset -> Nat]] /\ amount \in Nat
  BY PoolAssumption DEF PoolInv, TypeOK
<1>3. r.liquidityIndex \in Nat \ {0}
  BY <1>1, ActiveIsListed, Accrued
<1> HIDE DEF r
<1>4. scaled \in Nat
  BY <1>2, <1>3, RayType
<1> HIDE DEF scaled
<1>5. ASSUME NEW u \in User, NEW b \in Asset
      PROVE  supply[u][b] <= supply'[u][b] /\ debt'[u][b] <= debt[u][b]
  BY <1>1, <1>2, <1>4
<1> QED BY <1>5, Zenon DEF Undisturbed

\* A withdrawal takes from a claim of its sender.
LEMMA WithdrawLeaves ==
    ASSUME PoolInv, NEW sender \in User, NEW a \in Asset, NEW amount \in Amounts, NEW to \in User,
           Withdraw(sender, a, amount, to)
    PROVE  \A u \in User, b \in Asset : Undisturbed(u, b)
<1>1. PICK x : supply' = [supply EXCEPT ![sender] = [supply[sender] EXCEPT ![a] = x]]
  BY Zenon DEF Withdraw
<1>2. debt' = debt
  BY Zenon DEF Withdraw
<1>3. supply \in [User -> [Asset -> Nat]] /\ debt \in [User -> [Asset -> Nat]]
  BY DEF PoolInv, TypeOK
<1> SUFFICES ASSUME NEW u \in User, NEW b \in Asset PROVE Undisturbed(u, b)
  OBVIOUS
<1>4. debt'[u][b] <= debt[u][b]
  BY <1>2, <1>3
<1>5. CASE u = sender /\ b = a
  <2>1. Withdraws(u, b)
    BY <1>5, Zenon DEF Withdraws
  <2> QED BY <1>4, <2>1 DEF Undisturbed
<1>6. CASE ~(u = sender /\ b = a)
  <2>1. supply[u][b] <= supply'[u][b]
    BY <1>1, <1>3, <1>6
  <2> QED BY <1>4, <2>1 DEF Undisturbed
<1> QED BY <1>5, <1>6

\* A borrowing adds to a debt of its sender.
LEMMA BorrowLeaves ==
    ASSUME PoolInv, NEW sender \in User, NEW a \in Asset, NEW amount \in Amounts,
           Borrow(sender, a, amount)
    PROVE  \A u \in User, b \in Asset : Undisturbed(u, b)
<1>1. PICK x : debt' = [debt EXCEPT ![sender] = [debt[sender] EXCEPT ![a] = x]]
  BY Zenon DEF Borrow
<1>2. supply' = supply
  BY Zenon DEF Borrow
<1>3. supply \in [User -> [Asset -> Nat]] /\ debt \in [User -> [Asset -> Nat]]
  BY DEF PoolInv, TypeOK
<1> SUFFICES ASSUME NEW u \in User, NEW b \in Asset PROVE Undisturbed(u, b)
  OBVIOUS
<1>4. supply[u][b] <= supply'[u][b]
  BY <1>2, <1>3
<1>5. CASE u = sender /\ b = a
  <2>1. Borrows(u, b)
    BY <1>5, Zenon DEF Borrows
  <2> QED BY <1>4, <2>1 DEF Undisturbed
<1>6. CASE ~(u = sender /\ b = a)
  <2>1. debt'[u][b] <= debt[u][b]
    BY <1>1, <1>3, <1>6
  <2> QED BY <1>4, <2>1 DEF Undisturbed
<1> QED BY <1>5, <1>6

\* Repaying takes from one debt.
LEMMA RepayLeaves ==
    ASSUME PoolInv, NEW sender \in User, NEW a \in Asset, NEW amount \in Amounts, NEW v \in User,
           Repay(sender, a, amount, v)
    PROVE  \A u \in User, b \in Asset : Undisturbed(u, b)
<1> DEFINE r == Accrue(reserves[a], now)
           burn == IF amount >= RayMulUp(debt[v][a], r.borrowIndex)
                   THEN debt[v][a]
                   ELSE RayDivDown(amount, r.borrowIndex)
<1>1. /\ debt' = [debt EXCEPT ![v][a] = @ - burn] /\ supply' = supply
      /\ reserves[a].config.active
  BY Zenon DEF Repay, AcceptsRepay, ValidateRepay
<1>2. /\ supply \in [User -> [Asset -> Nat]] /\ debt \in [User -> [Asset -> Nat]] /\ amount \in Nat
  BY PoolAssumption DEF PoolInv, TypeOK
<1>3. r.borrowIndex \in Nat \ {0}
  BY <1>1, ActiveIsListed, Accrued
<1> HIDE DEF r
<1>4. burn \in Nat
  BY <1>2, <1>3, RayType
<1> HIDE DEF burn
<1>5. ASSUME NEW u \in User, NEW b \in Asset
      PROVE  supply[u][b] <= supply'[u][b] /\ debt'[u][b] <= debt[u][b]
  BY <1>1, <1>2, <1>4
<1> QED BY <1>5, Zenon DEF Undisturbed

\* A liquidation takes supply from its borrower in one reserve, and clears debts.
LEMMA LiquidateLeaves ==
    ASSUME PoolInv, NEW sender \in User, NEW c \in Asset, NEW d \in Asset, NEW b \in User,
           NEW cover \in Amounts, NEW receiveSupply \in BOOLEAN,
           Liquidate(sender, c, d, b, cover, receiveSupply)
    PROVE  \A u \in User, a \in Asset : Undisturbed(u, a)
<1>1. PICK written, sr, left : LiquidationWrites(c, d, b, written, sr, left)
  BY LiquidationHasWrites
<1> SUFFICES ASSUME NEW u \in User, NEW a \in Asset PROVE Undisturbed(u, a)
  OBVIOUS
<1>2. /\ supply \in [User -> [Asset -> Nat]] /\ debt \in [User -> [Asset -> Nat]]
      /\ debt[u][a] \in Nat /\ debt[b][a] \in Nat /\ supply[u][a] \in Nat
      /\ left[a] \in Nat /\ left[a] <= debt[b][a]
  BY <1>1 DEF LiquidationWrites, PoolInv, TypeOK
<1>3. debt'[u][a] <= debt[u][a]
  <2> DEFINE row == [x \in Asset |-> IF x \in written THEN 0 ELSE left[x]]
  <2>1. debt' = [debt EXCEPT ![b] = row]
    BY <1>1, Zenon DEF LiquidationWrites
  <2>2. row[a] <= debt[b][a]
    BY <1>2
  <2> HIDE DEF row
  <2>3. CASE u = b
    BY <1>2, <2>1, <2>2, <2>3
  <2>4. CASE u # b
    BY <1>2, <2>1, <2>4
  <2> QED BY <2>3, <2>4
<1>4. CASE u = b /\ a = c
  <2>1. IsSeized(u, a)
    BY <1>4, Zenon DEF IsSeized
  <2> QED BY <1>3, <2>1 DEF Undisturbed
<1>5. CASE ~(u = b /\ a = c)
  <2>1. /\ a # c => supply'[u][a] = supply[u][a]
        /\ u # b => supply[u][c] <= supply'[u][c]
    BY <1>1, Zenon DEF LiquidationWrites
  <2>2. supply[u][a] <= supply'[u][a]
    BY <1>2, <1>5, <2>1
  <2> QED BY <1>3, <2>2 DEF Undisturbed
<1> QED BY <1>4, <1>5

\* No step disturbs a balance.
LEMMA StepLeaves ==
    ASSUME PoolInv, [Next]_vars
    PROVE  \A u \in User, a \in Asset : Undisturbed(u, a)
<1>1. CASE UserNext
  <2>1. PICK sender \in User, a \in Asset :
          \/ \E amount \in Amounts :
               \/ \E onBehalfOf \in Beneficiaries[sender] : Supply(sender, a, amount, onBehalfOf)
               \/ \E to \in Beneficiaries[sender] : Withdraw(sender, a, amount, to)
               \/ Borrow(sender, a, amount)
               \/ \E onBehalfOf \in Beneficiaries[sender] : Repay(sender, a, amount, onBehalfOf)
               \/ \E c \in Asset, b \in User, receiveSupply \in BOOLEAN :
                      Liquidate(sender, c, a, b, amount, receiveSupply)
               \/ CoverDeficit(sender, a, amount)
          \/ \E enabled \in BOOLEAN : SetUseReserveAsCollateral(sender, a, enabled)
    BY <1>1, Zenon DEF UserNext
  <2>2. Beneficiaries[sender] \subseteq User
    BY PoolAssumption
  <2>3. CASE \/ \E amount \in Amounts : CoverDeficit(sender, a, amount)
             \/ \E enabled \in BOOLEAN : SetUseReserveAsCollateral(sender, a, enabled)
    <3>1. UNCHANGED <<supply, debt>>
      BY <2>3, Zenon DEF CoverDeficit, SetUseReserveAsCollateral, accountVars
    <3> QED BY <3>1, QuietLeaves
  <2>4. CASE \E amount \in Amounts, v \in Beneficiaries[sender] : Supply(sender, a, amount, v)
    BY <2>2, <2>4, SupplyLeaves
  <2>5. CASE \E amount \in Amounts, v \in Beneficiaries[sender] : Withdraw(sender, a, amount, v)
    BY <2>2, <2>5, WithdrawLeaves
  <2>6. CASE \E amount \in Amounts : Borrow(sender, a, amount)
    BY <2>6, BorrowLeaves
  <2>7. CASE \E amount \in Amounts, v \in Beneficiaries[sender] : Repay(sender, a, amount, v)
    BY <2>2, <2>7, RepayLeaves
  <2>8. CASE \E amount \in Amounts, c \in Asset, b \in User, receiveSupply \in BOOLEAN :
                 Liquidate(sender, c, a, b, amount, receiveSupply)
    <3>1. PICK amount \in Amounts, c \in Asset, b \in User, receiveSupply \in BOOLEAN :
                  Liquidate(sender, c, a, b, amount, receiveSupply)
      BY <2>8, Zenon
    <3> QED BY <3>1, LiquidateLeaves
  <2> QED BY <2>1, <2>3, <2>4, <2>5, <2>6, <2>7, <2>8, Zenon
<1>2. CASE ConfiguratorNext \/ EnvironmentNext
  <2>1. UNCHANGED <<supply, debt>>
    BY <1>2, Zenon DEF ConfiguratorNext, EnvironmentNext, InitReserve, SetReserveConfig,
       SetInterestRateModel, SetPoolPaused, SetLiquidationGracePeriod, WithdrawReserves,
       Tick, SetPrice, accountVars
  <2> QED BY <2>1, QuietLeaves
<1>3. CASE UNCHANGED vars
  BY <1>3, QuietLeaves DEF vars, accountVars
<1> QED BY <1>1, <1>2, <1>3, Zenon DEF Next

\* Time passes in a step of its own.
LEMMA StepInTime ==
    ASSUME [Next]_vars
    PROVE  now' = now \/ (now' = now + 1 /\ UNCHANGED reserves)
<1>1. CASE UserNext
  <2>1. PICK sender \in User, a \in Asset :
          \/ \E amount \in Amounts :
               \/ \E onBehalfOf \in Beneficiaries[sender] : Supply(sender, a, amount, onBehalfOf)
               \/ \E to \in Beneficiaries[sender] : Withdraw(sender, a, amount, to)
               \/ Borrow(sender, a, amount)
               \/ \E onBehalfOf \in Beneficiaries[sender] : Repay(sender, a, amount, onBehalfOf)
               \/ \E c \in Asset, b \in User, receiveSupply \in BOOLEAN :
                      Liquidate(sender, c, a, b, amount, receiveSupply)
               \/ CoverDeficit(sender, a, amount)
          \/ \E enabled \in BOOLEAN : SetUseReserveAsCollateral(sender, a, enabled)
    BY <1>1, Zenon DEF UserNext
  <2>2. ASSUME NEW c, NEW b, NEW amount, NEW receiveSupply,
               Liquidate(sender, c, a, b, amount, receiveSupply)
        PROVE  now' = now
    BY <2>2, Zenon DEF Liquidate
  <2>3. ASSUME NEW v, NEW amount,
               \/ Supply(sender, a, amount, v) \/ Withdraw(sender, a, amount, v)
               \/ Borrow(sender, a, amount) \/ Repay(sender, a, amount, v)
               \/ CoverDeficit(sender, a, amount)
        PROVE  now' = now
    BY <2>3, Zenon DEF Supply, SupplyPaidBy, Withdraw, Borrow, Repay, CoverDeficit
  <2>4. ASSUME NEW enabled, SetUseReserveAsCollateral(sender, a, enabled) PROVE now' = now
    BY <2>4, Zenon DEF SetUseReserveAsCollateral
  <2> QED BY <2>1, <2>2, <2>3, <2>4, Zenon
<1>2. CASE ConfiguratorNext
  <2>1. CASE \/ \E a \in Asset : \E model \in RateModels[a], config \in Configs[a] :
                  InitReserve(a, model, config)
             \/ \E a \in Asset : \E config \in Configs[a] : SetReserveConfig(a, config)
             \/ \E a \in Asset : \E model \in RateModels[a] : SetInterestRateModel(a, model)
    BY <2>1, Zenon DEF InitReserve, SetReserveConfig, SetInterestRateModel
  <2>2. CASE \/ \E newPaused \in Pauses : SetPoolPaused(newPaused)
             \/ \E period \in GracePeriods : SetLiquidationGracePeriod(period)
             \/ \E a \in Asset, amount \in Amounts, to \in User : WithdrawReserves(a, amount, to)
    BY <2>2, Zenon DEF SetPoolPaused, SetLiquidationGracePeriod, WithdrawReserves
  <2> QED BY <1>2, <2>1, <2>2, Zenon DEF ConfiguratorNext
<1>3. CASE EnvironmentNext \/ UNCHANGED vars
  BY <1>3 DEF EnvironmentNext, Tick, SetPrice, vars
<1> QED BY <1>1, <1>2, <1>3 DEF Next

\* A supplier's claim never falls but by its own withdrawal or a seizure from it, and a
\* debt grows at one moment only by its own borrowing: losses are booked as deficits, never
\* taken from the indexes (_writeOffBadDebt), and no rounding of a call reaches others.
THEOREM HoldersKeep == Spec => HoldersKeepTheirOwn
<1> DEFINE Kept ==
        \A u \in User, a \in Asset : IsListed(reserves[a]) =>
          /\ ClaimOf(u, a)' >= ClaimOf(u, a) \/ Withdraws(u, a) \/ IsSeized(u, a)
          /\ OwedBy(u, a)' <= OwedBy(u, a) \/ Borrows(u, a) \/ now' # now
<1>1. PoolInv /\ PoolInv' /\ [Next]_vars => Kept
  <2> SUFFICES ASSUME PoolInv, PoolInv', [Next]_vars, NEW u \in User, NEW a \in Asset,
                      IsListed(reserves[a])
               PROVE  /\ ClaimOf(u, a)' >= ClaimOf(u, a) \/ Withdraws(u, a) \/ IsSeized(u, a)
                      /\ OwedBy(u, a)' <= OwedBy(u, a) \/ Borrows(u, a) \/ now' # now
    OBVIOUS
  <2>1. Undisturbed(u, a)
    BY StepLeaves
  <2>2. /\ supply[u][a] \in Nat /\ debt[u][a] \in Nat
        /\ reserves[a] \in ReserveData /\ now \in Nat /\ reserves[a].lastUpdateTimestamp <= now
    BY DEF PoolInv, TypeOK, ReservesSane, SaneReserve
  <2>3. /\ supply'[u][a] \in Nat /\ debt'[u][a] \in Nat
        /\ reserves'[a] \in ReserveData /\ now' \in Nat /\ reserves'[a].lastUpdateTimestamp <= now'
    BY DEF PoolInv, TypeOK, ReservesSane, SaneReserve
  <2> DEFINE income == NormalizedIncome(reserves[a], now)
             owing == NormalizedDebt(reserves[a], now)
             income2 == NormalizedIncome(reserves'[a], now')
             owing2 == NormalizedDebt(reserves'[a], now')
  <2>4. income \in Nat /\ owing \in Nat /\ income2 \in Nat /\ owing2 \in Nat
    BY <2>2, <2>3, ViewsType
  <2>5. now' = now => income2 = income /\ owing2 = owing
    BY StepTracks DEF Tracked, SameViews
  <2>6. income <= income2
    <3>1. CASE now' = now
      BY <2>4, <2>5, <3>1
    <3>2. CASE now' = now + 1 /\ UNCHANGED reserves
      BY <2>2, <3>2, IncomeGrows
    <3> QED BY <3>1, <3>2, StepInTime
  <2>7. /\ ClaimOf(u, a) = RayMulDown(supply[u][a], income)
        /\ ClaimOf(u, a)' = RayMulDown(supply'[u][a], income2)
        /\ OwedBy(u, a) = RayMulUp(debt[u][a], owing)
        /\ OwedBy(u, a)' = RayMulUp(debt'[u][a], owing2)
    BY DEF ClaimOf, OwedBy
  <2> HIDE DEF income, owing, income2, owing2
  <2>8. supply[u][a] <= supply'[u][a] => ClaimOf(u, a)' >= ClaimOf(u, a)
    <3> SUFFICES ASSUME supply[u][a] <= supply'[u][a] PROVE ClaimOf(u, a)' >= ClaimOf(u, a)
      OBVIOUS
    <3>1. RayMulDown(supply[u][a], income) <= RayMulDown(supply'[u][a], income2)
      BY <2>2, <2>3, <2>4, <2>6, RayMulMonotone
    <3>2. RayMulDown(supply[u][a], income) \in Nat /\ RayMulDown(supply'[u][a], income2) \in Nat
      BY <2>2, <2>3, <2>4, RayType
    <3> QED BY <2>7, <3>1, <3>2
  <2>9. debt'[u][a] <= debt[u][a] /\ now' = now => OwedBy(u, a)' <= OwedBy(u, a)
    <3> SUFFICES ASSUME debt'[u][a] <= debt[u][a], now' = now PROVE OwedBy(u, a)' <= OwedBy(u, a)
      OBVIOUS
    <3>1. owing <= owing /\ owing2 = owing
      BY <2>4, <2>5
    <3>2. RayMulUp(debt'[u][a], owing) <= RayMulUp(debt[u][a], owing)
      BY <2>2, <2>3, <2>4, <3>1, RayMulMonotone
    <3> QED BY <2>7, <3>1, <3>2
  <2> QED BY <2>1, <2>8, <2>9, Zenon DEF Undisturbed
<1>2. Spec => [][Kept]_vars
  BY <1>1, PoolInvariant, PTL DEF Spec
<1> QED BY <1>2 DEF HoldersKeepTheirOwn
-----------------------------------------------------------------------------
(***************************************************************************)
(* Exits stay open.                                                        *)
(***************************************************************************)

\* A reserve that is switched off, or was never on, holds no balance.
InactiveIsEmpty == \A a \in Asset : reserves[a].config.active \/ Deactivatable(reserves[a])

\* A supply is worth at least its scaled balance.
IncomeAbovePar == \A a \in Asset : IsListed(reserves[a]) => RAY <= NormalizedIncome(reserves[a], now)

ExitInv == PoolInv /\ InactiveIsEmpty /\ IncomeAbovePar

\* The step leaves reserve a as it is, lists it active, or finds it listed and leaves it
\* active or empty.
Guarded(a) ==
    \/ reserves'[a] = reserves[a]
    \/ \E config \in Configs[a], model \in RateModels[a] :
         config.active /\ now' = now /\ reserves'[a] = NewReserve(config, model, now)
    \/ /\ IsListed(reserves[a])
       /\ reserves'[a].config.active \/ Deactivatable(reserves'[a])

\* A balance is in an active reserve, one in debt or with a deposit.
LEMMA ExposedIsActive ==
    ASSUME PoolInv, InactiveIsEmpty, NEW u \in User, NEW a \in Asset,
           supply[u][a] # 0 \/ debt[u][a] # 0
    PROVE  reserves[a].config.active
<1>1. /\ supply[u][a] \in Nat /\ supply[u][a] <= reserves[a].totalScaledSupply
      /\ debt[u][a] \in Nat /\ debt[u][a] <= reserves[a].totalScaledDebt
  BY BalancesWithinTotals DEF PoolInv
<1>2. ~(reserves[a].totalScaledSupply = 0 /\ reserves[a].totalScaledDebt = 0)
  BY <1>1
<1> QED BY <1>2 DEF InactiveIsEmpty, Deactivatable

\* A step on one reserve guards every reserve when it guards that one.
LEMMA OneGuarded ==
    ASSUME PoolInv, NEW a \in Asset, NEW s, reserves' = [reserves EXCEPT ![a] = s],
           IsListed(reserves[a]), s.config.active \/ Deactivatable(s)
    PROVE  \A b \in Asset : Guarded(b)
<1>1. reserves \in [Asset -> ReserveData]
  BY DEF PoolInv, TypeOK
<1> SUFFICES ASSUME NEW b \in Asset PROVE Guarded(b)
  OBVIOUS
<1>2. CASE b = a
  <2>1. reserves'[b] = s
    BY <1>1, <1>2
  <2> QED BY <1>2, <2>1, Zenon DEF Guarded
<1>3. CASE b # a
  <2>1. reserves'[b] = reserves[b]
    BY <1>1, <1>3
  <2> QED BY <2>1, Zenon DEF Guarded
<1> QED BY <1>2, <1>3

\* A call that finds its reserve active leaves it active.
LEMMA ActiveGuarded ==
    ASSUME PoolInv, NEW a \in Asset, reserves[a].config.active, NEW q,
           Booked(Accrue(reserves[a], now), q), reserves' = [reserves EXCEPT ![a] = UpdateRates(q)]
    PROVE  \A b \in Asset : Guarded(b)
<1> DEFINE r == Accrue(reserves[a], now)
<1>1. IsListed(reserves[a])
  BY ActiveIsListed
<1>2. r \in ReserveData /\ r.config = reserves[a].config
  BY <1>1, Accrued
<1> HIDE DEF r
<1>3. HasSetup(r) /\ {"liquidityIndex", "borrowIndex", "lastUpdateTimestamp"} \subseteq DOMAIN r
  BY <1>2 DEF ReserveData, HasSetup
<1>4. SameSetup(r, q)
  BY <1>3, BookedKeeps DEF r
<1>5. HasSetup(q) /\ q.config.active
  BY <1>2, <1>3, <1>4 DEF SameSetup, HasSetup
<1>6. UpdateRates(q).config.active
  BY <1>5, RatesSetup DEF SameSetup
<1> QED BY <1>1, <1>6, OneGuarded

\* Accruing an empty reserve leaves it empty.
LEMMA AccruedEmpty ==
    ASSUME PoolInv, NEW a \in Asset, IsListed(reserves[a]), Deactivatable(reserves[a])
    PROVE  Deactivatable(Accrue(reserves[a], now))
<1> DEFINE r == reserves[a]
           p == Accrue(r, now)
<1>1. r \in ReserveData /\ r.totalScaledDebt = 0
  BY DEF PoolInv, TypeOK, Deactivatable
<1> HIDE DEF r
<1>2. PICK li : p = r \/ p = [r EXCEPT !.liquidityIndex = li, !.lastUpdateTimestamp = now]
  BY <1>1, Zenon DEF Accrue
<1> HIDE DEF p
<1>3. /\ p.totalScaledSupply = r.totalScaledSupply /\ p.totalScaledDebt = r.totalScaledDebt
      /\ p.accruedToTreasury = r.accruedToTreasury
  BY <1>1, <1>2 DEF ReserveData
<1> QED BY <1>3 DEF p, r, Deactivatable

\* A reserve that is empty but for cash and deficit stays so when its rates are updated.
LEMMA RatedEmpty ==
    ASSUME NEW q, {"totalScaledSupply", "totalScaledDebt", "accruedToTreasury"} \subseteq DOMAIN q,
           Deactivatable(q)
    PROVE  Deactivatable(UpdateRates(q))
<1>1. PICK x, y : UpdateRates(q) = [q EXCEPT !.liquidityRate = x, !.borrowRate = y]
  BY Zenon DEF UpdateRates
<1> DEFINE s == UpdateRates(q)
<1>2. s = [q EXCEPT !.liquidityRate = x, !.borrowRate = y]
  BY <1>1
<1> HIDE DEF s
<1>3. /\ s.totalScaledSupply = q.totalScaledSupply /\ s.totalScaledDebt = q.totalScaledDebt
      /\ s.accruedToTreasury = q.accruedToTreasury
  BY <1>2
<1> QED BY <1>3 DEF Deactivatable, s

\* A setter leaves an active reserve active or switches it off while it is empty.
LEMMA SetterGuarded ==
    ASSUME PoolInv, InactiveIsEmpty, NEW a \in Asset, IsListed(reserves[a]), NEW q,
           \/ \E config : /\ q = [Accrue(reserves[a], now) EXCEPT !.config = config]
                          /\ config.active \/ Deactivatable(reserves[a])
           \/ \E model : q = [Accrue(reserves[a], now) EXCEPT !.interestRateModel = model],
           reserves' = [reserves EXCEPT ![a] = UpdateRates(q)]
    PROVE  \A b \in Asset : Guarded(b)
<1> DEFINE r == Accrue(reserves[a], now)
<1>1. r \in ReserveData /\ r.config = reserves[a].config
  BY Accrued
<1>2. Deactivatable(reserves[a]) => Deactivatable(r)
  BY AccruedEmpty
<1>3. r.config.active \/ Deactivatable(reserves[a])
  BY <1>1 DEF InactiveIsEmpty
<1> HIDE DEF r
<1>4. /\ HasSetup(q) /\ {"totalScaledSupply", "totalScaledDebt", "accruedToTreasury"} \subseteq DOMAIN q
      /\ q.config.active \/ Deactivatable(q)
  <2>1. CASE \E config : q = [r EXCEPT !.config = config] /\ (config.active \/ Deactivatable(reserves[a]))
    BY <1>1, <1>2, <2>1 DEF ReserveData, HasSetup, Deactivatable
  <2>2. CASE \E model : q = [r EXCEPT !.interestRateModel = model]
    BY <1>1, <1>2, <1>3, <2>2 DEF ReserveData, HasSetup, Deactivatable
  <2> QED BY <2>1, <2>2 DEF r
<1>5. UpdateRates(q).config.active \/ Deactivatable(UpdateRates(q))
  <2>1. CASE q.config.active
    BY <1>4, <2>1, RatesSetup DEF SameSetup
  <2>2. CASE Deactivatable(q)
    BY <1>4, <2>2, RatedEmpty
  <2> QED BY <1>4, <2>1, <2>2
<1> QED BY <1>5, OneGuarded

\* Covering a deficit leaves the configuration and the claims.
LEMMA CoverDeficitGuarded ==
    ASSUME PoolInv, InactiveIsEmpty, NEW sender \in User, NEW a \in Asset, NEW amount \in Amounts,
           CoverDeficit(sender, a, amount)
    PROVE  \A b \in Asset : Guarded(b)
<1> DEFINE r == Accrue(reserves[a], now)
<1>1. PICK x, y : reserves' = [reserves EXCEPT ![a] = UpdateRates([r EXCEPT !.deficit = x, !.cash = y])]
  BY Zenon DEF CoverDeficit
<1>2. r.deficit # 0
  BY Zenon DEF CoverDeficit
<1>3. reserves[a].deficit # 0
  <2>1. HasSetup(reserves[a])
    BY DEF PoolInv, TypeOK, ReserveData, HasSetup
  <2> QED BY <1>2, <2>1, AccrueSetup
<1>4. IsListed(reserves[a])
  BY <1>3 DEF PoolInv, ReservesSane, SaneReserve
<1>5. r \in ReserveData /\ r.config = reserves[a].config
  BY <1>4, Accrued
<1>6. Deactivatable(reserves[a]) => Deactivatable(r)
  BY <1>4, AccruedEmpty
<1>7. reserves[a].config.active \/ Deactivatable(reserves[a])
  BY DEF InactiveIsEmpty
<1> HIDE DEF r
<1> DEFINE q == [r EXCEPT !.deficit = x, !.cash = y]
<1>8. /\ HasSetup(q) /\ {"totalScaledSupply", "totalScaledDebt", "accruedToTreasury"} \subseteq DOMAIN q
      /\ q.config.active \/ Deactivatable(q)
  BY <1>5, <1>6, <1>7 DEF ReserveData, HasSetup, Deactivatable
<1> HIDE DEF q
<1>9. UpdateRates(q).config.active \/ Deactivatable(UpdateRates(q))
  <2>1. CASE q.config.active
    BY <1>8, <2>1, RatesSetup DEF SameSetup
  <2>2. CASE Deactivatable(q)
    BY <1>8, <2>2, RatedEmpty
  <2> QED BY <1>8, <2>1, <2>2
<1>10. reserves' = [reserves EXCEPT ![a] = UpdateRates(q)]
  BY <1>1 DEF q
<1> QED BY <1>4, <1>9, <1>10, OneGuarded

\* There are no reserves to withdraw from an inactive market.
LEMMA WithdrawReservesGuarded ==
    ASSUME PoolInv, InactiveIsEmpty, NEW a \in Asset, NEW amount \in Amounts, NEW to,
           WithdrawReserves(a, amount, to)
    PROVE  \A b \in Asset : Guarded(b)
<1> DEFINE r == Accrue(reserves[a], now)
           available == RayMulDown(r.accruedToTreasury, r.liquidityIndex)
<1>1. /\ IsListed(reserves[a])
      /\ (IF amount >= available THEN available ELSE amount) # 0
  BY Zenon DEF WithdrawReserves
<1>2. PICK x, y : reserves' = [reserves EXCEPT ![a] =
                                  UpdateRates([r EXCEPT !.accruedToTreasury = x, !.cash = y])]
  BY Zenon DEF WithdrawReserves
<1>3. r \in ReserveData /\ r.liquidityIndex \in Nat
  BY <1>1, Accrued
<1>4. amount \in Nat
  BY PoolAssumption
<1>5. r.accruedToTreasury # 0
  <2> SUFFICES ASSUME r.accruedToTreasury = 0 PROVE FALSE
    OBVIOUS
  <2>1. available = 0 \div RAY
    <3>1. 0 * r.liquidityIndex = 0
      BY <1>3
    <3> QED BY <3>1, Zenon DEF RayMulDown
  <2>2. available = 0
    BY <2>1, ScaleAssumption
  <2> HIDE DEF available
  <2> QED BY <1>1, <1>4, <2>2
<1>6. reserves[a].config.active
  <2>1. ~Deactivatable(reserves[a])
    BY <1>1, <1>5, AccruedEmpty DEF Deactivatable
  <2> QED BY <2>1 DEF InactiveIsEmpty
<1>7. Booked(r, [r EXCEPT !.accruedToTreasury = x, !.cash = y])
  BY Zenon DEF Booked
<1> QED BY <1>2, <1>6, <1>7, ActiveGuarded

\* A liquidation writes only in its two reserves, both active, and in reserves the
\* borrower has debts in.
LEMMA LiquidateGuarded ==
    ASSUME PoolInv, InactiveIsEmpty, NEW sender \in User, NEW c \in Asset, NEW d \in Asset,
           NEW b \in User, NEW cover \in Amounts, NEW receiveSupply \in BOOLEAN,
           Liquidate(sender, c, d, b, cover, receiveSupply)
    PROVE  \A a \in Asset : Guarded(a)
<1>1. PICK written, sr, left : LiquidationWrites(c, d, b, written, sr, left)
  BY LiquidationHasWrites
<1> SUFFICES ASSUME NEW a \in Asset, reserves'[a] # reserves[a] PROVE Guarded(a)
  BY Zenon DEF Guarded
<1>2. reserves[c].config.active /\ reserves[d].config.active
  BY Zenon DEF Liquidate, ValidateLiquidationReserve
<1>3. a \in written \/ a \in {c, d}
  BY <1>1, Zenon DEF LiquidationWrites
<1>4. reserves[a].config.active
  <2>1. CASE a \in written
    <3>1. a \in borrowing[b]
      BY <1>1, <2>1, Zenon DEF LiquidationWrites
    <3>2. debt[b][a] # 0
      BY <3>1 DEF PoolInv, BitmapInSync
    <3> QED BY <3>2, ExposedIsActive
  <2>2. CASE a \in {c, d}
    BY <1>2, <2>2
  <2> QED BY <1>3, <2>1, <2>2
<1>5. reserves'[a].config = reserves[a].config
  BY LiquidateKeepsConfigs
<1>6. IsListed(reserves[a])
  BY <1>4, ActiveIsListed
<1> QED BY <1>4, <1>5, <1>6 DEF Guarded

\* Every step guards every reserve.
LEMMA StepGuarded ==
    ASSUME PoolInv, InactiveIsEmpty, [Next]_vars
    PROVE  \A a \in Asset : Guarded(a)
<1>0. ASSUME UNCHANGED reserves PROVE \A a \in Asset : Guarded(a)
  BY <1>0, Zenon DEF Guarded
<1>1. CASE UserNext
  <2>1. PICK sender \in User, a \in Asset :
          \/ \E amount \in Amounts :
               \/ \E onBehalfOf \in Beneficiaries[sender] : Supply(sender, a, amount, onBehalfOf)
               \/ \E to \in Beneficiaries[sender] : Withdraw(sender, a, amount, to)
               \/ Borrow(sender, a, amount)
               \/ \E onBehalfOf \in Beneficiaries[sender] : Repay(sender, a, amount, onBehalfOf)
               \/ \E c \in Asset, b \in User, receiveSupply \in BOOLEAN :
                      Liquidate(sender, c, a, b, amount, receiveSupply)
               \/ CoverDeficit(sender, a, amount)
          \/ \E enabled \in BOOLEAN : SetUseReserveAsCollateral(sender, a, enabled)
    BY <1>1, Zenon DEF UserNext
  <2> DEFINE r == Accrue(reserves[a], now)
  <2>2. CASE \E enabled \in BOOLEAN : SetUseReserveAsCollateral(sender, a, enabled)
    <3>1. UNCHANGED reserves
      BY <2>2, Zenon DEF SetUseReserveAsCollateral
    <3> QED BY <1>0, <3>1
  <2>3. CASE \E amount \in Amounts, v \in Beneficiaries[sender] :
                 Supply(sender, a, amount, v) \/ Withdraw(sender, a, amount, v)
    <3>1. /\ reserves[a].config.active
          /\ \E x, y : reserves' = [reserves EXCEPT ![a] = UpdateRates(
                [r EXCEPT !.totalScaledSupply = x, !.cash = y])]
      BY <2>3, Zenon DEF Supply, SupplyPaidBy, AcceptsSupply, Withdraw, AcceptsWithdraw,
         ValidateSupply, Operational
    <3>2. PICK x, y : reserves' = [reserves EXCEPT ![a] = UpdateRates(
                [r EXCEPT !.totalScaledSupply = x, !.cash = y])]
      BY <3>1, Zenon
    <3>3. Booked(r, [r EXCEPT !.totalScaledSupply = x, !.cash = y])
      BY Zenon DEF Booked
    <3> QED BY <3>1, <3>2, <3>3, ActiveGuarded
  <2>4. CASE \E amount \in Amounts : \/ Borrow(sender, a, amount)
                                     \/ \E v \in Beneficiaries[sender] : Repay(sender, a, amount, v)
    <3>1. /\ reserves[a].config.active
          /\ \E x, y : reserves' = [reserves EXCEPT ![a] = UpdateRates(
                [r EXCEPT !.totalScaledDebt = x, !.cash = y])]
      BY <2>4, Zenon DEF Borrow, AcceptsBorrow, Repay, AcceptsRepay,
         ValidateBorrow, ValidateRepay, Operational
    <3>2. PICK x, y : reserves' = [reserves EXCEPT ![a] = UpdateRates(
                [r EXCEPT !.totalScaledDebt = x, !.cash = y])]
      BY <3>1, Zenon
    <3>3. Booked(r, [r EXCEPT !.totalScaledDebt = x, !.cash = y])
      BY Zenon DEF Booked
    <3> QED BY <3>1, <3>2, <3>3, ActiveGuarded
  <2>5. CASE \E amount \in Amounts : CoverDeficit(sender, a, amount)
    BY <2>5, CoverDeficitGuarded
  <2>6. CASE \E amount \in Amounts, c \in Asset, b \in User, receiveSupply \in BOOLEAN :
                 Liquidate(sender, c, a, b, amount, receiveSupply)
    <3>1. PICK amount \in Amounts, c \in Asset, b \in User, receiveSupply \in BOOLEAN :
                  Liquidate(sender, c, a, b, amount, receiveSupply)
      BY <2>6, Zenon
    <3> QED BY <3>1, LiquidateGuarded
  <2> QED BY <2>1, <2>2, <2>3, <2>4, <2>5, <2>6, Zenon
<1>2. CASE ConfiguratorNext
  <2>1. CASE \E a \in Asset : \E model \in RateModels[a], config \in Configs[a] :
                 InitReserve(a, model, config)
    <3>1. PICK a \in Asset : \E model \in RateModels[a], config \in Configs[a] :
                 InitReserve(a, model, config)
      BY <2>1, Zenon
    <3>2. PICK model \in RateModels[a], config \in Configs[a] : InitReserve(a, model, config)
      BY <3>1, Zenon
    <3>3. /\ config.active /\ now' = now
          /\ reserves' = [reserves EXCEPT ![a] = NewReserve(config, model, now)]
      BY <3>2, Zenon DEF InitReserve
    <3>4. reserves \in [Asset -> ReserveData]
      BY DEF PoolInv, TypeOK
    <3> SUFFICES ASSUME NEW b \in Asset PROVE Guarded(b)
      OBVIOUS
    <3>5. CASE b = a
      <4>1. reserves'[b] = NewReserve(config, model, now)
        BY <3>3, <3>4, <3>5
      <4> QED BY <3>3, <3>5, <4>1, Zenon DEF Guarded
    <3>6. CASE b # a
      <4>1. reserves'[b] = reserves[b]
        BY <3>3, <3>4, <3>6
      <4> QED BY <4>1, Zenon DEF Guarded
    <3> QED BY <3>5, <3>6
  <2>2. CASE \E a \in Asset : \E config \in Configs[a] : SetReserveConfig(a, config)
    <3>1. PICK a \in Asset : \E config \in Configs[a] : SetReserveConfig(a, config)
      BY <2>2, Zenon
    <3>2. PICK config \in Configs[a] : SetReserveConfig(a, config)
      BY <3>1, Zenon
    <3> DEFINE q == [Accrue(reserves[a], now) EXCEPT !.config = config]
    <3>3. /\ IsListed(reserves[a]) /\ (config.active \/ Deactivatable(reserves[a]))
          /\ reserves' = [reserves EXCEPT ![a] = UpdateRates(q)]
      BY <3>2, Zenon DEF SetReserveConfig, Configured
    <3>4. \E new : /\ q = [Accrue(reserves[a], now) EXCEPT !.config = new]
                   /\ new.active \/ Deactivatable(reserves[a])
      BY <3>3, Zenon
    <3> HIDE DEF q
    <3> QED BY <3>3, <3>4, SetterGuarded
  <2>3. CASE \E a \in Asset : \E model \in RateModels[a] : SetInterestRateModel(a, model)
    <3>1. PICK a \in Asset : \E model \in RateModels[a] : SetInterestRateModel(a, model)
      BY <2>3, Zenon
    <3>2. PICK model \in RateModels[a] : SetInterestRateModel(a, model)
      BY <3>1, Zenon
    <3> DEFINE q == [Accrue(reserves[a], now) EXCEPT !.interestRateModel = model]
    <3>3. /\ IsListed(reserves[a])
          /\ reserves' = [reserves EXCEPT ![a] = UpdateRates(q)]
      BY <3>2, Zenon DEF SetInterestRateModel
    <3>4. \E new : q = [Accrue(reserves[a], now) EXCEPT !.interestRateModel = new]
      BY Zenon
    <3> HIDE DEF q
    <3> QED BY <3>3, <3>4, SetterGuarded
  <2>4. CASE \E a \in Asset, amount \in Amounts, to \in User : WithdrawReserves(a, amount, to)
    <3>1. PICK a \in Asset, amount \in Amounts, to \in User : WithdrawReserves(a, amount, to)
      BY <2>4, Zenon
    <3> QED BY <3>1, WithdrawReservesGuarded
  <2>5. CASE \/ \E newPaused \in Pauses : SetPoolPaused(newPaused)
             \/ \E period \in GracePeriods : SetLiquidationGracePeriod(period)
    <3>1. UNCHANGED reserves
      BY <2>5, Zenon DEF SetPoolPaused, SetLiquidationGracePeriod
    <3> QED BY <1>0, <3>1
  <2> QED BY <1>2, <2>1, <2>2, <2>3, <2>4, <2>5, Zenon DEF ConfiguratorNext
<1>3. CASE EnvironmentNext \/ UNCHANGED vars
  <2>1. UNCHANGED reserves
    BY <1>3, Zenon DEF EnvironmentNext, Tick, SetPrice, vars
  <2> QED BY <1>0, <2>1
<1> QED BY <1>1, <1>2, <1>3, Zenon DEF Next

\* A reserve just listed starts at par.
LEMMA FreshAtPar ==
    ASSUME NEW config \in ReserveConfig, NEW model \in InterestRateModel, NEW t \in Nat
    PROVE  LET s == NewReserve(config, model, t)
           IN  s.config = config /\ NormalizedIncome(s, t) = RAY
<1> DEFINE q == Fresh(config, model, t)
<1>1. q \in ReserveData /\ q.config = config /\ q.lastUpdateTimestamp = t
  BY FreshType
<1>2. q.liquidityIndex = RAY
  BY UnlistedType DEF Fresh, ReserveData
<1>3. NewReserve(config, model, t) = UpdateRates(q)
  BY Zenon DEF NewReserve, Fresh
<1> HIDE DEF q
<1>4. UpdateRates(q).config = config
  BY <1>1, RatedReserve
<1>5. NormalizedIncome(UpdateRates(q), t) = q.liquidityIndex
  BY <1>1, ViewsOfAccrued DEF ReserveData
<1> QED BY <1>2, <1>3, <1>4, <1>5

\* The invariant of the argument holds in every reachable state.
LEMMA ExitInvariant == Spec => []ExitInv
<1>1. Init => ExitInv
  <2> SUFFICES ASSUME Init PROVE ExitInv
    OBVIOUS
  <2>1. PoolInv
    BY InitEstablishes
  <2>2. ASSUME NEW a \in Asset
        PROVE  /\ reserves[a].config.active \/ Deactivatable(reserves[a])
               /\ IsListed(reserves[a]) => RAY <= NormalizedIncome(reserves[a], now)
    <3>1. CASE a \in Listed
      <4>1. reserves[a] = NewReserve(InitialConfig[a], InitialRateModel[a], Genesis) /\ now = Genesis
        BY <3>1 DEF Init
      <4>2. /\ InitialConfig[a] \in ReserveConfig /\ InitialRateModel[a] \in InterestRateModel
            /\ Genesis \in Nat
        BY PoolAssumption DEF ValidConfig, Genesis
      <4>3. NormalizedIncome(reserves[a], now) = RAY /\ RAY \in Nat
        BY <4>1, <4>2, FreshAtPar, ScaleAssumption
      <4>4. Deactivatable(reserves[a])
        <5> DEFINE q == Fresh(InitialConfig[a], InitialRateModel[a], Genesis)
        <5>1. /\ q \in ReserveData /\ q.totalScaledSupply = 0 /\ q.totalScaledDebt = 0
              /\ q.accruedToTreasury = 0
          BY <4>2, FreshType
        <5>2. reserves[a] = UpdateRates(q)
          BY <4>1, Zenon DEF NewReserve, Fresh
        <5> HIDE DEF q
        <5> QED BY <5>1, <5>2, RatedReserve DEF Deactivatable
      <4> QED BY <4>3, <4>4
    <3>2. CASE a \notin Listed
      <4>1. reserves[a] = UnlistedReserve
        BY <3>2 DEF Init
      <4> QED BY <4>1, UnlistedType DEF Deactivatable, IsListed
    <3> QED BY <3>1, <3>2
  <2> QED BY <2>1, <2>2 DEF ExitInv, InactiveIsEmpty, IncomeAbovePar
<1>2. ExitInv /\ [Next]_vars => ExitInv'
  <2> SUFFICES ASSUME PoolInv, InactiveIsEmpty, IncomeAbovePar, [Next]_vars PROVE ExitInv'
    BY DEF ExitInv
  <2>1. PoolInv'
    BY StepKeeps
  <2>2. ASSUME NEW a \in Asset
        PROVE  /\ reserves'[a].config.active \/ Deactivatable(reserves'[a])
               /\ IsListed(reserves'[a]) => RAY <= NormalizedIncome(reserves'[a], now')
    <3>1. reserves[a].config.active \/ Deactivatable(reserves[a])
      BY DEF InactiveIsEmpty
    <3>2. /\ IsListed(reserves[a]) => RAY <= NormalizedIncome(reserves[a], now)
          /\ RAY \in Nat
      BY ScaleAssumption DEF IncomeAbovePar
    <3>3. /\ reserves[a] \in ReserveData /\ now \in Nat /\ reserves[a].lastUpdateTimestamp <= now
          /\ now + 1 \in Nat
      BY DEF PoolInv, TypeOK, ReservesSane, SaneReserve
    <3>4. CASE IsListed(reserves[a]) \/ reserves'[a] = reserves[a]
      <4>1. reserves'[a].config.active \/ Deactivatable(reserves'[a])
        <5>1. CASE \E config \in Configs[a], model \in RateModels[a] :
                     config.active /\ now' = now /\ reserves'[a] = NewReserve(config, model, now)
          <6>1. PICK config \in Configs[a], model \in RateModels[a] :
                     config.active /\ now' = now /\ reserves'[a] = NewReserve(config, model, now)
            BY <5>1, Zenon
          <6>2. config \in ReserveConfig /\ model \in InterestRateModel
            BY PoolAssumption DEF ValidConfig
          <6> QED BY <3>3, <6>1, <6>2, FreshAtPar
        <5> QED BY <3>1, <5>1, StepGuarded, Zenon DEF Guarded
      <4>2. ASSUME IsListed(reserves'[a]) PROVE RAY <= NormalizedIncome(reserves'[a], now')
        <5>1. IsListed(reserves[a])
          BY <3>4, <4>2
        <5>2. CASE now' = now
          <6>1. SameViews(reserves[a], reserves'[a], now)
            BY <5>1, StepTracks DEF Tracked
          <6> QED BY <3>2, <5>1, <5>2, <6>1 DEF SameViews
        <5>3. CASE now' = now + 1 /\ UNCHANGED reserves
          <6>1. NormalizedIncome(reserves[a], now) <= NormalizedIncome(reserves[a], now + 1)
            BY <3>3, IncomeGrows
          <6>2. NormalizedIncome(reserves[a], now) \in Nat
            BY <3>3, ViewsType
          <6>3. NormalizedIncome(reserves[a], now + 1) \in Nat
            <7>1. reserves[a].lastUpdateTimestamp <= now + 1
              BY <3>3 DEF ReserveData
            <7> QED BY <3>3, <7>1, ViewsType
          <6> QED BY <3>2, <5>1, <5>3, <6>1, <6>2, <6>3
        <5> QED BY <5>2, <5>3, StepInTime
      <4> QED BY <4>1, <4>2
    <3>5. CASE ~IsListed(reserves[a]) /\ reserves'[a] # reserves[a]
      <4>1. PICK config \in Configs[a], model \in RateModels[a] :
                 config.active /\ now' = now /\ reserves'[a] = NewReserve(config, model, now)
        BY <3>5, StepGuarded, Zenon DEF Guarded
      <4>2. config \in ReserveConfig /\ model \in InterestRateModel
        BY PoolAssumption DEF ValidConfig
      <4>3. reserves'[a].config = config /\ NormalizedIncome(reserves'[a], now) = RAY
        BY <3>3, <4>1, <4>2, FreshAtPar
      <4> QED BY <3>2, <4>1, <4>3
    <3> QED BY <3>4, <3>5
  <2> QED BY <2>1, <2>2 DEF ExitInv, InactiveIsEmpty, IncomeAbovePar
<1> QED BY <1>1, <1>2, PTL DEF Spec

\* A debt can be repaid in full by whoever holds the tokens: it is in an active reserve,
\* and the largest amount burns all of it.
LEMMA DebtRepayable ==
    ASSUME ExitInv, NEW u \in User, NEW a \in Asset, debt[u][a] # 0, MaxUint \in Nat,
           RayMulUp(debt[u][a], NormalizedDebt(reserves[a], now)) <= wallet[u][a],
           RayMulUp(debt[u][a], NormalizedDebt(reserves[a], now)) <= MaxUint
    PROVE  AcceptsRepay(u, a, MaxUint, u)
<1> DEFINE r == Accrue(reserves[a], now)
           owed == RayMulUp(debt[u][a], r.borrowIndex)
<1>1. reserves[a].config.active
  BY ExposedIsActive DEF ExitInv
<1>2. IsListed(reserves[a])
  BY <1>1, ActiveIsListed DEF ExitInv
<1>3. NormalizedDebt(reserves[a], now) = r.borrowIndex
  <2>1. reserves[a] \in ReserveData /\ now \in Nat /\ reserves[a].lastUpdateTimestamp <= now
    BY DEF ExitInv, PoolInv, TypeOK, ReservesSane, SaneReserve
  <2> QED BY <2>1, ViewsAreAccrue
<1>4. debt[u][a] \in Nat /\ r.borrowIndex \in Nat
  BY <1>2, Accrued DEF ExitInv, PoolInv, TypeOK
<1>5. owed <= wallet[u][a] /\ owed <= MaxUint
  BY <1>3
<1>6. owed \in Nat
  BY <1>4, RayType
<1>7. MaxUint >= owed
  BY <1>5, <1>6
<1> QED BY <1>1, <1>5, <1>7, Zenon DEF AcceptsRepay, ValidateRepay

\* A balance is worth at least a unit.
LEMMA BalanceHasWorth ==
    ASSUME ExitInv, NEW u \in User, NEW a \in Asset, supply[u][a] # 0
    PROVE  RayMulDown(supply[u][a], NormalizedIncome(reserves[a], now)) \in Nat \ {0}
<1> DEFINE index == NormalizedIncome(reserves[a], now)
           balance == RayMulDown(supply[u][a], index)
<1>1. IsListed(reserves[a])
  BY ExposedIsListed DEF ExitInv
<1>2. RAY <= index
  BY <1>1 DEF ExitInv, IncomeAbovePar
<1>3. supply[u][a] \in Nat \ {0}
  BY DEF ExitInv, PoolInv, TypeOK
<1>4. index \in Nat
  <2>1. reserves[a] \in ReserveData /\ now \in Nat /\ reserves[a].lastUpdateTimestamp <= now
    BY DEF ExitInv, PoolInv, TypeOK, ReservesSane, SaneReserve
  <2> QED BY <2>1, ViewsType
<1> HIDE DEF index
<1>5. supply[u][a] <= RayMulDown(index, supply[u][a])
  BY <1>2, <1>3, <1>4, RayMulGrows
<1>6. RayMulDown(index, supply[u][a]) = balance
  <2>1. index * supply[u][a] = supply[u][a] * index
    BY <1>3, <1>4
  <2> QED BY <2>1, Zenon DEF RayMulDown
<1>7. balance \in Nat
  BY <1>3, <1>4, RayType
<1> HIDE DEF balance
<1>8. balance \in Nat \ {0}
  BY <1>3, <1>5, <1>6, <1>7
<1> QED BY <1>8 DEF balance, index

\* A lender without debt can withdraw all its balance if the cash covers it: it is in an
\* active reserve, worth at least one unit, and no capacity check stands in the way.
LEMMA BalanceWithdrawable ==
    ASSUME ExitInv, NEW u \in User, NEW a \in Asset, supply[u][a] # 0, borrowing[u] = {},
           ~paused, ~reserves[a].config.paused,
           RayMulDown(supply[u][a], NormalizedIncome(reserves[a], now)) <= reserves[a].cash
    PROVE  AcceptsWithdraw(u, a, MaxUint)
<1> DEFINE r == Accrue(reserves[a], now)
           balance == RayMulDown(supply[u][a], r.liquidityIndex)
<1>1. reserves[a].config.active
  BY ExposedIsActive DEF ExitInv
<1>2. IsListed(reserves[a])
  BY <1>1, ActiveIsListed DEF ExitInv
<1>3. NormalizedIncome(reserves[a], now) = r.liquidityIndex
  <2>1. reserves[a] \in ReserveData /\ now \in Nat /\ reserves[a].lastUpdateTimestamp <= now
    BY DEF ExitInv, PoolInv, TypeOK, ReservesSane, SaneReserve
  <2> QED BY <2>1, ViewsAreAccrue
<1>4. r.cash = tokens[a] /\ reserves[a].cash = tokens[a]
  BY <1>2, Accrued DEF ExitInv, PoolInv, CashMatchesTokens
<1>5. balance \in Nat \ {0}
  BY <1>3, BalanceHasWorth
<1>6. balance <= r.cash /\ balance <= tokens[a] /\ balance <= balance
  BY <1>3, <1>4, <1>5
<1>7. Operational(reserves[a].config)
  BY <1>1, Zenon DEF Operational
<1>8. ~NeedsCapacityCheck(a \in collateral[u],
                          a \in ClearBit(collateral[u], a, supply[u][a], supply[u][a]), borrowing[u])
  BY Zenon DEF NeedsCapacityCheck
<1> QED BY <1>5, <1>6, <1>7, <1>8, Zenon DEF AcceptsWithdraw

\* No price, pause of another market, deactivation or rounding closes an exit: a market is
\* switched off only while it is empty, a supply is worth at least its scaled balance, and
\* neither repaying nor withdrawing without debt asks the oracle.
THEOREM ExitsOpen == Spec => []ExitsStayOpen
<1>1. ExitInv => ExitsStayOpen
  <2>1. MaxUint \in Nat
    BY PoolAssumption
  <2> QED BY <2>1, DebtRepayable, BalanceWithdrawable DEF ExitsStayOpen
<1> QED BY <1>1, ExitInvariant, PTL
=============================================================================
