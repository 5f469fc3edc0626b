---------------------------- MODULE ReserveLogic ----------------------------
(***************************************************************************)
(* Interest accrual, treasury accrual and rate updates of one reserve:     *)
(* contracts/logic/ReserveLogic.sol.  A reserve is the record of           *)
(* DataTypes.ReserveData; its operations are functions from the record and *)
(* the block timestamp t to the new record, so that an action of the pool  *)
(* composes them in the order the code calls them:                         *)
(*                                                                         *)
(*    UpdateRates([Accrue(r, t) EXCEPT !... balances and cash ...])        *)
(*                                                                         *)
(* A reserve whose lastUpdateTimestamp is 0 is not listed.                 *)
(***************************************************************************)
EXTENDS InterestRates

\* Basis points, scaled: PERCENTAGE_FACTOR is 100%.
Bps == 0 .. PERCENTAGE_FACTOR

\* DataTypes.ReserveConfig.  The token's decimals never change after listing;
\* they are the constant Unit of RiskEngine.
ReserveConfig ==
    [ltv : Bps, liquidationThreshold : Bps, liquidationBonus : Bps, reserveFactor : Bps,
     active : BOOLEAN, frozen : BOOLEAN, paused : BOOLEAN,
     borrowingEnabled : BOOLEAN, collateralEnabled : BOOLEAN,
     supplyCap : Nat, borrowCap : Nat]

\* What PoolConfigurator lets through to the pool: ltv < threshold <= 95%, a
\* bonus of at most 20%, threshold * (1 + bonus) < 100%, a reserve factor of at most
\* 50%, and an asset without a threshold is no collateral.
ValidRiskParams(c) ==
    IF c.liquidationThreshold = 0
    THEN c.ltv = 0 /\ c.liquidationBonus = 0
    ELSE /\ c.ltv < c.liquidationThreshold
         /\ 20 * c.liquidationThreshold <= 19 * PERCENTAGE_FACTOR
         /\ c.liquidationBonus # 0 /\ 5 * c.liquidationBonus <= PERCENTAGE_FACTOR
         /\ PercentMulUp(c.liquidationThreshold, PERCENTAGE_FACTOR + c.liquidationBonus)
              < PERCENTAGE_FACTOR

ValidConfig ==
    {c \in ReserveConfig : /\ ValidRiskParams(c)
                           /\ 2 * c.reserveFactor <= PERCENTAGE_FACTOR
                           /\ c.collateralEnabled => c.liquidationThreshold # 0}

ReserveData ==
    [config : ReserveConfig, liquidityIndex : Nat, borrowIndex : Nat,
     liquidityRate : Nat, borrowRate : Nat,
     totalScaledSupply : Nat, totalScaledDebt : Nat,
     cash : Nat, accruedToTreasury : Nat, deficit : Nat,
     interestRateModel : InterestRateModel, lastUpdateTimestamp : Nat]

IsListed(r) == r.lastUpdateTimestamp # 0

\* Supply index as of t, without writing.
NormalizedIncome(r, t) ==
    IF r.lastUpdateTimestamp = t
    THEN r.liquidityIndex
    ELSE RayMulDown(LinearInterest(r.liquidityRate, t - r.lastUpdateTimestamp), r.liquidityIndex)

\* Borrow index as of t, without writing.
NormalizedDebt(r, t) ==
    IF r.lastUpdateTimestamp = t \/ r.totalScaledDebt = 0
    THEN r.borrowIndex
    ELSE RayMulUp(CompoundedInterest(r.borrowRate, t - r.lastUpdateTimestamp), r.borrowIndex)

\* The reserve factor's share of the interest between the stored borrow index
\* and newBorrowIndex, in scaled supply at newLiquidityIndex.
TreasuryAccrualScaled(r, newBorrowIndex, newLiquidityIndex) ==
    LET interest == RayMulDown(r.totalScaledDebt, newBorrowIndex)
                      - RayMulDown(r.totalScaledDebt, r.borrowIndex)
    IN  IF r.config.reserveFactor = 0
        THEN 0
        ELSE RayDivDown(PercentMulDown(interest, r.config.reserveFactor), newLiquidityIndex)

\* Mutant: the stored claim without the share accrued since.
StoredTreasury(r, t) == r.accruedToTreasury

\* Treasury claim (scaled) including the share accrued since the last write.
TreasuryScaledNow(r, t) ==
    IF r.lastUpdateTimestamp = t \/ r.totalScaledDebt = 0
    THEN r.accruedToTreasury
    ELSE r.accruedToTreasury
           + TreasuryAccrualScaled(r, NormalizedDebt(r, t), NormalizedIncome(r, t))

\* Bring the indexes up to t and credit the reserve factor's share of interest.
\* The first IF is the code's early return: a second accrue in a block is a no-op.
Accrue(r, t) ==
    LET dt == t - r.lastUpdateTimestamp
        newLiquidityIndex ==
            IF r.liquidityRate = 0
            THEN r.liquidityIndex
            ELSE RayMulDown(LinearInterest(r.liquidityRate, dt), r.liquidityIndex)
        newBorrowIndex == RayMulUp(CompoundedInterest(r.borrowRate, dt), r.borrowIndex)
    IN  IF r.lastUpdateTimestamp = t
        THEN r
        ELSE IF r.totalScaledDebt = 0
        THEN [r EXCEPT !.liquidityIndex = newLiquidityIndex, !.lastUpdateTimestamp = t]
        ELSE [r EXCEPT !.liquidityIndex = newLiquidityIndex,
                       !.borrowIndex = newBorrowIndex,
                       !.accruedToTreasury =
                            @ + TreasuryAccrualScaled(r, newBorrowIndex, newLiquidityIndex),
                       !.lastUpdateTimestamp = t]

\* liquidityRate = borrowRate * min(debt / liabilities, 1) * (1 - reserveFactor),
\* the liabilities rounded up, and 0 when there is no debt or no liability.
LiquidityRate(r, borrowRate) ==
    LET totalDebt == RayMulUp(r.totalScaledDebt, r.borrowIndex)
        liabilities == RayMulUp(r.totalScaledSupply + r.accruedToTreasury, r.liquidityIndex)
        ratio == RayDivDown(totalDebt, liabilities)
        debtRatio == IF ratio > RAY THEN RAY ELSE ratio
    IN  IF totalDebt = 0 \/ liabilities = 0
        THEN 0
        ELSE PercentMulDown(RayMulDown(borrowRate, debtRatio),
                            PERCENTAGE_FACTOR - r.config.reserveFactor)

\* Price the next interval from the new utilization.
UpdateRates(r) ==
    LET borrowRate == GetBorrowRate(r.interestRateModel, r.cash,
                                    RayMulUp(r.totalScaledDebt, r.borrowIndex))
    IN  [r EXCEPT !.liquidityRate = LiquidityRate(r, borrowRate), !.borrowRate = borrowRate]

\* Everything suppliers and the treasury can claim as of t, in underlying units.
TotalSupplyLiabilities(r, t) ==
    RayMulDown(r.totalScaledSupply + TreasuryScaledNow(r, t), NormalizedIncome(r, t))

\* Everything borrowers owe as of t, in underlying units (LendingPool.totalBorrowed).
TotalBorrowed(r, t) == RayMulUp(r.totalScaledDebt, NormalizedDebt(r, t))
=============================================================================
