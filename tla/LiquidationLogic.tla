-------------------------- MODULE LiquidationLogic --------------------------
(***************************************************************************)
(* The amounts of a liquidation and the recognition of bad debt:           *)
(* contracts/logic/LiquidationLogic.sol.  executeLiquidation itself, which *)
(* changes the pool's storage, is the action Liquidate of LendingPool.     *)
(***************************************************************************)
EXTENDS RiskEngine

CONSTANTS
    CLOSE_FACTOR_HF_THRESHOLD,  \* 0.95, in wad
    SMALL_POSITION_VALUE,       \* $2,000: smaller positions close in one call
    MIN_LEFTOVER_VALUE          \* $1,000: the dust rule

ASSUME LiquidationAssumption ==
    /\ CLOSE_FACTOR_HF_THRESHOLD \in Nat
    /\ SMALL_POSITION_VALUE \in Nat
    /\ MIN_LEFTOVER_VALUE \in Nat

MAX_CLOSE_FACTOR == PERCENTAGE_FACTOR
DEFAULT_CLOSE_FACTOR == PERCENTAGE_FACTOR \div 2

CloseFactor(healthFactor, debtValue, collateralValue) ==
    IF \/ healthFactor < CLOSE_FACTOR_HF_THRESHOLD
       \/ debtValue < SMALL_POSITION_VALUE
       \/ collateralValue < SMALL_POSITION_VALUE
    THEN MAX_CLOSE_FACTOR
    ELSE DEFAULT_CLOSE_FACTOR

\* Debt repaid and collateral seized.  i is AmountsInput: the borrower's two
\* balances, the prices and units of the two legs, the bonus and debtToCover.
\* The seizure is worth the repayment plus the bonus, rounded down; when the
\* collateral does not cover it, all of it is seized and the repayment is what
\* it covers, rounded up and capped by the debt.
RepaidAndSeized(i, closeFactor) ==
    LET maxDebt == PercentMulDown(i.borrowerDebt, closeFactor)
        repaid == IF i.debtToCover < maxDebt THEN i.debtToCover ELSE maxDebt
        withBonus == PERCENTAGE_FACTOR + i.bonus
        seized == (repaid * i.debtPrice * (i.collateralUnit * withBonus))
                    \div (i.debtUnit * i.collateralPrice * PERCENTAGE_FACTOR)
        covered == DivUp(i.borrowerCollateral * i.collateralPrice * (i.debtUnit * PERCENTAGE_FACTOR),
                         i.collateralUnit * i.debtPrice * withBonus)
    IN  IF seized > i.borrowerCollateral
        THEN [debtRepaid |-> IF covered > i.borrowerDebt THEN i.borrowerDebt ELSE covered,
              collateralSeized |-> i.borrowerCollateral]
        ELSE [debtRepaid |-> repaid, collateralSeized |-> seized]

\* A partial liquidation must leave both legs economically liquidatable.
LeavesDust(i, amounts) ==
    LET leftoverDebt == ((i.borrowerDebt - amounts.debtRepaid) * i.debtPrice) \div i.debtUnit
        leftoverCollateral ==
            ((i.borrowerCollateral - amounts.collateralSeized) * i.collateralPrice)
                \div i.collateralUnit
    IN  /\ amounts.debtRepaid < i.borrowerDebt
        /\ amounts.collateralSeized < i.borrowerCollateral
        /\ leftoverDebt < MIN_LEFTOVER_VALUE \/ leftoverCollateral < MIN_LEFTOVER_VALUE

CalculateAmounts(i) ==
    LET debtValue == (i.borrowerDebt * i.debtPrice) \div i.debtUnit
        collateralValue == (i.borrowerCollateral * i.collateralPrice) \div i.collateralUnit
        amounts == RepaidAndSeized(i, CloseFactor(i.healthFactor, debtValue, collateralValue))
        status == IF amounts.debtRepaid = 0 \/ amounts.collateralSeized = 0
                  THEN "NOTHING_TO_LIQUIDATE"
                  ELSE IF LeavesDust(i, amounts) THEN "LEAVES_DUST" ELSE "OK"
    IN  [status |-> status,
         debtRepaid |-> amounts.debtRepaid,
         collateralSeized |-> amounts.collateralSeized]

\* Mutant: the treasury is charged the whole loss even when it cannot cover it.
AbsorbUncapped(r, loss) ==
    [covered |-> loss, accruedToTreasury |-> r.accruedToTreasury - RayDivUp(loss, r.liquidityIndex)]

\* The treasury's claim is the reserve's first-loss buffer: what it covers of a
\* loss, and what is left of it.
AbsorbWithTreasury(r, loss) ==
    LET treasuryValue == RayMulDown(r.accruedToTreasury, r.liquidityIndex)
    IN  IF treasuryValue <= loss
        THEN [covered |-> treasuryValue, accruedToTreasury |-> 0]
        ELSE [covered |-> loss,
              accruedToTreasury |-> r.accruedToTreasury - RayDivUp(loss, r.liquidityIndex)]

\* Mutant: the deficit records the loss without what the treasury absorbed.
WriteOffIgnoringTreasury(r, scaled) ==
    LET debt == RayMulUp(scaled, r.borrowIndex)
    IN  [r EXCEPT !.totalScaledDebt = @ - scaled, !.deficit = @ + debt]

\* One iteration of _writeOffBadDebt: burn a borrower's scaled debt in a reserve
\* that has been accrued.  Nothing changes when there is no debt.
WriteOffDebt(r, scaled) ==
    LET debt == RayMulUp(scaled, r.borrowIndex)
        absorbed == AbsorbWithTreasury(r, debt)
    IN  IF scaled = 0
        THEN r
        ELSE [r EXCEPT !.totalScaledDebt = @ - scaled,
                       !.accruedToTreasury = absorbed.accruedToTreasury,
                       !.deficit = @ + (debt - absorbed.covered)]
=============================================================================
