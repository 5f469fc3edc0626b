------------------------------ MODULE PoolLens ------------------------------
(***************************************************************************)
(* contracts/periphery/PoolLens.sol: the one read of the pool that the     *)
(* API, the monitor and the dashboard share.  Its operators are functions  *)
(* of the pool's state.  A valuation that reverts because a price is       *)
(* missing is the record with ok = FALSE; nothing else of it is used then. *)
(***************************************************************************)
EXTENDS LendingPoolProperties, RiskRules

Least(x, y) == IF x < y THEN x ELSE y

reservesList == {a \in Asset : IsListed(reserves[a])}

(* getMarket.  What the pool gets from its oracle is a price or none. *)
getMarket(a) ==
    LET r == reserves[a]
        borrowed == TotalBorrowed(r, now)
    IN [config |-> r.config, cash |-> r.cash, deficit |-> r.deficit,
        totalSupplied |-> TotalSupplyLiabilities(r, now),
        totalBorrowed |-> borrowed,
        treasury |-> RayMulDown(TreasuryScaledNow(r, now), NormalizedIncome(r, now)),
        liquidityRate |-> r.liquidityRate, borrowRate |-> r.borrowRate,
        interestRateModel |-> r.interestRateModel,
        utilization |-> Utilization(r.cash, borrowed),
        price |-> price[a], priceStatus |-> IF price[a] = 0 THEN "UNAVAILABLE" ELSE "OK"]

(* _accountHealth: getUserAccountData in a try. *)
accountHealth(u) ==
    LET ok == Priced(u)
        debtValue == TotalDebtValue(AccountOf(u), reserves, price, now)
    IN [ok |-> ok,
        totalCollateralValue |->
            IF ok THEN SumOver([a \in CollateralAssets(AccountOf(u)) |->
                                  CollateralValue(AccountOf(u), reserves, price, now, a)],
                               CollateralAssets(AccountOf(u))) ELSE 0,
        totalDebtValue |-> IF ok THEN debtValue ELSE 0,
        borrowCapacityValue |-> IF ok THEN BorrowCapacityValue(AccountOf(u), reserves, price, now) ELSE 0,
        liquidationValue |-> IF ok THEN LiquidationValue(AccountOf(u), reserves, price, now) ELSE 0,
        healthFactor |-> IF ~ok THEN 0
                         ELSE IF debtValue = 0 THEN MAX_UINT256
                         ELSE HealthFactor(AccountOf(u), reserves, price, now)]

supplyBalanceOf(a, u) == RayMulDown(supply[u][a], NormalizedIncome(reserves[a], now))
debtBalanceOf(a, u) == RayMulUp(debt[u][a], NormalizedDebt(reserves[a], now))

(* One part per million, rounded up. *)
_haircut(amount) ==
    LET cut == DivUp(amount, MILLION) IN IF amount > cut THEN amount - cut ELSE 0

_maxBorrow(a, h) ==
    LET c == reserves[a].config
        byCapacity == ((h.borrowCapacityValue - h.totalDebtValue) * Unit[a]) \div price[a]
        borrowed == TotalBorrowed(reserves[a], now)
        byCap == IF c.borrowCap = 0 THEN byCapacity
                 ELSE IF borrowed >= c.borrowCap * Unit[a] THEN 0 ELSE c.borrowCap * Unit[a] - borrowed
    IN IF ~ValidateBorrow(c) \/ h.borrowCapacityValue <= h.totalDebtValue \/ price[a] = 0
       THEN 0
       ELSE _haircut(Least(Least(byCapacity, reserves[a].cash), byCap))

_maxWithdraw(a, u, h) ==
    LET c == reserves[a].config
        amount == Least(supplyBalanceOf(a, u), reserves[a].cash)
        excess == h.borrowCapacityValue - h.totalDebtValue
        byCapacity == (excess * PERCENTAGE_FACTOR * Unit[a]) \div (price[a] * c.ltv)
    IN IF ~Operational(c) THEN 0
       ELSE IF a \notin collateral[u] \/ borrowing[u] = {} THEN amount
       ELSE IF ~h.ok THEN 0
       ELSE IF c.ltv = 0 THEN IF excess < 0 THEN 0 ELSE amount
       ELSE IF excess <= 0 THEN 0
       ELSE IF byCapacity >= amount THEN amount ELSE _haircut(byCapacity)

(* previewLiquidation, with the reserves normalised to now.                     *)
isPreviewed(h, b, c, d) ==
    /\ h.ok /\ h.healthFactor < WAD
    /\ c \in collateral[b] /\ debtBalanceOf(d, b) # 0

previewOf(i, amounts, relevant) ==
    [liquidatable |-> relevant /\ amounts.status = "OK",
     status |-> IF relevant THEN amounts.status ELSE "OK",
     debtRepaid |-> IF relevant THEN amounts.debtRepaid ELSE 0,
     collateralSeized |-> IF relevant THEN amounts.collateralSeized ELSE 0,
     debtRepaidValue |-> IF relevant THEN (amounts.debtRepaid * i.debtPrice) \div i.debtUnit ELSE 0,
     collateralSeizedValue |->
        IF relevant THEN (amounts.collateralSeized * i.collateralPrice) \div i.collateralUnit ELSE 0]

previewLiquidation(b, c, d, debtToCover) ==
    LET accrued == [a \in Asset |-> Accrue(reserves[a], now)]
        quote(i) == previewOf(i, CalculateAmounts(i), isPreviewed(accountHealth(b), b, c, d))
    IN quote(LiquidationInput(accrued, c, d, b, debtToCover))

(* A position of getUserPositions, given the account's health h. *)
getUserPosition(u, a, h) ==
    [supplyBalance |-> supplyBalanceOf(a, u), debtBalance |-> debtBalanceOf(a, u),
     collateralEnabled |-> a \in collateral[u], walletBalance |-> wallet[u][a],
     maxBorrow |-> IF h.ok THEN _maxBorrow(a, h) ELSE 0,
     maxWithdraw |-> _maxWithdraw(a, u, h)]
=============================================================================
