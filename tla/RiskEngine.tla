----------------------------- MODULE RiskEngine -----------------------------
(***************************************************************************)
(* Account valuation and borrowing power: contracts/logic/RiskEngine.sol,  *)
(* over the bitmap of contracts/libraries/UserConfiguration.sol.           *)
(*                                                                         *)
(* An account is the record of a user's balances and bitmap:               *)
(*   supply, debt            scaled balance of every reserve               *)
(*   collateral, borrowing   the reserves whose bit is set                 *)
(* res maps a reserve to its ReserveData and price to the oracle's answer, *)
(* 0 standing for a getPrice that reverts; t is the block timestamp.       *)
(***************************************************************************)
EXTENDS ReserveLogic, FiniteSums

CONSTANTS
    Asset,  \* the reserves the pool can list
    Unit    \* Unit[a] is 10^decimals of a

ASSUME AssetAssumption ==
    /\ IsFiniteSet(Asset)
    /\ Unit \in [Asset -> Nat \ {0}]

AccountType ==
    [supply : [Asset -> Nat], debt : [Asset -> Nat],
     collateral : SUBSET Asset, borrowing : SUBSET Asset]

\* The reserves that count: flagged in the bitmap and with a balance.
CollateralAssets(acct) == {a \in acct.collateral : acct.supply[a] # 0}
DebtAssets(acct) == {a \in acct.borrowing : acct.debt[a] # 0}

\* Valuation reverts unless every reserve it prices has a usable price; it
\* prices only the reserves the account is exposed to.
PricesUsable(acct, price) ==
    \A a \in CollateralAssets(acct) \cup DebtAssets(acct) : price[a] # 0

CollateralValue(acct, res, price, t, a) ==
    (RayMulDown(acct.supply[a], NormalizedIncome(res[a], t)) * price[a]) \div Unit[a]

DebtValue(acct, res, price, t, a) ==
    DivUp(RayMulUp(acct.debt[a], NormalizedDebt(res[a], t)) * price[a], Unit[a])

TotalDebtValue(acct, res, price, t) ==
    SumOver([a \in DebtAssets(acct) |-> DebtValue(acct, res, price, t, a)], DebtAssets(acct))

\* Collateral weighted by a configured percentage, summed before the division.
WeightedCollateral(acct, res, price, t, weight) ==
    SumOver([a \in CollateralAssets(acct) |-> CollateralValue(acct, res, price, t, a) * weight[a]],
            CollateralAssets(acct)) \div PERCENTAGE_FACTOR

BorrowCapacityValue(acct, res, price, t) ==
    WeightedCollateral(acct, res, price, t, [a \in Asset |-> res[a].config.ltv])

LiquidationValue(acct, res, price, t) ==
    WeightedCollateral(acct, res, price, t, [a \in Asset |-> res[a].config.liquidationThreshold])

\* In wad; only meaningful for an account with debt (the code returns the
\* largest uint256 for one without).
HealthFactor(acct, res, price, t) ==
    WadDivDown(LiquidationValue(acct, res, price, t), TotalDebtValue(acct, res, price, t))

IsHealthy(acct, res, price, t) ==
    \/ TotalDebtValue(acct, res, price, t) = 0
    \/ HealthFactor(acct, res, price, t) >= WAD

\* Mutant: the check only values the account.
OnlyPriced(acct, res, price, t) == PricesUsable(acct, price)

\* requireWithinBorrowCapacity: the calls it stands in revert when it is false.
WithinBorrowCapacity(acct, res, price, t) ==
    /\ PricesUsable(acct, price)
    /\ TotalDebtValue(acct, res, price, t) <= BorrowCapacityValue(acct, res, price, t)
=============================================================================
