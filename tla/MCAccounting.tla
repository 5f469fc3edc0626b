----------------------------- MODULE MCAccounting -----------------------------
(***************************************************************************)
(* One reserve whose token is both lent and used as collateral, high       *)
(* rates and tiny scales: the accounting run.                              *)
(***************************************************************************)
EXTENDS LendingPoolProperties, TLC

CONSTANTS alice, bob, dai

MCAsset == {dai}
MCUser == {alice, bob}
MCBeneficiaries == [u \in User |-> User]
MCUnit == [a \in Asset |-> 1]
MCAmounts == {1, 2, MaxUint}
MCPrices == [a \in Asset |-> {1}]
Listing == [ltv |-> 7, liquidationThreshold |-> 8, liquidationBonus |-> 1, reserveFactor |-> 2,
            active |-> TRUE, frozen |-> FALSE, paused |-> FALSE,
            borrowingEnabled |-> TRUE, collateralEnabled |-> TRUE, supplyCap |-> 0, borrowCap |-> 0]
MCInitialConfig == [a \in Asset |-> Listing]
MCConfigs == [a \in Asset |-> {}]
Steep == [baseRate |-> 1, slope1 |-> 2, slope2 |-> 3, optimalUtilization |-> 5]
MCInitialRateModel == [a \in Asset |-> Steep]
MCRateModels == [a \in Asset |-> {}]
MCInitialWallet == [u \in User |-> [a \in Asset |-> 3]]
Symmetry == Permutations(User)
=============================================================================
