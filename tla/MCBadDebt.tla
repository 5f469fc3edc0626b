-------------------------------- MODULE MCBadDebt --------------------------------
(***************************************************************************)
(* A borrower of two assets whose debt outgrows the collateral: weth can   *)
(* be borrowed but is no collateral, and its price may jump eightfold, so  *)
(* that a liquidation leaves debts in both reserves to be written off.     *)
(***************************************************************************)
EXTENDS LendingPoolProperties, TLC

CONSTANTS alice, bob, weth, dai

MCAsset == {weth, dai}
MCUser == {alice, bob}
MCBeneficiaries == [u \in User |-> {u}]
MCUnit == (weth :> 1) @@ (dai :> 1)
MCAmounts == {1, MaxUint}
MCPrices == (weth :> {1, 8}) @@ (dai :> {3})
Listing == [ltv |-> 17, liquidationThreshold |-> 18, liquidationBonus |-> 1, reserveFactor |-> 4,
            active |-> TRUE, frozen |-> FALSE, paused |-> FALSE,
            borrowingEnabled |-> TRUE, collateralEnabled |-> TRUE, supplyCap |-> 2, borrowCap |-> 1]
MCInitialConfig ==
    (weth :> [Listing EXCEPT !.ltv = 0, !.liquidationThreshold = 0, !.liquidationBonus = 0,
                             !.collateralEnabled = FALSE,
                             !.borrowCap = 2])
      @@ (dai :> Listing)
MCConfigs == [a \in Asset |-> {}]
Steep == [baseRate |-> 1, slope1 |-> 2, slope2 |-> 3, optimalUtilization |-> 5]
MCInitialRateModel == [a \in Asset |-> Steep]
MCRateModels == [a \in Asset |-> {}]
MCInitialWallet == [u \in User |-> IF u = alice THEN (weth :> 0) @@ (dai :> 2)
                                                ELSE (weth :> 2) @@ (dai :> 0)]
=============================================================================
