-------------------------------- MODULE MCDust --------------------------------
(***************************************************************************)
(* A debt secured by two collaterals and a fall in the price of one: the   *)
(* account stays above the close-factor threshold, so half of the debt may *)
(* be covered, and the two legs are of unequal size.                       *)
(***************************************************************************)
EXTENDS LendingPoolProperties, TLC

CONSTANTS alice, bob, weth, dai

MCAsset == {weth, dai}
MCUser == {alice, bob}
MCBeneficiaries == [u \in User |-> {u}]
MCUnit == (weth :> 1) @@ (dai :> 1)
MCAmounts == {12, 20, MaxUint}
MCPrices == (weth :> {1, 2}) @@ (dai :> {1})
Listing == [ltv |-> 6, liquidationThreshold |-> 8, liquidationBonus |-> 1, reserveFactor |-> 0,
            active |-> TRUE, frozen |-> FALSE, paused |-> FALSE,
            borrowingEnabled |-> TRUE, collateralEnabled |-> TRUE, supplyCap |-> 0, borrowCap |-> 0]
MCInitialConfig == [a \in Asset |-> Listing]
MCConfigs == [a \in Asset |-> {}]
Free == [baseRate |-> 0, slope1 |-> 0, slope2 |-> 0, optimalUtilization |-> 5]
MCInitialRateModel == [a \in Asset |-> Free]
MCRateModels == [a \in Asset |-> {}]
MCInitialWallet == [u \in User |-> IF u = alice THEN (weth :> 12) @@ (dai :> 12)
                                                ELSE (weth :> 0) @@ (dai :> 20)]
=============================================================================
