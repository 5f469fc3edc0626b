-------------------------------- MODULE MCRisk --------------------------------
(***************************************************************************)
(* Two reserves with moving prices and no interest: borrowing power,       *)
(* health, and liquidations across reserves and within one, and what the   *)
(* lens, the liquidation routes and the action panel say about them.       *)
(***************************************************************************)
EXTENDS ActionPanel, TLC

CONSTANTS alice, bob, weth, dai

MCAsset == {weth, dai}
MCUser == {alice, bob}
MCBeneficiaries == [u \in User |-> {u}]
MCUnit == (weth :> 1) @@ (dai :> 2)
MCAmounts == {1, 3, MaxUint}
MCPrices == (weth :> {0, 3, 6}) @@ (dai :> {2})
Listing == [ltv |-> 5, liquidationThreshold |-> 8, liquidationBonus |-> 1, reserveFactor |-> 2,
            active |-> TRUE, frozen |-> FALSE, paused |-> FALSE,
            borrowingEnabled |-> TRUE, collateralEnabled |-> TRUE, supplyCap |-> 0, borrowCap |-> 0]
MCInitialConfig == (weth :> Listing) @@ (dai :> [Listing EXCEPT !.borrowCap = 2])
MCConfigs == (weth :> {[Listing EXCEPT !.ltv = 0]}) @@ (dai :> {})
Kinked == [baseRate |-> 2, slope1 |-> 4, slope2 |-> 8, optimalUtilization |-> 5]
MCInitialRateModel == [a \in Asset |-> Kinked]
MCRateModels == [a \in Asset |-> {}]
MCInitialWallet == [u \in User |-> IF u = alice THEN (weth :> 2) @@ (dai :> 0)
                                                ELSE (weth :> 0) @@ (dai :> 5)]
=============================================================================
