----------------------------- MODULE MCEmergency -----------------------------
(***************************************************************************)
(* One reserve with interest, an active guardian, a changing configuration *)
(* (pauses, freezes, grace windows, reserve factors, caps) and a vault on  *)
(* top of it, whose two holders may also use the pool themselves.          *)
(***************************************************************************)
EXTENDS LendingVault, TLC

CONSTANTS alice, bob, dai

MCAsset == {dai}
MCUser == {alice, bob, vault}
MCBeneficiaries == [u \in User |-> {u} \ {vault}]
MCUnit == [a \in Asset |-> 1]
MCAmounts == {1, MaxUint}
MCPrices == [a \in Asset |-> {1}]
Listing == [ltv |-> 7, liquidationThreshold |-> 8, liquidationBonus |-> 1, reserveFactor |-> 5,
            active |-> TRUE, frozen |-> FALSE, paused |-> FALSE,
            borrowingEnabled |-> TRUE, collateralEnabled |-> TRUE, supplyCap |-> 0, borrowCap |-> 0]
MCConfigs ==
    [a \in Asset |-> {Listing,
                      [Listing EXCEPT !.paused = TRUE, !.ltv = 3, !.liquidationThreshold = 4],
                      [Listing EXCEPT !.frozen = TRUE, !.reserveFactor = 1],
                      [Listing EXCEPT !.active = FALSE],
                      [Listing EXCEPT !.ltv = 3, !.liquidationThreshold = 4, !.supplyCap = 2]}]
MCInitialConfig == [a \in Asset |-> Listing]
Steep == [baseRate |-> 4, slope1 |-> 4, slope2 |-> 4, optimalUtilization |-> 5]
Flat == [Steep EXCEPT !.slope2 = 0]
MCInitialRateModel == [a \in Asset |-> Steep]
MCRateModels == [a \in Asset |-> {Flat}]
MCInitialWallet == [u \in User |-> [a \in Asset |-> CASE u = alice -> 2 [] u = bob -> 1 [] u = vault -> 0]]
=============================================================================
