------------------------------ MODULE MCMonitor ------------------------------
(***************************************************************************)
(* One market whose utilization jumps, and an account that is liquidatable *)
(* or cannot be priced; a feed that stops answering; heads that go back.   *)
(***************************************************************************)
EXTENDS RiskMonitor

CONSTANTS weth, dai, alice, bob

One == <<weth>>
Two == <<weth, dai>>

Under == [priced |-> TRUE, healthFactor |-> 9, collateralUsd |-> 1, debtUsd |-> 2]
Unpriced == [priced |-> FALSE, healthFactor |-> 0, collateralUsd |-> 0, debtUsd |-> 0]
MCHealths == {Under, Unpriced}
=============================================================================
