------------------------------ MODULE MCConsole ------------------------------
(***************************************************************************)
(* One operation, which unfreezes the reserve, scheduled up to twice,      *)
(* around a guardian who pauses, unpauses and freezes it.                  *)
(***************************************************************************)
EXTENDS Console, TLC

CONSTANT unfreeze

MCChange == unfreeze :> [field |-> "frozen", value |-> FALSE]
=============================================================================
