----------------------------- MODULE FiniteSums -----------------------------
(***************************************************************************)
(* The sum of a function's values over a finite set.  The loops of the     *)
(* contracts add over the reserves of an account, and the invariants add   *)
(* over the accounts of a reserve.                                         *)
(***************************************************************************)
EXTENDS Integers, FiniteSets, Folds

SumOver(f, S) == MapThenFoldSet(+, 0, LAMBDA x : f[x], LAMBDA s : CHOOSE x \in s : TRUE, S)
=============================================================================
