------------------------------ MODULE MCIndexer ------------------------------
(***************************************************************************)
(* Two transactions of one deployment, one of another, and two kinds of    *)
(* blocks without a transaction.                                           *)
(***************************************************************************)
EXTENDS IndexerProperties, TLC

CONSTANTS t1, t2, e1, e2, d1, d2

MCWatched == [d \in Deployment |-> IF d = d1 THEN Tx ELSE {t2}]
=============================================================================
