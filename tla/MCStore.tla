------------------------------- MODULE MCStore -------------------------------
(***************************************************************************)
(* One account at risk and empty blocks; the monitor sweeps while the      *)
(* indexer works.                                                          *)
(***************************************************************************)
EXTENDS MonitoredStore, TLC

CONSTANTS t1, t2, e1, e2, d1, d2

MCWatched == [d \in Deployment |-> IF d = d1 THEN Tx ELSE {t2} \cap Tx]
=============================================================================
