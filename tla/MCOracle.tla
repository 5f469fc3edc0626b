------------------------------ MODULE MCOracle ------------------------------
(***************************************************************************)
(* A price of 20 that the lab moves to 14, 21 or 22 and a secondary that   *)
(* has one digit more than the primary.                                    *)
(***************************************************************************)
EXTENDS OracleFeeds

MCConfigs ==
    {[secondary |-> TRUE, maxDeviationBps |-> 2, minPrice |-> 150, maxPrice |-> 900],
     [secondary |-> FALSE, maxDeviationBps |-> 0, minPrice |-> 10, maxPrice |-> 900]}
=============================================================================
