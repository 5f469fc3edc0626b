-------------------------- MODULE IndexerProperties --------------------------
EXTENDS Indexer

Histories == UNION {[1..n -> Content] : n \in 0..MaxHeight}
Rows == [tx : Tx, block : 1..MaxHeight]

(* The tables hold histories and events of a bounded chain, and the process is *)
(* at one of its steps.                                                        *)
TypeOK ==
    /\ chain \in Histories /\ cursor \in Histories
    /\ reorgs \in 0..MaxReorgs /\ failures \in 0..MaxFailures /\ lost \in 0..MaxLost
    /\ restarts \in 0..MaxRestarts
    /\ deployment \in Deployment /\ deploymentKey \in SUBSET Deployment
    /\ events \subseteq Rows
    /\ \A h \in blocks : h \in Histories
    /\ pc \in {"init", "tick", "verify", "head", "logs", "headers", "recheck", "commit",
               "probe", "rollback"}
    /\ tick.cursor \in Histories /\ tick.source \in Histories /\ tick.to \in 0..MaxHeight

(* Every stored block lies on the history the cursor names, the cursor block   *)
(* itself is stored, and so is the block of every event: the walk of           *)
(* handleReorg finds the fork among stored blocks, and one DELETE undoes it.   *)
StoredBlocksOfCursor ==
    /\ \A h \in blocks : IsAncestor(h, cursor)
    /\ cursor # Unknown => cursor \in blocks
    /\ \A e \in events : \E h \in blocks : Number(h) = e.block

(* The class comment's "exactly-once", "reorg-safe" and "consistent batches":  *)
(* the store always shows exactly the events of the history its cursor names,  *)
(* whatever crashes, reorganisations and redeployments happen.                 *)
Mirror == INSTANCE EventMirror WITH
    Content <- Content, Deployment <- Deployment, EventsIn <- EventsOf,
    followed <- cursor, owner <- deploymentKey, shown <- events
MirrorsOneHistory == Mirror!Spec

(* A rollback deletes an event only when its block is no longer on the chain   *)
(* ("the highest [stored block] the chain still agrees with", handleReorg), or *)
(* the deployment changed.  Three things may make it delete more, and          *)
(* CatchesUp covers them: a failed request reads as a missing block, a second  *)
(* reorganisation may bring the old blocks back before the rollback commits,   *)
(* and a walk that passes its whole window without reaching the oldest stored  *)
(* block re-indexes from scratch.                                              *)
OnlyReplacedDeleted ==
    [][\A e \in events \ events' :
         \/ pc = "init" \/ SubSeq(cursor, 1, e.block) # Hash(e.block)
         \/ lost > 0 \/ reorgs > 1
         \/ tick.left = {} /\ Cardinality(blocks) > reorgWindow]_vars

(* GET /health at a moment when both the chain and the database answer, and    *)
(* what the header of every page makes of it.  No row in indexer_cursor is the *)
(* lag {}, for null.                                                           *)
chainHead == Len(chain)
systemHealth ==
    [chainHead |-> chainHead,
     indexerLagBlocks |-> IF deploymentKey = {} THEN {} ELSE {chainHead - Number(cursor)}]

SystemStatus ==
    LET lag == systemHealth.indexerLagBlocks
    IN [text |-> IF lag = {} THEN "starting" ELSE IF lag = {0} THEN "in sync" ELSE "behind",
        tone |-> IF lag # {} /\ lag \subseteq 0..2 THEN "good" ELSE "warning"]

(* Once the chain and the machine are quiet, the store ends up with every      *)
(* event of every confirmed block of the chain, and nothing else.  When a      *)
(* block was confirmed, /health and the pages then show the confirmation depth *)
(* as a lag: good when it is at most 2, in sync only when it is 0.             *)
Confirmed == SubSeq(chain, 1, IF Len(chain) > confirmations THEN Len(chain) - confirmations ELSE 0)
CatchesUp ==
    <>[](/\ cursor = Confirmed
         /\ events = EventsOf(Confirmed, deployment)
         /\ Confirmed # Unknown =>
              SystemStatus = [text |-> IF confirmations = 0 THEN "in sync" ELSE "behind",
                              tone |-> IF confirmations <= 2 THEN "good" ELSE "warning"])
=============================================================================
