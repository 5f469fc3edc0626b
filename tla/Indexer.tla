-------------------------------- MODULE Indexer --------------------------------
(***************************************************************************)
(* The event indexer: one process that copies the protocol's events from a *)
(* chain it does not control into Postgres, batch by batch.  The chain may *)
(* grow or be reorganised between any two reads, the RPC may fail, the     *)
(* process may stop anywhere, and it may be restarted for another          *)
(* deployment.                                                             *)
(*                                                                         *)
(* Block hashes chain, so a hash stands for everything up to its block: a  *)
(* hash is modelled as that history, the sequence of the blocks' contents. *)
(* A block holds at most one transaction; blocks without one that differ   *)
(* are members of Empty.                                                   *)
(***************************************************************************)
EXTENDS Naturals, Sequences, FiniteSets

CONSTANTS
    Tx, Empty,          \* what a block may contain
    Deployment,         \* the deployments the indexer can be started for
    Watched,            \* [Deployment -> SUBSET Tx]: the transactions whose logs it decodes
    confirmations, batchSize, reorgWindow,   \* IndexerOptions
    MidBatch,           \* what a reorganisation may replace while headers are read
    MaxHeight, MaxReorgs, MaxFailures, MaxLost, MaxRestarts    \* bounds

ASSUME IndexerAssumption ==
    /\ Tx \cap Empty = {}
    /\ Watched \in [Deployment -> SUBSET Tx]
    /\ {confirmations, MaxHeight, MaxReorgs, MaxFailures, MaxLost, MaxRestarts} \subseteq Nat
    /\ {batchSize, reorgWindow} \subseteq Nat \ {0}
    /\ MidBatch \subseteq {"cursor", "batch"}

VARIABLES
    chain,              \* the canonical chain: the contents of blocks 1, 2, ...
    reorgs, failures, lost, restarts,    \* how often each happened
    deployment,         \* the deployment this process was started for
    deploymentKey,      \* indexer_cursor.deployment_key ({} when there is no row)
    cursor,             \* indexer_cursor.block_hash; its length is block_number
    blocks,             \* table blocks
    events,             \* table events: [tx, block]
    snapshots,          \* rows the monitor writes, each with the number of a block
    pc, tick            \* where the process is, and the local variables of its tick

env == <<chain, reorgs, failures, lost, restarts, deployment>>
store == <<deploymentKey, cursor, blocks, events, snapshots>>
vars == <<env, store, pc, tick>>

Content == Tx \cup Empty
Unknown == <<>>         \* null, or the "" of a cursor that has indexed nothing
Number(h) == Len(h)
IsAncestor(g, h) == Len(g) <= Len(h) /\ g = SubSeq(h, 1, Len(g))
Hash(n) == IF n \in 1..Len(chain) THEN SubSeq(chain, 1, n) ELSE Unknown

(* The logs of blocks lo..hi of history h that the decoder of deployment d keeps. *)
Logs(h, lo, hi, d) ==
    {[tx |-> h[n], block |-> n] : n \in {m \in lo..hi : m <= Len(h) /\ h[m] \in Watched[d]}}
EventsOf(h, d) == Logs(h, 1, Len(h), d)

(* What a tick holds: the cursor it read, the batch end, the history the logs *)
(* were read from, the headers read, and the stored blocks left to probe.     *)
Idle == [cursor |-> Unknown, to |-> 0, source |-> Unknown, headers |-> {}, left |-> {}]

Init ==
    /\ chain = <<>> /\ reorgs = 0 /\ failures = 0 /\ lost = 0 /\ restarts = 0
    /\ deployment \in Deployment
    /\ deploymentKey = {} /\ cursor = Unknown /\ blocks = {} /\ events = {} /\ snapshots = {}
    /\ pc = "init" /\ tick = Idle

----
(* The chain and the machine. *)

Distinct(h) == \A m, n \in 1..Len(h) : h[m] = h[n] /\ h[m] \in Tx => m = n

(* MidBatch bounds what may change, from block k on, once the logs of a batch   *)
(* are read: blocks of the batch before its last header is read, and the        *)
(* cursor block before it is checked again.  A cursor block that was replaced   *)
(* during a batch does not come back before the batch ends.                     *)
MayChange(k) ==
    /\ pc = "headers" /\ k > Number(tick.cursor) /\ k <= tick.to => "batch" \in MidBatch
    /\ pc \in {"headers", "recheck"} /\ k <= Number(tick.cursor) =>
         "cursor" \in MidBatch /\ Hash(Number(tick.cursor)) = tick.cursor

NewBlock ==
    /\ Len(chain) < MaxHeight /\ MayChange(Len(chain) + 1)
    /\ \E c \in Content : chain' = Append(chain, c) /\ Distinct(chain')
    /\ UNCHANGED <<reorgs, failures, lost, restarts, deployment, store, pc, tick>>

(* Blocks k and above are replaced by others; a chain reset can leave fewer. *)
Reorg ==
    /\ reorgs < MaxReorgs
    /\ \E k \in 1..Len(chain) : \E len \in k..MaxHeight : \E tail \in [k..len -> Content] :
         /\ tail[k] # chain[k]
         /\ chain' = [n \in 1..len |-> IF n < k THEN chain[n] ELSE tail[n]]
         /\ Distinct(chain') /\ MayChange(k)
    /\ reorgs' = reorgs + 1
    /\ UNCHANGED <<failures, lost, restarts, deployment, store, pc, tick>>

(* getBlock: null when the block does not exist, and when the request fails. *)
GetBlock(n, h) ==
    \/ h = Hash(n) /\ UNCHANGED lost
    \/ h = Unknown /\ lost < MaxLost /\ lost' = lost + 1

(* A request or a statement throws, or the process stops and starts again: the *)
(* tick is lost, and a transaction that was open leaves nothing.               *)
Abandon ==
    /\ pc \notin {"init", "tick"}
    /\ failures < MaxFailures /\ failures' = failures + 1
    /\ pc' \in {"tick", "init"} /\ tick' = Idle
    /\ UNCHANGED <<chain, reorgs, lost, restarts, deployment, store>>

(* The process is stopped and started for another deployment. *)
Redeploy ==
    /\ restarts < MaxRestarts /\ restarts' = restarts + 1
    /\ deployment' \in Deployment \ {deployment}
    /\ pc' = "init" /\ tick' = Idle
    /\ UNCHANGED <<chain, reorgs, failures, lost, store>>

----
(* The process. *)

Wipe == deploymentKey # {} /\ deploymentKey # {deployment}

init ==
    /\ pc = "init"
    /\ IF Wipe THEN /\ blocks' = {} /\ events' = {} /\ snapshots' = {}
                    /\ deploymentKey' = {} /\ cursor' = Unknown
               ELSE UNCHANGED store
    /\ pc' = "tick"
    /\ UNCHANGED <<env, tick>>

Goto(label) == pc' = label /\ UNCHANGED <<chain, reorgs, failures, restarts, deployment, store>>
NextTick == Goto("tick") /\ tick' = Idle

readCursor ==
    /\ pc = "tick"
    /\ Goto(IF cursor = Unknown THEN "head" ELSE "verify")
    /\ tick' = [Idle EXCEPT !.cursor = cursor]
    /\ UNCHANGED lost

(* handleReorg starts from the newest reorgWindow stored blocks, newest first. *)
Window ==
    LET kept == {h \in blocks : Number(h) <= Number(tick.cursor)}
    IN {h \in kept : Cardinality({g \in kept : Number(g) > Number(h)}) < reorgWindow}

verifyCursor ==
    /\ pc = "verify"
    /\ \E h \in {Unknown, Hash(Number(tick.cursor))} :
         /\ GetBlock(Number(tick.cursor), h)
         /\ IF h = tick.cursor
            THEN Goto("head") /\ UNCHANGED tick
            ELSE Goto("probe") /\ tick' = [tick EXCEPT !.left = Window]

From == Number(tick.cursor) + 1
Lesser(m, n) == IF m < n THEN m ELSE n
BatchEndPastHead == From + batchSize - 1
BatchEnd == Lesser(From + batchSize - 1, Len(chain) - confirmations)

readHead ==
    /\ pc = "head"
    /\ IF Len(chain) < From + confirmations
       THEN NextTick
       ELSE /\ Goto("logs")
            /\ tick' = [tick EXCEPT !.to = BatchEnd]
    /\ UNCHANGED lost

getLogs ==
    /\ pc = "logs"
    /\ Goto("headers")
    /\ tick' = [tick EXCEPT !.source = SubSeq(chain, 1, Lesser(tick.to, Len(chain)))]
    /\ UNCHANGED lost

BatchEvents == Logs(tick.source, From, tick.to, deployment)
Numbers == {e.block : e \in BatchEvents} \cup {tick.to}
Consistent(headers) ==
    \A e \in BatchEvents : SubSeq(tick.source, 1, e.block) \in headers

(* One header per step; after the last one the blocks of the logs are compared. *)
readHeader ==
    /\ pc = "headers"
    /\ LET unread == {n \in Numbers : \A h \in tick.headers : Number(h) # n}
           next == CHOOSE n \in unread : \A m \in unread : n <= m
       IN \E h \in {Unknown, Hash(next)} :
            /\ GetBlock(next, h)
            /\ \/ h = Unknown /\ NextTick
               \/ /\ h # Unknown /\ unread # {next}
                  /\ Goto("headers") /\ tick' = [tick EXCEPT !.headers = @ \cup {h}]
               \/ /\ h # Unknown /\ unread = {next} /\ ~Consistent(tick.headers \cup {h})
                  /\ NextTick
               \/ /\ h # Unknown /\ unread = {next} /\ Consistent(tick.headers \cup {h})
                  /\ Goto(IF tick.cursor = Unknown THEN "commit" ELSE "recheck")
                  /\ tick' = [tick EXCEPT !.headers = @ \cup {h}]

recheckNothing ==
    /\ pc = "recheck" /\ Goto("commit") /\ UNCHANGED <<lost, tick>>

recheckCursor ==
    /\ pc = "recheck"
    /\ \E h \in {Unknown, Hash(Number(tick.cursor))} :
         /\ GetBlock(Number(tick.cursor), h)
         /\ IF h = tick.cursor THEN Goto("commit") /\ UNCHANGED tick ELSE NextTick

persistBlocks(headers) == blocks' = blocks \cup headers
(* ON CONFLICT (tx_hash, log_index) DO NOTHING. *)
insert(table, rows) == table \cup {r \in rows : \A old \in table : old.tx # r.tx}
persistEvents(new) == events' = insert(events, new)
writeCursor(h) == cursor' = h /\ deploymentKey' = {deployment}

commit ==
    /\ pc = "commit"
    /\ IF \E h \in tick.headers, b \in blocks : Number(h) = Number(b) /\ h # b
       THEN UNCHANGED store      \* persistBlocks throws
       ELSE /\ persistBlocks(tick.headers)
            /\ persistEvents(BatchEvents)
            /\ writeCursor(CHOOSE h \in tick.headers : Number(h) = tick.to)
            /\ UNCHANGED snapshots
    /\ pc' = "tick" /\ tick' = Idle
    /\ UNCHANGED env

dropNothing(n) == UNCHANGED snapshots
dropSnapshotsAbove(n) == snapshots' = {row \in snapshots : row.block <= n}

rollbackKeepingBlocks(ancestor) ==
    /\ events' = {e \in events : e.block <= Number(ancestor)}
    /\ dropSnapshotsAbove(Number(ancestor))
    /\ writeCursor(ancestor)
    /\ UNCHANGED blocks

rollbackKeepingCursor(ancestor) ==
    /\ blocks' = {h \in blocks : Number(h) <= Number(ancestor)}
    /\ events' = {e \in events : e.block <= Number(ancestor)}
    /\ dropSnapshotsAbove(Number(ancestor))
    /\ UNCHANGED <<cursor, deploymentKey>>

rollbackPastAncestor(ancestor) ==
    /\ blocks' = {h \in blocks : Number(h) < Number(ancestor)}
    /\ events' = {e \in events : e.block < Number(ancestor)}
    /\ dropSnapshotsAbove(Number(ancestor))
    /\ writeCursor(ancestor)

(* DELETE FROM blocks cascades to the events of those blocks. *)
rollback(ancestor) ==
    /\ blocks' = {h \in blocks : Number(h) <= Number(ancestor)}
    /\ events' = {e \in events : e.block <= Number(ancestor)}
    /\ dropSnapshotsAbove(Number(ancestor))
    /\ writeCursor(ancestor)

Newest(rows) == CHOOSE h \in rows : \A g \in rows : Number(g) <= Number(h)

(* handleReorg asks the chain for one stored block per step, newest first. *)
probe ==
    /\ pc = "probe" /\ tick.left # {}
    /\ LET row == Newest(tick.left)
       IN \E h \in {Unknown, Hash(Number(row))} :
            /\ GetBlock(Number(row), h)
            /\ IF h = row
               THEN Goto("rollback") /\ tick' = [tick EXCEPT !.left = {row}]
               ELSE Goto("probe") /\ tick' = [tick EXCEPT !.left = @ \ {row}]

(* The transaction of handleReorg, to the agreeing block or to before the start. *)
commitRollback ==
    /\ \/ pc = "rollback" /\ rollback(CHOOSE h \in tick.left : TRUE)
       \/ pc = "probe" /\ tick.left = {} /\ rollback(Unknown)
    /\ pc' = "tick" /\ tick' = Idle
    /\ UNCHANGED env

Step == \/ init \/ readCursor \/ verifyCursor \/ readHead \/ getLogs \/ readHeader
        \/ recheckCursor \/ commit \/ probe \/ commitRollback
Environment == NewBlock \/ Reorg \/ Abandon \/ Redeploy
Next == Step \/ Environment

(* The loop of run() calls tick() for ever; blocks keep coming up to the bound. *)
Fairness == WF_vars(Step) /\ WF_vars(NewBlock)
Spec == Init /\ [][Next]_vars
FairSpec == Spec /\ Fairness
=============================================================================
