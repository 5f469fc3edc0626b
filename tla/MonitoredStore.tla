---------------------------- MODULE MonitoredStore ----------------------------
(***************************************************************************)
(* The indexer and the risk monitor on one database.  A sweep of the       *)
(* monitor takes the head from the node, the accounts from the indexer's   *)
(* events, and their health from the node again; it then writes snapshots  *)
(* that carry the head's number and reconciles the alerts, whatever the    *)
(* indexer did meanwhile.  An account is stood for by the transaction that *)
(* opened its position, and is at risk while that is on the chain.         *)
(***************************************************************************)
EXTENDS IndexerProperties

VARIABLES
    alerts,             \* accounts with an open alert
    sweep               \* the local variables of RiskMonitor.sweep

mvars == <<vars, alerts, sweep>>

NoSweep == [step |-> "idle", block |-> 0, accounts |-> {}, findings |-> {}]

MInit == Init /\ alerts = {} /\ sweep = NoSweep

AtRisk == {t \in Tx : \E n \in 1..Len(chain) : chain[n] = t}
accounts == {e.tx : e \in events}

SweepHead ==
    /\ sweep.step = "idle"
    /\ sweep' = [NoSweep EXCEPT !.step = "accounts", !.block = Len(chain)]
    /\ UNCHANGED <<vars, alerts>>

SweepAccounts ==
    /\ sweep.step = "accounts"
    /\ sweep' = [sweep EXCEPT !.step = "health", !.accounts = accounts]
    /\ UNCHANGED <<vars, alerts>>

SweepHealth ==
    /\ sweep.step = "health"
    /\ sweep' = [sweep EXCEPT !.step = "commit", !.findings = sweep.accounts \cap AtRisk]
    /\ UNCHANGED <<vars, alerts>>

(* The index shows the account in a block that the numbers up to n reach. *)
Indexed(a, n) == \E e \in events : e.tx = a /\ e.block <= n

(* risk_snapshots; indexed is history: what the index showed when the row came.  *)
(* Older rows of the account with this number or a greater one are left out: a   *)
(* rollback that deletes the new row deletes them.                               *)
insertSnapshots ==
    snapshots' = {row \in snapshots : row.account \in sweep.accounts => row.block < sweep.block}
                 \cup {[account |-> a, risk |-> a \in sweep.findings, block |-> sweep.block,
                        indexed |-> Indexed(a, sweep.block)] : a \in sweep.accounts}

SweepCommitKeepingAlerts ==
    /\ sweep.step = "commit"
    /\ insertSnapshots
    /\ alerts' = alerts \cup sweep.findings
    /\ sweep' = NoSweep
    /\ UNCHANGED <<env, deploymentKey, cursor, blocks, events, pc, tick>>

(* Findings are opened or refreshed; open alerts without a finding are resolved. *)
SweepCommit ==
    /\ sweep.step = "commit"
    /\ insertSnapshots
    /\ alerts' = sweep.findings
    /\ sweep' = NoSweep
    /\ UNCHANGED <<env, deploymentKey, cursor, blocks, events, pc, tick>>

Sweep == SweepHead \/ SweepAccounts \/ SweepHealth \/ SweepCommit
Index == Next /\ UNCHANGED <<alerts, sweep>>
MNext == Index \/ Sweep
MSpec == MInit /\ [][MNext]_mvars
MFairSpec ==
    /\ MSpec
    /\ WF_mvars(Step /\ UNCHANGED <<alerts, sweep>>)
    /\ WF_mvars(NewBlock /\ UNCHANGED <<alerts, sweep>>)
    /\ WF_mvars(Sweep)

----
(* Snapshots carry a number and no foreign key (dropSnapshotsAbove): still an  *)
(* account does not stay listed once the rollback of its block took it out of  *)
(* the index.  The exception is a row that came when the account was not, or   *)
(* not any more, in the index up to the number the row carries: that of a      *)
(* sweep which read its accounts before a rollback and wrote after it, or its  *)
(* head before the account's block.                                            *)
ListedAreKnown == \A row \in snapshots : row.indexed => row.account \in accounts

(* Whatever rollbacks and crashes happened, also between two steps of a sweep, *)
(* the open alerts end up being those of the accounts at risk that confirmed   *)
(* blocks show, the newest snapshot of every account in the index, which is    *)
(* the one with the greatest number, is of its present risk, and both stay so. *)
RiskSettles ==
    <>[](/\ alerts = {e.tx : e \in EventsOf(Confirmed, deployment)} \cap AtRisk
         /\ \A a \in accounts : \E row \in snapshots :
              /\ row.account = a /\ row.risk = (a \in AtRisk)
              /\ \A other \in snapshots : other.account = a => other.block <= row.block)
=============================================================================
