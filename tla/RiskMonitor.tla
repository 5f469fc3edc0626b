----------------------------- MODULE RiskMonitor -----------------------------
(***************************************************************************)
(* The monitor process: a loop that runs the price keeper when it is due   *)
(* and then a sweep (backend/src/monitor.ts, monitor/monitor.ts), over a   *)
(* world that changes while it reads.  Every request and every transaction *)
(* is a step; any of them may throw, and the process may stop and start.   *)
(* The indexer, a second writer of its tables, rolls blocks back at any    *)
(* time and takes the snapshots above them along, but no alert.            *)
(* Intervals are flags that time sets: a deadline passes sooner or later.  *)
(***************************************************************************)
EXTENDS RiskRules, Sequences, FiniteSetsExt

CONSTANTS
    markets,            \* of the deployment, in its order
    Account,            \* those that ever interact
    Utilizations,       \* the utilizations a market takes
    heartbeat,          \* of every feed, in steps of time
    Healths,            \* what PoolLens can report of an account
    Blocks,             \* the numbers a head takes; a reorganised chain may be shorter
    MaxChanges, MaxFailures,   \* bounds
    Restarts            \* whether the process may be one of the failures

Reserve == {markets[i] : i \in DOMAIN markets}

ASSUME MonitorAssumption ==
    /\ markets \in Seq(Reserve) /\ IsFiniteSet(Account)
    /\ Utilizations \subseteq 0..RAY /\ 0 \in Utilizations
    /\ Blocks \subseteq Nat \ {0}
    /\ {heartbeat, MaxChanges, MaxFailures} \subseteq Nat /\ Restarts \in BOOLEAN

VARIABLES
    utilization, age, health,   \* the chain: of a market, of its feed, of an account
    down,               \* the markets whose feed reverts on every read
    known,              \* the view accounts: those the indexer has seen
    changes, failures,  \* how often each happened
    keeperDue, takeDue, \* an interval has passed since lastKeeper, since lastMarketSnapshot
    previousUtilization,
    marketSnapshots,    \* blocks of the rows of each market inserted since the interval began
    alerts,             \* the findings of the open alerts
    snapshots,          \* risk_snapshots: rows [account, level, block]
    judged, pruned,     \* history: accounts whose newest row is the last sweep's; a rollback
                        \* deleted some of marketSnapshots
    pc, sweep           \* where the process is, and the local variables of the sweep

world == <<utilization, age, health, down, known, changes>>
memory == <<keeperDue, takeDue, previousUtilization>>
tables == <<marketSnapshots, alerts, snapshots, judged, pruned>>
vars == <<world, failures, memory, tables, pc, sweep>>

NoSweep == [block |-> 0, take |-> FALSE, markets |-> <<>>, feeds |-> <<>>, left |-> {},
            findings |-> {}, levels |-> <<>>]

Init ==
    /\ utilization = [r \in Reserve |-> 0] /\ age = [r \in Reserve |-> 0]
    /\ health \in [Account -> Healths] /\ known = {} /\ down = {}
    /\ changes = 0 /\ failures = 0
    /\ keeperDue = TRUE /\ takeDue = TRUE
    /\ previousUtilization = [r \in Reserve |-> {}]
    /\ marketSnapshots = [r \in Reserve |-> {}] /\ alerts = {}
    /\ snapshots = {} /\ judged = {} /\ pruned = FALSE
    /\ pc = "sleep" /\ sweep = NoSweep

----
(* The chain, the indexer and time. *)

Change ==
    /\ changes < MaxChanges /\ changes' = changes + 1
    /\ \/ \E r \in Reserve : \E u \in Utilizations \ {utilization[r]} :
            utilization' = [utilization EXCEPT ![r] = u] /\ UNCHANGED <<health, down, known>>
       \/ \E a \in Account : \E h \in Healths \ {health[a]} :
            health' = [health EXCEPT ![a] = h] /\ UNCHANGED <<utilization, down, known>>
       \/ \E a \in Account \ known : known' = known \cup {a} /\ UNCHANGED <<utilization, health, down>>
       \/ \E r \in Reserve : down' = SymDiff(down, {r}) /\ UNCHANGED <<utilization, health, known>>
    /\ UNCHANGED <<age, failures, memory, tables, pc, sweep>>

(* dropSnapshotsAbove, in the transaction of a rollback; the view accounts loses *)
(* those whose events are gone.                                                 *)
Rollback(n) ==
    /\ changes < MaxChanges /\ changes' = changes + 1
    /\ snapshots' = {row \in snapshots : row.block <= n}
    /\ judged' = {a \in judged : \A row \in snapshots : row.account = a => row.block <= n}
    /\ marketSnapshots' = [r \in Reserve |-> {b \in marketSnapshots[r] : b <= n}]
    /\ pruned' = (pruned \/ marketSnapshots' # marketSnapshots)
    /\ known' \in SUBSET known
    /\ UNCHANGED <<utilization, age, health, down, failures, memory, alerts, pc, sweep>>

TimePasses ==
    /\ \E r \in Reserve : age[r] <= heartbeat
    /\ age' = [r \in Reserve |-> IF age[r] <= heartbeat THEN age[r] + 1 ELSE age[r]]
    /\ UNCHANGED <<utilization, health, down, known, changes, failures, memory, tables, pc, sweep>>

KeeperInterval ==
    /\ ~keeperDue /\ keeperDue' = TRUE
    /\ UNCHANGED <<world, failures, takeDue, previousUtilization, tables, pc, sweep>>

SnapshotInterval ==
    /\ ~takeDue /\ takeDue' = TRUE
    /\ marketSnapshots' = [r \in Reserve |-> {}] /\ pruned' = FALSE
    /\ UNCHANGED <<world, failures, keeperDue, previousUtilization, alerts, snapshots, judged, pc, sweep>>

(* A step throws: the loop logs it and sleeps.  An open transaction is undone. *)
Throw ==
    /\ pc # "sleep" /\ failures < MaxFailures /\ failures' = failures + 1
    /\ pc' = "sleep" /\ sweep' = NoSweep
    /\ UNCHANGED <<world, memory, tables>>

Restart ==
    /\ Restarts /\ failures < MaxFailures /\ failures' = failures + 1
    /\ pc' = "sleep" /\ sweep' = NoSweep
    /\ keeperDue' = TRUE /\ takeDue' = TRUE
    /\ previousUtilization' = [r \in Reserve |-> {}]
    /\ UNCHANGED <<world, tables>>

----
(* The process. *)

Goto(label) == pc' = label /\ UNCHANGED <<world, failures>>

Wake ==
    /\ pc = "sleep"
    /\ IF keeperDue THEN Goto("keeper") /\ sweep' = [NoSweep EXCEPT !.feeds = markets]
                    ELSE Goto("markets") /\ UNCHANGED sweep
    /\ UNCHANGED <<memory, tables>>

DueOnTheDot(r) == age[r] = heartbeat
Due(r) == 2 * age[r] >= heartbeat

(* MockPriceKeeper.tick: a feed whose age is half its heartbeat is posted again; *)
(* one that reverts throws out of the loop.  lastKeeper is set after the last.   *)
keeperTick ==
    /\ pc = "keeper"
    /\ \/ /\ sweep.feeds # <<>> /\ Head(sweep.feeds) \notin down
          /\ age' = IF Due(Head(sweep.feeds)) THEN [age EXCEPT ![Head(sweep.feeds)] = 0] ELSE age
          /\ sweep' = [sweep EXCEPT !.feeds = Tail(@)]
          /\ UNCHANGED <<keeperDue, pc>>
       \/ /\ sweep.feeds # <<>> /\ Head(sweep.feeds) \in down
          /\ pc' = "sleep" /\ sweep' = NoSweep
          /\ UNCHANGED <<age, keeperDue>>
       \/ /\ sweep.feeds = <<>>
          /\ keeperDue' = FALSE /\ pc' = "markets"
          /\ UNCHANGED <<age, sweep>>
    /\ UNCHANGED <<utilization, health, down, known, changes, failures, takeDue, previousUtilization, tables>>

(* One feed per market: its price is rejected while it reverts and once it is  *)
(* older than the heartbeat.                                                   *)
Observe(r) ==
    [utilization |-> utilization[r], totalSupplied |-> RAY, cash |-> RAY - utilization[r],
     priceStatus |-> IF age[r] <= heartbeat /\ r \notin down THEN "OK" ELSE "UNAVAILABLE",
     heartbeat |-> heartbeat, age |-> IF r \in down THEN {} ELSE {age[r]}, deficit |-> 0]
Markets == [r \in Reserve |-> Observe(r)]

readMarkets ==
    /\ pc = "markets"
    /\ Goto("inputs")
    /\ \E head \in Blocks :
         sweep' = [NoSweep EXCEPT !.block = head, !.take = takeDue, !.markets = Markets]
    /\ UNCHANGED <<memory, tables>>

(* The reader answers what it answered before, while that is not too old, or   *)
(* reads anew.                                                                 *)
cached(answer, load) == {answer, load}

(* marketRiskInputs reads the markets again. *)
marketRiskInputs ==
    /\ pc = "inputs"
    /\ \E seen \in cached(sweep.markets, Markets) :
         sweep' = [sweep EXCEPT
             !.findings = UNION {evaluateMarket(seen[r], previousUtilization[r], r) : r \in Reserve},
             !.left = IF sweep.take THEN Reserve ELSE {}]
    /\ Goto(IF sweep.take THEN "snapshot" ELSE "accounts")
    /\ UNCHANGED <<memory, tables>>

(* One INSERT per market, outside a transaction. *)
insertMarketSnapshot ==
    /\ pc = "snapshot" /\ sweep.left # {}
    /\ \E r \in sweep.left :
         /\ marketSnapshots' = [marketSnapshots EXCEPT ![r] = @ \cup {sweep.block}]
         /\ sweep' = [sweep EXCEPT !.left = @ \ {r}]
    /\ Goto("snapshot")
    /\ UNCHANGED <<memory, alerts, snapshots, judged, pruned>>

rememberFirst ==
    /\ pc = "snapshot"
    /\ takeDue' = FALSE
    /\ previousUtilization' = [r \in Reserve |-> {sweep.markets[r].utilization}]
    /\ Goto("accounts")
    /\ UNCHANGED <<keeperDue, tables, sweep>>

rememberSnapshot ==
    /\ pc = "snapshot" /\ sweep.left = {}
    /\ takeDue' = FALSE
    /\ previousUtilization' = [r \in Reserve |-> {sweep.markets[r].utilization}]
    /\ Goto("accounts")
    /\ UNCHANGED <<keeperDue, tables, sweep>>

selectAccounts ==
    /\ pc = "accounts"
    /\ Goto("health")
    /\ sweep' = [sweep EXCEPT !.left = known]
    /\ UNCHANGED <<memory, tables>>

protocolBorrowsUsd == MapThenSumSet(LAMBDA r : sweep.markets[r].utilization, Reserve)

(* getAccountsHealth, a chunk of accounts at a time: one here. *)
accountsHealth ==
    /\ pc = "health" /\ sweep.left # {}
    /\ \E a \in sweep.left :
         LET r == evaluateAccount(health[a], protocolBorrowsUsd, a)
         IN sweep' = [sweep EXCEPT !.left = @ \ {a}, !.findings = @ \cup r.findings,
                        !.levels = [x \in DOMAIN @ \cup {a} |-> IF x = a THEN r.level ELSE @[x]]]
    /\ Goto("health")
    /\ UNCHANGED <<memory, tables>>

(* INSERT INTO risk_snapshots.  Older rows of the account with this number or a  *)
(* greater one are left out: a rollback that deletes the new row deletes them.  *)
Insert(levels, block) ==
    /\ snapshots' = {row \in snapshots : row.account \in DOMAIN levels => row.block < block}
                    \cup {[account |-> a, level |-> levels[a], block |-> block] : a \in DOMAIN levels}
    /\ judged' = DOMAIN levels

Finish ==
    /\ pc' = "sleep" /\ sweep' = NoSweep
    /\ UNCHANGED <<world, failures, memory, marketSnapshots, pruned>>

commitOpeningNone ==
    /\ pc = "health" /\ sweep.left = {}
    /\ Insert(sweep.levels, sweep.block) /\ alerts' = alerts \cap sweep.findings
    /\ Finish

commitResolvingNone ==
    /\ pc = "health" /\ sweep.left = {}
    /\ Insert(sweep.levels, sweep.block) /\ alerts' = alerts \cup sweep.findings
    /\ Finish

(* One transaction: snapshots, alerts opened or refreshed, the others resolved. *)
commitSweep ==
    /\ pc = "health" /\ sweep.left = {}
    /\ Insert(sweep.levels, sweep.block) /\ alerts' = sweep.findings
    /\ Finish

Step == \/ Wake \/ keeperTick \/ readMarkets \/ marketRiskInputs \/ insertMarketSnapshot
        \/ rememberSnapshot \/ selectAccounts \/ accountsHealth \/ commitSweep
Time == TimePasses \/ KeeperInterval \/ SnapshotInterval
Next == Step \/ Time \/ Change \/ (\E b \in Blocks : Rollback(b - 1)) \/ Throw \/ Restart

(* The loop never ends, and intervals pass. *)
Fairness ==
    /\ WF_vars(Step) /\ WF_vars(KeeperInterval) /\ WF_vars(SnapshotInterval)
Spec == Init /\ [][Next]_vars
FairSpec == Spec /\ Fairness

----
(* GET /risk: what the API serves from the tables, and the markets live. *)

(* The view account_risk_latest: the newest row of every account, which is the    *)
(* one with the greatest number, since Insert leaves older ones out.              *)
latest == {row \in snapshots : \A other \in snapshots :
             other.account = row.account => other.block <= row.block}

riskAccounts(level) == {row.account : row \in {newest \in latest : newest.level = level}}
riskAlerts == alerts
riskSummary ==
    [levels |-> [l \in Levels |-> Cardinality(riskAccounts(l))],
     openAlerts |-> [s \in {"warning", "critical"} |-> Cardinality({f \in alerts : f.severity = s})]]
riskMarkets == UNION {evaluateMarket(Observe(r), {}, r) : r \in Reserve}

AlertKind == [LIQUIDATABLE |-> "LIQUIDATABLE", DANGER |-> "NEAR_LIQUIDATION",
              UNKNOWN |-> "UNPRICEABLE_ACCOUNT"]

(* The partial unique index on (kind, subject): no two open alerts of a kind   *)
(* for one subject.  And the pages of /risk agree with each other, whatever    *)
(* sweeps were abandoned, on the accounts of the last sweep that committed: a  *)
(* level listed is one with an open alert of its kind.  The others are         *)
(* accounts that sweep did not find in the index, whose rows stay, and those   *)
(* of which a rollback deleted the newest row since, whose alerts stay; while  *)
(* none of them is listed, the counts of the summary agree too.                *)
AlertsMatchLevels ==
    /\ \A f, g \in riskAlerts : f.kind = g.kind /\ f.subject = g.subject => f = g
    /\ \A level \in DOMAIN AlertKind :
         LET raised == {f.subject : f \in {g \in riskAlerts : g.kind = AlertKind[level]}}
         IN raised \cap judged = riskAccounts(level) \cap judged
    /\ {row.account : row \in latest} \subseteq judged =>
         riskSummary.openAlerts["critical"] >= riskSummary.levels["LIQUIDATABLE"]

(* No market is missing from an interval's snapshot, whatever fails halfway,   *)
(* unless a rollback deleted rows of it.                                       *)
SnapshotComplete == ~takeDue /\ ~pruned => \A r \in Reserve : marketSnapshots[r] # {}

(* Whatever failed or was rolled back before, once the accounts and markets    *)
(* stop changing and no feed reverts for good, the open alerts about the       *)
(* accounts and the levels listed of those in the index are exactly those      *)
(* their health calls for, and the alerts about the use of the markets are     *)
(* exactly the findings of the live page ("same rules as the monitor"); alerts *)
(* about feeds come and go with the feeds.                                     *)
AccountLevel(a) == classifyHealthFactor(health[a].healthFactor, health[a].priced)
AccountFindings ==
    UNION {LevelFinding(AccountLevel(a), a) : a \in known}
LevelKinds == {AlertKind[level] : level \in DOMAIN AlertKind}
UseKinds == {"HIGH_UTILIZATION", "ABNORMAL_UTILIZATION", "LOW_LIQUIDITY"}
OfKinds(findings, kinds) == {f \in findings : f.kind \in kinds}
AlertsSettle ==
    <>[](down = {}) =>
        <>[](/\ OfKinds(alerts, LevelKinds) = AccountFindings
             /\ \A a \in known : a \in riskAccounts(AccountLevel(a))
             /\ OfKinds(alerts, UseKinds) = OfKinds(riskMarkets, UseKinds))

(* A feed that went stale is posted again, even when sweeps fail, unless some  *)
(* feed reverts.                                                               *)
StaleFeedsRevive ==
    \A r \in Reserve : (age[r] > heartbeat) ~> (age[r] <= heartbeat \/ down # {})
=============================================================================
