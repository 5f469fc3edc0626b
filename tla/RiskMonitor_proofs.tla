-------------------------- MODULE RiskMonitor_proofs --------------------------
(***************************************************************************)
(* What the tables of the risk monitor say after any interleaving of       *)
(* sweeps, throws, restarts and rollbacks of the indexer with a changing   *)
(* world, for every deployment of markets and every set of accounts.       *)
(***************************************************************************)
EXTENDS RiskMonitor, FiniteSetTheorems, TLAPS

----
(* Findings: one severity for a kind about accounts, and a market never has *)
(* two of a kind.                                                           *)

Severities == {"critical", "warning", "info"}
MarketKinds == {"HIGH_UTILIZATION", "ABNORMAL_UTILIZATION", "LOW_LIQUIDITY", "ORACLE_DEGRADED",
                "ORACLE_UNAVAILABLE", "ORACLE_STALE_SOON", "BAD_DEBT"}
AccountSeverity == [LIQUIDATABLE |-> "critical", NEAR_LIQUIDATION |-> "warning",
                    UNPRICEABLE_ACCOUNT |-> "warning", POTENTIAL_BAD_DEBT |-> "critical",
                    LARGE_BORROW |-> "info"]
MarketFindings == [kind : MarketKinds, severity : Severities, subject : Reserve]
AccountFindingsOf(S) == {f \in [kind : DOMAIN AccountSeverity, severity : Severities, subject : S] :
                            f.severity = AccountSeverity[f.kind]}
Findings == MarketFindings \cup AccountFindingsOf(Account)

Single(findings) == \A f, g \in findings : f.kind = g.kind /\ f.subject = g.subject => f = g
Raises(findings, level, a) == \E f \in findings : f.kind = AlertKind[level] /\ f.subject = a

\* The three levels that raise alerts.
LEMMA AlertKinds ==
    /\ DOMAIN AlertKind = {"LIQUIDATABLE", "DANGER", "UNKNOWN"}
    /\ AlertKind["LIQUIDATABLE"] = "LIQUIDATABLE" /\ AlertKind["DANGER"] = "NEAR_LIQUIDATION"
    /\ AlertKind["UNKNOWN"] = "UNPRICEABLE_ACCOUNT"
    /\ DOMAIN AlertKind \subseteq Levels
BY DEF AlertKind, Levels

LEMMA Severity ==
    /\ DOMAIN AccountSeverity = {"LIQUIDATABLE", "NEAR_LIQUIDATION", "UNPRICEABLE_ACCOUNT",
                                 "POTENTIAL_BAD_DEBT", "LARGE_BORROW"}
    /\ AccountSeverity["LIQUIDATABLE"] = "critical" /\ AccountSeverity["NEAR_LIQUIDATION"] = "warning"
    /\ AccountSeverity["UNPRICEABLE_ACCOUNT"] = "warning"
    /\ AccountSeverity["POTENTIAL_BAD_DEBT"] = "critical" /\ AccountSeverity["LARGE_BORROW"] = "info"
BY DEF AccountSeverity

LEMMA FindingFields ==
    ASSUME NEW kind, NEW severity, NEW subject
    PROVE  LET f == Finding(kind, severity, subject)
           IN f.kind = kind /\ f.severity = severity /\ f.subject = subject
BY DEF Finding

\* The findings about one market are of its subject and of different kinds.
LEMMA MarketEvaluated ==
    ASSUME NEW m, m.utilization \in Int, NEW previous, NEW r
    PROVE  /\ evaluateMarket(m, previous, r) \subseteq [kind : MarketKinds, severity : Severities, subject : {r}]
           /\ Single(evaluateMarket(m, previous, r))
<1> DEFINE E == evaluateMarket(m, previous, r)
<1>1. criticalUtilization \in Int
  BY RulesAssumption DEF RulesAssumption
<1>2. \A f \in E :
        \/ f = Finding("HIGH_UTILIZATION", "critical", r) /\ m.utilization >= criticalUtilization
        \/ f = Finding("HIGH_UTILIZATION", "warning", r) /\ m.utilization < criticalUtilization
        \/ f = Finding("ABNORMAL_UTILIZATION", "warning", r)
        \/ f = Finding("LOW_LIQUIDITY", "critical", r)
        \/ f = Finding("ORACLE_DEGRADED", "warning", r)
        \/ f = Finding("ORACLE_UNAVAILABLE", "critical", r)
        \/ f = Finding("ORACLE_STALE_SOON", "warning", r)
        \/ f = Finding("BAD_DEBT", "critical", r)
  BY DEF evaluateMarket, If
<1> HIDE DEF E
<1>3. ASSUME NEW f \in E PROVE f \in [kind : MarketKinds, severity : Severities, subject : {r}]
  BY <1>2 DEF Finding, MarketKinds, Severities
<1>4. Single(E)
  <2> DEFINE severity(kind) ==
        IF kind = "HIGH_UTILIZATION" THEN IF m.utilization >= criticalUtilization THEN "critical" ELSE "warning"
        ELSE IF kind \in {"LOW_LIQUIDITY", "ORACLE_UNAVAILABLE", "BAD_DEBT"} THEN "critical" ELSE "warning"
  <2>1. ~(m.utilization >= criticalUtilization) <=> m.utilization < criticalUtilization
    BY <1>1
  <2>2. \A f \in E : f = Finding(f.kind, severity(f.kind), r)
    BY <1>2, <2>1 DEF Finding
  <2> HIDE DEF severity
  <2>3. ASSUME NEW f \in E, NEW g \in E, f.kind = g.kind PROVE f = g
    <3>1. f = Finding(f.kind, severity(f.kind), r) /\ g = Finding(f.kind, severity(f.kind), r)
      BY <2>2, <2>3
    <3> QED BY <3>1
  <2> QED BY <2>3 DEF Single
<1> QED BY <1>3, <1>4 DEF E

\* The findings about one account: one that its level raises, or none.
LEMMA AccountEvaluated ==
    ASSUME NEW h, NEW usd, NEW a
    PROVE  LET r == evaluateAccount(h, usd, a)
           IN /\ r.level \in Levels /\ r.findings \subseteq AccountFindingsOf({a})
              /\ \A level \in DOMAIN AlertKind : Raises(r.findings, level, a) <=> r.level = level
<1> DEFINE r == evaluateAccount(h, usd, a)
           lv == classifyHealthFactor(h.healthFactor, h.priced)
<1>1. r.level = lv /\ lv \in Levels
  BY DEF evaluateAccount, classifyHealthFactor, Levels
<1>2. LevelFinding(lv, a) \subseteq r.findings
  BY DEF evaluateAccount
<1>3. \A f \in r.findings : f \in LevelFinding(lv, a)
        \/ f = Finding("POTENTIAL_BAD_DEBT", "critical", a) \/ f = Finding("LARGE_BORROW", "info", a)
  BY DEF evaluateAccount, If
<1> HIDE DEF r, lv
<1>4. LevelFinding(lv, a) =
        IF lv = "LIQUIDATABLE" THEN {Finding("LIQUIDATABLE", "critical", a)}
        ELSE IF lv = "DANGER" THEN {Finding("NEAR_LIQUIDATION", "warning", a)}
        ELSE IF lv = "UNKNOWN" THEN {Finding("UNPRICEABLE_ACCOUNT", "warning", a)} ELSE {}
  BY DEF LevelFinding, If
<1>5. ASSUME NEW f \in r.findings
      PROVE  f \in AccountFindingsOf({a})
  BY <1>3, <1>4, Severity DEF Finding, AccountFindingsOf, Severities
<1>6. ASSUME NEW level \in DOMAIN AlertKind
      PROVE  Raises(r.findings, level, a) <=> lv = level
  <2>1. ASSUME lv = level PROVE Raises(r.findings, level, a)
    <3>1. \E severity : Finding(AlertKind[level], severity, a) \in LevelFinding(lv, a)
      BY <1>4, <2>1, AlertKinds
    <3>2. PICK severity : Finding(AlertKind[level], severity, a) \in r.findings
      BY <1>2, <3>1
    <3> QED BY <3>2, FindingFields DEF Raises
  <2>2. ASSUME NEW f \in r.findings, f.kind = AlertKind[level] PROVE lv = level
    BY <1>3, <1>4, <2>2, AlertKinds DEF Finding
  <2> QED BY <2>1, <2>2 DEF Raises
<1> QED BY <1>1, <1>5, <1>6 DEF r

----
(* The invariant. *)

Observation == [utilization : Nat, totalSupplied : Nat, cash : Int, priceStatus : {"OK", "UNAVAILABLE"},
                heartbeat : Nat, age : SUBSET Nat, deficit : Nat]
Levelling == UNION {[S -> Levels] : S \in SUBSET Account}
Rows == [account : Account, level : Levels, block : Nat]
Sweeps == [block : Nat, take : BOOLEAN, markets : {<<>>} \cup [Reserve -> Observation], feeds : Seq(Reserve),
           left : SUBSET (Reserve \cup Account), findings : SUBSET Findings, levels : Levelling]

WorldTyped == utilization \in [Reserve -> Nat] /\ age \in [Reserve -> Nat] /\ known \subseteq Account
TablesTyped ==
    /\ takeDue \in BOOLEAN /\ pruned \in BOOLEAN /\ marketSnapshots \in [Reserve -> SUBSET Nat]
    /\ alerts \subseteq Findings /\ snapshots \subseteq Rows /\ judged \subseteq Account
SweepTyped ==
    /\ pc \in {"sleep", "keeper", "markets", "inputs", "snapshot", "accounts", "health"}
    /\ sweep \in Sweeps

\* What a set of findings says of the levels of accounts.
Tells(findings, levels) ==
    /\ Single(findings)
    /\ \A level \in DOMAIN AlertKind, a \in Account :
         Raises(findings, level, a) <=> a \in DOMAIN levels /\ levels[a] = level

\* A sweep that takes the markets does so because that is due, and it stays due
\* until every market has had its row; while it reads the accounts, it has left
\* those it selected and not yet judged.
Swept ==
    /\ pc = "inputs" => sweep.markets \in [Reserve -> Observation] /\ (sweep.take => takeDue)
    /\ pc = "snapshot" =>
         /\ takeDue /\ sweep.left \subseteq Reserve
         /\ \A r \in Reserve \ sweep.left : pruned \/ marketSnapshots[r] # {}
    /\ pc = "health" => sweep.left \subseteq Account \ DOMAIN sweep.levels
    /\ pc # "health" => DOMAIN sweep.levels = {}
    /\ Tells(sweep.findings, sweep.levels)

\* What the alerts and the newest rows say of the accounts of the last sweep.
Tables ==
    /\ Single(alerts)
    /\ \A level \in DOMAIN AlertKind, a \in judged :
         Raises(alerts, level, a) <=> a \in riskAccounts(level)

MonitorInv == WorldTyped /\ TablesTyped /\ SweepTyped /\ Swept /\ Tables /\ SnapshotComplete

LEMMA NoSweeps ==
    /\ NoSweep \in Sweeps /\ NoSweep.findings = {} /\ NoSweep.levels = <<>> /\ DOMAIN NoSweep.levels = {}
    /\ Tells(NoSweep.findings, NoSweep.levels)
<1>1. <<>> \in Levelling /\ DOMAIN <<>> = {}
  <2>1. DOMAIN <<>> = {}
    OBVIOUS
  <2>2. <<>> \in [{} -> Levels]
    OBVIOUS
  <2>3. {} \in SUBSET Account
    OBVIOUS
  <2> QED BY <2>1, <2>2, <2>3 DEF Levelling
<1>2. <<>> \in Seq(Reserve)
  OBVIOUS
<1>3. NoSweep \in Sweeps
  BY <1>1, <1>2 DEF NoSweep, Sweeps
<1>4. NoSweep.findings = {} /\ NoSweep.levels = <<>>
  BY DEF NoSweep
<1> QED BY <1>1, <1>3, <1>4 DEF Tells, Single, Raises

LEMMA TablesStay ==
    ASSUME MonitorInv, UNCHANGED <<alerts, snapshots, judged>>
    PROVE  Tables'
BY DEF MonitorInv, Tables, Single, Raises, riskAccounts, latest

\* The parts that a step of the process leaves alone.
LEMMA SameTables ==
    ASSUME MonitorInv, UNCHANGED <<takeDue, marketSnapshots, alerts, snapshots, judged, pruned>>
    PROVE  TablesTyped' /\ Tables' /\ SnapshotComplete'
BY TablesStay DEF MonitorInv, TablesTyped, SnapshotComplete

LEMMA InitInv ==
    ASSUME Init
    PROVE  MonitorInv
<1>1. WorldTyped
  BY DEF Init, WorldTyped
<1>2. TablesTyped
  BY DEF Init, TablesTyped
<1>3. pc = "sleep" /\ sweep = NoSweep /\ alerts = {} /\ judged = {} /\ takeDue = TRUE
  BY DEF Init
<1>4. SweepTyped /\ Swept
  BY <1>3, NoSweeps DEF SweepTyped, Swept
<1>5. Tables
  BY <1>3 DEF Tables, Single
<1> QED BY <1>1, <1>2, <1>3, <1>4, <1>5 DEF MonitorInv, SnapshotComplete

LEMMA ChangeKeeps ==
    ASSUME MonitorInv, Change
    PROVE  MonitorInv'
<1>1. /\ UNCHANGED <<age, takeDue, marketSnapshots, alerts, snapshots, judged, pruned, pc, sweep>>
      /\ \/ \E r \in Reserve : \E u \in Utilizations :
              utilization' = [utilization EXCEPT ![r] = u] /\ UNCHANGED known
         \/ UNCHANGED <<utilization, known>>
         \/ \E a \in Account : known' = known \cup {a} /\ UNCHANGED utilization
  BY DEF Change, memory, tables
<1>2. Utilizations \subseteq Nat
  BY MonitorAssumption, ScaleAssumption DEF MonitorAssumption, ScaleAssumption
<1>3. WorldTyped'
  BY <1>1, <1>2 DEF MonitorInv, WorldTyped
<1>4. SweepTyped'
  BY <1>1 DEF MonitorInv, SweepTyped
<1>5. Swept'
  BY <1>1, <1>3 DEF MonitorInv, Swept, Tells, Single, Raises
<1> QED BY <1>1, <1>3, <1>4, <1>5, SameTables DEF MonitorInv

\* A rollback of the indexer: of the accounts whose newest row it deletes, no more is
\* said; of the others, the rows stay.
LEMMA RollbackKeeps ==
    ASSUME MonitorInv, NEW n, Rollback(n)
    PROVE  MonitorInv'
<1>1. /\ UNCHANGED <<utilization, age, takeDue, alerts, pc, sweep>>
      /\ known' \subseteq known
      /\ snapshots' = {row \in snapshots : row.block <= n}
      /\ judged' = {a \in judged : \A row \in snapshots : row.account = a => row.block <= n}
      /\ marketSnapshots' = [r \in Reserve |-> {b \in marketSnapshots[r] : b <= n}]
      /\ pruned' = (pruned \/ marketSnapshots' # marketSnapshots)
  BY DEF Rollback, memory
<1>2. WorldTyped' /\ SweepTyped'
  BY <1>1 DEF MonitorInv, WorldTyped, SweepTyped
<1>3. TablesTyped'
  BY <1>1 DEF MonitorInv, TablesTyped
<1>4. Tables'
  <2>1. Single(alerts')
    BY <1>1 DEF MonitorInv, Tables
  <2>2. ASSUME NEW level \in DOMAIN AlertKind, NEW a \in judged'
        PROVE  Raises(alerts, level, a)' <=> a \in riskAccounts(level)'
    <3>1. /\ a \in judged
          /\ \A row \in snapshots : row.account = a => row \in snapshots'
          /\ snapshots' \subseteq snapshots
      BY <1>1
    <3>2. \A row : row.account = a => (row \in latest <=> row \in latest')
      BY <3>1 DEF latest
    <3>3. a \in riskAccounts(level) <=> a \in riskAccounts(level)'
      BY <3>2 DEF riskAccounts
    <3>4. Raises(alerts, level, a) <=> a \in riskAccounts(level)
      BY <3>1 DEF MonitorInv, Tables
    <3> QED BY <1>1, <3>3, <3>4 DEF Raises
  <2> QED BY <2>1, <2>2 DEF Tables
<1>5. pruned' \/ (pruned' = pruned /\ marketSnapshots' = marketSnapshots)
  BY <1>1 DEF MonitorInv, TablesTyped
<1>6. Swept' /\ SnapshotComplete'
  BY <1>1, <1>5 DEF MonitorInv, Swept, SnapshotComplete, Tells, Single, Raises
<1> QED BY <1>2, <1>3, <1>4, <1>6 DEF MonitorInv

LEMMA TimePassesKeeps ==
    ASSUME MonitorInv, TimePasses
    PROVE  MonitorInv'
<1>1. /\ UNCHANGED <<utilization, known, takeDue, marketSnapshots, alerts, snapshots, judged, pruned, pc, sweep>>
      /\ age' = [r \in Reserve |-> IF age[r] <= heartbeat THEN age[r] + 1 ELSE age[r]]
  BY DEF TimePasses, memory, tables
<1>2. WorldTyped'
  BY <1>1 DEF MonitorInv, WorldTyped
<1>3. SweepTyped' /\ Swept'
  BY <1>1 DEF MonitorInv, SweepTyped, Swept, Tells, Single, Raises
<1> QED BY <1>1, <1>2, <1>3, SameTables DEF MonitorInv

LEMMA KeeperIntervalKeeps ==
    ASSUME MonitorInv, UNCHANGED <<world, takeDue, tables, pc, sweep>>
    PROVE  MonitorInv'
<1>1. UNCHANGED <<utilization, age, known, takeDue, marketSnapshots, alerts, snapshots, judged, pruned, pc, sweep>>
  BY DEF world, tables
<1>2. WorldTyped' /\ SweepTyped' /\ Swept'
  BY <1>1 DEF MonitorInv, WorldTyped, SweepTyped, Swept, Tells, Single, Raises
<1> QED BY <1>1, <1>2, SameTables DEF MonitorInv

\* When an interval begins, no sweep is between its first row and its last.
LEMMA SnapshotIntervalKeeps ==
    ASSUME MonitorInv, SnapshotInterval
    PROVE  MonitorInv'
<1>1. /\ UNCHANGED <<utilization, age, known, alerts, snapshots, judged, pc, sweep>>
      /\ ~takeDue /\ takeDue' = TRUE /\ marketSnapshots' = [r \in Reserve |-> {}] /\ pruned' = FALSE
  BY DEF SnapshotInterval, world
<1>2. pc # "snapshot"
  BY <1>1 DEF MonitorInv, Swept
<1>3. WorldTyped' /\ TablesTyped' /\ SweepTyped' /\ Tables' /\ SnapshotComplete'
  BY <1>1, TablesStay DEF MonitorInv, WorldTyped, TablesTyped, SweepTyped, SnapshotComplete
<1>4. Swept'
  BY <1>1, <1>2 DEF MonitorInv, Swept, Tells, Single, Raises
<1> QED BY <1>3, <1>4 DEF MonitorInv

\* A sweep that is given up, by a throw, a restart or a feed that reverts, leaves
\* the tables as they are.
LEMMA GivenUpKeeps ==
    ASSUME MonitorInv, pc' = "sleep", sweep' = NoSweep, UNCHANGED <<world, tables>>,
           takeDue' = takeDue \/ takeDue' = TRUE
    PROVE  MonitorInv'
<1>1. UNCHANGED <<utilization, age, known, marketSnapshots, alerts, snapshots, judged, pruned>>
  BY DEF world, tables
<1>2. WorldTyped' /\ TablesTyped' /\ Tables' /\ SnapshotComplete'
  BY <1>1, TablesStay DEF MonitorInv, WorldTyped, TablesTyped, SnapshotComplete
<1>3. SweepTyped' /\ Swept'
  BY NoSweeps DEF SweepTyped, Swept
<1> QED BY <1>2, <1>3 DEF MonitorInv

LEMMA WakeKeeps ==
    ASSUME MonitorInv, Wake
    PROVE  MonitorInv'
<1>1. /\ pc = "sleep" /\ pc' \in {"keeper", "markets"}
      /\ sweep' = sweep \/ sweep' = [NoSweep EXCEPT !.feeds = markets]
      /\ UNCHANGED <<utilization, age, known, takeDue, marketSnapshots, alerts, snapshots, judged, pruned>>
  BY DEF Wake, Goto, world, memory, tables
<1>2. CASE sweep' = sweep
  BY <1>1, <1>2, SameTables DEF MonitorInv, WorldTyped, SweepTyped, Swept, Tells, Single, Raises
<1>3. CASE sweep' = [NoSweep EXCEPT !.feeds = markets]
  <2>1. markets \in Seq(Reserve)
    BY MonitorAssumption DEF MonitorAssumption
  <2>2. sweep' \in Sweeps /\ sweep'.findings = NoSweep.findings /\ sweep'.levels = NoSweep.levels
    BY <1>3, <2>1, NoSweeps DEF Sweeps
  <2>3. SweepTyped' /\ Swept'
    BY <1>1, <2>2, NoSweeps DEF SweepTyped, Swept
  <2> QED BY <1>1, <2>3, SameTables DEF MonitorInv, WorldTyped
<1> QED BY <1>1, <1>2, <1>3

LEMMA keeperTickKeeps ==
    ASSUME MonitorInv, keeperTick
    PROVE  MonitorInv'
<1>1. /\ pc = "keeper"
      /\ UNCHANGED <<utilization, known, takeDue, marketSnapshots, alerts, snapshots, judged, pruned>>
      /\ UNCHANGED <<health, down, changes, tables>> /\ sweep \in Sweeps /\ WorldTyped
  BY DEF keeperTick, tables, MonitorInv, SweepTyped
<1>2. CASE sweep.feeds # <<>> /\ Head(sweep.feeds) \notin down
  <2>1. /\ age' = IF Due(Head(sweep.feeds)) THEN [age EXCEPT ![Head(sweep.feeds)] = 0] ELSE age
        /\ sweep' = [sweep EXCEPT !.feeds = Tail(sweep.feeds)] /\ pc' = pc
    BY <1>1, <1>2 DEF keeperTick
  <2>2. Tail(sweep.feeds) \in Seq(Reserve)
    BY <1>1, <1>2 DEF Sweeps
  <2>3. sweep' \in Sweeps /\ sweep'.findings = sweep.findings /\ sweep'.levels = sweep.levels
    BY <1>1, <2>1, <2>2 DEF Sweeps
  <2>4. WorldTyped'
    BY <1>1, <2>1 DEF WorldTyped
  <2>5. SweepTyped' /\ Swept'
    BY <1>1, <2>1, <2>3 DEF MonitorInv, SweepTyped, Swept, Tells, Single, Raises
  <2> QED BY <1>1, <2>4, <2>5, SameTables DEF MonitorInv
<1>3. CASE sweep.feeds # <<>> /\ Head(sweep.feeds) \in down
  <2>1. pc' = "sleep" /\ sweep' = NoSweep /\ UNCHANGED <<world, tables, takeDue>>
    BY <1>1, <1>3 DEF keeperTick, world
  <2> QED BY <2>1, GivenUpKeeps
<1>4. CASE sweep.feeds = <<>>
  <2>1. pc' = "markets" /\ UNCHANGED <<age, sweep>>
    BY <1>4 DEF keeperTick
  <2>2. WorldTyped' /\ SweepTyped' /\ Swept'
    BY <1>1, <2>1 DEF MonitorInv, WorldTyped, SweepTyped, Swept, Tells, Single, Raises
  <2> QED BY <1>1, <2>2, SameTables DEF MonitorInv
<1> QED BY <1>2, <1>3, <1>4

LEMMA Observed ==
    ASSUME WorldTyped
    PROVE  Markets \in [Reserve -> Observation]
<1>1. \A r \in Reserve : Observe(r) \in Observation
  BY ScaleAssumption, MonitorAssumption
     DEF WorldTyped, Observe, Observation, ScaleAssumption, MonitorAssumption
<1> QED BY <1>1 DEF Markets

LEMMA readMarketsKeeps ==
    ASSUME MonitorInv, readMarkets
    PROVE  MonitorInv'
<1>1. /\ pc' = "inputs"
      /\ UNCHANGED <<utilization, age, known, takeDue, marketSnapshots, alerts, snapshots, judged, pruned>>
  BY DEF readMarkets, Goto, world, memory, tables
<1>5. PICK head \in Blocks : sweep' = [NoSweep EXCEPT !.block = head, !.take = takeDue, !.markets = Markets]
  BY DEF readMarkets
<1>2. Markets \in [Reserve -> Observation] /\ takeDue \in BOOLEAN
  BY Observed DEF MonitorInv, TablesTyped
<1>3. /\ sweep' \in Sweeps /\ sweep'.findings = NoSweep.findings /\ sweep'.levels = NoSweep.levels
      /\ sweep'.take = takeDue /\ sweep'.markets = Markets
  <2>1. head \in Nat
    BY MonitorAssumption DEF MonitorAssumption
  <2> QED BY <1>2, <1>5, <2>1, NoSweeps DEF Sweeps
<1>4. SweepTyped' /\ Swept'
  BY <1>1, <1>2, <1>3, NoSweeps DEF SweepTyped, Swept
<1> QED BY <1>1, <1>4, SameTables DEF MonitorInv, WorldTyped

\* The findings about the markets: one of a kind for a market, none that a level
\* of an account raises.
LEMMA MarketFound ==
    ASSUME NEW seen, \A r \in Reserve : seen[r] \in Observation
    PROVE  LET found == UNION {evaluateMarket(seen[r], previousUtilization[r], r) : r \in Reserve}
           IN found \subseteq MarketFindings /\ Tells(found, <<>>)
<1> DEFINE E(r) == evaluateMarket(seen[r], previousUtilization[r], r)
           found == UNION {E(r) : r \in Reserve}
<1>1. ASSUME NEW r \in Reserve
      PROVE  E(r) \subseteq [kind : MarketKinds, severity : Severities, subject : {r}] /\ Single(E(r))
  <2>1. seen[r].utilization \in Int
    BY DEF Observation
  <2> QED BY <2>1, MarketEvaluated
<1>2. ASSUME NEW f \in found PROVE f.subject \in Reserve /\ f \in E(f.subject)
  <2> HIDE DEF E
  <2>1. PICK r \in Reserve : f \in E(r)
    OBVIOUS
  <2>2. f.subject = r
    BY <1>1, <2>1
  <2> QED BY <2>1, <2>2
<1> HIDE DEF E, found
<1>3. ASSUME NEW f \in found PROVE f \in MarketFindings
  BY <1>1, <1>2 DEF MarketFindings
<1>4. Single(found)
  <2>1. ASSUME NEW f \in found, NEW g \in found, f.kind = g.kind, f.subject = g.subject PROVE f = g
    BY <1>1, <1>2, <2>1 DEF Single
  <2> QED BY <2>1 DEF Single
<1>5. ASSUME NEW level \in DOMAIN AlertKind, NEW a PROVE ~Raises(found, level, a)
  <2>1. AlertKind[level] \notin MarketKinds
    BY AlertKinds DEF MarketKinds
  <2> QED BY <1>3, <2>1 DEF Raises, MarketFindings
<1>6. DOMAIN <<>> = {}
  OBVIOUS
<1>7. found \subseteq MarketFindings /\ Tells(found, <<>>)
  BY <1>3, <1>4, <1>5, <1>6 DEF Tells
<1> QED BY <1>7 DEF found, E

LEMMA marketRiskInputsKeeps ==
    ASSUME MonitorInv, marketRiskInputs
    PROVE  MonitorInv'
<1>1. /\ pc = "inputs" /\ pc' = IF sweep.take THEN "snapshot" ELSE "accounts"
      /\ UNCHANGED <<utilization, age, known, takeDue, marketSnapshots, alerts, snapshots, judged, pruned>>
  BY DEF marketRiskInputs, Goto, world, memory, tables
<1>2. /\ sweep \in Sweeps /\ sweep.markets \in [Reserve -> Observation] /\ (sweep.take => takeDue)
      /\ DOMAIN sweep.levels = {} /\ sweep.take \in BOOLEAN
  BY <1>1 DEF MonitorInv, SweepTyped, Swept, Sweeps
<1>3. PICK seen \in {sweep.markets, Markets} :
        sweep' = [sweep EXCEPT
             !.findings = UNION {evaluateMarket(seen[r], previousUtilization[r], r) : r \in Reserve},
             !.left = IF sweep.take THEN Reserve ELSE {}]
  BY DEF marketRiskInputs, cached
<1> DEFINE found == UNION {evaluateMarket(seen[r], previousUtilization[r], r) : r \in Reserve}
           left == IF sweep.take THEN Reserve ELSE {}
<1>4. found \subseteq MarketFindings /\ Tells(found, <<>>)
  <2>1. seen \in [Reserve -> Observation]
    BY <1>2, <1>3, Observed DEF MonitorInv
  <2>2. \A r \in Reserve : seen[r] \in Observation
    BY <2>1
  <2> QED BY <2>2, MarketFound
<1>5. sweep' = [sweep EXCEPT !.findings = found, !.left = left]
  BY <1>3
<1> HIDE DEF found
<1>6. found \subseteq Findings /\ left \subseteq Reserve
  BY <1>4 DEF Findings
<1> HIDE DEF left
<1>7. /\ sweep' \in Sweeps /\ sweep'.findings = found /\ sweep'.left = left /\ sweep'.levels = sweep.levels
  BY <1>2, <1>5, <1>6 DEF Sweeps
<1>8. SweepTyped'
  BY <1>1, <1>7 DEF SweepTyped
<1>9. Tells(found, sweep.levels)
  BY <1>2, <1>4 DEF Tells
<1>10. Swept'
  <2>1. pc' = "snapshot" => takeDue' /\ left = Reserve
    BY <1>1, <1>2 DEF left
  <2>2. pc' \in {"snapshot", "accounts"}
    BY <1>1
  <2> QED BY <1>2, <1>7, <1>9, <2>1, <2>2 DEF Swept
<1> QED BY <1>1, <1>8, <1>10, SameTables DEF MonitorInv, WorldTyped

LEMMA insertMarketSnapshotKeeps ==
    ASSUME MonitorInv, insertMarketSnapshot
    PROVE  MonitorInv'
<1>1. PICK r \in sweep.left :
        /\ marketSnapshots' = [marketSnapshots EXCEPT ![r] = marketSnapshots[r] \cup {sweep.block}]
        /\ sweep' = [sweep EXCEPT !.left = sweep.left \ {r}]
  BY DEF insertMarketSnapshot
<1>2. /\ pc = "snapshot" /\ pc' = "snapshot" /\ takeDue
      /\ UNCHANGED <<utilization, age, known, takeDue, alerts, snapshots, judged, pruned>>
      /\ sweep \in Sweeps /\ sweep.left \subseteq Reserve /\ marketSnapshots \in [Reserve -> SUBSET Nat]
      /\ \A x \in Reserve \ sweep.left : pruned \/ marketSnapshots[x] # {}
  BY DEF insertMarketSnapshot, Goto, world, memory, MonitorInv, SweepTyped, Swept, TablesTyped
<1>3. /\ sweep' \in Sweeps /\ sweep'.left = sweep.left \ {r} /\ sweep'.findings = sweep.findings
      /\ sweep'.levels = sweep.levels
  BY <1>1, <1>2 DEF Sweeps
<1>4. /\ marketSnapshots' \in [Reserve -> SUBSET Nat]
      /\ \A x \in Reserve \ (sweep.left \ {r}) : pruned \/ marketSnapshots'[x] # {}
  <2>1. sweep.block \in Nat
    BY <1>2 DEF Sweeps
  <2> QED BY <1>1, <1>2, <2>1
<1>5. TablesTyped' /\ Tables'
  BY <1>2, <1>4, TablesStay DEF MonitorInv, TablesTyped
<1>6. SweepTyped' /\ Swept'
  BY <1>2, <1>3, <1>4 DEF MonitorInv, SweepTyped, Swept, Tells, Single, Raises
<1> QED BY <1>2, <1>5, <1>6 DEF MonitorInv, WorldTyped, SnapshotComplete

\* The interval is over once every market has its row.
LEMMA rememberSnapshotKeeps ==
    ASSUME MonitorInv, rememberSnapshot
    PROVE  MonitorInv'
<1>1. /\ pc = "snapshot" /\ pc' = "accounts" /\ sweep.left = {} /\ takeDue' = FALSE
      /\ UNCHANGED <<utilization, age, known, marketSnapshots, alerts, snapshots, judged, pruned, sweep>>
  BY DEF rememberSnapshot, Goto, world, tables
<1>2. SnapshotComplete'
  BY <1>1 DEF MonitorInv, Swept, SnapshotComplete
<1>3. TablesTyped' /\ WorldTyped'
  BY <1>1 DEF MonitorInv, TablesTyped, WorldTyped
<1>4. Tables'
  BY <1>1, TablesStay
<1>5. SweepTyped' /\ Swept'
  BY <1>1 DEF MonitorInv, SweepTyped, Swept, Tells, Single, Raises
<1> QED BY <1>2, <1>3, <1>4, <1>5 DEF MonitorInv

LEMMA selectAccountsKeeps ==
    ASSUME MonitorInv, selectAccounts
    PROVE  MonitorInv'
<1>1. /\ pc = "accounts" /\ pc' = "health" /\ sweep' = [sweep EXCEPT !.left = known]
      /\ UNCHANGED <<utilization, age, known, takeDue, marketSnapshots, alerts, snapshots, judged, pruned>>
  BY DEF selectAccounts, Goto, world, memory, tables
<1>2. sweep \in Sweeps /\ known \subseteq Account /\ DOMAIN sweep.levels = {}
  BY <1>1 DEF MonitorInv, SweepTyped, WorldTyped, Swept
<1>3. /\ sweep' \in Sweeps /\ sweep'.left = known /\ sweep'.findings = sweep.findings
      /\ sweep'.levels = sweep.levels
  BY <1>1, <1>2 DEF Sweeps
<1>4. SweepTyped' /\ Swept'
  BY <1>1, <1>2, <1>3 DEF MonitorInv, SweepTyped, Swept, Tells, Single, Raises
<1> QED BY <1>1, <1>4, SameTables DEF MonitorInv, WorldTyped

\* Two findings about accounts of one kind have one severity.
LEMMA TwoSingles ==
    ASSUME NEW F \in SUBSET Findings, Single(F), NEW a \in Account, NEW G \in SUBSET AccountFindingsOf({a})
    PROVE  Single(F \cup G) /\ F \cup G \subseteq Findings
<1>1. G \subseteq Findings /\ G \subseteq AccountFindingsOf(Account)
  BY DEF Findings, AccountFindingsOf
<1>2. ASSUME NEW f \in AccountFindingsOf(Account), NEW g \in Findings, f.kind = g.kind, f.subject = g.subject
      PROVE  f = g
  <2>1. f.kind \in DOMAIN AccountSeverity /\ f.kind \notin MarketKinds
    BY Severity DEF AccountFindingsOf, MarketKinds
  <2>2. g \in AccountFindingsOf(Account)
    BY <1>2, <2>1 DEF Findings, MarketFindings
  <2>3. /\ f = [kind |-> f.kind, severity |-> f.severity, subject |-> f.subject]
        /\ g = [kind |-> g.kind, severity |-> g.severity, subject |-> g.subject]
        /\ f.severity = AccountSeverity[f.kind] /\ g.severity = AccountSeverity[g.kind]
    BY <2>2 DEF AccountFindingsOf
  <2> QED BY <1>2, <2>3
<1>3. ASSUME NEW f \in F \cup G, NEW g \in F \cup G, f.kind = g.kind, f.subject = g.subject PROVE f = g
  <2>1. CASE f \in G
    BY <1>1, <1>2, <1>3, <2>1
  <2>2. CASE g \in G
    BY <1>1, <1>2, <1>3, <2>2
  <2>3. CASE f \in F /\ g \in F
    BY <1>3, <2>3 DEF Single
  <2> QED BY <2>1, <2>2, <2>3
<1>4. Single(F \cup G)
  BY <1>3 DEF Single
<1> QED BY <1>1, <1>4

LEMMA accountsHealthKeeps ==
    ASSUME MonitorInv, accountsHealth
    PROVE  MonitorInv'
<1> DEFINE L == sweep.levels
<1>1. PICK a \in sweep.left :
        LET r == evaluateAccount(health[a], protocolBorrowsUsd, a)
        IN sweep' = [sweep EXCEPT !.left = sweep.left \ {a}, !.findings = sweep.findings \cup r.findings,
                       !.levels = [x \in DOMAIN L \cup {a} |-> IF x = a THEN r.level ELSE L[x]]]
  BY DEF accountsHealth
<1>2. PICK r : r = evaluateAccount(health[a], protocolBorrowsUsd, a)
  OBVIOUS
<1> DEFINE levels == [x \in DOMAIN L \cup {a} |-> IF x = a THEN r.level ELSE L[x]]
           findings == sweep.findings \cup r.findings
<1>3. sweep' = [sweep EXCEPT !.left = sweep.left \ {a}, !.findings = findings, !.levels = levels]
  BY <1>1, <1>2
<1>4. /\ r.level \in Levels /\ r.findings \subseteq AccountFindingsOf({a})
      /\ \A level \in DOMAIN AlertKind : Raises(r.findings, level, a) <=> r.level = level
  BY <1>2, AccountEvaluated
<1>5. /\ pc = "health" /\ pc' = "health"
      /\ UNCHANGED <<utilization, age, known, takeDue, marketSnapshots, alerts, snapshots, judged, pruned>>
  BY DEF accountsHealth, Goto, world, memory, tables
<1>6. sweep \in Sweeps /\ sweep.left \subseteq Account \ DOMAIN L /\ Tells(sweep.findings, L)
  BY <1>5 DEF MonitorInv, SweepTyped, Swept
<1>7. /\ L \in [DOMAIN L -> Levels] /\ DOMAIN L \subseteq Account /\ sweep.findings \subseteq Findings
      /\ sweep.left \subseteq Reserve \cup Account
  BY <1>6 DEF Sweeps, Levelling
<1>8. a \in Account /\ a \notin DOMAIN L /\ DOMAIN L \subseteq Account
  BY <1>6, <1>7
<1> HIDE DEF L
<1>9. /\ DOMAIN levels = DOMAIN L \cup {a} /\ levels[a] = r.level /\ levels \in Levelling
      /\ \A x \in DOMAIN L : levels[x] = L[x]
  <2>1. /\ levels \in [DOMAIN L \cup {a} -> Levels] /\ levels[a] = r.level
        /\ \A x \in DOMAIN L : levels[x] = L[x]
    BY <1>4, <1>7, <1>8
  <2>2. DOMAIN L \cup {a} \in SUBSET Account
    BY <1>6, <1>8
  <2> QED BY <2>1, <2>2 DEF Levelling
<1>10. Single(findings) /\ findings \subseteq Findings
  BY <1>4, <1>6, <1>7, <1>8, TwoSingles DEF Tells
<1> HIDE DEF levels
<1>11. ASSUME NEW level \in DOMAIN AlertKind, NEW x \in Account
       PROVE  Raises(findings, level, x) <=> x \in DOMAIN levels /\ levels[x] = level
  <2>1. Raises(findings, level, x) <=> Raises(sweep.findings, level, x) \/ Raises(r.findings, level, x)
    BY DEF Raises
  <2>2. Raises(sweep.findings, level, x) <=> x \in DOMAIN L /\ L[x] = level
    BY <1>6 DEF Tells
  <2>3. CASE x = a
    BY <1>4, <1>8, <1>9, <2>1, <2>2, <2>3
  <2>4. CASE x # a
    <3>1. ~Raises(r.findings, level, x)
      BY <1>4, <2>4 DEF Raises, AccountFindingsOf
    <3> QED BY <1>9, <2>1, <2>2, <2>4, <3>1
  <2> QED BY <2>3, <2>4
<1>12. Tells(findings, levels)
  BY <1>10, <1>11 DEF Tells
<1> HIDE DEF findings
<1>13. /\ sweep' \in Sweeps /\ sweep'.left = sweep.left \ {a} /\ sweep'.findings = findings
       /\ sweep'.levels = levels
  BY <1>3, <1>6, <1>7, <1>9, <1>10 DEF Sweeps
<1>14. SweepTyped'
  BY <1>5, <1>13 DEF SweepTyped
<1>15. Swept'
  <2>1. sweep.left \ {a} \subseteq Account \ DOMAIN levels
    BY <1>6, <1>8, <1>9
  <2> QED BY <1>5, <1>12, <1>13, <2>1 DEF Swept
<1> QED BY <1>5, <1>14, <1>15, SameTables DEF MonitorInv, WorldTyped

\* The rows a sweep inserts are the newest of their accounts.
LEMMA Inserted ==
    ASSUME NEW levels, NEW block \in Nat, snapshots \subseteq Rows, Insert(levels, block),
           NEW a \in DOMAIN levels, NEW level
    PROVE  a \in riskAccounts(level)' <=> levels[a] = level
<1> DEFINE new == [account |-> a, level |-> levels[a], block |-> block]
<1>1. snapshots' = {row \in snapshots : row.account \in DOMAIN levels => row.block < block}
                   \cup {[account |-> x, level |-> levels[x], block |-> block] : x \in DOMAIN levels}
  BY DEF Insert
<1>2. new \in snapshots'
  BY <1>1
<1>3. ASSUME NEW row \in snapshots', row.account = a
      PROVE  row = new \/ (row.block < block /\ row.block \in Nat)
  BY <1>1, <1>3 DEF Rows
<1>4. new.account = a /\ new.block = block /\ new.level = levels[a]
  OBVIOUS
<1> HIDE DEF new
<1>5. new \in latest'
  BY <1>2, <1>3, <1>4 DEF latest
<1>6. ASSUME NEW row \in latest', row.account = a PROVE row = new
  <2>1. row \in snapshots' /\ new.block <= row.block
    BY <1>2, <1>4, <1>6 DEF latest
  <2> QED BY <1>3, <1>4, <1>6, <2>1
<1>7. a \in riskAccounts(level)' <=> \E row \in latest' : row.level = level /\ row.account = a
  BY DEF riskAccounts
<1> QED BY <1>4, <1>5, <1>6, <1>7

\* The transaction of a sweep: its rows and its alerts are of the same findings.
LEMMA commitSweepKeeps ==
    ASSUME MonitorInv, commitSweep
    PROVE  MonitorInv'
<1>1. /\ pc = "health" /\ sweep.left = {} /\ alerts' = sweep.findings
      /\ Insert(sweep.levels, sweep.block) /\ judged' = DOMAIN sweep.levels
      /\ pc' = "sleep" /\ sweep' = NoSweep
      /\ UNCHANGED <<utilization, age, known, takeDue, marketSnapshots, pruned>>
  BY DEF commitSweep, Finish, Insert, world, memory
<1>2. /\ sweep \in Sweeps /\ Tells(sweep.findings, sweep.levels) /\ snapshots \subseteq Rows
  BY <1>1 DEF MonitorInv, SweepTyped, Swept, TablesTyped
<1>3. /\ sweep.levels \in Levelling /\ sweep.findings \subseteq Findings /\ sweep.block \in Nat
  BY <1>2 DEF Sweeps
<1>4. DOMAIN sweep.levels \subseteq Account /\ \A a \in DOMAIN sweep.levels : sweep.levels[a] \in Levels
  BY <1>3 DEF Levelling
<1>5. Tables'
  <2>1. ASSUME NEW level \in DOMAIN AlertKind, NEW a \in DOMAIN sweep.levels
        PROVE  Raises(sweep.findings, level, a) <=> a \in riskAccounts(level)'
    <3>1. a \in riskAccounts(level)' <=> sweep.levels[a] = level
      BY <1>1, <1>2, <1>3, Inserted
    <3> QED BY <1>2, <1>4, <3>1 DEF Tells
  <2>2. Single(sweep.findings)
    BY <1>2 DEF Tells
  <2> QED BY <1>1, <2>1, <2>2 DEF Tables
<1>6. TablesTyped'
  <2>1. snapshots' \subseteq Rows
    BY <1>1, <1>2, <1>3, <1>4 DEF Insert, Rows
  <2> QED BY <1>1, <1>3, <1>4, <2>1 DEF MonitorInv, TablesTyped
<1>7. SnapshotComplete' /\ WorldTyped'
  BY <1>1 DEF MonitorInv, SnapshotComplete, WorldTyped
<1>8. SweepTyped' /\ Swept'
  BY <1>1, NoSweeps DEF SweepTyped, Swept
<1> QED BY <1>5, <1>6, <1>7, <1>8 DEF MonitorInv

\* The invariant of the monitor's process and its tables.
THEOREM MonitorInvariant == Spec => []MonitorInv
<1>1. ASSUME MonitorInv, [Next]_vars PROVE MonitorInv'
  <2>1. CASE UNCHANGED vars
    BY <1>1, <2>1, KeeperIntervalKeeps DEF vars, memory
  <2>2. CASE Step
    BY <1>1, <2>2, WakeKeeps, keeperTickKeeps, readMarketsKeeps, marketRiskInputsKeeps,
       insertMarketSnapshotKeeps, rememberSnapshotKeeps, selectAccountsKeeps, accountsHealthKeeps,
       commitSweepKeeps DEF Step
  <2>3. CASE Time
    <3>1. CASE KeeperInterval
      BY <1>1, <3>1, KeeperIntervalKeeps DEF KeeperInterval
    <3> QED BY <1>1, <2>3, <3>1, TimePassesKeeps, SnapshotIntervalKeeps DEF Time
  <2>4. CASE Throw
    BY <1>1, <2>4, GivenUpKeeps DEF Throw, memory
  <2>5. CASE Restart
    BY <1>1, <2>5, GivenUpKeeps DEF Restart
  <2>6. CASE \E b \in Blocks : Rollback(b - 1)
    BY <1>1, <2>6, RollbackKeeps
  <2> QED BY <1>1, <2>1, <2>2, <2>3, <2>4, <2>5, <2>6, ChangeKeeps DEF Next
<1> QED BY <1>1, InitInv, PTL DEF Spec

----
(* The pages of /risk. *)

LEMMA ReserveFinite == IsFiniteSet(Reserve)
<1>1. markets \in Seq(Reserve)
  BY MonitorAssumption DEF MonitorAssumption
<1>2. Len(markets) \in Nat /\ DOMAIN markets = 1..Len(markets) /\ markets \in [1..Len(markets) -> Reserve]
  BY <1>1
<1>3. \A r \in Reserve : \E i \in 1..Len(markets) : markets[i] = r
  BY <1>2 DEF Reserve
<1>4. markets \in Surjection(1..Len(markets), Reserve)
  BY <1>2, <1>3 DEF Surjection
<1> QED BY <1>2, <1>4, FS_Interval, FS_Surjection

\* Of one kind there are no more findings than subjects.
LEMMA KindFinite ==
    ASSUME NEW F \in SUBSET Findings, Single(F), NEW kind
    PROVE  IsFiniteSet({f \in F : f.kind = kind})
<1> DEFINE K == {f \in F : f.kind = kind}
           subject == [f \in K |-> f.subject]
<1>1. \A f \in F : f.subject \in Reserve \cup Account
  BY DEF Findings, MarketFindings, AccountFindingsOf
<1>2. subject \in [K -> Reserve \cup Account]
  BY <1>1
<1>3. \A f, g \in K : subject[f] = subject[g] => f = g
  BY DEF Single
<1>4. subject \in Injection(K, Reserve \cup Account)
  BY <1>2, <1>3 DEF Injection, IsInjective
<1>5. IsFiniteSet(Reserve \cup Account)
  BY ReserveFinite, MonitorAssumption, FS_Union DEF MonitorAssumption
<1> HIDE DEF K, subject
<1>6. IsFiniteSet(K)
  BY <1>4, <1>5, FS_Injection
<1> QED BY <1>6 DEF K

LEMMA FindingsFinite ==
    ASSUME NEW F \in SUBSET Findings, Single(F)
    PROVE  IsFiniteSet(F)
<1> DEFINE K(kind) == {f \in F : f.kind = kind}
           M == K("HIGH_UTILIZATION") \cup (K("ABNORMAL_UTILIZATION") \cup (K("LOW_LIQUIDITY")
                \cup (K("ORACLE_DEGRADED") \cup (K("ORACLE_UNAVAILABLE") \cup (K("ORACLE_STALE_SOON")
                \cup K("BAD_DEBT"))))))
           A == K("LIQUIDATABLE") \cup (K("NEAR_LIQUIDATION") \cup (K("UNPRICEABLE_ACCOUNT")
                \cup (K("POTENTIAL_BAD_DEBT") \cup K("LARGE_BORROW"))))
<1>1. \A kind : IsFiniteSet(K(kind))
  BY KindFinite
<1>2. F = M \cup A
  <2>1. ASSUME NEW f \in F PROVE f \in M \cup A
    BY Severity DEF Findings, MarketFindings, AccountFindingsOf, MarketKinds
  <2> QED BY <2>1
<1> HIDE DEF K
<1>3. IsFiniteSet(M)
  BY <1>1, FS_Union
<1>4. IsFiniteSet(A)
  BY <1>1, FS_Union
<1> HIDE DEF M, A
<1> QED BY <1>2, <1>3, <1>4, FS_Union

\* RiskMonitor!AlertsMatchLevels.
LEMMA TablesMatch ==
    ASSUME MonitorInv
    PROVE  AlertsMatchLevels
<1> DEFINE raised(level) == {f.subject : f \in {g \in riskAlerts : g.kind = AlertKind[level]}}
<1>1. /\ Single(alerts) /\ alerts \subseteq Findings /\ judged \subseteq Account
      /\ \A level \in DOMAIN AlertKind, a \in judged :
           Raises(alerts, level, a) <=> a \in riskAccounts(level)
  BY DEF MonitorInv, Tables, TablesTyped
<1>2. \A f, g \in riskAlerts : f.kind = g.kind /\ f.subject = g.subject => f = g
  BY <1>1 DEF riskAlerts, Single
<1>3. ASSUME NEW level \in DOMAIN AlertKind
      PROVE  raised(level) \cap judged = riskAccounts(level) \cap judged
  <2>1. ASSUME NEW a \in judged PROVE a \in raised(level) <=> a \in riskAccounts(level)
    <3>1. a \in raised(level) <=> \E f \in alerts : f.kind = AlertKind[level] /\ f.subject = a
      BY DEF riskAlerts
    <3> QED BY <1>1, <3>1 DEF Raises
  <2> HIDE DEF raised
  <2> QED BY <2>1
<1>4. ASSUME {row.account : row \in latest} \subseteq judged
      PROVE  riskSummary.openAlerts["critical"] >= riskSummary.levels["LIQUIDATABLE"]
  <2> DEFINE S == riskAccounts("LIQUIDATABLE")
             T == {f \in alerts : f.severity = "critical"}
             alert == [a \in S |-> Finding("LIQUIDATABLE", "critical", a)]
  <2>1. riskSummary.openAlerts["critical"] = Cardinality(T)
    BY DEF riskSummary
  <2>2. riskSummary.levels["LIQUIDATABLE"] = Cardinality(S)
    BY AlertKinds DEF riskSummary
  <2>3. IsFiniteSet(T)
    <3>1. IsFiniteSet(alerts)
      BY <1>1, FindingsFinite
    <3> QED BY <3>1, FS_Subset
  <2>4. ASSUME NEW a \in S PROVE Finding("LIQUIDATABLE", "critical", a) \in T
    <3>1. a \in judged
      BY <1>4 DEF riskAccounts
    <3>2. PICK f \in alerts : f.kind = "LIQUIDATABLE" /\ f.subject = a
      BY <1>1, <3>1, AlertKinds DEF Raises
    <3>3. f = Finding("LIQUIDATABLE", "critical", a)
      <4>1. f \in AccountFindingsOf(Account)
        BY <1>1, <3>2 DEF Findings, MarketFindings, MarketKinds
      <4>2. f.severity = "critical"
        BY <3>2, <4>1, Severity DEF AccountFindingsOf
      <4> QED BY <3>2, <4>1, <4>2 DEF AccountFindingsOf, Finding
    <3> QED BY <3>2, <3>3, FindingFields
  <2>5. alert \in [S -> T]
    BY <2>4
  <2>6. \A a, b \in S : alert[a] = alert[b] => a = b
    BY FindingFields DEF Finding
  <2>7. alert \in Injection(S, T)
    BY <2>5, <2>6 DEF Injection, IsInjective
  <2> HIDE DEF S, T, alert
  <2>8. Cardinality(S) <= Cardinality(T) /\ IsFiniteSet(S)
    BY <2>3, <2>7, FS_Injection
  <2>9. Cardinality(S) \in Nat /\ Cardinality(T) \in Nat
    BY <2>3, <2>8, FS_CardinalityType
  <2> QED BY <2>1, <2>2, <2>8, <2>9
<1> QED BY <1>2, <1>3, <1>4 DEF AlertsMatchLevels

\* The pages of /risk agree on the accounts of the last sweep that committed and of
\* which no rollback took the newest row, and no two open alerts clash
\* (monitor/monitor.ts, indexer.ts): RiskMonitor!AlertsMatchLevels.
THEOREM AlertsAgree == Spec => []AlertsMatchLevels
BY MonitorInvariant, TablesMatch, PTL

\* An interval of snapshots ends with a row of every market, whatever fails
\* halfway, unless a rollback deletes rows: RiskMonitor!SnapshotComplete.
THEOREM SnapshotsComplete == Spec => []SnapshotComplete
<1>1. MonitorInv => SnapshotComplete
  BY DEF MonitorInv
<1> QED BY <1>1, MonitorInvariant, PTL
=============================================================================
