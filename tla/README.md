# Verification of the risk-aware lending protocol

TLA+ models of the protocol in this repository, TLC instances that check them, and proofs checked by
TLAPS. Paths below are relative to the repository (`src/` in `PROJECT.json`). Section 1 is the inventory of
the system, 2 the plan, 3 the modules and how they correspond to the code, 4 the runs, 5 the proofs,
6 what is left out.

## 1. Inventory

### Contracts (atomic transactions, interleaved in any order)

| Component | State | Operations | Correct when |
|---|---|---|---|
| `libraries/WadRayMath`, `PercentageMath` | none | multiply and divide in ray, wad and basis points, each with a fixed rounding direction | every rounding favours the pool; what a rounded amount burns is within the balance |
| `interest/KinkedInterestRateModel`, `libraries/MathUtils` | immutable curve | utilization, borrow rate, linear and compounded growth | growth factors are at least one; the borrow side grows at least as fast as the supply side |
| `logic/ReserveLogic` | one `ReserveData` | `accrue`, `updateRates`, views | views equal what the next accrue commits; suppliers are not credited what nobody owes |
| `logic/RiskEngine`, `libraries/UserConfiguration` | a bitmap per user | account valuation, capacity check | the bitmap agrees with the balances; prices are read only for reserves in use |
| `logic/ValidationLogic` | none | the emergency matrix | exits that are documented as open stay open |
| `logic/LiquidationLogic` | the pool's | `executeLiquidation`, `calculateAmounts`, bad-debt write-off | both legs stay within balances, losses go treasury first, no debt is left unsecured |
| `core/LendingPool` | reserves, balances, bitmaps, pause, grace window | supply, withdraw, borrow, repay, collateral toggle, liquidate, cover a deficit, configurator calls | totals, cash and tokens agree; the pool is solvent; healthy accounts stay healthy |
| `core/PoolConfigurator`, `ACLManager`, timelock | roles, queued operations | read-modify-write of configurations | only validated parameters reach the pool; the guardian only lowers risk |
| `oracle/OracleManager` | two feeds per asset | `getPrice` | fails closed: a price or a revert, never a stale or deviating answer |
| `periphery/LendingVault`, `PoolLens` | vault shares; none | ERC-4626; batch views | limits reported are limits enforced; previews equal executions |

The pool calls its libraries by delegatecall or inlined code, the oracle and the rate model by external view
calls, and the token by a transfer at the end of every transaction (`nonReentrant`). Nothing runs inside a
transaction but the transaction, so the interleavings that matter are whole calls of several accounts, the
block clock, oracle answers and governance. What is hard is arithmetic that accumulates over such sequences,
state that is kept twice (bit and balance, total and balances, cash and tokens), and sequences no test
wrote down: self-liquidation, collateral and debt in one reserve, write-offs in reserves nobody touched.

### Off-chain services

| Component | State | Operations | Correct when |
|---|---|---|---|
| `indexer` | `blocks`, event tables, cursor | poll a batch, commit it in one transaction, roll back on a reorg | each event of the canonical chain is stored exactly once, across crashes and reorgs |
| `backend` risk monitor, price keeper | snapshots, alerts, a market timer | sweep markets and accounts, open and resolve alerts, poke old feeds | an alert is open while its condition holds; a snapshot is complete; no account stays listed that a rollback took out of the index |
| `backend` API | a cache of reads | routes over the lens and the tables, `/health` | pages agree with the pool and with each other |
| `backend` live hub | LISTEN clients | relay of `NOTIFY` to sockets, reconnect | a lost connection is replaced, and a lost message is made up for |
| `frontend` | query cache, socket, one transaction run | poll, invalidate, simulate, sign, wait | what it offers is accepted, what it confirms was mined, what it shows catches up |
| timelock queue | `timelock_calls`, `timelock_outcomes` | schedule, execute, cancel, index, list | the queue shown is that of the timelock |
| `shared` | none | risk rules, rate curve, transactions | the same rules for monitor and pages; the off-chain curve is the contract's |
| `script`, `docker`, `e2e` | none of the protocol's | deployment, containers, tests | outside the core logic |

These are concurrent processes around one database and one RPC node: the chain may reorganise between any
two calls, processes stop between two statements, requests fail one at a time, and notifications may be
lost. The hazards are listed with their lines in `PROJECT.json`.

## 2. Plan

1. **Done.** The pool with its libraries, `WadRayMath` up to `LendingPool`, its properties, its instances,
   and its inductive invariant.
2. **Done.** `Indexer` against `EventMirror`, the abstract specification of what the store promises, and the
   proof that it implements it.
3. **Done.** `MonitoredStore` (monitor and indexer on one database), `RiskMonitor` (the loop, its requests
   and its keeper), `RiskRules`.
4. **Done.** `TimelockQueue` and `Console`: read-modify-write of configurations through the timelock, its
   index, and the page that shows and drives it, with the proof of its safety properties. Left: roles.
5. **Done.** `OracleFeeds`: feeds and statuses, the keeper, and the page that moves prices.
6. **Done.** `PoolLens`, `ProtocolApi`, `ActionPanel` and `LendingVault`, composed with `LendingPool`.
7. **Done.** Theorems on the emergency matrix, the loss waterfall, reconfiguration, the per-transaction
   rounding argument, the health of accounts and the solvency of the pool.
8. **Done.** Theorems on the vault over the pool, the price keeper, the oracle lab, the risk monitor and the
   rollbacks of the indexer.
9. **Done.** Theorems on what is accepted: exits of the pool, limits of the vault, candidates of the
   liquidation page, amounts of the panel; and on the pages' rates and debts.

## 3. Modules

```
WadRayMath <- InterestRates <- ReserveLogic <- RiskEngine <- LiquidationLogic <- LendingPool
                                    FiniteSums <-'                                  ^
                                   LendingVault -> LendingPoolProperties -----------'
     ActionPanel -> ProtocolApi -> PoolLens ------'   '-> RiskRules -> WadRayMath
                         RiskMonitor, OracleFeeds ---------'
EventMirror <=(refines)= IndexerProperties -> Indexer        MonitoredStore -> IndexerProperties
Console -> TimelockQueue

MCAccounting, MCBadDebt, MCDust -> LendingPoolProperties    MCEmergency -> LendingVault
MCRisk -> ActionPanel      MCIndexer -> IndexerProperties    MCStore -> MonitoredStore
MCMonitor -> RiskMonitor   MCOracle -> OracleFeeds           MCConsole -> Console

PoolSafety_proofs -> LendingPool_proofs, PoolSolvency     PoolSolvency -> LendingPoolProperties
LendingPool_proofs -> LendingPoolProperties, PoolLibraries_proofs       PoolLibraries_proofs -> LiquidationLogic
Periphery_proofs -> LendingVault, ActionPanel, PoolSafety_proofs
Indexer_proofs -> MonitoredStore     Console_proofs -> Console     OracleFeeds_proofs -> OracleFeeds
RiskMonitor_proofs -> RiskMonitor
```

Every arrow is an `EXTENDS`; in the first line it points from the extended module to the module that extends
it, elsewhere from the extending module to what it extends.

### Contracts

Each library of the pool is a module of pure operators with the names of its functions; of the contracts'
modules only `LendingPool` and `LendingVault` have variables. A storage pointer that a library mutates becomes a function from record to
record, so that an action reads in the code's order: `UpdateRates([Accrue(r, t) EXCEPT ...])` is accrue,
mutate, refresh rates.

- **WadRayMath** - the two rounding directions of every operation. `RAY`, `WAD` and `PERCENTAGE_FACTOR` are
  constants; the instances take 10 to 100 so that one rounding unit is as large as an amount, which is
  where rounding errors show.
- **InterestRates** - a rate model is a record in the set its constructor accepts.
- **ReserveLogic** - `ReserveData` as a record. `ValidConfig` is what `PoolConfigurator` lets through. The
  token's decimals are `Unit` in `RiskEngine`, because they never change.
- **RiskEngine** - an account is its two rows of balances and the two halves of its bitmap, as sets.
  `price[a] = 0` stands for a `getPrice` that reverts. The loop over the bitmap is a sum over a set.
- **LiquidationLogic** - `CalculateAmounts` with its three statuses, treasury absorption, one iteration of
  the write-off.
- **LendingPool** - one action per external function:

| Variable | Code |
|---|---|
| `reserves` | `_reserves` (the id and the list of ids are the elements of `Asset`) |
| `supply`, `debt` | `_userReserves[u][id].scaledSupply`, `.scaledDebt` |
| `collateral`, `borrowing` | the odd and even bits of `_userConfig[u]` |
| `paused`, `graceUntil`, `gracePeriod` | `_paused`, `_liquidationGraceUntil`, `_liquidationGracePeriod` |
| `now`, `price` | `block.timestamp`, the answers of `_oracle.getPrice` |
| `wallet`, `tokens` | the token balances of the users and of the pool |

A `require`, a checked subtraction or a transfer that fails undoes the call, so each is a guard of its action.
No guard stands for an underflow of the books, though: that balances, totals, treasury and deficit stay
natural is part of `TypeOK`, so a model (or a mutant) that would underflow is caught, not disabled. Calls
that return without changing state are stutters. `Liquidate` is `executeLiquidation` whole: both legs, the
credit of the liquidator, the second read of the bitmap (line 165), the write-off over every reserve and
the rates of every touched reserve; sender and borrower may coincide, and so may the two assets.
A token moves exactly the amount asked for: the listing documents exclude fee-on-transfer and rebasing
tokens. Transfers at the end of a call need no re-entrancy in the model because of `nonReentrant`.

- **LendingPoolProperties** - the properties, each with the behaviour it is about.
- **PoolSolvency** - the pool with a history variable: what the rounding of interest may have cost each reserve so far.
- **FiniteSums** - the sum over a set, from the fold of the community modules.
- **LendingVault** - a user of the pool that only supplies and withdraws, with `shares` per holder. `enter`
  and `leave` are `_deposit` and `_withdraw`, whole with the pool call they make (`SupplyPaidBy` is
  `supply` with the payer apart from the sender: the vault pulls the assets just before). OpenZeppelin's
  entry points and conversions are external and modelled as the vault uses them.
- **PoolLens**, **ProtocolApi**, **ActionPanel** - what the lens, the routes and the page compute at a state of
  the pool: views, so operators and no variables. A DTO is a record; USD values are the exact integers the
  floats stand for, and a level or an offered amount is computed from them as the code does. `submit` is the
  call the panel sends, `Accepts` says whether the pool takes it.
- **OracleFeeds** - both aggregators, `OracleManager`'s evaluation, keeper and oracle lab for one asset. Time
  is a wall clock and the time of the latest block, because reads run at the latest block and the next
  transaction runs at the wall clock.

### Services and pages

- **Indexer** - one process, one action per request or transaction of `tick` and `handleReorg`, `pc` for where
  it is and `tick` for its locals. A block hash stands for everything below it, so a hash is the sequence of
  contents up to the block; `cursor` and `blocks` hold such histories, `snapshots` rows with a block number,
  which is what `dropSnapshotsAbove` compares. `getBlock` returns null for any failure, so every header read may also be `Unknown` (counted by `lost`). `Abandon` is a failed
  transaction or a stopped process, `Redeploy` a start with another deployment key.
- **EventMirror** - at every moment the store shows the events of exactly one history; it follows a longer
  one or retreats to a point of the one it had. `IndexerProperties` instantiates it with `followed <- cursor`,
  `owner <- deploymentKey`, `shown <- events`: every commit of the indexer is a `Follow`, every rollback a
  `Retreat`, the wipe of `init` a `Clear`, everything else a stutter.
- **MonitoredStore** - a sweep that reads the head, the indexer's accounts and their health, and commits
  snapshots and alerts, interleaved with every step of the indexer: a row carries the number of the head the
  sweep began with, and the history field `indexed` says whether the index showed its account up to that number.
- **RiskRules** - thresholds, levels and findings of `shared/risk.ts`, over integers; `{}` and `{x}` stand for
  `null` and a value.
- **RiskMonitor** - the main loop: keeper when due, then a sweep, request by request; `Throw` ends either at
  any request, `Restart` also forgets the process's memory. Deadlines are flags that time sets. The indexer is a
  second writer: `Rollback` deletes snapshots above a number and shrinks the accounts, and no alert (with the
  number 0 it is the wipe of a redeployment too). `snapshots` is `risk_snapshots`, `latest` the view
  `account_risk_latest`. Which accounts the last sweep judged, and whether a rollback took market rows, is history.
- **TimelockQueue** - `TimelockController` (external), the configurator's setters that read a whole
  configuration and write it back, the indexed tables, and the query of `/governance/timelock`.
- **Console** - the hub's LISTEN clients and retry timers, the page's socket, its query (`fetch` is the one
  request react-query runs; an invalidation cancels and restarts it, except the first one, which it leaves
  running while there is no data), and the transactor: simulate, sign, send, receipt. A call that is pending may be
  replaced in the wallet; the receipt read is then the replacement's. Other operators act at any time.

## 4. Runs

| Run | Instance | Shows |
|---|---|---|
| `accounting` | 1 reserve, 2 users, calls on behalf of each other, rates of 10% to 60% a tick, scale 10, 3 tokens each, clock to 3 | types, totals, cash, views against accrual, solvency with no tolerance, rounding direction of every call, loss waterfall |
| `risk` | 2 reserves of different decimals, prices 0 (outage), 3 and 6, no interest; lens, routes and panel at every state | bitmap against balances, no borrower without collateral, only time, prices and governance harm a healthy account; what the panel submits is accepted, the preview and the candidates are what the pool accepts, the projected health is the health after the call, the pages' figures are the pool's |
| `bad_debt` | 2 reserves, one not usable as collateral with a price that jumps eightfold, caps set, clock to 2 | write-offs over several reserves, including one the liquidation did not touch; stored rates against present balances |
| `emergency` | 1 reserve that is listed, paused, frozen, capped, re-parameterised; pool pauses; a grace period; a vault with 2 holders, offset 10; clock to 3 | emergency matrix over whole transactions, exits, no retroactive configuration; the vault accepts what its limits report and no vault call pays its caller |
| `indexer` | 2 transactions, 1 kind of empty block, 2 deployments, height 3, batches of 2, window 2, 0 confirmations; 2 reorgs, 1 failed transaction, 1 failed request, 1 restart | the store implements `EventMirror`; stored blocks and events hang on the cursor; a rollback deletes only what was replaced; the store catches up |
| `store` | 1 account at risk, empty blocks, 1 confirmation, window 4, 2 reorgs, 1 failed transaction or crash, a sweeping monitor | an account listed while it was indexed leaves with its block; open alerts and newest snapshots settle |
| `monitor` | 1 market with utilization 0 or 8 of 10, 1 account liquidatable or unpriced, heads at 2 numbers; 2 changes or rollbacks, 1 failure or restart | alerts and levels agree on what the last sweep judged, snapshots are complete, alerts and levels settle, stale feeds revive |
| `oracle` | 2 feeds, heartbeat 4, keeper every 2, clock from 10 to 16, 2 clicks, 1 refusal | the keeper pokes in time, halts are reported before a transaction meets them, confirmed prices are trusted |
| `console` | 1 operation (which unfreezes) scheduled up to twice, delay 1, clock to 3, 1 lost connection or request, 1 call of the page | setters change their own field only, a success shown was mined unless replaced in the wallet, the queue is not left stale and settles |
| `credited` (violation) | as `accounting`, scale 100 | see findings |
| `dust` (violation) | 2 collaterals, one debt, a price that falls by half | see findings |
| `mid_batch` (violation) | 1 transaction, 2 kinds of empty blocks, height 2, one reorg inside a batch | see findings |

**Bounds of the pool.** `MaxTime` bounds the clock: two ticks separate a write, an interval at the rates it
stored, and a later write at others, which is what an accrual error needs. `Amounts` holds a unit (the amount
that rounds to nothing), a middle amount where the run needs partial calls, and `MaxUint`, the code's value
for "all". Two users suffice for every relation the properties state (caller and beneficiary, liquidator and
borrower, one lender and one borrower, two holders of the vault); two reserves are the least in which a
write-off meets a reserve that was not touched. `InitialWallet` bounds the tokens in circulation and with them
every balance. Scales are small on purpose: with `RAY = 10` a rounding unit is a tenth of an index, and any
rounding in the wrong direction breaks `Solvent` or `RoundingFavoursPool` at once. `Dust` is 0: the fuzz tests
tolerate 10 wei, the instances need none. `accounting` uses the symmetry of its two users, whose constants are
the same. `Typed` is what a user types into the panel besides MAX. `Parts` are the numbers of shares minted or
redeemed besides the reported maximum; supply on behalf of the vault (a donation) is an action of the
module, but not in this instance's `Beneficiaries`.

**Bounds of the services.** Every counter of faults is bounded by name (`MaxReorgs`, `MaxFailures`, `MaxLost`,
`MaxRestarts`, `MaxFaults`, `MaxClicks`, `MaxRuns`, `MaxChanges`, `MaxSchedules`), so that what must happen in the
end has an end to happen in. Height 3 with batches of 2 gives a full batch, a partial one and a batch whose
first block has a stored parent; the window of 2 lets a reorganisation pass the whole window while an older block is stored. Two
reorganisations are the least in which the second meets the rollback of the first. `confirmations` is 0 in `indexer` and 1 in
`store`: 0 is the harder case for rollbacks, 1 shows blocks that are never indexed before they are replaced.
`MidBatch` says what a reorganisation may replace while headers are being read: `{"cursor"}`, a block at or below the cursor, in the
passing runs, and `{"batch"}`, blocks of the batch itself, in `mid_batch`; the code claims to survive both, and the last of the findings
is that it does not survive the second. Batches read one header per step. The console has one
operation, because the queue treats operations independently; scheduling it twice gives every row its
second life; the operation unfreezes the reserve, so that it meets the guardian's freeze. `monitor` has heads at the numbers
of `Blocks`: two numbers and no row at 0 give a rollback that takes all rows, some or none; rollbacks are counted with the changes
(`MaxChanges`). One market is enough for the order of its requests; that a snapshot holds *every* market is
proved (`SnapshotsComplete`). The two healths are the ones that raise alerts of different kinds. In `store` two reorganisations
can take an account out of the index and bring it back, or take it out twice, and the failure can undo a batch or a rollback while
a sweep runs.
The panel, the lens and the routes are read at one block: what may happen between that read and the block of the
transaction is another account's call, which `HealthyStaysHealthy` and the pool's own guards are about.

**Deadlock** is not checked for the pool and the oracle, whose clocks stop at `MaxTime`. It is checked in the runs of
the services, whose loops never end.

**Liveness and fairness.** Nothing in the contracts obliges an account to send a transaction, so nothing is assumed fair in
the pool; what the code does promise there, that a repayment or a debt-free withdrawal is never refused,
is the invariant `ExitsStayOpen`, over the acceptance conditions (`AcceptsRepay`, `AcceptsWithdraw`) that are also
the guards of the actions. The services are loops:

| Specification | Weak fairness of | Because |
|---|---|---|
| `Indexer!FairSpec` | `Step`, `NewBlock` | `run()` calls `tick` for ever and sleeps a bounded time after an error; the chain keeps producing blocks (up to `MaxHeight`) |
| `MonitoredStore!MFairSpec` | both processes and `NewBlock`, separately | two containers, restarted by their supervisor |
| `RiskMonitor!FairSpec` | `Step`, the two interval flags | the loop of `monitor.ts` catches every error; wall-clock intervals pass |
| `Console!FairSpec` | `Index`, `Query`, `onmessage` | the indexer's loop; react-query's 15 s timer while the page is in the foreground; a message in a socket's buffer is handled |

Nothing is assumed of faults, reorganisations, the operators, the wallet or reconnections: the queue settles by polling even when
the socket never comes back (`QueueSettles`), and all of these are bounded. `StaleFeedsRevive` and `AlertsSettle` make exceptions,
named in their comments, for feeds that revert for good. `OnlyReplacedDeleted` leaves out rollbacks after a lost request or a
second reorganisation; that what these delete comes back is `CatchesUp`.

Every property has a mutant in `PROJECT.json`: a plausible error in one definition (a truncated division, a
missing treasury share, a bit not cleared, a stale index in the write-off, a rollback that keeps the cursor, a
poll that stops after the first answer) that the run must catch.

**Findings.**

- `ReserveLogic.sol:96-97` and `docs/architecture.md:180-181` say that suppliers are never credited more than
  borrowers are charged. The supply rate is derived from a debt rounded up, so the interest of an interval
  can exceed what the borrow index charges by a rounding unit (`CreditedAtMostCharged`). The reserve stays
  solvent in every run, because every call's own rounding leaves a surplus: the sentence is too strong, the
  accounting is not broken.
- `docs/liquidations.md:85-87` says that a liquidator refused by the dust rule takes the whole position with
  `type(uint256).max`. Between health factors 0.95 and 1 a large position is capped at half of its debt first,
  and when the collateral leg is small that maximum is refused as well (`CoveringAllLeavesNoDust`); the
  liquidator must cover less, or wait.
- `indexer.ts:49-50` says that a batch whose logs and headers disagree is discarded. Only blocks with logs are
  compared (`indexer.ts:119-123`) and the last check reads the cursor's block (124-131). When a reorganisation
  between `getLogs` and the headers replaces a block without events by one with events, the new header is
  stored and the cursor moves over it, but its events are never read (`MirrorsOneHistory` in `mid_batch`).
  `getLogs` by block hash, or reading the logs again when a header is not the expected child, would close it.

**Divergences met while modelling, without a run of their own.** Each is excepted, by name, in the comment of the property it touches.

- `governance.ts:15-18` promises every timelocked operation with its status. `persist.ts:116` keeps the first row of an operation
  that is scheduled again after it was cancelled, and its old outcome, so it is shown as cancelled while it is pending
  (`QueueSettles`).
- `001_init.sql:7-8` says that market and risk snapshots "are measurements, not chain facts, and are never rolled back"; the indexer
  deletes them above the rollback point and at a redeployment (`indexer.ts:80,199,240-243`, and `docs/testing.md:264-270` says so).
- That rollback leaves the alerts, so `/risk/accounts` and `/risk/summary` disagree with `/risk/alerts` until the next sweep
  commits; it may also take some of the market rows of an interval whose timer has moved. `AlertsMatchLevels` is about the accounts the
  last sweep judged whose newest row is still that sweep's, and `SnapshotComplete` excepts intervals with deleted rows; that
  alerts and levels agree again is `AlertsSettle`.
- `indexer.ts:233-238` means the deletion to leave no rows of a chain that is gone. A sweep that read its accounts before a rollback
  and inserts after it, or read its head before the block that brought an account, writes rows that later rollbacks may
  not delete: an account that is no longer known stays in `/risk/accounts` for good, since no later sweep judges it.
  `ListedAreKnown` tells these rows apart (`indexed`); the alerts are put right by the next sweep (`RiskSettles`).
- `hooks.ts:26-27` and `live.ts:10-12` promise that a message refreshes its queries at once. A message that arrives during the page's
  first request is left to it (react-query cancels a running request only when the query has data), and when that
  request was answered before the commit, its answer stays until the 15 s poll. `NotLeftStale` excepts it.
- `waitForTransactionReceipt` resolves with the receipt of a replacement when the user cancels or replaces the pending call in the
  wallet (`wallet.tsx:54-64` offers MetaMask), and `tx.tsx:88-92` looks at its status alone: the page announces "Timelock operation executed"
  (`admin/page.tsx:311`) though nothing was. `SuccessIsMined` excepts replaced calls. Comparing the receipt's transaction hash
  with the one that was sent would close it.
- A failed receipt poll is shown as "Transaction not sent" (`tx.tsx:97-99`), although it was sent and may be mined (`SuccessIsMined` is about successes only).
- A feed that reverts makes every keeper tick throw (`priceKeeper.ts:41`), and the sweep behind it does not run
  (`backend/src/monitor.ts:36-40`); `StaleFeedsRevive` and `AlertsSettle` except it.
- `PoolLens.previewLiquidation` looks at neither the pauses nor the grace window; `CandidatesTakeable` excepts those states.
- The panel's projection counts a supply to a reserve whose collateral flag the user turned off (`frontend/src/lib/risk.ts:21-22`);
  `ProjectionMatches` excepts it.
- The panel refuses a withdrawal of an account without debt when the asset's own price is down (`actions.tsx:77`), which the
  pool accepts (`docs/architecture.md:245-247`); no property is about what the panel refuses too often.
- `maxRedeem` and `maxDeposit` of the vault may report an amount that is worth less than one unit of the pool's scaled balance, which
  the pool then refuses (`LimitsHonoured` excepts it, as it does a vault that holds more than a `uint256`).
- `PoolLens.sol:282-283` takes a millionth off what the free collateral allows, but nothing when the cash allows less than that: a
  maximum bounded by the cash has a margin only by chance. Nor is there enough in a maximum of so few units that a millionth of it,
  rounded up, is less than the rounding of one scaled balance or of one value (an index above a ray, a token unit worth less than
  a unit of account). That the haircut "guarantees a Max button always produces an executable transaction" (`docs/risk-model.md:91-92`) is
  true of the others: `Tight` names these and `SubmittableAccepted` excepts them.
- The panel knows neither the pool's pause nor the cap when it offers a supply, and offers an amount worth less than a scaled unit
  (`SubmittableAccepted` excepts these too).
- `monitor.ts:90` measures utilization jumps between snapshots, so a jump seen by a sweep whose snapshot then fails is compared anew, but one that
  comes and goes between two snapshots is never reported.
- The proposal form seeds its fields when the asset changes only (`admin/page.tsx:136-143`): a form open while another proposal is executed
  sends the old values of the fields it groups. `OwnFieldOnly` is about the setters. Besides the guardian's buttons, the timelock itself
may pause and unpause a reserve (`PoolConfigurator.setReservePaused`, 200-205), as an operation of `Call`.

## 5. Proofs

For every choice of the constants that satisfies the assumptions (`ScaleAssumption`, `YearAssumption`,
`AssetAssumption`, `LiquidationAssumption`, `PoolAssumption`): finite sets of users and assets, positive
scales, configurations the configurator accepts, rate models the constructor accepts. Of the vault
(`VaultAssumption`): any positive virtual offset, and a total supply of the token that is a `uint256`. Of the
panel (`PanelAssumption`): a total supply of each token below `MaxUint`, the pool's word for "all", since its cash
is a `uint128` (`DataTypes.sol:32`). Of the services (`IndexerAssumption`, `QueueAssumption`, `ConsoleAssumption`, `RulesAssumption`, `OracleAssumption`): any
contents of blocks, positive batch size, confirmations, operations, delay; ordered thresholds; a heartbeat of at
least two keeper intervals (the deployed ones are an hour or a day, `MarketConfig.sol:49,78,108`, the interval a
minute, `monitor.ts:22`; a keeper that polls more rarely cannot keep a feed fresh), and a clock that started
more than two heartbeats after the epoch. No bound of an instance is used.

| Module | Result |
|---|---|
| `PoolLibraries_proofs` | `BurnUpWithinBalance`, `BurnDownWithinDebt`: what a rounded amount burns is within the scaled balance, and a partial repayment never clears a debt; the fold behind the sums does not depend on the order (`SumUpdate`, `SumBound`, `SumMonotone`); `AccrueGrows`: indexes and treasury only grow; `ViewsAreAccrue`: the views compute what accrue stores; `HealthIsCover`, `EasedStaysHealthy`, `CapacityIsHealthy`: what a health factor of one means and what keeps it; `AmountsWithinBalances`, `SeizureWithinBonus`: a liquidation takes no more than there is, and no more than it pays for; `QuoteStable`: a quote for what a quote said is the same quote; `SumNear`: sums of near terms are near; `WriteOffKeeps` |
| `LendingPool_proofs` | `PoolInvariant`, and from it `TypeCorrect`, `BitmapCorrect`, `TotalsCorrect`, `CashCorrect`, `ViewsCorrect` |
| `PoolSafety_proofs` | `DebtSecured`: a borrower always has collateral flagged; `RatesAreCurrent`: stored rates are those of the present balances; `LossesFollowWaterfall`, `ReconfigurationNotRetroactive`, `EmergencyMatrixHolds`, `RoundingFavours`, `HealthyAccountsStay`: the action properties `LossWaterfall`, `ConfigNotRetroactive`, `EmergencyMatrix`, `RoundingFavoursPool`, `HealthyStaysHealthy`; `InterestCostsDust`, `SolventUpToDust`: what a reserve may ever lack; `HoldersKeep`: nobody's claim falls, and nobody's debt grows, by what others do; `ExitsOpen`: no repayment in full and no withdrawal of a lender without debt is refused |
| `Periphery_proofs` | `VaultInvariant`, and from it `CallsTakeNothing`: the action property `CallsNeverPay`; `VaultHonoursLimits`: the vault accepts what its limits report; `CandidatesAreTakeable`: the pool accepts a liquidation exactly when the preview says so; `SubmissionsAreAccepted`: the pool accepts what the panel lets a user submit; `PagesShowRatesAndDebts`: the conjuncts `BorrowCharted` and `DebtsListed` of `PagesMatchPool` |
| `Indexer_proofs` | `IndexerInvariant`, and from it `IndexerTypes`, `BlocksOfCursor`, `DeletesOnlyReplaced` and `ImplementsMirror` (the refinement of `EventMirror`); on the database shared with the monitor: `SharedStoreMirrors` and `ListedStayKnown` |
| `RiskMonitor_proofs` | `MonitorInvariant`, and from it `AlertsAgree`, `SnapshotsComplete` |
| `OracleFeeds_proofs` | `OracleInvariant`, and from it `KeeperKeepsFresh`, `MonitorSeesHalts`, `LabPricesHold` |
| `Console_proofs` | `ConsoleInvariant`, and from it `SuccessesAreMined`, `QueueNotLeftStale`, `OnlyOwnField` |

`TypeOK` is not inductive: a total that falls by a user's burn stays natural only if it is at least the
user's balance (`TotalsMatch`), a cleared bit is right only if bits matched balances (`BitmapInSync`),
tokens suffice only if they are the tracked cash (`CashMatchesTokens`), and accrual divides by indexes that
must be positive. `PoolInv` is the conjunction of these with `ReservesSane` (positive indexes and no
timestamp in the future for a listed reserve; no balance and no activity in an unlisted one). The proof has
one lemma per action. Actions that change one user in one reserve go through `AccountStep`, those that
change only a reserve through `ReserveStep`; `LiquidateKeeps` follows the code's order: accrued pair,
debt leg, collateral leg, credit, write-off.

`DebtSecured` adds one argument to the invariant: a valuation rounds a debt up at every step, so any debt in a
priced reserve is worth at least one unit, while the capacity of an account without collateral is 0; the checks
of `withdraw`, `setUseReserveAsCollateral` and `borrow` therefore refuse to leave one. A liquidation is not
checked, but writes off all debts when the last bit goes. `RatesAreCurrent` needs that every step leaves a reserve
as it was or ends in `UpdateRates`, and that `UpdateRates` is idempotent.

The four action properties need no further invariant: `PoolInv` holds before every step and one lemma per action
does the rest. `LossWaterfall`: accruing and rates leave the deficit, so only a write-off adds to it
(`WriteOffSpendsTreasury`), and a write-off happens only in a liquidation that takes the last collateral, which
clears every debt. `ConfigNotRetroactive`: only the two setters replace settings, and both accrue first, so that
the claims at that moment are those of `ViewsAreAccrue` before and after. `EmergencyMatrix`: the guards of each
call exclude what the matrix forbids; in a liquidation, supply moves in the collateral reserve alone, and the
debts of other reserves only fall. `RoundingFavoursPool`: each conversion is bounded by its division on the side
of the pool (`MovedGains` compares what a call adds in tokens, deficit and debt with the claims it adds), a
liquidation composes one gain per leg, and a write-off gains or breaks even (`WriteOffFavours`).

`HealthyStaysHealthy` compares an account before and after a call that values it in between through reserves in
several conditions: not yet accrued, accrued, with an amount booked, with new rates. At the time of the call all of
these give the same indexes (`Tracked`), so a call can be judged by the balances it leaves (`Judged`): each account
is no worse off, without debt, within its borrowing capacity, or was unhealthy before. The capacity implies health
because no configuration lends more than it liquidates at, which is the conjunct (`ThresholdsCover`) that the
invariant needs beyond `PoolInv`.

`Solvent` with a fixed `Dust` does not hold of every instance: an interval may credit more than it charges, as the
run `credited` shows. How much more is bounded (`AccrueCosts`). With the rates current, the supply rate times the
liabilities is at most the borrow rate times the debt *rounded up*, less the reserve factor, and the compounded
growth of the debt is at least the linear one. What is credited therefore exceeds what is charged by at most
`InterestDust`: the suppliers' share of the debt and of its growth factor, read as ray (less than a unit for a debt
below 10^27), and the treasury's share of one unit. Together with `RoundingFavoursPool`, no step costs a reserve
more than that (`SurplusFallsByDust`). `PoolSolvency` adds it up per reserve in `tolerance`, and `SolventUpToDust`
says that the reserves are solvent up to `Dust` as long as each of these sums is below `Dust + 1` units, whatever
calls, prices, write-offs and reconfigurations come.

`HoldersKeep` states what the deficit accounting is for: a loss is booked, never taken from the index, so a supplier's
claim falls only by its own withdrawal or a seizure from it, and a debt grows at one moment only by its own borrowing.
Within a block no step moves an index (`Tracked`), the supply index grows with time (`IncomeGrows`), and scaled
balances fall only in the calls the property names (`Undisturbed`).

**The vault.** Its calls are pool transactions of amounts that the pool's own specification does not enumerate, so
`PoolInv` is proved again for the composition, from the same lemmas, which are stated for every amount and payer.
One more fact is needed: an amount the vault withdraws is within the pool's cash, hence within the tokens in
circulation, which are conserved (`TokensConserved`) and at most `MaxUint`, so the pool never mistakes it for
"all". `CallsNeverPay` then is arithmetic: what a caller pays in is at least the worth of the minted shares at the
price before, and the vault's balance in the pool grows by no more than was paid (`EnteringGains`); on the way out
the burnt shares were worth at least what is paid, and the balance falls by no less (`LeavingGains`).

Sums over a set are folds with a choice of element, so their laws are proved first, by induction on finite
subsets through the library's well-founded order (the induction theorems with an operator parameter are not
used).

**The indexer.** Assumed besides: `"batch" \notin MidBatch`, that no block of a batch is replaced between the
read of its logs and the read of its last header. It is needed: without it the run `mid_batch` refutes
`MirrorsOneHistory`. Replacements of the cursor block or below may come at any
moment, but within one batch a replaced cursor block does not come back (`MayChange`). That the store shows
the cursor's history (`StoreMirrors`) is not inductive, because what a commit writes was read several steps
earlier. `TickSound` says what a tick may still rely on at each of its steps: while headers are read, *as long as
the cursor block is on the chain* so are the logs and every header read (`BatchOnChain`), because a replacement
below the batch replaces the cursor block too; the recheck of the cursor block after the headers turns the
condition into a fact, `BatchOfOneHistory`, that stays true of the chain's past and is what the commit needs. In a
reorganisation the candidates left to probe are stored blocks, so the ancestor found lies on the cursor's history
by `StoredBlocksOfCursor`, and the rollback to it is a `Retreat` of `EventMirror`. A sweep of the monitor writes
no variable of the indexer, so the invariant carries over to `MonitoredStore` as it is. `ListedAreKnown` says nothing of
block numbers and is not inductive: `RowSound` adds that the event which a row goes with has a number up to the row's own, so that one
comparison with the rollback's number deletes the row or keeps both; batches only add events. Histories are sequences: the lemmas on
ancestors, rows of logs and inserts come first.

What a rollback deletes is a matter of lineage (`Lineage`): up to the second reorganisation, every block the indexer
knows is on the chain or has left it for good, and the stored blocks above the ancestor that `handleReorg` has walked
past are among the latter, as long as no request was lost; what the window leaves out is older than all it holds
(`WindowIsNewest`). The three exceptions in `OnlyReplacedDeleted` are the three ways this fails; the last of them, a
walk that passes the whole window and resets the store, was found in the proof, and the run has a window in which it
occurs. `TypeOK` bounds what the instance enumerates
(`Bounded`).

**The console.** `SuccessIsMined` needs two facts about the past: a run's number is in no receipt and on no call
until its own call is sent (`OwnReceipt`), and what was mined, for a call that was not replaced (`replaced` only grows), stays as the call asked (`Mined`: an executed
operation is never scheduled again, a cancelled one only anew). `NotLeftStale` needs the same of an answer that is
on its way (`AnswerFollowed`): it was the tables' when it was read, and only a commit since then, which sends a
message or counts as missed, makes it differ; a message handled meanwhile restarts the request, or counts as missed when it is the
first. Every step is a `TimelockStep`, which leaves the tables, or the
indexer's; `OwnField` is proved of each `TimelockStep`.

**The monitor.** `AlertsMatchLevels` relates two tables that one transaction writes from what a sweep collected over
many requests. A set of findings *tells* the levels of accounts (`Tells`) when it has at most one finding of a kind
for a subject and exactly the alerts that those levels call for. The sweep's findings tell the levels of the accounts
judged so far, and the transaction replaces the stored alerts by them and inserts the levels under one number that is
the greatest of each account, so that the view `latest` shows them (`Inserted`). The stored alerts tell the levels of the
accounts judged (`Swept`, `Tables`); a rollback removes an account from these with its newest row, and leaves the
rest as they are (`RollbackKeeps`). `SnapshotComplete` needs that a sweep that writes market rows stays due until every market has one.

**The feeds.** `KeptFresh` rests on `Polled`: the keeper polls within its interval and leaves no feed older than half
a heartbeat, so with two intervals to a heartbeat none reaches its age before the next poll; it holds while nobody
simulates a stale or failing feed (`Undisturbed`). `HaltsAreSeen`: only age can turn a price that is usable at the
latest block into one the next transaction cannot use, and age is reported earlier, as going stale soon.
`ConfirmedPricesHold` rests on `Aligned`: a run of the lab that moves the price either is over, with both answers of
one price, or has still to set the secondary to the price that the primary already has.

**What is accepted.** Four theorems say that a call is not refused. The actions of `LendingPool` and `LendingVault` start
with named conditions (`AcceptsWithdraw`, `acceptsRedeem`, ...), so that acceptance is a state predicate and no `ENABLED`
is needed. `ExitsOpen` rests on `ExitInv`: besides `PoolInv`, a reserve that is listed but inactive holds no balance
(`InactiveIsEmpty`: the configurator switches a market off only while it is empty, and an inactive one takes nothing),
and a supply index is at least a ray (`IncomeAbovePar`), so that a balance is worth at least its scaled amount and never
rounds to nothing. `VaultHonoursLimits` adds `VaultDebtFree`: the vault never borrows, so none of its withdrawals
depends on a price; the rest is the roundings of ERC-4626 against those of the pool. `CandidatesAreTakeable` has two
halves: the preview's accrual in memory gives the reserves that the pool stores a moment later (`AccruedReserves`), and
the button sends the amount a first quote computed from "all", of which a second quote makes the same (`QuoteStable`).

`SubmissionsAreAccepted` is about maxima. A repayment or supply within the wallet is one comparison; a borrow and a
withdrawal must pass the pool's health check *after* the call, computed with values that round up where the panel's
rounded down. `Rounding` and `ValueRounding` bound what a scaled balance and a value may add to an amount, the haircut
of a millionth is at least as much unless `Tight`, and then what is left over covers the call (`CapacityLeft`,
`DebtAdded`, `WithinSpare`, `HaircutCovers`). A typed amount that happened to equal `MaxUint` would be read as "all": no
wallet holds that many tokens, because they are conserved (`TokensConserved`).

Proving these changed what they say. As first written for the run `risk`, `SubmittableAccepted` and `LimitsHonoured`
held without interest and did not hold of every instance; the exceptions they name now are the cases that the proofs
could not close, each a real one of the code (see the divergences).

**Only model-checked.** Liveness is out of the prover's reach: `CatchesUp`, `AlertsSettle`, `StaleFeedsRevive` and
`QueueSettles` and `RiskSettles` rest on fairness. `ProjectionMatches` and two conjuncts of `PagesMatchPool` hold on the instance, but not
of every instance: `TotalsAddUp` compares the liabilities of a market with what backs them, and the surplus that
the roundings of calls leave the pool (`RoundingFavours`) grows with their number once there is interest; `SupplyCharted`
asks for a point of the chart, whose points are multiples of a step, at the present utilization, and compares products
truncated in different orders; the projection does the same with a whole account. The run `risk` has no interest, so
that it shows there what the pages decide rather than what they round.

## 6. Not modelled

- Overflow of 256-bit products and of the `uint128` casts: `docs/security.md` bounds the operands; the model's
  naturals have no width. `MAX_RESERVES` and the ids are the finite set `Asset`.
- `setOracle` only changes future answers of `getPrice`, which `SetPrice` changes freely.
- Zero amounts and zero addresses, which every entry point refuses, are not enumerated.
- Events, view functions that only return storage, gas measures such as the price capture.
- Direct transfers of tokens to the pool: the tracked cash ignores them by design, so `CashMatchesTokens` is
  the statement for a pool nobody donates to.
- Roles of `ACLManager` and who may hold them: the model's configurator, guardian and timelock are whoever the roles name.
- Transfers and allowances of vault shares and token approvals, which are OpenZeppelin's.
- Share prices under donations are in `LendingVault` but outside the instance (see bounds).
- Decoding of logs into the many event tables: an event is a row keyed by its transaction and block; handler-by-handler projections, the migrations and
  their advisory lock, SQL over past events (history, analytics, executed liquidations) have no state that another part writes back.
- Wallet connection, rendering, charts, wording of errors, number formatting (except `formatUnitsExact` and `parseAmount`, which carry an
  amount from the panel to the call), parsing of query parameters.
- Deployment scripts, containers and tests, which run once or outside the system.
