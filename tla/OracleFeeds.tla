---------------------------- MODULE OracleFeeds ----------------------------
(***************************************************************************)
(* One asset's price: two aggregators, the OracleManager that resolves     *)
(* them, the keeper that posts mock answers again before they go stale and *)
(* the oracle lab of the admin page that moves them, every button a run of *)
(* transactions.  Time is a wall clock and the time of the latest block,   *)
(* which lags behind on a quiet chain: reads of the API are made at the    *)
(* latest block, the next transaction runs at the wall clock.              *)
(***************************************************************************)
EXTENDS RiskRules, Sequences

CONSTANTS
    primary, secondary,
    Scale,              \* 10^10: the secondary has 18 decimals, the primary 8
    BPS, MAX_ANSWER,    \* 10000 and 2^128 - 1
    heartbeat, keeperEvery,
    Configs,            \* what setAssetOracle may install
    Input,              \* prices typed into the lab
    Start, MaxTime,     \* of the clock
    MaxClicks, MaxFailures

Feed == {primary, secondary}
Configured(c) ==        \* setAssetOracle's validation
    /\ 0 < c.minPrice /\ c.minPrice < c.maxPrice
    /\ IF c.secondary THEN 0 < c.maxDeviationBps /\ 5 * c.maxDeviationBps <= BPS
                      ELSE c.maxDeviationBps = 0

ASSUME OracleAssumption ==
    /\ primary # secondary /\ {Scale, BPS, heartbeat} \subseteq Nat \ {0}
    /\ {keeperEvery, Start, MaxTime, MAX_ANSWER} \subseteq Nat
    /\ 2 * keeperEvery <= heartbeat /\ 2 * heartbeat < Start /\ Start <= MaxTime
    /\ Input \subseteq 1..MAX_ANSWER
    /\ Configs \subseteq [secondary : BOOLEAN, maxDeviationBps : Nat,
                          minPrice : 0..MAX_ANSWER, maxPrice : 0..MAX_ANSWER]   \* uint128

VARIABLES
    wall, head,         \* the clock and the time of the latest block
    feed,               \* [answer, updatedAt, reverting] of each aggregator
    config, paused,     \* AssetOracleConfig
    keeper,             \* [on: PRICE_KEEPER_ENABLED, ran: in this round of its loop,
                        \*  feeds: left to read, poke: read as old, last]
    view,               \* what the admin page shows: the primary's answer, down, paused, evaluatedAt
    run,                \* [label, steps] of the transactor, and the label it confirmed last
    clicks, failures

vars == <<wall, head, feed, config, paused, keeper, view, run, clicks, failures>>

----
(* OracleManager *)

Price(f, answer) == IF f = primary THEN answer * Scale ELSE answer

_readFeed(f, at) ==
    IF f = secondary /\ ~config.secondary THEN "NOT_CONFIGURED"
    ELSE IF feed[f].reverting THEN "CALL_FAILED"
    ELSE IF feed[f].answer <= 0 \/ feed[f].answer > MAX_ANSWER THEN "INVALID_ANSWER"
    ELSE IF feed[f].updatedAt = 0 THEN "INCOMPLETE_ROUND"
    ELSE IF feed[f].updatedAt > at THEN "FUTURE_TIMESTAMP"
    ELSE IF at - feed[f].updatedAt > heartbeat THEN "STALE"
    ELSE IF Price(f, feed[f].answer) \notin config.minPrice..config.maxPrice THEN "OUT_OF_BOUNDS"
    ELSE "OK"

_deviates(a, b) ==
    Apart(a, b) * BPS > (IF a < b THEN a ELSE b) * config.maxDeviationBps

_evaluate(at) ==
    LET p == _readFeed(primary, at) = "OK"
        s == _readFeed(secondary, at) = "OK"
    IN IF paused THEN "PAUSED"
       ELSE IF p /\ s THEN IF _deviates(Price(primary, feed[primary].answer),
                                        Price(secondary, feed[secondary].answer))
                           THEN "DEVIATION" ELSE "OK"
       ELSE IF p THEN IF config.secondary THEN "OK_PRIMARY_ONLY" ELSE "OK"
       ELSE IF s THEN "OK_FALLBACK" ELSE "UNAVAILABLE"

Trusted == {"OK", "OK_PRIMARY_ONLY", "OK_FALLBACK"}

Init ==
    /\ wall = Start /\ head = Start
    /\ \E a \in Input : feed = [f \in Feed |->
          [answer |-> IF f = primary THEN a ELSE a * Scale, updatedAt |-> Start, reverting |-> FALSE]]
    /\ config \in {c \in Configs : c.secondary /\ Configured(c)} /\ paused = FALSE
    /\ \E on \in BOOLEAN : keeper = [on |-> on, ran |-> TRUE, feeds |-> <<>>, poke |-> FALSE, last |-> Start]
    /\ view = [answer |-> feed[primary].answer, down |-> FALSE, paused |-> FALSE, evaluatedAt |-> Start]
    /\ run = [label |-> "none", steps |-> <<>>, confirmed |-> "none"]
    /\ clicks = {} /\ failures = 0

(* A transaction is mined: at the wall clock. *)
_pushRound(f, answer, updatedAt) ==
    /\ feed' = [feed EXCEPT ![f].answer = answer, ![f].updatedAt = updatedAt]
    /\ head' = wall

----
(* The monitor process: one round of its loop a tick; MockPriceKeeper.tick *)

Tick ==
    /\ wall < MaxTime /\ keeper.ran /\ keeper.feeds = <<>>
    /\ wall' = wall + 1 /\ keeper' = [keeper EXCEPT !.ran = ~keeper.on]
    /\ UNCHANGED <<head, feed, config, paused, view, run, clicks, failures>>

keeperRound ==
    /\ ~keeper.ran
    /\ keeper' = [keeper EXCEPT !.ran = TRUE,
           !.feeds = IF wall - keeper.last >= keeperEvery THEN <<primary, secondary>> ELSE <<>>]
    /\ UNCHANGED <<wall, head, feed, config, paused, view, run, clicks, failures>>

OldTooLate(f) == wall - feed[f].updatedAt >= heartbeat
Old(f) == 2 * (wall - feed[f].updatedAt) >= heartbeat

(* latestRoundData of the next feed: one that reverts ends the tick. *)
keeperRead ==
    /\ keeper.feeds # <<>> /\ ~keeper.poke
    /\ LET f == Head(keeper.feeds)
           rest == Tail(keeper.feeds)
       IN keeper' = IF feed[f].reverting THEN [keeper EXCEPT !.feeds = <<>>]
                    ELSE IF Old(f) THEN [keeper EXCEPT !.poke = TRUE]
                    ELSE [keeper EXCEPT !.feeds = rest, !.last = IF rest = <<>> THEN wall ELSE @]
    /\ UNCHANGED <<wall, head, feed, config, paused, view, run, clicks, failures>>

poke ==
    /\ keeper.poke
    /\ LET f == Head(keeper.feeds)
           rest == Tail(keeper.feeds)
       IN /\ _pushRound(f, feed[f].answer, wall)
          /\ keeper' = [keeper EXCEPT !.poke = FALSE, !.feeds = rest,
                                      !.last = IF rest = <<>> THEN wall ELSE @]
    /\ UNCHANGED <<wall, config, paused, view, run, clicks, failures>>

----
(* The admin page *)

(* /oracle/prices and latestAnswer, every few seconds. *)
refresh ==
    /\ view' = [answer |-> feed[primary].answer,
                down |-> _readFeed(primary, head) = "CALL_FAILED",
                paused |-> paused, evaluatedAt |-> wall]
    /\ UNCHANGED <<wall, head, feed, config, paused, keeper, run, clicks, failures>>

Rounded(n, d) == (2 * n + d) \div (2 * d)
Set(f, answer) == [op |-> "setAnswer", feed |-> f, answer |-> answer, at |-> 0]
setPrimary(price) == <<Set(primary, price)>>
setPrice(price) == <<Set(primary, price), Set(secondary, price * Scale)>>

Button(label, steps) ==
    /\ run.steps = <<>> /\ label \notin clicks /\ Cardinality(clicks) < MaxClicks
    /\ clicks' = clicks \cup {label}
    /\ run' = [label |-> label, steps |-> steps, confirmed |-> "none"]
    /\ UNCHANGED <<wall, head, feed, config, paused, keeper, view, failures>>

OracleRow ==
    LET price == view.answer
        stale == view.evaluatedAt - 2 * heartbeat
    IN \/ \E p \in Input : Button("Set", setPrice(p))
       \/ /\ price > 0
          /\ \/ Button("-30%", setPrice(Rounded(price * 7, 10)))
             \/ Button("+10%", setPrice(Rounded(price * 11, 10)))
             \/ Button("Stale", <<[op |-> "setAnswer", feed |-> primary, answer |-> price, at |-> stale],
                                  [op |-> "setAnswer", feed |-> secondary, answer |-> price * Scale, at |-> stale]>>)
             \/ Button("Deviate", <<Set(secondary, Rounded(price * 105, 100) * Scale)>>)
             \/ Button("Heal", setPrice(price))
       \/ Button(IF view.down THEN "Restore" ELSE "Outage",
                 <<[op |-> "setReverting", feed |-> primary, to |-> ~view.down]>>)
       \/ Button(IF view.paused THEN "Resume" ELSE "Trip",
                 <<[op |-> "setAssetPaused", to |-> ~view.paused]>>)

(* A step of the run is mined; after the last the page reads everything again. *)
Mine ==
    /\ run.steps # <<>>
    /\ LET step == Head(run.steps)
           rest == Tail(run.steps)
       IN /\ run' = [run EXCEPT !.steps = rest, !.confirmed = IF rest = <<>> THEN run.label ELSE "none"]
          /\ head' = wall
          /\ \/ /\ step.op = "setAnswer"
                /\ _pushRound(step.feed, step.answer, IF step.at = 0 THEN wall ELSE step.at)
                /\ UNCHANGED paused
             \/ /\ step.op = "setReverting"
                /\ feed' = [feed EXCEPT ![step.feed].reverting = step.to]
                /\ UNCHANGED paused
             \/ /\ step.op = "setAssetPaused" /\ paused' = step.to /\ UNCHANGED feed
    /\ UNCHANGED <<wall, config, keeper, view, clicks, failures>>

(* The wallet or the chain refuses: the steps before it stand, the rest is dropped. *)
Refuse ==
    /\ run.steps # <<>> /\ failures < MaxFailures
    /\ failures' = failures + 1
    /\ run' = [run EXCEPT !.steps = <<>>]
    /\ UNCHANGED <<wall, head, feed, config, paused, keeper, view, clicks>>

(* A queued change of the timelock; reconfiguring keeps the guardian's pause. *)
setAssetOracle ==
    /\ "setAssetOracle" \notin clicks /\ Cardinality(clicks) < MaxClicks
    /\ clicks' = clicks \cup {"setAssetOracle"}
    /\ config' \in {c \in Configs : Configured(c)} /\ head' = wall
    /\ UNCHANGED <<wall, feed, paused, keeper, view, run, failures>>

Next == Tick \/ keeperRound \/ keeperRead \/ poke \/ refresh \/ OracleRow \/ Mine \/ Refuse \/ setAssetOracle
Spec == Init /\ [][Next]_vars

----
(* The reader's answers at the latest block, aged as effectiveNow does, as the *)
(* monitor's rules see them.                                                   *)
latestBlockTime == head
effectiveNow == IF head > wall THEN head ELSE wall
OracleFindings ==
    evaluateMarket([utilization |-> 0, totalSupplied |-> 0, cash |-> 0, deficit |-> 0,
                    priceStatus |-> _evaluate(head), heartbeat |-> heartbeat,
                    age |-> IF feed[primary].reverting THEN {} ELSE {effectiveNow - feed[primary].updatedAt}],
                   {}, primary)

(* "The poke must happen before the NEXT transaction sees a stale price": no   *)
(* transaction sees one while the keeper runs and nobody simulates a stale or  *)
(* failing feed.                                                               *)
KeptFresh ==
    keeper.on /\ clicks \cap {"Stale", "Outage"} = {} =>
        \A f \in Feed : wall - feed[f].updatedAt <= heartbeat

(* A price the next transaction cannot use shows in the monitor's findings     *)
(* before any transaction meets it, on a quiet chain too.                      *)
HaltsAreSeen == _evaluate(wall) \notin Trusted => OracleFindings # {}

(* "Moves every configured feed of the asset together, so the deviation check  *)
(* passes": once the page has confirmed a price, the pool trusts that price    *)
(* until something else happens to the feeds or a heartbeat has passed.        *)
Moves == {"Set", "-30%", "+10%", "Heal"}
ConfirmedPricesHold ==
    /\ run.confirmed \in Moves
    /\ ~paused
    /\ \A f \in Feed : ~feed[f].reverting /\ wall - feed[f].updatedAt <= heartbeat
    /\ Price(primary, feed[primary].answer) \in config.minPrice..config.maxPrice
    => _evaluate(wall) \in Trusted
=============================================================================
