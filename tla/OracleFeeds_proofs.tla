-------------------------- MODULE OracleFeeds_proofs --------------------------
(***************************************************************************)
(* The keeper, the monitor's findings and the oracle lab keep their        *)
(* promises about a price for every heartbeat, keeper interval, set of     *)
(* configurations and input, whatever is clicked, refused or reconfigured. *)
(***************************************************************************)
EXTENDS OracleFeeds, TLAPS

----
(* Runs of transactions. *)

Positive == Nat \ {0}

\* A transaction the page may send when the clock shows t, and one that neither
\* ages a feed nor makes it fail.
Op(t) == [op : {"setAnswer"}, feed : Feed, answer : Positive, at : 0..t]
         \cup [op : {"setReverting"}, feed : Feed, to : BOOLEAN]
         \cup [op : {"setAssetPaused"}, to : BOOLEAN]
Harmless == [op : {"setAnswer"}, feed : Feed, answer : Positive, at : {0}]
            \cup [op : {"setReverting"}, feed : Feed, to : {FALSE}]
            \cup [op : {"setAssetPaused"}, to : BOOLEAN]

Runs(S) == {<<>>} \cup {<<a>> : a \in S} \cup {<<a, b>> : a \in S, b \in S}

LEMMA RunParts ==
    ASSUME NEW S, NEW steps \in Runs(S), steps # <<>>
    PROVE  Head(steps) \in S /\ Tail(steps) \in Runs(S)
<1>1. CASE \E a \in S : steps = <<a>>
  BY <1>1 DEF Runs
<1>2. CASE \E a, b \in S : steps = <<a, b>>
  <2>1. PICK a \in S, b \in S : steps = <<a, b>>
    BY <1>2
  <2>2. Head(steps) = a /\ Tail(steps) = <<b>>
    BY <2>1
  <2> QED BY <2>2 DEF Runs
<1> QED BY <1>1, <1>2 DEF Runs

LEMMA PairRuns ==
    ASSUME NEW S, NEW a \in S, NEW b \in S
    PROVE  <<a>> \in Runs(S) /\ <<a, b>> \in Runs(S)
BY DEF Runs

LEMMA SetOps ==
    ASSUME NEW t \in Nat, NEW f \in Feed, NEW answer \in Positive
    PROVE  Set(f, answer) \in Op(t) /\ Set(f, answer) \in Harmless
<1>1. Set(f, answer) \in [op : {"setAnswer"}, feed : Feed, answer : Positive, at : 0..t]
  BY DEF Set
<1>2. Set(f, answer) \in [op : {"setAnswer"}, feed : Feed, answer : Positive, at : {0}]
  BY DEF Set
<1> QED BY <1>1, <1>2, Zenon DEF Op, Harmless

\* The price a row of the lab computes is positive.
LEMMA RoundedPositive ==
    ASSUME NEW p \in Positive
    PROVE  /\ Rounded(p * 7, 10) \in Positive /\ Rounded(p * 11, 10) \in Positive
           /\ Rounded(p * 105, 100) \in Positive
BY DEF Rounded, Positive

LEMMA ScaledPositive ==
    ASSUME NEW p \in Positive
    PROVE  p * Scale \in Positive
BY OracleAssumption DEF OracleAssumption, Positive

----
(* The clock, the feeds and what the page holds. *)

Label == {"none", "Set", "-30%", "+10%", "Stale", "Deviate", "Heal", "Restore", "Outage", "Resume", "Trip"}

Round == [answer : Positive, updatedAt : Positive, reverting : BOOLEAN]
Keeper == [on : BOOLEAN, ran : BOOLEAN, poke : BOOLEAN, last : Nat,
           feeds : {<<>>, <<primary, secondary>>, <<secondary>>}]
View(t) == [answer : Positive, down : BOOLEAN, paused : BOOLEAN, evaluatedAt : Start..t]
Transactor(t) == [label : Label, steps : Runs(Op(t)), confirmed : Label]

Sound ==
    /\ wall \in Nat /\ head \in Nat /\ Start <= head /\ head <= wall
    /\ feed \in [Feed -> Round] /\ \A f \in Feed : feed[f].updatedAt <= head
    /\ config \in Configs /\ Configured(config) /\ paused \in BOOLEAN
    /\ keeper \in Keeper
    /\ keeper.poke => keeper.feeds # <<>>
    /\ keeper.feeds # <<>> => keeper.ran
    /\ view \in View(wall) /\ run \in Transactor(wall)

\* What a transaction writes to the feeds: at most the answer, the time and the
\* failing of one.
Writes(f, answer, updatedAt, reverting) ==
    /\ feed' \in [Feed -> Round]
    /\ \A g \in Feed : feed'[g].updatedAt <= wall
    /\ \A g \in Feed \ {f} : feed'[g] = feed[g]
    /\ feed'[f].answer = answer /\ feed'[f].updatedAt = updatedAt /\ feed'[f].reverting = reverting

LEMMA PushWrites ==
    ASSUME Sound, NEW f \in Feed, NEW answer \in Positive, NEW updatedAt \in Positive,
           updatedAt <= wall, _pushRound(f, answer, updatedAt)
    PROVE  Writes(f, answer, updatedAt, feed[f].reverting)
<1>1. feed \in [Feed -> Round] /\ \A g \in Feed : feed[g].updatedAt <= wall
  <2>1. feed \in [Feed -> Round] /\ wall \in Nat /\ head \in Nat /\ head <= wall
    BY DEF Sound, Round
  <2>2. \A g \in Feed : feed[g].updatedAt \in Nat /\ feed[g].updatedAt <= head
    BY <2>1 DEF Sound, Round, Positive
  <2> QED BY <2>1, <2>2
<1>2. feed' = [feed EXCEPT ![f].answer = answer, ![f].updatedAt = updatedAt]
  BY DEF _pushRound
<1>3. /\ DOMAIN feed' = Feed
      /\ \A g \in Feed \ {f} : feed'[g] = feed[g]
      /\ feed'[f] = [[feed[f] EXCEPT !.answer = answer] EXCEPT !.updatedAt = updatedAt]
  BY <1>1, <1>2
<1>4. feed[f] \in Round
  BY <1>1
<1>5. /\ feed'[f] \in Round /\ feed'[f].answer = answer /\ feed'[f].updatedAt = updatedAt
      /\ feed'[f].reverting = feed[f].reverting
  BY <1>3, <1>4 DEF Round
<1>6. \A g \in Feed : feed'[g] \in Round /\ feed'[g].updatedAt <= wall
  BY <1>1, <1>3, <1>5
<1>7. feed' \in [Feed -> Round]
  <2>1. feed' = [g \in Feed |-> feed'[g]]
    BY <1>2, <1>3
  <2> QED BY <1>6, <2>1
<1> QED BY <1>3, <1>5, <1>6, <1>7 DEF Writes

LEMMA RevertingWrites ==
    ASSUME Sound, NEW f \in Feed, NEW to \in BOOLEAN, feed' = [feed EXCEPT ![f].reverting = to]
    PROVE  Writes(f, feed[f].answer, feed[f].updatedAt, to)
<1>1. feed \in [Feed -> Round] /\ \A g \in Feed : feed[g].updatedAt <= wall
  <2>1. feed \in [Feed -> Round] /\ wall \in Nat /\ head \in Nat /\ head <= wall
    BY DEF Sound, Round
  <2>2. \A g \in Feed : feed[g].updatedAt \in Nat /\ feed[g].updatedAt <= head
    BY <2>1 DEF Sound, Round, Positive
  <2> QED BY <2>1, <2>2
<1>2. /\ feed' \in [Feed -> Round]
      /\ \A g \in Feed \ {f} : feed'[g] = feed[g]
      /\ feed'[f].answer = feed[f].answer /\ feed'[f].updatedAt = feed[f].updatedAt
      /\ feed'[f].reverting = to
  BY <1>1 DEF Round
<1>3. \A g \in Feed : feed'[g].updatedAt <= wall
  BY <1>1, <1>2
<1> QED BY <1>2, <1>3 DEF Writes

\* Runs and views stay what they were as time passes.
LEMMA LaterRuns ==
    ASSUME NEW t \in Nat, NEW u \in Nat, t <= u
    PROVE  Runs(Op(t)) \subseteq Runs(Op(u)) /\ View(t) \subseteq View(u)
           /\ Transactor(t) \subseteq Transactor(u)
<1>1. Op(t) \subseteq Op(u)
  <2>1. 0..t \subseteq 0..u
    OBVIOUS
  <2> QED BY <2>1 DEF Op
<1>2. Runs(Op(t)) \subseteq Runs(Op(u))
  BY <1>1 DEF Runs
<1>3. View(t) \subseteq View(u)
  <2>1. Start..t \subseteq Start..u
    BY OracleAssumption DEF OracleAssumption
  <2> QED BY <2>1 DEF View
<1>4. Transactor(t) \subseteq Transactor(u)
  BY <1>2 DEF Transactor
<1> QED BY <1>2, <1>3, <1>4

\* What a button sends: positive prices, no time to come, and neither an old nor
\* a failing feed unless it says so; the buttons that move the price set both.
LEMMA ButtonSends ==
    ASSUME Sound, OracleRow
    PROVE  \E label \in Label \ {"none"} : \E steps \in Runs(Op(wall)) :
             /\ Button(label, steps)
             /\ label \in Moves => \E p \in Positive : steps = setPrice(p)
             /\ label \notin {"Stale", "Outage"} => steps \in Runs(Harmless)
<1> DEFINE price == view.answer
           stale == view.evaluatedAt - 2 * heartbeat
           Sends(label, steps) ==
             /\ Button(label, steps)
             /\ label \in Moves => \E p \in Positive : steps = setPrice(p)
             /\ label \notin {"Stale", "Outage"} => steps \in Runs(Harmless)
<1>1. /\ wall \in Nat /\ price \in Positive /\ view.down \in BOOLEAN /\ view.paused \in BOOLEAN
      /\ view.evaluatedAt \in Start..wall
  BY DEF Sound, View
<1>2. stale \in 0..wall
  BY <1>1, OracleAssumption DEF OracleAssumption
<1>3. primary \in Feed /\ secondary \in Feed /\ Input \subseteq Positive
  BY OracleAssumption DEF OracleAssumption, Feed, Positive
<1>4. ASSUME NEW p \in Positive PROVE setPrice(p) \in Runs(Op(wall)) /\ setPrice(p) \in Runs(Harmless)
  <2>1. p * Scale \in Positive
    BY ScaledPositive
  <2>2. /\ Set(primary, p) \in Op(wall) /\ Set(secondary, p * Scale) \in Op(wall)
        /\ Set(primary, p) \in Harmless /\ Set(secondary, p * Scale) \in Harmless
    BY <1>1, <1>3, <2>1, SetOps
  <2>3. setPrice(p) = <<Set(primary, p), Set(secondary, p * Scale)>>
    BY DEF setPrice
  <2> QED BY <2>2, <2>3, PairRuns
<1>5. ASSUME NEW p \in Positive, NEW label \in Moves, Button(label, setPrice(p))
      PROVE  label \in Label \ {"none"} /\ setPrice(p) \in Runs(Op(wall)) /\ Sends(label, setPrice(p))
  BY <1>4, <1>5 DEF Moves, Label
<1>6. CASE \E p \in Input : Button("Set", setPrice(p))
  BY <1>3, <1>5, <1>6 DEF Moves
<1>7. CASE \/ Button("-30%", setPrice(Rounded(price * 7, 10)))
           \/ Button("+10%", setPrice(Rounded(price * 11, 10)))
           \/ Button("Heal", setPrice(price))
  <2>1. Rounded(price * 7, 10) \in Positive /\ Rounded(price * 11, 10) \in Positive
    BY <1>1, RoundedPositive
  <2> HIDE DEF price
  <2> QED BY <1>1, <1>5, <1>7, <2>1 DEF Moves
<1> DEFINE aged == <<[op |-> "setAnswer", feed |-> primary, answer |-> price, at |-> stale],
                     [op |-> "setAnswer", feed |-> secondary, answer |-> price * Scale, at |-> stale]>>
<1>8. CASE Button("Stale", aged)
  <2>1. price * Scale \in Positive
    BY <1>1, ScaledPositive
  <2>2. /\ [op |-> "setAnswer", feed |-> primary, answer |-> price, at |-> stale] \in Op(wall)
        /\ [op |-> "setAnswer", feed |-> secondary, answer |-> price * Scale, at |-> stale] \in Op(wall)
    BY <1>1, <1>2, <1>3, <2>1 DEF Op
  <2>3. aged \in Runs(Op(wall))
    BY <2>2, PairRuns
  <2>4. "Stale" \in Label \ {"none"} /\ "Stale" \notin Moves
    BY DEF Label, Moves
  <2> QED BY <1>8, <2>3, <2>4
<1> DEFINE deviating == <<Set(secondary, Rounded(price * 105, 100) * Scale)>>
<1>9. CASE Button("Deviate", deviating)
  <2>1. Rounded(price * 105, 100) * Scale \in Positive
    BY <1>1, RoundedPositive, ScaledPositive
  <2>2. /\ Set(secondary, Rounded(price * 105, 100) * Scale) \in Op(wall)
        /\ Set(secondary, Rounded(price * 105, 100) * Scale) \in Harmless
    BY <1>1, <1>3, <2>1, SetOps
  <2>3. deviating \in Runs(Op(wall)) /\ deviating \in Runs(Harmless)
    BY <2>2 DEF Runs
  <2>4. "Deviate" \in Label \ {"none"} /\ "Deviate" \notin Moves
    BY DEF Label, Moves
  <2> QED BY <1>9, <2>3, <2>4
<1> DEFINE failing == <<[op |-> "setReverting", feed |-> primary, to |-> ~view.down]>>
           outage == IF view.down THEN "Restore" ELSE "Outage"
<1>10. CASE Button(outage, failing)
  <2>1. /\ [op |-> "setReverting", feed |-> primary, to |-> ~view.down] \in Op(wall)
        /\ view.down => [op |-> "setReverting", feed |-> primary, to |-> ~view.down] \in Harmless
    BY <1>1, <1>3 DEF Op, Harmless
  <2>2. failing \in Runs(Op(wall)) /\ (view.down => failing \in Runs(Harmless))
    BY <2>1 DEF Runs
  <2>3. /\ outage \in Label \ {"none"} /\ outage \notin Moves
        /\ outage \notin {"Stale", "Outage"} => view.down
    BY DEF Label, Moves
  <2> HIDE DEF failing, outage
  <2> QED BY <1>10, <2>2, <2>3
<1> DEFINE pausing == <<[op |-> "setAssetPaused", to |-> ~view.paused]>>
           trip == IF view.paused THEN "Resume" ELSE "Trip"
<1>11. CASE Button(trip, pausing)
  <2>1. /\ [op |-> "setAssetPaused", to |-> ~view.paused] \in Op(wall)
        /\ [op |-> "setAssetPaused", to |-> ~view.paused] \in Harmless
    BY <1>1 DEF Op, Harmless
  <2>2. pausing \in Runs(Op(wall)) /\ pausing \in Runs(Harmless)
    BY <2>1 DEF Runs
  <2>3. trip \in Label \ {"none"} /\ trip \notin Moves
    BY DEF Label, Moves
  <2> HIDE DEF pausing, trip
  <2> QED BY <1>11, <2>2, <2>3
<1> QED BY <1>6, <1>7, <1>8, <1>9, <1>10, <1>11 DEF OracleRow

----
(* The invariant. *)

\* A run of a button that moves the price sets the primary, then the secondary to
\* the same price; once the page confirms it, the answers are of one price.
Aligned ==
    /\ run.steps # <<>> => run.confirmed = "none"
    /\ run.label \in Moves /\ run.steps # <<>> => \E p \in Positive :
         \/ run.steps = setPrice(p)
         \/ run.steps = <<Set(secondary, p * Scale)>> /\ feed[primary].answer = p
    /\ run.confirmed \in Moves => feed[secondary].answer = feed[primary].answer * Scale

\* The keeper's loop polls the feeds before more than an interval has passed since
\* it did, and leaves none older than half a heartbeat.
Interval == IF keeperEvery = 0 THEN 1 ELSE keeperEvery
Undisturbed == keeper.on /\ clicks \cap {"Stale", "Outage"} = {}

Polled ==
    /\ \A f \in Feed : ~feed[f].reverting /\ 2 * (keeper.last - feed[f].updatedAt) < heartbeat
    /\ run.steps \in Runs(Harmless)
    /\ keeper.last <= wall /\ wall - keeper.last <= Interval
    /\ keeper.ran /\ keeper.feeds = <<>> => wall - keeper.last < Interval
    /\ keeper.feeds = <<secondary>> => 2 * (wall - feed[primary].updatedAt) < heartbeat

OracleInv == Sound /\ Aligned /\ (Undisturbed => Polled)

LEMMA Constants ==
    /\ {heartbeat, Scale, BPS} \subseteq Nat \ {0} /\ keeperEvery \in Nat
    /\ Start \in Positive /\ Start \in Nat
    /\ Interval \in Nat \ {0} /\ 2 * Interval <= heartbeat + 1
    /\ keeperEvery <= Interval
    /\ primary # secondary /\ Feed = {primary, secondary} /\ Input \subseteq Positive
BY OracleAssumption DEF OracleAssumption, Interval, Feed, Positive

LEMMA FeedTimes ==
    ASSUME Sound, NEW f \in Feed
    PROVE  /\ feed[f] \in Round /\ feed[f].updatedAt \in Positive /\ feed[f].answer \in Positive
           /\ feed[f].updatedAt \in Nat /\ feed[f].updatedAt <= wall
           /\ feed[f].updatedAt <= head /\ wall \in Nat /\ head \in Nat /\ keeper.last \in Nat
<1>1. feed[f] \in Round /\ wall \in Nat /\ head \in Nat /\ keeper.last \in Nat
  BY DEF Sound, Keeper
<1>2. feed[f].updatedAt \in Positive /\ feed[f].answer \in Positive
  BY <1>1 DEF Round
<1> QED BY <1>1, <1>2 DEF Sound, Positive

\* What is left of Sound when the feeds stay, and when a transaction wrote them.
LEMMA SameFeeds ==
    ASSUME Sound, UNCHANGED <<wall, feed>>, head' = head \/ head' = wall
    PROVE  /\ wall' \in Nat /\ head' \in Nat /\ Start <= head' /\ head' <= wall'
           /\ feed' \in [Feed -> Round] /\ \A f \in Feed : feed'[f].updatedAt <= head'
<1>1. /\ wall \in Nat /\ head \in Nat /\ head <= wall /\ Start <= head /\ Start \in Nat
      /\ feed \in [Feed -> Round] /\ \A f \in Feed : feed[f].updatedAt <= head
  BY Constants DEF Sound
<1>2. \A f \in Feed : feed[f].updatedAt <= wall
  BY FeedTimes
<1> QED BY <1>1, <1>2

LEMMA WrittenFeeds ==
    ASSUME Sound, NEW f \in Feed, NEW answer, NEW updatedAt, NEW reverting,
           Writes(f, answer, updatedAt, reverting), wall' = wall, head' = wall
    PROVE  /\ wall' \in Nat /\ head' \in Nat /\ Start <= head' /\ head' <= wall'
           /\ feed' \in [Feed -> Round] /\ \A g \in Feed : feed'[g].updatedAt <= head'
<1>1. wall \in Nat /\ head \in Nat /\ head <= wall /\ Start <= head /\ Start \in Nat
  BY Constants DEF Sound
<1> QED BY <1>1 DEF Writes

LEMMA InitInv ==
    ASSUME Init
    PROVE  OracleInv
<1>1. PICK a \in Input : feed = [f \in Feed |->
        [answer |-> IF f = primary THEN a ELSE a * Scale, updatedAt |-> Start, reverting |-> FALSE]]
  BY DEF Init
<1>2. a \in Positive /\ a * Scale \in Positive
  BY Constants, ScaledPositive
<1>3. feed \in [Feed -> Round]
  BY <1>1, <1>2, Constants DEF Round
<1>4. \A f \in Feed : feed[f].updatedAt = Start /\ feed[f].reverting = FALSE
  BY <1>1
<1>5. /\ wall = Start /\ head = Start /\ config \in Configs /\ Configured(config) /\ paused = FALSE
      /\ run = [label |-> "none", steps |-> <<>>, confirmed |-> "none"]
      /\ view = [answer |-> feed[primary].answer, down |-> FALSE, paused |-> FALSE, evaluatedAt |-> Start]
  BY DEF Init
<1>6. /\ keeper \in Keeper /\ keeper.ran = TRUE /\ keeper.feeds = <<>>
      /\ keeper.poke = FALSE /\ keeper.last = Start
  <2>1. PICK on \in BOOLEAN :
          keeper = [on |-> on, ran |-> TRUE, feeds |-> <<>>, poke |-> FALSE, last |-> Start]
    BY DEF Init
  <2> QED BY <2>1, Constants DEF Keeper
<1>7. view \in View(wall)
  <2>1. feed[primary].answer \in Positive /\ Start \in Start..wall
    BY <1>3, <1>5, Constants DEF Round
  <2> QED BY <1>5, <2>1 DEF View
<1>8. run \in Transactor(wall)
  BY <1>5 DEF Runs, Label, Transactor
<1>9. Sound
  <2>1. wall \in Nat /\ head \in Nat /\ Start <= head /\ head <= wall
    BY <1>5, Constants
  <2>2. \A f \in Feed : feed[f].updatedAt <= head
    BY <1>4, <1>5, Constants
  <2>3. paused \in BOOLEAN /\ (keeper.poke => keeper.feeds # <<>>) /\ (keeper.feeds # <<>> => keeper.ran)
    BY <1>5, <1>6
  <2> QED BY <1>3, <1>5, <1>6, <1>7, <1>8, <2>1, <2>2, <2>3, Zenon DEF Sound
<1>10. Aligned
  BY <1>5 DEF Aligned, Moves
<1>11. Polled
  <2>1. run.steps \in Runs(Harmless)
    BY <1>5 DEF Runs
  <2>2. wall - keeper.last = 0 /\ \A f \in Feed : 2 * (keeper.last - feed[f].updatedAt) = 0
    BY <1>4, <1>5, <1>6, Constants
  <2>3. 0 < heartbeat /\ 0 < Interval /\ keeper.feeds # <<secondary>> /\ keeper.last <= wall
    BY <1>5, <1>6, Constants
  <2>4. 0 <= Interval
    BY Constants
  <2> QED BY <1>4, <1>5, <1>6, <2>1, <2>2, <2>3, <2>4 DEF Polled
<1> QED BY <1>9, <1>10, <1>11 DEF OracleInv

LEMMA TickKeeps ==
    ASSUME OracleInv, Tick
    PROVE  OracleInv'
<1>1. /\ wall' = wall + 1 /\ keeper' = [keeper EXCEPT !.ran = ~keeper.on]
      /\ keeper.ran /\ keeper.feeds = <<>>
      /\ UNCHANGED <<head, feed, config, paused, view, run, clicks>>
  BY DEF Tick
<1>2. /\ wall \in Nat /\ head \in Nat /\ head <= wall /\ keeper \in Keeper
      /\ view \in View(wall) /\ run \in Transactor(wall) /\ keeper.last \in Nat
  BY DEF OracleInv, Sound, Keeper
<1>3. /\ keeper'.on = keeper.on /\ keeper'.ran = ~keeper.on /\ keeper'.poke = keeper.poke
      /\ keeper'.last = keeper.last /\ keeper'.feeds = <<>> /\ keeper' \in Keeper
  BY <1>1, <1>2 DEF Keeper
<1>4. wall' \in Nat /\ head' <= wall' /\ wall <= wall'
  BY <1>1, <1>2
<1>5. view' \in View(wall') /\ run' \in Transactor(wall')
  BY <1>1, <1>2, <1>4, LaterRuns
<1>6. Sound'
  BY <1>1, <1>3, <1>4, <1>5 DEF OracleInv, Sound
<1>7. Aligned'
  BY <1>1 DEF OracleInv, Aligned
<1>8. ASSUME Undisturbed' PROVE Polled'
  <2>1. Polled /\ keeper.on
    BY <1>1, <1>3, <1>8 DEF Undisturbed, OracleInv
  <2>2. wall - keeper.last < Interval /\ keeper.last <= wall
    BY <1>1, <2>1 DEF Polled
  <2>3. wall' - keeper'.last <= Interval /\ keeper'.last <= wall'
    BY <1>1, <1>2, <1>3, <2>2, Constants
  <2>4. \A f \in Feed : ~feed'[f].reverting /\ 2 * (keeper'.last - feed'[f].updatedAt) < heartbeat
    BY <1>1, <1>3, <2>1 DEF Polled
  <2>5. <<>> # <<secondary>>
    OBVIOUS
  <2> QED BY <1>1, <1>3, <2>1, <2>3, <2>4, <2>5 DEF Polled
<1> QED BY <1>6, <1>7, <1>8 DEF OracleInv

\* A step of the keeper that writes no feed.
LEMMA KeeperStepKeeps ==
    ASSUME OracleInv, UNCHANGED <<wall, head, feed, config, paused, view, run, clicks>>,
           keeper' \in Keeper, keeper'.on = keeper.on, keeper'.poke => keeper'.feeds # <<>>, keeper'.ran,
           keeper'.last \in {keeper.last, wall},
           Undisturbed =>
             /\ keeper'.last = wall => \A f \in Feed : 2 * (wall - feed[f].updatedAt) < heartbeat
             /\ keeper'.feeds = <<>> => wall - keeper'.last < Interval
             /\ keeper'.feeds = <<secondary>> => 2 * (wall - feed[primary].updatedAt) < heartbeat
    PROVE  OracleInv'
<1>1. Sound'
  BY DEF OracleInv, Sound
<1>2. Aligned'
  BY DEF OracleInv, Aligned
<1>3. ASSUME Undisturbed' PROVE Polled'
  <2>1. Undisturbed /\ Polled /\ wall \in Nat
    BY <1>3 DEF Undisturbed, OracleInv, Sound
  <2>2. keeper'.last <= wall /\ wall - keeper'.last <= Interval
    <3>1. wall <= wall /\ wall - wall <= Interval
      BY <2>1, Constants
    <3> QED BY <2>1, <3>1 DEF Polled
  <2>3. \A f \in Feed : ~feed[f].reverting /\ 2 * (keeper'.last - feed[f].updatedAt) < heartbeat
    BY <2>1 DEF Polled
  <2> QED BY <2>1, <2>2, <2>3 DEF Polled
<1> QED BY <1>1, <1>2, <1>3 DEF OracleInv

LEMMA keeperRoundKeeps ==
    ASSUME OracleInv, keeperRound
    PROVE  OracleInv'
<1> DEFINE round == IF wall - keeper.last >= keeperEvery THEN <<primary, secondary>> ELSE <<>>
<1>1. /\ ~keeper.ran /\ keeper' = [keeper EXCEPT !.ran = TRUE, !.feeds = round]
      /\ UNCHANGED <<wall, head, feed, config, paused, view, run, clicks>>
  BY DEF keeperRound
<1>2. /\ wall \in Nat /\ keeper \in Keeper /\ keeper.last \in Nat
      /\ keeper.feeds = <<>> /\ ~keeper.poke
  BY <1>1 DEF OracleInv, Sound, Keeper
<1>3. /\ keeper'.on = keeper.on /\ keeper'.ran = TRUE /\ keeper'.poke = keeper.poke
      /\ keeper'.last = keeper.last /\ keeper'.feeds = round
  BY <1>1, <1>2 DEF Keeper
<1>4. round \in {<<>>, <<primary, secondary>>} /\ <<primary, secondary>> # <<secondary>>
      /\ <<>> # <<secondary>> /\ <<primary, secondary>> # <<>>
  OBVIOUS
<1>5. keeper' \in Keeper
  BY <1>1, <1>2, <1>4 DEF Keeper
<1>6. ~keeper'.poke
  BY <1>2, <1>3
<1>7. keeper'.feeds = <<>> => wall - keeper'.last < Interval
  <2>1. keeper'.feeds = <<>> => ~(wall - keeper.last >= keeperEvery)
    <3>1. ASSUME wall - keeper.last >= keeperEvery PROVE keeper'.feeds # <<>>
      <4>1. round = <<primary, secondary>>
        BY <3>1
      <4> QED BY <1>3, <1>4, <4>1
    <3> QED BY <3>1
  <2> HIDE DEF round
  <2>2. ASSUME ~(wall - keeper.last >= keeperEvery) PROVE wall - keeper.last < Interval
    BY <1>2, <2>2, Constants
  <2> QED BY <1>3, <2>1, <2>2
<1>8. ASSUME Undisturbed, keeper'.last = wall
      PROVE  \A f \in Feed : 2 * (wall - feed[f].updatedAt) < heartbeat
  BY <1>3, <1>8 DEF OracleInv, Polled
<1> HIDE DEF round
<1> QED BY <1>1, <1>3, <1>4, <1>5, <1>6, <1>7, <1>8, KeeperStepKeeps

\* The two places of the keeper's round.
LEMMA RoundPlaces ==
    ASSUME Sound, keeper.feeds # <<>>
    PROVE  \/ /\ keeper.feeds = <<primary, secondary>>
              /\ Head(keeper.feeds) = primary /\ Tail(keeper.feeds) = <<secondary>>
              /\ Tail(keeper.feeds) # <<>>
           \/ /\ keeper.feeds = <<secondary>>
              /\ Head(keeper.feeds) = secondary /\ Tail(keeper.feeds) = <<>>
<1>1. keeper.feeds \in {<<primary, secondary>>, <<secondary>>}
  BY DEF Sound, Keeper
<1>2. CASE keeper.feeds = <<primary, secondary>>
  BY <1>2
<1>3. CASE keeper.feeds = <<secondary>>
  BY <1>3
<1> QED BY <1>1, <1>2, <1>3

LEMMA keeperReadKeeps ==
    ASSUME OracleInv, keeperRead
    PROVE  OracleInv'
<1> DEFINE f == Head(keeper.feeds)
           rest == Tail(keeper.feeds)
<1>1. /\ keeper.feeds # <<>> /\ ~keeper.poke /\ keeper.ran /\ keeper \in Keeper /\ wall \in Nat
      /\ UNCHANGED <<wall, head, feed, config, paused, view, run, clicks>>
  BY DEF keeperRead, OracleInv, Sound
<1>2. \/ feed[f].reverting /\ keeper' = [keeper EXCEPT !.feeds = <<>>]
      \/ ~feed[f].reverting /\ Old(f) /\ keeper' = [keeper EXCEPT !.poke = TRUE]
      \/ /\ ~feed[f].reverting /\ ~Old(f)
         /\ keeper' = [keeper EXCEPT !.feeds = rest, !.last = IF rest = <<>> THEN wall ELSE keeper.last]
  BY DEF keeperRead
<1>3. \/ keeper.feeds = <<primary, secondary>> /\ f = primary /\ rest = <<secondary>> /\ rest # <<>>
      \/ keeper.feeds = <<secondary>> /\ f = secondary /\ rest = <<>>
  BY <1>1, RoundPlaces DEF OracleInv
<1>4. f \in Feed /\ rest \in {<<>>, <<primary, secondary>>, <<secondary>>}
  BY <1>3, Constants
<1> HIDE DEF f, rest
<1>5. CASE feed[f].reverting /\ keeper' = [keeper EXCEPT !.feeds = <<>>]
  <2>1. /\ keeper' \in Keeper /\ keeper'.on = keeper.on /\ keeper'.ran = keeper.ran
        /\ keeper'.poke = keeper.poke /\ keeper'.last = keeper.last /\ keeper'.feeds = <<>>
    BY <1>1, <1>5 DEF Keeper
  <2>2. ~Undisturbed
    BY <1>4, <1>5 DEF OracleInv, Polled
  <2> QED BY <1>1, <2>1, <2>2, KeeperStepKeeps
<1>6. CASE keeper' = [keeper EXCEPT !.poke = TRUE]
  <2>1. /\ keeper' \in Keeper /\ keeper'.on = keeper.on /\ keeper'.ran = keeper.ran
        /\ keeper'.poke = TRUE /\ keeper'.last = keeper.last /\ keeper'.feeds = keeper.feeds
    BY <1>1, <1>6 DEF Keeper
  <2>2. Undisturbed =>
          /\ keeper'.last = wall => \A g \in Feed : 2 * (wall - feed[g].updatedAt) < heartbeat
          /\ keeper'.feeds = <<secondary>> => 2 * (wall - feed[primary].updatedAt) < heartbeat
    BY <2>1 DEF OracleInv, Polled
  <2> QED BY <1>1, <2>1, <2>2, KeeperStepKeeps
<1>7. CASE /\ ~Old(f)
           /\ keeper' = [keeper EXCEPT !.feeds = rest, !.last = IF rest = <<>> THEN wall ELSE keeper.last]
  <2>1. 2 * (wall - feed[f].updatedAt) < heartbeat
    <3>1. ~(2 * (wall - feed[f].updatedAt) >= heartbeat)
      BY <1>7 DEF Old
    <3> QED BY <1>4, <3>1, FeedTimes, Constants DEF OracleInv
  <2>2. CASE keeper.feeds = <<primary, secondary>> /\ f = primary /\ rest = <<secondary>> /\ rest # <<>>
    <3>1. /\ keeper' \in Keeper /\ keeper'.on = keeper.on /\ keeper'.ran = keeper.ran
          /\ keeper'.poke = keeper.poke /\ keeper'.last = keeper.last /\ keeper'.feeds = rest
      BY <1>1, <1>4, <1>7, <2>2 DEF Keeper
    <3>2. Undisturbed /\ keeper'.last = wall =>
            \A g \in Feed : 2 * (wall - feed[g].updatedAt) < heartbeat
      BY <3>1 DEF OracleInv, Polled
    <3> QED BY <1>1, <2>1, <2>2, <3>1, <3>2, KeeperStepKeeps
  <2>3. CASE keeper.feeds = <<secondary>> /\ f = secondary /\ rest = <<>>
    <3>1. /\ keeper' \in Keeper /\ keeper'.on = keeper.on /\ keeper'.ran = keeper.ran
          /\ keeper'.poke = keeper.poke /\ keeper'.last = wall /\ keeper'.feeds = <<>>
      BY <1>1, <1>4, <1>7, <2>3 DEF Keeper
    <3>2. Undisturbed => \A g \in Feed : 2 * (wall - feed[g].updatedAt) < heartbeat
      BY <2>1, <2>3, Constants DEF OracleInv, Polled
    <3>3. wall - keeper'.last < Interval /\ <<>> # <<secondary>>
      BY <1>1, <3>1, Constants
    <3> QED BY <1>1, <3>1, <3>2, <3>3, KeeperStepKeeps
  <2> QED BY <1>3, <2>2, <2>3
<1> QED BY <1>2, <1>5, <1>6, <1>7

\* While the answers and the run stay, so does what Aligned says of them.
LEMMA SameAnswers ==
    ASSUME Aligned, Sound, run' = run, \A g \in Feed : feed'[g].answer = feed[g].answer
    PROVE  Aligned'
<1>1. feed'[primary].answer = feed[primary].answer /\ feed'[secondary].answer = feed[secondary].answer
  BY Constants
<1> QED BY <1>1 DEF Aligned

\* What the keeper's loop has seen to stays true when a feed gets an answer of now.
LEMMA PolledAfterPush ==
    ASSUME Sound, Polled, NEW f \in Feed, NEW answer, Writes(f, answer, wall, feed[f].reverting), wall' = wall
    PROVE  /\ \A g \in Feed : ~feed'[g].reverting /\ 2 * (keeper.last - feed'[g].updatedAt) < heartbeat
           /\ 2 * (wall - feed'[f].updatedAt) < heartbeat
           /\ keeper.feeds = <<secondary>> => 2 * (wall - feed'[primary].updatedAt) < heartbeat
<1>1. wall \in Nat /\ keeper.last \in Nat /\ keeper.last <= wall /\ heartbeat \in Nat \ {0}
  BY FeedTimes, Constants DEF Polled
<1>2. \A g \in Feed : ~feed[g].reverting /\ 2 * (keeper.last - feed[g].updatedAt) < heartbeat
  BY DEF Polled
<1>3. feed'[f].updatedAt = wall /\ feed'[f].reverting = feed[f].reverting /\ \A g \in Feed \ {f} : feed'[g] = feed[g]
  BY DEF Writes
<1>4. 2 * (wall - feed'[f].updatedAt) < heartbeat /\ 2 * (keeper.last - feed'[f].updatedAt) < heartbeat
  BY <1>1, <1>3
<1>5. \A g \in Feed : ~feed'[g].reverting /\ 2 * (keeper.last - feed'[g].updatedAt) < heartbeat
  BY <1>2, <1>3, <1>4
<1>6. primary = f \/ feed'[primary] = feed[primary]
  BY <1>3, Constants
<1>7. keeper.feeds = <<secondary>> => 2 * (wall - feed'[primary].updatedAt) < heartbeat
  BY <1>4, <1>6 DEF Polled
<1> QED BY <1>4, <1>5, <1>7

LEMMA pokeKeeps ==
    ASSUME OracleInv, poke
    PROVE  OracleInv'
<1> DEFINE f == Head(keeper.feeds)
           rest == Tail(keeper.feeds)
<1>1. /\ Sound /\ Aligned /\ keeper.poke /\ keeper.feeds # <<>> /\ keeper.ran /\ keeper \in Keeper
      /\ UNCHANGED <<wall, config, paused, view, run, clicks>>
      /\ _pushRound(f, feed[f].answer, wall) /\ head' = wall
      /\ keeper' = [keeper EXCEPT !.poke = FALSE, !.feeds = rest,
                                  !.last = IF rest = <<>> THEN wall ELSE keeper.last]
  BY DEF poke, _pushRound, OracleInv, Sound
<1>2. \/ keeper.feeds = <<primary, secondary>> /\ f = primary /\ rest = <<secondary>> /\ rest # <<>>
      \/ keeper.feeds = <<secondary>> /\ f = secondary /\ rest = <<>>
  BY <1>1, RoundPlaces
<1>3. f \in Feed /\ rest \in {<<>>, <<primary, secondary>>, <<secondary>>}
  BY <1>2, Constants
<1> HIDE DEF f, rest
<1>4. wall \in Positive /\ wall \in Nat /\ wall <= wall /\ feed[f].answer \in Positive /\ keeper.last \in Nat
  <2>1. wall \in Nat /\ head \in Nat /\ Start <= head /\ head <= wall
    BY <1>1 DEF Sound
  <2> QED BY <1>1, <1>3, <2>1, FeedTimes, Constants DEF Positive
<1>5. Writes(f, feed[f].answer, wall, feed[f].reverting)
  BY <1>1, <1>3, <1>4, PushWrites
<1>6. /\ keeper' \in Keeper /\ keeper'.on = keeper.on /\ keeper'.ran = keeper.ran
      /\ keeper'.poke = FALSE /\ keeper'.feeds = rest
      /\ keeper'.last = IF rest = <<>> THEN wall ELSE keeper.last
  BY <1>1, <1>3, <1>4 DEF Keeper
<1>7. Sound'
  <2>1. /\ wall' \in Nat /\ head' \in Nat /\ Start <= head' /\ head' <= wall'
        /\ feed' \in [Feed -> Round] /\ \A g \in Feed : feed'[g].updatedAt <= head'
    BY <1>1, <1>3, <1>5, WrittenFeeds
  <2>2. (keeper'.poke => keeper'.feeds # <<>>) /\ (keeper'.feeds # <<>> => keeper'.ran)
    BY <1>1, <1>6
  <2>3. /\ config' \in Configs /\ Configured(config)' /\ paused' \in BOOLEAN
        /\ view' \in View(wall)' /\ run' \in Transactor(wall)'
    BY <1>1 DEF Sound, Configured, View, Transactor, Op, Runs
  <2> QED BY <1>6, <2>1, <2>2, <2>3 DEF Sound
<1>8. Aligned'
  <2>1. \A g \in Feed : feed'[g].answer = feed[g].answer
    BY <1>5 DEF Writes
  <2> QED BY <1>1, <2>1, SameAnswers
<1>9. ASSUME Undisturbed' PROVE Polled'
  <2>1. Polled
    BY <1>1, <1>6, <1>9 DEF Undisturbed, OracleInv
  <2>2. /\ \A g \in Feed : ~feed'[g].reverting /\ 2 * (keeper.last - feed'[g].updatedAt) < heartbeat
        /\ 2 * (wall - feed'[f].updatedAt) < heartbeat
        /\ keeper.feeds = <<secondary>> => 2 * (wall - feed'[primary].updatedAt) < heartbeat
    BY <1>1, <1>3, <1>5, <2>1, PolledAfterPush
  <2>3. run'.steps \in Runs(Harmless) /\ keeper.last <= wall /\ wall - keeper.last <= Interval
    BY <1>1, <2>1 DEF Polled
  <2>4. CASE keeper.feeds = <<primary, secondary>> /\ f = primary /\ rest = <<secondary>> /\ rest # <<>>
    BY <1>1, <1>6, <2>2, <2>3, <2>4 DEF Polled
  <2>5. CASE keeper.feeds = <<secondary>> /\ f = secondary /\ rest = <<>>
    <3>1. keeper'.last = wall /\ keeper'.feeds = <<>> /\ <<>> # <<secondary>>
      BY <1>6, <2>5
    <3>2. \A g \in Feed : ~feed'[g].reverting /\ 2 * (keeper'.last - feed'[g].updatedAt) < heartbeat
      BY <2>2, <2>5, <3>1, Constants
    <3>3. wall - wall <= Interval /\ wall - wall < Interval
      BY <1>4, Constants
    <3> QED BY <1>1, <1>4, <2>3, <3>1, <3>2, <3>3 DEF Polled
  <2> QED BY <1>2, <2>4, <2>5
<1> QED BY <1>7, <1>8, <1>9 DEF OracleInv

LEMMA refreshKeeps ==
    ASSUME OracleInv, refresh
    PROVE  OracleInv'
<1>1. /\ Sound /\ Aligned /\ UNCHANGED <<wall, head, feed, config, paused, keeper, run, clicks>>
      /\ view' = [answer |-> feed[primary].answer, down |-> _readFeed(primary, head) = "CALL_FAILED",
                  paused |-> paused, evaluatedAt |-> wall]
  BY DEF refresh, OracleInv
<1>2. feed[primary].answer \in Positive /\ wall \in Start..wall /\ paused \in BOOLEAN
  BY <1>1, FeedTimes, Constants DEF Sound
<1>3. view' \in View(wall)
  BY <1>1, <1>2 DEF View
<1>4. Sound'
  BY <1>1, <1>3 DEF Sound
<1>5. Aligned'
  BY <1>1, SameAnswers
<1>6. Undisturbed' => Polled'
  BY <1>1 DEF OracleInv, Undisturbed, Polled
<1> QED BY <1>4, <1>5, <1>6 DEF OracleInv

LEMMA OracleRowKeeps ==
    ASSUME OracleInv, OracleRow
    PROVE  OracleInv'
<1>1. Sound /\ Aligned
  BY DEF OracleInv
<1>2. PICK label \in Label \ {"none"} : \E steps \in Runs(Op(wall)) :
             /\ Button(label, steps)
             /\ label \in Moves => \E p \in Positive : steps = setPrice(p)
             /\ label \notin {"Stale", "Outage"} => steps \in Runs(Harmless)
  BY <1>1, ButtonSends
<1>3. PICK steps \in Runs(Op(wall)) :
             /\ Button(label, steps)
             /\ label \in Moves => \E p \in Positive : steps = setPrice(p)
             /\ label \notin {"Stale", "Outage"} => steps \in Runs(Harmless)
  BY <1>2
<1>4. /\ clicks' = clicks \cup {label} /\ run' = [label |-> label, steps |-> steps, confirmed |-> "none"]
      /\ UNCHANGED <<wall, head, feed, config, paused, keeper, view>>
  BY <1>3 DEF Button
<1>5. run'.label = label /\ run'.steps = steps /\ run'.confirmed = "none"
  BY <1>4
<1>6. run' \in Transactor(wall)
  BY <1>4 DEF Transactor, Label
<1>7. Sound'
  BY <1>1, <1>4, <1>6 DEF Sound
<1>8. Aligned'
  <2>1. "none" \notin Moves
    BY DEF Moves
  <2> QED BY <1>3, <1>5, <2>1 DEF Aligned
<1>9. ASSUME Undisturbed' PROVE Polled'
  <2>1. Undisturbed /\ label \notin {"Stale", "Outage"}
    BY <1>4, <1>9 DEF Undisturbed
  <2> QED BY <1>3, <1>4, <1>5, <2>1 DEF OracleInv, Polled
<1> QED BY <1>7, <1>8, <1>9 DEF OracleInv

LEMMA RefuseKeeps ==
    ASSUME OracleInv, Refuse
    PROVE  OracleInv'
<1>1. /\ Sound /\ Aligned /\ run' = [run EXCEPT !.steps = <<>>]
      /\ UNCHANGED <<wall, head, feed, config, paused, keeper, view, clicks>>
  BY DEF Refuse, OracleInv
<1>2. /\ run'.label = run.label /\ run'.steps = <<>> /\ run'.confirmed = run.confirmed
      /\ run' \in Transactor(wall) /\ run'.steps \in Runs(Harmless)
  BY <1>1 DEF Sound, Transactor, Runs
<1>3. Sound'
  BY <1>1, <1>2 DEF Sound
<1>4. Aligned'
  BY <1>1, <1>2 DEF Aligned
<1>5. Undisturbed' => Polled'
  BY <1>1, <1>2 DEF OracleInv, Undisturbed, Polled
<1> QED BY <1>3, <1>4, <1>5 DEF OracleInv

LEMMA setAssetOracleKeeps ==
    ASSUME OracleInv, setAssetOracle
    PROVE  OracleInv'
<1>1. /\ Sound /\ Aligned /\ clicks' = clicks \cup {"setAssetOracle"}
      /\ config' \in Configs /\ Configured(config)' /\ head' = wall
      /\ UNCHANGED <<wall, feed, paused, keeper, view, run>>
  BY DEF setAssetOracle, OracleInv, Configured
<1>2. /\ wall' \in Nat /\ head' \in Nat /\ Start <= head' /\ head' <= wall'
      /\ feed' \in [Feed -> Round] /\ \A g \in Feed : feed'[g].updatedAt <= head'
  BY <1>1, SameFeeds
<1>3. Sound'
  BY <1>1, <1>2 DEF Sound
<1>4. Aligned'
  BY <1>1, SameAnswers
<1>5. Undisturbed' => Polled'
  BY <1>1 DEF OracleInv, Undisturbed, Polled
<1> QED BY <1>3, <1>4, <1>5 DEF OracleInv

\* A mined step of a run either writes one feed or pauses; one of a harmless run
\* answers now, or makes a feed answer again, or pauses.
LEMMA MinedStep ==
    ASSUME Sound, Mine
    PROVE  LET step == Head(run.steps)
           IN /\ step \in Op(wall) /\ Tail(run.steps) \in Runs(Op(wall))
              /\ head' = wall
              /\ \/ /\ step.op = "setAnswer" /\ step.feed \in Feed /\ paused' = paused
                    /\ \E at \in Positive :
                         /\ at <= wall /\ Writes(step.feed, step.answer, at, feed[step.feed].reverting)
                         /\ step \in Harmless => at = wall
                 \/ /\ step.op = "setReverting" /\ step.feed \in Feed /\ paused' = paused
                    /\ \E to \in BOOLEAN :
                         /\ Writes(step.feed, feed[step.feed].answer, feed[step.feed].updatedAt, to)
                         /\ step \in Harmless => to = FALSE
                 \/ step.op = "setAssetPaused" /\ paused' \in BOOLEAN /\ feed' = feed
<1> DEFINE step == Head(run.steps)
<1>1. /\ run.steps # <<>> /\ run.steps \in Runs(Op(wall)) /\ head' = wall
      /\ \/ /\ step.op = "setAnswer"
            /\ _pushRound(step.feed, step.answer, IF step.at = 0 THEN wall ELSE step.at)
            /\ UNCHANGED paused
         \/ /\ step.op = "setReverting"
            /\ feed' = [feed EXCEPT ![step.feed].reverting = step.to]
            /\ UNCHANGED paused
         \/ /\ step.op = "setAssetPaused" /\ paused' = step.to /\ UNCHANGED feed
  BY DEF Mine, Sound, Transactor
<1>2. step \in Op(wall) /\ Tail(run.steps) \in Runs(Op(wall))
  BY <1>1, RunParts
<1> HIDE DEF step
<1>3. wall \in Positive /\ wall \in Nat
  <2>1. wall \in Nat /\ head \in Nat /\ Start <= head /\ head <= wall
    BY DEF Sound
  <2> QED BY <2>1, Constants DEF Positive
<1>4. CASE step.op = "setAnswer"
  <2>1. step.feed \in Feed /\ step.answer \in Positive /\ step.at \in 0..wall
    BY <1>2, <1>4 DEF Op
  <2>2. step \in Harmless => step.at = 0
    BY <1>4 DEF Harmless
  <2> DEFINE at == IF step.at = 0 THEN wall ELSE step.at
  <2>3. at \in Positive /\ at <= wall /\ (step \in Harmless => at = wall)
    BY <1>3, <2>1, <2>2 DEF Positive
  <2>4. _pushRound(step.feed, step.answer, at) /\ paused' = paused
    BY <1>1, <1>4
  <2> HIDE DEF at
  <2>5. Writes(step.feed, step.answer, at, feed[step.feed].reverting)
    BY <2>1, <2>3, <2>4, PushWrites
  <2> QED BY <1>1, <1>2, <1>4, <2>1, <2>3, <2>4, <2>5 DEF step
<1>5. CASE step.op = "setReverting"
  <2>1. step.feed \in Feed /\ step.to \in BOOLEAN /\ (step \in Harmless => step.to = FALSE)
    BY <1>2, <1>5 DEF Op, Harmless
  <2>2. feed' = [feed EXCEPT ![step.feed].reverting = step.to] /\ paused' = paused
    BY <1>1, <1>5
  <2>3. Writes(step.feed, feed[step.feed].answer, feed[step.feed].updatedAt, step.to)
    BY <2>1, <2>2, RevertingWrites
  <2> QED BY <1>1, <1>2, <1>5, <2>1, <2>2, <2>3 DEF step
<1>6. CASE step.op = "setAssetPaused"
  <2>1. step.to \in BOOLEAN
    BY <1>2, <1>6 DEF Op
  <2> QED BY <1>1, <1>2, <1>6, <2>1 DEF step
<1> QED BY <1>1, <1>4, <1>5, <1>6

LEMMA MineKeeps ==
    ASSUME OracleInv, Mine
    PROVE  OracleInv'
<1> DEFINE step == Head(run.steps)
           rest == Tail(run.steps)
<1>1. /\ Sound /\ Aligned /\ run.steps # <<>> /\ run.steps \in Runs(Op(wall)) /\ run \in Transactor(wall)
      /\ run' = [run EXCEPT !.steps = rest, !.confirmed = IF rest = <<>> THEN run.label ELSE "none"]
      /\ UNCHANGED <<wall, config, keeper, view, clicks>>
  BY DEF Mine, OracleInv, Sound, Transactor
<1>2. /\ step \in Op(wall) /\ rest \in Runs(Op(wall)) /\ head' = wall
      /\ \/ /\ step.op = "setAnswer" /\ step.feed \in Feed /\ paused' = paused
            /\ \E at \in Positive :
                 /\ at <= wall /\ Writes(step.feed, step.answer, at, feed[step.feed].reverting)
                 /\ step \in Harmless => at = wall
         \/ /\ step.op = "setReverting" /\ step.feed \in Feed /\ paused' = paused
            /\ \E to \in BOOLEAN :
                 /\ Writes(step.feed, feed[step.feed].answer, feed[step.feed].updatedAt, to)
                 /\ step \in Harmless => to = FALSE
         \/ step.op = "setAssetPaused" /\ paused' \in BOOLEAN /\ feed' = feed
  BY <1>1, MinedStep
<1>3. /\ run'.label = run.label /\ run'.steps = rest /\ run' \in Transactor(wall)
      /\ run'.confirmed = IF rest = <<>> THEN run.label ELSE "none"
  BY <1>1, <1>2 DEF Transactor, Label
<1>4. /\ wall' \in Nat /\ head' \in Nat /\ Start <= head' /\ head' <= wall'
      /\ feed' \in [Feed -> Round] /\ \A g \in Feed : feed'[g].updatedAt <= head'
  BY <1>1, <1>2, SameFeeds, WrittenFeeds
<1>5. Sound'
  <2>1. paused' \in BOOLEAN
    BY <1>1, <1>2 DEF Sound
  <2> QED BY <1>1, <1>3, <1>4, <2>1 DEF Sound
<1>6. Aligned'
  <2>1. "none" \notin Moves
    BY DEF Moves
  <2>2. ASSUME run.label \in Moves
        PROVE  \E p \in Positive :
                 \/ run.steps = setPrice(p)
                 \/ run.steps = <<Set(secondary, p * Scale)>> /\ feed[primary].answer = p
    BY <1>1, <2>2 DEF Aligned
  <2>3. ASSUME NEW p \in Positive, run.steps = setPrice(p)
        PROVE  rest = <<Set(secondary, p * Scale)>> /\ rest # <<>> /\ feed'[primary].answer = p
    <3>1. step = Set(primary, p) /\ rest = <<Set(secondary, p * Scale)>> /\ rest # <<>>
      BY <2>3 DEF setPrice
    <3>2. step.op = "setAnswer" /\ step.feed = primary /\ step.answer = p
      BY <3>1 DEF Set
    <3> HIDE DEF step, rest
    <3>3. feed'[primary].answer = p
      BY <1>2, <3>2 DEF Writes
    <3> QED BY <3>1, <3>3
  <2>4. ASSUME NEW p \in Positive, run.steps = <<Set(secondary, p * Scale)>>, feed[primary].answer = p
        PROVE  rest = <<>> /\ feed'[secondary].answer = feed'[primary].answer * Scale
    <3>1. step = Set(secondary, p * Scale) /\ rest = <<>>
      BY <2>4
    <3>2. step.op = "setAnswer" /\ step.feed = secondary /\ step.answer = p * Scale
      BY <3>1 DEF Set
    <3> HIDE DEF step, rest
    <3>3. feed'[secondary].answer = p * Scale /\ feed'[primary] = feed[primary]
      BY <1>2, <3>2, Constants DEF Writes
    <3> QED BY <2>4, <3>1, <3>3
  <2> HIDE DEF step, rest
  <2>5. run'.steps # <<>> => run'.confirmed = "none"
    BY <1>3
  <2>6. ASSUME run'.label \in Moves, run'.steps # <<>>
        PROVE  \E p \in Positive : run'.steps = <<Set(secondary, p * Scale)>> /\ feed'[primary].answer = p
    BY <1>3, <2>2, <2>3, <2>4, <2>6
  <2>7. ASSUME run'.confirmed \in Moves
        PROVE  feed'[secondary].answer = feed'[primary].answer * Scale
    <3>1. run.label \in Moves /\ rest = <<>>
      BY <1>3, <2>1, <2>7
    <3> QED BY <2>2, <2>3, <2>4, <3>1
  <2> QED BY <2>5, <2>6, <2>7 DEF Aligned
<1>7. ASSUME Undisturbed' PROVE Polled'
  <2>1. Polled
    BY <1>1, <1>7 DEF Undisturbed, OracleInv
  <2>2. step \in Harmless /\ rest \in Runs(Harmless)
    BY <1>1, <2>1, RunParts DEF Polled
  <2> HIDE DEF step, rest
  <2>3. /\ \A g \in Feed : ~feed'[g].reverting /\ 2 * (keeper.last - feed'[g].updatedAt) < heartbeat
        /\ keeper.feeds = <<secondary>> => 2 * (wall - feed'[primary].updatedAt) < heartbeat
    <3>1. CASE step.op = "setAnswer"
      <4>1. step.feed \in Feed /\ Writes(step.feed, step.answer, wall, feed[step.feed].reverting)
        BY <1>2, <2>2, <3>1
      <4> QED BY <1>1, <2>1, <4>1, PolledAfterPush
    <3>2. CASE step.op = "setReverting"
      <4>1. /\ step.feed \in Feed
            /\ Writes(step.feed, feed[step.feed].answer, feed[step.feed].updatedAt, FALSE)
        BY <1>2, <2>2, <3>2
      <4>2. \A g \in Feed : feed'[g].updatedAt = feed[g].updatedAt /\ (feed'[g].reverting => feed[g].reverting)
        BY <4>1 DEF Writes
      <4> QED BY <2>1, <4>2, Constants DEF Polled
    <3>3. CASE feed' = feed
      BY <2>1, <3>3 DEF Polled
    <3> QED BY <1>2, <3>1, <3>2, <3>3
  <2> QED BY <1>1, <1>3, <2>1, <2>2, <2>3 DEF Polled
<1> QED BY <1>5, <1>6, <1>7 DEF OracleInv

\* The invariant of one asset's price.
THEOREM OracleInvariant == Spec => []OracleInv
<1>1. ASSUME OracleInv, [Next]_vars PROVE OracleInv'
  <2>1. CASE UNCHANGED vars
    BY <1>1, <2>1 DEF vars, OracleInv, Sound, Configured, View, Transactor, Op, Runs, Aligned, Polled, Undisturbed
  <2>2. CASE Next
    BY <1>1, <2>2, TickKeeps, keeperRoundKeeps, keeperReadKeeps, pokeKeeps, refreshKeeps, OracleRowKeeps,
       MineKeeps, RefuseKeeps, setAssetOracleKeeps DEF Next
  <2> QED BY <1>1, <2>1, <2>2
<1> QED BY <1>1, InitInv, PTL DEF Spec

----
(* What the manager answers, and the promises. *)

LEMMA ReadsOK ==
    ASSUME NEW f, NEW at
    PROVE  _readFeed(f, at) = "OK" <=>
             /\ f # secondary \/ config.secondary
             /\ ~feed[f].reverting
             /\ ~(feed[f].answer <= 0 \/ feed[f].answer > MAX_ANSWER)
             /\ feed[f].updatedAt # 0 /\ ~(feed[f].updatedAt > at)
             /\ ~(at - feed[f].updatedAt > heartbeat)
             /\ Price(f, feed[f].answer) \in config.minPrice..config.maxPrice
BY DEF _readFeed

Deviating == _deviates(Price(primary, feed[primary].answer), Price(secondary, feed[secondary].answer))

LEMMA Evaluates ==
    ASSUME NEW at
    PROVE  LET p == _readFeed(primary, at) = "OK"
               s == _readFeed(secondary, at) = "OK"
           IN /\ _evaluate(at) \in Trusted <=> ~paused /\ (p \/ s) /\ ~(p /\ s /\ Deviating)
              /\ _evaluate(at) = "OK" <=>
                   ~paused /\ p /\ (s => ~Deviating) /\ (s \/ ~config.secondary)
<1> DEFINE p == _readFeed(primary, at) = "OK"
           s == _readFeed(secondary, at) = "OK"
<1>1. _evaluate(at) = IF paused THEN "PAUSED"
                      ELSE IF p /\ s THEN IF Deviating THEN "DEVIATION" ELSE "OK"
                      ELSE IF p THEN IF config.secondary THEN "OK_PRIMARY_ONLY" ELSE "OK"
                      ELSE IF s THEN "OK_FALLBACK" ELSE "UNAVAILABLE"
  BY DEF _evaluate, Deviating
<1> HIDE DEF p, s
<1>2. /\ _evaluate(at) \in Trusted <=> ~paused /\ (p \/ s) /\ ~(p /\ s /\ Deviating)
      /\ _evaluate(at) = "OK" <=>
           ~paused /\ p /\ (s => ~Deviating) /\ (s \/ ~config.secondary)
  BY <1>1 DEF Trusted
<1> QED BY <1>2 DEF p, s

\* OracleFeeds!KeptFresh: an interval passes at most between two polls, and a poll
\* leaves no feed older than half a heartbeat.
LEMMA FreshWhilePolled ==
    ASSUME OracleInv
    PROVE  KeptFresh
<1> SUFFICES ASSUME Undisturbed, NEW f \in Feed
             PROVE  wall - feed[f].updatedAt <= heartbeat
  BY DEF KeptFresh, Undisturbed
<1>1. /\ wall \in Nat /\ feed[f].updatedAt \in Nat /\ keeper.last \in Nat
      /\ 2 * (keeper.last - feed[f].updatedAt) < heartbeat /\ wall - keeper.last <= Interval
  BY FeedTimes DEF OracleInv, Polled
<1> QED BY <1>1, Constants

\* OracleFeeds!HaltsAreSeen: only age can turn a price the reader found usable at
\* the latest block into one the next transaction cannot use.
LEMMA HaltSeen ==
    ASSUME OracleInv
    PROVE  HaltsAreSeen
<1> SUFFICES ASSUME _evaluate(wall) \notin Trusted
             PROVE  OracleFindings # {}
  BY DEF HaltsAreSeen
<1> DEFINE status == _evaluate(head)
           age == IF feed[primary].reverting THEN {} ELSE {effectiveNow - feed[primary].updatedAt}
           degraded == If(status \in {"OK_PRIMARY_ONLY", "OK_FALLBACK"}, Finding("ORACLE_DEGRADED", "warning", primary))
           unavailable == If(status \notin {"OK", "OK_PRIMARY_ONLY", "OK_FALLBACK"},
                             Finding("ORACLE_UNAVAILABLE", "critical", primary))
           old == If(status = "OK" /\ heartbeat > 0
                       /\ \E a \in age : a * MILLION >= staleWarningShare * heartbeat,
                     Finding("ORACLE_STALE_SOON", "warning", primary))
<1>1. degraded \cup unavailable \cup old \subseteq OracleFindings
  BY DEF OracleFindings, evaluateMarket
<1> HIDE DEF status, age
<1>2. CASE status # "OK"
  <2>1. degraded # {} \/ unavailable # {}
    BY <1>2 DEF If
  <2> QED BY <1>1, <2>1
<1>3. CASE status = "OK"
  <2>1. /\ primary \in Feed /\ secondary \in Feed /\ wall \in Nat /\ head \in Nat /\ head <= wall
        /\ feed[primary].updatedAt \in Nat /\ feed[secondary].updatedAt \in Nat
        /\ feed[primary].updatedAt <= head /\ heartbeat \in Nat \ {0}
    BY FeedTimes, Constants DEF OracleInv, Sound
  <2>2. /\ ~paused /\ _readFeed(primary, head) = "OK"
        /\ _readFeed(secondary, head) = "OK" => ~Deviating
        /\ _readFeed(secondary, head) = "OK" \/ ~config.secondary
    BY <1>3, Evaluates DEF status
  <2>3. ~(_readFeed(secondary, wall) = "OK" /\ Deviating)
    BY <2>2, Constants, ReadsOK
  <2>4. _readFeed(primary, wall) # "OK"
    BY <2>2, <2>3, Evaluates
  <2>5. ~feed[primary].reverting /\ wall - feed[primary].updatedAt > heartbeat
    <3>1. /\ ~feed[primary].reverting
          /\ ~(feed[primary].answer <= 0 \/ feed[primary].answer > MAX_ANSWER)
          /\ feed[primary].updatedAt # 0 /\ primary # secondary
          /\ Price(primary, feed[primary].answer) \in config.minPrice..config.maxPrice
      BY <2>2, ReadsOK, Constants
    <3>2. ~(feed[primary].updatedAt > wall)
      BY <2>1
    <3>3. ~~(wall - feed[primary].updatedAt > heartbeat)
      BY <2>4, <3>1, <3>2, ReadsOK
    <3> QED BY <3>1, <3>3
  <2>6. age = {wall - feed[primary].updatedAt}
    BY <2>1, <2>5 DEF age, effectiveNow
  <2>7. (wall - feed[primary].updatedAt) * MILLION >= staleWarningShare * heartbeat
    <3>1. MILLION \in Nat /\ staleWarningShare \in Nat /\ staleWarningShare <= MILLION
      BY RulesAssumption DEF RulesAssumption
    <3> DEFINE a == wall - feed[primary].updatedAt
    <3>2. a \in Int /\ heartbeat <= a
      BY <2>1, <2>5
    <3> HIDE DEF a
    <3>3. heartbeat * MILLION <= a * MILLION
      BY <2>1, <3>1, <3>2
    <3>4. staleWarningShare * heartbeat <= heartbeat * MILLION
      BY <2>1, <3>1
    <3>5. a * MILLION \in Int /\ staleWarningShare * heartbeat \in Int /\ heartbeat * MILLION \in Int
      BY <2>1, <3>1, <3>2
    <3>6. a * MILLION >= staleWarningShare * heartbeat
      BY <3>3, <3>4, <3>5
    <3> QED BY <3>6 DEF a
  <2>8. old # {}
    BY <1>3, <2>1, <2>6, <2>7 DEF If
  <2> QED BY <1>1, <2>8
<1> QED BY <1>2, <1>3

\* OracleFeeds!ConfirmedPricesHold: the two answers are of one price, so a primary
\* that is within the bounds is enough.
LEMMA ConfirmedHolds ==
    ASSUME OracleInv
    PROVE  ConfirmedPricesHold
<1> SUFFICES ASSUME run.confirmed \in Moves, ~paused,
                    \A f \in Feed : ~feed[f].reverting /\ wall - feed[f].updatedAt <= heartbeat,
                    Price(primary, feed[primary].answer) \in config.minPrice..config.maxPrice
             PROVE  _evaluate(wall) \in Trusted
  BY DEF ConfirmedPricesHold
<1> DEFINE a == feed[primary].answer
           price == a * Scale
<1>1. /\ a \in Positive /\ wall \in Nat /\ feed[primary].updatedAt \in Positive
      /\ feed[primary].updatedAt <= wall /\ Scale \in Nat \ {0} /\ primary \in Feed /\ primary # secondary
      /\ heartbeat \in Nat
  BY FeedTimes, Constants DEF OracleInv
<1>2. Price(primary, a) = price /\ Price(secondary, feed[secondary].answer) = price
  BY <1>1 DEF OracleInv, Aligned, Price
<1>3. /\ config.maxPrice \in 0..MAX_ANSWER /\ config.minPrice \in Nat
      /\ config.maxDeviationBps \in Nat /\ MAX_ANSWER \in Nat /\ BPS \in Nat
  BY OracleAssumption DEF OracleInv, Sound, OracleAssumption
<1> HIDE DEF a
<1>4. price \in Nat /\ a <= price
  BY <1>1 DEF Positive
<1>5. price \in config.minPrice..config.maxPrice
  BY <1>2 DEF a
<1> HIDE DEF price
<1>6. ~(a <= 0 \/ a > MAX_ANSWER)
  BY <1>1, <1>3, <1>4, <1>5 DEF Positive
<1>7. _readFeed(primary, wall) = "OK"
  <2>1. feed[primary].updatedAt # 0 /\ ~(feed[primary].updatedAt > wall)
    BY <1>1 DEF Positive
  <2>2. ~feed[primary].reverting /\ ~(wall - feed[primary].updatedAt > heartbeat)
    BY <1>1 DEF Positive
  <2> QED BY <1>1, <1>6, <2>1, <2>2, ReadsOK DEF a
<1>8. ~Deviating
  <2>1. Apart(price, price) * BPS = 0 /\ price * config.maxDeviationBps \in Nat
    BY <1>3, <1>4 DEF Apart
  <2> QED BY <1>2, <2>1 DEF Deviating, _deviates, a
<1> QED BY <1>7, <1>8, Evaluates

\* No transaction meets a stale price while the keeper runs and nobody simulates
\* a stale or failing feed (monitor/src/price-keeper.ts): OracleFeeds!KeptFresh.
THEOREM KeeperKeepsFresh == Spec => []KeptFresh
BY OracleInvariant, FreshWhilePolled, PTL

\* Whatever the next transaction would be refused for shows among the findings
\* of the market before (shared/src/risk.ts): OracleFeeds!HaltsAreSeen.
THEOREM MonitorSeesHalts == Spec => []HaltsAreSeen
BY OracleInvariant, HaltSeen, PTL

\* A price the lab confirmed is one the OracleManager resolves
\* (frontend/src/app/admin/page.tsx): OracleFeeds!ConfirmedPricesHold.
THEOREM LabPricesHold == Spec => []ConfirmedPricesHold
BY OracleInvariant, ConfirmedHolds, PTL
=============================================================================
