---------------------------- MODULE Console_proofs ----------------------------
(***************************************************************************)
(* What an operator sees and gets, for any number of operations, calls,    *)
(* other operators and lost connections: a success shown was mined unless  *)
(* the call was replaced in the wallet, a setter changes its own field,    *)
(* and the queue is not left stale.                                        *)
(***************************************************************************)
EXTENDS Console, TLAPS

Kind == {"execute", "cancel"}
Running == [step : {"simulate", "sign", "wait"}, call : Kind, op : Op]

TimelockSound ==
    /\ operation \in [Op -> Nat] /\ schedules \in [Op -> Nat] /\ now \in Nat
    /\ config \in [{"paused", "frozen", "borrowingEnabled"} -> BOOLEAN]
    /\ \A o \in Op : operation[o] # Unset => schedules[o] # 0

TransactorSound ==
    /\ runs \in 0..MaxRuns
    /\ receipts \in [1..MaxRuns -> {"none", "success", "reverted"}]
    /\ run = NoRun \/ (run \in Running /\ runs # 0)
    /\ \A tx \in mempool : tx.id \in 1..runs /\ tx.call \in Kind /\ tx.op \in Op

\* The timelock is in the state a call asks for, and stays there: an operation
\* that was executed is never scheduled again, and one that was cancelled only anew.
Mined(call, o) ==
    /\ call = "execute" => operation[o] = Done
    /\ call = "cancel" => \/ schedules[o] > 1
                          \/ schedules[o] = 1 /\ operation[o] = Unset

\* The transactor waits for the receipt of its own call: until it sends one there is
\* none with its number, and the one it sent is the one on its way or mined, unless
\* something else was sent with its nonce.
OwnReceipt ==
    /\ \A i \in 1..MaxRuns : i > runs => receipts[i] = "none"
    /\ run.step \in {"simulate", "sign"} =>
         receipts[runs] = "none" /\ \A tx \in mempool : tx.id # runs
    /\ run.step = "wait" =>
         /\ \A tx \in mempool : tx.id = runs => tx.call = run.call /\ tx.op = run.op
         /\ receipts[runs] = "success" => runs \in replaced \/ Mined(run.call, run.op)

ToastMined ==
    \/ toast = NoToast
    \/ /\ toast.op \in Op /\ toast.call \in Kind
       /\ toast.run \in replaced \/ Mined(toast.call, toast.op)

\* An answer on its way that the tables have outrun is followed by a message, unless
\* that was lost or came to the first request.
AnswerFollowed ==
    fetch.step = "answered" /\ ~Same(fetch.answer) => missed \/ inbox > 0

LiveSound == hub.listening \in Nat /\ hub.starting \in Nat /\ inbox \in Nat

ConsoleInv ==
    /\ TimelockSound /\ TransactorSound /\ LiveSound
    /\ OwnReceipt /\ ToastMined
    /\ NotLeftStale /\ AnswerFollowed

-------------------------------------------------------------------------------
\* Every step but a batch of the indexer leaves the tables and does one thing to
\* the timelock, or nothing.
TimelockStep ==
    /\ UNCHANGED tableVars
    /\ \/ \E o \in Op : Schedule(o) \/ Execute(o) \/ Cancel(o)
       \/ EmergencyControls \/ Tick
       \/ UNCHANGED chainVars

\* What a change of the configuration may be; OwnFieldOnly says it of every step.
OwnField ==
    \A f \in DOMAIN config : config'[f] # config[f] =>
         \/ f = "paused" /\ operation' = operation
         \/ f = "frozen" /\ config'.frozen /\ operation' = operation
         \/ \E o \in Op : /\ Change[o] = [field |-> f, value |-> config'[f]]
                          /\ Ready(o) /\ operation'[o] = Done

\* Scheduling: a call that was not there or was cancelled, once more.
LEMMA Scheduled ==
    ASSUME TimelockSound, NEW o \in Op, Schedule(o)
    PROVE  /\ TimelockSound' /\ OwnField
           /\ \A call \in Kind, p \in Op : Mined(call, p) => Mined(call, p)'
<1>1. /\ operation[o] = Unset
      /\ operation' = [operation EXCEPT ![o] = now + Delay]
      /\ schedules' = [schedules EXCEPT ![o] = schedules[o] + 1]
      /\ now' = now /\ config' = config
  BY Zenon DEF Schedule
<1> QED BY <1>1, QueueAssumption DEF TimelockSound, OwnField, Mined, Unset, Done, Kind

\* Execution by anyone: the change is the operation's own.
LEMMA Executed ==
    ASSUME TimelockSound, NEW o \in Op, Execute(o)
    PROVE  /\ TimelockSound' /\ OwnField /\ Mined("execute", o)'
           /\ \A call \in Kind, p \in Op : Mined(call, p) => Mined(call, p)'
<1>1. /\ Ready(o) /\ operation' = [operation EXCEPT ![o] = Done]
      /\ config' = [config EXCEPT ![Change[o].field] = Change[o].value]
      /\ now' = now /\ schedules' = schedules
  BY DEF Execute, Applied
<1>2. Change[o] \in Call
  BY QueueAssumption
<1>3. operation'[o] = Done
  BY <1>1 DEF TimelockSound
<1>4. OwnField
  <2> SUFFICES ASSUME NEW f \in DOMAIN config, config'[f] # config[f]
               PROVE  Change[o] = [field |-> f, value |-> config'[f]]
    BY <1>1, <1>3 DEF OwnField
  <2> QED BY <1>1, <1>2 DEF Call, TimelockSound
<1>5. config' \in [{"paused", "frozen", "borrowingEnabled"} -> BOOLEAN]
  BY <1>1, <1>2 DEF TimelockSound, Call
<1>6. TimelockSound'
  BY <1>1, <1>5 DEF TimelockSound, Ready, Pending, Unset, Done
<1>7. \A call \in Kind, p \in Op : Mined(call, p) => Mined(call, p)'
  BY <1>1 DEF TimelockSound, Mined, Ready, Pending, Unset, Done, Kind
<1>8. Mined("execute", o)'
  BY <1>3 DEF Mined
<1> QED BY <1>4, <1>6, <1>7, <1>8

\* Cancellation: the operation was scheduled, so it is Unset anew.
LEMMA Cancelled ==
    ASSUME TimelockSound, NEW o \in Op, Cancel(o)
    PROVE  /\ TimelockSound' /\ OwnField /\ Mined("cancel", o)'
           /\ \A call \in Kind, p \in Op : Mined(call, p) => Mined(call, p)'
<1>1. /\ Pending(o) /\ operation' = [operation EXCEPT ![o] = Unset]
      /\ now' = now /\ schedules' = schedules /\ config' = config
  BY DEF Cancel
<1>2. schedules[o] \in Nat /\ schedules[o] # 0
  BY <1>1 DEF TimelockSound, Pending, Unset, Done
<1> QED BY <1>1, <1>2 DEF TimelockSound, OwnField, Mined, Pending, Unset, Done, Kind

\* What was mined stays so, whatever happens to the timelock.
LEMMA TimelockStepSound ==
    ASSUME TimelockSound, TimelockStep
    PROVE  /\ TimelockSound' /\ OwnField
           /\ \A call \in Kind, p \in Op : Mined(call, p) => Mined(call, p)'
<1>1. CASE \E o \in Op : Schedule(o) \/ Execute(o) \/ Cancel(o)
  BY <1>1, Scheduled, Executed, Cancelled
<1>2. CASE EmergencyControls
  <2>1. /\ operation' = operation /\ schedules' = schedules /\ now' = now
        /\ \/ config' = [config EXCEPT !["paused"] = ~config["paused"]]
           \/ config' = [config EXCEPT !["frozen"] = TRUE]
    BY <1>2 DEF EmergencyControls
  <2>2. TimelockSound' /\ OwnField
    BY <2>1 DEF TimelockSound, OwnField
  <2> QED BY <2>1, <2>2 DEF Mined
<1>3. CASE Tick
  BY <1>3 DEF Tick, TimelockSound, OwnField, Mined
<1>4. CASE UNCHANGED chainVars
  BY <1>4 DEF chainVars, TimelockSound, OwnField, Mined
<1> QED BY <1>1, <1>2, <1>3, <1>4 DEF TimelockStep

\* Time moves an operation from pending to ready and nothing else: as long as the
\* tables stay, so does what an answer says of them.
LEMMA SameStays ==
    ASSUME UNCHANGED tableVars
    PROVE  \A f : Same(f) <=> Same(f)'
<1>1. ASSUME NEW o \in Op
      PROVE  statuses(o) = statuses(o)' \/ (statuses(o) \subseteq Open /\ statuses(o)' \subseteq Open)
  BY DEF tableVars, statuses, Open
<1> QED BY <1>1 DEF Same

-------------------------------------------------------------------------------
\* The page before its first answer, with no run and nothing shown.
LEMMA InitSound == ASSUME Init PROVE ConsoleInv
<1>1. TimelockSound
  <2>1. /\ now = 2 /\ operation = [o \in Op |-> 0] /\ schedules = [o \in Op |-> 0]
        /\ config = [paused |-> FALSE, frozen |-> FALSE, borrowingEnabled |-> TRUE]
    BY DEF Init, QInit, Listing, Unset
  <2>2. config \in [{"paused", "frozen", "borrowingEnabled"} -> BOOLEAN]
    <3>1. DOMAIN config = {"paused", "frozen", "borrowingEnabled"}
      BY <2>1
    <3>2. config = [f \in DOMAIN config |-> config[f]]
      BY <2>1
    <3>3. config["paused"] \in BOOLEAN /\ config["frozen"] \in BOOLEAN /\ config["borrowingEnabled"] \in BOOLEAN
      BY <2>1
    <3> QED BY <3>1, <3>2, <3>3
  <2> QED BY <2>1, <2>2 DEF TimelockSound, Unset
<1>2. TransactorSound /\ LiveSound
  BY ConsoleAssumption DEF Init, TransactorSound, LiveSound, NoRun
<1>3. OwnReceipt /\ ToastMined
  BY DEF Init, OwnReceipt, ToastMined, NoRun, NoToast
<1>4. NotLeftStale /\ AnswerFollowed
  BY DEF Init, NotLeftStale, AnswerFollowed, Sent
<1> QED BY <1>1, <1>2, <1>3, <1>4 DEF ConsoleInv

\* A commit of the indexer: each client that listens sends a message, and with none
\* the commit counts as missed.
LEMMA IndexSound == ASSUME ConsoleInv, Index PROVE ConsoleInv' /\ OwnField
<1>1. /\ UNCHANGED chainVars
      /\ UNCHANGED <<hub, socket, data, fetch, faults, txVars>>
      /\ \/ hub.listening > 0 /\ inbox' = inbox + hub.listening
         \/ missed' /\ inbox' = inbox
  BY DEF Index, IndexBatch
<1>2. missed' \/ inbox' > 0
  BY <1>1 DEF ConsoleInv, LiveSound
<1>3. TimelockSound' /\ TransactorSound' /\ LiveSound' /\ OwnField
  BY <1>1 DEF ConsoleInv, chainVars, txVars, TimelockSound, TransactorSound, LiveSound, OwnField
<1>4. OwnReceipt' /\ ToastMined'
  BY <1>1 DEF ConsoleInv, chainVars, txVars, OwnReceipt, ToastMined, Mined
<1>5. NotLeftStale' /\ AnswerFollowed'
  BY <1>2 DEF NotLeftStale, AnswerFollowed
<1> QED BY <1>3, <1>4, <1>5 DEF ConsoleInv

\* The transactor's half of the invariant, when it and its calls are left alone.
LEMMA TransactorStays ==
    ASSUME ConsoleInv, TimelockStep, UNCHANGED txVars
    PROVE  TimelockSound' /\ TransactorSound' /\ OwnReceipt' /\ ToastMined' /\ OwnField
<1>1. TimelockSound' /\ OwnField /\ \A call \in Kind, p \in Op : Mined(call, p) => Mined(call, p)'
  BY TimelockStepSound DEF ConsoleInv
<1>2. TransactorSound'
  BY DEF ConsoleInv, txVars, TransactorSound
<1>3. run.step = "wait" => run.call \in Kind /\ run.op \in Op
  BY DEF ConsoleInv, TransactorSound, NoRun, Running
<1>4. OwnReceipt'
  <2>1. run' = run /\ runs' = runs /\ mempool' = mempool /\ receipts' = receipts /\ replaced' = replaced
    BY DEF txVars
  <2>2. run.step = "wait" /\ receipts[runs] = "success" => runs \in replaced \/ Mined(run.call, run.op)'
    BY <1>1, <1>3, <2>1 DEF ConsoleInv, OwnReceipt, Mined
  <2> QED BY <2>1, <2>2 DEF ConsoleInv, OwnReceipt, Mined
<1>5. ToastMined'
  BY <1>1 DEF ConsoleInv, txVars, ToastMined, Mined
<1> QED BY <1>1, <1>2, <1>4, <1>5

\* The operator's half, when the page and its connection are left alone.
LEMMA LiveStays ==
    ASSUME ConsoleInv, UNCHANGED <<tableVars, liveVars>>
    PROVE  LiveSound' /\ NotLeftStale' /\ AnswerFollowed'
<1>1. \A f : Same(f) <=> Same(f)'
  BY SameStays
<1>2. UNCHANGED <<hub, inbox, data, fetch, missed>>
  BY DEF liveVars
<1>3. LiveSound'
  BY <1>2 DEF ConsoleInv, LiveSound
<1>4. /\ Same(data) <=> Same(data)'
      /\ Same(fetch.answer) <=> Same(fetch.answer)'
  BY <1>1, <1>2 DEF Same, statuses, tableVars
<1> QED BY <1>2, <1>3, <1>4 DEF ConsoleInv, NotLeftStale, AnswerFollowed

\* Time, the guardian and other operators: the page hears of none of it yet.
LEMMA ChainSound == ASSUME ConsoleInv, Chain PROVE ConsoleInv' /\ OwnField
<1>1. TimelockStep
  <2>1. UNCHANGED tableVars
    BY Zenon DEF Chain, Schedule, Execute, Cancel, EmergencyControls, Tick, tableVars
  <2> QED BY <2>1 DEF Chain, TimelockStep
<1>2. UNCHANGED <<tableVars, liveVars, txVars>>
  BY <1>1 DEF TimelockStep, Chain, Quiet, liveVars
<1> QED BY <1>1, <1>2, TransactorStays, LiveStays DEF ConsoleInv

\* The live hub's connections: a message once sent is not affected.
LEMMA HubsSound ==
    ASSUME ConsoleInv, Hubs
    PROVE  LiveSound' /\ NotLeftStale' /\ AnswerFollowed' /\ UNCHANGED <<queueVars, txVars>>
<1>1. UNCHANGED <<queueVars, inbox, data, fetch, missed, txVars>>
  BY DEF Hubs, Hub, listen, startFails, listenerError, restart
<1>2. LiveSound'
  <2>1. CASE listen
    BY <2>1 DEF listen, Hub, ConsoleInv, LiveSound
  <2>2. CASE startFails
    BY <2>2 DEF startFails, Hub, ConsoleInv, LiveSound
  <2>3. CASE listenerError
    BY <2>3 DEF listenerError, Hub, ConsoleInv, LiveSound
  <2>4. CASE restart
    BY <2>4 DEF restart, Hub, ConsoleInv, LiveSound
  <2> QED BY <2>1, <2>2, <2>3, <2>4 DEF Hubs
<1>3. UNCHANGED tableVars
  BY <1>1 DEF queueVars
<1>4. /\ Same(data) <=> Same(data)'
      /\ Same(fetch.answer) <=> Same(fetch.answer)'
  BY <1>1, <1>3, SameStays DEF Same, statuses, tableVars
<1> QED BY <1>1, <1>2, <1>4 DEF ConsoleInv, NotLeftStale, AnswerFollowed

\* The browser's socket: what is lost with it counts as missed.
LEMMA SocketSound ==
    ASSUME ConsoleInv, Socket
    PROVE  LiveSound' /\ NotLeftStale' /\ AnswerFollowed' /\ UNCHANGED <<queueVars, txVars>>
<1>1. UNCHANGED <<queueVars, hub, data, txVars>>
  BY DEF Socket, onopen, onmessage, onclose, reconnect
<1>2. UNCHANGED tableVars
  BY <1>1 DEF queueVars
<1>3. /\ Same(data) <=> Same(data)'
      /\ fetch' = fetch => (Same(fetch.answer) <=> Same(fetch.answer)')
  BY <1>1, <1>2, SameStays DEF Same, statuses, tableVars
<1>4. CASE onopen \/ reconnect
  <2>1. UNCHANGED <<inbox, fetch, missed>>
    BY <1>4 DEF onopen, reconnect
  <2> QED BY <1>1, <1>3, <2>1 DEF ConsoleInv, LiveSound, NotLeftStale, AnswerFollowed
<1>5. CASE onmessage
  <2>1. /\ inbox > 0 /\ inbox' = inbox - 1
        /\ missed' = (missed \/ (data = NoData /\ fetch.step = "answered"))
        /\ fetch' = Sent \/ (data = NoData /\ fetch' = fetch)
    BY <1>5 DEF onmessage, invalidate
  <2>2. LiveSound'
    BY <1>1, <2>1 DEF ConsoleInv, LiveSound
  <2>3. CASE fetch' = Sent
    BY <1>1, <2>2, <2>3 DEF NotLeftStale, AnswerFollowed, Sent
  <2>4. CASE data = NoData /\ fetch' = fetch
    <3>1. data' = NoData' /\ (fetch.step = "answered" => missed')
      BY <1>1, <2>1, <2>4 DEF NoData
    <3> QED BY <1>1, <2>2, <2>4, <3>1 DEF NotLeftStale, AnswerFollowed
  <2> QED BY <2>1, <2>3, <2>4
<1>6. CASE onclose
  <2>1. inbox' = 0 /\ missed' = (missed \/ inbox > 0) /\ fetch' = fetch
    BY <1>6 DEF onclose
  <2> QED BY <1>1, <1>3, <2>1 DEF ConsoleInv, LiveSound, NotLeftStale, AnswerFollowed
<1> QED BY <1>4, <1>5, <1>6 DEF Socket

\* The query: an answer is the tables' when it is read, and only a commit since then,
\* which sends a message or is missed, makes it differ when it arrives.
LEMMA QuerySound ==
    ASSUME ConsoleInv, Query
    PROVE  LiveSound' /\ NotLeftStale' /\ AnswerFollowed' /\ UNCHANGED <<queueVars, txVars>>
<1>1. UNCHANGED <<queueVars, hub, inbox, txVars>>
  BY DEF Query, poll, serve, receive, requestFails
<1>2. LiveSound'
  BY <1>1 DEF ConsoleInv, LiveSound
<1>3. UNCHANGED tableVars
  BY <1>1 DEF queueVars
<1>4. \A f : Same(f) <=> Same(f)'
  BY <1>3, SameStays
<1>5. CASE poll
  BY <1>1, <1>2, <1>5 DEF poll, NotLeftStale, AnswerFollowed, Sent
<1>6. CASE serve
  <2>1. PICK answer \in Answers : fetch' = [step |-> "answered", answer |-> answer]
    BY <1>6 DEF serve
  <2>2. Same(answer)'
    BY <1>4, <2>1 DEF Answers, Same
  <2>3. Same(fetch.answer)'
    BY <2>1, <2>2 DEF Same
  <2> QED BY <1>1, <1>2, <2>1, <2>3 DEF NotLeftStale, AnswerFollowed
<1>7. CASE receive
  <2>1. fetch.step = "answered" /\ data' = fetch.answer /\ fetch' = Idle /\ missed' = missed
    BY <1>7 DEF receive
  <2>2. Same(fetch.answer) => Same(data)'
    BY <1>3, <2>1, SameStays DEF Same, statuses, tableVars
  <2> QED BY <1>1, <1>2, <2>1, <2>2 DEF ConsoleInv, NotLeftStale, AnswerFollowed, Idle
<1>8. CASE requestFails
  <2>1. fetch' = Idle /\ missed' = TRUE
    BY <1>8 DEF requestFails
  <2> QED BY <1>1, <1>2, <2>1 DEF NotLeftStale, AnswerFollowed, Idle
<1> QED BY <1>5, <1>6, <1>7, <1>8 DEF Query

\* The page and its connections leave the timelock and the transactor alone.
LEMMA PageSound ==
    ASSUME ConsoleInv, Hubs \/ Socket \/ Query
    PROVE  ConsoleInv' /\ OwnField
<1>1. LiveSound' /\ NotLeftStale' /\ AnswerFollowed' /\ UNCHANGED <<queueVars, txVars>>
  BY HubsSound, SocketSound, QuerySound
<1>2. TimelockStep /\ UNCHANGED txVars
  BY <1>1 DEF TimelockStep, queueVars
<1> QED BY <1>1, <1>2, TransactorStays DEF ConsoleInv

-------------------------------------------------------------------------------
\* The transactor.  Only a mined call touches the timelock, only a success the page.

\* A run under way has a call and a number.
LEMMA RunShape ==
    ASSUME ConsoleInv
    PROVE  /\ run.step \in {"simulate", "sign", "wait"} => run \in Running /\ runs \in 1..MaxRuns
           /\ run = NoRun \/ run \in Running
<1>1. MaxRuns \in Nat
  BY ConsoleAssumption
<1> QED BY <1>1 DEF ConsoleInv, TransactorSound, NoRun, Running

\* The timelock's half and the page's, through a step that touches neither.
LEMMA OthersStay ==
    ASSUME ConsoleInv, UNCHANGED <<queueVars, liveVars>>
    PROVE  TimelockSound' /\ OwnField /\ LiveSound' /\ NotLeftStale' /\ AnswerFollowed'
<1>1. TimelockStep /\ UNCHANGED tableVars
  BY DEF TimelockStep, queueVars
<1> QED BY <1>1, TimelockStepSound, LiveStays DEF ConsoleInv

\* A new run has a number no receipt and no call sent has.
LEMMA ClickSound == ASSUME ConsoleInv, click PROVE ConsoleInv' /\ OwnField
<1>1. /\ UNCHANGED <<queueVars, liveVars>>
      /\ UNCHANGED <<mempool, receipts, replaced, toast>> /\ runs < MaxRuns /\ runs' = runs + 1
  BY DEF click, Transact, liveVars
<1>2. PICK call \in Kind, o \in Op : run' = [step |-> "simulate", call |-> call, op |-> o]
  BY DEF click, Transact, Kind
<1>3. TransactorSound'
  <2>1. run' \in Running
    BY <1>2 DEF Running
  <2> QED BY <1>1, <2>1, ConsoleAssumption DEF ConsoleInv, TransactorSound
<1>4. OwnReceipt'
  <2>1. \A i \in 1..MaxRuns : i > runs' => receipts'[i] = "none"
    BY <1>1 DEF ConsoleInv, TransactorSound, OwnReceipt
  <2>2. receipts'[runs'] = "none" /\ \A tx \in mempool' : tx.id # runs'
    BY <1>1, ConsoleAssumption DEF ConsoleInv, TransactorSound, OwnReceipt
  <2> QED BY <1>2, <2>1, <2>2 DEF OwnReceipt
<1>5. ToastMined'
  BY <1>1 DEF ConsoleInv, ToastMined, Mined, queueVars, chainVars
<1> QED BY <1>1, <1>3, <1>4, <1>5, OthersStay DEF ConsoleInv

\* A run that ends, whatever of its call is still on its way.
LEMMA RunEnds ==
    ASSUME ConsoleInv, run' = NoRun, UNCHANGED <<queueVars, runs, mempool, receipts, replaced>>
    PROVE  TransactorSound' /\ OwnReceipt'
BY DEF ConsoleInv, TransactorSound, OwnReceipt, NoRun

\* The simulation lets the run go on or ends it.
LEMMA SimulateSound == ASSUME ConsoleInv, simulate PROVE ConsoleInv' /\ OwnField
<1>1. /\ UNCHANGED <<queueVars, liveVars>>
      /\ UNCHANGED <<runs, mempool, receipts, replaced, toast>> /\ run.step = "simulate"
      /\ run' = [run EXCEPT !.step = "sign"] \/ run' = NoRun
  BY DEF simulate, Transact, liveVars
<1>2. TransactorSound' /\ OwnReceipt'
  <2>1. CASE run' = NoRun
    BY <1>1, <2>1, RunEnds
  <2>2. CASE run' = [run EXCEPT !.step = "sign"]
    <3>1. /\ run \in Running /\ runs \in 1..MaxRuns
          /\ run' \in Running /\ run'.step = "sign"
      BY <1>1, <2>2, RunShape DEF Running
    <3>2. TransactorSound'
      BY <1>1, <3>1 DEF ConsoleInv, TransactorSound
    <3>3. receipts[runs] = "none" /\ \A tx \in mempool : tx.id # runs
      BY <1>1 DEF ConsoleInv, OwnReceipt
    <3> QED BY <1>1, <3>1, <3>2, <3>3 DEF ConsoleInv, OwnReceipt
  <2> QED BY <1>1, <2>1, <2>2
<1>3. ToastMined'
  BY <1>1 DEF ConsoleInv, ToastMined, Mined, queueVars, chainVars
<1> QED BY <1>1, <1>2, <1>3, OthersStay DEF ConsoleInv

\* The one call sent with the run's number is the run's.
LEMMA WriteContractSound == ASSUME ConsoleInv, writeContract PROVE ConsoleInv' /\ OwnField
<1>1. /\ UNCHANGED <<queueVars, liveVars>>
      /\ UNCHANGED <<runs, receipts, replaced, toast>> /\ run.step = "sign"
      /\ \/ /\ mempool' = mempool \cup {[id |-> runs, call |-> run.call, op |-> run.op]}
            /\ run' = [run EXCEPT !.step = "wait"]
         \/ run' = NoRun /\ mempool' = mempool
  BY DEF writeContract, Transact, liveVars
<1>2. TransactorSound' /\ OwnReceipt'
  <2>1. CASE run' = NoRun /\ mempool' = mempool
    BY <1>1, <2>1, RunEnds
  <2>2. CASE /\ mempool' = mempool \cup {[id |-> runs, call |-> run.call, op |-> run.op]}
             /\ run' = [run EXCEPT !.step = "wait"]
    <3>1. /\ run \in Running /\ runs \in 1..MaxRuns /\ run' \in Running
          /\ run'.step = "wait" /\ run'.call = run.call /\ run'.op = run.op
          /\ run.call \in Kind /\ run.op \in Op
      BY <1>1, <2>2, RunShape DEF Running
    <3>2. TransactorSound'
      <4>1. \A tx \in mempool' : tx.id \in 1..runs /\ tx.call \in Kind /\ tx.op \in Op
        BY <2>2, <3>1 DEF ConsoleInv, TransactorSound
      <4> QED BY <1>1, <3>1, <4>1 DEF ConsoleInv, TransactorSound
    <3>3. receipts[runs] = "none" /\ \A tx \in mempool : tx.id # runs
      BY <1>1 DEF ConsoleInv, OwnReceipt
    <3>4. \A tx \in mempool' : tx.id = runs => tx.call = run.call /\ tx.op = run.op
      BY <2>2, <3>3
    <3> QED BY <1>1, <3>1, <3>2, <3>3, <3>4 DEF ConsoleInv, OwnReceipt
  <2> QED BY <1>1, <2>1, <2>2
<1>3. ToastMined'
  BY <1>1 DEF ConsoleInv, ToastMined, Mined, queueVars, chainVars
<1> QED BY <1>1, <1>2, <1>3, OthersStay DEF ConsoleInv

\* The receipt read is that of the run's nonce, and a success says that the call was
\* mined, unless it was replaced.
LEMMA ReceiptSound ==
    ASSUME ConsoleInv, receiptArrives \/ receiptTimesOut
    PROVE  ConsoleInv' /\ OwnField
<1>1. /\ UNCHANGED <<queueVars, hub, inbox, data, missed, runs, mempool, receipts, replaced>>
      /\ run.step = "wait" /\ run' = NoRun
  BY DEF receiptArrives, receiptTimesOut, Transact
<1>2. TransactorSound' /\ OwnReceipt'
  BY <1>1, RunEnds
<1>3. \/ UNCHANGED toast
      \/ receipts[runs] = "success" /\ toast' = [call |-> run.call, op |-> run.op, run |-> runs]
  BY DEF receiptArrives, receiptTimesOut, succeeded
<1>4. ToastMined'
  <2>1. CASE UNCHANGED toast
    BY <1>1, <2>1 DEF ConsoleInv, ToastMined, Mined, queueVars, chainVars
  <2>2. CASE /\ receipts[runs] = "success"
             /\ toast' = [call |-> run.call, op |-> run.op, run |-> runs]
    <3>1. /\ run.call \in Kind /\ run.op \in Op
          /\ runs \in replaced \/ Mined(run.call, run.op)
      BY <1>1, <2>2, RunShape DEF Running, ConsoleInv, OwnReceipt
    <3> QED BY <1>1, <2>2, <3>1 DEF ToastMined, Mined, queueVars, chainVars
  <2> QED BY <1>3, <2>1, <2>2
<1>5. TimelockSound' /\ OwnField
  BY <1>1, TimelockStepSound DEF TimelockStep, queueVars, ConsoleInv
<1>6. fetch' = Sent \/ fetch' = fetch
  BY DEF receiptArrives, receiptTimesOut, invalidate
<1>7. LiveSound' /\ NotLeftStale' /\ AnswerFollowed'
  <2>1. CASE fetch' = Sent
    BY <1>1, <2>1 DEF ConsoleInv, LiveSound, NotLeftStale, AnswerFollowed, Sent
  <2>2. CASE fetch' = fetch
    <3>1. UNCHANGED tableVars
      BY <1>1 DEF queueVars
    <3>2. /\ Same(data) <=> Same(data)'
          /\ Same(fetch.answer) <=> Same(fetch.answer)'
      BY <1>1, <2>2, <3>1, SameStays DEF Same, statuses, tableVars
    <3> QED BY <1>1, <2>2, <3>2 DEF ConsoleInv, LiveSound, NotLeftStale, AnswerFollowed, NoData
  <2> QED BY <1>6, <2>1, <2>2
<1> QED BY <1>2, <1>4, <1>5, <1>7 DEF ConsoleInv

\* Something else with the nonce of a pending call: one more exception.
LEMMA ReplaceSound == ASSUME ConsoleInv, replaceInWallet PROVE ConsoleInv' /\ OwnField
<1>1. /\ UNCHANGED <<queueVars, liveVars, run, runs, mempool, receipts, toast>>
      /\ replaced \subseteq replaced'
  BY DEF replaceInWallet
<1>2. TransactorSound' /\ OwnReceipt' /\ ToastMined'
  BY <1>1 DEF ConsoleInv, TransactorSound, OwnReceipt, ToastMined, Mined, queueVars, chainVars
<1> QED BY <1>1, <1>2, OthersStay DEF ConsoleInv

\* A block takes a call: the timelock executes or cancels it, or it reverts; or it
\* takes what replaced it.
LEMMA MineSound == ASSUME ConsoleInv, mine PROVE ConsoleInv' /\ OwnField
<1>1. PICK tx \in mempool :
        /\ mempool' = mempool \ {tx}
        /\ UNCHANGED <<liveVars, run, runs, replaced, toast>>
        /\ \/ /\ tx.call = "execute" /\ Execute(tx.op)
              /\ receipts' = [receipts EXCEPT ![tx.id] = "success"]
           \/ /\ tx.call = "cancel" /\ Cancel(tx.op)
              /\ receipts' = [receipts EXCEPT ![tx.id] = "success"]
           \/ /\ UNCHANGED queueVars
              /\ receipts' = [receipts EXCEPT ![tx.id] = "reverted"]
           \/ /\ tx.id \in replaced /\ UNCHANGED queueVars
              /\ receipts' = [receipts EXCEPT ![tx.id] = "success"]
  BY DEF mine
<1>2. tx.id \in 1..runs /\ tx.call \in Kind /\ tx.op \in Op /\ runs \in 1..MaxRuns
  BY <1>1, ConsoleAssumption DEF ConsoleInv, TransactorSound
<1>3. TimelockStep
  <2>1. CASE Execute(tx.op) \/ Cancel(tx.op)
    BY <1>2, <2>1 DEF TimelockStep, Execute, Cancel, tableVars
  <2>2. CASE UNCHANGED queueVars
    BY <2>2 DEF TimelockStep, queueVars
  <2> QED BY <1>1, <2>1, <2>2
<1>4. TimelockSound' /\ OwnField /\ \A call \in Kind, p \in Op : Mined(call, p) => Mined(call, p)'
  BY <1>3, TimelockStepSound DEF ConsoleInv
<1>5. receipts'[tx.id] = "success" => tx.id \in replaced \/ Mined(tx.call, tx.op)'
  <2>1. CASE tx.call = "execute" /\ Execute(tx.op)
    BY <1>2, <2>1, Executed DEF ConsoleInv, Mined
  <2>2. CASE tx.call = "cancel" /\ Cancel(tx.op)
    BY <1>2, <2>2, Cancelled DEF ConsoleInv, Mined
  <2>3. CASE receipts' = [receipts EXCEPT ![tx.id] = "reverted"]
    <3>1. tx.id \in 1..MaxRuns
      BY <1>2, ConsoleAssumption
    <3>2. receipts'[tx.id] = "reverted"
      BY <2>3, <3>1 DEF ConsoleInv, TransactorSound
    <3> QED BY <3>2
  <2>4. CASE tx.id \in replaced
    BY <2>4
  <2> QED BY <1>1, <2>1, <2>2, <2>3, <2>4
<1>6. TransactorSound'
  BY <1>1, <1>2 DEF ConsoleInv, TransactorSound
<1>7. \A i \in 1..MaxRuns : i # tx.id => receipts'[i] = receipts[i]
  BY <1>1 DEF ConsoleInv, TransactorSound
<1>8. OwnReceipt'
  <2>1. \A i \in 1..MaxRuns : i > runs => receipts'[i] = "none"
    BY <1>2, <1>7 DEF ConsoleInv, OwnReceipt
  <2>2. run.step \in {"simulate", "sign"} =>
          receipts'[runs] = "none" /\ \A t \in mempool' : t.id # runs
    BY <1>1, <1>2, <1>7 DEF ConsoleInv, OwnReceipt
  <2>3. run.step = "wait" => \A t \in mempool' : t.id = runs => t.call = run.call /\ t.op = run.op
    BY <1>1 DEF ConsoleInv, OwnReceipt
  <2>4. ASSUME run.step = "wait", receipts'[runs] = "success"
        PROVE  runs \in replaced \/ Mined(run.call, run.op)'
    <3>1. run.call \in Kind /\ run.op \in Op /\ run' = run
      BY <1>1, <2>4, RunShape DEF Running
    <3>2. CASE tx.id = runs
      <4>1. tx.call = run.call /\ tx.op = run.op
        BY <1>1, <2>4, <3>2 DEF ConsoleInv, OwnReceipt
      <4> QED BY <1>5, <2>4, <3>1, <3>2, <4>1 DEF Mined
    <3>3. CASE tx.id # runs
      <4>1. runs \in replaced \/ Mined(run.call, run.op)
        BY <1>2, <1>7, <2>4, <3>3 DEF ConsoleInv, OwnReceipt
      <4> QED BY <1>4, <3>1, <4>1 DEF Mined
    <3> QED BY <3>2, <3>3
  <2> QED BY <1>1, <2>1, <2>2, <2>3, <2>4 DEF OwnReceipt
<1>9. ToastMined'
  BY <1>1, <1>4 DEF ConsoleInv, ToastMined, Mined
<1>10. LiveSound' /\ NotLeftStale' /\ AnswerFollowed'
  BY <1>1, <1>3, LiveStays DEF TimelockStep
<1> QED BY <1>4, <1>6, <1>8, <1>9, <1>10 DEF ConsoleInv

-------------------------------------------------------------------------------
\* Every step keeps the invariant, and changes a configuration only field by field.
LEMMA StepSound == ASSUME ConsoleInv, Next PROVE ConsoleInv' /\ OwnField
<1>1. CASE Chain
  BY <1>1, ChainSound
<1>2. CASE Index
  BY <1>2, IndexSound
<1>3. CASE Hubs \/ Socket \/ Query
  BY <1>3, PageSound
<1>4. CASE Transactor
  BY <1>4, ClickSound, SimulateSound, WriteContractSound, ReplaceSound, MineSound, ReceiptSound DEF Transactor
<1> QED BY <1>1, <1>2, <1>3, <1>4 DEF Next

\* So does a step of nobody.
LEMMA StutterSound == ASSUME ConsoleInv, UNCHANGED vars PROVE ConsoleInv' /\ OwnField
<1>1. UNCHANGED <<queueVars, liveVars, txVars>>
  BY DEF vars
<1>2. TransactorSound' /\ OwnReceipt' /\ ToastMined'
  BY <1>1 DEF ConsoleInv, TransactorSound, OwnReceipt, ToastMined, Mined, queueVars, chainVars, txVars
<1> QED BY <1>1, <1>2, OthersStay DEF ConsoleInv

\* The console's invariant, for any operations, bounds and failures.
THEOREM ConsoleInvariant == Spec => []ConsoleInv
<1>1. Init => ConsoleInv
  BY InitSound
<1>2. ConsoleInv /\ [Next]_vars => ConsoleInv'
  BY StepSound, StutterSound
<1> QED BY <1>1, <1>2, PTL DEF Spec

\* A success shown for a call was mined, and the timelock is still as the call asks,
\* whoever else acts: the receipt the transactor of tx.tsx reads is that of its own
\* call, unless the call was replaced in the wallet.
THEOREM SuccessesAreMined == Spec => []SuccessIsMined
<1>1. ConsoleInv => SuccessIsMined
  BY DEF ConsoleInv, ToastMined, Mined, SuccessIsMined, NoToast
<1> QED BY <1>1, ConsoleInvariant, PTL

\* The queue of the admin page is not left stale by the live updates: what makes it
\* so was lost or left to the page's first request, or a message or a request is on
\* its way.
THEOREM QueueNotLeftStale == Spec => []NotLeftStale
<1>1. ConsoleInv => NotLeftStale
  BY DEF ConsoleInv
<1> QED BY <1>1, ConsoleInvariant, PTL

\* A field of the configuration changes only as a ready operation says, or by the
\* guardian's hand: setters that write whole configurations undo nothing.
THEOREM OnlyOwnField == Spec => OwnFieldOnly
<1>1. ConsoleInv /\ [Next]_vars => [OwnField]_vars
  BY StepSound
<1>2. Spec => [][OwnField]_vars
  BY <1>1, ConsoleInvariant, PTL DEF Spec
<1> QED BY <1>2, PTL DEF OwnFieldOnly, OwnField
===============================================================================
