------------------------------- MODULE Console -------------------------------
(***************************************************************************)
(* An operator's browser on the admin page: the timelock queue it shows,   *)
(* the live updates that refresh it (backend/ws.ts, frontend/lib/live.ts), *)
(* the polling behind them (frontend/lib/hooks.ts) and the transactor that *)
(* sends its calls (frontend/lib/tx.tsx).  Other operators act on the      *)
(* timelock at any time; connections drop, requests fail, a receipt may    *)
(* not arrive in time, and a call that is pending can be replaced in the   *)
(* wallet.                                                                 *)
(***************************************************************************)
EXTENDS TimelockQueue

CONSTANTS MaxFaults, MaxRuns    \* bounds: connections and requests lost, calls made

ASSUME ConsoleAssumption == {MaxFaults, MaxRuns} \subseteq Nat

VARIABLES
    hub,                \* LiveHub: its LISTEN clients by state, and its retry timers
    socket,             \* LiveStatus
    inbox,              \* messages on their way to the socket
    data, fetch,        \* the timelock query: its data and its request
    missed,             \* history: a commit since the last answer was read went without a
                        \* message, or without a request for its message
    faults,             \* connections and requests lost so far
    run,                \* the call of the transactor and where it is
    runs, mempool, receipts,    \* calls made so far, sent and not mined, mined
    replaced,           \* calls whose nonce was spent on something else in the wallet
    toast               \* the last success shown

liveVars == <<hub, socket, inbox, data, fetch, missed, faults>>
txVars == <<run, runs, mempool, receipts, replaced, toast>>
vars == <<queueVars, liveVars, txVars>>

NoData == [o \in Op |-> "none"]
Idle == [step |-> "idle"]
Sent == [step |-> "sent"]
NoRun == [step |-> "idle"]
NoToast == [call |-> "none"]

Init ==
    /\ QInit
    /\ hub = [starting |-> 1, listening |-> 0, timers |-> 0]
    /\ socket = "connecting" /\ inbox = 0
    /\ data = NoData /\ fetch = Sent /\ missed = FALSE
    /\ faults = 0
    /\ run = NoRun /\ runs = 0 /\ mempool = {} /\ receipts = [i \in 1..MaxRuns |-> "none"]
    /\ replaced = {} /\ toast = NoToast

Quiet == UNCHANGED <<hub, socket, inbox, data, fetch, missed, faults, txVars>>

----
(* The chain and the indexer. *)

Chain ==
    /\ \/ \E o \in Op : Schedule(o) \/ Execute(o) \/ Cancel(o)
       \/ EmergencyControls \/ Tick
    /\ Quiet

(* NOTIFY is part of the batch's transaction; each LISTEN client that is ready  *)
(* relays it to the socket if that is open.                                     *)
Index ==
    /\ IndexBatch
    /\ IF socket = "live" /\ hub.listening > 0
       THEN inbox' = inbox + hub.listening /\ UNCHANGED missed
       ELSE missed' = TRUE /\ UNCHANGED inbox
    /\ UNCHANGED <<hub, socket, data, fetch, faults, txVars>>

----
(* LiveHub.start. *)

Hub(change) ==
    /\ hub' = change
    /\ UNCHANGED <<queueVars, socket, inbox, data, fetch, missed, txVars>>

listen ==
    /\ hub.starting > 0
    /\ Hub([hub EXCEPT !.starting = @ - 1, !.listening = @ + 1])
    /\ UNCHANGED faults

(* connect() or LISTEN fails; when the connection breaks during LISTEN the error *)
(* handler and the catch both set a timer.                                       *)
startFails ==
    /\ hub.starting > 0 /\ faults < MaxFaults /\ faults' = faults + 1
    /\ \E timers \in {1, 2} : Hub([hub EXCEPT !.starting = @ - 1, !.timers = @ + timers])

listenerError ==
    /\ hub.listening > 0 /\ faults < MaxFaults /\ faults' = faults + 1
    /\ Hub([hub EXCEPT !.listening = @ - 1, !.timers = @ + 1])

restart ==
    /\ hub.timers > 0
    /\ Hub([hub EXCEPT !.timers = @ - 1, !.starting = @ + 1])
    /\ UNCHANGED faults

----
(* useLiveUpdates and the query. *)

\* Mutant: a message that comes while a request is under way is left to it.
invalidateUnlessFetching == fetch' = IF fetch = Idle THEN Sent ELSE fetch

(* invalidateQueries cancels the request under way and sends a new one; only the *)
(* first request of all, while there is no data, is left to finish.              *)
invalidate == fetch' = IF data = NoData /\ fetch # Idle THEN fetch ELSE Sent

onopen ==
    /\ socket = "connecting" /\ socket' = "live"
    /\ UNCHANGED <<queueVars, hub, inbox, data, fetch, missed, faults, txVars>>

onmessage ==
    /\ inbox > 0 /\ inbox' = inbox - 1
    /\ invalidate
    /\ missed' = (missed \/ (data = NoData /\ fetch.step = "answered"))
    /\ UNCHANGED <<queueVars, hub, socket, data, faults, txVars>>

(* Messages that were on their way are lost with the socket. *)
onclose ==
    /\ socket # "offline" /\ faults < MaxFaults /\ faults' = faults + 1
    /\ socket' = "offline" /\ inbox' = 0
    /\ missed' = (missed \/ inbox > 0)
    /\ UNCHANGED <<queueVars, hub, data, fetch, txVars>>

reconnect ==
    /\ socket = "offline" /\ socket' = "connecting"
    /\ UNCHANGED <<queueVars, hub, inbox, data, fetch, missed, faults, txVars>>

\* Mutant: the query polls only until it has data.
pollUntilData ==
    /\ fetch = Idle /\ data = NoData /\ fetch' = Sent
    /\ UNCHANGED <<queueVars, hub, socket, inbox, data, missed, faults, txVars>>

(* refetchInterval; a request under way is not doubled. *)
poll ==
    /\ fetch = Idle /\ fetch' = Sent
    /\ UNCHANGED <<queueVars, hub, socket, inbox, data, missed, faults, txVars>>

serve ==
    /\ fetch = Sent
    /\ \E answer \in Answers : fetch' = [step |-> "answered", answer |-> answer]
    /\ missed' = FALSE
    /\ UNCHANGED <<queueVars, hub, socket, inbox, data, faults, txVars>>

receive ==
    /\ fetch.step = "answered"
    /\ data' = fetch.answer /\ fetch' = Idle
    /\ UNCHANGED <<queueVars, hub, socket, inbox, missed, faults, txVars>>

(* The request and its retry fail: the data stays, placeholder or not. *)
requestFails ==
    /\ fetch # Idle /\ faults < MaxFaults /\ faults' = faults + 1
    /\ fetch' = Idle /\ missed' = TRUE
    /\ UNCHANGED <<queueVars, hub, socket, inbox, data, txVars>>

----
(* The queue's buttons and the transactor. *)

Offers(call, o) ==
    /\ data # NoData
    /\ data[o] \in (IF call = "execute" THEN {"ready"} ELSE Open)

Accepts(call, o) == IF call = "execute" THEN Ready(o) ELSE Pending(o)

Transact(next) == run' = next /\ UNCHANGED <<hub, socket, inbox, data, missed, faults>>

click ==
    /\ run = NoRun /\ runs < MaxRuns /\ runs' = runs + 1
    /\ \E call \in {"execute", "cancel"}, o \in Op :
         /\ Offers(call, o)
         /\ Transact([step |-> "simulate", call |-> call, op |-> o])
    /\ UNCHANGED <<queueVars, fetch, mempool, receipts, replaced, toast>>

simulate ==
    /\ run.step = "simulate"
    /\ Transact(IF Accepts(run.call, run.op) THEN [run EXCEPT !.step = "sign"] ELSE NoRun)
    /\ UNCHANGED <<queueVars, fetch, runs, mempool, receipts, replaced, toast>>

(* The wallet sends the call, or the user rejects it. *)
writeContract ==
    /\ run.step = "sign"
    /\ \/ /\ mempool' = mempool \cup {[id |-> runs, call |-> run.call, op |-> run.op]}
          /\ Transact([run EXCEPT !.step = "wait"])
       \/ Transact(NoRun) /\ UNCHANGED mempool
    /\ UNCHANGED <<queueVars, fetch, runs, receipts, replaced, toast>>

(* The wallet sends something else with the nonce of a call that is pending: its  *)
(* user cancels it there, or another page uses it.  A call merely sped up is the  *)
(* same call.                                                                     *)
replaceInWallet ==
    /\ \E tx \in mempool : tx.id \notin replaced /\ replaced' = replaced \cup {tx.id}
    /\ UNCHANGED <<queueVars, liveVars, run, runs, mempool, receipts, toast>>

(* One transaction of the nonce: the call, or what replaced it. *)
mine ==
    \E tx \in mempool :
      /\ mempool' = mempool \ {tx}
      /\ \/ /\ tx.call = "execute" /\ Execute(tx.op)
            /\ receipts' = [receipts EXCEPT ![tx.id] = "success"]
         \/ /\ tx.call = "cancel" /\ Cancel(tx.op)
            /\ receipts' = [receipts EXCEPT ![tx.id] = "success"]
         \/ /\ ~Accepts(tx.call, tx.op) /\ UNCHANGED queueVars
            /\ receipts' = [receipts EXCEPT ![tx.id] = "reverted"]
         \/ /\ tx.id \in replaced /\ UNCHANGED queueVars
            /\ receipts' = [receipts EXCEPT ![tx.id] = "success"]
      /\ UNCHANGED <<liveVars, run, runs, replaced, toast>>

\* Mutant: any receipt will do.
minedAtAll(receipt) == receipt # "none"

succeeded(receipt) == receipt = "success"

(* waitForTransactionReceipt answers with the receipt of whatever the nonce was  *)
(* spent on; only its status is read.                                            *)
receiptArrives ==
    /\ run.step = "wait" /\ receipts[runs] # "none"
    /\ Transact(NoRun)
    /\ IF succeeded(receipts[runs])
       THEN toast' = [call |-> run.call, op |-> run.op, run |-> runs] /\ invalidate
       ELSE UNCHANGED <<toast, fetch>>
    /\ UNCHANGED <<queueVars, runs, mempool, receipts, replaced>>

(* waitForTransactionReceipt gives up; the call may be mined already, or later. *)
receiptTimesOut ==
    /\ run.step = "wait"
    /\ Transact(NoRun)
    /\ UNCHANGED <<queueVars, fetch, runs, mempool, receipts, replaced, toast>>

----
Hubs == listen \/ startFails \/ listenerError \/ restart
Socket == onopen \/ onmessage \/ onclose \/ reconnect
Query == poll \/ serve \/ receive \/ requestFails
Transactor ==
    click \/ simulate \/ writeContract \/ replaceInWallet \/ mine \/ receiptArrives \/ receiptTimesOut
Next == Chain \/ Index \/ Hubs \/ Socket \/ Query \/ Transactor

(* The indexer keeps up, the page stays in the foreground, so its timer fires, *)
(* and messages and answers arrive.                                            *)
Fairness == WF_vars(Index) /\ WF_vars(Query) /\ WF_vars(onmessage)

Spec == Init /\ [][Next]_vars
FairSpec == Spec /\ Fairness

----
(* "Postgres NOTIFY ... invalidates exactly the queries each message affects": *)
(* a queue that differs from the tables has a message or a request on its way, *)
(* so it is not left stale until the next poll.  Unless a message or an answer *)
(* was lost, or the message came to the page's first request, which had been   *)
(* answered before the commit: the query is then left to that answer.          *)
NotLeftStale ==
    data # NoData /\ ~Same(data) =>
        \/ missed \/ inbox > 0 \/ fetch = Sent
        \/ fetch.step = "answered" /\ Same(fetch.answer)

(* Whatever was lost, and whoever acted, the queue ends up showing what the    *)
(* timelock says.  An operation scheduled a second time is the exception: its  *)
(* row keeps the first schedule and its first outcome.                         *)
QueueSettles ==
    <>[](/\ data # NoData
         /\ \A o \in Op : schedules[o] <= 1 => data[o] = Truth(o))

(* A success shown for a call means that the timelock is in the state the call *)
(* asks for, although others may act between the simulation and the block.     *)
(* Unless the call was replaced in the wallet: the success is then that of     *)
(* whatever its nonce was spent on.                                            *)
SuccessIsMined ==
    /\ toast.call = "execute" /\ toast.run \notin replaced => operation[toast.op] = Done
    /\ toast.call = "cancel" /\ toast.run \notin replaced =>
         schedules[toast.op] > 1 \/ operation[toast.op] = Unset

(* Setters write whole configurations, and queued ones run long after they     *)
(* were proposed: still a field changes only as an operation that was ready    *)
(* says, or by the guardian, who pauses, unpauses and freezes; nothing undoes  *)
(* a freeze but an operation that unfreezes.                                   *)
OwnFieldOnly ==
    [][\A f \in DOMAIN config : config'[f] # config[f] =>
         \/ f = "paused" /\ operation' = operation
         \/ f = "frozen" /\ config'.frozen /\ operation' = operation
         \/ \E o \in Op : /\ Change[o] = [field |-> f, value |-> config'[f]]
                          /\ Ready(o) /\ operation'[o] = Done]_vars
=============================================================================
