---------------------------- MODULE TimelockQueue ----------------------------
(***************************************************************************)
(* Timelocked changes of a reserve's configuration, from the timelock to   *)
(* the API: the controller and the configurator on the chain, the tables   *)
(* the indexer fills from the controller's events, and the queue that      *)
(* GET /governance/timelock computes from them.                            *)
(*                                                                         *)
(* The controller is OpenZeppelin's: an operation's timestamp is 0 when it *)
(* is unset, 1 when it is done, and else the time it is ready at.          *)
(***************************************************************************)
EXTENDS Naturals, Sequences, Functions

CONSTANTS
    Op,                 \* operations; the id is a hash of the call and the salt
    Change,             \* [Op -> [field, value]]: what each one sets
    Delay,              \* the delay operations are scheduled with
    MaxTime, MaxSchedules       \* bounds

(* Calls of the setters of three flags: the proposal form encodes those that     *)
(* unfreeze and that turn borrowing on or off; the timelock, being pool admin,   *)
(* may be made to call the others too.                                           *)
Call == [field : {"paused", "frozen", "borrowingEnabled"}, value : BOOLEAN]

ASSUME QueueAssumption ==
    /\ Change \in [Op -> Call]
    /\ {Delay, MaxTime, MaxSchedules} \subseteq Nat

VARIABLES
    now,                \* block.timestamp
    operation,          \* getTimestamp
    schedules,          \* how often each operation was scheduled
    config,             \* three flags of the reserve's configuration
    unindexed,          \* events the indexer has not committed yet
    calls,              \* timelock_calls: scheduled_time + delay_seconds, 0 without a row
    outcomes            \* timelock_outcomes: the outcomes recorded for each op_id

chainVars == <<now, operation, schedules, config>>
tableVars == <<calls, outcomes>>
queueVars == <<chainVars, unindexed, tableVars>>

Unset == 0
Done == 1
Listing == [paused |-> FALSE, frozen |-> FALSE, borrowingEnabled |-> TRUE]

QInit ==
    /\ now = 2 /\ operation = [o \in Op |-> Unset] /\ schedules = [o \in Op |-> 0]
    /\ config = Listing /\ unindexed = <<>>
    /\ calls = [o \in Op |-> 0] /\ outcomes = [o \in Op |-> {}]

Emit(name, o) == unindexed' = Append(unindexed, [name |-> name, op |-> o, readyAt |-> now + Delay])

Pending(o) == operation[o] > Done
Ready(o) == Pending(o) /\ operation[o] <= now

\* Mutant: the setter writes the configuration the reserve was listed with.
AppliedToListing(o) == [Listing EXCEPT ![Change[o].field] = Change[o].value]

(* A setter reads the whole configuration, changes its field and writes it back. *)
Applied(o) == [config EXCEPT ![Change[o].field] = Change[o].value]

Schedule(o) ==
    /\ operation[o] = Unset
    /\ FoldFunction(+, 0, schedules) < MaxSchedules
    /\ operation' = [operation EXCEPT ![o] = now + Delay]
    /\ schedules' = [schedules EXCEPT ![o] = @ + 1]
    /\ Emit("CallScheduled", o)
    /\ UNCHANGED <<now, config, tableVars>>

Execute(o) ==
    /\ Ready(o)
    /\ operation' = [operation EXCEPT ![o] = Done]
    /\ config' = Applied(o)
    /\ Emit("executed", o)
    /\ UNCHANGED <<now, schedules, tableVars>>

Cancel(o) ==
    /\ Pending(o)
    /\ operation' = [operation EXCEPT ![o] = Unset]
    /\ Emit("cancelled", o)
    /\ UNCHANGED <<now, schedules, config, tableVars>>

(* The guardian's buttons, at once: setReservePaused either way, and            *)
(* setReserveFrozen(asset, true).                                               *)
EmergencyControls ==
    /\ \/ config' = [config EXCEPT !.paused = ~@]
       \/ ~config.frozen /\ config' = [config EXCEPT !.frozen = TRUE]
    /\ UNCHANGED <<now, operation, schedules, unindexed, tableVars>>

Tick ==
    /\ now < MaxTime /\ now' = now + 1
    /\ UNCHANGED <<operation, schedules, config, unindexed, tableVars>>

(* A batch of the indexer.  The row of a call is inserted ON CONFLICT (op_id,   *)
(* call_index) DO NOTHING: an operation scheduled again keeps its first row.    *)
persist(e) ==
    IF e.name = "CallScheduled"
    THEN /\ calls' = IF calls[e.op] = 0 THEN [calls EXCEPT ![e.op] = e.readyAt] ELSE calls
         /\ UNCHANGED outcomes
    ELSE /\ outcomes' = [outcomes EXCEPT ![e.op] = @ \cup {e.name}]
         /\ UNCHANGED calls

IndexBatch ==
    /\ unindexed # <<>>
    /\ persist(Head(unindexed))
    /\ unindexed' = Tail(unindexed)
    /\ UNCHANGED chainVars

----
(* GET /governance/timelock: the status of every operation.  One with two       *)
(* outcomes shows either: they are read without an ORDER BY and the last one    *)
(* read wins.                                                                   *)
Open == {"pending", "ready"}

statuses(o) ==
    IF calls[o] = 0 THEN {"absent"}
    ELSE IF outcomes[o] # {} THEN outcomes[o]
    ELSE IF now >= calls[o] THEN {"ready"} ELSE {"pending"}

Answers == {f \in [Op -> {"absent", "executed", "cancelled"} \cup Open] : \A o \in Op : f[o] \in statuses(o)}

(* The answer shows what the tables hold, apart from the time. *)
Same(answer) ==
    \A o \in Op : answer[o] \in statuses(o) \/ (answer[o] \in Open /\ statuses(o) \subseteq Open)

(* What the timelock itself says of an operation scheduled at most once. *)
Truth(o) ==
    IF schedules[o] = 0 THEN "absent"
    ELSE IF operation[o] = Done THEN "executed"
    ELSE IF operation[o] = Unset THEN "cancelled"
    ELSE IF Ready(o) THEN "ready" ELSE "pending"
=============================================================================
