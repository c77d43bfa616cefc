------------------------------ MODULE SubmitPdp ------------------------------
(***************************************************************************)
(* `ipfs2foc pdp-submit`: runSubmitPdp (packages/cli/src/submit-pdp.ts)    *)
(* over the `aggregates` table (db.ts), with the two recovery commands     *)
(* that re-arm rows between runs.                                          *)
(*                                                                         *)
(* A run takes the aggregates one by one: the provider pulls the           *)
(* sub-pieces, the aggregate root is added on chain by one transaction,    *)
(* and the row is committed once the add is seen to have landed.  A run    *)
(* works on a snapshot of the rows it read when it started.  It may die at *)
(* any await, and calls fail; later runs resume from the table.            *)
(*                                                                         *)
(* Granularity: one action per await whose outcome the code branches on,   *)
(* and one per durable write that a kill may separate from the next.  A    *)
(* look at the chain followed by a look at a receipt is one action: what   *)
(* landed stays landed.  An exception that escapes the run is a Crash.     *)
(***************************************************************************)
EXTENDS Naturals, FiniteSets

CONSTANTS
    Aggs,         \* aggregates, numbered by idx
    Undersized,   \* those with a sub-piece below the provider's minimum
    Procs,        \* the processes that may run the command
    MaxInFlight,  \* --max-in-flight
    TxIds,        \* add transactions a behaviour may broadcast
    FaultKinds,   \* the faults the environment may inject
    MaxFaults,    \* how many of them
    MaxStarts,    \* how often the command is started
    MaxRearms     \* how often a row may be re-armed after an unconfirmed add

ASSUME AggsAssumption  == Aggs \subseteq Nat \ {0} /\ IsFiniteSet(Aggs)
ASSUME SmallAssumption == Undersized \subseteq Aggs
ASSUME CapAssumption   == MaxInFlight \in Nat \ {0}
ASSUME TxAssumption    == TxIds \subseteq Nat \ {0}
ASSUME BoundAssumption == MaxFaults \in Nat /\ MaxStarts \in Nat /\ MaxRearms \in Nat

VARIABLES
    \* the aggregates table
    status,   \* status[a]
    txHash,   \* txHash[a]; NoTx when NULL
    block,    \* rows with a committed_block: the event was seen and matched
    \* the disk
    cached,   \* aggregates whose member CARs are still in the car store
    \* the chain
    txs,      \* the add transactions
    \* the running processes
    pc,       \* where each process is
    cur,      \* the aggregate it works on
    todo,     \* the rows of its snapshot still to come
    seen,     \* its snapshot of the rows, --strict-piece-size, the run's number
    tx,       \* the hash the provider answered
    \* bookkeeping of the model
    rearms,   \* how often the operator re-armed the row
    starts, faults

aggVars  == <<status, txHash, block>>
procVars == <<pc, cur, todo, seen, tx>>
vars == <<status, txHash, block, cached, txs, pc, cur, todo, seen, tx, rearms,
          starts, faults>>

NoTx  == 0
NoAgg == 0

Status == {"planned", "submitted", "parked", "add_unconfirmed", "committed", "failed"}
InFlightStatus == {"submitted", "parked", "add_unconfirmed"}

UnusedTx == [state |-> "unused", agg |-> NoAgg, own |-> TRUE, era |-> 0,
             run |-> 0, landedIn |-> 0]
Tx == [state : {"unused", "pending", "landed", "reverted"}, agg : Aggs \cup {NoAgg},
       own : BOOLEAN, era : 0 .. MaxRearms, run : 0 .. MaxStarts,
       landedIn : 0 .. MaxStarts]

Snapshot == [status : [Aggs -> Status], hash : [Aggs -> TxIds \cup {NoTx}],
             strict : BOOLEAN, run : 0 .. MaxStarts]
NoSnapshot == [status |-> [a \in Aggs |-> "planned"], hash |-> [a \in Aggs |-> NoTx],
               strict |-> FALSE, run |-> 0]

PC == {"idle", "next", "admitted", "receipt", "reconcile", "pull", "parked",
       "presigned", "add", "answered", "errored", "confirm", "event", "evict"}

TypeOK ==
    /\ status \in [Aggs -> Status]
    /\ txHash \in [Aggs -> TxIds \cup {NoTx}]
    /\ block \subseteq Aggs
    /\ cached \subseteq Aggs
    /\ txs \in [TxIds -> Tx]
    /\ pc \in [Procs -> PC]
    /\ cur \in [Procs -> Aggs \cup {NoAgg}]
    /\ \A r \in Procs : pc[r] \notin {"idle", "next"} => cur[r] \in Aggs
    /\ todo \in [Procs -> SUBSET Aggs]
    /\ seen \in [Procs -> Snapshot]
    /\ tx \in [Procs -> TxIds \cup {NoTx}]
    /\ rearms \in [Aggs -> 0 .. MaxRearms]
    /\ starts \in 0 .. MaxStarts
    /\ faults \in 0 .. MaxFaults

-----------------------------------------------------------------------------
(* Queries and writes of the aggregates table. *)

\* mutant of Resumable: a row killed during its pull is forgotten
ResumablePastPull ==
    {a \in Aggs : status[a] \in {"planned", "parked", "add_unconfirmed"}}

Resumable == {a \in Aggs : status[a] \in InFlightStatus \cup {"planned"}}

\* inFlightUncommittedCount
InFlight == Cardinality({a \in Aggs : status[a] \in InFlightStatus})

SetStatus(a, s) == status' = [status EXCEPT ![a] = s]

\* markSubmitted, markParked, markAggregateAddUnconfirmed, markAggregateFailed
Mark(a, s) == SetStatus(a, s) /\ UNCHANGED <<txHash, block>>

\* markCommitted and markCommittedUnverified overwrite the hash, NULL included
MarkCommitted(a, hash, hasBlock) ==
    /\ SetStatus(a, "committed")
    /\ txHash' = [txHash EXCEPT ![a] = hash]
    /\ block' = IF hasBlock THEN block \cup {a} ELSE block \ {a}

-----------------------------------------------------------------------------
(* The chain and the provider (external). *)

Fault(k) ==
    /\ k \in FaultKinds
    /\ faults < MaxFaults
    /\ faults' = faults + 1

AddsOf(a) == {t \in TxIds : txs[t].agg = a}

\* activePieceCids: the roots of the data set
OnChain(a) == \E t \in AddsOf(a) : txs[t].state = "landed" /\ txs[t].own

\* fetchAddPiecesEvent names the root
Named(t) == txs[t].state = "landed" /\ txs[t].own

FreshTx(t) ==
    /\ txs[t].state = "unused"
    /\ \A u \in TxIds : u < t => txs[u].state # "unused"

\* addAggregate; a provider that computes another root than ours is a fault
Broadcast(r, t, own) ==
    txs' = [txs EXCEPT ![t] = [state |-> "pending", agg |-> cur[r], own |-> own,
                               era |-> rearms[cur[r]], run |-> seen[r].run,
                               landedIn |-> 0]]

-----------------------------------------------------------------------------
Init ==
    /\ status = [a \in Aggs |-> "planned"]
    /\ txHash = [a \in Aggs |-> NoTx]
    /\ block = {}
    /\ cached = Aggs
    /\ txs = [t \in TxIds |-> UnusedTx]
    /\ pc = [r \in Procs |-> "idle"]
    /\ cur = [r \in Procs |-> NoAgg]
    /\ todo = [r \in Procs |-> {}]
    /\ seen = [r \in Procs |-> NoSnapshot]
    /\ tx = [r \in Procs |-> NoTx]
    /\ rearms = [a \in Aggs |-> 0]
    /\ starts = 0
    /\ faults = 0

At(r, l)   == pc[r] = l
Goto(r, l) == pc' = [pc EXCEPT ![r] = l]

\* the loop is over, or the process died
Leave(r) ==
    /\ Goto(r, "idle")
    /\ cur' = [cur EXCEPT ![r] = NoAgg]
    /\ todo' = [todo EXCEPT ![r] = {}]
    /\ seen' = [seen EXCEPT ![r] = NoSnapshot]
    /\ tx' = [tx EXCEPT ![r] = NoTx]

\* `continue`: on to the next row of the snapshot
Continue(r) ==
    /\ Goto(r, "next")
    /\ cur' = [cur EXCEPT ![r] = NoAgg]
    /\ tx' = [tx EXCEPT ![r] = NoTx]
    /\ UNCHANGED <<todo, seen>>

\* on to the next step for this row
Advance(r, l) == Goto(r, l) /\ UNCHANGED <<cur, todo, seen, tx>>

(* The loop head: the cap, the base fee, and what the snapshot says. *)

Start(r) ==
    /\ At(r, "idle")
    /\ starts < MaxStarts
    /\ starts' = starts + 1
    /\ Goto(r, "next")
    /\ todo' = [todo EXCEPT ![r] = Resumable]
    /\ \E strict \in BOOLEAN :
        seen' = [seen EXCEPT ![r] = [status |-> status, hash |-> txHash,
                                     strict |-> strict, run |-> starts']]
    /\ UNCHANGED <<aggVars, cached, txs, cur, tx, rearms, faults>>

Admit(r, a) ==
    /\ At(r, "next")
    /\ a \in todo[r] /\ \A b \in todo[r] : a <= b
    /\ InFlight < MaxInFlight
    /\ cur' = [cur EXCEPT ![r] = a]
    /\ todo' = [todo EXCEPT ![r] = @ \ {a}]
    /\ Goto(r, "admitted")
    /\ UNCHANGED <<aggVars, cached, txs, seen, tx, rearms, starts, faults>>

\* every row was handled, the cap is reached, or the base fee is too high
Stop(r) ==
    /\ \/ At(r, "next") /\ (todo[r] = {} \/ InFlight >= MaxInFlight) /\ UNCHANGED faults
       \/ At(r, "admitted") /\ Fault("fee")
    /\ Leave(r)
    /\ UNCHANGED <<aggVars, cached, txs, rearms, starts>>

SeenHash(r)   == seen[r].hash[cur[r]]
SeenStatus(r) == seen[r].status[cur[r]]

TooSmall(r) ==
    seen[r].strict /\ cur[r] \in Undersized /\ SeenHash(r) = NoTx /\ SeenStatus(r) = "planned"

RefuseSmall(r) ==
    /\ At(r, "admitted")
    /\ TooSmall(r)
    /\ Mark(cur[r], "failed")
    /\ Continue(r)
    /\ UNCHANGED <<cached, txs, rearms, starts, faults>>

ResumeReceipt(r) ==
    /\ At(r, "admitted")
    /\ SeenHash(r) # NoTx
    /\ Advance(r, "receipt")
    /\ UNCHANGED <<aggVars, cached, txs, rearms, starts, faults>>

\* mutant of ResumeUnconfirmed: a row without a hash starts over
ResumeUnconfirmedAsNew(r) ==
    /\ At(r, "admitted")
    /\ SeenHash(r) = NoTx /\ SeenStatus(r) = "add_unconfirmed"
    /\ Mark(cur[r], "submitted")
    /\ Advance(r, "pull")
    /\ UNCHANGED <<cached, txs, rearms, starts, faults>>

ResumeUnconfirmed(r) ==
    /\ At(r, "admitted")
    /\ SeenHash(r) = NoTx /\ SeenStatus(r) = "add_unconfirmed"
    /\ Advance(r, "reconcile")
    /\ UNCHANGED <<aggVars, cached, txs, rearms, starts, faults>>

BeginPull(r) ==
    /\ At(r, "admitted")
    /\ ~TooSmall(r)
    /\ SeenHash(r) = NoTx /\ SeenStatus(r) # "add_unconfirmed"
    /\ Mark(cur[r], "submitted")
    /\ Advance(r, "pull")
    /\ UNCHANGED <<cached, txs, rearms, starts, faults>>

(* The two resume paths: neither ever adds. *)

\* the root is active: committed, with a block when the receipt's event names it
ReceiptLanded(r) ==
    /\ At(r, "receipt")
    /\ OnChain(cur[r])
    /\ \/ /\ Named(SeenHash(r))
          /\ MarkCommitted(cur[r], SeenHash(r), TRUE)
          /\ UNCHANGED faults
       \/ /\ \/ ~Named(SeenHash(r)) /\ UNCHANGED faults
             \/ Fault("event")
          /\ MarkCommitted(cur[r], SeenHash(r), FALSE)
    /\ Advance(r, "evict")
    /\ UNCHANGED <<cached, txs, rearms, starts>>

ReconcileLanded(r) ==
    /\ At(r, "reconcile")
    /\ OnChain(cur[r])
    /\ MarkCommitted(cur[r], NoTx, FALSE)
    /\ Advance(r, "evict")
    /\ UNCHANGED <<cached, txs, rearms, starts, faults>>

\* the row is left as it is for the next run, or for the operator
ResumeNotLanded(r) ==
    /\ At(r, "receipt") \/ At(r, "reconcile")
    /\ ~OnChain(cur[r])
    /\ Continue(r)
    /\ UNCHANGED <<aggVars, cached, txs, rearms, starts, faults>>

(* Pull, then add. *)

\* all batches pulled
PullComplete(r) ==
    /\ At(r, "pull")
    /\ Mark(cur[r], "parked")
    /\ Advance(r, "parked")
    /\ UNCHANGED <<cached, txs, rearms, starts, faults>>

\* a sub-piece failed, a pull call failed, or the stall watchdog tripped
PullFailed(r) ==
    /\ At(r, "pull")
    /\ Fault("pull")
    /\ Mark(cur[r], "failed")
    /\ Continue(r)
    /\ UNCHANGED <<cached, txs, rearms, starts>>

\* no eviction on this path
AlreadyOnChain(r) ==
    /\ At(r, "parked")
    /\ OnChain(cur[r])
    /\ MarkCommitted(cur[r], NoTx, FALSE)
    /\ Continue(r)
    /\ UNCHANGED <<cached, txs, rearms, starts, faults>>

\* mutant of Presign: the active pieces are not looked at before the add
PresignUnchecked(r) ==
    /\ At(r, "parked")
    /\ Advance(r, "presigned")
    /\ UNCHANGED <<aggVars, cached, txs, rearms, starts, faults>>

Presign(r) ==
    /\ At(r, "parked")
    /\ ~OnChain(cur[r])
    /\ Advance(r, "presigned")
    /\ UNCHANGED <<aggVars, cached, txs, rearms, starts, faults>>

\* mutant of Breadcrumb: the add is called with the row still parked
BreadcrumbSkipped(r) ==
    /\ At(r, "presigned")
    /\ Advance(r, "add")
    /\ UNCHANGED <<aggVars, cached, txs, rearms, starts, faults>>

\* the durable breadcrumb before the add
Breadcrumb(r) ==
    /\ At(r, "presigned")
    /\ Mark(cur[r], "add_unconfirmed")
    /\ Advance(r, "add")
    /\ UNCHANGED <<cached, txs, rearms, starts, faults>>

AddAccepted(r, t) ==
    /\ At(r, "add")
    /\ FreshTx(t)
    /\ \/ Broadcast(r, t, TRUE) /\ UNCHANGED faults
       \/ Broadcast(r, t, FALSE) /\ Fault("root")
    /\ tx' = [tx EXCEPT ![r] = t]
    /\ Goto(r, "answered")
    /\ UNCHANGED <<aggVars, cached, cur, todo, seen, rearms, starts>>

\* the provider broadcast the add, then answered with an error
AddAnswerLost(r, t) ==
    /\ At(r, "add")
    /\ FreshTx(t)
    /\ Broadcast(r, t, TRUE)
    /\ Fault("lost")
    /\ Advance(r, "errored")
    /\ UNCHANGED <<aggVars, cached, rearms, starts>>

AddRefused(r) ==
    /\ At(r, "add")
    /\ Fault("reject")
    /\ Advance(r, "errored")
    /\ UNCHANGED <<aggVars, cached, txs, rearms, starts>>

\* mutant of PersistHash: the CARs go as soon as the add is accepted
PersistHashAndEvict(r) ==
    /\ At(r, "answered")
    /\ txHash' = [txHash EXCEPT ![cur[r]] = tx[r]]
    /\ cached' = cached \ {cur[r]}
    /\ Advance(r, "confirm")
    /\ UNCHANGED <<status, block, txs, rearms, starts, faults>>

\* the answer arrived: its hash is persisted before anything is waited for
PersistHash(r) ==
    /\ At(r, "answered")
    /\ txHash' = [txHash EXCEPT ![cur[r]] = tx[r]]
    /\ Advance(r, "confirm")
    /\ UNCHANGED <<status, block, cached, txs, rearms, starts, faults>>

\* no eviction on this path either
ErroredButLanded(r) ==
    /\ At(r, "errored")
    /\ OnChain(cur[r])
    /\ MarkCommitted(cur[r], NoTx, FALSE)
    /\ Continue(r)
    /\ UNCHANGED <<cached, txs, rearms, starts, faults>>

\* the outcome is unknown: add_unconfirmed, never failed
ErroredUnknown(r) ==
    /\ At(r, "errored")
    /\ ~OnChain(cur[r])
    /\ Mark(cur[r], "add_unconfirmed")
    /\ Continue(r)
    /\ UNCHANGED <<cached, txs, rearms, starts, faults>>

(* Wait for the add. *)

\* mutant of AddDone: the status is believed before the add landed
AddDoneEarly(r) ==
    /\ At(r, "confirm")
    /\ txs[tx[r]].state # "reverted"
    /\ Advance(r, "event")
    /\ UNCHANGED <<aggVars, cached, txs, rearms, starts, faults>>

\* addStatus: done and ok
AddDone(r) ==
    /\ At(r, "confirm")
    /\ txs[tx[r]].state = "landed"
    /\ Advance(r, "event")
    /\ UNCHANGED <<aggVars, cached, txs, rearms, starts, faults>>

\* addStatus: done and not ok
AddReverted(r) ==
    /\ At(r, "confirm")
    /\ txs[tx[r]].state = "reverted"
    /\ Mark(cur[r], "failed")
    /\ Continue(r)
    /\ UNCHANGED <<cached, txs, rearms, starts, faults>>

\* the row stays add_unconfirmed with its hash: the next run resumes from it
ConfirmTimeout(r) ==
    /\ At(r, "confirm")
    /\ Fault("timeout")
    /\ Continue(r)
    /\ UNCHANGED <<aggVars, cached, txs, rearms, starts>>

EventMatches(r) ==
    /\ At(r, "event")
    /\ txs[tx[r]].own
    /\ MarkCommitted(cur[r], tx[r], TRUE)
    /\ Advance(r, "evict")
    /\ UNCHANGED <<cached, txs, rearms, starts, faults>>

EventMismatch(r) ==
    /\ At(r, "event")
    /\ ~txs[tx[r]].own
    /\ Mark(cur[r], "failed")
    /\ Continue(r)
    /\ UNCHANGED <<cached, txs, rearms, starts, faults>>

\* the receipt shows no event, or cannot be read: committed without a block
EventUnseen(r) ==
    /\ At(r, "event")
    /\ Fault("event")
    /\ MarkCommitted(cur[r], tx[r], FALSE)
    /\ Advance(r, "evict")
    /\ UNCHANGED <<cached, txs, rearms, starts>>

\* evictCachedCars
Evict(r) ==
    /\ At(r, "evict")
    /\ cached' = cached \ {cur[r]}
    /\ Continue(r)
    /\ UNCHANGED <<aggVars, txs, rearms, starts, faults>>

-----------------------------------------------------------------------------
(* The operator and the environment. *)

NobodyRuns == \A r \in Procs : At(r, "idle")

\* reset-failed-aggregates keeps the hash
ResetFailed ==
    /\ NobodyRuns
    /\ \E a \in Aggs : status[a] = "failed"
    /\ status' = [a \in Aggs |-> IF status[a] = "failed" THEN "planned" ELSE status[a]]
    /\ UNCHANGED <<txHash, block, cached, txs, procVars, rearms, starts, faults>>

Unconfirmed == {a \in Aggs : status[a] = "add_unconfirmed"}

\* retry-unconfirmed-aggregates, by an operator who saw no such root on chain
RetryUnconfirmed ==
    /\ NobodyRuns
    /\ Unconfirmed # {}
    /\ \A a \in Unconfirmed : ~OnChain(a) /\ rearms[a] < MaxRearms
    /\ status' = [a \in Aggs |-> IF a \in Unconfirmed THEN "planned" ELSE status[a]]
    /\ txHash' = [a \in Aggs |-> IF a \in Unconfirmed THEN NoTx ELSE txHash[a]]
    /\ rearms' = [a \in Aggs |-> IF a \in Unconfirmed THEN rearms[a] + 1 ELSE rearms[a]]
    /\ UNCHANGED <<block, cached, txs, procVars, starts, faults>>

TxLands(t) ==
    /\ txs[t].state = "pending"
    /\ txs' = [txs EXCEPT ![t].state = "landed", ![t].landedIn = starts]
    /\ UNCHANGED <<aggVars, cached, procVars, rearms, starts, faults>>

TxReverts(t) ==
    /\ txs[t].state = "pending"
    /\ Fault("revert")
    /\ txs' = [txs EXCEPT ![t].state = "reverted"]
    /\ UNCHANGED <<aggVars, cached, procVars, rearms, starts>>

\* a kill, or an exception that escapes runSubmitPdp: a failed presign, an
\* activePieceCids or addStatus call that throws
Crash(r) ==
    /\ ~At(r, "idle")
    /\ Fault("crash")
    /\ Leave(r)
    /\ UNCHANGED <<aggVars, cached, txs, rearms, starts>>

-----------------------------------------------------------------------------
LoopHead(r) ==
    \/ \E a \in Aggs : Admit(r, a)
    \/ Stop(r) \/ RefuseSmall(r) \/ ResumeReceipt(r) \/ ResumeUnconfirmed(r)
    \/ BeginPull(r)

Resume(r) == ReceiptLanded(r) \/ ReconcileLanded(r) \/ ResumeNotLanded(r)

PullAndAdd(r) ==
    \/ PullComplete(r) \/ PullFailed(r)
    \/ AlreadyOnChain(r) \/ Presign(r) \/ Breadcrumb(r)
    \/ \E t \in TxIds : AddAccepted(r, t) \/ AddAnswerLost(r, t)
    \/ AddRefused(r) \/ PersistHash(r) \/ ErroredButLanded(r) \/ ErroredUnknown(r)

Await(r) ==
    \/ AddDone(r) \/ AddReverted(r) \/ ConfirmTimeout(r)
    \/ EventMatches(r) \/ EventMismatch(r) \/ EventUnseen(r)
    \/ Evict(r)

Step(r) == LoopHead(r) \/ Resume(r) \/ PullAndAdd(r) \/ Await(r)

Environment ==
    \/ ResetFailed \/ RetryUnconfirmed
    \/ \E t \in TxIds : TxLands(t) \/ TxReverts(t)

Next ==
    \/ \E r \in Procs : Start(r) \/ Step(r) \/ Crash(r)
    \/ Environment

Spec == Init /\ [][Next]_vars

\* a started run goes on, and every transaction is mined in the end
FairSpec ==
    /\ Spec
    /\ \A r \in Procs : WF_vars(Step(r))
    /\ \A t \in TxIds : WF_vars(TxLands(t))
-----------------------------------------------------------------------------
(* Safety. *)

\* A row says committed only if its root is active on chain, whichever of the
\* six paths wrote it; the one exception carries no block, and the transaction
\* it names did land.
CommittedIsOnChain ==
    \A a \in Aggs : status[a] = "committed" =>
        \/ OnChain(a)
        \/ a \notin block /\ txHash[a] # NoTx /\ txs[txHash[a]].state = "landed"

\* However many processes run at once, and whatever root the provider adds: a row
\* says committed only if some add of it landed.
CommittedWasAdded ==
    \A a \in Aggs : status[a] = "committed" => \E t \in AddsOf(a) : txs[t].state = "landed"

\* Between two re-arms by the operator a root is added at most once, whatever
\* mixture of kills, errors, lost answers, resumes and failed-row resets occurs.
OneAddPerRearm ==
    \A a \in Aggs : \A t, u \in AddsOf(a) : t # u => txs[t].era # txs[u].era

\* No run adds a root that had landed before that run began, a wrongly re-armed
\* row included.
NoAddAfterLanding ==
    \A a \in Aggs : \A t, u \in AddsOf(a) :
        u # t /\ txs[u].state = "landed" /\ txs[u].own => txs[t].run <= txs[u].landedIn

\* A member CAR leaves the car store only for a committed row, and no later step
\* or command takes such a row back to where the bytes are pulled again.
EvictedIsCommitted == \A a \in Aggs \ cached : status[a] = "committed"

Ledger == INSTANCE AddLedger WITH
    Pieces <- Aggs,
    stage  <- [a \in Aggs |-> CASE status[a] = "committed"       -> "confirmed"
                                [] status[a] = "add_unconfirmed" -> "attempted"
                                [] OTHER                         -> "unsent"],
    sent   <- {a \in Aggs : AddsOf(a) # {}},
    landed <- {a \in Aggs : \E t \in AddsOf(a) : txs[t].state = "landed"}

\* The rows and the adds behave as AddLedger prescribes: no add without a durable
\* mark, no commit without a landed add, committed is final.
AggregateLedger == Ledger!Spec

-----------------------------------------------------------------------------
(* The inductive invariant behind the safety properties, for a single process:  *)
(* two at once would each work on rows the other has moved on.                  *)

OneProc == \A r, s \in Procs : r = s

TxWellFormed == \A t \in TxIds : txs[t].state = "unused" => txs[t] = UnusedTx

\* a recorded hash is that of an add of this very row
HashWellFormed == \A a \in Aggs : txHash[a] # NoTx => txHash[a] \in AddsOf(a)

\* one process: what its snapshot says of a row not yet handled is still true
SnapshotCurrent ==
    \A r \in Procs, a \in Aggs :
        a \in todo[r] \/ (At(r, "admitted") /\ a = cur[r]) =>
            /\ status[a] = seen[r].status[a]
            /\ txHash[a] = seen[r].hash[a]
            /\ a \in Resumable

\* the status of the row under work
RowUnderWork ==
    \A r \in Procs :
        /\ At(r, "idle") => todo[r] = {}
        /\ pc[r] \in {"idle", "next"} => cur[r] = NoAgg
        /\ At(r, "receipt") =>
            /\ SeenHash(r) # NoTx /\ txHash[cur[r]] = SeenHash(r)
            /\ status[cur[r]] # "committed"
        /\ At(r, "reconcile") => status[cur[r]] = "add_unconfirmed"
        /\ At(r, "pull") => status[cur[r]] = "submitted"
        /\ pc[r] \in {"parked", "presigned"} => status[cur[r]] = "parked"
        /\ pc[r] \in {"add", "answered", "errored", "confirm", "event"} =>
            status[cur[r]] = "add_unconfirmed"
        /\ At(r, "evict") => status[cur[r]] = "committed"
        /\ cur[r] \notin todo[r]

\* the transaction under way adds the row under work
TxUnderWork ==
    \A r \in Procs :
        /\ pc[r] \in {"answered", "confirm", "event"} =>
            tx[r] \in TxIds /\ tx[r] \in AddsOf(cur[r])
        /\ pc[r] \in {"confirm", "event"} => txHash[cur[r]] = tx[r]
        /\ At(r, "event") => txs[tx[r]].state = "landed"

\* a row on its way to an add was not added since it was last re-armed, and a
\* row that was added and has no hash is not on its way to an add
NotAddedYet ==
    \A a \in Aggs :
        /\ status[a] \in {"submitted", "parked"} => txHash[a] = NoTx
        /\ status[a] \in {"planned", "submitted", "parked", "failed"} /\ txHash[a] = NoTx =>
            \A t \in AddsOf(a) : txs[t].era # rearms[a]

AddNotSentYet ==
    \A r \in Procs : At(r, "add") => \A t \in AddsOf(cur[r]) : txs[t].era # rearms[cur[r]]

AddsDated ==
    /\ \A t \in TxIds : /\ txs[t].agg # NoAgg => txs[t].era <= rearms[txs[t].agg]
                        /\ txs[t].run <= starts
    /\ \A r \in Procs : seen[r].run <= starts

\* since the look at the active pieces nothing landed that had landed before
LookedFirst ==
    \A r \in Procs : pc[r] \in {"presigned", "add"} =>
        \A u \in AddsOf(cur[r]) :
            txs[u].state = "landed" /\ txs[u].own => seen[r].run <= txs[u].landedIn

IInv ==
    /\ TypeOK
    /\ TxWellFormed
    /\ HashWellFormed
    /\ SnapshotCurrent
    /\ RowUnderWork
    /\ TxUnderWork
    /\ NotAddedYet
    /\ AddNotSentYet
    /\ AddsDated
    /\ LookedFirst
    /\ CommittedIsOnChain
    /\ EvictedIsCommitted
    /\ OneAddPerRearm
    /\ NoAddAfterLanding

-----------------------------------------------------------------------------
(* Liveness, under FairSpec. *)

\* a run that meets no fault begins, or is between two rows it leaves for good
CleanRun(r) ==
    /\ At(r, "next")
    /\ todo[r] = Resumable
    /\ faults = MaxFaults
    /\ \A t \in TxIds : txs[t].state # "pending"

\* nothing more a run can do for this row
Resolved(a) ==
    \/ status[a] \in {"committed", "failed"}
    \/ ~OnChain(a) /\ (status[a] = "add_unconfirmed" \/ txHash[a] # NoTx)

\* A run that starts below the cap and meets no fault resolves every aggregate,
\* whatever state earlier runs were killed in: nothing is left submitted or
\* parked, and every add that landed is recorded.
CleanRunResolves ==
    \A r \in Procs :
        CleanRun(r) /\ InFlight < MaxInFlight ~> At(r, "idle") /\ \A a \in Aggs : Resolved(a)

-----------------------------------------------------------------------------
(* Claims of the repository's text that the code does not keep. *)

\* The log of a confirm timeout: tx hash persisted, will resume on next run. A
\* run that meets no fault commits the row whose recorded add has landed.
TimedOutResumes ==
    \A r \in Procs, a \in Aggs :
        CleanRun(r) /\ status[a] = "add_unconfirmed" /\ OnChain(a) ~> status[a] = "committed"

\* reset-failed-aggregates: the next pdp-submit retries the rows it moves back to
\* planned. A run below the cap that meets no fault leaves no row planned.
ResetIsRetried ==
    \A r \in Procs, a \in Aggs :
        CleanRun(r) /\ InFlight < MaxInFlight /\ status[a] = "planned" ~> status[a] # "planned"
=============================================================================
