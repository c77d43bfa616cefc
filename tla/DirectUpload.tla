----------------------------- MODULE DirectUpload -----------------------------
(***************************************************************************)
(* `ipfs2foc upload`: runDirectUpload (packages/cli/src/direct-upload.ts)  *)
(* over the `uploads` table (packages/cli/src/db.ts).                      *)
(*                                                                         *)
(* One process stores each staged CAR on the primary provider, has every   *)
(* secondary pull it from there, and commits the parked pieces of each     *)
(* provider in batches through one addPieces transaction.  The providers   *)
(* may collect parked bytes, transactions settle on their own time, calls  *)
(* fail, and the process may die at any await; a later run resumes from    *)
(* the table.                                                              *)
(*                                                                         *)
(* Granularity: one action per await of the code, plus one per durable     *)
(* write that a kill may separate from the next one.  An exception that    *)
(* escapes runDirectUpload ends the process just as a kill does: both are  *)
(* Crash.  The clock is left out: whether the GC-window timer is due is    *)
(* free (FlushWindow models the timer), only the order of parked_at kept.  *)
(* Eviction is one step: a kill between two unlinks only leaves more files *)
(* for the next eviction, which looks at the same rows.                    *)
(***************************************************************************)
EXTENDS Naturals, FiniteSets

CONSTANTS
    Pieces,       \* sub-pieces with a staged CAR, in created_at order
    Copies,       \* number of storage contexts; context 1 is the primary
    BatchCap,     \* MAX_ADD_PIECES_BATCH
    MaxAttempts,  \* retry rounds after the source drained (3 in the code)
    TxIds,        \* addPieces transactions a behaviour may broadcast
    FaultKinds,   \* the faults the environment may inject
    MaxFaults,    \* how many of them
    MaxRuns       \* how often the operator starts the command

ASSUME PiecesAssumption   == Pieces \subseteq Nat \ {0} /\ IsFiniteSet(Pieces)
ASSUME CopiesAssumption   == Copies \in Nat \ {0}
ASSUME CapAssumption      == BatchCap \in Nat \ {0}
ASSUME AttemptsAssumption == MaxAttempts \in Nat
ASSUME TxAssumption       == TxIds \subseteq Nat \ {0}
ASSUME BoundsAssumption   == MaxFaults \in Nat /\ MaxRuns \in Nat

VARIABLES
    \* the uploads table
    status,       \* status[c][p]; "none" when there is no row
    txHash,       \* txHash[c][p]; NoTx when NULL
    before,       \* before[c]: pairs ordered by parked_at
    \* the disk
    staged,       \* pieces whose CAR file exists
    \* providers and chain
    held,         \* held[c]: pieces provider c has the bytes of
    txs,          \* the addPieces transactions
    \* the running process (lost in a crash)
    pc, ctx, cur, todo, named, tx, source, attempt, parkedBefore,
    \* bounds
    run, faults

dbVars    == <<status, txHash, before>>
chainVars == <<held, txs>>
loopVars  == <<source, attempt>>
vars == <<status, txHash, before, staged, held, txs, pc, ctx, cur, todo, named,
          tx, source, attempt, parkedBefore, run, faults>>

Ctx     == 1 .. Copies
Primary == 1
NoTx    == 0
NoPiece == 0
NoCopy  == <<0, 0>>

LiveStatus == {"parked", "add_unconfirmed", "committed"}
Status     == LiveStatus \cup {"none", "collected", "failed"}

TxState == {"unused", "pending", "landed", "reverted"}
UnusedTx == [state |-> "unused", ctx |-> 0, pieces |-> {}, run |-> 0, landedIn |-> 0]
Tx == [state : TxState, ctx : Ctx \cup {0}, pieces : SUBSET Pieces,
       run : 0 .. MaxRuns, landedIn : 0 .. MaxRuns]

PC == {"idle", "reconcile", "probe", "main", "store", "pull", "flush", "commit",
       "submitted", "confirm", "mark", "reverify", "flushed", "check", "retry"}

TypeOK ==
    /\ status \in [Ctx -> [Pieces -> Status]]
    /\ txHash \in [Ctx -> [Pieces -> TxIds \cup {NoTx}]]
    /\ before \in [Ctx -> SUBSET (Pieces \X Pieces)]
    /\ staged \subseteq Pieces
    /\ held \in [Ctx -> SUBSET Pieces]
    /\ txs \in [TxIds -> Tx]
    /\ pc \in PC
    /\ ctx \in Ctx
    /\ cur \in (Ctx \X Pieces) \cup {NoCopy}
    /\ pc \in {"probe", "store", "pull"} => cur \in Ctx \X Pieces
    /\ todo \subseteq Ctx \X Pieces
    /\ named \in Pieces \cup {NoPiece}
    /\ tx \in TxIds \cup {NoTx}
    /\ source \in {"open", "drained"}
    /\ attempt \in 0 .. MaxAttempts
    /\ parkedBefore \in Nat
    /\ run \in 0 .. MaxRuns
    /\ faults \in 0 .. MaxFaults

-----------------------------------------------------------------------------
(* Queries of the uploads table. *)

Parked(c) == {p \in Pieces : status[c][p] = "parked"}

\* subPiecesNeedingUpload(primary)
NeedingUpload == {p \in Pieces : status[Primary][p] \notin LiveStatus}

\* mutant of FullyCommitted: one committed copy is enough
AnyCommitted == {p \in Pieces : \E c \in Ctx : status[c][p] = "committed"}

\* carPathsFullyCommitted: some row, and no row that is not committed
FullyCommitted ==
    {p \in Pieces : /\ \E c \in Ctx : status[c][p] # "none"
                    /\ \A c \in Ctx : status[c][p] \in {"none", "committed"}}

\* the rows a retry round works on: collected anywhere, failed on secondaries
NeedsRetry ==
    {cp \in Ctx \X Pieces :
        \/ status[cp[1]][cp[2]] = "collected"
        \/ cp[1] # Primary /\ status[cp[1]][cp[2]] = "failed"}

\* mutant of Unconfirmed: a row without a hash is not looked at
UnconfirmedWithHash ==
    {cp \in Ctx \X Pieces : /\ status[cp[1]][cp[2]] = "add_unconfirmed"
                            /\ txHash[cp[1]][cp[2]] # NoTx}

Unconfirmed == {cp \in Ctx \X Pieces : status[cp[1]][cp[2]] = "add_unconfirmed"}

\* the oldest parked rows, at most a batch of them
FlushBatches(c) ==
    {B \in SUBSET Parked(c) :
        /\ Cardinality(B) = IF Cardinality(Parked(c)) < BatchCap
                            THEN Cardinality(Parked(c)) ELSE BatchCap
        /\ \A b \in B, q \in Parked(c) \ B : <<b, q>> \in before[c]}

-----------------------------------------------------------------------------
(* Writes of the uploads table. *)

SetStatus(c, p, s) == status' = [status EXCEPT ![c][p] = s]

SetStatusAll(c, B, s) ==
    status' = [status EXCEPT ![c] = [p \in Pieces |-> IF p \in B THEN s ELSE @[p]]]

\* upsert: every column of a previous attempt is cleared, parked_at restarts
RecordUploadParked(c, p) ==
    /\ SetStatus(c, p, "parked")
    /\ txHash' = [txHash EXCEPT ![c][p] = NoTx]
    /\ before' = [before EXCEPT ![c] =
            {qr \in @ : qr[1] # p /\ qr[2] # p} \cup {<<q, p>> : q \in Pieces \ {p}}]

MarkUploadFailed(c, p) ==
    /\ SetStatus(c, p, "failed")
    /\ UNCHANGED <<txHash, before>>

-----------------------------------------------------------------------------
(* Providers and the chain (external). *)

Fault(k) ==
    /\ k \in FaultKinds
    /\ faults < MaxFaults
    /\ faults' = faults + 1

\* transactions that add p on provider c
AddsOf(c, p) == {t \in TxIds : txs[t].ctx = c /\ p \in txs[t].pieces}

FreshTx(t) ==
    /\ txs[t].state = "unused"
    /\ \A u \in TxIds : u < t => txs[u].state # "unused"

Broadcast(t, c, B) ==
    txs' = [txs EXCEPT ![t] = [state |-> "pending", ctx |-> c, pieces |-> B,
                               run |-> run, landedIn |-> 0]]

\* hasPiece: any error of the lookup counts as "not there"
HasPiece(c, p) == p \in held[c] /\ UNCHANGED faults

MissesPiece(c, p) ==
    \/ p \notin held[c] /\ UNCHANGED faults
    \/ p \in held[c] /\ Fault("probe")

\* a row whose add did not land: parked while the bytes are there, else collected
Requeue(c, p) ==
    \/ HasPiece(c, p)    /\ SetStatus(c, p, "parked")
    \/ MissesPiece(c, p) /\ SetStatus(c, p, "collected")

-----------------------------------------------------------------------------
Init ==
    /\ status = [c \in Ctx |-> [p \in Pieces |-> "none"]]
    /\ txHash = [c \in Ctx |-> [p \in Pieces |-> NoTx]]
    /\ before = [c \in Ctx |-> {}]
    /\ staged = Pieces
    /\ held = [c \in Ctx |-> {}]
    /\ txs = [t \in TxIds |-> UnusedTx]
    /\ pc = "idle"
    /\ ctx = Primary
    /\ cur = NoCopy
    /\ todo = {}
    /\ named = NoPiece
    /\ tx = NoTx
    /\ source = "open"
    /\ attempt = 0
    /\ parkedBefore = 0
    /\ run = 0
    /\ faults = 0

(* Start and resume: reconcileUnconfirmed, context by context. *)

Start ==
    /\ pc = "idle"
    /\ run < MaxRuns
    /\ run' = run + 1
    /\ pc' = "reconcile"
    /\ todo' = Unconfirmed
    /\ UNCHANGED <<dbVars, staged, chainVars, ctx, cur, named, tx, loopVars,
                   parkedBefore, faults>>

FirstOf(c) == \A d \in Ctx : d < c => \A q \in Pieces : <<d, q>> \notin todo

HashLanded(c, p) == txHash[c][p] # NoTx /\ txs[txHash[c][p]].state = "landed"

\* mutant of ReconcileLanded: any receipt will do, a failed one too
ReconcileHashed(c, p) ==
    /\ pc = "reconcile"
    /\ <<c, p>> \in todo /\ FirstOf(c)
    /\ txHash[c][p] # NoTx
    /\ SetStatus(c, p, "committed")
    /\ todo' = todo \ {<<c, p>>}
    /\ UNCHANGED <<txHash, before, staged, chainVars, pc, ctx, cur, named, tx,
                   loopVars, parkedBefore, run, faults>>

\* the receipt shows the add landed: committed if the PiecesAdded event names
\* the piece, else left for a human
ReconcileLanded(c, p) ==
    /\ pc = "reconcile"
    /\ <<c, p>> \in todo /\ FirstOf(c)
    /\ HashLanded(c, p)
    /\ \/ SetStatus(c, p, "committed") /\ UNCHANGED faults
       \/ UNCHANGED status /\ Fault("event")
    /\ todo' = todo \ {<<c, p>>}
    /\ UNCHANGED <<txHash, before, staged, chainVars, pc, ctx, cur, named, tx,
                   loopVars, parkedBefore, run>>

\* mutant of ReconcileNotLanded: the provider is asked without a look at the receipt
ReconcileByProbe(c, p) ==
    /\ pc = "reconcile"
    /\ <<c, p>> \in todo /\ FirstOf(c)
    /\ cur' = <<c, p>>
    /\ pc' = "probe"
    /\ UNCHANGED <<dbVars, staged, chainVars, ctx, todo, named, tx, loopVars,
                   parkedBefore, run, faults>>

\* no hash, no receipt yet, or a failed receipt: the provider is asked next
ReconcileNotLanded(c, p) ==
    /\ pc = "reconcile"
    /\ <<c, p>> \in todo /\ FirstOf(c)
    /\ ~HashLanded(c, p)
    /\ cur' = <<c, p>>
    /\ pc' = "probe"
    /\ UNCHANGED <<dbVars, staged, chainVars, ctx, todo, named, tx, loopVars,
                   parkedBefore, run, faults>>

ReconcileProbe ==
    /\ pc = "probe"
    /\ Requeue(cur[1], cur[2])
    /\ todo' = todo \ {cur}
    /\ cur' = NoCopy
    /\ pc' = "reconcile"
    /\ UNCHANGED <<txHash, before, staged, chainVars, ctx, named, tx, loopVars,
                   parkedBefore, run>>

ReconcileDone ==
    /\ pc = "reconcile"
    /\ todo = {}
    /\ pc' = "main"
    /\ UNCHANGED <<dbVars, staged, chainVars, ctx, cur, todo, named, tx, loopVars,
                   parkedBefore, run, faults>>

(* Main loop: store on the primary, fan out, flush. *)

NextPiece(p) ==
    /\ pc = "main"
    /\ p \in NeedingUpload
    /\ \A q \in NeedingUpload : p <= q
    /\ cur' = <<Primary, p>>
    /\ pc' = "store"
    /\ UNCHANGED <<dbVars, staged, chainVars, ctx, todo, named, tx, loopVars,
                   parkedBefore, run, faults>>

SourceDrained ==
    /\ pc = "main"
    /\ NeedingUpload = {}
    /\ source' = "drained"
    /\ pc' = "flush"
    /\ UNCHANGED <<dbVars, staged, chainVars, ctx, cur, todo, named, tx, attempt,
                   parkedBefore, run, faults>>

\* after the copy on c: the next secondary, or flush
FanOutFrom(c, p) ==
    IF c < Copies THEN cur' = <<c + 1, p>> /\ pc' = "pull"
                  ELSE cur' = NoCopy /\ pc' = "flush"

StoreCar(p) ==
    /\ p \in staged
    /\ held' = [held EXCEPT ![Primary] = @ \cup {p}]
    /\ RecordUploadParked(Primary, p)
    /\ UNCHANGED faults

StorePiece ==
    /\ pc = "store"
    /\ StoreCar(cur[2])
    /\ FanOutFrom(Primary, cur[2])
    /\ UNCHANGED <<staged, txs, ctx, todo, named, tx, loopVars, parkedBefore, run>>

\* pullToSecondary: the secondary fetches from the primary, which must hold it
PullToSecondary(c, p) ==
    \/ /\ p \in held[Primary]
       /\ held' = [held EXCEPT ![c] = @ \cup {p}]
       /\ RecordUploadParked(c, p)
       /\ UNCHANGED faults
    \/ /\ \/ p \notin held[Primary] /\ UNCHANGED faults
          \/ p \in held[Primary] /\ Fault("pull")
       /\ MarkUploadFailed(c, p)
       /\ UNCHANGED held

PullPiece ==
    /\ pc = "pull"
    /\ PullToSecondary(cur[1], cur[2])
    /\ FanOutFrom(cur[1], cur[2])
    /\ UNCHANGED <<staged, txs, ctx, todo, named, tx, loopVars, parkedBefore, run>>

(* maybeFlush and flush. *)

\* batch-full or drained; the window timer may ask for a flush at any time
MustFlush(c) ==
    \/ Cardinality(Parked(c)) >= BatchCap
    \/ source = "drained" /\ Parked(c) # {}

\* mutant of FlushStart: no breadcrumb before commit()
FlushStartUnmarked ==
    /\ pc = "flush"
    /\ Parked(ctx) # {}
    /\ \E B \in FlushBatches(ctx) : todo' = {ctx} \X B
    /\ parkedBefore' = Cardinality(Parked(ctx))
    /\ pc' = "commit"
    /\ UNCHANGED <<status, txHash, before, staged, chainVars, ctx, cur, named, tx,
                   loopVars, run, faults>>

\* the durable breadcrumb is written before commit() is called
FlushStart ==
    /\ pc = "flush"
    /\ Parked(ctx) # {}
    /\ \E B \in FlushBatches(ctx) :
        /\ SetStatusAll(ctx, B, "add_unconfirmed")
        /\ todo' = {ctx} \X B
    /\ parkedBefore' = Cardinality(Parked(ctx))
    /\ pc' = "commit"
    /\ UNCHANGED <<txHash, before, staged, chainVars, ctx, cur, named, tx, loopVars,
                   run, faults>>

Batch == {p \in Pieces : <<ctx, p>> \in todo}

CommitAccepted(t) ==
    /\ pc = "commit"
    /\ Batch \subseteq held[ctx]
    /\ FreshTx(t)
    /\ Broadcast(t, ctx, Batch)
    /\ tx' = t
    /\ pc' = "submitted"
    /\ UNCHANGED <<dbVars, staged, held, ctx, cur, todo, named, loopVars,
                   parkedBefore, run, faults>>

\* the provider broadcast the add but its answer never arrived
CommitAnswerLost(t) ==
    /\ pc = "commit"
    /\ Batch \subseteq held[ctx]
    /\ FreshTx(t)
    /\ Broadcast(t, ctx, Batch)
    /\ Fault("lost")
    /\ todo' = {}
    /\ pc' = "flushed"
    /\ UNCHANGED <<dbVars, staged, held, ctx, cur, named, tx, loopVars,
                   parkedBefore, run>>

\* an error that is not a GC rejection: the batch stays add_unconfirmed
CommitRefused ==
    /\ pc = "commit"
    /\ Fault("reject")
    /\ todo' = {}
    /\ pc' = "flushed"
    /\ UNCHANGED <<dbVars, staged, chainVars, ctx, cur, named, tx, loopVars,
                   parkedBefore, run>>

\* Curio refuses the whole batch and names the first piece it misses; its message
\* also stands for "wrong service", so the piece named may be there, or not be ours
CommitMissing ==
    /\ pc = "commit"
    /\ \/ named' \in Batch \ held[ctx] /\ UNCHANGED faults
       \/ named' \in Batch \cup {NoPiece} /\ Fault("unnamed")
    /\ pc' = "reverify"
    /\ UNCHANGED <<dbVars, staged, chainVars, ctx, cur, todo, tx, loopVars,
                   parkedBefore, run>>

\* onSubmitted: the hash is persisted for the whole batch in one transaction
OnSubmitted ==
    /\ pc = "submitted"
    /\ txHash' = [txHash EXCEPT ![ctx] = [p \in Pieces |-> IF p \in Batch THEN tx ELSE @[p]]]
    /\ pc' = "confirm"
    /\ UNCHANGED <<status, before, staged, chainVars, ctx, cur, todo, named, tx,
                   loopVars, parkedBefore, run, faults>>

Confirmed ==
    /\ pc = "confirm"
    /\ txs[tx].state = "landed"
    /\ pc' = "mark"
    /\ UNCHANGED <<dbVars, staged, chainVars, ctx, cur, todo, named, tx, loopVars,
                   parkedBefore, run, faults>>

\* mutant of ConfirmError: the batch goes back to the queue at once
ConfirmErrorRequeues ==
    /\ pc = "confirm"
    /\ \/ txs[tx].state = "reverted" /\ UNCHANGED faults
       \/ Fault("timeout")
    /\ SetStatusAll(ctx, Batch, "parked")
    /\ todo' = {}
    /\ tx' = NoTx
    /\ pc' = "flushed"
    /\ UNCHANGED <<txHash, before, staged, chainVars, ctx, cur, named, loopVars,
                   parkedBefore, run>>

\* the add reverted, or waiting for it failed
ConfirmError ==
    /\ pc = "confirm"
    /\ \/ txs[tx].state = "reverted" /\ UNCHANGED faults
       \/ Fault("timeout")
    /\ todo' = {}
    /\ tx' = NoTx
    /\ pc' = "flushed"
    /\ UNCHANGED <<dbVars, staged, chainVars, ctx, cur, named, loopVars,
                   parkedBefore, run>>

\* batch.forEach(markUploadCommitted): one statement per row
MarkCommitted(p) ==
    /\ pc = "mark"
    /\ p \in Batch
    /\ SetStatus(ctx, p, "committed")
    /\ txHash' = [txHash EXCEPT ![ctx][p] = tx]
    /\ todo' = todo \ {<<ctx, p>>}
    /\ IF todo' = {} THEN pc' = "flushed" /\ tx' = NoTx
                     ELSE UNCHANGED <<pc, tx>>
    /\ UNCHANGED <<before, staged, chainVars, ctx, cur, named, loopVars,
                   parkedBefore, run, faults>>

\* every member of a rejected batch is looked up again, the named one excepted
Reverify(p) ==
    /\ pc = "reverify"
    /\ p \in Batch
    /\ \/ p = named /\ SetStatus(ctx, p, "collected") /\ UNCHANGED faults
       \/ p # named /\ Requeue(ctx, p)
    /\ todo' = todo \ {<<ctx, p>>}
    /\ IF todo' = {} THEN pc' = "flushed" /\ named' = NoPiece
                     ELSE UNCHANGED <<pc, named>>
    /\ UNCHANGED <<txHash, before, staged, chainVars, ctx, cur, tx, loopVars,
                   parkedBefore, run>>

\* the flush changed the parked count: a full batch may leave more behind it
FlushAgain ==
    /\ pc = "flushed"
    /\ Cardinality(Parked(ctx)) # parkedBefore
    /\ pc' = "flush"
    /\ parkedBefore' = 0
    /\ UNCHANGED <<dbVars, staged, chainVars, ctx, cur, todo, named, tx, loopVars,
                   run, faults>>

\* done with this context; after the last one evictCommitted runs
LeaveContext ==
    /\ \/ pc = "flush" /\ ~MustFlush(ctx)
       \/ pc = "flushed" /\ Cardinality(Parked(ctx)) = parkedBefore
    /\ parkedBefore' = 0
    /\ \/ /\ ctx < Copies
          /\ ctx' = ctx + 1
          /\ pc' = "flush"
          /\ UNCHANGED staged
       \/ /\ ctx = Copies
          /\ ctx' = Primary
          /\ staged' = staged \ FullyCommitted
          /\ pc' = IF source = "drained" THEN "check" ELSE "main"
    /\ UNCHANGED <<dbVars, chainVars, cur, todo, named, tx, loopVars, run, faults>>

(* Retry rounds after the source drained. *)

\* mutant of RetryStart: rounds without a limit
RetryStartUnbounded ==
    /\ pc = "check"
    /\ NeedsRetry # {}
    /\ todo' = NeedsRetry
    /\ pc' = "retry"
    /\ UNCHANGED <<dbVars, staged, chainVars, ctx, cur, named, tx, loopVars,
                   parkedBefore, run, faults>>

RetryStart ==
    /\ pc = "check"
    /\ NeedsRetry # {}
    /\ attempt < MaxAttempts
    /\ attempt' = attempt + 1
    /\ todo' = NeedsRetry
    /\ pc' = "retry"
    /\ UNCHANGED <<dbVars, staged, chainVars, ctx, cur, named, tx, source,
                   parkedBefore, run, faults>>

RetryCopy(c, p) ==
    /\ pc = "retry"
    /\ <<c, p>> \in todo /\ FirstOf(c)
    /\ IF c = Primary THEN StoreCar(p) ELSE PullToSecondary(c, p)
    /\ todo' = todo \ {<<c, p>>}
    /\ UNCHANGED <<staged, txs, pc, ctx, cur, named, tx, loopVars, parkedBefore, run>>

RetryFlush ==
    /\ pc = "retry"
    /\ todo = {}
    /\ pc' = "flush"
    /\ UNCHANGED <<dbVars, staged, chainVars, ctx, cur, todo, named, tx, loopVars,
                   parkedBefore, run, faults>>

Finish ==
    /\ pc = "check"
    /\ NeedsRetry = {} \/ attempt = MaxAttempts
    /\ staged' = staged \ FullyCommitted
    /\ pc' = "idle"
    /\ source' = "open"
    /\ attempt' = 0
    /\ UNCHANGED <<dbVars, chainVars, ctx, cur, todo, named, tx, parkedBefore,
                   run, faults>>

-----------------------------------------------------------------------------
(* The environment. *)

\* the provider drops parked bytes no add in flight or landed refers to
Collect(c, p) ==
    /\ p \in held[c]
    /\ \A t \in AddsOf(c, p) : txs[t].state = "reverted"
    /\ Fault("gc")
    /\ held' = [held EXCEPT ![c] = @ \ {p}]
    /\ UNCHANGED <<dbVars, staged, txs, pc, ctx, cur, todo, named, tx, loopVars,
                   parkedBefore, run>>

TxLands(t) ==
    /\ txs[t].state = "pending"
    /\ txs' = [txs EXCEPT ![t].state = "landed", ![t].landedIn = run]
    /\ UNCHANGED <<dbVars, staged, held, pc, ctx, cur, todo, named, tx, loopVars,
                   parkedBefore, run, faults>>

TxReverts(t) ==
    /\ txs[t].state = "pending"
    /\ Fault("revert")
    /\ txs' = [txs EXCEPT ![t].state = "reverted"]
    /\ UNCHANGED <<dbVars, staged, held, pc, ctx, cur, todo, named, tx, loopVars,
                   parkedBefore, run>>

\* a kill, or an exception that escapes runDirectUpload
Crash ==
    /\ pc # "idle"
    /\ Fault("crash")
    /\ pc' = "idle"
    /\ ctx' = Primary
    /\ cur' = NoCopy
    /\ todo' = {}
    /\ named' = NoPiece
    /\ tx' = NoTx
    /\ source' = "open"
    /\ attempt' = 0
    /\ parkedBefore' = 0
    /\ UNCHANGED <<dbVars, staged, chainVars, run>>

-----------------------------------------------------------------------------
Reconcile ==
    \/ \E c \in Ctx, p \in Pieces : ReconcileLanded(c, p) \/ ReconcileNotLanded(c, p)
    \/ ReconcileProbe
    \/ ReconcileDone

MainLoop ==
    \/ \E p \in Pieces : NextPiece(p)
    \/ SourceDrained \/ StorePiece \/ PullPiece

Flush ==
    \/ FlushStart
    \/ \E t \in TxIds : CommitAccepted(t) \/ CommitAnswerLost(t)
    \/ CommitRefused \/ CommitMissing
    \/ OnSubmitted \/ Confirmed \/ ConfirmError
    \/ \E p \in Pieces : MarkCommitted(p) \/ Reverify(p)
    \/ FlushAgain \/ LeaveContext

Retry ==
    \/ RetryStart
    \/ \E c \in Ctx, p \in Pieces : RetryCopy(c, p)
    \/ RetryFlush \/ Finish

Process == Reconcile \/ MainLoop \/ Flush \/ Retry

Environment ==
    \/ \E c \in Ctx, p \in Pieces : Collect(c, p)
    \/ \E t \in TxIds : TxLands(t) \/ TxReverts(t)
    \/ Crash

Next == Start \/ Process \/ Environment

Spec == Init /\ [][Next]_vars

\* the event loop runs what it can, and every transaction is mined in the end
FairSpec ==
    /\ Spec
    /\ WF_vars(Process)
    /\ \A t \in TxIds : WF_vars(TxLands(t))

-----------------------------------------------------------------------------
(* Safety. *)

\* A row says committed only if its own transaction landed on that provider
\* and carried that piece, whichever of the two paths (flush, resume) wrote it.
CommittedIsOnChain ==
    \A c \in Ctx, p \in Pieces :
        status[c][p] = "committed" =>
            /\ HashLanded(c, p)
            /\ txHash[c][p] \in AddsOf(c, p)

\* A CAR leaves the disk only once the primary and every secondary that has a
\* row are committed, and no later step makes such a row need the bytes again.
EvictedIsSettled ==
    \A p \in Pieces \ staged :
        /\ status[Primary][p] = "committed"
        /\ \A c \in Ctx : status[c][p] \in {"none", "committed"}

\* Whenever the loop is about to (re-)store a piece on the primary its CAR is
\* still on disk: neither the main loop nor a retry round ever opens an evicted
\* file, which would end the run.
StoreHasItsBytes ==
    /\ pc = "store" => cur[2] \in staged
    /\ pc = "retry" => \A p \in Pieces : <<Primary, p>> \in todo => p \in staged

\* Within one run the primary is asked to add a piece at most once, whatever
\* errors the commit ends in: two adds of a piece were sent by different runs.
OneAddPerRun ==
    \A p \in Pieces : \A t, u \in AddsOf(Primary, p) :
        t # u => txs[t].run # txs[u].run

\* Resume honours the receipt: reconciliation never re-queues or re-stores a row
\* whose recorded add had landed before the run began, however the receipt
\* lookup, the probe and a late landing interleave.
ResumeHonoursReceipt ==
    [][\A c \in Ctx, p \in Pieces :
        /\ pc \in {"reconcile", "probe"}
        /\ status[c][p] = "add_unconfirmed"
        /\ status'[c][p] \in {"parked", "collected"}
        => ~(HashLanded(c, p) /\ txs[txHash[c][p]].landedIn < run)]_vars

StageOf(s) == CASE s = "committed"       -> "confirmed"
                [] s = "add_unconfirmed" -> "attempted"
                [] OTHER                 -> "unsent"

Ledger == INSTANCE AddLedger WITH
    stage  <- [p \in Pieces |-> StageOf(status[Primary][p])],
    sent   <- {p \in Pieces : AddsOf(Primary, p) # {}},
    landed <- {p \in Pieces : \E t \in AddsOf(Primary, p) : txs[t].state = "landed"}

\* The primary's rows and adds behave as AddLedger prescribes: no add without a
\* durable mark, no confirmation without a landed add, confirmed is final.
PrimaryLedger == Ledger!Spec

-----------------------------------------------------------------------------
(* The inductive invariant behind the safety properties. *)

\* an unused transaction id stands for nothing
TxWellFormed ==
    \A t \in TxIds : txs[t].state = "unused" => txs[t] = UnusedTx

\* a recorded hash is that of an add of this very row
HashWellFormed ==
    \A c \in Ctx, p \in Pieces : txHash[c][p] # NoTx => txHash[c][p] \in AddsOf(c, p)

\* the batch under way: rows of one provider, all marked add_unconfirmed
BatchMarked ==
    pc \in {"commit", "submitted", "confirm", "mark", "reverify"} =>
        \A c \in Ctx, p \in Pieces :
            <<c, p>> \in todo => c = ctx /\ status[c][p] = "add_unconfirmed"

\* the transaction under way carries the batch
BatchCarried ==
    /\ pc \in {"submitted", "confirm", "mark"} =>
        /\ tx \in TxIds
        /\ \A p \in Pieces : <<ctx, p>> \in todo => tx \in AddsOf(ctx, p)
    /\ pc = "mark" => txs[tx].state = "landed"

\* reconciliation only works on rows still add_unconfirmed
ReconcileTodo ==
    /\ pc \in {"reconcile", "probe"} =>
        \A c \in Ctx, p \in Pieces :
            <<c, p>> \in todo => status[c][p] = "add_unconfirmed"
    /\ pc = "probe" => cur \in todo

\* a retry round only works on rows that did not land
RetryTodo ==
    pc = "retry" => \A c \in Ctx, p \in Pieces :
        <<c, p>> \in todo => \/ status[c][p] = "collected"
                             \/ c # Primary /\ status[c][p] = "failed"

\* the piece being stored has no live primary row; while the secondaries pull
\* it, its primary row is parked
CurrentCopy ==
    /\ pc = "store" => /\ cur[1] = Primary
                       /\ status[Primary][cur[2]] \notin LiveStatus
    /\ pc = "pull"  => /\ cur[1] # Primary
                       /\ status[Primary][cur[2]] = "parked"

\* no secondary has a row for a piece the primary never had one for
PrimaryRowFirst ==
    \A c \in Ctx, p \in Pieces : status[c][p] # "none" => status[Primary][p] # "none"

IInv ==
    /\ TypeOK
    /\ TxWellFormed
    /\ HashWellFormed
    /\ BatchMarked
    /\ BatchCarried
    /\ ReconcileTodo
    /\ RetryTodo
    /\ CurrentCopy
    /\ PrimaryRowFirst
    /\ CommittedIsOnChain
    /\ EvictedIsSettled

\* the rows of this run's adds are add_unconfirmed or committed
AddsMarked ==
    \A p \in Pieces : \A t \in AddsOf(Primary, p) :
        txs[t].run = run => status[Primary][p] \in {"add_unconfirmed", "committed"}

AddsDated == \A t \in TxIds : txs[t].run <= run

\* a run sends nothing before it has reconciled
ReconcileFirst ==
    pc \in {"reconcile", "probe"} => \A t \in TxIds : txs[t].run < run

\* no add of this run carries a piece of a batch not yet sent
BatchUnsent ==
    pc \in {"commit", "reverify"} =>
        \A p \in Pieces : <<Primary, p>> \in todo =>
            \A t \in AddsOf(Primary, p) : txs[t].run # run

\* the row being probed had no add on record that landed before this run
ProbedNotLanded ==
    pc = "probe" =>
        ~(HashLanded(cur[1], cur[2]) /\ txs[txHash[cur[1]][cur[2]]].landedIn < run)

RunInv ==
    /\ AddsMarked
    /\ AddsDated
    /\ ReconcileFirst
    /\ BatchUnsent
    /\ OneAddPerRun
    /\ ProbedNotLanded

-----------------------------------------------------------------------------
(* Claims of the repository's text that the code does not keep. *)

\* README: a resumed run never double-commits.
NoDoubleCommit ==
    \A c \in Ctx, p \in Pieces : \A t, u \in AddsOf(c, p) :
        txs[t].state = "landed" /\ txs[u].state = "landed" => t = u

\* reconcileUnconfirmed: the receipt is checked before a piece is re-queued. A
\* row ready to be committed by a reconciled run carries no hash of an add that
\* had landed before that run began.
QueuedHonoursReceipt ==
    pc \notin {"idle", "reconcile", "probe"} =>
        \A c \in Ctx, p \in Pieces :
            status[c][p] = "parked" /\ HashLanded(c, p)
                => txs[txHash[c][p]].landedIn >= run

\* UploadStatus: committed is final.
CommittedIsFinal ==
    [][\A c \in Ctx, p \in Pieces :
        status[c][p] = "committed" => status'[c][p] = "committed"]_vars

\* README: a staged CAR is deleted as soon as every copy is committed.
EvictedMeansEveryCopy ==
    \A p \in Pieces \ staged : \A c \in Ctx : status[c][p] = "committed"

-----------------------------------------------------------------------------
(* Liveness, under FairSpec. *)

\* A run that meets no fault any more leaves every primary copy, and every
\* secondary copy that has a row, committed, whatever earlier runs left behind.
CleanRunSettles ==
    pc = "reconcile" /\ todo = Unconfirmed /\ faults = MaxFaults ~>
        /\ pc = "idle"
        /\ \A p \in Pieces : status[Primary][p] = "committed"
        /\ \A c \in Ctx, p \in Pieces : status[c][p] \in {"none", "committed"}

\* Every run ends.
RunEnds == pc # "idle" ~> pc = "idle"
=============================================================================
