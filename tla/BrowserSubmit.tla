--------------------------- MODULE BrowserSubmit ---------------------------
(***************************************************************************)
(* The hosted console's submit driver: runSubmit (app/src/submit.ts) over  *)
(* the run record it keeps in IndexedDB (app/src/run-store.ts), with the   *)
(* operator's requeue and verify actions of app/src/app.tsx.               *)
(*                                                                         *)
(* Every provider copy is driven chunk by chunk: presign, pull, one add on *)
(* chain.  The primary runs first, the secondaries concurrently after it,  *)
(* pulling from the primary.  The tab may be closed at any await; the next *)
(* run continues from the record.                                          *)
(*                                                                         *)
(* Granularity: one action per await.  A write of the record that is       *)
(* awaited is part of the action that calls it; the one that is not (the   *)
(* hash, written from onSubmitted) is an action of its own.                *)
(***************************************************************************)
EXTENDS Naturals, Sequences, FiniteSets

CONSTANTS
    Copies,      \* provider copies, 1 is the primary
    NumPieces,   \* prepared pieces, in input order
    ChunkSize,   \* PULL_CHUNK_SIZE
    MaxTx,       \* commits a behaviour may post
    MaxRuns,     \* how often Submit or Resume is pressed
    FaultKinds,  \* the faults the environment may inject
    MaxFaults,   \* how many of them
    MaxRequeues, \* how often skipped pieces are requeued
    OldRecords   \* what a record of the old shape may say of every copy

ASSUME CopiesAssumption ==
    IsFiniteSet(Copies) /\ Copies = 1 .. Cardinality(Copies) /\ Copies # {}
ASSUME BoundAssumption  ==
    /\ {NumPieces, ChunkSize, MaxTx} \subseteq Nat \ {0}
    /\ {MaxRuns, MaxFaults, MaxRequeues} \subseteq Nat
    /\ Cardinality(Copies) <= MaxTx  \* those of an old record

Pieces  == 1 .. NumPieces
Primary == 1

VARIABLES
    disk,     \* the stored record: one entry per copy, or NoRecord
    mem,      \* the run's copy of it
    stage,    \* "off", "primary" or "secondaries"
    pc,       \* where each copy is
    cursor,   \* the chunk it is at
    attempt,  \* which of its two pulls
    ctx,      \* the data set its storage context is bound to; NoSet = none yet
    fresh,    \* copies with a cached context that is bound to no data set
    unsaved,  \* a hash was recorded by a write that is not awaited
    posted,   \* the add each copy has posted and not heard of
    parked,   \* pieces each provider holds
    txs,      \* the adds, in the order they were posted
    recorded, \* history: adds whose hash reached the stored record
    existing, \* copies whose provider had a matching data set before
    elsewhere,\* pieces that were added to a copy's data set by another tool
    looked,   \* the record a verify has read; NoRecord when none runs
    hurt,     \* history: the current run met a fault
    runs, requeues, faults

memVars == <<mem, stage, pc, cursor, attempt, ctx, fresh, unsaved, posted>>
envVars == <<parked, txs, existing, elsewhere>>
vars == <<disk, mem, stage, pc, cursor, attempt, ctx, fresh, unsaved, posted, parked,
          txs, recorded, existing, elsewhere, looked, hurt, runs, requeues, faults>>

NoRecord == <<>>
NoSet == 0
NoTx  == 0
TxIds == 1 .. MaxTx
Sets  == 0 .. MaxTx + 1       \* an add that creates a data set gives it its own number
OldSet == MaxTx + 1           \* the data set that was there before

(* SavedChunk: `signed` is extraData being present. *)
Chunk == [pieces : SUBSET Pieces, signed : BOOLEAN, set : Sets, pulled : BOOLEAN,
          tx : {NoTx} \cup TxIds, done : BOOLEAN]
NewChunk(S) == [pieces |-> S, signed |-> FALSE, set |-> NoSet, pulled |-> FALSE,
                tx |-> NoTx, done |-> FALSE]
Copy == [chunks : Seq(Chunk), set : Sets, deferred : SUBSET Pieces]

Tx == [copy : Copies, pieces : SUBSET Pieces, set : Sets,
       state : {"pending", "landed", "reverted"}]

PC == {"idle", "next", "bind", "presign", "pull", "commit", "posted", "confirm",
       "done", "failed", "blocked"}

TypeOK ==
    /\ disk = NoRecord \/ disk \in [Copies -> Copy]
    /\ mem = NoRecord \/ mem \in [Copies -> Copy]
    /\ looked = NoRecord \/ looked \in [Copies -> Copy]
    /\ stage \in {"off", "primary", "secondaries"}
    /\ pc \in [Copies -> PC]
    /\ cursor \in [Copies -> Nat \ {0}]
    /\ ctx \in [Copies -> Sets]
    /\ txs \in Seq(Tx) /\ Len(txs) <= MaxTx
    /\ posted \in [Copies -> {NoTx} \cup TxIds]
    /\ recorded \subseteq TxIds

---------------------------------------------------------------------------
(* Chunks of the record. *)

(* Consecutive slices of the pieces in their order. *)
ChunksOf(S) ==
    LET place(p) == Cardinality({q \in S : q < p})
    IN [i \in 1 .. (Cardinality(S) + ChunkSize - 1) \div ChunkSize |->
            NewChunk({p \in S : place(p) \div ChunkSize = i - 1})]

AllDone(copy) ==
    copy.chunks # <<>> /\ \A i \in DOMAIN copy.chunks : copy.chunks[i].done

PiecesIn(copy) == UNION {copy.chunks[i].pieces : i \in DOMAIN copy.chunks}

At(c) == mem[c].chunks[cursor[c]]

\* the copy with its current chunk replaced
WithChunk(c, chunk) == [mem[c] EXCEPT !.chunks[cursor[c]] = chunk]

(* migrateLegacySubmit: a record of the old shape had one whole-run chunk. *)
MigrateLegacySubmit(old) ==
    [c \in Copies |->
        [set |-> IF old = "committed" THEN OldSet ELSE NoSet, deferred |-> {},
         chunks |-> IF old = "unsubmitted" THEN ChunksOf(Pieces)
                    ELSE <<[NewChunk(Pieces) EXCEPT !.signed = TRUE, !.set = OldSet,
                             !.pulled = TRUE, !.tx = c, !.done = (old = "committed")]>>]]

OldTxs(old) ==
    IF old = "unsubmitted" THEN <<>>
    ELSE [c \in Copies |-> [copy |-> c, pieces |-> Pieces, set |-> OldSet,
                            state |-> IF old = "committed" THEN "landed" ELSE "pending"]]

---------------------------------------------------------------------------
(* Storage, chain and faults. *)

HashesIn(record) ==
    (UNION {{record[c].chunks[i].tx : i \in DOMAIN record[c].chunks} : c \in Copies}) \ {NoTx}

(* persist(): the whole record; a failed write is noted and ignored. *)
Save(record) ==
    \/ /\ disk' = record
       /\ recorded' = recorded \cup HashesIn(record)
       /\ UNCHANGED <<hurt, faults>>
    \/ /\ "storage" \in FaultKinds /\ faults < MaxFaults
       /\ faults' = faults + 1 /\ hurt' = TRUE
       /\ UNCHANGED <<disk, recorded>>

Persist(record) ==
    /\ mem' = record
    /\ Save(record)

Fault(kind) ==
    /\ kind \in FaultKinds /\ faults < MaxFaults
    /\ faults' = faults + 1
    /\ hurt' = TRUE

Landed(t) == txs[t].state = "landed"

\* the data sets of a copy's provider that match the metadata
MatchingSets(c) ==
    {t \in DOMAIN txs : txs[t].copy = c /\ txs[t].set = NoSet /\ Landed(t)}
        \cup (IF c \in existing THEN {OldSet} ELSE {})

\* createContext: a matching data set, or none
Resolved(c) == IF MatchingSets(c) = {} THEN {NoSet} ELSE MatchingSets(c)

OnChain(c) ==
    (UNION {txs[t].pieces : t \in {u \in DOMAIN txs : txs[u].copy = c /\ Landed(u)}})
        \cup {e[2] : e \in {e \in elsewhere : e[1] = c}}

Goto(c, place) == pc' = [pc EXCEPT ![c] = place]

Active(c) ==
    \/ stage = "primary" /\ c = Primary
    \/ stage = "secondaries" /\ c # Primary

Over == {"done", "failed", "blocked"}

---------------------------------------------------------------------------
(* The start and the end of a run. *)

FreshCopy(set) == [chunks |-> ChunksOf(Pieces), set |-> set, deferred |-> {}]

(* Submit or Resume is pressed: the stored record is continued, or contexts
   are selected and the chunks planned. *)
StartRun ==
    /\ stage = "off" /\ runs < MaxRuns
    /\ disk # NoRecord => \E c \in Copies : ~ AllDone(disk[c])
    /\ runs' = runs + 1
    /\ \E sets \in [Copies -> Sets] :
          /\ \A c \in Copies : sets[c] \in Resolved(c)
          /\ LET fromDisk == disk # NoRecord
                 record == IF fromDisk THEN disk ELSE [c \in Copies |-> FreshCopy(sets[c])]
             IN /\ mem' = record
                /\ fresh' = IF fromDisk THEN {} ELSE {c \in Copies : sets[c] = NoSet}
                /\ pc' = [c \in Copies |-> IF AllDone(record[c]) THEN "done" ELSE "next"]
                /\ stage' = IF AllDone(record[Primary]) THEN "secondaries" ELSE "primary"
                /\ \/ /\ disk' = record /\ hurt' = FALSE
                      /\ UNCHANGED <<recorded, faults>>
                   \/ Fault("storage") /\ UNCHANGED <<disk, recorded>>
    /\ cursor' = [c \in Copies |-> 1]
    /\ UNCHANGED <<attempt, ctx, unsaved, posted, envVars, looked, requeues>>

(* The primary is done or has failed: the secondaries start either way.  A
   primary that is blocked ends the run. *)
PrimaryOver ==
    /\ stage = "primary" /\ pc[Primary] \in {"done", "failed"}
    /\ stage' = "secondaries"
    /\ UNCHANGED <<disk, mem, pc, cursor, attempt, ctx, fresh, unsaved, posted, envVars,
                   recorded, looked, hurt, runs, requeues, faults>>

\* what is left of a run in memory once it is over: nothing
Forget ==
    /\ stage' = "off"
    /\ mem' = NoRecord
    /\ pc' = [c \in Copies |-> "idle"]
    /\ cursor' = [c \in Copies |-> 1]
    /\ attempt' = [c \in Copies |-> 1]
    /\ ctx' = [c \in Copies |-> NoSet]
    /\ fresh' = {}
    /\ unsaved' = FALSE
    /\ posted' = [c \in Copies |-> NoTx]

EndRun ==
    /\ \/ stage = "primary" /\ pc[Primary] = "blocked"
       \/ stage = "secondaries" /\ \A c \in Copies \ {Primary} : pc[c] \in Over
    /\ Save(mem)
    /\ Forget
    /\ UNCHANGED <<envVars, looked, runs, requeues>>

(* The tab is closed, reloaded or discarded. *)
CloseTab ==
    /\ stage # "off" \/ looked # NoRecord
    /\ Fault("close")
    /\ Forget
    /\ looked' = NoRecord
    /\ UNCHANGED <<disk, envVars, recorded, runs, requeues>>

(* Something the copy awaits throws (not a blocked session). *)
CopyFails(c) ==
    /\ Goto(c, "failed")
    /\ UNCHANGED <<mem, stage, cursor, attempt, ctx, fresh, unsaved>>

---------------------------------------------------------------------------
(* runChunks, for one copy. *)

ToNext(c) == [cursor EXCEPT ![c] = @ + 1]

\* mutant: a chunk with a recorded hash is driven from the start again
NextChunkAnew(c) ==
    /\ Active(c) /\ pc[c] = "next"
    /\ IF cursor[c] > Len(mem[c].chunks)
       THEN Goto(c, "done") /\ Save(mem) /\ UNCHANGED <<cursor, attempt>>
       ELSE /\ UNCHANGED <<disk, recorded, hurt, faults>>
            /\ IF At(c).done THEN cursor' = ToNext(c) /\ UNCHANGED <<pc, attempt>>
               ELSE /\ Goto(c, "bind")
                    /\ attempt' = [attempt EXCEPT ![c] = 1]
                    /\ UNCHANGED cursor
    /\ UNCHANGED <<mem, stage, ctx, fresh, unsaved, posted, envVars, looked, runs, requeues>>

(* Committed chunks are passed over; one with a hash only needs confirming. *)
NextChunk(c) ==
    /\ Active(c) /\ pc[c] = "next"
    /\ IF cursor[c] > Len(mem[c].chunks)
       THEN Goto(c, "done") /\ Save(mem) /\ UNCHANGED <<cursor, attempt>>
       ELSE /\ UNCHANGED <<disk, recorded, hurt, faults>>
            /\ IF At(c).done THEN cursor' = ToNext(c) /\ UNCHANGED <<pc, attempt>>
               ELSE /\ Goto(c, IF At(c).tx # NoTx THEN "confirm" ELSE "bind")
                    /\ attempt' = [attempt EXCEPT ![c] = 1]
                    /\ UNCHANGED cursor
    /\ UNCHANGED <<mem, stage, ctx, fresh, unsaved, posted, envVars, looked, runs, requeues>>

(* bindCtx: the copy's data set; failing that the context cached for `new`,
   or a new one, which pins a matching data set it resolves to. *)
BindCtx(c) ==
    /\ Active(c) /\ pc[c] = "bind"
    /\ Goto(c, "presign")
    /\ \/ /\ mem[c].set # NoSet \/ c \in fresh
          /\ ctx' = [ctx EXCEPT ![c] = mem[c].set]
          /\ UNCHANGED <<disk, mem, recorded, hurt, faults, fresh>>
       \/ /\ mem[c].set = NoSet /\ c \notin fresh
          /\ \E set \in Resolved(c) :
                /\ ctx' = [ctx EXCEPT ![c] = set]
                /\ IF set = NoSet
                   THEN fresh' = fresh \cup {c} /\ UNCHANGED <<disk, mem, recorded, hurt, faults>>
                   ELSE Persist([mem EXCEPT ![c].set = set]) /\ UNCHANGED fresh
    /\ UNCHANGED <<stage, cursor, attempt, unsaved, posted, envVars, looked, runs, requeues>>

(* ensurePresigned: a blob for another data set than the one bound now is
   thrown away; the new one is saved before anything is pulled under it. *)
EnsurePresigned(c) ==
    /\ Active(c) /\ pc[c] = "presign"
    /\ IF At(c).signed /\ At(c).set = ctx[c]
       THEN UNCHANGED <<disk, mem, recorded, hurt, faults>>
       ELSE Persist([mem EXCEPT ![c] = WithChunk(c,
              [At(c) EXCEPT !.signed = TRUE, !.set = ctx[c],
                            !.pulled = @ /\ ~ At(c).signed])])
    /\ Goto(c, "pull")
    /\ UNCHANGED <<stage, cursor, attempt, ctx, fresh, unsaved, posted, envVars, looked,
                   runs, requeues>>

(* The session is inside its margin: the stale blob is gone, nothing signed. *)
SessionBlocks(c) ==
    /\ Active(c) /\ pc[c] = "presign"
    /\ ~ (At(c).signed /\ At(c).set = ctx[c])
    /\ Fault("margin")
    /\ mem' = [mem EXCEPT ![c] = WithChunk(c,
                 [At(c) EXCEPT !.signed = FALSE, !.set = NoSet,
                               !.pulled = @ /\ ~ At(c).signed])]
    /\ Goto(c, "blocked")
    /\ UNCHANGED <<disk, recorded, stage, cursor, attempt, ctx, fresh, unsaved, posted,
                   envVars, looked, runs, requeues>>

\* mutant: pieces the provider could not fetch are dropped, not deferred
CarveAndDrop(c, F) ==
    LET left == At(c).pieces \ F
    IN [WithChunk(c, [At(c) EXCEPT !.pieces = left, !.signed = FALSE, !.set = NoSet,
                                   !.pulled = left # {}, !.done = left = {}])
        EXCEPT !.deferred = @]

\* mutant: a chunk nothing of which could be fetched stays open
CarveLeftOpen(c, F) ==
    LET left == At(c).pieces \ F
    IN [WithChunk(c, [At(c) EXCEPT !.pieces = left, !.signed = FALSE, !.set = NoSet,
                                   !.pulled = left # {}])
        EXCEPT !.deferred = @ \cup F]

(* Two pulls did not fetch F: the rest of the chunk is kept, F is deferred. *)
Carve(c, F) ==
    LET left == At(c).pieces \ F
    IN [WithChunk(c, [At(c) EXCEPT !.pieces = left, !.signed = FALSE, !.set = NoSet,
                                   !.pulled = left # {}, !.done = left = {}])
        EXCEPT !.deferred = @ \cup F]

\* pieces a pull of S cannot fetch: secondaries only find what the primary holds
Unfetchable(c, S) == IF c = Primary THEN {} ELSE S \ parked[Primary]

(* pullChunk answers: F is what it could not fetch. *)
PullChunk(c) ==
    /\ Active(c) /\ pc[c] = "pull"
    /\ UNCHANGED <<stage, ctx, fresh, unsaved, posted, txs, existing, elsewhere, looked,
                   runs, requeues>>
    /\ \/ /\ At(c).pulled
          /\ Goto(c, "commit")
          /\ UNCHANGED <<disk, mem, recorded, hurt, faults, parked, cursor, attempt>>
       \/ /\ ~ At(c).pulled
          /\ \E F \in SUBSET At(c).pieces :
                /\ parked' = [parked EXCEPT ![c] = @ \cup (At(c).pieces \ F)]
                /\ IF F = {}
                   THEN /\ mem' = [mem EXCEPT ![c] = WithChunk(c, [At(c) EXCEPT !.pulled = TRUE])]
                        /\ Goto(c, "commit") /\ UNCHANGED <<cursor, attempt>>
                   ELSE IF attempt[c] = 1
                   THEN /\ mem' = [mem EXCEPT ![c] = WithChunk(c,
                                     [At(c) EXCEPT !.signed = FALSE, !.set = NoSet])]
                        /\ attempt' = [attempt EXCEPT ![c] = 2]
                        /\ Goto(c, "presign") /\ UNCHANGED cursor
                   ELSE /\ mem' = [mem EXCEPT ![c] = Carve(c, F)]
                        /\ IF F = At(c).pieces
                           THEN Goto(c, "next") /\ cursor' = ToNext(c)
                           ELSE Goto(c, "presign") /\ UNCHANGED cursor
                        /\ UNCHANGED attempt
                /\ \/ F = Unfetchable(c, At(c).pieces) /\ Save(mem')
                   \/ /\ Unfetchable(c, At(c).pieces) \subseteq F
                      /\ F # Unfetchable(c, At(c).pieces)
                      /\ Fault("source")
                      /\ disk' = mem' /\ recorded' = recorded \cup HashesIn(mem')

PullThrows(c) ==
    /\ Active(c) /\ pc[c] = "pull" /\ ~ At(c).pulled
    /\ Fault("pull")
    /\ CopyFails(c)
    /\ UNCHANGED <<disk, recorded, posted, envVars, looked, runs, requeues>>

---------------------------------------------------------------------------
(* commitChunk. *)

(* The provider takes the add and sends it. *)
Post(c) ==
    /\ Active(c) /\ pc[c] = "commit"
    /\ Len(txs) < MaxTx
    /\ txs' = Append(txs, [copy |-> c, pieces |-> At(c).pieces, set |-> At(c).set,
                           state |-> "pending"])
    /\ posted' = [posted EXCEPT ![c] = Len(txs) + 1]
    /\ Goto(c, "posted")
    /\ UNCHANGED <<disk, mem, stage, cursor, attempt, ctx, fresh, unsaved, parked, existing,
                   elsewhere, recorded, looked, hurt, runs, requeues, faults>>

PostRefused(c) ==
    /\ Active(c) /\ pc[c] = "commit"
    /\ Fault("refuse")
    /\ CopyFails(c)
    /\ UNCHANGED <<disk, recorded, posted, envVars, looked, runs, requeues>>

(* The add was sent and the answer is lost: no hash, the copy fails. *)
AnswerLost(c) ==
    /\ Active(c) /\ pc[c] = "posted"
    /\ Fault("answer")
    /\ posted' = [posted EXCEPT ![c] = NoTx]
    /\ CopyFails(c)
    /\ UNCHANGED <<disk, recorded, envVars, looked, runs, requeues>>

(* onSubmitted: the hash is in memory, its write is on the way. *)
OnSubmitted(c) ==
    /\ Active(c) /\ pc[c] = "posted"
    /\ mem' = [mem EXCEPT ![c] = WithChunk(c, [At(c) EXCEPT !.tx = posted[c]])]
    /\ posted' = [posted EXCEPT ![c] = NoTx]
    /\ unsaved' = TRUE
    /\ Goto(c, "confirm")
    /\ UNCHANGED <<disk, stage, cursor, attempt, ctx, fresh, envVars, recorded, looked,
                   hurt, runs, requeues, faults>>

HashWritten ==
    /\ unsaved
    /\ unsaved' = FALSE
    /\ Save(mem)
    /\ UNCHANGED <<mem, stage, pc, cursor, attempt, ctx, fresh, posted, envVars, looked,
                   runs, requeues>>

\* mutant: an add that is still pending counts as confirmed
ConfirmedEarly(c) == At(c).tx # NoTx

(* The status endpoint, or the receipt, shows the add done. *)
Confirmed(c) == Landed(At(c).tx)

FinishChunk(c) ==
    /\ Active(c) /\ pc[c] = "confirm"
    /\ Confirmed(c)
    /\ Persist([mem EXCEPT ![c] =
          [WithChunk(c, [At(c) EXCEPT !.done = TRUE])
           EXCEPT !.set = IF At(c).set = NoSet THEN At(c).tx ELSE At(c).set]])
    /\ cursor' = ToNext(c)
    /\ Goto(c, "next")
    /\ UNCHANGED <<stage, attempt, ctx, fresh, unsaved, posted, envVars, looked, runs,
                   requeues>>

(* Reverted, or neither the endpoint nor the chain answers in time: the hash
   stays, the copy fails. *)
ConfirmFails(c) ==
    /\ Active(c) /\ pc[c] = "confirm"
    /\ \/ txs[At(c).tx].state = "reverted" /\ UNCHANGED <<hurt, faults>>
       \/ Fault("timeout")
    /\ CopyFails(c)
    /\ UNCHANGED <<disk, recorded, posted, envVars, looked, runs, requeues>>

---------------------------------------------------------------------------
(* The operator, between runs. *)

Requeued(copy) ==
    [copy EXCEPT !.chunks = @ \o ChunksOf(copy.deferred), !.deferred = {}]

(* "Retry the skipped pieces": requeueDeferred, then the next run. *)
RequeueDeferred ==
    /\ stage = "off" /\ disk # NoRecord /\ requeues < MaxRequeues
    /\ \E c \in Copies : disk[c].deferred # {}
    /\ requeues' = requeues + 1
    /\ disk' = [c \in Copies |-> IF disk[c].deferred = {} THEN disk[c] ELSE Requeued(disk[c])]
    /\ UNCHANGED <<memVars, envVars, recorded, looked, hurt, runs, faults>>

(* verifyContext reads the record, then the chain ... *)
VerifyReads ==
    /\ stage = "off" /\ disk # NoRecord /\ looked = NoRecord
    /\ looked' = disk
    /\ UNCHANGED <<disk, memVars, envVars, recorded, hurt, runs, requeues, faults>>

(* ... and writes what it read back, with the skipped pieces of the copy it
   found on chain in a committed chunk.  Nothing holds back a run meanwhile. *)
VerifyWrites(c) ==
    /\ looked # NoRecord
    /\ stage # "off" \/ disk # looked => "overlap" \in FaultKinds
    /\ LET found == looked[c].deferred \cap OnChain(c)
           chunk == [NewChunk(found) EXCEPT !.pulled = TRUE, !.done = TRUE]
       IN disk' = IF looked[c].set = NoSet \/ found = {} THEN disk
                  ELSE [looked EXCEPT ![c].deferred = @ \ found,
                                      ![c].chunks = Append(@, chunk)]
    /\ looked' = NoRecord
    /\ UNCHANGED <<memVars, envVars, recorded, hurt, runs, requeues, faults>>

---------------------------------------------------------------------------
(* The chain. *)

TxLands(t) ==
    /\ txs[t].state = "pending"
    /\ txs' = [txs EXCEPT ![t].state = "landed"]
    /\ UNCHANGED <<disk, memVars, parked, existing, elsewhere, recorded, looked, hurt, runs,
                   requeues, faults>>

TxReverts(t) ==
    /\ txs[t].state = "pending"
    /\ Fault("revert")
    /\ txs' = [txs EXCEPT ![t].state = "reverted"]
    /\ UNCHANGED <<disk, memVars, parked, existing, elsewhere, recorded, looked, runs,
                   requeues>>

(* A skipped piece is added to the copy's data set by another tool. *)
AddedElsewhere(c, p) ==
    /\ disk # NoRecord /\ p \in disk[c].deferred /\ disk[c].set # NoSet
    /\ Fault("elsewhere")
    /\ elsewhere' = elsewhere \cup {<<c, p>>}
    /\ UNCHANGED <<disk, memVars, parked, txs, existing, recorded, looked, runs, requeues>>

---------------------------------------------------------------------------
Init ==
    /\ existing \in SUBSET Copies
    /\ \/ disk = NoRecord /\ txs = <<>>
       \/ \E old \in OldRecords :
             /\ old # "unsubmitted" => existing = Copies
             /\ disk = MigrateLegacySubmit(old) /\ txs = OldTxs(old)
    /\ recorded = DOMAIN txs
    /\ parked = [c \in Copies |-> UNION {txs[t].pieces : t \in DOMAIN txs}]
    /\ mem = NoRecord
    /\ stage = "off"
    /\ pc = [c \in Copies |-> "idle"]
    /\ cursor = [c \in Copies |-> 1]
    /\ attempt = [c \in Copies |-> 1]
    /\ ctx = [c \in Copies |-> NoSet]
    /\ fresh = {}
    /\ unsaved = FALSE
    /\ posted = [c \in Copies |-> NoTx]
    /\ elsewhere = {}
    /\ looked = NoRecord
    /\ hurt = FALSE
    /\ runs = 0 /\ requeues = 0 /\ faults = 0

CopyStep(c) ==
    \/ NextChunk(c) \/ BindCtx(c) \/ EnsurePresigned(c) \/ PullChunk(c)
    \/ Post(c) \/ OnSubmitted(c) \/ FinishChunk(c) \/ ConfirmFails(c)

CopyFault(c) ==
    \/ SessionBlocks(c) \/ PullThrows(c) \/ PostRefused(c) \/ AnswerLost(c)

Next ==
    \/ StartRun \/ PrimaryOver \/ EndRun \/ CloseTab \/ HashWritten
    \/ \E c \in Copies : CopyStep(c) \/ CopyFault(c) \/ VerifyWrites(c)
    \/ RequeueDeferred \/ VerifyReads
    \/ \E t \in DOMAIN txs : TxLands(t) \/ TxReverts(t)
    \/ \E c \in Copies, p \in Pieces : AddedElsewhere(c, p)

Spec == Init /\ [][Next]_vars

(* The run is one async function: each of its awaits ends.  A transaction
   that was posted lands or reverts. *)
FairSpec ==
    /\ Spec
    /\ WF_vars(PrimaryOver \/ EndRun)
    /\ \A c \in Copies : WF_vars(CopyStep(c))
    /\ \A t \in TxIds : WF_vars(t \in DOMAIN txs /\ TxLands(t))

---------------------------------------------------------------------------
(* Whatever is carved off, requeued, verified or re-planned, a record never
   loses a piece and never holds it twice: each piece of a copy is in exactly
   one chunk or deferred (runChunks, requeueDeferred, verifyContext). *)
PiecesConserved ==
    \A record \in {disk, mem} \ {NoRecord} : \A c \in Copies :
        /\ PiecesIn(record[c]) \cup record[c].deferred = Pieces
        /\ PiecesIn(record[c]) \cap record[c].deferred = {}
        /\ \A i, j \in DOMAIN record[c].chunks :
              i # j => record[c].chunks[i].pieces \cap record[c].chunks[j].pieces = {}

(* A chunk the stored record calls committed is on chain, piece by piece, in
   the copy's data set, through every path that sets the mark. *)
CommittedIsOnChain ==
    disk # NoRecord => \A c \in Copies : \A i \in DOMAIN disk[c].chunks :
        disk[c].chunks[i].done => disk[c].chunks[i].pieces \subseteq OnChain(c)

(* Once the hash of an add has reached the record, no later run posts an add
   of any of its pieces to that provider, whatever happens in between. *)
RecordedIsNotReposted ==
    \A t, u \in DOMAIN txs :
        (t < u /\ txs[t].copy = txs[u].copy /\ txs[t].pieces \cap txs[u].pieces # {})
            => t \notin recorded

CommittedPieces(record, c) ==
    IF record = NoRecord THEN {}
    ELSE UNION {record[c].chunks[i].pieces :
                   i \in {j \in DOMAIN record[c].chunks : record[c].chunks[j].done}}

(* No write of the record takes a commit back, whichever of the run's writes
   fail or come late and whatever is requeued or verified between runs: a piece
   the stored record calls committed is committed in every later record. *)
CommittedIsFinal ==
    [][\A c \in Copies : CommittedPieces(disk, c) \subseteq CommittedPieces(disk', c)]_vars

Reverted == \E t \in DOMAIN txs : txs[t].state = "reverted"

(* A run that meets no fault ends, and leaves every copy with all its chunks
   committed: nothing an earlier run left behind is beyond resuming, except
   an add that reverted. *)
CleanRunCompletes ==
    (stage # "off" /\ ~ hurt) ~>
        (hurt \/ Reverted \/ (stage = "off" /\ disk # NoRecord /\ \A c \in Copies : AllDone(disk[c])))

(* submit.ts:29: a resumed run "NEVER re-posts commit".  No piece is posted
   to a provider again while an earlier add of it may land or has landed. *)
NeverReposts ==
    \A t, u \in DOMAIN txs :
        (t < u /\ txs[t].copy = txs[u].copy /\ txs[t].pieces \cap txs[u].pieces # {})
            => txs[t].state = "reverted"
=============================================================================
