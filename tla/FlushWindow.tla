------------------------------ MODULE FlushWindow ------------------------------
(***************************************************************************)
(* When `ipfs2foc upload` flushes: the clock side of runDirectUpload's     *)
(* main loop (packages/cli/src/direct-upload.ts), shouldFlush and the      *)
(* window arithmetic (gc-window.ts) and the provider_windows row (db.ts).  *)
(*                                                                         *)
(* Pieces are the times they were parked at.  A provider may drop a parked *)
(* piece once it is trueWindow old; the client cannot learn that window,   *)
(* it assumes one and lowers it when a commit is refused.  What a commit   *)
(* does to the rows is DirectUpload's subject; here it takes time, and     *)
(* either empties the batch or loses some of it.                           *)
(***************************************************************************)
EXTENDS Naturals, Sequences, FiniteSets

CONSTANTS
    Copies,          \* storage contexts; 1 is the primary
    BatchCap,        \* MAX_ADD_PIECES_BATCH
    MinWindow,       \* MIN_WINDOW_MS
    MinMargin,       \* MIN_MARGIN_MS
    AssumedWindows,  \* what --assumed-window-minutes may say
    TrueWindows,     \* what the providers may really do (external)
    MaxStore,        \* the longest store on the primary
    MaxPull,         \* the longest pull by a secondary
    MaxCommit,       \* the longest commit, or refusal of one
    MaxPieces,       \* sub-pieces in the source
    MaxLosses        \* refused commits a behaviour may contain

ASSUME CopiesAssumption == Copies \in Nat \ {0} /\ BatchCap \in Nat \ {0}
ASSUME FloorAssumption  == MinWindow \in Nat \ {0} /\ MinMargin \in Nat
ASSUME WindowAssumption == AssumedWindows \subseteq Nat /\ TrueWindows \subseteq Nat
ASSUME StepAssumption   == MaxStore \in Nat /\ MaxPull \in Nat /\ MaxCommit \in Nat
ASSUME BoundAssumption  == MaxPieces \in Nat /\ MaxLosses \in Nat

VARIABLES
    now,         \* deps.now()
    assumed,     \* opts.assumedWindowMs
    trueWindow,  \* trueWindow[c]: when provider c may drop a parked piece
    stored,      \* stored[c]: the provider_windows row, NoRow when there is none
    parked,      \* parked[c]: parkedAt of the parked rows, oldest first
    slowest,     \* the slowest commit of this run, 0 before the first
    pieces,      \* sub-pieces still to be stored on the primary
    source,      \* whether the main loop is over
    losses,      \* refused commits so far
    pc, ctx, before

vars == <<now, assumed, trueWindow, stored, parked, slowest, pieces, source,
          losses, pc, ctx, before>>

Ctx   == 1 .. Copies
NoRow == 0

TypeOK ==
    /\ now \in Nat
    /\ assumed \in AssumedWindows
    /\ trueWindow \in [Ctx -> TrueWindows]
    /\ stored \in [Ctx -> Nat]
    /\ parked \in [Ctx -> Seq(Nat)]
    /\ slowest \in 0 .. MaxCommit
    /\ pieces \in 0 .. MaxPieces
    /\ source \in {"open", "drained"}
    /\ losses \in 0 .. MaxLosses
    /\ pc \in {"main", "pull", "check", "commit", "committed", "done"}
    /\ ctx \in Ctx
    /\ before \in Nat

-----------------------------------------------------------------------------
(* gc-window.ts *)

Larger(a, b)  == IF a >= b THEN a ELSE b
Smaller(a, b) == IF a <= b THEN a ELSE b

\* mutant of MarginFromConfirmations: no floor before the first confirmation
MarginObservedOnly(observed) == 2 * observed

MarginFromConfirmations(observed) == Larger(MinMargin, 2 * observed)

LowerWindowOnGc(window, age) ==
    Larger(MinWindow, Smaller(window, (age * 3) \div 4))

\* the batch is full, or its oldest piece nears the end of the assumed window;
\* "drained" (no more pieces to store) flushes whatever there is
ShouldFlush(queue, time, window, margin, drained) ==
    /\ queue # <<>>
    /\ \/ Len(queue) >= BatchCap
       \/ time + margin >= Head(queue) + window
       \/ drained

-----------------------------------------------------------------------------
(* db.ts: provider_windows *)

\* mutant of ProviderWindow: a stored row overrides the option
ProviderRow(c) == IF stored[c] = NoRow THEN assumed ELSE stored[c]

ProviderWindow(c) ==
    IF stored[c] = NoRow THEN assumed ELSE Smaller(stored[c], assumed)

LowerProviderWindow(c, w) ==
    stored' = [stored EXCEPT ![c] = IF @ = NoRow THEN w ELSE Smaller(@, w)]

-----------------------------------------------------------------------------
Init ==
    /\ now = 0
    /\ assumed \in AssumedWindows
    /\ trueWindow \in [Ctx -> TrueWindows]
    /\ stored = [c \in Ctx |-> NoRow]
    /\ parked = [c \in Ctx |-> <<>>]
    /\ slowest = 0
    /\ pieces = MaxPieces
    /\ source = "open"
    /\ losses = 0
    /\ pc = "main"
    /\ ctx = 1
    /\ before = 0

Park(c, time) == parked' = [parked EXCEPT ![c] = Append(@, time)]

\* after the copy on c: the next secondary pulls, or maybeFlush begins
NextCopy(c) ==
    IF c < Copies THEN pc' = "pull" /\ ctx' = c + 1
                  ELSE pc' = "check" /\ ctx' = 1

StorePiece(d) ==
    /\ pc = "main"
    /\ pieces > 0
    /\ pieces' = pieces - 1
    /\ now' = now + d
    /\ Park(1, now')
    /\ NextCopy(1)
    /\ UNCHANGED <<assumed, trueWindow, stored, slowest, source, losses, before>>

\* a secondary pulls, or fails to: then it has nothing parked
PullPiece(d) ==
    /\ pc = "pull"
    /\ now' = now + d
    /\ Park(ctx, now') \/ UNCHANGED parked
    /\ NextCopy(ctx)
    /\ UNCHANGED <<assumed, trueWindow, stored, slowest, pieces, source,
                   losses, before>>

SourceDrained ==
    /\ pc = "main"
    /\ pieces = 0
    /\ source' = "drained"
    /\ pc' = "check"
    /\ UNCHANGED <<now, assumed, trueWindow, stored, parked, slowest, pieces,
                   losses, ctx, before>>

\* the margin is that of the commits seen so far in this run
Due(c) == ShouldFlush(parked[c], now, ProviderWindow(c),
                      MarginFromConfirmations(slowest), source = "drained")

Flush ==
    /\ pc = "check"
    /\ Due(ctx)
    /\ before' = Len(parked[ctx])
    /\ pc' = "commit"
    /\ UNCHANGED <<now, assumed, trueWindow, stored, parked, slowest, pieces, source,
                   losses, ctx>>

BatchSize == Smaller(BatchCap, Len(parked[ctx]))

CommitLands(d) ==
    /\ pc = "commit"
    /\ now' = now + d
    /\ slowest' = Larger(slowest, d)
    /\ parked' = [parked EXCEPT ![ctx] = SubSeq(@, BatchSize + 1, Len(@))]
    /\ pc' = "committed"
    /\ UNCHANGED <<assumed, trueWindow, stored, pieces, source, losses, ctx, before>>

\* an error that names no piece: the batch is left for the next run
CommitFails(d) ==
    /\ pc = "commit"
    /\ now' = now + d
    /\ parked' = [parked EXCEPT ![ctx] = SubSeq(@, BatchSize + 1, Len(@))]
    /\ pc' = "committed"
    /\ UNCHANGED <<assumed, trueWindow, stored, slowest, pieces, source, losses,
                   ctx, before>>

\* places of the batch the provider may have dropped by then
Droppable(time) ==
    {i \in 1 .. BatchSize : time >= parked[ctx][i] + trueWindow[ctx]}

\* the places of this queue outside M, in order
Increasing(f) == \A j, k \in DOMAIN f : j < k => f[j] < f[k]

Remaining(M) ==
    LET kept == (1 .. Len(parked[ctx])) \ M
    IN  {f \in [1 .. Cardinality(kept) -> kept] : Increasing(f)}

\* Curio names the first dropped piece i: the window is lowered from its age,
\* and the pieces still there go back to the queue.  A lost primary copy is
\* stored again; a lost secondary copy waits for the retry rounds, as does any
\* copy lost after the source drained.
CommitMissing(d) ==
    /\ pc = "commit"
    /\ losses < MaxLosses
    /\ losses' = losses + 1
    /\ now' = now + d
    /\ \E M \in SUBSET Droppable(now'), i \in Droppable(now') :
        /\ i \in M
        /\ \A j \in M : i <= j
        /\ LowerProviderWindow(ctx, LowerWindowOnGc(ProviderWindow(ctx),
                                                    now' - parked[ctx][i]))
        /\ \E f \in Remaining(M) :
            parked' = [parked EXCEPT ![ctx] = [k \in DOMAIN f |-> @[f[k]]]]
        /\ pieces' = IF ctx = 1 /\ source = "open" THEN pieces + Cardinality(M)
                                                  ELSE pieces
    /\ pc' = "committed"
    /\ UNCHANGED <<assumed, trueWindow, slowest, source, ctx, before>>

\* the parked count changed: look at this context again
CheckAgain ==
    /\ pc = "committed"
    /\ Len(parked[ctx]) # before
    /\ pc' = "check"
    /\ before' = 0
    /\ UNCHANGED <<now, assumed, trueWindow, stored, parked, slowest, pieces, source,
                   losses, ctx>>

LeaveContext ==
    /\ \/ pc = "check" /\ ~Due(ctx)
       \/ pc = "committed" /\ Len(parked[ctx]) = before
    /\ before' = 0
    /\ \/ ctx < Copies /\ ctx' = ctx + 1 /\ pc' = "check"
       \/ /\ ctx = Copies
          /\ ctx' = 1
          /\ pc' = IF source = "drained" THEN "done" ELSE "main"
    /\ UNCHANGED <<now, assumed, trueWindow, stored, parked, slowest, pieces, source,
                   losses>>

Next ==
    \/ \E d \in 0 .. MaxStore : StorePiece(d)
    \/ \E d \in 0 .. MaxPull : PullPiece(d)
    \/ \E d \in 0 .. MaxCommit : CommitLands(d) \/ CommitFails(d) \/ CommitMissing(d)
    \/ SourceDrained \/ Flush \/ CheckAgain \/ LeaveContext

Spec == Init /\ [][Next]_vars

-----------------------------------------------------------------------------
\* One turn of the main loop, up to the end of this context's commit, fits in
\* the flush margin, and the assumed window is longer than the margin: one that
\* is as long may end with the commit of a piece that never waited.
TurnFitsMargin ==
    /\ MaxStore + (Copies - 1) * MaxPull + Copies * MaxCommit <= MinMargin
    /\ MinMargin < assumed

\* If the assumed window is not longer than the real one of any provider, and a
\* turn of the loop fits in the margin, no commit is ever refused for a
\* collected piece: checking the timer only between stores is often enough.
NoLossInsideWindow ==
    TurnFitsMargin /\ (\A c \in Ctx : assumed <= trueWindow[c]) => losses = 0

\* The window a provider is given only ever moves down, a guess below the floor
\* of lowerWindowOnGc included.
WindowNeverRises ==
    [][\A c \in Ctx : ProviderWindow(c)' <= ProviderWindow(c)]_vars
=============================================================================
