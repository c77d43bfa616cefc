----------------------------- MODULE MigratePlan -----------------------------
(***************************************************************************)
(* From CIDs to planned aggregates: the tables `pieces`, `sub_pieces` and  *)
(* `aggregates` (packages/cli/src/db.ts), and the commands that fill them  *)
(* one at a time: the daemon's Runner (runner.ts), `plan` (migrate.ts),    *)
(* `import-manifest`, `pack-cars` and the preparation of `upload`.         *)
(*                                                                         *)
(* A command fetches CARs concurrently.  What it then does to the tables   *)
(* is a pass: a script of writes, computed from the tables when the pass   *)
(* begins and carried out without an await, each write its own             *)
(* transaction.  A pass is one pc; a kill may come between its writes.     *)
(*                                                                         *)
(* Data.  Cids stand for the CID strings, ordered as the queries and the   *)
(* CAR writer order them.  A CAR is what its bytes are, a member of        *)
(* Contents: Content[c] the canonical CAR of the block-verified walk,      *)
(* Serves[c] the CARs a gateway may answer with, which may be cut short.   *)
(* Two strings may name one CID, and then share their bytes.  A sub-piece  *)
(* CID is the sequence of contents it commits to: <<x>> when x is passed   *)
(* through or packed alone, those of the members in order for a packed     *)
(* CAR.  Sub-piece CIDs order the sub-pieces arbitrarily.                  *)
(***************************************************************************)
EXTENDS Naturals, Sequences, FiniteSets, SequencesExt

CONSTANTS
    Cids,           \* CID strings
    Contents,       \* CAR bytes
    NoContent,      \* no commitment recorded
    Content,        \* the canonical CAR of a CID
    Serves,         \* the CARs a gateway may answer with for a CID
    Raw,            \* raw size of a content
    Gateways,       \* how many gateways there are to try
    Concurrency,    \* --concurrency
    Budgets,        \* the --piece-size values in use
    DefaultBudget,  \* that of pack-cars without a planned aggregate
    Targets,        \* the --pack-target-size values in use
    UploadCap,      \* SDK_MAX_UPLOAD_BYTES
    MaxFaults,      \* fetches and builds that may fail
    MaxSessions     \* commands a behaviour may run

ASSUME CidsAssumption   == Cids \subseteq Nat /\ IsFiniteSet(Cids)
ASSUME ServesAssumption ==
    /\ Content \in [Cids -> Contents] /\ Serves \in [Cids -> SUBSET Contents]
    /\ \A c \in Cids : Content[c] \in Serves[c]
    /\ NoContent \notin Contents
ASSUME RawAssumption    == Raw \in [Contents -> Nat \ {0}]
ASSUME SizesAssumption  ==
    Budgets \cup Targets \cup {DefaultBudget, UploadCap, Concurrency, Gateways} \subseteq Nat \ {0}
ASSUME BoundsAssumption == {MaxFaults, MaxSessions} \subseteq Nat

VARIABLES
    \* the tables
    piece,     \* piece[c]: status of the row of c, "absent" without a row
    rec,       \* rec[c]: the commitment recorded for c
    subs,      \* the sub-pieces built: subs[s] the members of s
    aggs,      \* the aggregates by idx: members and piece size
    \* the command that runs
    proc,      \* which one, "none" between commands
    state,     \* Runner.#state
    workers,   \* CIDs being fetched
    queue,     \* rows of pendingCids the plan pool has not started
    opts,      \* its options; who called the pass; whether bins were made
    pc,        \* where it is
    script,    \* the writes of the pass still to come
    \* bookkeeping of the model
    faults, sessions

tables == <<piece, rec, subs, aggs>>
planVars == <<piece, rec, subs, aggs, proc, state, workers, queue, opts, pc, script,
          faults, sessions>>

PieceStatus == {"absent", "pending", "processing", "done", "failed", "oversized"}
Ids == UNION {[1..n -> Contents] : n \in 1..Cardinality(Cids)}
NoOpts == [budget |-> 0, target |-> 0, pack |-> FALSE, made |-> FALSE, caller |-> "worker"]

PlanTypeOK ==
    /\ piece \in [Cids -> PieceStatus]
    /\ rec \in [Cids -> Contents \cup {NoContent}]
    /\ DOMAIN subs \subseteq Ids /\ \A s \in DOMAIN subs : subs[s] \subseteq Cids
    /\ aggs \in Seq([members : SUBSET DOMAIN subs, budget : Budgets \cup {DefaultBudget}])
    /\ proc \in {"none", "serve", "plan", "import", "pack", "upload"}
    /\ state \in {"idle", "running", "paused"}
    /\ workers \subseteq Cids /\ queue \subseteq Cids
    /\ opts \in [budget : Nat, target : Nat, pack : BOOLEAN, made : BOOLEAN,
                 caller : {"api", "worker"}]
    /\ pc \in {"off", "loop", "import", "wrap", "append", "bins"}
    /\ faults \in 0..MaxFaults /\ sessions \in 0..MaxSessions

FirstOf(S, n) == {c \in S : Cardinality({d \in S : d < c}) < n}

\* the members of S in turn: before[c] are those that come before c
InTurn(S, before) ==
    [i \in 1..Cardinality(S) |-> CHOOSE c \in S : Cardinality(before[c]) = i - 1]
Sorted(S) == InTurn(S, [c \in S |-> {d \in S : d < c}])

\* the sum of the sizes in a finite function: how many bytes they number
Total(size) == Cardinality(UNION {{x} \X (1..size[x]) : x \in DOMAIN size})

-----------------------------------------------------------------------------
(***************************************************************************)
(* What the tables say.                                                    *)
(***************************************************************************)
Built == DOMAIN subs
Wrapped == UNION {subs[s] : s \in Built}
Aggregated == UNION {aggs[i].members : i \in DOMAIN aggs}

\* mutant: takes members of packed sub-pieces too
DoneFreeUnlocked(p) == {c \in Cids : p[c] = "done" /\ <<rec[c]>> \notin Built}

\* donePiecesFreeForPacking, p the statuses
DoneFree(p) == {c \in Cids : p[c] = "done" /\ c \notin Wrapped}

Weight(s) == Total([i \in DOMAIN s |-> Raw[s[i]]])

\* paddedSize: the next power of two
Padded(s) ==
    LET w == Weight(s)
        Powers == {2^k : k \in 0..w}
    IN  CHOOSE q \in Powers : q >= w /\ \A r \in Powers : r >= w => q <= r

-----------------------------------------------------------------------------
(***************************************************************************)
(* Packing.                                                                *)
(***************************************************************************)
\* packAggregates takes the units in turn: one too large for any aggregate is
\* put aside, one that does not fit the open aggregate closes it
PackUnit(acc, s, budget) ==
    IF Padded(s) > budget
    THEN [acc EXCEPT !.oversized = @ \cup {s}]
    ELSE IF acc.used + Padded(s) > budget
    THEN [acc EXCEPT !.shut = Append(@, acc.open), !.open = {s}, !.used = Padded(s)]
    ELSE [acc EXCEPT !.open = @ \cup {s}, !.used = @ + Padded(s)]

NothingPacked == [shut |-> <<>>, open |-> {}, used |-> 0, oversized |-> {}]

PackAggregates(units, budget) ==
    LET packed[i \in 0..Len(units)] ==
            IF i = 0 THEN NothingPacked ELSE PackUnit(packed[i - 1], units[i], budget)
        end == packed[Len(units)]
    IN  [aggregates |-> IF end.open = {} THEN end.shut ELSE Append(end.shut, end.open),
         oversized  |-> end.oversized]

\* planBins: largest first, each piece into the first bin with room for it
RowRaw(c) == Raw[rec[c]]
Larger(c, d) == RowRaw(c) > RowRaw(d) \/ (RowRaw(c) = RowRaw(d) /\ c < d)
BySize(S) == InTurn(S, [c \in S |-> {d \in S : Larger(d, c)}])

WithRoom(bins, c, target) ==
    {i \in DOMAIN bins : Total([d \in bins[i] |-> RowRaw(d)]) + RowRaw(c) <= target}

PlaceInBin(bins, c, target) ==
    LET room == WithRoom(bins, c, target)
    IN  IF room = {} THEN Append(bins, {c})
        ELSE [bins EXCEPT ![CHOOSE i \in room : \A j \in room : i <= j] = @ \cup {c}]

PlanBins(S, target) ==
    LET rows == BySize({c \in S : RowRaw(c) <= target})
        bins[i \in 0..Len(rows)] ==
            IF i = 0 THEN <<>> ELSE PlaceInBin(bins[i - 1], rows[i], target)
    IN  bins[Len(rows)]

-----------------------------------------------------------------------------
(***************************************************************************)
(* The scripts of the passes.                                              *)
(***************************************************************************)
Op(name, arg) == <<name, arg>>
Ops(name, args) == [i \in DOMAIN args |-> Op(name, args[i])]

\* wrapDonePiecesAsPassthroughSubPieces
WrapScript(p) == Ops("wrap", Sorted(DoneFree(p)))

\* mutant: nothing is marked oversized
AppendScriptUnmarked(units, budget) == Ops("save", PackAggregates(units, budget).aggregates)

\* appendAggregatesFromFreeSubPieces, units in the order of their CIDs
AppendScript(units, budget) ==
    LET packed == PackAggregates(units, budget)
    IN  Ops("save", packed.aggregates)
            \o Ops("oversize", Sorted(UNION {subs[s] : s \in packed.oversized}))

\* pieces too large for a bin ship alone: packed by `upload`, up to the cap, passed
\* through by `pack-cars`
Singles(large) ==
    LET one == Sorted({c \in large : RowRaw(c) <= UploadCap})
    IN  [i \in DOMAIN one |-> Op("bin", {one[i]})]
Passthroughs(large) == Ops("wrap", Sorted(large))

\* runPackCars
BinScript(kind, target) ==
    LET large == {c \in DoneFree(piece) : RowRaw(c) > target}
    IN  Ops("bin", PlanBins(DoneFree(piece), target))
            \o (IF kind = "upload" THEN Singles(large) ELSE Passthroughs(large))

\* a pass begins; p the statuses as its first read finds them
BeginWrap(p) == pc' = "wrap" /\ script' = WrapScript(p)

BeginAppend(budget) ==
    /\ pc' = "append"
    /\ \E units \in SetToSeqs(Built \ Aggregated) : script' = AppendScript(units, budget)

BeginBins(kind, target) == pc' = "bins" /\ script' = BinScript(kind, target)

\* the command ends, or its process dies
Off ==
    /\ pc' = "off" /\ proc' = "none" /\ state' = "idle" /\ script' = <<>>
    /\ workers' = {} /\ queue' = {} /\ opts' = NoOpts

-----------------------------------------------------------------------------
PlanInit ==
    /\ piece = [c \in Cids |-> "absent"] /\ rec = [c \in Cids |-> NoContent]
    /\ subs = <<>> /\ aggs = <<>>
    /\ proc = "none" /\ state = "idle" /\ workers = {} /\ queue = {}
    /\ opts = NoOpts /\ pc = "off" /\ script = <<>>
    /\ faults = 0 /\ sessions = 0

(***************************************************************************)
(* A command starts.                                                       *)
(***************************************************************************)
Open(kind) ==
    /\ pc = "off" /\ sessions < MaxSessions
    /\ sessions' = sessions + 1 /\ proc' = kind
    /\ UNCHANGED <<subs, aggs, state, faults>>

\* addCids: rows there are stay as they are
AddedTo(p, S) == [c \in Cids |-> IF c \in S /\ p[c] = "absent" THEN "pending" ELSE p[c]]

\* mutant: serve does not reset the rows a kill left
OpenServeUnreset ==
    /\ Open("serve")
    /\ \E S \in SUBSET Cids, b \in Budgets :
          piece' = AddedTo(piece, S) /\ opts' = [NoOpts EXCEPT !.budget = b]
    /\ pc' = "loop"
    /\ UNCHANGED <<rec, workers, queue, script>>

\* rows a kill left processing
ResetProcessing(p) == [c \in Cids |-> IF p[c] = "processing" THEN "pending" ELSE p[c]]

\* `serve`: the list is added, and the Runner is made
OpenServe ==
    /\ Open("serve")
    /\ \E S \in SUBSET Cids, b \in Budgets :
          /\ piece' = ResetProcessing(AddedTo(piece, S))
          /\ opts' = [NoOpts EXCEPT !.budget = b]
    /\ pc' = "loop"
    /\ UNCHANGED <<rec, workers, queue, script>>

\* the pool takes the next rows of the snapshot
PoolNext(S, w) ==
    LET begun == FirstOf(S, Concurrency - Cardinality(w))
    IN  workers' = w \cup begun /\ queue' = S \ begun

PendingCids(p) == {c \in Cids : p[c] \in {"pending", "processing", "failed"}}

\* `plan`, and the same stage of `upload`
OpenPlan ==
    \E kind \in {"plan", "upload"}, S \in SUBSET Cids, b \in Budgets, t \in Targets,
       auto \in BOOLEAN :
          /\ Open(kind) /\ (kind = "plan" => S # {})
          /\ opts' = [NoOpts EXCEPT !.budget = IF kind = "plan" THEN b ELSE 0,
                                    !.target = IF kind = "upload" THEN t ELSE 0,
                                    !.pack = (kind = "plan" /\ auto)]
          /\ piece' = AddedTo(piece, S)
          /\ PoolNext(PendingCids(AddedTo(piece, S)), {})
          /\ pc' = "loop"
          /\ UNCHANGED <<rec, script>>

\* the manifest disagrees with the tables
Conflict(c, x) ==
    CASE piece[c] = "absent" -> <<x>> \in Built
      [] piece[c] \in {"done", "oversized"} -> rec[c] # x
      [] OTHER -> FALSE

\* parseRunManifest: pieces, no CID twice (a function), no commitment twice
ValidManifest(manifest) == manifest # <<>> /\ IsInjective(manifest)

\* `import-manifest` of a valid manifest without conflicts; another is refused
OpenImport ==
    /\ Open("import")
    /\ \E S \in SUBSET Cids, b \in Budgets, auto \in BOOLEAN :
       \E manifest \in [S -> Contents] :
          /\ ValidManifest(manifest)
          /\ \A c \in S : manifest[c] \in Serves[c] /\ ~Conflict(c, manifest[c])
          /\ LET toImport == {c \in S : piece[c] \notin {"done", "oversized"}}
                 order == Sorted(toImport)
             IN  /\ piece' = AddedTo(piece, toImport)
                 /\ script' = [i \in DOMAIN order |->
                                  Op("record", <<order[i], manifest[order[i]]>>)]
          /\ opts' = [NoOpts EXCEPT !.budget = b, !.pack = auto]
    /\ pc' = "import"
    /\ UNCHANGED <<rec, workers, queue>>

\* `pack-cars`
OpenPack ==
    /\ Open("pack")
    /\ \E t \in Targets : opts' = [NoOpts EXCEPT !.target = t] /\ BeginBins("pack", t)
    /\ UNCHANGED <<piece, rec, workers, queue>>

-----------------------------------------------------------------------------
(***************************************************************************)
(* The Runner of `serve`.                                                  *)
(***************************************************************************)
\* #kick with w in flight and the statuses p: claim while there is room; with
\* nothing in flight the pass begins, within the caller
Kick(p, w, run, caller) ==
    /\ state' = run
    /\ \/ /\ run # "running"
          /\ piece' = p /\ workers' = w
          /\ UNCHANGED <<opts, pc, script>>
       \/ /\ run = "running"
          /\ LET claimed == FirstOf({c \in Cids : p[c] = "pending"},
                                    Concurrency - Cardinality(w))
             IN  /\ piece' = [c \in Cids |-> IF c \in claimed THEN "processing" ELSE p[c]]
                 /\ workers' = w \cup claimed
          /\ \/ workers' # {} /\ UNCHANGED <<opts, pc, script>>
             \/ /\ workers' = {} /\ BeginWrap(piece')
                /\ opts' = [opts EXCEPT !.caller = caller]

Handler ==
    /\ pc = "loop" /\ proc = "serve"
    /\ UNCHANGED <<rec, subs, aggs, proc, queue, faults, sessions>>

\* POST /api/cids
AddCids ==
    /\ Handler
    /\ \E S \in SUBSET Cids : Kick(AddedTo(piece, S), workers, state, "api")

\* POST /api/start, and /api/resume of a paused Runner
StartRunner == Handler /\ state # "running" /\ Kick(piece, workers, "running", "api")

\* POST /api/pause
Pause == Handler /\ state = "running" /\ Kick(piece, workers, "paused", "api")

\* POST /api/retry
ResetFailed(p) == [c \in Cids |-> IF p[c] = "failed" THEN "pending" ELSE p[c]]
RetryFailed == Handler /\ Kick(ResetFailed(piece), workers, state, "api")

(***************************************************************************)
(* A fetch settles: #process of the Runner, the pool callback of runPlan.  *)
(***************************************************************************)
Settle(c, p) ==
    /\ pc = "loop" /\ c \in workers
    /\ \/ /\ proc = "serve"
          /\ Kick(p, workers \ {c}, state, "worker")
          /\ UNCHANGED queue
       \/ /\ proc # "serve"
          /\ piece' = p /\ PoolNext(queue, workers \ {c})
          /\ UNCHANGED <<state, opts, pc, script>>
    /\ UNCHANGED <<subs, aggs, proc, sessions>>

\* what a gateway comes to: a CAR rooted at the CID, or a failure of some category
Answers == {"car", "outage", "refusal", "other"}

\* of the gateways' failures, the first of a category that tells something
Category(answers) ==
    LET telling == SelectSeq(answers, LAMBDA a : a # "other")
    IN  IF telling = <<>> THEN "other" ELSE Head(telling)
ShouldFallback(category) == category = "outage"

\* fetchAndComputePiece: the source that serves a CID, the IPFS fallback last;
\* found: the fallback has it
FetchAndComputePiece(answers, ipfsFallback, found) ==
    CASE "car" \in Range(answers) -> "gateway"
      [] "car" \notin Range(answers)
         /\ ipfsFallback /\ ShouldFallback(Category(answers)) /\ found -> "helia"
      [] OTHER -> "none"
Sources == {FetchAndComputePiece(answers, ipfsFallback, found) :
               answers \in [1..Gateways -> Answers], ipfsFallback \in BOOLEAN,
               found \in BOOLEAN}

\* recordPieceOutcome: no provider can pull what only the fallback served
RecordPieceOutcome(c, source) ==
    Settle(c, [piece EXCEPT ![c] = IF source = "gateway" THEN "done" ELSE "failed"])

Fetched(c) ==
    /\ "gateway" \in Sources
    /\ RecordPieceOutcome(c, "gateway")
    /\ rec' = [rec EXCEPT ![c] = Content[c]]
    /\ UNCHANGED faults

FetchFailed(c) ==
    /\ faults < MaxFaults /\ faults' = faults + 1
    /\ \E source \in Sources \ {"gateway"} : RecordPieceOutcome(c, source)
    /\ UNCHANGED rec

\* the pool of runPlan is through
PoolDrained ==
    /\ pc = "loop" /\ proc \in {"plan", "upload"} /\ workers = {}
    /\ UNCHANGED <<tables, faults, sessions>>
    /\ \/ proc = "plan" /\ ~opts.pack /\ Off
       \/ /\ \/ proc = "plan" /\ opts.pack /\ BeginWrap(piece)
             \/ proc = "upload" /\ BeginBins("upload", opts.target)
          /\ UNCHANGED <<proc, state, workers, queue, opts>>

-----------------------------------------------------------------------------
(***************************************************************************)
(* The writes of a pass.                                                   *)
(***************************************************************************)
Write(name) ==
    /\ script # <<>> /\ Head(script)[1] = name
    /\ script' = Tail(script)
    /\ UNCHANGED <<proc, state, workers, queue, pc, sessions>>

\* recordPieceSuccess of a piece of the manifest
ImportPiece ==
    /\ Write("record")
    /\ LET r == Head(script)[2]
       IN  /\ piece' = [piece EXCEPT ![r[1]] = "done"]
           /\ rec' = [rec EXCEPT ![r[1]] = r[2]]
    /\ UNCHANGED <<subs, aggs, opts, faults>>

\* the sub-pieces with one more, s
WithSubPiece(s, members) ==
    [t \in Built \cup {s} |-> IF t = s THEN members ELSE subs[t]]

\* recordPassthroughSubPiece
Wrap ==
    /\ Write("wrap")
    /\ LET c == Head(script)[2]
       IN  <<rec[c]>> \notin Built /\ subs' = WithSubPiece(<<rec[c]>>, {c})
    /\ opts' = [opts EXCEPT !.made = (pc = "bins")]
    /\ UNCHANGED <<piece, rec, aggs, faults>>

\* there is a sub-piece of that CID: the insert throws.  A command ends; the
\* daemon answers 500 if a request began the pass, and dies of the unhandled
\* rejection if the end of a fetch did
WrapRefused ==
    /\ script # <<>> /\ Head(script)[1] = "wrap"
    /\ <<rec[Head(script)[2]]>> \in Built
    /\ UNCHANGED <<tables, faults, sessions>>
    /\ \/ /\ opts.caller = "api"
          /\ pc' = "loop" /\ script' = <<>> /\ opts' = [opts EXCEPT !.caller = "worker"]
          /\ UNCHANGED <<proc, state, workers, queue>>
       \/ opts.caller # "api" /\ Off

\* a member again, from the first gateway that answers; nothing verifies it
FetchCarFromAnyGateway(c) == Serves[c]

\* what assembling CARs in this order may yield
Assembled(order) ==
    {s \in [DOMAIN order -> Contents] :
        \A i \in DOMAIN order : s[i] \in FetchCarFromAnyGateway(order[i])}

\* buildOneBin fetches each member when its turn comes
BuildOneBin(bin) == Assembled(Sorted(bin))

\* buildBin, and recordBuiltSubPiece
BuildBin ==
    /\ Write("bin")
    /\ \E s \in BuildOneBin(Head(script)[2]) \ Built : subs' = WithSubPiece(s, Head(script)[2])
    /\ opts' = [opts EXCEPT !.made = TRUE]
    /\ UNCHANGED <<piece, rec, aggs, faults>>

\* the build fails, or its sub-piece is there: the bin is given up
BinFailed ==
    /\ Write("bin")
    /\ \/ faults < MaxFaults /\ faults' = faults + 1
       \/ BuildOneBin(Head(script)[2]) \cap Built # {} /\ UNCHANGED faults
    /\ UNCHANGED <<tables, opts>>

\* saveAggregate
SaveAggregate ==
    /\ Write("save")
    /\ aggs' = Append(aggs, [members |-> Head(script)[2], budget |-> opts.budget])
    /\ UNCHANGED <<piece, rec, subs, opts, faults>>

\* markOversized
MarkOversized ==
    /\ Write("oversize")
    /\ piece' = [piece EXCEPT ![Head(script)[2]] = "oversized"]
    /\ UNCHANGED <<rec, subs, aggs, opts, faults>>

\* --piece-size of pack-cars: that of the first planned aggregate, which is any
\* of them, since the submit path moves the rows on
PackBudgets == {aggs[i].budget : i \in DOMAIN aggs} \cup {DefaultBudget}

\* mutant: the state is not set
RepackDoneRunning ==
    /\ pc' = "loop" /\ opts' = [opts EXCEPT !.caller = "worker"]
    /\ UNCHANGED <<proc, state, workers, queue, script>>

\* the end of #kick after #repack
RepackDone ==
    /\ pc' = "loop" /\ opts' = [opts EXCEPT !.caller = "worker"]
    /\ state' = "idle"
    /\ UNCHANGED <<proc, workers, queue, script>>

\* the script is through
PassEnds ==
    /\ pc \in {"import", "wrap", "append", "bins"} /\ script = <<>>
    /\ UNCHANGED <<tables, faults, sessions>>
    /\ \/ /\ \/ pc = "import" /\ opts.pack /\ BeginWrap(piece) /\ UNCHANGED opts
             \/ pc = "wrap" /\ BeginAppend(opts.budget) /\ UNCHANGED opts
             \/ /\ pc = "bins" /\ proc = "pack" /\ opts.made
                /\ \E b \in PackBudgets :
                      BeginAppend(b) /\ opts' = [opts EXCEPT !.budget = b, !.made = FALSE]
          /\ UNCHANGED <<proc, state, workers, queue>>
       \/ pc = "append" /\ proc = "serve" /\ RepackDone
       \/ /\ \/ pc = "import" /\ ~opts.pack
             \/ pc = "bins" /\ ~(proc = "pack" /\ opts.made)
             \/ pc = "append" /\ proc # "serve"
          /\ Off

\* the process is stopped or killed
Crash == pc # "off" /\ Off /\ UNCHANGED <<tables, faults, sessions>>

-----------------------------------------------------------------------------
Command == OpenServe \/ OpenPlan \/ OpenImport \/ OpenPack
Operator == AddCids \/ StartRunner \/ Pause \/ RetryFailed
Fetch(c) == Fetched(c) \/ FetchFailed(c)
Pass == ImportPiece \/ Wrap \/ WrapRefused \/ BuildBin \/ BinFailed
            \/ SaveAggregate \/ MarkOversized \/ PoolDrained \/ PassEnds

PlanNext == Command \/ Operator \/ (\E c \in Cids : Fetch(c)) \/ Pass \/ Crash

\* A fetch settles, for its streams time out; a pass runs on; nothing makes the
\* operator act or the process die.
Fairness == WF_planVars(Pass) /\ \A c \in Cids : WF_planVars(Fetch(c))

PlanSpec == PlanInit /\ [][PlanNext]_planVars
PlanFairSpec == PlanSpec /\ Fairness

-----------------------------------------------------------------------------
(***************************************************************************)
(* Correctness.                                                            *)
(***************************************************************************)
\* A source CID is a member of at most one sub-piece, though the packed and
\* the passthrough path both draw on the done pieces, run after run, and a
\* kill may cut either short (db.ts, lockedSubPieceMemberCids: "cannot be
\* re-packed").
SourceInOneSubPiece ==
    \A s, t \in Built : s # t => subs[s] \cap subs[t] = {}

\* A sub-piece is committed under one root: no two aggregates share it, though
\* every append plans anew from what earlier ones, some cut short, have left
\* (migrate.ts, appendAggregatesFromFreeSubPieces).
SubPieceInOneAggregate ==
    \A i, j \in DOMAIN aggs : i # j => aggs[i].members \cap aggs[j].members = {}

\* The padded members of an aggregate fit the piece size it is recorded with,
\* whatever piece size the command ran with (aggregate.ts, packAggregates).
AggregatesFit ==
    \A i \in DOMAIN aggs : Total([s \in aggs[i].members |-> Padded(s)]) <= aggs[i].budget

\* Over any sequence of commands, cut short anywhere, the plan nests: each
\* source in one sub-piece, each sub-piece in one aggregate, each aggregate
\* within its size.
PlanNests == SourceInOneSubPiece /\ SubPieceInOneAggregate /\ AggregatesFit

\* While serve runs, the rows marked processing are exactly those being
\* fetched, at most concurrency of them: none is fetched twice, none is
\* stranded by a kill before or by a pause (runner.ts, #kick).
ClaimsAreWorked ==
    proc = "serve" => /\ {c \in Cids : piece[c] = "processing"} = workers
                      /\ Cardinality(workers) <= Concurrency

\* When an append pass ends, every sub-piece is in an aggregate or its sources
\* are marked oversized; but for pack-cars, whose bins may fail, every done
\* piece is in a sub-piece; and the Runner that goes idle leaves nothing to
\* fetch (runner.ts, #repack; pack-cars.ts: "silently absent from the
\* migration").
DrainedIsPlanned ==
    pc = "append" /\ script = <<>> =>
        /\ \A s \in Built \ Aggregated : \A c \in subs[s] : piece[c] = "oversized"
        /\ proc # "pack" => DoneFree(piece) = {}
        /\ proc = "serve" => \A c \in Cids : piece[c] \notin {"pending", "processing"}

\* A running Runner settles: it drains and goes idle, or is paused or stopped;
\* unless two sources turn out to be one piece (runner.ts, #kick).
SamePiece == \E c \in DoneFree(piece) : <<rec[c]>> \in Built
RunnerSettles == state = "running" ~> (state # "running" \/ SamePiece)

\* buildExportManifest: the done pieces
DonePieces == {c \in Cids : piece[c] = "done"}
ExportManifest == [c \in DonePieces |-> rec[c]]

\* export-manifest.ts: "It re-imports into a fresh DB".  It does not hold when two
\* sources are one piece
ExportReimports == DonePieces # {} => ValidManifest(ExportManifest)

\* A packed CAR holds the bytes the commitments of its members were recorded
\* for (db.ts, recordPieceSuccess: "so pack-cars can later refuse to assemble
\* if the source gateway returns drifted bytes").
PackedAsRecorded ==
    \A s \in Built : LET order == Sorted(subs[s])
                     IN  s = [i \in DOMAIN order |-> rec[order[i]]]
=============================================================================
