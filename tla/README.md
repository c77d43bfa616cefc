# ipfs2foc: a verification project

ipfs2foc moves content addressed by IPFS CIDs to Filecoin Onchain Cloud: it
fetches each DAG as a CAR, computes its piece commitment, gets the bytes to one
or more storage providers, and adds the pieces to an on-chain data set. Bytes can
be fetched again and pulls are idempotent; an `AddPieces` transaction is neither.
Nearly everything that is hard about this program is about that call: to make it
once, to find out whether it landed after a kill, a timeout or an error, and to
let go of local bytes only when nothing will need them again. The project models
those parts first, then what surrounds them: how the bytes are fetched and packed, who
signs, and what the report says of the result.

Paths below are relative to `src/` of the repository.

## Inventory

| Component | State | Operations | Interacts with | What makes it correct |
|---|---|---|---|---|
| Direct upload, `packages/cli/src/direct-upload.ts` | `uploads` rows, staged CAR files | store, pull to secondaries, flush a batch, re-verify after a collection, evict, retry rounds, resume | providers, chain, database, disk | one add per piece and run, committed only with a landed add, bytes kept while needed, the run ends |
| Flush timer, `gc-window.ts`, `provider_windows` | window guess per provider, slowest commit | `shouldFlush`, margin, lowering | called between stores by direct upload | no parked piece is collected inside a sound guess; guesses only fall |
| Provider-pull submit, `submit-pdp.ts`, `pdp.ts` | `aggregates` rows, cached CARs | pull, park, add, confirm, resume by hash or by root, `reset-failed-aggregates`, `retry-unconfirmed-aggregates` | provider, chain, database, operator | one add per re-arm, no add of a root that landed, the cap, every row resolved |
| Serve daemon, `server.ts`, `session-submit.ts` | the job slot, the session key row, ingress state | grant, forget, submit, create a data set | runs `submit-pdp` in process, browser console, runner | one job at a time, the stored expiry is that of the stored key |
| Background runner and plan, `runner.ts`, `migrate.ts`, `aggregate.ts` | `pieces`, `sub_pieces`, `aggregate_members` | claim, compute, repack, pause and resume | database, gateways, serve daemon | each CID claimed once, each sub-piece in one aggregate, the queue drains |
| CAR packing, `pack-cars.ts` | `sub_pieces`, `sub_piece_members`, CAR files | plan bins, build, verify | database, gateways, disk | members once, bins within capacity, built only when the commitment matched |
| Report, `report.ts`, core `pdp-verifier.ts` | none of its own | page through the active pieces, read the rows, receipts, proof state, probe a sample, exit code | database, chain, index | `complete` and exit 0 are true of the chain, though it moves meanwhile |
| Core CAR source, `packages/core/src/car-stream-source.ts`, `car-export.ts` | the stream's reader, a bounded buffer, parked gets, fills, the walk | pump, get, gap-fill, walk, prefetch, tear down | gateways, browser, relay | the canonical order whatever arrives, settles, leaves nothing behind |
| Core helpers, `piece-aggregate.ts`, `manifest.ts` and others | none | aggregate root, manifest checks, parsing | all of the above | the root is that of the layout |
| Browser fetch, `app/src/origin-limiter.ts`, `hash-pool.ts`, `source-race.ts`, `commp.ts`, `provider-discovery.ts`, `bitswap-fallback.ts` | slots, worker leases, racing sources, the tally of answers, the rescue node | acquire and release, race, rescue, learn, cancel | each other | no slot or worker lost, losers torn down, a shift of provider noticed |
| Browser prepare, `app/src/prepare-store.ts`, `app.tsx`, `run-store.ts` | rows, counters, the saved run | run, retry a row or the failures, cancel, clear, save, restore | browser fetch, IndexedDB | rows at work have an attempt, a run settles its rows |
| Browser submit, `app/src/submit.ts`, `run-store.ts` | a persisted run record | presign, pull, add, confirm, defer, requeue, verify, resume | wallet, providers, chain | no piece lost or held twice, nothing recorded is posted again |
| Browser session, `app/src/session.ts`, `session-store.ts`, `wallet.ts`, `local-signing.tsx` | the session, its saved record, the wallet | grant, extend, revoke, resume, hand over to the daemon | wallet, chain, submit, serve daemon | presigns the chain honours, no authorization forgotten |
| CLI front end, redirect server, relay, console screens | little or none | parsing, redirects, screens | all of the above | not state machines of interest |

How they interact. The serve daemon calls `runSubmitPdp` in its own process and
event loop; the runner appends the aggregates it submits. The upload loop, the
submit loop and the report share one SQLite file whose statements are atomic and
durable. Providers, their garbage collector and the chain act on their own time.
Providers fetch bytes from the redirect server or relay. The browser app has its
own fetch and upload logic and keeps its state in IndexedDB; it hands its session key to
a local daemon when there is one.

What is hard: a kill between any two durable writes; an answer lost after its
effect; an add that lands late; a row whose half-updated columns steer the next
run; two runs at once; collection of parked bytes while a batch waits; a slot or
worker handed over as its waiter leaves; a wallet that changes during a flow; a data
set that moves while the report reads it. `PROJECT.json` lists these hazards by line.

## Modules

| Module | Models | Depends on |
|---|---|---|
| `AddLedger` | what one provider's books promise about on-chain adds | |
| `DirectUpload` | `runDirectUpload` over `uploads` | implements `AddLedger` |
| `FlushWindow` | the clock side of the same loop | |
| `SubmitPdp` | `runSubmitPdp` over `aggregates`, with the two recovery commands | implements `AddLedger` |
| `MigratePlan` | `pieces`, `sub_pieces` and `aggregates` before submission: the Runner, `plan`, `import-manifest`, `pack-cars`, the preparation of `upload` | |
| `ServeDaemon` | the session-key row, the routes and the chain jobs of `serve` | |
| `BrowserSubmit` | `runSubmit` of the console over its saved record | |
| `BrowserSession` | the console's session key, its record and the wallet | |
| `PrepareRun` | the console's prepare rows, pool and saved run | |
| `FetchStack` | origin slots, the race of sources, hash workers, the watchdog | |
| `SourceDiscovery` | what the console learns from routing lookups (operators) | |
| `CarStream` | one export of a canonical CAR over a streamed source | |
| `Report` | `report` over the database and a moving data set | |
| `PieceAggregate` | the root of an aggregate (operators) | |
| `MC...` | constants for TLC; `MCReport` and `MCFetchStack` also check `PieceAggregate` and `SourceDiscovery`, `MCCarStream` the reference order of `CarStream` | |
| `DirectUploadProofs`, `SubmitPdpProofs` | theorems, those of the refinement too | `AddLedger` |
| `ServeDaemonProofs` | theorems about the daemon and about the plan its Runner makes | `MigratePlan` |
| `FetchStackProofs` | theorems about the fetches, about the rows that start them and about the export of a CAR | `PrepareRun`, `CarStream` |
| `FlushWindowProofs`, `BrowserSubmitProofs`, `BrowserSessionProofs`, `ReportProofs` | theorems | |

`MigratePlan`, `PrepareRun` and `CarStream` name their specifications `PlanSpec`, `RunSpec`
and `ExportSpec` (and so for `PlanInit`, `RunTypeOK` and the rest), since a module of
theorems extends each of them together with its neighbour.

**AddLedger** has three pieces of state: what the local books say of a piece
(`unsent`, `attempted`, `confirmed`), which pieces an add was broadcast for, and
which landed. A piece is broadcast only under a durable `attempted` mark, is
confirmed only once an add landed, and is confirmed for ever; an attempt may be
withdrawn, and a landed add may be found out later. It allows a second add after a
withdrawal, because the code does (see the findings).

**DirectUpload** has `status`, `txHash` and the `parked_at` order from the `uploads`
table, the staged files, what each provider holds, the transactions, and the
process's own variables, which a `Crash` resets. There is one action per await whose
outcome the code branches on and one per durable write that a kill can separate from
the next, so a kill can fall between the breadcrumb (`FlushStart`), the broadcast
(`CommitAccepted`), the hash (`OnSubmitted`) and each row of the commit
(`MarkCommitted`). Failures are counted by `faults`: collection of parked bytes, a
failed pull, a failed presence probe, a refused or lost or timed-out commit, a
reverted add, a `PiecesAdded` event that cannot be read, a rejection that names the
wrong piece. The timer may ask for a flush at any moment.

**FlushWindow** keeps only times: when each piece was parked, what the loop did since,
which window it believes in. It is where the order of checks against the clock
matters; `DirectUpload` leaves the clock free.

**SubmitPdp** has the `aggregates` columns that steer the code (`status`, `tx_hash`,
whether there is a `committed_block`), the cached CARs, the transactions, and per
process the row in hand and the snapshot of rows it read at its start. All six ways of
writing `committed` are actions of their own, because they differ in what they write
and whether they evict. The two recovery commands run while no process does.

**MigratePlan** has the rows of `pieces` (status, recorded commitment), the sub-pieces
with their members, the aggregates with theirs, and the command that runs. Fetches are
concurrent and settle in any order; the Runner claims rows (`Kick`) where `plan` works
through a snapshot (`PoolNext`). What follows a drained pool is a pass, a list of writes
computed from the tables when the pass begins, as the code reads them once and then
loops: `Wrap`, `SaveAggregate`, `MarkOversized`, `BuildBin` are its writes, each one
transaction, and a kill may fall between any two. The commitment recorded is that of the
canonical CAR, from the gateways in order with the fallback and its error categories;
`pack-cars` assembles what a gateway serves on a second fetch. Commands run one at a
time; the aggregates' later life is `SubmitPdp`'s.

**ServeDaemon** has one action per stretch of a handler between two awaits, on a discrete
clock with the chain's grants beside it. `stored` is the session-key row together with a
history component: the key its expiry was read for. `jobs` are all jobs of the process
and `shown` the one the slot holds, because a job that lost the slot still runs. A submit
job is its presigns and adds; the rest of it is `SubmitPdp`.

**BrowserSubmit** has the record on disk and the one in memory. An awaited write is part
of the action that calls it; the write that `onSubmitted` starts without awaiting it is an
action of its own (`HashWritten`), so a tab may close before it. Secondaries run
concurrently. Records of the old shape, requeueing, `verifyContext` overlapping a run and
pieces added by somebody else are there too.

**BrowserSession** has, per account, what the chain authorizes and what IndexedDB holds,
and in the page the session, the flow a button started and the resumes under way. A flow
works on the wallet and session of the render its button was clicked in, which is where
most of its hazards come from. A login on chain replaces the expiry there is, so an
extension can end earlier than the grant it extends. History: `withdrawn` has the
expiries that were taken back so or by a revocation, `resumed` says that the session
came from a resume, `slipped` that something happened which may lose a key.

**PrepareRun** has the store's live states and results, its counters and lists as the code
keeps them (so that they can be wrong), the attempts in flight, the pool and the saved
run. **FetchStack** is what the attempts share: each source of a root is at one point of
acquiring, opening, yielding, streaming, closing, and a freed slot goes straight to the
head of the queue, as in the code. **SourceDiscovery** gives the sources as operators on
the tally; every sequence of up to nine answers is checked as an assumption of
`MCFetchStack`, and calls of one run against the number of lookups they may cost.

**CarStream** lets the gateway send any stream of a given set, pauses at the consumer's
and the network's pace, and follows the pump, the buffer with its cap, parked gets, fills,
the depth-first walk with its window of prefetches, and the teardown from either side. The
reference (`Canonical`) is depth-first pre-order, given block by block: the next one is the
first link not yet visited of the latest visited block that has one (`Preorder`).
`MCCarStream` checks it against the recursive definition for every graph of four blocks
with up to two links each.

**Report** reads as the code does: page by page with an await between, the database in one
turn, then receipts, proof state and probes. Rows and the data set change at the awaits.
**PieceAggregate** represents a commitment by what it commits to, so that the root the
code folds up can be compared with the layout it is meant to be; it is checked as an
assumption of `MCReport`.

## Runs

| Run | Question | Bounds |
|---|---|---|
| `upload_loop` | one run: one add each, the run ends | 3 pieces, 2 copies, batches of 2, any 2 of 8 fault kinds |
| `upload_resume` | restarts: receipts, refinement, eviction, settling | 2 pieces, 2 copies, batches of 2, 3 starts, any 2 of 6 fault kinds |
| `flush_window` | the timer and the guess | 2 copies, 4 pieces, batches of 3, guesses 1, 6, 8 against windows 2, 6, 8, 2 refusals |
| `submit_pdp` | restarts and resets: adds, eviction, refinement, resolution | 3 aggregates (one undersized), cap 2, 3 starts, any 2 of 9 fault kinds, 1 re-arm each |
| `migrate_plan` | commands over one database: nesting, claims, completeness, ends | 3 CIDs of which 2 are one piece, 2 gateways, limit 2, piece sizes 2 and 8, bin sizes 1 and 5, 3 commands, 1 failed fetch or build |
| `serve_daemon` | adds inside the margin, who writes the key row, the slot comes free | 2 keys, 3 requests, margin 1, clock to 3, 1 presign a job, 1 restart |
| `browser_submit` | conservation, commits on chain, no second post, completion | 2 copies, 3 pieces in chunks of 2, 3 runs, any 2 of 10 fault kinds, 1 requeue, fresh and old records |
| `car_export` | order, meaning of the gap-fill count, settling; the reference order | 7 blocks with a shared and an identity block, buffer 1, window 2, every stream one omission, cut, swap, repeat or damage away |
| `fetch_stack` | slots, workers, every piece settles; learned sources | 3 pieces, 2 origins of 2 slots, breaker at 2, 1 worker, 1 silent worker |
| `prepare_run` | rows at work, a run settles its rows | 2 rows, 1 worker, byte cap 1, 3 attempts, 1 reload |
| `browser_session` | resumes, presigns, authorizations | 2 accounts, 2 keys, grants of 2 or 3, extensions of 2, margin 1, clock to 2, 2 wallet changes or reloads |
| `report` | what `complete`, exit 0 and a full sample mean; aggregate roots | 2 CIDs, an aggregate and an upload that share members or not, pages of 1, samples of all or of 2, 2 epochs |

All hold. Their properties and what each shows are in `PROJECT.json`.

Why the bounds are enough for what they show. Two copies are a primary and a
secondary, and the code treats all secondaries alike. Three pieces with batches of two
give full batches, a rest, and pieces that are stored while others wait. Two faults
give every pair: a lost answer and then a kill, a collection and then a failed probe.
Three starts let a run inherit from one that inherited. A cap of two with three
aggregates makes the cap bind. `TxIds` is large enough that no behaviour runs out of
transactions before it runs out of faults; liveness would otherwise fail in TLC.
Within one run three retry rounds are the code's own constant. In `migrate_plan` the
three commands are any sequence, so a third meets what a killed second left of the
first; contents of size 2 and 3 pad to 2 and 4, so piece size 2 makes one oversized and
takes one, and 8 takes several; a bin of 5 holds two and a bin of 1 none, which is the
way to passthroughs and to single bins.

Three requests of the daemon are two that overlap and one that finds what they left; a
clock of three with a margin of one lets a grant run out after, at and before the margin.
A buffer of one block under a window of two is the smallest in which a complete stream
overruns the walk. Three pieces and two slots make a queue with somebody behind its head;
one worker for three pieces does the same in the pool. Three attempts are one by the pool
and two that overlap it. In `browser_session` a clock of two is the margin and one tick
past it, and with grants of three and extensions of two an extension may shorten a grant. The two units of `report` are of the two kinds the database knows, apart or over
the same CID; rows and pieces change until the report has read them (`Open`) and the epoch
and the proofs until it has asked for the last answer (`Moving`): what changes later it
cannot see. No deadlock is looked for: every behaviour stops when its bounded starts,
requests, faults or changes are used up.

**Fairness.** `FairSpec` of `DirectUpload` and `SubmitPdp` asks weak fairness of the
process's own steps (a single-threaded event loop runs what it can, and every await in
the loops ends in a result or an error: either is a step) and that a pending
transaction is mined. `BrowserSubmit` asks the same of each copy's loop; `ServeDaemon`
of each job, whose awaits carry timeouts or bounded polls; `MigratePlan` of a pass and of
each fetch (its HTTP client and its fallback time out). `CarStream` asks that the gateway
sends or the connection ends, that a single fetch returns within its retries, and that a
consumer reads on until it stops. `FetchStack` asks that requests are answered and that
workers answer, save those that went silent, whose pieces the watchdog ends. `PrepareRun`
asks that the pool's workers loop and that each attempt ends, which is what `FetchStack`
shows. Nothing is asked of starts, kills, operators, wallets, aborts or faults, and
faults are bounded, so liveness reads: once nothing more goes wrong, a run that starts
settles everything (`CleanRunSettles`, `CleanRunResolves`, `CleanRunCompletes`), and each
run ends (`RunEnds`). `RunnerSettles` excepts two sources that are one piece, which wedge
the Runner, and `CleanRunResolves` a run that starts at the in-flight cap (see the
findings). `flush_window`, `browser_session` and `report` check safety only.

**Findings.** `PROJECT.json` lists where the code does something else than a comment, a
doc or a message says, each with both lines. Many are stated as definitions that do
*not* hold and are in no configuration; put in one as an INVARIANT or PROPERTY (add
`overlap` to the faults where two browser actions overlap), TLC prints the behaviour:

- `DirectUpload`: `NoDoubleCommit` (a piece is committed twice after a kill between the
  broadcast and the write of its hash), `QueuedHonoursReceipt` (a re-queued row's receipt
  is not looked at), `CommittedIsFinal`, `EvictedMeansEveryCopy` (a CAR goes with one of
  two copies made);
- `SubmitPdp`: `TimedOutResumes` (timed-out rows at the cap block their own resume),
  `ResetIsRetried` (a reset row whose add reverted is never added again);
- `MigratePlan`: `PackedAsRecorded` (a CAR cut short on its second fetch is packed and
  shipped), `ExportReimports` (two names of one CID make an export nobody can import);
- `ServeDaemon`: `OneRunningJob` (two POSTs that overlap both start a job),
  `StoredExpiryIsItsKeys`;
- `BrowserSubmit`: `NeverReposts`, and with `overlap` `CommittedIsFinal`; `BrowserSession`: `SessionIsWallets` (a wallet switched
  during a flow ends with the other account's session), `NoPresignNearExpiry` (an
  extension ends before the grant it extends, and a run presigns on from the longer one);
- `CarStream`: `GapFillMeansBrokenCar` (a healthy stream that outruns the walk counts as
  broken), `InflightWithinLookahead`; `FetchStack`: `FailedClaimsComeBack`;
- `PrepareRun`: `CountsMatchRows`, `FailedRowsAreListed`, `WorkingRowsCanBeCancelled`;
- `Report`: `SweepIsExhaustive`; `SourceDiscovery`: `DroppedWithinStripe` (an operator on
  histories: quantify it in an ASSUME).

## Theorems

All are for every value of the constants the modules' assumptions allow. Every safety
invariant that a run checks is proved, and so are the action properties and both
refinements; theorems about submits that take less concurrency than the modules allow
(`OneProc`, no `overlap`) do so because the code does not keep the property otherwise.

*Direct upload.* `CommittedIsOnChain` is not inductive: that the row about to be marked
names a landed add follows from where the process is. `IInv` adds that the batch in hand
is marked (`BatchMarked`) and carried by the transaction in hand (`BatchCarried`), that a
recorded hash is of an add of this row (`HashWellFormed`), what reconciliation and retry
work on, and that no secondary has a row where the primary has none (`PrimaryRowFirst`).
The last one is what makes eviction safe: a CAR goes when all *existing* rows are
committed, and the primary's row is the one that could need the bytes. For
`OneAddPerRun` the invariant `RunInv` adds that an add of this run leaves its rows
marked or committed until the run ends, and that a run sends nothing before it has
reconciled. The refinement maps each step to a step of `AddLedger` or a stutter; only
writes of the primary's rows are visible there.

*Submit.* Two processes each work on a snapshot that the other outdates, and TLC, given
`Procs = {1, 2}`, shows what that breaks: a row one process is about to add is added by the
other too (`OneAddPerRearm`, `AggregateLedger`), a row that was committed and evicted is
pulled again (`EvictedIsCommitted`), and a late hash replaces that of a commit
(`CommittedIsOnChain`, and only if the provider computed another root). These are proved
under `OneProc`: at most one process. What a process knows of the *chain* does not go out
of date, and so the rest needs no `OneProc`: `GuardedAdd`, since each process looks at the
active pieces right before its add, `CommittedAdded`, and `CommittedOnChainByAny`, which is
`CommittedIsOnChain` while the roots agree. Their invariant, `SharedInv`, says of each
process that the transaction it waits for adds its row and that whatever has landed of the
row since its look landed after its run began. For one process `IInv` says that what the
snapshot says of a row not yet handled is still so (`SnapshotCurrent`), which status the
row in hand has at each point (`RowUnderWork`), that a row on its way to an add was not
added since its last re-arm (`NotAddedYet`), and that between the look at the active
pieces and the add nothing old turns up (`LookedFirst`). Under the mapping of the rows every write is one of `Attempt`, `Confirm`,
`Discover`, `Withdraw` or invisible (`RowMoves`); what has to be shown of each is that it
never meets a committed row and that a commit has a landed add behind it.

*Window.* `WindowNeverRises` follows from the minimum in `providerWindowMs` and the
conflict clause of `lowerProviderWindow`, whatever `lowerWindowOnGc` returns.
`NoLossInsideWindow` is a worst-case sum. `Spent(c)` is the longest that can have passed
since the loop last found context `c` not due, told by where the loop stands: the stores,
pulls and commits made since, each at its longest. `AgeInv` says that no piece of `c` is
older than the window less the margin plus `Spent(c)`, and `Spent(c)` never exceeds a turn,
which fits in the margin. That each context is checked once per piece parked (`TurnInv`)
bounds what one batch leaves behind. The proof needs the margin to be *below* the assumed
window: with the two equal the timer is due at once, one tick too late.

*Serve daemon.* `AddsInsideMarginAreAuthorized` looks at one add; what makes it hold is
that every copy of a session row, in the database, in a request and in a job, is backed
by the chain. `RowsBacked` says so: an expiry that was read for the row's own key is at
most what the key was granted, since grants only grow (`Extend`) until the key is revoked,
and a job that holds a presign took it while the expiry was beyond the margin. The two
exceptions in the property are the two ways out: a revoked key, and an expiry that a
late presign of an older key wrote into the row of a newer one. `KeysEnter` rests on the
same invariant.

*Plan.* The writes of a pass are computed from the tables once, and a kill may fall between
any two of them; what makes `PlanNests` hold is a relation between the tables and the
writes still to come. `PInv` says that no two writes of a wrap or bin pass take the same
source and none takes a wrapped one (`Takeable`), that the saves of an append pass are
disjoint, within the size and of free sub-pieces (`Savable`), and for `DrainedIsPlanned`
that each free piece has its write (`WrapPending`), and each free sub-piece is in a save or
all its sources are marked (`Accounted`). When a pass begins these follow from the two
packers: lemmas over their folds show that `packAggregates` and `planBins` place every
unit once and within the size. Each write then removes itself and what it takes together.

*Fetch stack.* The invariant joins `SlotsConserved` and `WorkersConserved` with two facts
about the attempts: a stream runs only in a race that is won (`RaceOK`), so that its end
leaves no wait behind, and a job is held exactly while its piece is hashed (`AttemptOf`),
so that a finish or a cancel releases a worker that is leased. Each lemma about slots
(`SlotsTaken`, `SlotsAwaited`, `SlotsAborted`, `SlotsFreed`, `SlotsHandedOver`) is about
one origin, and those about queues say what push, shift and splice keep. The routes, the
finite set of pieces and caps of at least one are all that is assumed. For the prepare
rows `WorkingRowsAreWorkedOn` is inductive with the types: each action that leaves a row
working also starts an attempt at it, and the end of an attempt settles its row.

*Browser submit.* Three records exist at a time: the stored one, the run's and the one an
on-chain check works on. `RecordsInv` says that each of them is sound: it parts the pieces,
what it calls done is on chain, and its hashes are of adds of the chunk they stand at.
`RunInv` ties each copy's loop to its chunk, so that carving, confirming and requeueing
work on the chunk they mean. The theorem `NoRepost` assumes that no check overlaps a
run (`"overlap" \notin FaultKinds`): with an overlap it is false (see the findings). Its
invariant adds that a recorded hash is in the stored record and in the run's (`HashInv`)
and that no later add of the copy has a piece of it (`NewestInv`). `CommitsAreFinal` makes
the same assumption, for the same reason: a check that overlaps a run writes back what it
read before the run's commits. What carries it is that the run's record is never behind the
stored one (`FInv`): every chunk committed on disk is committed in memory, at its place and
with its pieces, so that any write of the run's record, in order or late, keeps it.

*CAR export.* `ExportIsCanonical` holds whatever the stream brings, in what order, and
however far the prefetch has run ahead, since the walk alone decides what is written. The
invariant (`OrderInv`) says that the visited blocks are the first ones of `Preorder`, that
what was written is those of them that are kept, and that every place of the stack is owned
by a link of a visited block (`Owned`): from the top of the stack down the links are those
of ever earlier blocks and, within a block, ever later ones, and every link of a visited
block that is not itself visited still has a place. So the top of the stack is the next
block of the order or has been visited, and an empty stack means that nothing is left. The
set of blocks is assumed finite, as those of a root are; there may be any number of links,
shared blocks and repeated links. `GapFreeIsStreamed` is inductive with what the source
holds: while nothing was fetched singly, all that is ready, buffered or written came
verified out of the stream (`GapInv`).

*Browser session.* `PresignsAreBacked` follows from `BackedInv`: wherever an expiry is
carried (the session, a run's copy of it, a presign, a flow on its way) the chain grants
the key at least that, or the time is over, or it was taken back. `AuthorizationIsHeld`
says more than is seen at once, since a record may be read, wiped or overwritten by a
resume or a flow begun earlier: `KeptInv` adds, while nothing slipped, that a live
authorization is in its record or in the flow about to write it, that a session is
recorded, that a flow is the connected wallet's, and that a resume still wanted holds what
the record holds; `FreshInv` that a key not generated yet is nowhere.

*Report.* What a page showed had been added by then, and no later step of the set undoes
that: so what the report matched was added, although rows and pieces moved between the
reads (`AccountsInv`). `ZeroExitIsProven` rests on the order of the last reads (`ProofInv`):
the receipts come after every add that is counted, the proof state after the receipts, and
the last proven epoch never goes back. `SweepExhaustive` is about the probes: a stride over
the concatenated members of the matched units visits every position when it is one, and it
is one when as many are asked for as there are (`UnitStride`, `WholeSample`); a
concatenation holds the elements of its parts and nothing else (`FlattenElements`). So the
sample of an exhaustive sweep is all members of the matched units (`SweepInv`), of which the
answers then strike out one at a time.

**Only model-checked:** liveness, which is out of the prover's reach (`RunEnds`,
`CleanRunSettles`, `CleanRunResolves`, `RunnerSettles`, `SlotComesFree`,
`CleanRunCompletes`, `ExportSettles`, `EveryPieceSettles`, `RunSettlesItsRows`), and what
the assumptions of `MCReport`, `MCFetchStack` and `MCCarStream` check of pure functions:
`SourceDiscovery`, `PieceAggregate` and the depth-first search that `Preorder` is compared
with use RECURSIVE operators, and what they compute for every input is induction over data.
Type correctness, `StoreHasItsBytes`, the `CommittedIsFinal` of `BrowserSubmit` and
`CommittedWasAdded` are proved and in no run; TLC agrees with the last two, added to
`browser_submit.cfg` as a PROPERTY and to a `submit_pdp.cfg` of one aggregate and two
processes as an INVARIANT.

## Not modelled

- Two processes on one database: `SubmitPdp` allows several, and three of its theorems hold
  for them, but its runs take one; `ServeDaemon` shows that two jobs can be active at once.
- `pull_batch_attempts` and the observability columns, `failures()`, counts for display.
- Provider selection, the SDK's inner retries, sizes and rates of transfers.
- The browser's bitswap tier with its leased node, and `hedgeFetch`: the race ends with
  the community gateway, and a block fetched singly is one outcome.
- Payment readiness and funding, the local dashboard's polling, screens, telemetry.
- The redirect server and the relay (functions of a request; what the relay streams is
  `CarStream`), the cloudflared child process, `analyze`, option parsing, logs, layout.
- The report's discrepancy lines, CID-list parsing, `min-piece-guard`, URL building.

External code is modelled from its use: the chain as a set of transactions that are mined
once, the provider as a set of pieces that may be collected while no add refers to them,
`fetchAddPiecesEvent` as naming the root of a landed add unless it fails, a gateway as a
choice of one stream, the wallet as anything that may change between two awaits.

## Plan

1. Done: every component of the inventory with state of its own, with the exceptions
   above, each model-checked; every safety property of every run proved.
2. Proofs next: what `NoRepost` and `CommitsAreFinal` can say of checks that overlap a run;
   the layout of `PieceAggregate` without recursion. `BrowserSubmit` does not implement `AddLedger`, as
   it makes no durable mark before it posts; an abstract specification of its own would
   have to say what a run may post again.
3. Models next: the rescue node's lease under `FetchStack`; two `SubmitPdp` processes
   under `ServeDaemon`.
