--------------------------------- MODULE Report ---------------------------------
(***************************************************************************)
(* `ipfs2foc report` (report.ts, index.ts) over the database and the chain *)
(* reads of core's pdp-verifier.ts, while the data set goes on changing.   *)
(*                                                                         *)
(* A unit is a piece the database knows: an aggregate, or the upload of a  *)
(* sub-piece.  Its members are source CIDs, and two units may share one.   *)
(* The report awaits each page of the active pieces, then reads the        *)
(* database without an await, then awaits the receipts, the reads of the   *)
(* proof state (which go out together and are answered in any order) and   *)
(* the probes of the index; anything else may happen at each await.        *)
(***************************************************************************)
EXTENDS Integers, Sequences, FiniteSets, SequencesExt

CONSTANTS
    Cids,        \* rows of the pieces table
    Aggregates,  \* aggregates, in the order of idx
    Uploads,     \* rows of uploads, in the order they are read
    Layouts,     \* what the units may hold: for each, a sequence of CIDs without repetition
    Foreign,     \* a piece no row knows
    PageSize,    \* pieces per page
    SampleSizes, \* values of --ipni-sample; 0 is a report without --check-ipni
    MaxEpoch     \* where the chain stops

UnitsInOrder == Aggregates \o Uploads
Units == Range(UnitsInOrder)

ASSUME RowsAssumption ==
    /\ IsFiniteSet(Cids)
    /\ Aggregates \in Seq(Range(Aggregates)) /\ Uploads \in Seq(Range(Uploads))
ASSUME UnitsAssumption ==
    /\ Foreign \notin Units
    /\ \A layout \in Layouts :
         layout \in [Units -> Seq(Cids)] /\ \A u \in Units : IsInjective(layout[u])
ASSUME BoundAssumption ==
    PageSize \in Nat \ {0} /\ MaxEpoch \in Nat \ {0} /\ SampleSizes \subseteq Nat

VARIABLES
    Members,    \* the members of each unit, planned before the report
    row,        \* status of each source CID
    listed,     \* units whose row the report reads: uploads only once it names the data set
    hashed,     \* units whose row has the hash of their add
    active,     \* the active pieces on chain, in order
    addedAt,    \* epoch at which each of them was added; 0 before
    epoch,
    live,
    lastProven, \* getDataSetLastProvenEpoch; 0 is NO_PROVEN_EPOCH
    challenge,  \* getNextChallengeEpoch; 0 is null
    report      \* the report being made

dbVars == <<Members, row, listed, hashed>>
chainVars == <<active, addedAt, epoch, live, lastProven, challenge>>
vars == <<dbVars, chainVars, report>>

Statuses == {"pending", "done", "failed", "oversized"}
Pieces == Units \cup {Foreign}
Epochs == 0 .. MaxEpoch
\* live is read with proven: once it is false nothing is proven, and only exit 1 is left
Reads == {"proven", "challenge", "epoch"}

NoReport ==
    [pc |-> "none", offset |-> 0, seen |-> {}, matched |-> {}, counted |-> 0,
     short |-> TRUE, unaccounted |-> 0, foreign |-> 0, hashes |-> {}, maxAdd |-> 0, receipts |-> {},
     ask |-> {}, live |-> FALSE, proven |-> 0, challenge |-> 0, epoch |-> 0,
     whole |-> FALSE, sample |-> {}, left |-> {}, silent |-> FALSE, complete |-> FALSE, exit |-> -1]

Reports ==
    [pc : {"none", "pages", "rows", "receipts", "proof", "ipni", "done"},
     offset : Nat, seen : SUBSET Pieces, matched : SUBSET Units, counted : Nat,
     short : BOOLEAN, unaccounted : Nat, foreign : Nat, hashes : SUBSET Units,
     maxAdd : Epochs, receipts : SUBSET Units,
     ask : SUBSET Reads, live : BOOLEAN, proven : Epochs, challenge : 0 .. MaxEpoch + 1,
     epoch : Epochs, whole : BOOLEAN, sample : SUBSET Cids, left : SUBSET Cids,
     silent : BOOLEAN, complete : BOOLEAN, exit : {-1, 0, 1, 2}]

TypeOK ==
    /\ Members \in Layouts
    /\ row \in [Cids -> Statuses]
    /\ listed \subseteq Units /\ hashed \subseteq Units
    /\ active \in Seq(Pieces) /\ addedAt \in [Pieces -> Epochs]
    /\ {epoch, lastProven} \subseteq Epochs /\ challenge \in 0 .. MaxEpoch + 1
    /\ live \in BOOLEAN
    /\ report \in Reports

--------------------------------------------------------------------------------
(* Accounting *)

MembersOf(us) == UNION {Range(Members[u]) : u \in us}
WithStatus(ss) == Cardinality({c \in Cids : row[c] \in ss})

\* COUNT(DISTINCT member_cid)
CommittedCount(us) == Cardinality(MembersOf(us))

AtLeastZero(n) == IF n > 0 THEN n ELSE 0
PendingNotCommitted(committed) == AtLeastZero(WithStatus({"pending", "done"}) - committed)
Unaccounted(committed) ==
    AtLeastZero(Cardinality(Cids) - committed - PendingNotCommitted(committed)
                - WithStatus({"failed"}) - WithStatus({"oversized"}))

\* mutant: a CID too large to pack does not keep the migration open
AccountsCloseButOversized(committed) ==
    /\ Unaccounted(committed) = 0 /\ PendingNotCommitted(committed) = 0
    /\ WithStatus({"failed"}) = 0

\* The terms of computeReportComplete that the database decides
AccountsClose(committed) ==
    /\ Unaccounted(committed) = 0 /\ PendingNotCommitted(committed) = 0
    /\ WithStatus({"failed"}) = 0 /\ WithStatus({"oversized"}) = 0

--------------------------------------------------------------------------------
(* The sample *)

\* The members of the units in the order the report goes through them
InOrder(us) == [i \in DOMAIN UnitsInOrder |->
                   IF UnitsInOrder[i] \in us THEN Members[UnitsInOrder[i]] ELSE <<>>]
Listing(us) == FlattenSeq(InOrder(us))

SampleCount(population, n) == IF n >= population THEN population ELSE n

\* mutant: positions are taken modulo the first unit
SampleOfFirst(us, population, n) ==
    LET first == Members[SelectSeq(UnitsInOrder, LAMBDA u : u \in us)[1]]
    IN  {c \in Cids : \E i \in 0 .. SampleCount(population, n) - 1 :
            c = first[1 + (((i * population) \div SampleCount(population, n)) % Len(first))]}

\* A stride over the listing of all units
CollectSample(us, population, n) ==
    {c \in Cids : \E i \in 0 .. SampleCount(population, n) - 1 :
        c = Listing(us)[1 + ((i * population) \div SampleCount(population, n))]}

--------------------------------------------------------------------------------
(* The report *)

Begin ==
    /\ report.pc = "none"
    /\ report' = [NoReport EXCEPT !.pc = "pages"]
    /\ UNCHANGED <<dbVars, chainVars>>

Page == {active[i] : i \in DOMAIN active \cap (report.offset + 1 .. report.offset + PageSize)}
HasMore == Len(active) > report.offset + PageSize

\* One page of getActivePieces
ReadPage ==
    /\ report.pc = "pages" /\ live
    /\ report' = [report EXCEPT !.seen = @ \cup Page, !.offset = @ + PageSize,
                                !.pc = IF HasMore THEN "pages" ELSE "rows"]
    /\ UNCHANGED <<dbVars, chainVars>>

\* A read the chain refuses (a deleted data set has no pieces to read) or nobody
\* answers: the command throws
ReadFails ==
    /\ report.pc \in {"pages", "proof"}
    /\ report' = [NoReport EXCEPT !.pc = "done", !.exit = 1]
    /\ UNCHANGED <<dbVars, chainVars>>

OnChain == Units \cap report.seen \cap listed

\* Everything the report takes from the database, in one turn
ReadRows ==
    /\ report.pc = "rows"
    /\ LET committed == CommittedCount(OnChain)
       IN report' = [report EXCEPT
              !.pc = "receipts", !.seen = {}, !.offset = 0,
              !.matched = OnChain,
              !.counted = committed,
              !.short = ~ AccountsClose(committed), !.unaccounted = Unaccounted(committed),
              !.foreign = Cardinality(report.seen \ listed),
              !.hashes = OnChain \cap hashed]
    /\ UNCHANGED <<dbVars, chainVars>>

\* mutant: the epoch of the first add
EarliestOf(us) == IF us = {} THEN 0 ELSE CHOOSE e \in {addedAt[u] : u \in us} :
                                           \A u \in us : addedAt[u] >= e

LatestOf(us) == IF us = {} THEN 0 ELSE CHOOSE e \in {addedAt[u] : u \in us} :
                                         \A u \in us : addedAt[u] <= e

\* maxBlockOfTxHashes: receipts that cannot be read are skipped
ReadReceipts(got) ==
    /\ report.pc = "receipts"
    /\ report' = [report EXCEPT !.pc = "proof", !.hashes = {}, !.receipts = got,
                                !.maxAdd = LatestOf(got), !.ask = Reads]
    /\ UNCHANGED <<dbVars, chainVars>>

\* One of the reads of dataSetProofHealth is answered
ReadProof(r) ==
    /\ report.pc = "proof" /\ r \in report.ask
    /\ report' = [report EXCEPT !.ask = @ \ {r},
           !.live = IF r = "proven" THEN live ELSE @,
           !.proven = IF r = "proven" THEN lastProven ELSE @,
           !.challenge = IF r = "challenge" THEN challenge ELSE @,
           !.epoch = IF r = "epoch" THEN epoch ELSE @]
    /\ UNCHANGED <<dbVars, chainVars>>

ProvenSinceAdd == report.proven # 0 /\ report.proven >= report.maxAdd
InGoodStanding == report.challenge = 0 \/ report.challenge >= report.epoch

\* computeReportComplete
Complete == ~ report.short /\ report.foreign = 0 /\ ProvenSinceAdd /\ InGoodStanding

\* The verdict, and the CIDs to look up in the index; n = 0: nothing is looked up
Assess(n) ==
    /\ report.pc = "proof" /\ report.ask = {}
    /\ LET sample == IF n = 0 \/ report.counted = 0 THEN {}
                     ELSE CollectSample(report.matched, report.counted, n)
       IN report' = [report EXCEPT !.pc = "ipni", !.complete = Complete,
              !.maxAdd = 0, !.proven = 0, !.challenge = 0, !.epoch = 0,
              !.whole = n >= report.counted, !.sample = sample, !.left = sample]
    /\ UNCHANGED <<dbVars, chainVars>>

\* A probe is answered; anything but a provider record, a failure too, is a "no"
Probe(c) ==
    /\ report.pc = "ipni" /\ c \in report.left
    /\ \E says \in BOOLEAN :
           report' = [report EXCEPT !.left = @ \ {c}, !.silent = @ \/ ~ says]
    /\ UNCHANGED <<dbVars, chainVars>>

ExitCode(allow) ==
    IF (report.foreign > 0 /\ ~ allow) \/ report.unaccounted > 0 \/ ~ report.live THEN 1
    ELSE IF ~ report.complete \/ report.silent THEN 2 ELSE 0

Exit(allow) ==
    /\ report.pc = "ipni" /\ report.left = {}
    /\ report' = [report EXCEPT !.pc = "done", !.exit = ExitCode(allow)]
    /\ UNCHANGED <<dbVars, chainVars>>

--------------------------------------------------------------------------------
(* Meanwhile: the other commands, the provider, the chain *)

\* Bound: one report; rows and pieces change while it has yet to read them, the rest
\* also while it awaits the proof state
Open == report.pc \in {"none", "pages", "rows"}
Moving == Open \/ report.ask # {}

Settles(c, s) ==
    /\ Open /\ row[c] = "pending"
    /\ row' = [row EXCEPT ![c] = s]
    /\ UNCHANGED <<Members, listed, hashed, chainVars, report>>

Added(p) ==
    /\ Open /\ live /\ addedAt[p] = 0
    /\ active' = Append(active, p) /\ addedAt' = [addedAt EXCEPT ![p] = epoch]
    /\ UNCHANGED <<dbVars, epoch, live, lastProven, challenge, report>>

Lands(u) ==
    /\ \A c \in Range(Members[u]) : row[c] \in {"done", "oversized"}
    /\ Added(u)
ForeignAdd == Added(Foreign)

\* Before the add or after it, when another command finds it landed
Listed(u) ==
    /\ Open /\ u \notin listed /\ \A c \in Range(Members[u]) : row[c] \in {"done", "oversized"}
    /\ listed' = listed \cup {u}
    /\ UNCHANGED <<Members, row, hashed, chainVars, report>>

\* The hash is recorded, or never: a kill, or an add found already on chain
Hashed(u) ==
    /\ Open /\ u \notin hashed /\ addedAt[u] > 0
    /\ hashed' = hashed \cup {u}
    /\ UNCHANGED <<Members, row, listed, chainVars, report>>

Tick ==
    /\ Moving /\ epoch < MaxEpoch
    /\ epoch' = epoch + 1
    /\ UNCHANGED <<dbVars, active, addedAt, live, lastProven, challenge, report>>

\* Proving is activated: lastProven becomes the epoch of the activation
\* (docs/onchain.md:95-97)
Activated ==
    /\ Moving /\ live /\ challenge = 0 /\ active # <<>>
    /\ lastProven' = epoch /\ challenge' = epoch + 1
    /\ UNCHANGED <<dbVars, active, addedAt, epoch, live, report>>

Proves ==
    /\ Moving /\ live /\ challenge # 0 /\ epoch = challenge
    /\ lastProven' = epoch /\ challenge' = epoch + 1
    /\ UNCHANGED <<dbVars, active, addedAt, epoch, live, report>>

Deleted ==
    /\ Moving /\ live
    /\ live' = FALSE /\ challenge' = 0
    /\ UNCHANGED <<dbVars, active, addedAt, epoch, lastProven, report>>

Init ==
    /\ Members \in Layouts
    /\ row = [c \in Cids |-> "pending"]
    /\ listed = Range(Aggregates) /\ hashed = {}
    /\ active = <<>> /\ addedAt = [p \in Pieces |-> 0]
    /\ epoch = 1 /\ live = TRUE /\ lastProven = 0 /\ challenge = 0
    /\ report = NoReport

Reporting ==
    \/ Begin \/ ReadPage \/ ReadFails \/ ReadRows
    \/ \E got \in SUBSET report.hashes : ReadReceipts(got)
    \/ \E r \in Reads : ReadProof(r)
    \/ \E n \in SampleSizes : Assess(n)
    \/ \E c \in Cids : Probe(c)
    \/ \E allow \in BOOLEAN : Exit(allow)

Meanwhile ==
    \/ \E c \in Cids, s \in Statuses \ {"pending"} : Settles(c, s)
    \/ \E u \in Units : Lands(u) \/ Listed(u) \/ Hashed(u)
    \/ ForeignAdd
    \/ Tick \/ Activated \/ Proves \/ Deleted

Next == Reporting \/ Meanwhile

Spec == Init /\ [][Next]_vars

--------------------------------------------------------------------------------
(* Properties *)

\* A report that calls the migration complete is right about every input: each CID
\* of the database is in a piece that is active on chain, whatever was added while
\* the pages were read and however units overlap (report.ts:196-204)
CompleteMeansOnChain ==
    report.complete => \A c \in Cids : \E u \in Units : c \in Range(Members[u]) /\ addedAt[u] > 0

\* Exit 0 means that the last proven epoch is not before any add the report counted,
\* although pieces were added while it ran; when no hash is missing and every
\* receipt was read (report.ts:329-334)
ZeroExitIsProven ==
    report.exit = 0 /\ report.receipts = report.matched =>
        \A u \in report.matched : addedAt[u] <= lastProven

\* Exit 0 of an exhaustive sweep means that every counted CID was looked up and had a
\* provider record, when no CID is in two of the counted units (report.ts:48)
ExhaustiveSweep ==
    /\ report.exit = 0 /\ report.whole /\ report.sample # {}
    /\ Len(Listing(report.matched)) = report.counted
    => report.sample = MembersOf(report.matched)

\* report.ts:48: an `exhaustive sweep`.  It does not hold when two units share a CID:
\* the stride then ends before the listing does
SweepIsExhaustive ==
    report.exit = 0 /\ report.whole /\ report.sample # {}
        => report.sample = MembersOf(report.matched)
================================================================================
