------------------------------- MODULE ReportProofs -------------------------------
(***************************************************************************)
(* What the report says, for any database, layout, page size and chain.    *)
(***************************************************************************)
EXTENDS Report, FiniteSetTheorems, SequenceTheorems, WellFoundedInduction, TLAPS

--------------------------------------------------------------------------------
(* The inductive invariant *)

\* The chain: what was added was added at an epoch, and nothing is proven ahead of time
ChainInv ==
    /\ epoch > 0 /\ lastProven <= epoch
    /\ \A i \in DOMAIN active : addedAt[active[i]] > 0

\* The accounts: what the pages showed and what the report counts was added before, and
\* the accounts close only over pieces that hold every CID
AccountsInv ==
    /\ \A p \in report.seen : addedAt[p] > 0
    /\ \A u \in report.matched : addedAt[u] > 0
    /\ ~ report.short => Cids \subseteq MembersOf(report.matched)
    /\ report.complete => ~ report.short

\* The proof: no add is made once receipts are read, the newest of them is as new as each,
\* and the last proven epoch that was read has not gone back since
ProofInv ==
    /\ Open => report.receipts = {}
    /\ report.pc \in {"none", "pages", "rows", "receipts", "proof"} =>
          ~ report.complete /\ report.exit # 0
    /\ report.pc \in {"none", "pages", "rows", "receipts", "ipni", "done"} => report.ask = {}
    /\ report.pc = "proof" => \A u \in report.receipts : addedAt[u] <= report.maxAdd
    /\ report.proven <= lastProven
    /\ report.complete => \A u \in report.receipts : addedAt[u] <= lastProven
    /\ report.exit = 0 => report.complete

\* The sample: nothing is sampled before the verdict, and what an exhaustive sweep samples
\* is what the report counts
SweepInv ==
    /\ report.pc \notin {"ipni", "done"} => report.sample = {}
    /\ /\ report.whole /\ report.sample # {}
       /\ Len(Listing(report.matched)) = report.counted
       => report.sample = MembersOf(report.matched)

IInv == TypeOK /\ ChainInv /\ AccountsInv /\ ProofInv /\ SweepInv

--------------------------------------------------------------------------------
(* The operators of the model *)

LEMMA UnitsArePieces == Units \subseteq Pieces
  BY DEF Pieces

LEMMA FiniteUnits == IsFiniteSet(Cids) /\ 0 \in Epochs /\ \A e \in Epochs : e \in Nat
  BY RowsAssumption, BoundAssumption DEF Epochs

\* Every aggregate is a unit, and there are finitely many pieces
LEMMA PiecesFinite == IsFiniteSet(Pieces) /\ Range(Aggregates) \subseteq Units
<1> DEFINE All == Aggregates \o Uploads
           Either == Range(Aggregates) \cup Range(Uploads)
<1>1. Aggregates \in Seq(Either) /\ Uploads \in Seq(Either)
  BY RowsAssumption, SeqMonotonic
<1>2. All \in Seq(Either) /\ Range(All) = Range(Aggregates) \cup Range(Uploads)
  <2> HIDE DEF Either
  <2> QED BY <1>1, ConcatProperties, RangeConcatenation
<1>3. IsFiniteSet(Units)
  <2>1. All \in [1 .. Len(All) -> Range(All)] /\ Len(All) \in Nat
    <3> HIDE DEF Either, All
    <3> QED BY <1>2, LenProperties DEF Range
  <2>2. All \in Surjection(1 .. Len(All), Range(All))
    <3> HIDE DEF All
    <3> QED BY <2>1 DEF Surjection, Range
  <2>3. IsFiniteSet(1 .. Len(All))
    BY <2>1, FS_Interval
  <2> QED BY <2>2, <2>3, FS_Surjection DEF Units, UnitsInOrder
<1>4. IsFiniteSet(Pieces)
  BY <1>3, FS_AddElement DEF Pieces
<1> QED BY <1>2, <1>4 DEF Units, UnitsInOrder

\* A set of epochs that is not empty has a newest
LEMMA NewestEpoch ==
  ASSUME NEW S \in SUBSET Epochs, S # {}
  PROVE  \E e \in S : \A d \in S : d <= e
<1> DEFINE T == {MaxEpoch - e : e \in S}
<1>0. \A e \in S : MaxEpoch - e \in Nat
  BY BoundAssumption DEF Epochs
<1>1. T \subseteq Nat /\ T # {}
  BY <1>0, Zenon
<1>2. PICK x \in T : \A y \in T : ~ (y < x)
  <2> DEFINE R == {ss \in Nat \X Nat : ss[1] < ss[2]}
  <2>1. IsWellFoundedOn(R, Nat)
    BY NatLessThanWellFounded DEF OpToRel
  <2>2. \E x \in T : \A y \in T : ~ (<<y, x>> \in R)
    <3> HIDE DEF R, T
    <3> QED BY <2>1, <1>1, WFMin
  <2> QED BY <2>2, <1>1
<1>3. ASSUME NEW y \in T PROVE x <= y
  <2> HIDE DEF T
  <2>1. x \in Nat /\ y \in Nat
    BY <1>1
  <2> QED BY <2>1, <1>2
<1>4. PICK e \in S : x = MaxEpoch - e
  OBVIOUS
<1>5. ASSUME NEW d \in S PROVE d <= e
  <2>1. MaxEpoch - d \in T
    OBVIOUS
  <2> QED BY <2>1, <1>3, <1>4, BoundAssumption DEF Epochs
<1> QED BY <1>5

\* LatestOf is an epoch, and none of the adds is after it
LEMMA LatestIsNewest ==
  ASSUME TypeOK, NEW us \in SUBSET Units
  PROVE  LatestOf(us) \in Epochs /\ \A u \in us : addedAt[u] <= LatestOf(us)
<1>1. CASE us = {}
  BY <1>1, FiniteUnits DEF LatestOf
<1>2. CASE us # {}
  <2> DEFINE S == {addedAt[u] : u \in us}
  <2>1. S \in SUBSET Epochs /\ S # {}
    BY <1>2, UnitsArePieces DEF TypeOK
  <2>2. \E e \in S : \A d \in S : d <= e
    BY <2>1, NewestEpoch
  <2>3. \E e \in S : \A u \in us : addedAt[u] <= e
    BY <2>2
  <2>4. LatestOf(us) \in S /\ \A u \in us : addedAt[u] <= LatestOf(us)
    BY <2>3, <1>2 DEF LatestOf
  <2> QED BY <2>1, <2>4
<1> QED BY <1>1, <1>2

LEMMA MembersAreCids ==
  ASSUME TypeOK, NEW us \in SUBSET Units
  PROVE  MembersOf(us) \subseteq Cids
<1>1. ASSUME NEW u \in us PROVE Range(Members[u]) \subseteq Cids
  <2>1. Members[u] \in Seq(Cids)
    BY UnitsAssumption DEF TypeOK
  <2> QED BY <2>1, ElementOfSeq, LenProperties DEF Range
<1> QED BY <1>1 DEF MembersOf

LEMMA CountsAreNaturals ==
  ASSUME TypeOK, NEW us \in SUBSET Units
  PROVE  /\ CommittedCount(us) \in Nat
         /\ Unaccounted(CommittedCount(us)) \in Nat
         /\ PendingNotCommitted(CommittedCount(us)) \in Nat
         /\ \A ss : WithStatus(ss) \in Nat
<1>1. IsFiniteSet(MembersOf(us))
  BY MembersAreCids, RowsAssumption, FS_Subset
<1>2. CommittedCount(us) \in Nat
  BY <1>1, FS_CardinalityType DEF CommittedCount
<1>3. ASSUME NEW ss PROVE WithStatus(ss) \in Nat
  <2>1. IsFiniteSet({c \in Cids : row[c] \in ss})
    BY RowsAssumption, FS_Subset
  <2> QED BY <2>1, FS_CardinalityType DEF WithStatus
<1>4. PendingNotCommitted(CommittedCount(us)) \in Nat
  BY <1>2, <1>3 DEF PendingNotCommitted, AtLeastZero
<1>5. Cardinality(Cids) \in Nat
  BY RowsAssumption, FS_CardinalityType
<1>6. Unaccounted(CommittedCount(us)) \in Nat
  BY <1>2, <1>3, <1>4, <1>5 DEF Unaccounted, AtLeastZero
<1> QED BY <1>2, <1>3, <1>4, <1>6

\* Accounts that close leave no CID out: no row failed or is too large, and the pieces
\* counted hold as many CIDs as there are, however they overlap
LEMMA ClosedAccounts ==
  ASSUME TypeOK, NEW us \in SUBSET Units, AccountsClose(CommittedCount(us))
  PROVE  Cids \subseteq MembersOf(us)
<1> DEFINE D == {c \in Cids : row[c] \in {"pending", "done"}}
           F == {c \in Cids : row[c] \in {"failed"}}
           O == {c \in Cids : row[c] \in {"oversized"}}
           M == MembersOf(us)
<1>1. M \subseteq Cids /\ IsFiniteSet(M) /\ Cardinality(M) \in Nat /\ Cardinality(Cids) \in Nat
  BY MembersAreCids, RowsAssumption, FS_Subset, FS_CardinalityType
<1>2. IsFiniteSet(F) /\ IsFiniteSet(O) /\ Cardinality(D) \in Nat
  <2>1. IsFiniteSet(D) /\ IsFiniteSet(F) /\ IsFiniteSet(O)
    BY RowsAssumption, FS_Subset
  <2> QED BY <2>1, FS_CardinalityType
<1>3. F = {} /\ O = {}
  <2>1. Cardinality(F) = 0 /\ Cardinality(O) = 0
    BY DEF AccountsClose, WithStatus
  <2> QED BY <2>1, <1>2, FS_EmptySet
<1>4. D = Cids
  BY <1>3 DEF TypeOK, Statuses
<1>5. ~ (Cardinality(D) > Cardinality(M))
  <2> HIDE DEF D, M
  <2>1. PendingNotCommitted(Cardinality(M)) = 0
    BY DEF AccountsClose, CommittedCount, M
  <2>2. AtLeastZero(Cardinality(D) - Cardinality(M)) = 0
    BY <2>1 DEF PendingNotCommitted, WithStatus, D
  <2> QED BY <2>2, <1>1, <1>2 DEF AtLeastZero
<1>6. Cardinality(M) <= Cardinality(Cids) /\ (Cardinality(M) = Cardinality(Cids) => M = Cids)
  BY <1>1, RowsAssumption, FS_Subset
<1> HIDE DEF D, M
<1>7. M = Cids
  BY <1>1, <1>2, <1>4, <1>5, <1>6
<1> QED BY <1>7 DEF M

--------------------------------------------------------------------------------
(* Type correctness *)

LEMMA InitTyped == Init => TypeOK
<1> SUFFICES ASSUME Init PROVE TypeOK
  OBVIOUS
<1>1. NoReport \in Reports
  BY FiniteUnits, BoundAssumption DEF NoReport, Reports
<1>2. active \in Seq(Pieces)
  BY EmptySeq DEF Init
<1>3. 1 \in Epochs /\ 0 \in 0 .. MaxEpoch + 1
  BY BoundAssumption DEF Epochs
<1>4. listed \subseteq Units
  BY PiecesFinite DEF Init
<1> QED BY <1>1, <1>2, <1>3, <1>4, FiniteUnits DEF Init, TypeOK, Statuses

\* What the report awaits and what it takes from the chain
LEMMA PagesTyped ==
  ASSUME TypeOK, Begin \/ ReadPage \/ ReadFails
  PROVE  TypeOK'
<1>1. Page \subseteq Pieces
  BY ElementOfSeq, LenProperties DEF Page, TypeOK
<1>2. report' \in Reports
  <2>1. NoReport \in Reports
    BY FiniteUnits, BoundAssumption DEF NoReport, Reports
  <2>2. CASE Begin
    BY <2>1, <2>2 DEF Begin, Reports
  <2>3. CASE ReadPage
    <3>1. report.offset + PageSize \in Nat
      BY BoundAssumption DEF TypeOK, Reports
    <3> QED BY <1>1, <2>3, <3>1 DEF ReadPage, TypeOK, Reports
  <2>4. CASE ReadFails
    BY <2>1, <2>4 DEF ReadFails, Reports
  <2> QED BY <2>2, <2>3, <2>4
<1>3. UNCHANGED <<dbVars, chainVars>>
  BY DEF Begin, ReadPage, ReadFails
<1> QED BY <1>2, <1>3 DEF TypeOK, dbVars, chainVars

LEMMA RowsTyped ==
  ASSUME TypeOK, ReadRows
  PROVE  TypeOK'
<1> DEFINE committed == CommittedCount(OnChain)
<1>1. OnChain \in SUBSET Units
  BY DEF OnChain
<1>2. committed \in Nat /\ Unaccounted(committed) \in Nat
  BY <1>1, CountsAreNaturals
<1>3. Cardinality(report.seen \ listed) \in Nat
  <2>1. report.seen \subseteq Pieces /\ IsFiniteSet(Pieces)
    BY PiecesFinite DEF TypeOK, Reports
  <2> QED BY <2>1, FS_Subset, FS_CardinalityType
<1>4. (~ AccountsClose(committed)) \in BOOLEAN
  BY DEF AccountsClose
<1> HIDE DEF committed
<1>5. report' = [report EXCEPT
              !.pc = "receipts", !.seen = {}, !.offset = 0,
              !.matched = OnChain,
              !.counted = committed,
              !.short = ~ AccountsClose(committed), !.unaccounted = Unaccounted(committed),
              !.foreign = Cardinality(report.seen \ listed),
              !.hashes = OnChain \cap hashed]
  BY DEF ReadRows, committed
<1>6. report' \in Reports
  BY <1>1, <1>2, <1>3, <1>4, <1>5 DEF TypeOK, Reports
<1> QED BY <1>6 DEF ReadRows, TypeOK, dbVars, chainVars

LEMMA ProofTyped ==
  ASSUME TypeOK,
         \/ \E got \in SUBSET report.hashes : ReadReceipts(got)
         \/ \E r \in Reads : ReadProof(r)
         \/ \E n \in SampleSizes : Assess(n)
  PROVE  TypeOK'
<1>1. ASSUME NEW got \in SUBSET report.hashes, ReadReceipts(got) PROVE TypeOK'
  <2>1. got \in SUBSET Units
    BY DEF TypeOK, Reports
  <2>2. LatestOf(got) \in Epochs
    BY <2>1, LatestIsNewest
  <2> QED BY <1>1, <2>1, <2>2 DEF ReadReceipts, TypeOK, Reports, dbVars, chainVars
<1>2. ASSUME NEW r \in Reads, ReadProof(r) PROVE TypeOK'
  <2>1. /\ (IF r = "proven" THEN live ELSE report.live) \in BOOLEAN
        /\ (IF r = "proven" THEN lastProven ELSE report.proven) \in Epochs
        /\ (IF r = "challenge" THEN challenge ELSE report.challenge) \in 0 .. MaxEpoch + 1
        /\ (IF r = "epoch" THEN epoch ELSE report.epoch) \in Epochs
    BY DEF TypeOK, Reports
  <2>2. PICK l \in BOOLEAN, p \in Epochs, n \in 0 .. MaxEpoch + 1, e \in Epochs :
           report' = [report EXCEPT !.ask = @ \ {r}, !.live = l, !.proven = p,
                                    !.challenge = n, !.epoch = e]
    BY <1>2, <2>1 DEF ReadProof
  <2>3. report' \in Reports
    BY <2>2 DEF TypeOK, Reports
  <2> QED BY <1>2, <2>3 DEF ReadProof, TypeOK, dbVars, chainVars
<1>3. ASSUME NEW n \in SampleSizes, Assess(n) PROVE TypeOK'
  <2> DEFINE sample == IF n = 0 \/ report.counted = 0 THEN {}
                       ELSE CollectSample(report.matched, report.counted, n)
  <2>1. sample \in SUBSET Cids
    BY DEF CollectSample
  <2>2. Complete \in BOOLEAN /\ (n >= report.counted) \in BOOLEAN
    BY DEF Complete
  <2>3. 0 \in 0 .. MaxEpoch + 1
    BY BoundAssumption
  <2>4. report' = [report EXCEPT !.pc = "ipni", !.complete = Complete,
              !.maxAdd = 0, !.proven = 0, !.challenge = 0, !.epoch = 0,
              !.whole = n >= report.counted, !.sample = sample, !.left = sample]
    BY <1>3 DEF Assess
  <2> HIDE DEF sample
  <2> DEFINE chosen == [report EXCEPT !.pc = "ipni", !.complete = Complete,
                            !.whole = n >= report.counted, !.sample = sample, !.left = sample]
  <2>5. chosen \in Reports
    BY <2>1, <2>2 DEF TypeOK, Reports
  <2>6. report' = [chosen EXCEPT !.maxAdd = 0, !.proven = 0, !.challenge = 0, !.epoch = 0]
    BY <2>4
  <2> HIDE DEF chosen
  <2>7. 0 \in Epochs
    BY BoundAssumption DEF Epochs
  <2>8. report' \in Reports
    BY <2>3, <2>5, <2>6, <2>7 DEF Reports
  <2> QED BY <1>3, <2>8 DEF Assess, TypeOK, dbVars, chainVars
<1> QED BY <1>1, <1>2, <1>3

LEMMA EndTyped ==
  ASSUME TypeOK,
         \/ \E c \in Cids : Probe(c)
         \/ \E allow \in BOOLEAN : Exit(allow)
  PROVE  TypeOK'
<1>1. ASSUME NEW c \in Cids, Probe(c) PROVE TypeOK'
  <2>1. PICK says \in BOOLEAN :
           report' = [report EXCEPT !.left = @ \ {c}, !.silent = @ \/ ~ says]
    BY <1>1 DEF Probe
  <2>2. PICK silent \in BOOLEAN : silent = (report.silent \/ ~ says)
    OBVIOUS
  <2>3. report' = [report EXCEPT !.left = @ \ {c}, !.silent = silent]
    BY <2>1, <2>2
  <2>4. report' \in Reports
    BY <2>3 DEF TypeOK, Reports
  <2> QED BY <1>1, <2>4 DEF Probe, TypeOK, dbVars, chainVars
<1>2. ASSUME NEW allow \in BOOLEAN, Exit(allow) PROVE TypeOK'
  <2>1. ExitCode(allow) \in {-1, 0, 1, 2}
    BY DEF ExitCode
  <2> QED BY <1>2, <2>1 DEF Exit, TypeOK, Reports, dbVars, chainVars
<1> QED BY <1>1, <1>2

\* The other commands, the provider and the chain
LEMMA MeanwhileTyped ==
  ASSUME TypeOK, epoch > 0, Meanwhile
  PROVE  TypeOK'
<1>1. ASSUME NEW c \in Cids, NEW s \in Statuses, Settles(c, s) PROVE TypeOK'
  BY <1>1 DEF Settles, TypeOK, chainVars
<1>2. ASSUME NEW p \in Pieces, Added(p) PROVE TypeOK'
  <2>1. active' \in Seq(Pieces)
    BY <1>2, AppendProperties DEF Added, TypeOK
  <2> QED BY <1>2, <2>1 DEF Added, TypeOK, dbVars
<1>3. ASSUME NEW u \in Units, Listed(u) \/ Hashed(u) PROVE TypeOK'
  BY <1>3 DEF Listed, Hashed, TypeOK, chainVars
<1>4. CASE Tick \/ Activated \/ Proves \/ Deleted
  <2>1. /\ {epoch', lastProven'} \subseteq Epochs
        /\ challenge' \in 0 .. MaxEpoch + 1
        /\ live' \in BOOLEAN
    <3>1. epoch \in Epochs /\ epoch + 1 \in 0 .. MaxEpoch + 1 /\ 0 \in 0 .. MaxEpoch + 1
      BY BoundAssumption DEF TypeOK, Epochs
    <3>2. epoch < MaxEpoch => epoch + 1 \in Epochs
      BY <3>1, BoundAssumption DEF Epochs
    <3>3. CASE Tick
      BY <3>1, <3>2, <3>3 DEF Tick, TypeOK
    <3>4. CASE Activated \/ Proves \/ Deleted
      BY <3>1, <3>4 DEF Activated, Proves, Deleted, TypeOK
    <3> QED BY <1>4, <3>3, <3>4
  <2> QED BY <1>4, <2>1 DEF Tick, Activated, Proves, Deleted, TypeOK, dbVars
<1>5. Foreign \in Pieces
  BY DEF Pieces
<1> QED
  BY <1>1, <1>2, <1>3, <1>4, <1>5, UnitsArePieces DEF Meanwhile, Lands, ForeignAdd

LEMMA StepTyped == TypeOK /\ epoch > 0 /\ [Next]_vars => TypeOK'
<1> SUFFICES ASSUME TypeOK, epoch > 0, [Next]_vars PROVE TypeOK'
  OBVIOUS
<1>1. CASE Reporting
  BY <1>1, PagesTyped, RowsTyped, ProofTyped, EndTyped DEF Reporting
<1>2. CASE Meanwhile
  BY <1>2, MeanwhileTyped
<1>3. CASE UNCHANGED vars
  BY <1>3 DEF vars, dbVars, chainVars, TypeOK
<1> QED BY <1>1, <1>2, <1>3 DEF Next

--------------------------------------------------------------------------------
(* The chain *)

\* No step of the report writes the database or the chain
LEMMA ReportReads == Reporting => UNCHANGED <<dbVars, chainVars>>
  BY DEF Reporting, Begin, ReadPage, ReadFails, ReadRows, ReadReceipts, ReadProof, Assess,
         Probe, Exit

\* What was added stays so, at the epoch at which it was, and what is proven too; only a
\* report that has yet to read its rows sees a piece added or rows moved
LEMMA ChainGrows ==
  ASSUME TypeOK, ChainInv, Meanwhile
  PROVE  /\ report' = report /\ Members' = Members
         /\ ChainInv'
         /\ lastProven <= lastProven'
         /\ \A p \in Pieces : addedAt[p] > 0 => addedAt'[p] = addedAt[p]
         /\ ~ Open => addedAt' = addedAt
<1>1. CASE \E c \in Cids, s \in Statuses \ {"pending"} : Settles(c, s)
  BY <1>1 DEF Settles, chainVars, ChainInv, TypeOK, Epochs
<1>2. CASE \E u \in Units : Listed(u) \/ Hashed(u)
  BY <1>2 DEF Listed, Hashed, chainVars, ChainInv, TypeOK, Epochs
<1>3. CASE Tick \/ Activated \/ Proves \/ Deleted
  BY <1>3 DEF Tick, Activated, Proves, Deleted, dbVars, ChainInv, TypeOK, Epochs
<1>4. ASSUME NEW p \in Pieces, Added(p)
      PROVE  /\ report' = report /\ Members' = Members
             /\ ChainInv'
             /\ lastProven <= lastProven'
             /\ \A q \in Pieces : addedAt[q] > 0 => addedAt'[q] = addedAt[q]
             /\ ~ Open => addedAt' = addedAt
  <2>1. addedAt' = [addedAt EXCEPT ![p] = epoch] /\ addedAt[p] = 0
    BY <1>4 DEF Added
  <2>2. \A q \in Pieces : addedAt[q] > 0 => addedAt'[q] = addedAt[q]
    BY <2>1 DEF TypeOK
  <2>3. addedAt'[p] > 0
    BY <2>1 DEF TypeOK, ChainInv
  <2>4. ASSUME NEW i \in DOMAIN active' PROVE addedAt'[active'[i]] > 0
    <3>1. /\ Len(active') = Len(active) + 1 /\ Len(active) \in Nat
          /\ active'[Len(active) + 1] = p
          /\ \A j \in 1 .. Len(active) : active'[j] = active[j]
          /\ DOMAIN active' = 1 .. Len(active) + 1
      BY <1>4, AppendProperties, LenProperties DEF Added, TypeOK
    <3>2. CASE i = Len(active) + 1
      BY <3>1, <3>2, <2>3
    <3>3. CASE i \in 1 .. Len(active)
      <4>1. active'[i] = active[i] /\ active[i] \in Pieces /\ i \in DOMAIN active
        BY <3>1, <3>3, ElementOfSeq, LenProperties DEF TypeOK
      <4> QED BY <4>1, <2>2 DEF ChainInv
    <3> QED BY <3>1, <3>2, <3>3
  <2>5. ChainInv'
    BY <2>4, <1>4 DEF Added, ChainInv
  <2>6. lastProven <= lastProven'
    BY <1>4 DEF Added, TypeOK, Epochs
  <2> QED BY <1>4, <2>2, <2>5, <2>6 DEF Added, dbVars
<1>5. Foreign \in Pieces
  BY DEF Pieces
<1> QED BY <1>1, <1>2, <1>3, <1>4, <1>5, UnitsArePieces DEF Meanwhile, Lands, ForeignAdd

--------------------------------------------------------------------------------
(* The accounts *)

LEMMA AccountsMeanwhile ==
  ASSUME TypeOK, ChainInv, AccountsInv, Meanwhile
  PROVE  AccountsInv'
<1>1. /\ report' = report /\ Members' = Members
      /\ \A p \in Pieces : addedAt[p] > 0 => addedAt'[p] = addedAt[p]
  BY ChainGrows
<1>2. report.seen \subseteq Pieces /\ report.matched \subseteq Pieces
  BY UnitsArePieces DEF TypeOK, Reports
<1>3. MembersOf(report.matched)' = MembersOf(report.matched)
  BY <1>1 DEF MembersOf
<1> QED BY <1>1, <1>2, <1>3 DEF AccountsInv

LEMMA AccountsReporting ==
  ASSUME TypeOK, ChainInv, AccountsInv, ProofInv, Reporting
  PROVE  AccountsInv'
<1>1. Members' = Members /\ addedAt' = addedAt
  BY ReportReads DEF dbVars, chainVars
<1>3. ASSUME report'.matched = report.matched, report'.short = report.short,
             report'.seen = report.seen, report'.complete => report.complete
      PROVE  AccountsInv'
  BY <1>1, <1>3 DEF AccountsInv, MembersOf
<1>4. CASE Begin
  <2>1. /\ report'.seen = {} /\ report'.matched = {} /\ report'.short /\ ~ report'.complete
    BY <1>4 DEF Begin, NoReport
  <2> QED BY <2>1 DEF AccountsInv
<1>5. CASE ReadFails
  <2>1. /\ report'.seen = {} /\ report'.matched = {} /\ report'.short /\ ~ report'.complete
    BY <1>5 DEF ReadFails, NoReport
  <2> QED BY <2>1 DEF AccountsInv
<1>6. CASE ReadPage
  <2>1. /\ report'.seen = report.seen \cup Page /\ report'.matched = report.matched
        /\ report'.short = report.short /\ report'.complete = report.complete
    BY <1>6 DEF ReadPage, TypeOK, Reports
  <2>2. \A p \in Page : addedAt[p] > 0
    BY DEF Page, ChainInv
  <2> QED BY <1>1, <2>1, <2>2 DEF AccountsInv, MembersOf
<1>7. CASE ReadRows
  <2>1. /\ report'.seen = {} /\ report'.matched = OnChain
        /\ report'.short = ~ AccountsClose(CommittedCount(OnChain))
        /\ ~ report'.complete
    BY <1>7 DEF ReadRows, TypeOK, Reports, ProofInv
  <2>2. \A u \in OnChain : addedAt[u] > 0
    BY DEF OnChain, AccountsInv
  <2>3. OnChain \in SUBSET Units
    BY DEF OnChain
  <2>4. ~ report'.short => Cids \subseteq MembersOf(OnChain)
    BY <2>1, <2>3, ClosedAccounts
  <2>5. MembersOf(report.matched)' = MembersOf(OnChain)
    BY <1>1, <2>1 DEF MembersOf
  <2> QED BY <1>1, <2>1, <2>2, <2>4, <2>5 DEF AccountsInv
<1>8. CASE \E n \in SampleSizes : Assess(n)
  <2>1. /\ report'.seen = report.seen /\ report'.matched = report.matched
        /\ report'.short = report.short /\ report'.complete = Complete
    BY <1>8 DEF Assess, TypeOK, Reports
  <2>2. report'.complete => ~ report'.short
    BY <2>1 DEF Complete
  <2> QED BY <1>1, <2>1, <2>2 DEF AccountsInv, MembersOf
<1>9. CASE \E got \in SUBSET report.hashes : ReadReceipts(got)
  <2>1. /\ report'.seen = report.seen /\ report'.matched = report.matched
        /\ report'.short = report.short /\ report'.complete = report.complete
    BY <1>9 DEF ReadReceipts, TypeOK, Reports
  <2> QED BY <1>3, <2>1
<1>10. CASE \E r \in Reads : ReadProof(r)
  <2>1. /\ report'.seen = report.seen /\ report'.matched = report.matched
        /\ report'.short = report.short /\ report'.complete = report.complete
    BY <1>10 DEF ReadProof, TypeOK, Reports
  <2> QED BY <1>3, <2>1
<1>11. CASE \/ \E c \in Cids : Probe(c)
            \/ \E allow \in BOOLEAN : Exit(allow)
  <2>1. /\ report'.seen = report.seen /\ report'.matched = report.matched
        /\ report'.short = report.short /\ report'.complete = report.complete
    <3>1. report \in Reports
      BY DEF TypeOK
    <3>2. CASE \E c \in Cids : Probe(c)
      BY <3>1, <3>2 DEF Probe, Reports
    <3>3. CASE \E allow \in BOOLEAN : Exit(allow)
      BY <3>1, <3>3 DEF Exit, Reports
    <3> QED BY <1>11, <3>2, <3>3
  <2> QED BY <1>3, <2>1
<1> QED BY <1>4, <1>5, <1>6, <1>7, <1>8, <1>9, <1>10, <1>11 DEF Reporting

--------------------------------------------------------------------------------
(* The proof *)

LEMMA ProofMeanwhile ==
  ASSUME TypeOK, ChainInv, ProofInv, Meanwhile
  PROVE  ProofInv'
<1>1. /\ report' = report /\ lastProven <= lastProven'
      /\ ~ Open => addedAt' = addedAt
  BY ChainGrows
<1>2. TypeOK'
  BY MeanwhileTyped DEF ChainInv
<1>3. /\ lastProven \in Nat /\ lastProven' \in Nat /\ report.proven \in Nat
      /\ \A u \in report.receipts : addedAt[u] \in Nat
  BY <1>2, FiniteUnits, UnitsArePieces DEF TypeOK, Reports
<1>4. CASE Open
  <2>1. report.receipts = {} /\ report.pc \in {"none", "pages", "rows"}
    BY <1>4 DEF Open, ProofInv
  <2> QED BY <1>1, <1>3, <2>1 DEF ProofInv, Open
<1>5. CASE ~ Open
  <2>1. addedAt' = addedAt
    BY <1>1, <1>5
  <2>2. report.complete => \A u \in report.receipts : addedAt[u] <= lastProven'
    BY <1>1, <1>3 DEF ProofInv
  <2>3. report.proven <= lastProven'
    BY <1>1, <1>3 DEF ProofInv
  <2> QED BY <1>1, <2>1, <2>2, <2>3 DEF ProofInv, Open
<1> QED BY <1>4, <1>5

LEMMA ProofReporting ==
  ASSUME TypeOK, ChainInv, ProofInv, Reporting
  PROVE  ProofInv'
<1>1. addedAt' = addedAt /\ lastProven' = lastProven
  BY ReportReads DEF chainVars
<1>2. /\ lastProven \in Nat /\ report.proven \in Nat /\ report.maxAdd \in Nat
      /\ \A p \in Pieces : addedAt[p] \in Nat
      /\ report.receipts \subseteq Pieces
  BY FiniteUnits, UnitsArePieces DEF TypeOK, Reports
<1>3. CASE Begin
  <2>1. /\ report'.pc = "pages" /\ report'.receipts = {} /\ report'.ask = {}
        /\ ~ report'.complete /\ report'.exit = -1 /\ report'.proven = 0
    BY <1>3 DEF Begin, NoReport
  <2> QED BY <1>1, <1>2, <2>1 DEF ProofInv, Open
<1>4. CASE ReadFails
  <2>1. /\ report'.pc = "done" /\ report'.receipts = {} /\ report'.ask = {}
        /\ ~ report'.complete /\ report'.exit = 1 /\ report'.proven = 0
    BY <1>4 DEF ReadFails, NoReport
  <2> QED BY <1>1, <1>2, <2>1 DEF ProofInv, Open
<1>5. CASE ReadPage \/ ReadRows
  <2>1. /\ report.pc \in {"pages", "rows"} /\ report'.pc \in {"pages", "rows", "receipts"}
        /\ report'.receipts = report.receipts /\ report'.ask = report.ask
        /\ report'.complete = report.complete /\ report'.exit = report.exit
        /\ report'.proven = report.proven
    <3>1. report \in Reports
      BY DEF TypeOK
    <3>2. CASE ReadPage
      BY <3>1, <3>2 DEF ReadPage, Reports
    <3>3. CASE ReadRows
      BY <3>1, <3>3 DEF ReadRows, Reports
    <3> QED BY <1>5, <3>2, <3>3
  <2>2. /\ report.receipts = {} /\ report.ask = {} /\ ~ report.complete /\ report.exit # 0
        /\ report.proven <= lastProven
    BY <2>1 DEF ProofInv, Open
  <2> QED BY <1>1, <2>1, <2>2 DEF ProofInv, Open
<1>6. ASSUME NEW got \in SUBSET report.hashes, ReadReceipts(got) PROVE ProofInv'
  <2>1. got \in SUBSET Units
    BY DEF TypeOK, Reports
  <2>2. \A u \in got : addedAt[u] <= LatestOf(got)
    BY <2>1, LatestIsNewest
  <2>3. /\ report.pc = "receipts" /\ report'.pc = "proof"
        /\ report'.receipts = got /\ report'.maxAdd = LatestOf(got)
        /\ report'.complete = report.complete /\ report'.exit = report.exit
        /\ report'.proven = report.proven
    BY <1>6 DEF ReadReceipts, TypeOK, Reports
  <2>4. report'.proven <= lastProven'
    BY <2>3, <1>1 DEF ProofInv
  <2> QED BY <1>1, <2>2, <2>3, <2>4 DEF ProofInv, Open
<1>7. ASSUME NEW r \in Reads, ReadProof(r) PROVE ProofInv'
  <2>1. /\ report.pc = "proof" /\ report'.pc = "proof"
        /\ report'.receipts = report.receipts /\ report'.maxAdd = report.maxAdd
        /\ report'.complete = report.complete /\ report'.exit = report.exit
        /\ report'.proven \in {report.proven, lastProven}
    BY <1>7 DEF ReadProof, TypeOK, Reports
  <2>2. report'.proven <= lastProven'
    BY <2>1, <1>1, <1>2 DEF ProofInv
  <2> QED BY <1>1, <2>1, <2>2 DEF ProofInv, Open
<1>8. ASSUME NEW n \in SampleSizes, Assess(n) PROVE ProofInv'
  <2>1. /\ report.pc = "proof" /\ report'.pc = "ipni" /\ report.ask = {}
        /\ report'.receipts = report.receipts /\ report'.ask = report.ask
        /\ report'.complete = Complete /\ report'.exit = report.exit
        /\ report'.proven = 0
    BY <1>8 DEF Assess, TypeOK, Reports
  <2>2. Complete => \A u \in report.receipts : addedAt[u] <= lastProven
    <3>1. Complete => report.proven >= report.maxAdd
      BY DEF Complete, ProvenSinceAdd
    <3> QED BY <2>1, <3>1, <1>2 DEF ProofInv
  <2> QED BY <1>1, <1>2, <2>1, <2>2 DEF ProofInv, Open
<1>9. CASE \E c \in Cids : Probe(c)
  <2>1. /\ report.pc = "ipni" /\ report'.pc = "ipni"
        /\ report'.receipts = report.receipts /\ report'.ask = report.ask
        /\ report'.complete = report.complete /\ report'.exit = report.exit
        /\ report'.proven = report.proven
    BY <1>9 DEF Probe, TypeOK, Reports
  <2> QED BY <1>1, <2>1 DEF ProofInv, Open
<1>10. ASSUME NEW allow \in BOOLEAN, Exit(allow) PROVE ProofInv'
  <2>1. /\ report.pc = "ipni" /\ report'.pc = "done"
        /\ report'.receipts = report.receipts /\ report'.ask = report.ask
        /\ report'.complete = report.complete /\ report'.exit = ExitCode(allow)
        /\ report'.proven = report.proven
    BY <1>10 DEF Exit, TypeOK, Reports
  <2>2. ExitCode(allow) = 0 => report.complete
    BY DEF ExitCode
  <2> QED BY <1>1, <2>1, <2>2 DEF ProofInv, Open
<1> QED BY <1>3, <1>4, <1>5, <1>6, <1>7, <1>8, <1>9, <1>10 DEF Reporting

--------------------------------------------------------------------------------
(* The sample *)

\* Induction, over the set of the numbers for which something holds
LEMMA AllNumbers ==
  ASSUME NEW S \in SUBSET Nat, 0 \in S, \A k \in S : k + 1 \in S
  PROVE  S = Nat
<1> SUFFICES ASSUME Nat \ S # {} PROVE FALSE
  OBVIOUS
<1> DEFINE R == {ss \in Nat \X Nat : ss[1] < ss[2]}
<1>1. IsWellFoundedOn(R, Nat)
  BY NatLessThanWellFounded DEF OpToRel
<1>2. \E x \in Nat \ S : \A y \in Nat \ S : ~ (<<y, x>> \in R)
  <2> HIDE DEF R
  <2> QED BY <1>1, WFMin
<1>3. PICK x \in Nat \ S : \A y \in Nat \ S : ~ (<<y, x>> \in R)
  BY <1>2
<1>4. x # 0 /\ x - 1 \in Nat /\ (x - 1) + 1 = x
  BY <1>3
<1>5. x - 1 \notin S
  BY <1>4, <1>3
<1>6. <<x - 1, x>> \in R
  BY <1>4
<1> HIDE DEF R
<1> QED BY <1>3, <1>4, <1>5, <1>6

\* What FlattenSeq computes: the first sequence, and then each next one after it
Flattens(f, s, n) ==
    \A i \in 1 .. n : f[i] = IF i = 1 THEN s[i] ELSE f[i - 1] \o s[i]

LEMMA FlattenExists ==
  ASSUME NEW A, NEW n \in Nat, NEW s \in [1 .. n -> Seq(A)]
  PROVE  \E f \in [1 .. n -> Seq(A)] : Flattens(f, s, n)
<1> DEFINE Upto(k) == \E f \in [1 .. k -> Seq(A)] : Flattens(f, s, k)
           S == {k \in Nat : k <= n => Upto(k)}
<1>1. 0 \in S
  <2> DEFINE f == [i \in 1 .. 0 |-> <<>>]
  <2>1. f \in [1 .. 0 -> Seq(A)] /\ Flattens(f, s, 0)
    BY DEF Flattens
  <2> HIDE DEF f
  <2> QED BY <2>1
<1>2. ASSUME NEW k \in S PROVE k + 1 \in S
  <2> SUFFICES ASSUME k + 1 <= n PROVE Upto(k + 1)
    OBVIOUS
  <2>1. PICK f \in [1 .. k -> Seq(A)] : Flattens(f, s, k)
    BY <1>2
  <2> DEFINE next == IF k = 0 THEN s[k + 1] ELSE f[k] \o s[k + 1]
             h == [i \in 1 .. k + 1 |-> IF i <= k THEN f[i] ELSE next]
  <2>2. next \in Seq(A)
    <3>1. s[k + 1] \in Seq(A)
      BY <1>2
    <3>2. CASE k = 0
      BY <3>1, <3>2
    <3>3. CASE k # 0
      <4>1. f[k] \in Seq(A)
        BY <1>2, <3>3
      <4> QED BY <3>1, <3>3, <4>1, ConcatProperties
    <3> QED BY <3>2, <3>3
  <2>3. h \in [1 .. k + 1 -> Seq(A)]
    <3> HIDE DEF next
    <3> QED BY <2>2, <1>2
  <2>4. ASSUME NEW i \in 1 .. k + 1
        PROVE  h[i] = IF i = 1 THEN s[i] ELSE h[i - 1] \o s[i]
    <3>1. CASE i <= k
      <4>1. h[i] = f[i] /\ (i # 1 => h[i - 1] = f[i - 1])
        BY <3>1, <1>2
      <4>2. f[i] = IF i = 1 THEN s[i] ELSE f[i - 1] \o s[i]
        <5>1. i \in 1 .. k
          BY <3>1, <1>2
        <5> HIDE DEF h
        <5> QED BY <5>1, <2>1 DEF Flattens
      <4> QED BY <4>1, <4>2
    <3>2. CASE i = k + 1
      <4>1. h[i] = next /\ (k # 0 => h[k] = f[k]) /\ i - 1 = k /\ (i = 1 <=> k = 0)
        BY <3>2, <1>2
      <4> QED BY <4>1, <3>2
    <3> QED BY <3>1, <3>2, <1>2
  <2>5. Flattens(h, s, k + 1)
    <3> HIDE DEF h
    <3> QED BY <2>4 DEF Flattens
  <2> HIDE DEF h
  <2> QED BY <2>3, <2>5
<1>3. S = Nat
  <2> HIDE DEF S
  <2>1. S \in SUBSET Nat
    BY DEF S
  <2> QED BY <1>1, <1>2, <2>1, AllNumbers
<1>4. n \in S
  BY <1>3
<1> QED BY <1>4

\* The elements of what is flattened
LEMMA FlattenElements ==
  ASSUME NEW A, NEW s \in Seq(Seq(A))
  PROVE  /\ FlattenSeq(s) \in Seq(A)
         /\ Range(FlattenSeq(s)) = UNION {Range(s[i]) : i \in 1 .. Len(s)}
<1> DEFINE n == Len(s)
           Eq(f) == f = [i \in 1 .. n |-> IF i = 1 THEN s[i] ELSE f[i - 1] \o s[i]]
<1>1. n \in Nat /\ s \in [1 .. n -> Seq(A)]
  BY LenProperties
<1>2. CASE n = 0
  <2>1. s = <<>> /\ FlattenSeq(s) = <<>>
    BY <1>2, EmptySeq DEF FlattenSeq
  <2>2. Range(FlattenSeq(s)) = {}
    BY <2>1 DEF Range
  <2>3. UNION {Range(s[i]) : i \in 1 .. n} = {}
    <3>1. 1 .. n = {}
      BY <1>2
    <3> HIDE DEF n
    <3> QED BY <3>1
  <2>4. FlattenSeq(s) \in Seq(A)
    BY <2>1, EmptySeq
  <2> QED BY <2>2, <2>3, <2>4
<1>3. CASE n # 0
  <2>1. PICK g \in [1 .. n -> Seq(A)] : Flattens(g, s, n)
    <3> HIDE DEF n
    <3> QED BY <1>1, FlattenExists
  <2>2. Eq(g)
    <3> DEFINE f == [i \in 1 .. n |-> IF i = 1 THEN s[i] ELSE g[i - 1] \o s[i]]
    <3>1. ASSUME NEW i \in 1 .. n PROVE g[i] = f[i]
      BY <2>1 DEF Flattens
    <3>2. f = [i \in 1 .. n |-> f[i]] /\ g = [i \in 1 .. n |-> g[i]]
      OBVIOUS
    <3> HIDE DEF f
    <3>3. g = f
      BY <3>1, <3>2
    <3> QED BY <3>3 DEF f
  <2> DEFINE flat == CHOOSE f : Eq(f)
  <2>3. Eq(flat)
    <3> HIDE DEF Eq
    <3> QED BY <2>2
  <2>4. FlattenSeq(s) = flat[n]
    BY <1>3 DEF FlattenSeq
  <2>5. Flattens(flat, s, n)
    <3> HIDE DEF flat
    <3>1. ASSUME NEW i \in 1 .. n
          PROVE  flat[i] = IF i = 1 THEN s[i] ELSE flat[i - 1] \o s[i]
      BY <2>3
    <3> QED BY <3>1 DEF Flattens
  <2> HIDE DEF flat, Eq
  <2> DEFINE S == {k \in Nat : k + 1 <= n =>
                      /\ flat[k + 1] \in Seq(A)
                      /\ Range(flat[k + 1]) = UNION {Range(s[i]) : i \in 1 .. k + 1}}
  <2>6. 0 \in S
    <3>1. 1 \in 1 .. n
      BY <1>1, <1>3
    <3>2. flat[1] = s[1] /\ s[1] \in Seq(A)
      BY <2>5, <3>1, <1>1 DEF Flattens
    <3>3. UNION {Range(s[i]) : i \in 1 .. 1} = Range(s[1])
      OBVIOUS
    <3> QED BY <3>2, <3>3
  <2>7. ASSUME NEW k \in S PROVE k + 1 \in S
    <3> SUFFICES ASSUME (k + 1) + 1 <= n
                 PROVE  /\ flat[(k + 1) + 1] \in Seq(A)
                        /\ Range(flat[(k + 1) + 1])
                              = UNION {Range(s[i]) : i \in 1 .. (k + 1) + 1}
      OBVIOUS
    <3> DEFINE x == k + 1
               y == x + 1
    <3>1. x \in 1 .. n /\ y \in 1 .. n /\ y # 1 /\ y - 1 = x
      BY <1>1, <2>7
    <3>2. flat[x] \in Seq(A) /\ Range(flat[x]) = UNION {Range(s[i]) : i \in 1 .. x}
      BY <2>7, <3>1, <1>1
    <3>3. 1 .. y = (1 .. x) \cup {y}
      BY <3>1, <1>1
    <3> HIDE DEF y, x
    <3>4. flat[y] = flat[x] \o s[y] /\ s[y] \in Seq(A)
      BY <3>1, <2>5, <1>1 DEF Flattens
    <3>5. flat[y] \in Seq(A) /\ Range(flat[y]) = Range(flat[x]) \cup Range(s[y])
      <4> DEFINE front == flat[x]
                 back == s[y]
      <4>1. front \in Seq(A) /\ back \in Seq(A) /\ flat[y] = front \o back
        BY <3>2, <3>4
      <4> HIDE DEF front, back
      <4>2. front \o back \in Seq(A)
        BY <4>1
      <4>3. Range(front \o back) = Range(front) \cup Range(back)
        BY <4>1, RangeConcatenation
      <4>4. flat[y] \in Seq(A) /\ Range(flat[y]) = Range(front) \cup Range(back)
        BY <4>1, <4>2, <4>3
      <4> QED BY <4>4 DEF front, back
    <3> DEFINE U(m) == UNION {Range(s[i]) : i \in 1 .. m}
    <3>6. ASSUME NEW c PROVE c \in U(y) <=> c \in U(x) \/ c \in Range(s[y])
      <4>1. ASSUME c \in U(y) PROVE c \in U(x) \/ c \in Range(s[y])
        <5>1. PICK i \in 1 .. y : c \in Range(s[i])
          BY <4>1
        <5> QED BY <5>1, <3>3
      <4>2. ASSUME c \in U(x) PROVE c \in U(y)
        <5>1. PICK i \in 1 .. x : c \in Range(s[i])
          BY <4>2
        <5>2. i \in 1 .. y
          BY <3>3
        <5> QED BY <5>1, <5>2
      <4>3. ASSUME c \in Range(s[y]) PROVE c \in U(y)
        BY <4>3, <3>3
      <4> QED BY <4>1, <4>2, <4>3
    <3>7. flat[y] \in Seq(A) /\ Range(flat[y]) = U(y)
      <4>1. Range(flat[x]) = U(x)
        BY <3>2
      <4> HIDE DEF U
      <4>2. U(y) = U(x) \cup Range(s[y])
        BY <3>6
      <4> QED BY <4>1, <4>2, <3>5
    <3> QED BY <3>7 DEF y, x
  <2>8. S = Nat
    <3> HIDE DEF S
    <3>1. S \in SUBSET Nat
      BY DEF S
    <3> QED BY <2>6, <2>7, <3>1, AllNumbers
  <2>9. n - 1 \in Nat /\ (n - 1) + 1 = n
    BY <1>1, <1>3
  <2>10. n - 1 \in S
    BY <2>8, <2>9
  <2> DEFINE x == n - 1
  <2>11. flat[x + 1] \in Seq(A) /\ Range(flat[x + 1]) = UNION {Range(s[i]) : i \in 1 .. x + 1}
    BY <2>10, <2>9
  <2>12. x + 1 = n
    BY <2>9
  <2> HIDE DEF x, n
  <2> QED BY <2>4, <2>11, <2>12 DEF n
<1> QED BY <1>2, <1>3

\* The listing of units holds their members, each unit's in its place
LEMMA ListingHolds ==
  ASSUME TypeOK, NEW us \in SUBSET Units
  PROVE  Listing(us) \in Seq(Cids) /\ Range(Listing(us)) = MembersOf(us)
<1> DEFINE All == UnitsInOrder
           s == InOrder(us)
<1>1. All \in Seq(Units) /\ Range(All) = Units
  <2> DEFINE Either == Range(Aggregates) \cup Range(Uploads)
  <2>1. Aggregates \in Seq(Either) /\ Uploads \in Seq(Either)
    BY RowsAssumption, SeqMonotonic
  <2>2. UnitsInOrder \in Seq(Either) /\ Range(UnitsInOrder) = Either
    <3> HIDE DEF Either
    <3>1. Range(Aggregates \o Uploads) = Range(Aggregates) \cup Range(Uploads)
      BY <2>1, RangeConcatenation
    <3> QED BY <2>1, <3>1, ConcatProperties DEF UnitsInOrder, Either
  <2> HIDE DEF Either
  <2> QED BY <2>2 DEF Units
<1>2. Len(All) \in Nat /\ DOMAIN All = 1 .. Len(All) /\ \A i \in 1 .. Len(All) : All[i] \in Units
  <2> HIDE DEF All
  <2> QED BY <1>1, LenProperties
<1>3. \A u \in Units : Members[u] \in Seq(Cids)
  BY UnitsAssumption DEF TypeOK
<1>4. s = [i \in 1 .. Len(All) |-> IF All[i] \in us THEN Members[All[i]] ELSE <<>>]
  BY <1>2 DEF InOrder
<1> HIDE DEF s, All
<1>5. ASSUME NEW i \in 1 .. Len(All) PROVE s[i] \in Seq(Cids)
  <2>1. <<>> \in Seq(Cids)
    BY EmptySeq
  <2>2. All[i] \in Units /\ Members[All[i]] \in Seq(Cids)
    BY <1>2, <1>3
  <2>3. s[i] = IF All[i] \in us THEN Members[All[i]] ELSE <<>>
    BY <1>4
  <2> QED BY <2>1, <2>2, <2>3
<1>6. s \in [1 .. Len(All) -> Seq(Cids)]
  BY <1>4, <1>5
<1>7. s \in Seq(Seq(Cids)) /\ Len(s) = Len(All)
  <2>1. s \in Seq(Seq(Cids))
    BY <1>2, <1>6, SeqDef
  <2>2. Len(s) \in Nat /\ DOMAIN s = 1 .. Len(s)
    BY <2>1, LenProperties
  <2>3. DOMAIN s = 1 .. Len(All)
    BY <1>6
  <2>4. 1 .. Len(s) = 1 .. Len(All)
    BY <2>2, <2>3
  <2> DEFINE a == Len(s)
             b == Len(All)
  <2>5. a \in Nat /\ b \in Nat /\ 1 .. a = 1 .. b
    BY <1>2, <2>2, <2>4
  <2> HIDE DEF a, b
  <2>6. a = b
    BY <2>5
  <2>7. Len(s) = Len(All)
    BY <2>6 DEF a, b
  <2> QED BY <2>1, <2>7
<1>8. /\ Listing(us) \in Seq(Cids)
      /\ Range(Listing(us)) = UNION {Range(s[i]) : i \in 1 .. Len(All)}
  BY <1>7, FlattenElements DEF Listing, s
<1>9. UNION {Range(s[i]) : i \in 1 .. Len(All)} = MembersOf(us)
  <2>1. ASSUME NEW i \in 1 .. Len(All), NEW c \in Range(s[i]) PROVE c \in MembersOf(us)
    <3>1. s[i] = IF All[i] \in us THEN Members[All[i]] ELSE <<>>
      BY <1>4
    <3>2. Range(<<>>) = {}
      BY DEF Range
    <3>3. All[i] \in us /\ c \in Range(Members[All[i]])
      BY <2>1, <3>1, <3>2
    <3> QED BY <3>3 DEF MembersOf
  <2>2. ASSUME NEW c \in MembersOf(us)
        PROVE  \E i \in 1 .. Len(All) : c \in Range(s[i])
    <3>1. PICK u \in us : c \in Range(Members[u])
      BY DEF MembersOf
    <3>2. PICK i \in 1 .. Len(All) : All[i] = u
      BY <1>1, <1>2 DEF Range
    <3>3. s[i] = Members[u]
      BY <1>4, <3>2
    <3> QED BY <3>1, <3>3
  <2> QED BY <2>1, <2>2
<1> QED BY <1>8, <1>9

\* A stride of one element
LEMMA UnitStride ==
  ASSUME NEW i \in Nat, NEW p \in Nat \ {0}
  PROVE  (i * p) \div p = i
  OBVIOUS

\* An exhaustive sweep of a listing without repetition looks up every CID in it
LEMMA WholeSample ==
  ASSUME TypeOK, NEW us \in SUBSET Units,
         NEW n \in Nat, n >= Len(Listing(us)), Len(Listing(us)) # 0
  PROVE  CollectSample(us, Len(Listing(us)), n) = MembersOf(us)
<1> DEFINE list == Listing(us)
           p == Len(list)
<1>1. list \in Seq(Cids) /\ Range(list) = MembersOf(us)
  BY ListingHolds
<1>2. p \in Nat \ {0} /\ DOMAIN list = 1 .. p
  BY <1>1, LenProperties
<1>3. SampleCount(p, n) = p
  BY DEF SampleCount
<1>4. CollectSample(us, p, n)
        = {c \in Cids : \E i \in 0 .. p - 1 : c = list[1 + ((i * p) \div p)]}
  BY <1>3 DEF CollectSample
<1>5. \A i \in 0 .. p - 1 : (i * p) \div p = i
  <2> HIDE DEF p
  <2> QED BY <1>2, UnitStride
<1> HIDE DEF list, p
<1>6. ASSUME NEW c \in CollectSample(us, p, n) PROVE c \in Range(list)
  <2>1. PICK i \in 0 .. p - 1 : c = list[1 + ((i * p) \div p)]
    BY <1>4
  <2>2. 1 + i \in DOMAIN list /\ c = list[1 + i]
    BY <2>1, <1>2, <1>5
  <2> QED BY <2>2 DEF Range
<1>7. ASSUME NEW c \in Range(list) PROVE c \in CollectSample(us, p, n)
  <2>1. PICK j \in 1 .. p : c = list[j]
    BY <1>2 DEF Range
  <2> DEFINE i == j - 1
  <2>2. i \in 0 .. p - 1 /\ 1 + i = j
    BY <1>2
  <2>3. c \in Cids
    BY <1>1, <1>2, <2>1, ElementOfSeq
  <2> HIDE DEF i
  <2>4. c = list[1 + ((i * p) \div p)]
    BY <2>1, <2>2, <1>5
  <2> QED BY <2>2, <2>3, <2>4, <1>4
<1>8. CollectSample(us, p, n) = Range(list)
  BY <1>6, <1>7
<1> QED BY <1>1, <1>8 DEF p, list

LEMMA SweepMeanwhile ==
  ASSUME TypeOK, ChainInv, SweepInv, Meanwhile
  PROVE  SweepInv'
  BY ChainGrows DEF SweepInv, Listing, InOrder, MembersOf

LEMMA SweepReporting ==
  ASSUME TypeOK, SweepInv, Reporting
  PROVE  SweepInv'
<1>1. Members' = Members /\ report \in Reports
  BY ReportReads DEF dbVars, TypeOK
<1>2. \A us : MembersOf(us)' = MembersOf(us) /\ Listing(us)' = Listing(us)
  BY <1>1 DEF MembersOf, Listing, InOrder
<1>3. ASSUME report'.sample = {} PROVE SweepInv'
  BY <1>3 DEF SweepInv
<1>4. ASSUME report.pc \in {"none", "pages", "rows", "receipts", "proof"},
             report'.sample = report.sample
      PROVE  SweepInv'
  BY <1>3, <1>4 DEF SweepInv
<1>5. CASE Begin \/ ReadFails
  BY <1>3, <1>5 DEF Begin, ReadFails, NoReport
<1>6. CASE ReadPage \/ ReadRows
  BY <1>1, <1>4, <1>6 DEF ReadPage, ReadRows, Reports
<1>7. CASE \E got \in SUBSET report.hashes : ReadReceipts(got)
  BY <1>1, <1>4, <1>7 DEF ReadReceipts, Reports
<1>8. CASE \E r \in Reads : ReadProof(r)
  BY <1>1, <1>4, <1>8 DEF ReadProof, Reports
<1>9. ASSUME NEW n \in SampleSizes, Assess(n) PROVE SweepInv'
  <2> DEFINE sample == IF n = 0 \/ report.counted = 0 THEN {}
                       ELSE CollectSample(report.matched, report.counted, n)
  <2>1. /\ report'.pc = "ipni" /\ report'.sample = sample
        /\ report'.matched = report.matched /\ report'.counted = report.counted
        /\ report'.whole = (n >= report.counted)
    <3> HIDE DEF sample
    <3> QED BY <1>1, <1>9 DEF Assess, Reports, sample
  <2>2. ASSUME n >= report.counted, sample # {},
               Len(Listing(report.matched)) = report.counted
        PROVE  sample = MembersOf(report.matched)
    <3>1. n \in Nat /\ report.counted # 0 /\ report.matched \in SUBSET Units
      BY <1>1, <2>2, BoundAssumption DEF Reports
    <3> QED BY <2>2, <3>1, WholeSample
  <2> HIDE DEF sample
  <2> QED BY <1>2, <2>1, <2>2 DEF SweepInv
<1>10. ASSUME report.pc = "ipni", report'.pc \in {"ipni", "done"},
              report'.sample = report.sample, report'.whole = report.whole,
              report'.matched = report.matched, report'.counted = report.counted
       PROVE  SweepInv'
  BY <1>2, <1>10 DEF SweepInv
<1>11. CASE \E c \in Cids : Probe(c)
  <2>1. /\ report.pc = "ipni" /\ report'.pc = report.pc
        /\ report'.sample = report.sample /\ report'.whole = report.whole
        /\ report'.matched = report.matched /\ report'.counted = report.counted
    BY <1>1, <1>11 DEF Probe, Reports
  <2> QED BY <1>10, <2>1
<1>12. CASE \E allow \in BOOLEAN : Exit(allow)
  <2>1. /\ report.pc = "ipni" /\ report'.pc = "done"
        /\ report'.sample = report.sample /\ report'.whole = report.whole
        /\ report'.matched = report.matched /\ report'.counted = report.counted
    BY <1>1, <1>12 DEF Exit, Reports
  <2> QED BY <1>10, <2>1
<1> QED BY <1>5, <1>6, <1>7, <1>8, <1>9, <1>11, <1>12 DEF Reporting

--------------------------------------------------------------------------------
(* The theorems *)

LEMMA InitInv == Init => IInv
<1> SUFFICES ASSUME Init PROVE IInv
  OBVIOUS
<1>1. TypeOK
  BY InitTyped
<1>2. ChainInv
  BY DEF Init, ChainInv
<1>3. AccountsInv
  BY DEF Init, NoReport, AccountsInv
<1>4. ProofInv
  BY DEF Init, NoReport, ProofInv, Open
<1>5. SweepInv
  BY DEF Init, NoReport, SweepInv
<1> QED BY <1>1, <1>2, <1>3, <1>4, <1>5 DEF IInv

LEMMA StepInv == IInv /\ [Next]_vars => IInv'
<1> SUFFICES ASSUME IInv, [Next]_vars PROVE IInv'
  OBVIOUS
<1>1. TypeOK'
  BY StepTyped DEF IInv, ChainInv
<1>2. ChainInv' /\ AccountsInv' /\ ProofInv' /\ SweepInv'
  <2>1. CASE Reporting
    <3>1. ChainInv'
      BY <2>1, ReportReads DEF IInv, ChainInv, chainVars
    <3> QED BY <2>1, <3>1, AccountsReporting, ProofReporting, SweepReporting DEF IInv
  <2>2. CASE Meanwhile
    <3>1. ChainInv'
      BY <2>2, ChainGrows DEF IInv
    <3> QED BY <2>2, <3>1, AccountsMeanwhile, ProofMeanwhile, SweepMeanwhile DEF IInv
  <2>3. CASE UNCHANGED vars
    BY <2>3 DEF vars, dbVars, chainVars, IInv, ChainInv, AccountsInv, ProofInv, Open,
       SweepInv, MembersOf, Listing, InOrder
  <2> QED BY <2>1, <2>2, <2>3 DEF Next
<1> QED BY <1>1, <1>2 DEF IInv

\* Every variable, and every field of the report that is being made, keeps its type, for
\* any database, layout of the units, page size and chain (report.ts, runReport)
THEOREM TypeCorrect == Spec => []TypeOK
<1>1. IInv => TypeOK
  BY DEF IInv
<1> QED BY InitInv, StepInv, <1>1, PTL DEF Spec

\* A report that calls the migration complete is right about every CID, for any number of
\* units that overlap in any way, pages of any size, and adds, rows and hashes that move
\* between the reads (report.ts:196-204)
THEOREM CompleteIsOnChain == Spec => []CompleteMeansOnChain
<1>1. IInv => CompleteMeansOnChain
  <2> SUFFICES ASSUME IInv, report.complete, NEW c \in Cids
               PROVE  \E u \in Units : c \in Range(Members[u]) /\ addedAt[u] > 0
    BY DEF CompleteMeansOnChain
  <2>1. c \in MembersOf(report.matched)
    BY DEF IInv, AccountsInv
  <2>2. PICK u \in report.matched : c \in Range(Members[u])
    BY <2>1 DEF MembersOf
  <2> QED BY <2>2 DEF IInv, AccountsInv, TypeOK, Reports
<1> QED BY InitInv, StepInv, <1>1, PTL DEF Spec

\* Exit 0 is proven since the newest add counted, when no receipt is missing, whatever
\* order the reads of the proof state are answered in and whatever is proven, deleted or
\* activated between them (report.ts:329-334)
THEOREM ZeroExitProven == Spec => []ZeroExitIsProven
<1>1. IInv => ZeroExitIsProven
  BY DEF IInv, ProofInv, ZeroExitIsProven
<1> QED BY InitInv, StepInv, <1>1, PTL DEF Spec

\* An exhaustive sweep that ends in exit 0 has looked up every CID the report counts, for
\* any database and any layout in which no CID is in two of the counted units
\* (report.ts:48, collectSample)
THEOREM SweepExhaustive == Spec => []ExhaustiveSweep
<1>1. IInv => ExhaustiveSweep
  BY DEF IInv, SweepInv, ExhaustiveSweep
<1> QED BY InitInv, StepInv, <1>1, PTL DEF Spec
================================================================================
