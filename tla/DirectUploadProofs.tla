-------------------------- MODULE DirectUploadProofs --------------------------
(* Theorems about DirectUpload, for every value of its constants. *)
EXTENDS DirectUpload, FiniteSetTheorems, TLAPS

LEMMA PrimaryIsCtx == Primary \in Ctx
BY CopiesAssumption DEF Primary, Ctx

LEMMA ParkedCount ==
    ASSUME NEW c
    PROVE  Cardinality(Parked(c)) \in Nat
<1>1. IsFiniteSet(Parked(c))
  BY PiecesAssumption, FS_Subset DEF Parked
<1>. QED  BY <1>1, FS_CardinalityType

(***************************************************************************)
(* What the writes of the uploads table preserve.                          *)
(***************************************************************************)
StatusType == status \in [Ctx -> [Pieces -> Status]]
HashType   == txHash \in [Ctx -> [Pieces -> TxIds \cup {NoTx}]]
BeforeType == before \in [Ctx -> SUBSET (Pieces \X Pieces)]

LEMMA SetStatusType ==
    ASSUME StatusType, NEW c \in Ctx, NEW p \in Pieces, NEW s \in Status,
           SetStatus(c, p, s)
    PROVE  StatusType'
BY DEF SetStatus, StatusType

LEMMA SetStatusAllType ==
    ASSUME StatusType, NEW c \in Ctx, NEW B, NEW s \in Status, SetStatusAll(c, B, s)
    PROVE  StatusType'
BY DEF SetStatusAll, StatusType

LEMMA ParkType ==
    ASSUME StatusType, HashType, BeforeType, NEW c \in Ctx, NEW p \in Pieces,
           RecordUploadParked(c, p)
    PROVE  StatusType' /\ HashType' /\ BeforeType'
<1>1. StatusType'
  BY SetStatusType DEF RecordUploadParked, Status, LiveStatus
<1>2. HashType'
  BY DEF RecordUploadParked, HashType
<1>3. BeforeType'
  BY DEF RecordUploadParked, BeforeType
<1>. QED  BY <1>1, <1>2, <1>3

LEMMA MarkFailedType ==
    ASSUME StatusType, HashType, BeforeType, NEW c \in Ctx, NEW p \in Pieces,
           MarkUploadFailed(c, p)
    PROVE  StatusType' /\ HashType' /\ BeforeType'
BY SetStatusType DEF MarkUploadFailed, HashType, BeforeType, Status, LiveStatus

LEMMA FaultType ==
    ASSUME faults \in 0 .. MaxFaults, NEW k, Fault(k)
    PROVE  faults' \in 0 .. MaxFaults
BY BoundsAssumption DEF Fault

LEMMA RequeueType ==
    ASSUME StatusType, faults \in 0 .. MaxFaults,
           NEW c \in Ctx, NEW p \in Pieces, Requeue(c, p)
    PROVE  StatusType' /\ faults' \in 0 .. MaxFaults
BY SetStatusType, FaultType DEF Requeue, HasPiece, MissesPiece, Status, LiveStatus

LEMMA BroadcastType ==
    ASSUME txs \in [TxIds -> Tx], run \in 0 .. MaxRuns,
           NEW t \in TxIds, NEW c \in Ctx, NEW B \in SUBSET Pieces,
           Broadcast(t, c, B)
    PROVE  txs' \in [TxIds -> Tx]
<1>1. [state |-> "pending", ctx |-> c, pieces |-> B, run |-> run, landedIn |-> 0] \in Tx
  BY BoundsAssumption DEF Tx, TxState
<1>. QED  BY <1>1 DEF Broadcast

LEMMA LandType ==
    ASSUME txs \in [TxIds -> Tx], run \in 0 .. MaxRuns, NEW t \in TxIds, TxLands(t)
    PROVE  txs' \in [TxIds -> Tx]
<1>1. [txs[t] EXCEPT !.state = "landed", !.landedIn = run] \in Tx
  BY DEF Tx, TxState
<1>2. txs' = [txs EXCEPT ![t] = [txs[t] EXCEPT !.state = "landed", !.landedIn = run]]
  BY DEF TxLands
<1>. QED  BY <1>1, <1>2

LEMMA RevertType ==
    ASSUME txs \in [TxIds -> Tx], NEW t \in TxIds, TxReverts(t)
    PROVE  txs' \in [TxIds -> Tx]
<1>1. [txs[t] EXCEPT !.state = "reverted"] \in Tx
  BY DEF Tx, TxState
<1>2. txs' = [txs EXCEPT ![t] = [txs[t] EXCEPT !.state = "reverted"]]
  BY DEF TxReverts
<1>. QED  BY <1>1, <1>2

LEMMA PullType ==
    ASSUME TypeOK, NEW c \in Ctx, NEW p \in Pieces, PullToSecondary(c, p)
    PROVE  /\ StatusType' /\ HashType' /\ BeforeType'
           /\ held' \in [Ctx -> SUBSET Pieces]
           /\ faults' \in 0 .. MaxFaults
<1>1. StatusType /\ HashType /\ BeforeType
  BY DEF TypeOK, StatusType, HashType, BeforeType
<1>2. StatusType' /\ HashType' /\ BeforeType'
  BY <1>1, ParkType, MarkFailedType DEF PullToSecondary
<1>3. held' \in [Ctx -> SUBSET Pieces]
  BY DEF PullToSecondary, TypeOK
<1>4. faults' \in 0 .. MaxFaults
  BY FaultType DEF PullToSecondary, TypeOK
<1>. QED  BY <1>2, <1>3, <1>4

LEMMA StoreType ==
    ASSUME TypeOK, NEW p \in Pieces, StoreCar(p)
    PROVE  /\ StatusType' /\ HashType' /\ BeforeType'
           /\ held' \in [Ctx -> SUBSET Pieces]
           /\ faults' \in 0 .. MaxFaults
<1>1. StatusType /\ HashType /\ BeforeType
  BY DEF TypeOK, StatusType, HashType, BeforeType
<1>2. StatusType' /\ HashType' /\ BeforeType'
  BY <1>1, ParkType, PrimaryIsCtx DEF StoreCar
<1>3. held' \in [Ctx -> SUBSET Pieces]
  BY PrimaryIsCtx DEF StoreCar, TypeOK
<1>. QED  BY <1>2, <1>3 DEF StoreCar, TypeOK

(***************************************************************************)
(* Type correctness.                                                       *)
(***************************************************************************)
DbType == StatusType /\ HashType /\ BeforeType

ProcType ==
    /\ pc \in PC
    /\ ctx \in Ctx
    /\ cur \in (Ctx \X Pieces) \cup {NoCopy}
    /\ pc \in {"probe", "store", "pull"} => cur \in Ctx \X Pieces
    /\ todo \subseteq Ctx \X Pieces
    /\ named \in Pieces \cup {NoPiece}
    /\ tx \in TxIds \cup {NoTx}
    /\ source \in {"open", "drained"}
    /\ attempt \in 0 .. MaxAttempts
    /\ parkedBefore \in Nat

WorldType ==
    /\ staged \subseteq Pieces
    /\ held \in [Ctx -> SUBSET Pieces]
    /\ txs \in [TxIds -> Tx]
    /\ run \in 0 .. MaxRuns
    /\ faults \in 0 .. MaxFaults

LEMMA TypeParts == TypeOK <=> DbType /\ ProcType /\ WorldType
BY DEF TypeOK, DbType, StatusType, HashType, BeforeType, ProcType, WorldType

LEMMA TypeInit == Init => TypeOK
<1>. SUFFICES ASSUME Init PROVE TypeOK
  OBVIOUS
<1>. USE DEF Init
<1>1. DbType
  BY DEF DbType, StatusType, HashType, BeforeType, Status
<1>2. ProcType
  BY PrimaryIsCtx, AttemptsAssumption DEF ProcType, PC
<1>3. UnusedTx \in Tx
  BY BoundsAssumption DEF UnusedTx, Tx, TxState
<1>4. WorldType
  BY <1>3, BoundsAssumption DEF WorldType
<1>. QED  BY <1>1, <1>2, <1>4, TypeParts

LEMMA TypeNext == TypeOK /\ [Next]_vars => TypeOK'
<1>. SUFFICES ASSUME TypeOK, [Next]_vars
              PROVE  TypeOK'
  OBVIOUS
<1>0. DbType /\ ProcType /\ WorldType
  BY TypeParts
<1>. SUFFICES DbType' /\ ProcType' /\ WorldType'
  BY TypeParts, PTL
<1>. USE <1>0 DEF DbType, StatusType, HashType, BeforeType, ProcType, WorldType,
                  PC, dbVars, chainVars, loopVars
<1>1. CASE Start
  BY <1>1, BoundsAssumption DEF Start, Unconfirmed
<1>2. ASSUME NEW c \in Ctx, NEW p \in Pieces, ReconcileLanded(c, p)
      PROVE  DbType' /\ ProcType' /\ WorldType'
  BY <1>2, SetStatusType, FaultType DEF ReconcileLanded, Status, LiveStatus
<1>3. ASSUME NEW c \in Ctx, NEW p \in Pieces, ReconcileNotLanded(c, p)
      PROVE  DbType' /\ ProcType' /\ WorldType'
  BY <1>3 DEF ReconcileNotLanded
<1>4. CASE ReconcileProbe
  BY <1>4, RequeueType DEF ReconcileProbe, Status, LiveStatus
<1>5. CASE ReconcileDone
  BY <1>5 DEF ReconcileDone
<1>6. ASSUME NEW p \in Pieces, NextPiece(p)
      PROVE  DbType' /\ ProcType' /\ WorldType'
  BY <1>6, PrimaryIsCtx DEF NextPiece
<1>7. CASE SourceDrained
  BY <1>7 DEF SourceDrained
<1>8. CASE StorePiece
  BY <1>8, StoreType, PrimaryIsCtx, CopiesAssumption DEF StorePiece, FanOutFrom, Ctx
<1>9. CASE PullPiece
  BY <1>9, PullType, CopiesAssumption DEF PullPiece, FanOutFrom, Ctx
<1>10. CASE FlushStart
  BY <1>10, SetStatusAllType, ParkedCount DEF FlushStart, FlushBatches, Parked, Status,
     LiveStatus
<1>11. ASSUME NEW t \in TxIds, CommitAccepted(t)
      PROVE  DbType' /\ ProcType' /\ WorldType'
  BY <1>11, BroadcastType DEF CommitAccepted, Batch
<1>12. ASSUME NEW t \in TxIds, CommitAnswerLost(t)
      PROVE  DbType' /\ ProcType' /\ WorldType'
  BY <1>12, BroadcastType, FaultType DEF CommitAnswerLost, Batch
<1>13. CASE CommitRefused
  BY <1>13, FaultType DEF CommitRefused
<1>14. CASE CommitMissing
  BY <1>14, FaultType DEF CommitMissing, Batch
<1>15. CASE OnSubmitted
  BY <1>15 DEF OnSubmitted
<1>16. CASE Confirmed
  BY <1>16 DEF Confirmed
<1>17. CASE ConfirmError
  BY <1>17, FaultType DEF ConfirmError
<1>18. ASSUME NEW p \in Pieces, MarkCommitted(p)
      PROVE  DbType' /\ ProcType' /\ WorldType'
  BY <1>18, SetStatusType DEF MarkCommitted, Status, LiveStatus
<1>19. ASSUME NEW p \in Pieces, Reverify(p)
      PROVE  DbType' /\ ProcType' /\ WorldType'
  BY <1>19, SetStatusType, RequeueType DEF Reverify, Status, LiveStatus
<1>20. CASE FlushAgain
  BY <1>20 DEF FlushAgain
<1>21. CASE LeaveContext
  BY <1>21, CopiesAssumption, PrimaryIsCtx DEF LeaveContext, Ctx
<1>22. CASE RetryStart
  BY <1>22, AttemptsAssumption DEF RetryStart, NeedsRetry
<1>23. ASSUME NEW c \in Ctx, NEW p \in Pieces, RetryCopy(c, p)
      PROVE  DbType' /\ ProcType' /\ WorldType'
  BY <1>23, StoreType, PullType DEF RetryCopy
<1>24. CASE RetryFlush
  BY <1>24 DEF RetryFlush
<1>25. CASE Finish
  BY <1>25, AttemptsAssumption DEF Finish
<1>26. ASSUME NEW c \in Ctx, NEW p \in Pieces, Collect(c, p)
      PROVE  DbType' /\ ProcType' /\ WorldType'
  BY <1>26, FaultType DEF Collect
<1>27. ASSUME NEW t \in TxIds, TxLands(t)
      PROVE  DbType' /\ ProcType' /\ WorldType'
  BY <1>27, LandType DEF TxLands
<1>28. ASSUME NEW t \in TxIds, TxReverts(t)
      PROVE  DbType' /\ ProcType' /\ WorldType'
  BY <1>28, FaultType, RevertType DEF TxReverts
<1>29. CASE Crash
  BY <1>29, FaultType, PrimaryIsCtx, AttemptsAssumption DEF Crash
<1>30. CASE UNCHANGED vars
  BY <1>30 DEF vars
<1>. QED
  BY <1>1, <1>2, <1>3, <1>4, <1>5, <1>6, <1>7, <1>8, <1>9, <1>10, <1>11, <1>12, <1>13,
     <1>14, <1>15, <1>16, <1>17, <1>18, <1>19, <1>20, <1>21, <1>22, <1>23, <1>24, <1>25,
     <1>26, <1>27, <1>28, <1>29, <1>30
     DEF Next, Process, Environment, Reconcile, MainLoop, Flush, Retry

\* Every variable keeps its type in every behaviour, for any number of pieces,
\* copies, runs and faults.
THEOREM TypeCorrect == Spec => []TypeOK
BY TypeInit, TypeNext, PTL DEF Spec

-----------------------------------------------------------------------------
(***************************************************************************)
(* What the row writes change: one row, to one of a few values.            *)
(***************************************************************************)
OneRow(c, p) ==
    \A d \in Ctx, q \in Pieces : <<d, q>> # <<c, p>> =>
        status'[d][q] = status[d][q] /\ txHash'[d][q] = txHash[d][q]

LEMMA RequeueRow ==
    ASSUME TypeOK, NEW c \in Ctx, NEW p \in Pieces, Requeue(c, p), UNCHANGED txHash
    PROVE  OneRow(c, p) /\ status'[c][p] \in {"parked", "collected"}
BY DEF Requeue, SetStatus, OneRow, TypeOK

LEMMA StoreRow ==
    ASSUME TypeOK, NEW p \in Pieces, StoreCar(p)
    PROVE  OneRow(Primary, p) /\ status'[Primary][p] = "parked"
           /\ txHash'[Primary][p] = NoTx
BY PrimaryIsCtx DEF StoreCar, RecordUploadParked, SetStatus, OneRow, TypeOK

LEMMA PullRow ==
    ASSUME TypeOK, NEW c \in Ctx, NEW p \in Pieces, PullToSecondary(c, p)
    PROVE  OneRow(c, p) /\ status'[c][p] \in {"parked", "failed"}
           /\ txHash'[c][p] \in {NoTx, txHash[c][p]}
BY DEF PullToSecondary, RecordUploadParked, MarkUploadFailed, SetStatus, OneRow, TypeOK

LEMMA SetStatusRow ==
    ASSUME TypeOK, NEW c \in Ctx, NEW p \in Pieces, NEW s, SetStatus(c, p, s)
    PROVE  /\ \A d \in Ctx, q \in Pieces : <<d, q>> # <<c, p>> => status'[d][q] = status[d][q]
           /\ status'[c][p] = s
BY DEF SetStatus, TypeOK

SafeInv ==
    /\ TxWellFormed
    /\ HashWellFormed
    /\ BatchMarked
    /\ BatchCarried
    /\ ReconcileTodo
    /\ RetryTodo
    /\ CurrentCopy
    /\ PrimaryRowFirst
    /\ CommittedIsOnChain
    /\ EvictedIsSettled

\* A written row that was not committed, nor missing next to a committed primary,
\* leaves the conjuncts about whole columns intact.
LEMMA OneRowSafe ==
    ASSUME TypeOK, HashWellFormed, CommittedIsOnChain, EvictedIsSettled,
           NEW c \in Ctx, NEW p \in Pieces, OneRow(c, p),
           status'[c][p] # "committed",
           txHash'[c][p] \in {NoTx, txHash[c][p]},
           \E d \in Ctx : status[d][p] \notin {"none", "committed"} \/ status[Primary][p] # "committed",
           status'[c][p] # "none", PrimaryRowFirst, status[Primary][p] # "none" \/ c = Primary,
           UNCHANGED <<staged, txs>>
    PROVE  HashWellFormed' /\ CommittedIsOnChain' /\ EvictedIsSettled' /\ PrimaryRowFirst'
<1>. USE DEF OneRow, TypeOK, AddsOf, HashLanded
<1>1. HashWellFormed'
  BY DEF HashWellFormed
<1>2. CommittedIsOnChain'
  <2>. SUFFICES ASSUME NEW d \in Ctx, NEW q \in Pieces, status'[d][q] = "committed"
                PROVE  HashLanded(d, q)' /\ txHash'[d][q] \in AddsOf(d, q)'
    BY DEF CommittedIsOnChain
  <2>1. status[d][q] = "committed" /\ txHash'[d][q] = txHash[d][q]
    BY <<d, q>> # <<c, p>>
  <2>. QED  BY <2>1 DEF CommittedIsOnChain
<1>3. EvictedIsSettled'
  <2>1. p \in staged
    BY DEF EvictedIsSettled
  <2>2. \A d \in Ctx, q \in Pieces : q # p => status'[d][q] = status[d][q]
    OBVIOUS
  <2>. SUFFICES ASSUME NEW q \in Pieces \ staged
                PROVE  /\ status'[Primary][q] = "committed"
                       /\ \A d \in Ctx : status'[d][q] \in {"none", "committed"}
    BY DEF EvictedIsSettled
  <2>3. q # p
    BY <2>1
  <2>4. \A d \in Ctx : status'[d][q] = status[d][q]
    BY <2>2, <2>3
  <2>. QED  BY <2>4, PrimaryIsCtx DEF EvictedIsSettled
<1>4. PrimaryRowFirst'
  <2>. SUFFICES ASSUME NEW d \in Ctx, NEW q \in Pieces, status'[d][q] # "none"
                PROVE  status'[Primary][q] # "none"
    BY DEF PrimaryRowFirst
  <2>1. CASE <<Primary, q>> = <<c, p>>
    BY <2>1
  <2>2. CASE <<Primary, q>> # <<c, p>>
    <3>1. status'[Primary][q] = status[Primary][q]
      BY <2>2, PrimaryIsCtx
    <3>2. CASE <<d, q>> = <<c, p>>
      BY <2>2, <3>1, <3>2
    <3>3. CASE <<d, q>> # <<c, p>>
      <4>1. status[d][q] # "none"
        BY <3>3
      <4>. QED  BY <3>1, <4>1 DEF PrimaryRowFirst
    <3>. QED  BY <3>2, <3>3
  <2>. QED  BY <2>1, <2>2
<1>. QED  BY <1>1, <1>2, <1>3, <1>4

LEMMA SafeNext == IInv /\ [Next]_vars => SafeInv'
<1>. SUFFICES ASSUME IInv, [Next]_vars PROVE SafeInv'
  OBVIOUS
<1>. USE PrimaryIsCtx DEF IInv, SafeInv, dbVars, chainVars, loopVars, TxWellFormed, HashWellFormed, BatchMarked, BatchCarried, ReconcileTodo, RetryTodo, CurrentCopy, PrimaryRowFirst, CommittedIsOnChain, EvictedIsSettled, HashLanded, AddsOf
<1>1. CASE Start
  BY <1>1 DEF TypeOK, Start, Unconfirmed
<1>2. ASSUME NEW c \in Ctx, NEW p \in Pieces, ReconcileLanded(c, p) PROVE SafeInv'
  <2>1. status[c][p] = "add_unconfirmed" /\ UNCHANGED <<txHash, txs, staged, pc, cur, tx, ctx>>
    BY <1>2 DEF ReconcileLanded
  <2>2. /\ \A d \in Ctx, q \in Pieces : <<d, q>> # <<c, p>> => status'[d][q] = status[d][q]
        /\ status'[c][p] \in {"committed", "add_unconfirmed"}
    BY <1>2, <2>1, SetStatusRow DEF ReconcileLanded
  <2>3. CommittedIsOnChain'
    BY <1>2, <2>1, <2>2 DEF ReconcileLanded, NoTx
  <2>4. EvictedIsSettled' /\ PrimaryRowFirst'
    BY <2>1, <2>2
  <2>5. ReconcileTodo'
    BY <1>2, <2>1, <2>2 DEF ReconcileLanded
  <2>6. TxWellFormed' /\ HashWellFormed' /\ BatchMarked' /\ BatchCarried' /\ RetryTodo' /\ CurrentCopy'
    BY <1>2 DEF ReconcileLanded
  <2>. QED  BY <2>3, <2>4, <2>5, <2>6
<1>3. ASSUME NEW c \in Ctx, NEW p \in Pieces, ReconcileNotLanded(c, p) PROVE SafeInv'
  BY <1>3 DEF TypeOK, ReconcileNotLanded
<1>4. CASE ReconcileProbe
  <2>1. PICK c \in Ctx, p \in Pieces : cur = <<c, p>>
    BY <1>4 DEF ReconcileProbe, TypeOK
  <2>2. OneRow(c, p) /\ status'[c][p] \in {"parked", "collected"} /\ txHash' = txHash
    BY <1>4, <2>1, RequeueRow DEF ReconcileProbe
  <2>3. status[c][p] = "add_unconfirmed"
    BY <1>4, <2>1 DEF ReconcileProbe
  <2>4. HashWellFormed' /\ CommittedIsOnChain' /\ EvictedIsSettled' /\ PrimaryRowFirst'
    BY <1>4, <2>2, <2>3, OneRowSafe DEF ReconcileProbe
  <2>5. ReconcileTodo'
    BY <1>4, <2>1, <2>2 DEF ReconcileProbe, OneRow
  <2>6. TxWellFormed' /\ BatchMarked' /\ BatchCarried' /\ RetryTodo' /\ CurrentCopy'
    BY <1>4 DEF ReconcileProbe
  <2>. QED  BY <2>4, <2>5, <2>6
<1>5. CASE ReconcileDone
  BY <1>5 DEF TypeOK, ReconcileDone
<1>6. ASSUME NEW p \in Pieces, NextPiece(p) PROVE SafeInv'
  BY <1>6 DEF TypeOK, NextPiece, NeedingUpload
<1>7. CASE SourceDrained
  BY <1>7 DEF TypeOK, SourceDrained
<1>8. CASE StorePiece
  <2>1. PICK p \in Pieces : cur = <<Primary, p>>
    BY <1>8 DEF StorePiece, TypeOK
  <2>2. OneRow(Primary, p) /\ status'[Primary][p] = "parked" /\ txHash'[Primary][p] = NoTx
    BY <1>8, <2>1, StoreRow DEF StorePiece
  <2>3. status[Primary][p] # "committed"
    BY <1>8, <2>1 DEF StorePiece, LiveStatus
  <2>4. HashWellFormed' /\ CommittedIsOnChain' /\ EvictedIsSettled' /\ PrimaryRowFirst'
    BY <1>8, <2>2, <2>3, OneRowSafe DEF StorePiece
  <2>5. TxWellFormed' /\ BatchMarked' /\ BatchCarried' /\ ReconcileTodo' /\ RetryTodo'
    BY <1>8 DEF StorePiece, FanOutFrom
  <2>6. CurrentCopy'
    BY <1>8, <2>1, <2>2 DEF StorePiece, FanOutFrom, Primary
  <2>. QED  BY <2>4, <2>5, <2>6
<1>9. CASE PullPiece
  <2>1. PICK c \in Ctx, p \in Pieces : cur = <<c, p>>
    BY <1>9 DEF PullPiece, TypeOK
  <2>2. OneRow(c, p) /\ status'[c][p] \in {"parked", "failed"} /\ txHash'[c][p] \in {NoTx, txHash[c][p]}
    BY <1>9, <2>1, PullRow DEF PullPiece
  <2>3. c # Primary /\ status[Primary][p] = "parked"
    BY <1>9, <2>1 DEF PullPiece
  <2>4. HashWellFormed' /\ CommittedIsOnChain' /\ EvictedIsSettled' /\ PrimaryRowFirst'
    BY <1>9, <2>2, <2>3, OneRowSafe DEF PullPiece
  <2>5. TxWellFormed' /\ BatchMarked' /\ BatchCarried' /\ ReconcileTodo' /\ RetryTodo'
    BY <1>9 DEF PullPiece, FanOutFrom
  <2>6. status'[Primary][p] = "parked"
    BY <2>2, <2>3 DEF OneRow
  <2>7. CurrentCopy'
    BY <1>9, <2>1, <2>3, <2>6 DEF PullPiece, FanOutFrom, Primary, Ctx
  <2>. QED  BY <2>4, <2>5, <2>7
<1>10. CASE FlushStart
  BY <1>10 DEF TypeOK, FlushStart, SetStatusAll, FlushBatches, Parked
<1>11. ASSUME NEW t \in TxIds, CommitAccepted(t) PROVE SafeInv'
  <2>1. /\ UNCHANGED <<status, txHash, staged, ctx>>
        /\ txs[t].state = "unused" /\ ctx \in Ctx
        /\ Broadcast(t, ctx, Batch)
    BY <1>11 DEF CommitAccepted, FreshTx, TypeOK
  <2>2. \A u \in TxIds : u # t => txs'[u] = txs[u]
    BY <2>1 DEF Broadcast, TypeOK
  <2>3. txs'[t].state = "pending" /\ txs'[t].ctx = ctx /\ txs'[t].pieces = Batch
    BY <2>1 DEF Broadcast, TypeOK
  <2>4. \A c \in Ctx, p \in Pieces : t \notin AddsOf(c, p)
    BY <2>1 DEF UnusedTx
  <2>5. \A c \in Ctx, p \in Pieces : AddsOf(c, p) \subseteq AddsOf(c, p)'
    BY <2>2, <2>4
  <2>6. TxWellFormed'
    BY <2>2, <2>3
  <2>7. HashWellFormed'
    BY <2>1, <2>5
  <2>8. CommittedIsOnChain'
    BY <2>1, <2>2, <2>4, <2>5
  <2>9. BatchMarked' /\ BatchCarried'
    BY <1>11, <2>1, <2>3 DEF CommitAccepted, Batch, TypeOK
  <2>10. ReconcileTodo' /\ RetryTodo' /\ CurrentCopy' /\ EvictedIsSettled' /\ PrimaryRowFirst'
    BY <1>11 DEF CommitAccepted
  <2>. QED  BY <2>6, <2>7, <2>8, <2>9, <2>10
<1>12. ASSUME NEW t \in TxIds, CommitAnswerLost(t) PROVE SafeInv'
  <2>1. /\ UNCHANGED <<status, txHash, staged, ctx>>
        /\ txs[t].state = "unused" /\ ctx \in Ctx
        /\ Broadcast(t, ctx, Batch)
    BY <1>12 DEF CommitAnswerLost, FreshTx, TypeOK
  <2>2. \A u \in TxIds : u # t => txs'[u] = txs[u]
    BY <2>1 DEF Broadcast, TypeOK
  <2>3. txs'[t].state = "pending" /\ txs'[t].ctx = ctx /\ txs'[t].pieces = Batch
    BY <2>1 DEF Broadcast, TypeOK
  <2>4. \A c \in Ctx, p \in Pieces : t \notin AddsOf(c, p)
    BY <2>1 DEF UnusedTx
  <2>5. \A c \in Ctx, p \in Pieces : AddsOf(c, p) \subseteq AddsOf(c, p)'
    BY <2>2, <2>4
  <2>6. TxWellFormed'
    BY <2>2, <2>3
  <2>7. HashWellFormed'
    BY <2>1, <2>5
  <2>8. CommittedIsOnChain'
    BY <2>1, <2>2, <2>4, <2>5
  <2>9. BatchMarked' /\ BatchCarried'
    BY <1>12, <2>1, <2>3 DEF CommitAnswerLost, Batch, TypeOK
  <2>10. ReconcileTodo' /\ RetryTodo' /\ CurrentCopy' /\ EvictedIsSettled' /\ PrimaryRowFirst'
    BY <1>12 DEF CommitAnswerLost
  <2>. QED  BY <2>6, <2>7, <2>8, <2>9, <2>10
<1>13. CASE CommitRefused
  BY <1>13 DEF TypeOK, CommitRefused
<1>14. CASE CommitMissing
  BY <1>14 DEF TypeOK, CommitMissing
<1>15. CASE OnSubmitted
  BY <1>15 DEF TypeOK, OnSubmitted, Batch
<1>16. CASE Confirmed
  BY <1>16 DEF TypeOK, Confirmed
<1>17. CASE ConfirmError
  BY <1>17 DEF TypeOK, ConfirmError
<1>18. ASSUME NEW p \in Pieces, MarkCommitted(p) PROVE SafeInv'
  <2>1. /\ ctx \in Ctx /\ tx \in TxIds /\ tx \in AddsOf(ctx, p) /\ txs[tx].state = "landed"
        /\ status[ctx][p] = "add_unconfirmed"
        /\ UNCHANGED <<txs, staged, ctx, cur>>
    BY <1>18 DEF MarkCommitted, Batch, TypeOK
  <2>2. /\ \A d \in Ctx, q \in Pieces : <<d, q>> # <<ctx, p>> =>
              status'[d][q] = status[d][q] /\ txHash'[d][q] = txHash[d][q]
        /\ status'[ctx][p] = "committed" /\ txHash'[ctx][p] = tx
    BY <1>18, <2>1, SetStatusRow DEF MarkCommitted, TypeOK
  <2>3. HashWellFormed' /\ CommittedIsOnChain'
    BY <2>1, <2>2, TxAssumption DEF NoTx
  <2>4. EvictedIsSettled' /\ PrimaryRowFirst'
    BY <2>1, <2>2
  <2>5. BatchMarked'
    BY <1>18, <2>1, <2>2 DEF MarkCommitted
  <2>6. BatchCarried'
    BY <1>18 DEF MarkCommitted
  <2>7. TxWellFormed' /\ ReconcileTodo' /\ RetryTodo' /\ CurrentCopy'
    BY <1>18 DEF MarkCommitted
  <2>. QED  BY <2>3, <2>4, <2>5, <2>6, <2>7
<1>19. ASSUME NEW p \in Pieces, Reverify(p) PROVE SafeInv'
  <2>1. /\ OneRow(ctx, p)
        /\ status'[ctx][p] \in {"parked", "collected"}
        /\ txHash' = txHash
    BY <1>19, RequeueRow, SetStatusRow DEF Reverify, OneRow, TypeOK
  <2>2. ctx \in Ctx /\ status[ctx][p] = "add_unconfirmed"
    BY <1>19 DEF Reverify, Batch, TypeOK
  <2>3. HashWellFormed' /\ CommittedIsOnChain' /\ EvictedIsSettled' /\ PrimaryRowFirst'
    BY <1>19, <2>1, <2>2, OneRowSafe DEF Reverify
  <2>4. BatchMarked'
    BY <1>19, <2>1 DEF Reverify, OneRow
  <2>5. TxWellFormed' /\ BatchCarried' /\ ReconcileTodo' /\ RetryTodo' /\ CurrentCopy'
    BY <1>19 DEF Reverify
  <2>. QED  BY <2>3, <2>4, <2>5
<1>20. CASE FlushAgain
  BY <1>20 DEF TypeOK, FlushAgain
<1>21. CASE LeaveContext
  <2>1. UNCHANGED <<status, txHash, txs, cur, todo, tx>>
    BY <1>21 DEF LeaveContext
  <2>2. EvictedIsSettled'
    <3>1. ASSUME NEW p \in Pieces \ staged'
          PROVE  status[Primary][p] = "committed" /\ \A c \in Ctx : status[c][p] \in {"none", "committed"}
      <4>1. CASE p \notin staged
        BY <4>1, <3>1
      <4>2. CASE p \in FullyCommitted /\ p \in staged
        BY <4>2 DEF FullyCommitted, TypeOK
      <4>. QED  BY <1>21, <3>1, <4>1, <4>2 DEF LeaveContext
    <3>. QED  BY <2>1, <3>1
  <2>3. TxWellFormed' /\ HashWellFormed' /\ CommittedIsOnChain' /\ PrimaryRowFirst'
    BY <2>1
  <2>4. BatchMarked' /\ BatchCarried' /\ ReconcileTodo' /\ RetryTodo' /\ CurrentCopy'
    BY <1>21 DEF LeaveContext
  <2>. QED  BY <2>2, <2>3, <2>4
<1>22. CASE RetryStart
  BY <1>22 DEF TypeOK, RetryStart, NeedsRetry
<1>23. ASSUME NEW c \in Ctx, NEW p \in Pieces, RetryCopy(c, p) PROVE SafeInv'
  <2>1. /\ OneRow(c, p)
        /\ status'[c][p] \in {"parked", "failed"}
        /\ txHash'[c][p] \in {NoTx, txHash[c][p]}
    BY <1>23, StoreRow, PullRow DEF RetryCopy
  <2>2. status[c][p] \in {"collected", "failed"}
    BY <1>23 DEF RetryCopy
  <2>3. HashWellFormed' /\ CommittedIsOnChain' /\ EvictedIsSettled' /\ PrimaryRowFirst'
    BY <1>23, <2>1, <2>2, OneRowSafe DEF RetryCopy
  <2>4. RetryTodo'
    BY <1>23, <2>1 DEF RetryCopy, OneRow
  <2>5. TxWellFormed' /\ BatchMarked' /\ BatchCarried' /\ ReconcileTodo' /\ CurrentCopy'
    BY <1>23 DEF RetryCopy
  <2>. QED  BY <2>3, <2>4, <2>5
<1>24. CASE RetryFlush
  BY <1>24 DEF TypeOK, RetryFlush
<1>25. CASE Finish
  <2>1. UNCHANGED <<status, txHash, txs, cur, todo, tx>>
    BY <1>25 DEF Finish
  <2>2. EvictedIsSettled'
    <3>1. ASSUME NEW p \in Pieces \ staged'
          PROVE  status[Primary][p] = "committed" /\ \A c \in Ctx : status[c][p] \in {"none", "committed"}
      <4>1. CASE p \notin staged
        BY <4>1, <3>1
      <4>2. CASE p \in FullyCommitted /\ p \in staged
        BY <4>2 DEF FullyCommitted, TypeOK
      <4>. QED  BY <1>25, <3>1, <4>1, <4>2 DEF Finish
    <3>. QED  BY <2>1, <3>1
  <2>3. TxWellFormed' /\ HashWellFormed' /\ CommittedIsOnChain' /\ PrimaryRowFirst'
    BY <2>1
  <2>4. BatchMarked' /\ BatchCarried' /\ ReconcileTodo' /\ RetryTodo' /\ CurrentCopy'
    BY <1>25 DEF Finish
  <2>. QED  BY <2>2, <2>3, <2>4
<1>26. ASSUME NEW c \in Ctx, NEW p \in Pieces, Collect(c, p) PROVE SafeInv'
  BY <1>26 DEF TypeOK, Collect
<1>27. ASSUME NEW t \in TxIds, TxLands(t) PROVE SafeInv'
  BY <1>27 DEF TypeOK, TxLands
<1>28. ASSUME NEW t \in TxIds, TxReverts(t) PROVE SafeInv'
  BY <1>28 DEF TypeOK, TxReverts
<1>29. CASE Crash
  BY <1>29 DEF TypeOK, Crash
<1>30. CASE UNCHANGED vars
  BY <1>30 DEF vars
<1>. QED BY <1>1, <1>2, <1>3, <1>4, <1>5, <1>6, <1>7, <1>8, <1>9, <1>10, <1>11, <1>12,
   <1>13, <1>14, <1>15, <1>16, <1>17, <1>18, <1>19, <1>20, <1>21, <1>22, <1>23, <1>24,
   <1>25, <1>26, <1>27, <1>28, <1>29, <1>30 DEF Next, Process, Environment, Reconcile,
   MainLoop, Flush, Retry

LEMMA SafeInit == Init => IInv
<1>. SUFFICES ASSUME Init PROVE IInv
  OBVIOUS
<1>1. TypeOK
  BY TypeInit
<1>2. \A c \in Ctx, p \in Pieces : status[c][p] = "none" /\ txHash[c][p] = NoTx
  BY DEF Init
<1>3. TxWellFormed /\ HashWellFormed
  BY <1>2 DEF Init, TxWellFormed, HashWellFormed
<1>4. BatchMarked /\ BatchCarried /\ ReconcileTodo /\ RetryTodo /\ CurrentCopy
  BY DEF Init, BatchMarked, BatchCarried, ReconcileTodo, RetryTodo, CurrentCopy
<1>5. PrimaryRowFirst /\ CommittedIsOnChain /\ EvictedIsSettled
  BY <1>2 DEF Init, PrimaryRowFirst, CommittedIsOnChain, EvictedIsSettled
<1>. QED  BY <1>1, <1>3, <1>4, <1>5 DEF IInv

\* The inductive invariant holds throughout.
LEMMA Invariant == Spec => []IInv
<1>1. IInv /\ [Next]_vars => IInv'
  BY TypeNext, SafeNext DEF IInv, SafeInv
<1>. QED  BY SafeInit, <1>1, PTL DEF Spec

\* Neither a flush nor a resume, however many runs die in between, marks a row
\* committed that has no landed transaction of its own carrying the piece.
THEOREM CommittedOnChain == Spec => []CommittedIsOnChain
<1>1. IInv => CommittedIsOnChain
  BY DEF IInv
<1>. QED  BY Invariant, <1>1, PTL

\* evictCommitted never deletes a CAR some row still needs, and no later step
\* creates such a row.
THEOREM EvictedSettled == Spec => []EvictedIsSettled
<1>1. IInv => EvictedIsSettled
  BY DEF IInv
<1>. QED  BY Invariant, <1>1, PTL

\* The upload loop never opens a CAR that evictCommitted deleted.
THEOREM StoreHasBytes == Spec => []StoreHasItsBytes
<1>1. IInv => StoreHasItsBytes
  <2>. SUFFICES ASSUME IInv PROVE StoreHasItsBytes
    OBVIOUS
  <2>1. ASSUME pc = "store" PROVE cur[2] \in staged
    BY <2>1 DEF IInv, TypeOK, CurrentCopy, EvictedIsSettled, LiveStatus, NoCopy
  <2>2. ASSUME pc = "retry", NEW p \in Pieces, <<Primary, p>> \in todo PROVE p \in staged
    BY <2>2, PrimaryIsCtx DEF IInv, RetryTodo, EvictedIsSettled
  <2>. QED  BY <2>1, <2>2 DEF StoreHasItsBytes
<1>. QED  BY Invariant, <1>1, PTL

-----------------------------------------------------------------------------
(***************************************************************************)
(* What one run of the upload loop does at most once, and what it leaves   *)
(* of the adds of earlier runs.                                            *)
(***************************************************************************)
\* no add of this run carries p
NotSentYet(p) == \A t \in AddsOf(Primary, p) : txs[t].run # run

\* the parts of RunInv that speak of the transactions alone or of the phase
PhaseInv == AddsDated /\ ReconcileFirst /\ BatchUnsent /\ OneAddPerRun /\ ProbedNotLanded

LEMMA TxRunNat == TypeOK => run \in Nat /\ \A t \in TxIds : txs[t].run \in Nat /\ txs[t].landedIn \in Nat
BY BoundsAssumption DEF TypeOK, Tx

\* A row may leave add_unconfirmed and committed if no add of this run carries
\* its piece.
LEMMA RowRun ==
    ASSUME AddsMarked, NEW c \in Ctx, NEW p \in Pieces,
           \A d \in Ctx, q \in Pieces : <<d, q>> # <<c, p>> => status'[d][q] = status[d][q],
           \/ c # Primary
           \/ NotSentYet(p)
           \/ status'[c][p] \in {"add_unconfirmed", "committed"},
           UNCHANGED <<txs, run>>
    PROVE  AddsMarked'
<1>. SUFFICES ASSUME NEW q \in Pieces, NEW t \in AddsOf(Primary, q), txs[t].run = run
              PROVE  status'[Primary][q] \in {"add_unconfirmed", "committed"}
  BY DEF AddsMarked, AddsOf
<1>1. status[Primary][q] \in {"add_unconfirmed", "committed"}
  BY DEF AddsMarked
<1>2. CASE <<Primary, q>> = <<c, p>>
  BY <1>2 DEF NotSentYet
<1>3. CASE <<Primary, q>> # <<c, p>>
  BY <1>1, <1>3, PrimaryIsCtx
<1>. QED  BY <1>2, <1>3

\* While a run reconciles, it has sent nothing.
LEMMA NothingSent ==
    ASSUME TypeOK, ReconcileFirst, pc \in {"reconcile", "probe"}, NEW p \in Pieces
    PROVE  NotSentYet(p)
BY TxRunNat DEF ReconcileFirst, NotSentYet, AddsOf

LEMMA IdleRow ==
    ASSUME AddsMarked, NEW p \in Pieces,
           status[Primary][p] \notin {"add_unconfirmed", "committed"}
    PROVE  NotSentYet(p)
BY DEF AddsMarked, NotSentYet

\* One more add, of pieces this run had not sent and whose rows are marked.
LEMMA SendRun ==
    ASSUME IInv, RunInv, NEW t \in TxIds, FreshTx(t), pc = "commit",
           Broadcast(t, ctx, Batch), UNCHANGED <<status, run>>,
           pc' \notin {"reconcile", "probe", "commit", "reverify"}
    PROVE  RunInv'
<1>. USE DEF IInv, RunInv
<1>1. /\ txs'[t] = [state |-> "pending", ctx |-> ctx, pieces |-> Batch, run |-> run, landedIn |-> 0]
      /\ \A u \in TxIds : u # t => txs'[u] = txs[u]
  BY DEF Broadcast, TypeOK
<1>2. txs[t] = UnusedTx
  BY DEF FreshTx, TxWellFormed
<1>3. \A p \in Pieces : AddsOf(Primary, p)' = AddsOf(Primary, p) \cup (IF ctx = Primary /\ p \in Batch THEN {t} ELSE {})
  BY <1>1, <1>2 DEF AddsOf, UnusedTx, Primary
<1>4. \A p \in Batch : ctx = Primary => NotSentYet(p) /\ status[Primary][p] = "add_unconfirmed"
  BY DEF BatchUnsent, BatchMarked, Batch, NotSentYet, TypeOK
<1>5. \A p \in Pieces : t \notin AddsOf(Primary, p)
  BY <1>2 DEF AddsOf, UnusedTx, Primary
<1>6. AddsMarked'
  BY <1>1, <1>3, <1>4, <1>5 DEF AddsMarked, AddsOf
<1>7. AddsDated'
  BY <1>1, TxRunNat DEF AddsDated
<1>8. OneAddPerRun'
  <2>. SUFFICES ASSUME NEW p \in Pieces, NEW u \in AddsOf(Primary, p)', NEW v \in AddsOf(Primary, p)', u # v
                PROVE  txs'[u].run # txs'[v].run
    BY DEF OneAddPerRun
  <2>1. CASE u \in AddsOf(Primary, p) /\ v \in AddsOf(Primary, p)
    BY <1>1, <1>5, <2>1 DEF OneAddPerRun, AddsOf
  <2>2. CASE u = t \/ v = t
    BY <1>1, <1>3, <1>4, <1>5, <2>2 DEF NotSentYet, AddsOf
  <2>. QED  BY <1>3, <2>1, <2>2
<1>9. ReconcileFirst' /\ BatchUnsent' /\ ProbedNotLanded'
  BY DEF ReconcileFirst, BatchUnsent, ProbedNotLanded
<1>. QED  BY <1>6, <1>7, <1>8, <1>9

\* A transaction settles; what it carries and the run that sent it do not change.
LEMMA SettleRun ==
    ASSUME IInv, RunInv, NEW t \in TxIds, TxLands(t) \/ TxReverts(t)
    PROVE  RunInv'
<1>. USE DEF IInv, RunInv, dbVars, loopVars
<1>1. /\ \A u \in TxIds : /\ txs'[u].ctx = txs[u].ctx /\ txs'[u].pieces = txs[u].pieces
                          /\ txs'[u].run = txs[u].run
      /\ \A u \in TxIds : u # t => txs'[u] = txs[u]
      /\ txs'[t].state = "landed" => txs'[t].landedIn = run
      /\ UNCHANGED <<status, txHash, run, pc, todo, cur>>
  <2>1. CASE TxLands(t)
    BY <2>1 DEF TxLands, TypeOK, Tx
  <2>2. CASE TxReverts(t)
    BY <2>2 DEF TxReverts, TypeOK, Tx
  <2>. QED  BY <2>1, <2>2
<1>2. \A p \in Pieces : AddsOf(Primary, p)' = AddsOf(Primary, p)
  BY <1>1 DEF AddsOf
<1>3. \A p \in Pieces : AddsOf(Primary, p) \subseteq TxIds
  BY DEF AddsOf
<1>4. AddsMarked' /\ AddsDated' /\ ReconcileFirst' /\ BatchUnsent' /\ OneAddPerRun'
  BY <1>1, <1>2, <1>3 DEF AddsMarked, AddsDated, ReconcileFirst, BatchUnsent, OneAddPerRun
<1>5. ProbedNotLanded'
  <2>. SUFFICES ASSUME pc = "probe", HashLanded(cur[1], cur[2])'
                PROVE  ~(txs'[txHash[cur[1]][cur[2]]].landedIn < run)
    BY <1>1 DEF ProbedNotLanded
  <2>. DEFINE h == txHash[cur[1]][cur[2]]
  <2>1. h \in TxIds
    BY <1>1 DEF HashLanded, TypeOK
  <2>2. txs'[h].state = "landed"
    BY <1>1 DEF HashLanded
  <2>. HIDE DEF h
  <2>3. CASE h = t
    BY <1>1, <2>2, <2>3, TxRunNat DEF h
  <2>4. CASE h # t
    BY <1>1, <2>1, <2>2, <2>4 DEF ProbedNotLanded, HashLanded, h
  <2>. QED  BY <2>3, <2>4
<1>. QED  BY <1>4, <1>5

\* Steps that leave the transactions and the run alone keep what only they decide.
LEMMA SameAdds ==
    ASSUME TypeOK, RunInv, UNCHANGED <<txs, run>>
    PROVE  /\ AddsDated' /\ OneAddPerRun'
           /\ pc' \notin {"reconcile", "probe"} => ReconcileFirst'
           /\ pc \in {"reconcile", "probe"} => ReconcileFirst'
           /\ pc' \notin {"commit", "reverify"} => BatchUnsent'
           /\ pc' # "probe" => ProbedNotLanded'
BY DEF RunInv, AddsDated, OneAddPerRun, ReconcileFirst, BatchUnsent, ProbedNotLanded, AddsOf

LEMMA RunNext == IInv /\ RunInv /\ [Next]_vars => RunInv'
<1>. SUFFICES ASSUME IInv, RunInv, [Next]_vars PROVE RunInv'
  OBVIOUS
<1>. USE PrimaryIsCtx DEF RunInv, dbVars, chainVars, loopVars
<1>0. TypeOK
  BY DEF IInv
<1>1. ASSUME UNCHANGED <<status, txs, run>> PROVE AddsMarked'
  BY <1>1 DEF AddsMarked, AddsOf
<1>2. CASE Start
  <2>1. /\ UNCHANGED <<status, txs>> /\ run' = run + 1 /\ pc' = "reconcile"
    BY <1>2 DEF Start
  <2>2. \A t \in TxIds : txs'[t].run < run'
    BY <1>0, <2>1, TxRunNat DEF AddsDated
  <2>3. \A p \in Pieces : AddsOf(Primary, p)' = AddsOf(Primary, p) /\ AddsOf(Primary, p) \subseteq TxIds
    BY <2>1 DEF AddsOf
  <2>4. AddsMarked'
    BY <1>0, <2>1, <2>2, <2>3, TxRunNat DEF AddsMarked
  <2>5. AddsDated' /\ ReconcileFirst'
    BY <1>0, <2>1, <2>2, TxRunNat DEF AddsDated, ReconcileFirst
  <2>6. OneAddPerRun' /\ BatchUnsent' /\ ProbedNotLanded'
    BY <2>1, <2>3 DEF OneAddPerRun, BatchUnsent, ProbedNotLanded
  <2>. QED  BY <2>4, <2>5, <2>6
<1>3. ASSUME NEW c \in Ctx, NEW p \in Pieces, ReconcileLanded(c, p) PROVE RunInv'
  <2>1. UNCHANGED <<txs, run, pc>> /\ pc = "reconcile"
    BY <1>3 DEF ReconcileLanded
  <2>2. AddsMarked'
    BY <1>0, <1>1, <1>3, <2>1, NothingSent, SetStatusRow, RowRun DEF ReconcileLanded
  <2>. QED  BY <1>0, <2>1, <2>2, SameAdds
<1>4. ASSUME NEW c \in Ctx, NEW p \in Pieces, ReconcileNotLanded(c, p) PROVE RunInv'
  <2>1. UNCHANGED <<txs, txHash, run, status>> /\ pc = "reconcile" /\ pc' = "probe" /\ cur' = <<c, p>>
    BY <1>4 DEF ReconcileNotLanded
  <2>2. ProbedNotLanded'
    BY <1>4, <2>1 DEF ReconcileNotLanded, ProbedNotLanded, HashLanded
  <2>. QED  BY <1>0, <1>1, <2>1, <2>2, SameAdds
<1>5. CASE ReconcileProbe
  <2>1. PICK c \in Ctx, p \in Pieces : cur = <<c, p>>
    BY <1>0, <1>5 DEF ReconcileProbe, TypeOK
  <2>2. UNCHANGED <<txs, run>> /\ pc = "probe" /\ pc' = "reconcile"
    BY <1>5 DEF ReconcileProbe
  <2>3. AddsMarked'
    BY <1>0, <1>5, <2>1, <2>2, NothingSent, RequeueRow, RowRun DEF ReconcileProbe, OneRow
  <2>. QED  BY <1>0, <2>2, <2>3, SameAdds
<1>6. ASSUME NEW c \in Ctx, NEW p \in Pieces, UNCHANGED <<txs, run>>,
             c = Primary => status[Primary][p] \notin {"add_unconfirmed", "committed"},
             OneRow(c, p)
      PROVE  AddsMarked'
  BY <1>0, <1>6, IdleRow, RowRun DEF OneRow
<1>7. CASE StorePiece
  <2>1. PICK p \in Pieces : cur = <<Primary, p>>
    BY <1>0, <1>7 DEF IInv, CurrentCopy, StorePiece, TypeOK
  <2>2. status[Primary][p] \notin {"add_unconfirmed", "committed"}
    BY <1>7, <2>1 DEF IInv, CurrentCopy, StorePiece, LiveStatus
  <2>3. UNCHANGED <<txs, run>> /\ pc' \in {"pull", "flush"}
    BY <1>7 DEF StorePiece, FanOutFrom
  <2>4. AddsMarked'
    BY <1>0, <1>6, <1>7, <2>1, <2>2, <2>3, StoreRow DEF StorePiece
  <2>. QED  BY <1>0, <2>3, <2>4, SameAdds
<1>8. CASE PullPiece
  <2>1. PICK c \in Ctx, p \in Pieces : cur = <<c, p>>
    BY <1>0, <1>8 DEF PullPiece, TypeOK
  <2>2. c # Primary
    BY <1>8, <2>1 DEF IInv, CurrentCopy, PullPiece
  <2>3. UNCHANGED <<txs, run>> /\ pc' \in {"pull", "flush"}
    BY <1>8 DEF PullPiece, FanOutFrom
  <2>4. AddsMarked'
    BY <1>0, <1>6, <1>8, <2>1, <2>2, <2>3, PullRow DEF PullPiece
  <2>. QED  BY <1>0, <2>3, <2>4, SameAdds
<1>9. CASE FlushStart
  <2>1. PICK B \in FlushBatches(ctx) : SetStatusAll(ctx, B, "add_unconfirmed") /\ todo' = {ctx} \X B
    BY <1>9 DEF FlushStart
  <2>2. UNCHANGED <<txs, run>> /\ pc' = "commit"
    BY <1>9 DEF FlushStart
  <2>3. \A q \in Pieces : status'[Primary][q] = IF Primary = ctx /\ q \in B THEN "add_unconfirmed" ELSE status[Primary][q]
    BY <1>0, <2>1 DEF TypeOK, SetStatusAll
  <2>4. AddsMarked'
    BY <2>2, <2>3 DEF AddsMarked, AddsOf
  <2>5. ASSUME NEW q \in Pieces, <<Primary, q>> \in todo' PROVE NotSentYet(q)
    <3>1. ctx = Primary /\ q \in Parked(Primary)
      BY <2>1, <2>5 DEF FlushBatches
    <3>. QED  BY <3>1, IdleRow DEF Parked
  <2>6. BatchUnsent'
    BY <2>2, <2>5 DEF BatchUnsent, NotSentYet, AddsOf
  <2>. QED  BY <1>0, <2>2, <2>4, <2>6, SameAdds
<1>10. ASSUME NEW t \in TxIds, CommitAccepted(t) \/ CommitAnswerLost(t) PROVE RunInv'
  BY <1>10, SendRun DEF CommitAccepted, CommitAnswerLost
<1>11. ASSUME CommitRefused \/ OnSubmitted \/ Confirmed \/ ConfirmError \/ FlushAgain \/ LeaveContext
       PROVE  RunInv'
  <2>1. UNCHANGED <<txs, run, status>> /\ pc' \notin {"reconcile", "probe", "commit", "reverify"}
    BY <1>11 DEF CommitRefused, OnSubmitted, Confirmed, ConfirmError, FlushAgain,
       LeaveContext
  <2>. QED  BY <1>0, <1>1, <2>1, SameAdds
<1>12. CASE CommitMissing
  <2>1. UNCHANGED <<txs, run, status, todo>> /\ pc = "commit" /\ pc' = "reverify"
    BY <1>12 DEF CommitMissing
  <2>2. BatchUnsent'
    BY <2>1 DEF BatchUnsent, AddsOf
  <2>. QED  BY <1>0, <1>1, <2>1, <2>2, SameAdds
<1>13. ASSUME NEW p \in Pieces, MarkCommitted(p) PROVE RunInv'
  <2>1. UNCHANGED <<txs, run>> /\ pc' \in {"mark", "flushed"} /\ ctx \in Ctx
    BY <1>0, <1>13 DEF MarkCommitted, TypeOK
  <2>2. AddsMarked'
    BY <1>0, <1>13, <2>1, SetStatusRow, RowRun DEF MarkCommitted
  <2>. QED  BY <1>0, <2>1, <2>2, SameAdds
<1>14. ASSUME NEW p \in Pieces, Reverify(p) PROVE RunInv'
  <2>1. /\ UNCHANGED <<txs, txHash, run>> /\ pc = "reverify" /\ pc' \in {"reverify", "flushed"}
        /\ ctx \in Ctx /\ todo' \subseteq todo
    BY <1>0, <1>14 DEF Reverify, TypeOK
  <2>2. ctx = Primary => NotSentYet(p)
    BY <1>14, <2>1 DEF Reverify, Batch, BatchUnsent, NotSentYet
  <2>3. OneRow(ctx, p)
    BY <1>0, <1>14, <2>1, SetStatusRow, RequeueRow DEF Reverify, OneRow
  <2>4. AddsMarked'
    BY <2>1, <2>2, <2>3, RowRun DEF OneRow
  <2>5. BatchUnsent'
    BY <2>1 DEF BatchUnsent, AddsOf
  <2>. QED  BY <1>0, <2>1, <2>4, <2>5, SameAdds
<1>15. ASSUME NEW c \in Ctx, NEW p \in Pieces, RetryCopy(c, p) PROVE RunInv'
  <2>1. status[c][p] \in {"collected", "failed"}
    BY <1>15 DEF IInv, RetryTodo, RetryCopy
  <2>2. UNCHANGED <<txs, run>> /\ pc' = "retry"
    BY <1>15 DEF RetryCopy
  <2>3. OneRow(c, p)
    BY <1>0, <1>15, StoreRow, PullRow DEF RetryCopy
  <2>4. AddsMarked'
    BY <1>6, <2>1, <2>2, <2>3
  <2>. QED  BY <1>0, <2>2, <2>4, SameAdds
<1>16. ASSUME NEW t \in TxIds, TxLands(t) \/ TxReverts(t) PROVE RunInv'
  BY <1>16, SettleRun
<1>17. ASSUME \/ ReconcileDone \/ SourceDrained \/ RetryStart \/ RetryFlush \/ Finish \/ Crash
              \/ \E p \in Pieces : NextPiece(p)
       PROVE  RunInv'
  <2>1. UNCHANGED <<txs, run, status>> /\ pc' \notin {"reconcile", "probe", "commit", "reverify"}
    BY <1>17 DEF ReconcileDone, SourceDrained, RetryStart, RetryFlush, Finish, Crash,
       NextPiece
  <2>. QED  BY <1>0, <1>1, <2>1, SameAdds
<1>18. ASSUME UNCHANGED vars \/ \E c \in Ctx, p \in Pieces : Collect(c, p)
       PROVE  RunInv'
  <2>1. UNCHANGED <<txs, run, status, pc, todo, cur, txHash>>
    BY <1>18 DEF vars, Collect
  <2>2. BatchUnsent' /\ ProbedNotLanded' /\ ReconcileFirst'
    BY <2>1 DEF BatchUnsent, ProbedNotLanded, ReconcileFirst, AddsOf, HashLanded
  <2>. QED  BY <1>0, <1>1, <2>1, <2>2, SameAdds
<1>. QED
  BY <1>2, <1>3, <1>4, <1>5, <1>7, <1>8, <1>9, <1>10, <1>11, <1>12, <1>13, <1>14,
     <1>15, <1>16, <1>17, <1>18
     DEF Next, Process, Environment, Reconcile, MainLoop, Flush, Retry

LEMMA RunInit == Init => RunInv
<1>. SUFFICES ASSUME Init PROVE RunInv
  OBVIOUS
<1>1. \A p \in Pieces : AddsOf(Primary, p) = {}
  BY DEF Init, AddsOf, UnusedTx, Primary
<1>2. AddsDated
  BY DEF Init, AddsDated, UnusedTx
<1>. QED  BY <1>1, <1>2 DEF Init, RunInv, AddsMarked, ReconcileFirst, BatchUnsent,
          OneAddPerRun, ProbedNotLanded

\* Whatever errors its commits end in, one run never asks the primary twice to
\* add a piece.
THEOREM OneAdd == Spec => []OneAddPerRun
<1>1. RunInv => OneAddPerRun
  BY DEF RunInv
<1>. QED  BY Invariant, RunInit, RunNext, <1>1, PTL DEF Spec

\* The steps of a reconciling run that leave add_unconfirmed behind.
LEMMA ReconcileStep ==
    ASSUME IInv, RunInv, Next, NEW c \in Ctx, NEW p \in Pieces,
           pc \in {"reconcile", "probe"},
           status[c][p] = "add_unconfirmed",
           status'[c][p] \in {"parked", "collected"}
    PROVE  pc = "probe" /\ cur = <<c, p>>
<1>0. TypeOK
  BY DEF IInv
<1>1. ASSUME NEW d \in Ctx, NEW q \in Pieces, ReconcileLanded(d, q) PROVE FALSE
  BY <1>0, <1>1, SetStatusRow DEF ReconcileLanded
<1>2. CASE ReconcileProbe
  <2>1. PICK d \in Ctx, q \in Pieces : cur = <<d, q>>
    BY <1>0, <1>2 DEF ReconcileProbe, TypeOK
  <2>2. OneRow(d, q) /\ pc = "probe"
    BY <1>0, <1>2, <2>1, RequeueRow DEF ReconcileProbe
  <2>. QED  BY <2>1, <2>2 DEF OneRow
<1>3. ASSUME UNCHANGED status PROVE FALSE
  BY <1>3
<1>. QED
  BY <1>1, <1>2, <1>3 DEF Next, Process, Environment, Reconcile, MainLoop, Flush, Retry,
     dbVars, Start, ReconcileNotLanded, ReconcileDone, NextPiece, SourceDrained,
     StorePiece, PullPiece, FlushStart, CommitAccepted, CommitAnswerLost,
     CommitRefused, CommitMissing, OnSubmitted, Confirmed, ConfirmError,
     MarkCommitted, Reverify, FlushAgain, LeaveContext, RetryStart, RetryCopy,
     RetryFlush, Finish, Collect, TxLands, TxReverts, Crash

\* A row whose recorded add had landed before the run began is never re-queued
\* or re-stored by that run's reconciliation.
THEOREM ReceiptHonoured == Spec => ResumeHonoursReceipt
<1>. DEFINE Honours == \A c \in Ctx, p \in Pieces :
              /\ pc \in {"reconcile", "probe"}
              /\ status[c][p] = "add_unconfirmed"
              /\ status'[c][p] \in {"parked", "collected"}
              => ~(HashLanded(c, p) /\ txs[txHash[c][p]].landedIn < run)
<1>1. IInv /\ RunInv /\ [Next]_vars => [Honours]_vars
  <2>. SUFFICES ASSUME IInv, RunInv, Next PROVE Honours
    OBVIOUS
  <2>. QED  BY ReconcileStep DEF RunInv, ProbedNotLanded
<1>. QED  BY Invariant, RunInit, RunNext, <1>1, PTL DEF Spec, ResumeHonoursReceipt

-----------------------------------------------------------------------------
(***************************************************************************)
(* DirectUpload implements AddLedger on the primary provider.              *)
(***************************************************************************)
(* The refinement mapping. *)
Stage  == [p \in Pieces |-> StageOf(status[Primary][p])]
Sent   == {p \in Pieces : AddsOf(Primary, p) # {}}
Landed == {p \in Pieces : \E t \in AddsOf(Primary, p) : txs[t].state = "landed"}

LedgerStep == Ledger!Next \/ UNCHANGED <<Stage, Sent, Landed>>

LEMMA StageValue ==
    ASSUME NEW s
    PROVE  /\ s = "committed" => StageOf(s) = "confirmed"
           /\ s = "add_unconfirmed" => StageOf(s) = "attempted"
           /\ s \notin {"committed", "add_unconfirmed"} => StageOf(s) = "unsent"
BY DEF StageOf

LEMMA ChainSame ==
    ASSUME UNCHANGED txs
    PROVE  UNCHANGED <<Sent, Landed>>
BY DEF Sent, Landed, AddsOf

\* A step that neither touches the transactions nor moves a primary row between
\* stages is invisible.
LEMMA Invisible ==
    ASSUME UNCHANGED txs,
           \A p \in Pieces : StageOf(status'[Primary][p]) = StageOf(status[Primary][p])
    PROVE  LedgerStep
BY ChainSame DEF Stage, LedgerStep

\* A step that moves one row of the primary from attempted is a confirmation or
\* a withdrawal.
LEMMA RowMoves ==
    ASSUME TypeOK, NEW c \in Ctx, NEW p \in Pieces, UNCHANGED txs,
           status[c][p] = "add_unconfirmed",
           \A d \in Ctx, q \in Pieces : <<d, q>> # <<c, p>> => status'[d][q] = status[d][q],
           \/ status'[c][p] \in {"add_unconfirmed", "parked", "collected"}
           \/ status'[c][p] = "committed" /\ (c = Primary => p \in Landed)
    PROVE  LedgerStep
<1>1. CASE c # Primary \/ status'[c][p] = "add_unconfirmed"
  <2>1. \A q \in Pieces : status'[Primary][q] = status[Primary][q]
    BY <1>1, PrimaryIsCtx
  <2>. QED  BY <2>1, Invisible
<1>2. CASE c = Primary /\ status'[c][p] # "add_unconfirmed"
  <2>1. UNCHANGED <<Sent, Landed>>
    BY ChainSame
  <2>2. \A q \in Pieces : q # p => status'[Primary][q] = status[Primary][q]
    BY <1>2
  <2>3. Stage[p] = "attempted"
    BY <1>2, StageValue DEF Stage
  <2>4. Stage' = [q \in Pieces |-> StageOf(status'[Primary][q])]
    BY DEF Stage
  <2>5. ASSUME NEW s, StageOf(status'[Primary][p]) = s
        PROVE  Stage' = [Stage EXCEPT ![p] = s]
    BY <2>2, <2>4, <2>5 DEF Stage
  <2>6. CASE status'[c][p] = "committed"
    <3>1. Stage' = [Stage EXCEPT ![p] = "confirmed"]
      BY <1>2, <2>5, <2>6, StageValue
    <3>2. Ledger!Confirm(p)
      BY <1>2, <2>1, <2>3, <2>6, <3>1 DEF Ledger!Confirm, Stage, Sent, Landed
    <3>. QED  BY <3>2 DEF LedgerStep, Ledger!Next
  <2>7. CASE status'[c][p] \in {"parked", "collected"}
    <3>1. Stage' = [Stage EXCEPT ![p] = "unsent"]
      BY <1>2, <2>5, <2>7, StageValue
    <3>2. Ledger!Withdraw({p})
      BY <2>1, <2>3, <3>1 DEF Ledger!Withdraw, Stage, Sent, Landed
    <3>. QED  BY <3>2 DEF LedgerStep, Ledger!Next
  <2>. QED  BY <1>2, <2>6, <2>7
<1>. QED  BY <1>1, <1>2

\* A broadcast for a batch of the primary is announced there; any other is not.
LEMMA BroadcastMoves ==
    ASSUME IInv, NEW t \in TxIds, Broadcast(t, ctx, Batch), FreshTx(t),
           pc = "commit", UNCHANGED status
    PROVE  LedgerStep
<1>. USE DEF IInv
<1>1. /\ txs'[t] = [state |-> "pending", ctx |-> ctx, pieces |-> Batch, run |-> run, landedIn |-> 0]
      /\ \A u \in TxIds : u # t => txs'[u] = txs[u]
  BY DEF Broadcast, TypeOK
<1>2. txs[t] = UnusedTx
  BY DEF FreshTx, TxWellFormed
<1>3. \A p \in Pieces : AddsOf(Primary, p)' = AddsOf(Primary, p) \cup (IF ctx = Primary /\ p \in Batch THEN {t} ELSE {})
  BY <1>1, <1>2 DEF AddsOf, UnusedTx, Primary
<1>4. Stage' = Stage
  BY DEF Stage
<1>5. Landed' = Landed
  BY <1>1, <1>2, <1>3 DEF Landed, AddsOf, UnusedTx
<1>6. CASE ctx = Primary
  <2>1. Batch \in SUBSET Pieces
    BY DEF Batch
  <2>2. Sent' = Sent \cup Batch
    BY <1>3, <1>6, <2>1 DEF Sent
  <2>3. \A p \in Batch : Stage[p] = "attempted"
    BY <1>6, StageValue DEF BatchMarked, Batch, TypeOK, Stage
  <2>4. Ledger!Broadcast(Batch)
    BY <1>4, <1>5, <2>2, <2>3 DEF Ledger!Broadcast, Stage, Sent, Landed
  <2>. QED  BY <2>1, <2>4 DEF LedgerStep, Ledger!Next
<1>7. CASE ctx # Primary
  BY <1>3, <1>4, <1>5, <1>7 DEF LedgerStep, Sent
<1>. QED  BY <1>6, <1>7

LEMMA LandMoves ==
    ASSUME IInv, NEW t \in TxIds, TxLands(t)
    PROVE  LedgerStep
<1>. USE DEF IInv
<1>. DEFINE carried == {p \in Pieces : t \in AddsOf(Primary, p)}
<1>1. /\ txs'[t].state = "landed" /\ txs'[t].ctx = txs[t].ctx /\ txs'[t].pieces = txs[t].pieces
      /\ \A u \in TxIds : u # t => txs'[u] = txs[u]
      /\ status' = status
  BY DEF TxLands, TypeOK, Tx, dbVars
<1>2. \A p \in Pieces : AddsOf(Primary, p)' = AddsOf(Primary, p)
  BY <1>1 DEF AddsOf
<1>3. Stage' = Stage /\ Sent' = Sent
  BY <1>1, <1>2 DEF Stage, Sent
<1>4. carried \in SUBSET Pieces /\ carried \subseteq Sent
  BY DEF Sent
<1>5. Landed' = Landed \cup carried
  <2>1. \A u \in TxIds : txs'[u].state = "landed" <=> u = t \/ txs[u].state = "landed"
    BY <1>1
  <2>2. \A p \in Pieces : AddsOf(Primary, p) \subseteq TxIds
    BY DEF AddsOf
  <2>3. Landed' = {p \in Pieces : \E u \in AddsOf(Primary, p) : txs'[u].state = "landed"}
    BY <1>2 DEF Landed
  <2>. QED  BY <2>1, <2>2, <2>3 DEF Landed
<1>. HIDE DEF carried
<1>6. PICK S \in SUBSET Pieces : S = carried
  BY <1>4
<1>7. Ledger!Land(S)
  BY <1>3, <1>4, <1>5, <1>6 DEF Ledger!Land, Stage, Sent, Landed
<1>. QED  BY <1>7 DEF LedgerStep, Ledger!Next

LEMMA RevertMoves ==
    ASSUME IInv, NEW t \in TxIds, TxReverts(t)
    PROVE  LedgerStep
<1>1. /\ txs[t].state = "pending" /\ txs'[t].state = "reverted"
      /\ txs'[t].ctx = txs[t].ctx /\ txs'[t].pieces = txs[t].pieces
      /\ \A u \in TxIds : u # t => txs'[u] = txs[u]
      /\ status' = status
  BY DEF IInv, TxReverts, TypeOK, Tx, dbVars
<1>2. \A p \in Pieces : AddsOf(Primary, p)' = AddsOf(Primary, p)
  BY <1>1 DEF AddsOf
<1>3. Stage' = Stage /\ Sent' = Sent /\ Landed' = Landed
  BY <1>1, <1>2 DEF Stage, Sent, Landed, AddsOf
<1>. QED  BY <1>3 DEF LedgerStep

\* Writing the breadcrumb is the attempt.
LEMMA FlushMoves ==
    ASSUME IInv, FlushStart
    PROVE  LedgerStep
<1>1. PICK B \in FlushBatches(ctx) : SetStatusAll(ctx, B, "add_unconfirmed")
  BY DEF FlushStart
<1>2. B \in SUBSET Parked(ctx) /\ Parked(ctx) \in SUBSET Pieces
  BY DEF FlushBatches, Parked
<1>3. UNCHANGED txs
  BY DEF FlushStart, chainVars
<1>4. \A d \in Ctx, q \in Pieces :
        status'[d][q] = IF d = ctx /\ q \in B THEN "add_unconfirmed" ELSE status[d][q]
  BY <1>1 DEF IInv, TypeOK, SetStatusAll
<1>5. CASE ctx = Primary
  <2>1. \A p \in B : Stage[p] = "unsent"
    BY <1>2, <1>5, StageValue DEF Stage, Parked
  <2>2. \A p \in Pieces : StageOf(status'[Primary][p]) = IF p \in B THEN "attempted" ELSE StageOf(status[Primary][p])
    BY <1>4, <1>5, PrimaryIsCtx, StageValue
  <2>3. Stage' = [p \in Pieces |-> IF p \in B THEN "attempted" ELSE Stage[p]]
    BY <2>2 DEF Stage
  <2>4. UNCHANGED <<Sent, Landed>>
    BY <1>3, ChainSame
  <2>5. Ledger!Attempt(B)
    BY <2>1, <2>3, <2>4 DEF Ledger!Attempt, Stage, Sent, Landed
  <2>. QED  BY <1>2, <2>5 DEF LedgerStep, Ledger!Next
<1>6. CASE ctx # Primary
  <2>1. \A q \in Pieces : status'[Primary][q] = status[Primary][q]
    BY <1>4, <1>6, PrimaryIsCtx
  <2>. QED  BY <1>3, <2>1, Invisible
<1>. QED  BY <1>5, <1>6

\* Storing a piece leaves its primary row in the unsent stage it had.
LEMMA StoreMoves ==
    ASSUME TypeOK, NEW p \in Pieces, StoreCar(p), UNCHANGED txs,
           status[Primary][p] \notin {"add_unconfirmed", "committed"}
    PROVE  LedgerStep
<1>1. OneRow(Primary, p) /\ status'[Primary][p] = "parked"
  BY StoreRow
<1>2. \A q \in Pieces : q # p => status'[Primary][q] = status[Primary][q]
  BY <1>1, PrimaryIsCtx DEF OneRow
<1>3. StageOf(status'[Primary][p]) = StageOf(status[Primary][p])
  BY <1>1, StageValue
<1>. QED  BY <1>2, <1>3, Invisible

\* The rows of a secondary are invisible.
LEMMA PullMoves ==
    ASSUME TypeOK, NEW c \in Ctx, c # Primary, NEW p \in Pieces,
           PullToSecondary(c, p), UNCHANGED txs
    PROVE  LedgerStep
<1>1. \A q \in Pieces : status'[Primary][q] = status[Primary][q]
  BY PullRow, PrimaryIsCtx DEF OneRow
<1>. QED  BY <1>1, Invisible

LEMMA LandedRow ==
    ASSUME NEW p \in Pieces, NEW t \in AddsOf(Primary, p), txs[t].state = "landed"
    PROVE  p \in Landed
BY DEF Landed

LEMMA LedgerNext == IInv /\ [Next]_vars => LedgerStep
<1>. SUFFICES ASSUME IInv, [Next]_vars PROVE LedgerStep
  OBVIOUS
<1>. USE PrimaryIsCtx DEF dbVars, chainVars, loopVars
<1>0. TypeOK
  BY DEF IInv
<1>1. ASSUME UNCHANGED <<status, txs>> PROVE LedgerStep
  BY <1>1, Invisible
<1>2. ASSUME NEW c \in Ctx, NEW p \in Pieces, ReconcileLanded(c, p) PROVE LedgerStep
  <2>1. status[c][p] = "add_unconfirmed"
    BY <1>2 DEF IInv, ReconcileTodo, ReconcileLanded
  <2>2. CASE UNCHANGED status
    BY <1>1, <1>2, <2>2 DEF ReconcileLanded
  <2>3. CASE SetStatus(c, p, "committed")
    <3>1. c = Primary => p \in Landed
      BY <1>2, LandedRow DEF IInv, HashWellFormed, ReconcileLanded, HashLanded
    <3>. QED  BY <1>0, <1>2, <2>1, <2>3, <3>1, SetStatusRow, RowMoves DEF ReconcileLanded
  <2>. QED  BY <1>2, <2>2, <2>3 DEF ReconcileLanded
<1>3. CASE ReconcileProbe
  <2>1. PICK c \in Ctx, p \in Pieces : cur = <<c, p>>
    BY <1>0, <1>3 DEF ReconcileProbe, TypeOK
  <2>2. status[c][p] = "add_unconfirmed"
    BY <1>3, <2>1 DEF IInv, ReconcileTodo, ReconcileProbe
  <2>3. Requeue(c, p) /\ UNCHANGED <<txs, txHash>>
    BY <1>3, <2>1 DEF ReconcileProbe
  <2>. QED  BY <1>0, <2>2, <2>3, RequeueRow, RowMoves DEF OneRow
<1>4. CASE StorePiece
  <2>1. PICK p \in Pieces : cur = <<Primary, p>>
    BY <1>0, <1>4 DEF IInv, CurrentCopy, StorePiece, TypeOK
  <2>2. status[Primary][p] \notin {"add_unconfirmed", "committed"}
    BY <1>4, <2>1 DEF IInv, CurrentCopy, StorePiece, LiveStatus
  <2>. QED  BY <1>0, <1>4, <2>1, <2>2, StoreMoves DEF StorePiece
<1>5. CASE PullPiece
  <2>1. PICK c \in Ctx, p \in Pieces : cur = <<c, p>>
    BY <1>0, <1>5 DEF PullPiece, TypeOK
  <2>2. c # Primary
    BY <1>5, <2>1 DEF IInv, CurrentCopy, PullPiece
  <2>. QED  BY <1>0, <1>5, <2>1, <2>2, PullMoves DEF PullPiece
<1>6. CASE FlushStart
  BY <1>6, FlushMoves
<1>7. ASSUME NEW t \in TxIds, CommitAccepted(t) \/ CommitAnswerLost(t) PROVE LedgerStep
  BY <1>7, BroadcastMoves DEF CommitAccepted, CommitAnswerLost
<1>8. ASSUME NEW p \in Pieces, MarkCommitted(p) PROVE LedgerStep
  <2>1. ctx \in Ctx /\ status[ctx][p] = "add_unconfirmed"
    BY <1>0, <1>8 DEF IInv, BatchMarked, MarkCommitted, Batch, TypeOK
  <2>2. ctx = Primary => p \in Landed
    BY <1>8, LandedRow DEF IInv, BatchCarried, MarkCommitted, Batch
  <2>3. SetStatus(ctx, p, "committed") /\ UNCHANGED txs
    BY <1>8 DEF MarkCommitted
  <2>. QED  BY <1>0, <2>1, <2>2, <2>3, SetStatusRow, RowMoves
<1>9. ASSUME NEW p \in Pieces, Reverify(p) PROVE LedgerStep
  <2>1. ctx \in Ctx /\ status[ctx][p] = "add_unconfirmed"
    BY <1>0, <1>9 DEF IInv, BatchMarked, Reverify, Batch, TypeOK
  <2>2. UNCHANGED <<txs, txHash>>
    BY <1>9 DEF Reverify
  <2>3. CASE SetStatus(ctx, p, "collected")
    BY <1>0, <2>1, <2>2, <2>3, SetStatusRow, RowMoves
  <2>4. CASE Requeue(ctx, p)
    BY <1>0, <2>1, <2>2, <2>4, RequeueRow, RowMoves DEF OneRow
  <2>. QED  BY <1>9, <2>3, <2>4 DEF Reverify
<1>10. ASSUME NEW c \in Ctx, NEW p \in Pieces, RetryCopy(c, p) PROVE LedgerStep
  <2>1. status[c][p] \in {"collected", "failed"} /\ UNCHANGED txs
    BY <1>10 DEF IInv, RetryTodo, RetryCopy
  <2>2. CASE c = Primary
    BY <1>0, <1>10, <2>1, <2>2, StoreMoves DEF RetryCopy
  <2>3. CASE c # Primary
    BY <1>0, <1>10, <2>1, <2>3, PullMoves DEF RetryCopy
  <2>. QED  BY <2>2, <2>3
<1>11. ASSUME NEW t \in TxIds, TxLands(t) \/ TxReverts(t) PROVE LedgerStep
  BY <1>11, LandMoves, RevertMoves
<1>12. ASSUME \/ Start
              \/ \E c \in Ctx, p \in Pieces : ReconcileNotLanded(c, p)
              \/ ReconcileDone \/ SourceDrained \/ (\E p \in Pieces : NextPiece(p))
       PROVE  LedgerStep
  BY <1>1, <1>12 DEF Start, ReconcileNotLanded, ReconcileDone, SourceDrained, NextPiece
<1>13. ASSUME \/ CommitRefused \/ CommitMissing \/ OnSubmitted \/ Confirmed
              \/ ConfirmError \/ FlushAgain \/ LeaveContext
       PROVE  LedgerStep
  BY <1>1, <1>13 DEF CommitRefused, CommitMissing, OnSubmitted, Confirmed,
     ConfirmError, FlushAgain, LeaveContext
<1>14. ASSUME \/ RetryStart \/ RetryFlush \/ Finish \/ Crash \/ UNCHANGED vars
              \/ \E c \in Ctx, p \in Pieces : Collect(c, p)
       PROVE  LedgerStep
  BY <1>1, <1>14 DEF RetryStart, RetryFlush, Finish, Crash, vars, Collect
<1>. QED
  BY <1>2, <1>3, <1>4, <1>5, <1>6, <1>7, <1>8, <1>9, <1>10, <1>11, <1>12, <1>13, <1>14
     DEF Next, Process, Environment, Reconcile, MainLoop, Flush, Retry

LEMMA LedgerInit == Init => Ledger!Init
<1>. SUFFICES ASSUME Init PROVE Ledger!Init
  OBVIOUS
<1>1. \A p \in Pieces : status[Primary][p] = "none" /\ AddsOf(Primary, p) = {}
  BY PrimaryIsCtx DEF Init, AddsOf, UnusedTx
<1>. QED  BY <1>1, StageValue DEF Ledger!Init

\* The primary's rows and the adds broadcast for it behave as AddLedger says, in
\* every behaviour of the upload loop with any number of crashes and restarts.
THEOREM LedgerImplemented == Spec => PrimaryLedger
<1>1. IInv /\ [Next]_vars => [Ledger!Next]_(Ledger!vars)
  BY LedgerNext DEF LedgerStep, Stage, Sent, Landed, Ledger!vars
<1>. QED  BY Invariant, LedgerInit, <1>1, PTL DEF Spec, PrimaryLedger, Ledger!Spec
=============================================================================
