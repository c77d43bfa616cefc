---------------------------- MODULE SubmitPdpProofs ----------------------------
(* Theorems about SubmitPdp, for every value of its constants. *)
EXTENDS SubmitPdp, TLAPS

USE AggsAssumption, SmallAssumption, CapAssumption, TxAssumption, BoundAssumption

(***************************************************************************)
(* Type correctness.                                                       *)
(***************************************************************************)
LEMMA FaultType ==
    ASSUME faults \in 0 .. MaxFaults, NEW k, Fault(k)
    PROVE  faults' \in 0 .. MaxFaults
BY DEF Fault

LEMMA BroadcastType ==
    ASSUME TypeOK, NEW r \in Procs, NEW t \in TxIds, NEW own \in BOOLEAN,
           cur[r] \in Aggs, Broadcast(r, t, own)
    PROVE  txs' \in [TxIds -> Tx]
<1>0. rearms[cur[r]] \in 0 .. MaxRearms /\ seen[r].run \in 0 .. MaxStarts
  BY DEF TypeOK, Snapshot
<1>1. [state |-> "pending", agg |-> cur[r], own |-> own, era |-> rearms[cur[r]],
       run |-> seen[r].run, landedIn |-> 0] \in Tx
  BY <1>0 DEF Tx
<1>. QED  BY <1>1 DEF Broadcast, TypeOK

LEMMA LandType ==
    ASSUME TypeOK, NEW t \in TxIds, TxLands(t)
    PROVE  txs' \in [TxIds -> Tx]
<1>0. txs[t] \in Tx /\ starts \in 0 .. MaxStarts
  BY DEF TypeOK
<1>1. [txs[t] EXCEPT !.state = "landed", !.landedIn = starts] \in Tx
  BY <1>0 DEF Tx
<1>2. txs' = [txs EXCEPT ![t] = [txs[t] EXCEPT !.state = "landed", !.landedIn = starts]]
  BY DEF TxLands
<1>. QED  BY <1>1, <1>2 DEF TypeOK

LEMMA RevertType ==
    ASSUME TypeOK, NEW t \in TxIds, TxReverts(t)
    PROVE  txs' \in [TxIds -> Tx]
<1>1. [txs[t] EXCEPT !.state = "reverted"] \in Tx
  BY DEF Tx, TypeOK
<1>2. txs' = [txs EXCEPT ![t] = [txs[t] EXCEPT !.state = "reverted"]]
  BY DEF TxReverts
<1>. QED  BY <1>1, <1>2 DEF TypeOK

LEMMA SnapshotType ==
    ASSUME TypeOK, starts' \in 0 .. MaxStarts, NEW strict \in BOOLEAN
    PROVE  /\ [status |-> status, hash |-> txHash, strict |-> strict,
               run |-> starts'] \in Snapshot
           /\ NoSnapshot \in Snapshot
BY DEF TypeOK, Snapshot, NoSnapshot, Status

\* where a process may go, and with which row
LEMMA GotoType ==
    ASSUME TypeOK, NEW r \in Procs, NEW l \in PC, At(r, l) \/ cur[r] \in Aggs, Advance(r, l)
    PROVE  /\ pc' \in [Procs -> PC]
           /\ cur' \in [Procs -> Aggs \cup {NoAgg}]
           /\ \A s \in Procs : pc'[s] \notin {"idle", "next"} => cur'[s] \in Aggs
           /\ todo' \in [Procs -> SUBSET Aggs]
           /\ seen' \in [Procs -> Snapshot]
           /\ tx' \in [Procs -> TxIds \cup {NoTx}]
BY DEF TypeOK, Advance, Goto, At

LEMMA ContinueType ==
    ASSUME TypeOK, NEW r \in Procs, Continue(r)
    PROVE  /\ pc' \in [Procs -> PC]
           /\ cur' \in [Procs -> Aggs \cup {NoAgg}]
           /\ \A s \in Procs : pc'[s] \notin {"idle", "next"} => cur'[s] \in Aggs
           /\ todo' \in [Procs -> SUBSET Aggs]
           /\ seen' \in [Procs -> Snapshot]
           /\ tx' \in [Procs -> TxIds \cup {NoTx}]
BY DEF TypeOK, Continue, Goto, PC

LEMMA LeaveType ==
    ASSUME TypeOK, NEW r \in Procs, Leave(r)
    PROVE  /\ pc' \in [Procs -> PC]
           /\ cur' \in [Procs -> Aggs \cup {NoAgg}]
           /\ \A s \in Procs : pc'[s] \notin {"idle", "next"} => cur'[s] \in Aggs
           /\ todo' \in [Procs -> SUBSET Aggs]
           /\ seen' \in [Procs -> Snapshot]
           /\ tx' \in [Procs -> TxIds \cup {NoTx}]
<1>1. NoSnapshot \in Snapshot
  BY DEF TypeOK, Snapshot, NoSnapshot, Status
<1>. QED  BY <1>1 DEF TypeOK, Leave, Goto, PC

LEMMA MarkType ==
    ASSUME TypeOK, NEW a \in Aggs, NEW s \in Status, Mark(a, s)
    PROVE  /\ status' \in [Aggs -> Status]
           /\ txHash' \in [Aggs -> TxIds \cup {NoTx}]
           /\ block' \subseteq Aggs
BY DEF TypeOK, Mark, SetStatus

LEMMA CommitType ==
    ASSUME TypeOK, NEW a \in Aggs, NEW h \in TxIds \cup {NoTx}, NEW b \in BOOLEAN,
           MarkCommitted(a, h, b)
    PROVE  /\ status' \in [Aggs -> Status]
           /\ txHash' \in [Aggs -> TxIds \cup {NoTx}]
           /\ block' \subseteq Aggs
BY DEF TypeOK, MarkCommitted, SetStatus, Status

LEMMA TypeStep ==
    ASSUME TypeOK, NEW r \in Procs, Start(r) \/ Step(r) \/ Crash(r)
    PROVE  TypeOK'
<1>. USE DEF At, aggVars
<1>1. CASE RefuseSmall(r)
  BY <1>1, ContinueType, MarkType DEF RefuseSmall, TypeOK, Status
<1>2. CASE ResumeReceipt(r)
  BY <1>2, GotoType DEF ResumeReceipt, TypeOK, PC
<1>3. CASE ResumeUnconfirmed(r)
  BY <1>3, GotoType DEF ResumeUnconfirmed, TypeOK, PC
<1>4. CASE BeginPull(r)
  BY <1>4, GotoType, MarkType DEF BeginPull, TypeOK, Status, PC
<1>5. CASE ReceiptLanded(r)
  <2>1. SeenHash(r) \in TxIds \cup {NoTx} /\ cur[r] \in Aggs
    <3>1. cur[r] \in Aggs
      BY <1>5 DEF ReceiptLanded, TypeOK
    <3>2. seen[r].hash \in [Aggs -> TxIds \cup {NoTx}]
      BY DEF TypeOK, Snapshot
    <3>. QED  BY <3>1, <3>2 DEF SeenHash
  <2>2. faults' \in 0 .. MaxFaults
    BY <1>5, FaultType DEF ReceiptLanded, TypeOK
  <2>. QED  BY <1>5, <2>1, <2>2, GotoType, CommitType DEF ReceiptLanded, TypeOK, PC
<1>6. CASE ReconcileLanded(r)
  BY <1>6, GotoType, CommitType DEF ReconcileLanded, TypeOK, PC
<1>7. CASE ResumeNotLanded(r)
  BY <1>7, ContinueType DEF ResumeNotLanded, TypeOK
<1>8. CASE PullComplete(r)
  BY <1>8, GotoType, MarkType DEF PullComplete, TypeOK, Status, PC
<1>9. CASE PullFailed(r)
  BY <1>9, ContinueType, MarkType, FaultType DEF PullFailed, TypeOK, Status
<1>10. CASE AlreadyOnChain(r)
  BY <1>10, ContinueType, CommitType DEF AlreadyOnChain, TypeOK
<1>11. CASE Presign(r)
  BY <1>11, GotoType DEF Presign, TypeOK, PC
<1>12. CASE Breadcrumb(r)
  BY <1>12, GotoType, MarkType DEF Breadcrumb, TypeOK, Status, PC
<1>13. CASE AddRefused(r)
  BY <1>13, GotoType, FaultType DEF AddRefused, TypeOK, PC
<1>14. CASE PersistHash(r)
  BY <1>14, GotoType DEF PersistHash, TypeOK, PC
<1>15. CASE ErroredButLanded(r)
  BY <1>15, ContinueType, CommitType DEF ErroredButLanded, TypeOK
<1>16. CASE ErroredUnknown(r)
  BY <1>16, ContinueType, MarkType DEF ErroredUnknown, TypeOK, Status
<1>17. CASE AddDone(r)
  BY <1>17, GotoType DEF AddDone, TypeOK, PC
<1>18. CASE AddReverted(r)
  BY <1>18, ContinueType, MarkType DEF AddReverted, TypeOK, Status
<1>19. CASE ConfirmTimeout(r)
  BY <1>19, ContinueType, FaultType DEF ConfirmTimeout, TypeOK
<1>20. CASE EventMatches(r)
  BY <1>20, GotoType, CommitType DEF EventMatches, TypeOK, PC
<1>21. CASE EventMismatch(r)
  BY <1>21, ContinueType, MarkType DEF EventMismatch, TypeOK, Status
<1>22. CASE EventUnseen(r)
  BY <1>22, GotoType, CommitType, FaultType DEF EventUnseen, TypeOK, PC
<1>23. CASE Evict(r)
  BY <1>23, ContinueType DEF Evict, TypeOK
<1>24. CASE Stop(r)
  BY <1>24, LeaveType, FaultType DEF Stop, TypeOK
<1>25. CASE Crash(r)
  BY <1>25, LeaveType, FaultType DEF Crash, TypeOK
<1>26. CASE Start(r)
  BY <1>26, SnapshotType DEF Start, TypeOK, Goto, PC, Resumable
<1>27. ASSUME NEW a \in Aggs, Admit(r, a)
       PROVE  TypeOK'
  BY <1>27 DEF Admit, TypeOK, Goto, PC
<1>28. ASSUME NEW t \in TxIds, AddAccepted(r, t)
       PROVE  TypeOK'
  <2>1. txs' \in [TxIds -> Tx] /\ faults' \in 0 .. MaxFaults
    BY <1>28, BroadcastType, FaultType DEF AddAccepted, TypeOK
  <2>. QED  BY <1>28, <2>1 DEF AddAccepted, TypeOK, Goto, PC
<1>29. ASSUME NEW t \in TxIds, AddAnswerLost(r, t)
       PROVE  TypeOK'
  <2>1. txs' \in [TxIds -> Tx] /\ faults' \in 0 .. MaxFaults
    BY <1>29, BroadcastType, FaultType DEF AddAnswerLost, TypeOK
  <2>. QED  BY <1>29, <2>1, GotoType DEF AddAnswerLost, TypeOK, PC
<1>. QED
  BY <1>1, <1>2, <1>3, <1>4, <1>5, <1>6, <1>7, <1>8, <1>9, <1>10, <1>11, <1>12, <1>13,
     <1>14, <1>15, <1>16, <1>17, <1>18, <1>19, <1>20, <1>21, <1>22, <1>23, <1>24, <1>25,
     <1>26, <1>27, <1>28, <1>29
     DEF Step, LoopHead, Resume, PullAndAdd, Await

LEMMA TypeNext == TypeOK /\ [Next]_vars => TypeOK'
<1>. SUFFICES ASSUME TypeOK, [Next]_vars PROVE TypeOK'
  OBVIOUS
<1>1. ASSUME NEW r \in Procs, Start(r) \/ Step(r) \/ Crash(r)
      PROVE  TypeOK'
  BY <1>1, TypeStep
<1>2. CASE ResetFailed
  BY <1>2 DEF ResetFailed, TypeOK, procVars, Status
<1>3. CASE RetryUnconfirmed
  BY <1>3 DEF RetryUnconfirmed, Unconfirmed, TypeOK, procVars, Status
<1>4. ASSUME NEW t \in TxIds, TxLands(t)
      PROVE  TypeOK'
  BY <1>4, LandType DEF TxLands, TypeOK, aggVars, procVars
<1>5. ASSUME NEW t \in TxIds, TxReverts(t)
      PROVE  TypeOK'
  BY <1>5, RevertType, FaultType DEF TxReverts, TypeOK, aggVars, procVars
<1>6. CASE UNCHANGED vars
  BY <1>6 DEF vars, TypeOK
<1>. QED
  BY <1>1, <1>2, <1>3, <1>4, <1>5, <1>6 DEF Next, Environment

\* Every reachable state is well typed: the rows, the snapshot a run works on and
\* the process's place in runSubmitPdp stay in range.
THEOREM TypeCorrect == Spec => []TypeOK
<1>1. Init => TypeOK
  BY DEF Init, TypeOK, Status, PC, Tx, UnusedTx, Snapshot, NoSnapshot
<1>. QED
  BY <1>1, TypeNext, PTL DEF Spec

(***************************************************************************)
(* The rows: their hashes, what is committed, what is evicted.             *)
(***************************************************************************)
RowsInv == HashWellFormed /\ CommittedIsOnChain /\ EvictedIsCommitted

LEMMA RowsKept ==
    ASSUME RowsInv, UNCHANGED <<status, txHash, block, cached, txs>>
    PROVE  RowsInv'
BY DEF RowsInv, HashWellFormed, CommittedIsOnChain, EvictedIsCommitted, AddsOf, OnChain

\* a row that is not committed moves to another status that is not
LEMMA RowsMarked ==
    ASSUME TypeOK, RowsInv, NEW a \in Aggs, NEW s \in Status, s # "committed",
           status[a] # "committed", Mark(a, s), UNCHANGED <<cached, txs>>
    PROVE  RowsInv'
BY DEF TypeOK, RowsInv, HashWellFormed, CommittedIsOnChain, EvictedIsCommitted, AddsOf,
       OnChain, Mark, SetStatus

\* a row is committed whose root is active, or whose own add landed
LEMMA RowsCommitted ==
    ASSUME TypeOK, RowsInv, NEW a \in Aggs, NEW h \in TxIds \cup {NoTx},
           NEW b \in BOOLEAN, h = NoTx \/ h \in AddsOf(a),
           OnChain(a) \/ (~b /\ h # NoTx /\ txs[h].state = "landed"),
           MarkCommitted(a, h, b), UNCHANGED <<cached, txs>>
    PROVE  RowsInv'
<1>1. HashWellFormed'
  BY DEF TypeOK, RowsInv, HashWellFormed, AddsOf, MarkCommitted
<1>2. CommittedIsOnChain'
  BY DEF TypeOK, RowsInv, CommittedIsOnChain, AddsOf, OnChain, MarkCommitted, SetStatus
<1>3. EvictedIsCommitted'
  BY DEF TypeOK, RowsInv, EvictedIsCommitted, MarkCommitted, SetStatus
<1>. QED  BY <1>1, <1>2, <1>3 DEF RowsInv

\* a transaction moves on, but none that landed does
ChainGrows ==
    \A t \in TxIds : /\ txs[t].agg # NoAgg => txs'[t].agg = txs[t].agg
                     /\ txs[t].state = "landed" => txs'[t] = txs[t]

LEMMA RowsOnChain ==
    ASSUME RowsInv, UNCHANGED <<status, txHash, block, cached>>, ChainGrows
    PROVE  RowsInv'
<1>. USE DEF ChainGrows
<1>1. \A a \in Aggs : AddsOf(a) \subseteq AddsOf(a)'
  BY DEF AddsOf, NoAgg
<1>2. \A a \in Aggs : OnChain(a) => OnChain(a)'
  BY <1>1 DEF OnChain, AddsOf
<1>3. HashWellFormed'
  BY <1>1 DEF RowsInv, HashWellFormed
<1>4. CommittedIsOnChain'
  <2>. SUFFICES ASSUME NEW a \in Aggs, status[a] = "committed", ~OnChain(a)
                PROVE  /\ a \notin block /\ txHash[a] # NoTx
                       /\ txs'[txHash[a]].state = "landed"
    BY <1>2 DEF CommittedIsOnChain
  <2>1. /\ a \notin block /\ txHash[a] # NoTx
        /\ txs[txHash[a]].state = "landed"
    BY DEF RowsInv, CommittedIsOnChain
  <2>2. txHash[a] \in TxIds
    BY <2>1 DEF RowsInv, HashWellFormed, AddsOf
  <2>. QED  BY <2>1, <2>2
<1>5. EvictedIsCommitted'
  BY DEF RowsInv, EvictedIsCommitted
<1>. QED  BY <1>3, <1>4, <1>5 DEF RowsInv

(***************************************************************************)
(* The work: what a process knows of the row and the transaction it has in *)
(* hand, and of the rows it has not come to yet.                           *)
(***************************************************************************)
WorkInv == SnapshotCurrent /\ RowUnderWork /\ TxUnderWork

\* a step that changes no row but the one in hand, and takes up no new one
LEMMA OthersKept ==
    ASSUME TypeOK, SnapshotCurrent, RowUnderWork, NEW r \in Procs, Procs = {r},
           \A a \in Aggs \ {cur[r]} : status'[a] = status[a] /\ txHash'[a] = txHash[a],
           NEW l \in PC \ {"admitted"}, Advance(r, l) \/ Continue(r)
    PROVE  SnapshotCurrent'
BY DEF TypeOK, SnapshotCurrent, RowUnderWork, Advance, Continue, Goto, At, Resumable

\* a step that changes nothing of the row or the transaction in hand
LEMMA NothingInHand ==
    ASSUME TypeOK, WorkInv, NEW r \in Procs, Procs = {r}, Continue(r)
    PROVE  RowUnderWork' /\ TxUnderWork'
BY DEF TypeOK, WorkInv, RowUnderWork, TxUnderWork, Continue, Goto, At, NoAgg

LEMMA RowsStep ==
    ASSUME TypeOK, TxWellFormed, RowsInv, WorkInv, NEW r \in Procs, Procs = {r},
           Start(r) \/ Step(r) \/ Crash(r)
    PROVE  RowsInv' /\ WorkInv'
<1>. USE DEF At
<1>0. pc[r] \notin {"idle", "next"} => cur[r] \in Aggs
  BY DEF TypeOK
<1>1. CASE RefuseSmall(r)
  <2>0. status[cur[r]] # "committed"
    BY <1>1, <1>0 DEF RefuseSmall, WorkInv, SnapshotCurrent, RowUnderWork, Resumable,
       InFlightStatus
  <2>1. RowsInv'
    BY <1>1, <1>0, <2>0, RowsMarked DEF RefuseSmall, Status
  <2>2. SnapshotCurrent'
    BY <1>1, OthersKept DEF RefuseSmall, Mark, SetStatus, WorkInv, TypeOK, PC
  <2>3. RowUnderWork' /\ TxUnderWork'
    BY <1>1, NothingInHand DEF RefuseSmall
  <2>. QED  BY <2>1, <2>2, <2>3 DEF WorkInv
<1>2. CASE ResumeReceipt(r)
  <2>1. RowsInv'
    BY <1>2, RowsKept DEF ResumeReceipt, aggVars
  <2>2. SnapshotCurrent'
    BY <1>2, OthersKept DEF ResumeReceipt, aggVars, WorkInv, TypeOK, PC
  <2>3. RowUnderWork'
    <3>1. /\ SeenHash(r) # NoTx /\ txHash[cur[r]] = SeenHash(r)
          /\ status[cur[r]] # "committed"
      BY <1>2, <1>0 DEF ResumeReceipt, WorkInv, SnapshotCurrent, SeenHash, Resumable,
         InFlightStatus
    <3>2. SeenHash(r)' = SeenHash(r) /\ cur' = cur /\ todo' = todo
      BY <1>2 DEF ResumeReceipt, Advance, SeenHash
    <3>. QED  BY <1>2, <3>1, <3>2 DEF ResumeReceipt, aggVars, WorkInv, TypeOK, RowUnderWork,
               Advance, Goto
  <2>4. TxUnderWork'
    BY <1>2, <1>0 DEF ResumeReceipt, aggVars, WorkInv, TypeOK, TxUnderWork, Advance, Goto,
       AddsOf
  <2>. QED  BY <2>1, <2>2, <2>3, <2>4 DEF WorkInv
<1>3. CASE ResumeUnconfirmed(r)
  <2>1. RowsInv'
    BY <1>3, RowsKept DEF ResumeUnconfirmed, aggVars
  <2>2. SnapshotCurrent'
    BY <1>3, OthersKept DEF ResumeUnconfirmed, aggVars, WorkInv, TypeOK, PC
  <2>3. RowUnderWork'
    <3>1. status[cur[r]] = "add_unconfirmed"
      BY <1>3, <1>0 DEF ResumeUnconfirmed, WorkInv, SnapshotCurrent, SeenHash, SeenStatus,
         Resumable, InFlightStatus
    <3>. QED  BY <1>3, <3>1 DEF ResumeUnconfirmed, aggVars, WorkInv, TypeOK, RowUnderWork,
               Advance, Goto
  <2>4. TxUnderWork'
    BY <1>3, <1>0 DEF ResumeUnconfirmed, aggVars, WorkInv, TypeOK, TxUnderWork, Advance,
       Goto, AddsOf
  <2>. QED  BY <2>1, <2>2, <2>3, <2>4 DEF WorkInv
<1>4. CASE BeginPull(r)
  <2>0. status[cur[r]] # "committed"
    BY <1>4, <1>0 DEF BeginPull, WorkInv, SnapshotCurrent, RowUnderWork, Resumable,
       InFlightStatus
  <2>1. RowsInv'
    BY <1>4, <1>0, <2>0, RowsMarked DEF BeginPull, Status
  <2>2. SnapshotCurrent'
    BY <1>4, OthersKept DEF BeginPull, Mark, SetStatus, WorkInv, TypeOK, PC
  <2>3. RowUnderWork'
    BY <1>4, <1>0 DEF BeginPull, Mark, SetStatus, WorkInv, TypeOK, RowUnderWork, Advance,
       Goto, Status
  <2>4. TxUnderWork'
    BY <1>4, <1>0 DEF BeginPull, Mark, SetStatus, WorkInv, TypeOK, TxUnderWork, Advance,
       Goto, AddsOf
  <2>. QED  BY <2>1, <2>2, <2>3, <2>4 DEF WorkInv
<1>5. CASE ReceiptLanded(r)
  <2>0. txHash[cur[r]] = SeenHash(r) /\ SeenHash(r) \in AddsOf(cur[r])
    BY <1>5, <1>0 DEF ReceiptLanded, RowsInv, HashWellFormed, WorkInv, RowUnderWork
  <2>1. RowsInv'
    BY <1>5, <1>0, <2>0, RowsCommitted DEF ReceiptLanded, AddsOf
  <2>2. SnapshotCurrent'
    BY <1>5, OthersKept DEF ReceiptLanded, MarkCommitted, SetStatus, WorkInv, TypeOK, PC
  <2>3. RowUnderWork'
    BY <1>5, <1>0 DEF ReceiptLanded, MarkCommitted, SetStatus, WorkInv, TypeOK,
       RowUnderWork, Advance, Goto
  <2>4. TxUnderWork'
    BY <1>5, <1>0 DEF ReceiptLanded, MarkCommitted, SetStatus, WorkInv, TypeOK,
       TxUnderWork, Advance, Goto, AddsOf
  <2>. QED  BY <2>1, <2>2, <2>3, <2>4 DEF WorkInv
<1>6. CASE ReconcileLanded(r)
  <2>1. RowsInv'
    BY <1>6, <1>0, RowsCommitted DEF ReconcileLanded
  <2>2. SnapshotCurrent'
    BY <1>6, OthersKept DEF ReconcileLanded, MarkCommitted, SetStatus, WorkInv, TypeOK, PC
  <2>3. RowUnderWork'
    BY <1>6, <1>0 DEF ReconcileLanded, MarkCommitted, SetStatus, WorkInv, TypeOK,
       RowUnderWork, Advance, Goto
  <2>4. TxUnderWork'
    BY <1>6, <1>0 DEF ReconcileLanded, MarkCommitted, SetStatus, WorkInv, TypeOK,
       TxUnderWork, Advance, Goto, AddsOf
  <2>. QED  BY <2>1, <2>2, <2>3, <2>4 DEF WorkInv
<1>7. CASE ResumeNotLanded(r)
  <2>1. RowsInv'
    BY <1>7, RowsKept DEF ResumeNotLanded, aggVars
  <2>2. SnapshotCurrent'
    BY <1>7, OthersKept DEF ResumeNotLanded, aggVars, WorkInv, TypeOK, PC
  <2>3. RowUnderWork' /\ TxUnderWork'
    BY <1>7, NothingInHand DEF ResumeNotLanded
  <2>. QED  BY <2>1, <2>2, <2>3 DEF WorkInv
<1>8. CASE PullComplete(r)
  <2>0. status[cur[r]] # "committed"
    BY <1>8, <1>0 DEF PullComplete, WorkInv, SnapshotCurrent, RowUnderWork, Resumable,
       InFlightStatus
  <2>1. RowsInv'
    BY <1>8, <1>0, <2>0, RowsMarked DEF PullComplete, Status
  <2>2. SnapshotCurrent'
    BY <1>8, OthersKept DEF PullComplete, Mark, SetStatus, WorkInv, TypeOK, PC
  <2>3. RowUnderWork'
    BY <1>8, <1>0 DEF PullComplete, Mark, SetStatus, WorkInv, TypeOK, RowUnderWork,
       Advance, Goto
  <2>4. TxUnderWork'
    BY <1>8, <1>0 DEF PullComplete, Mark, SetStatus, WorkInv, TypeOK, TxUnderWork,
       Advance, Goto, AddsOf
  <2>. QED  BY <2>1, <2>2, <2>3, <2>4 DEF WorkInv
<1>9. CASE PullFailed(r)
  <2>0. status[cur[r]] # "committed"
    BY <1>9, <1>0 DEF PullFailed, WorkInv, SnapshotCurrent, RowUnderWork, Resumable,
       InFlightStatus
  <2>1. RowsInv'
    BY <1>9, <1>0, <2>0, RowsMarked DEF PullFailed, Status
  <2>2. SnapshotCurrent'
    BY <1>9, OthersKept DEF PullFailed, Mark, SetStatus, WorkInv, TypeOK, PC
  <2>3. RowUnderWork' /\ TxUnderWork'
    BY <1>9, NothingInHand DEF PullFailed
  <2>. QED  BY <2>1, <2>2, <2>3 DEF WorkInv
<1>10. CASE AlreadyOnChain(r)
  <2>1. RowsInv'
    BY <1>10, <1>0, RowsCommitted DEF AlreadyOnChain
  <2>2. SnapshotCurrent'
    BY <1>10, OthersKept DEF AlreadyOnChain, MarkCommitted, SetStatus, WorkInv, TypeOK, PC
  <2>3. RowUnderWork' /\ TxUnderWork'
    BY <1>10, NothingInHand DEF AlreadyOnChain
  <2>. QED  BY <2>1, <2>2, <2>3 DEF WorkInv
<1>11. CASE Presign(r)
  <2>1. RowsInv'
    BY <1>11, RowsKept DEF Presign, aggVars
  <2>2. SnapshotCurrent'
    BY <1>11, OthersKept DEF Presign, aggVars, WorkInv, TypeOK, PC
  <2>3. RowUnderWork'
    BY <1>11, <1>0 DEF Presign, aggVars, WorkInv, TypeOK, RowUnderWork, Advance, Goto
  <2>4. TxUnderWork'
    BY <1>11, <1>0 DEF Presign, aggVars, WorkInv, TypeOK, TxUnderWork, Advance, Goto, AddsOf
  <2>. QED  BY <2>1, <2>2, <2>3, <2>4 DEF WorkInv
<1>12. CASE Breadcrumb(r)
  <2>0. status[cur[r]] # "committed"
    BY <1>12, <1>0 DEF Breadcrumb, WorkInv, SnapshotCurrent, RowUnderWork, Resumable,
       InFlightStatus
  <2>1. RowsInv'
    BY <1>12, <1>0, <2>0, RowsMarked DEF Breadcrumb, Status
  <2>2. SnapshotCurrent'
    BY <1>12, OthersKept DEF Breadcrumb, Mark, SetStatus, WorkInv, TypeOK, PC
  <2>3. RowUnderWork'
    BY <1>12, <1>0 DEF Breadcrumb, Mark, SetStatus, WorkInv, TypeOK, RowUnderWork,
       Advance, Goto
  <2>4. TxUnderWork'
    BY <1>12, <1>0 DEF Breadcrumb, Mark, SetStatus, WorkInv, TypeOK, TxUnderWork, Advance,
       Goto, AddsOf
  <2>. QED  BY <2>1, <2>2, <2>3, <2>4 DEF WorkInv
<1>13. CASE AddRefused(r)
  <2>1. RowsInv'
    BY <1>13, RowsKept DEF AddRefused, aggVars
  <2>2. SnapshotCurrent'
    BY <1>13, OthersKept DEF AddRefused, aggVars, WorkInv, TypeOK, PC
  <2>3. RowUnderWork'
    BY <1>13, <1>0 DEF AddRefused, aggVars, WorkInv, TypeOK, RowUnderWork, Advance, Goto
  <2>4. TxUnderWork'
    BY <1>13, <1>0 DEF AddRefused, aggVars, WorkInv, TypeOK, TxUnderWork, Advance, Goto,
       AddsOf
  <2>. QED  BY <2>1, <2>2, <2>3, <2>4 DEF WorkInv
<1>14. CASE PersistHash(r)
  <2>0. tx[r] \in AddsOf(cur[r]) /\ status[cur[r]] # "committed"
    BY <1>14 DEF PersistHash, WorkInv, TxUnderWork, RowUnderWork
  <2>1. RowsInv'
    BY <1>14, <1>0, <2>0 DEF PersistHash, TypeOK, RowsInv, HashWellFormed,
       CommittedIsOnChain,
       EvictedIsCommitted, AddsOf, OnChain
  <2>2. SnapshotCurrent'
    BY <1>14, OthersKept DEF PersistHash, WorkInv, TypeOK, PC
  <2>3. RowUnderWork'
    BY <1>14, <1>0 DEF PersistHash, WorkInv, TypeOK, RowUnderWork, Advance, Goto
  <2>4. TxUnderWork'
    BY <1>14, <1>0 DEF PersistHash, WorkInv, TypeOK, TxUnderWork, Advance, Goto, AddsOf
  <2>. QED  BY <2>1, <2>2, <2>3, <2>4 DEF WorkInv
<1>15. CASE ErroredButLanded(r)
  <2>1. RowsInv'
    BY <1>15, <1>0, RowsCommitted DEF ErroredButLanded
  <2>2. SnapshotCurrent'
    BY <1>15, OthersKept DEF ErroredButLanded, MarkCommitted, SetStatus, WorkInv, TypeOK, PC
  <2>3. RowUnderWork' /\ TxUnderWork'
    BY <1>15, NothingInHand DEF ErroredButLanded
  <2>. QED  BY <2>1, <2>2, <2>3 DEF WorkInv
<1>16. CASE ErroredUnknown(r)
  <2>0. status[cur[r]] # "committed"
    BY <1>16, <1>0 DEF ErroredUnknown, WorkInv, SnapshotCurrent, RowUnderWork, Resumable,
       InFlightStatus
  <2>1. RowsInv'
    BY <1>16, <1>0, <2>0, RowsMarked DEF ErroredUnknown, Status
  <2>2. SnapshotCurrent'
    BY <1>16, OthersKept DEF ErroredUnknown, Mark, SetStatus, WorkInv, TypeOK, PC
  <2>3. RowUnderWork' /\ TxUnderWork'
    BY <1>16, NothingInHand DEF ErroredUnknown
  <2>. QED  BY <2>1, <2>2, <2>3 DEF WorkInv
<1>17. CASE AddDone(r)
  <2>1. RowsInv'
    BY <1>17, RowsKept DEF AddDone, aggVars
  <2>2. SnapshotCurrent'
    BY <1>17, OthersKept DEF AddDone, aggVars, WorkInv, TypeOK, PC
  <2>3. RowUnderWork'
    BY <1>17, <1>0 DEF AddDone, aggVars, WorkInv, TypeOK, RowUnderWork, Advance, Goto
  <2>4. TxUnderWork'
    BY <1>17, <1>0 DEF AddDone, aggVars, WorkInv, TypeOK, TxUnderWork, Advance, Goto, AddsOf
  <2>. QED  BY <2>1, <2>2, <2>3, <2>4 DEF WorkInv
<1>18. CASE AddReverted(r)
  <2>0. status[cur[r]] # "committed"
    BY <1>18, <1>0 DEF AddReverted, WorkInv, SnapshotCurrent, RowUnderWork, Resumable,
       InFlightStatus
  <2>1. RowsInv'
    BY <1>18, <1>0, <2>0, RowsMarked DEF AddReverted, Status
  <2>2. SnapshotCurrent'
    BY <1>18, OthersKept DEF AddReverted, Mark, SetStatus, WorkInv, TypeOK, PC
  <2>3. RowUnderWork' /\ TxUnderWork'
    BY <1>18, NothingInHand DEF AddReverted
  <2>. QED  BY <2>1, <2>2, <2>3 DEF WorkInv
<1>19. CASE ConfirmTimeout(r)
  <2>1. RowsInv'
    BY <1>19, RowsKept DEF ConfirmTimeout, aggVars
  <2>2. SnapshotCurrent'
    BY <1>19, OthersKept DEF ConfirmTimeout, aggVars, WorkInv, TypeOK, PC
  <2>3. RowUnderWork' /\ TxUnderWork'
    BY <1>19, NothingInHand DEF ConfirmTimeout
  <2>. QED  BY <2>1, <2>2, <2>3 DEF WorkInv
<1>20. CASE EventMatches(r)
  <2>0. tx[r] \in AddsOf(cur[r]) /\ txs[tx[r]].state = "landed" /\ OnChain(cur[r])
    BY <1>20 DEF EventMatches, WorkInv, TxUnderWork, OnChain
  <2>1. RowsInv'
    BY <1>20, <1>0, <2>0, RowsCommitted DEF EventMatches, AddsOf
  <2>2. SnapshotCurrent'
    BY <1>20, OthersKept DEF EventMatches, MarkCommitted, SetStatus, WorkInv, TypeOK, PC
  <2>3. RowUnderWork'
    BY <1>20, <1>0 DEF EventMatches, MarkCommitted, SetStatus, WorkInv, TypeOK,
       RowUnderWork, Advance, Goto
  <2>4. TxUnderWork'
    BY <1>20, <1>0 DEF EventMatches, MarkCommitted, SetStatus, WorkInv, TypeOK,
       TxUnderWork, Advance, Goto, AddsOf
  <2>. QED  BY <2>1, <2>2, <2>3, <2>4 DEF WorkInv
<1>21. CASE EventMismatch(r)
  <2>0. status[cur[r]] # "committed"
    BY <1>21, <1>0 DEF EventMismatch, WorkInv, SnapshotCurrent, RowUnderWork, Resumable,
       InFlightStatus
  <2>1. RowsInv'
    BY <1>21, <1>0, <2>0, RowsMarked DEF EventMismatch, Status
  <2>2. SnapshotCurrent'
    BY <1>21, OthersKept DEF EventMismatch, Mark, SetStatus, WorkInv, TypeOK, PC
  <2>3. RowUnderWork' /\ TxUnderWork'
    BY <1>21, NothingInHand DEF EventMismatch
  <2>. QED  BY <2>1, <2>2, <2>3 DEF WorkInv
<1>22. CASE EventUnseen(r)
  <2>0. tx[r] \in AddsOf(cur[r]) /\ txs[tx[r]].state = "landed" /\ tx[r] # NoTx
    BY <1>22 DEF EventUnseen, WorkInv, TxUnderWork, NoTx
  <2>1. RowsInv'
    BY <1>22, <1>0, <2>0, RowsCommitted DEF EventUnseen, AddsOf
  <2>2. SnapshotCurrent'
    BY <1>22, OthersKept DEF EventUnseen, MarkCommitted, SetStatus, WorkInv, TypeOK, PC
  <2>3. RowUnderWork'
    BY <1>22, <1>0 DEF EventUnseen, MarkCommitted, SetStatus, WorkInv, TypeOK,
       RowUnderWork, Advance, Goto
  <2>4. TxUnderWork'
    BY <1>22, <1>0 DEF EventUnseen, MarkCommitted, SetStatus, WorkInv, TypeOK,
       TxUnderWork, Advance, Goto, AddsOf
  <2>. QED  BY <2>1, <2>2, <2>3, <2>4 DEF WorkInv
<1>23. CASE Evict(r)
  <2>1. RowsInv'
    BY <1>23 DEF Evict, aggVars, WorkInv, RowUnderWork, RowsInv, HashWellFormed,
       CommittedIsOnChain, EvictedIsCommitted, AddsOf, OnChain
  <2>2. SnapshotCurrent'
    BY <1>23, OthersKept DEF Evict, aggVars, WorkInv, TypeOK, PC
  <2>3. RowUnderWork' /\ TxUnderWork'
    BY <1>23, NothingInHand DEF Evict
  <2>. QED  BY <2>1, <2>2, <2>3 DEF WorkInv
<1>24. CASE Stop(r)
  <2>1. RowsInv'
    BY <1>24, RowsKept DEF Stop, aggVars
  <2>2. WorkInv'
    BY <1>24 DEF Stop, Leave, Goto, aggVars, TypeOK, WorkInv, SnapshotCurrent,
       RowUnderWork, TxUnderWork
  <2>. QED  BY <2>1, <2>2
<1>25. CASE Crash(r)
  <2>1. RowsInv'
    BY <1>25, RowsKept DEF Crash, aggVars
  <2>2. WorkInv'
    BY <1>25 DEF Crash, Leave, Goto, aggVars, TypeOK, WorkInv, SnapshotCurrent,
       RowUnderWork, TxUnderWork
  <2>. QED  BY <2>1, <2>2
<1>26. CASE Start(r)
  <2>1. RowsInv'
    BY <1>26, RowsKept DEF Start, aggVars
  <2>2. SnapshotCurrent'
    BY <1>26 DEF Start, Goto, aggVars, TypeOK, SnapshotCurrent, Resumable
  <2>4. RowUnderWork' /\ TxUnderWork'
    BY <1>26 DEF Start, Goto, aggVars, TypeOK, WorkInv, RowUnderWork, TxUnderWork,
       Resumable, NoAgg
  <2>. QED  BY <2>1, <2>2, <2>4 DEF WorkInv
<1>27. ASSUME NEW a \in Aggs, Admit(r, a)
       PROVE  RowsInv' /\ WorkInv'
  <2>1. RowsInv'
    BY <1>27, RowsKept DEF Admit, aggVars
  <2>2. SnapshotCurrent'
    <3>1. a \in todo[r] /\ todo'[r] \subseteq todo[r] /\ cur'[r] = a
      BY <1>27 DEF Admit, TypeOK
    <3>. QED  BY <1>27, <3>1 DEF Admit, aggVars, WorkInv, SnapshotCurrent, Resumable
  <2>3. RowUnderWork' /\ TxUnderWork'
    BY <1>27 DEF Admit, Goto, aggVars, TypeOK, WorkInv, RowUnderWork, TxUnderWork
  <2>. QED  BY <2>1, <2>2, <2>3 DEF WorkInv
<1>28. ASSUME NEW t \in TxIds, AddAccepted(r, t)
       PROVE  RowsInv' /\ WorkInv'
  <2>0. ChainGrows
    BY <1>28 DEF ChainGrows, AddAccepted, FreshTx, Broadcast, TypeOK, TxWellFormed, UnusedTx
  <2>1. RowsInv'
    BY <1>28, <2>0, RowsOnChain DEF AddAccepted, aggVars
  <2>2. SnapshotCurrent'
    BY <1>28 DEF AddAccepted, Advance, Goto, aggVars, TypeOK, WorkInv, SnapshotCurrent,
       Resumable
  <2>3. RowUnderWork'
    BY <1>28, <1>0 DEF AddAccepted, Advance, Goto, aggVars, TypeOK, WorkInv, RowUnderWork
  <2>4. TxUnderWork'
    BY <1>28, <1>0 DEF AddAccepted, Advance, Broadcast, Goto, aggVars, TypeOK, WorkInv,
       TxUnderWork, AddsOf
  <2>. QED  BY <2>1, <2>2, <2>3, <2>4 DEF WorkInv
<1>29. ASSUME NEW t \in TxIds, AddAnswerLost(r, t)
       PROVE  RowsInv' /\ WorkInv'
  <2>0. ChainGrows
    BY <1>29 DEF ChainGrows, AddAnswerLost, FreshTx, Broadcast, TypeOK, TxWellFormed,
       UnusedTx
  <2>1. RowsInv'
    BY <1>29, <2>0, RowsOnChain DEF AddAnswerLost, aggVars
  <2>2. SnapshotCurrent'
    BY <1>29 DEF AddAnswerLost, Advance, Goto, aggVars, TypeOK, WorkInv, SnapshotCurrent,
       Resumable
  <2>3. RowUnderWork'
    BY <1>29, <1>0 DEF AddAnswerLost, Advance, Goto, aggVars, TypeOK, WorkInv, RowUnderWork
  <2>4. TxUnderWork'
    BY <1>29, <1>0 DEF AddAnswerLost, Advance, Broadcast, Goto, aggVars, TypeOK, WorkInv,
       TxUnderWork, AddsOf
  <2>. QED  BY <2>1, <2>2, <2>3, <2>4 DEF WorkInv
<1>. QED
  BY <1>1, <1>2, <1>3, <1>4, <1>5, <1>6, <1>7, <1>8, <1>9, <1>10, <1>11, <1>12, <1>13,
     <1>14, <1>15, <1>16, <1>17, <1>18, <1>19, <1>20, <1>21, <1>22, <1>23, <1>24, <1>25,
     <1>26, <1>27, <1>28, <1>29
     DEF Step, LoopHead, Resume, PullAndAdd, Await

(***************************************************************************)
(* The adds: none is sent twice between two re-arms, none after a landing. *)
(***************************************************************************)
ChainInv == TxWellFormed /\ AddsDated /\ OneAddPerRearm /\ NoAddAfterLanding
SendInv  == NotAddedYet /\ AddNotSentYet /\ LookedFirst

LEMMA ChainKept ==
    ASSUME ChainInv, UNCHANGED <<txs, rearms, starts, seen>>
    PROVE  ChainInv'
BY DEF ChainInv, TxWellFormed, AddsDated, OneAddPerRearm, NoAddAfterLanding, AddsOf

\* the process leaves the row in hand, and no row is moved towards an add
LEMMA SendKept ==
    ASSUME TypeOK, SendInv, NEW r \in Procs, Procs = {r}, UNCHANGED <<txs, rearms>>,
           pc'[r] \notin {"presigned", "add"}, NotAddedYet'
    PROVE  SendInv'
BY DEF SendInv, AddNotSentYet, LookedFirst, At

LEMMA NotAddedKept ==
    ASSUME NotAddedYet, UNCHANGED <<status, txHash, txs, rearms>>
    PROVE  NotAddedYet'
BY DEF NotAddedYet, AddsOf

\* the row in hand gets a status that says nothing about its adds, or it has
\* been on its way to an add all along, or it has the hash of its add
LEMMA NotAddedMarked ==
    ASSUME TypeOK, NotAddedYet, NEW a \in Aggs, NEW s \in Status, SetStatus(a, s),
           \A b \in Aggs \ {a} : txHash'[b] = txHash[b], UNCHANGED <<txs, rearms>>,
           \/ s \in {"add_unconfirmed", "committed"}
           \/ /\ txHash'[a] = txHash[a] /\ txHash[a] = NoTx
              /\ status[a] \in {"planned", "submitted", "parked"}
           \/ s = "failed" /\ txHash'[a] = txHash[a] /\ txHash[a] # NoTx
    PROVE  NotAddedYet'
BY DEF TypeOK, NotAddedYet, AddsOf, SetStatus, Status

LEMMA BroadcastKeepsChain ==
    ASSUME TypeOK, ChainInv, SendInv, NEW r \in Procs, At(r, "add"), cur[r] \in Aggs,
           NEW t \in TxIds, FreshTx(t), NEW own \in BOOLEAN, Broadcast(r, t, own),
           UNCHANGED <<rearms, starts, seen>>
    PROVE  ChainInv'
<1>1. /\ txs'[t] = [state |-> "pending", agg |-> cur[r], own |-> own,
                    era |-> rearms[cur[r]], run |-> seen[r].run, landedIn |-> 0]
      /\ \A u \in TxIds \ {t} : txs'[u] = txs[u]
  BY DEF Broadcast, TypeOK
<1>2. TxWellFormed'
  BY <1>1 DEF ChainInv, TxWellFormed
<1>3. AddsDated'
  BY <1>1 DEF ChainInv, AddsDated, TypeOK
<1>4. OneAddPerRearm'
  <2>. SUFFICES ASSUME NEW a \in Aggs, NEW u \in TxIds, NEW v \in TxIds, u # v,
                       txs'[u].agg = a, txs'[v].agg = a
                PROVE  txs'[u].era # txs'[v].era
    BY DEF OneAddPerRearm, AddsOf
  <2>1. \A w \in AddsOf(cur[r]) : txs[w].era # rearms[cur[r]]
    BY DEF SendInv, AddNotSentYet
  <2>2. txs'[t].agg = cur[r] /\ txs'[t].era = rearms[cur[r]]
    BY <1>1
  <2>3. \A w \in TxIds \ {t} : txs'[w].agg = txs[w].agg /\ txs'[w].era = txs[w].era
    BY <1>1
  <2>4. CASE u = t
    <3>1. txs[v].agg = cur[r] /\ txs'[v].era = txs[v].era
      BY <2>2, <2>3, <2>4
    <3>. QED  BY <2>1, <2>2, <2>4, <3>1 DEF AddsOf
  <2>5. CASE v = t
    <3>1. txs[u].agg = cur[r] /\ txs'[u].era = txs[u].era
      BY <2>2, <2>3, <2>5
    <3>. QED  BY <2>1, <2>2, <2>5, <3>1 DEF AddsOf
  <2>6. CASE u # t /\ v # t
    <3>1. txs[u].agg = a /\ txs[v].agg = a
      BY <2>3, <2>6
    <3>2. txs[u].era # txs[v].era
      BY <3>1 DEF ChainInv, OneAddPerRearm, AddsOf
    <3>. QED  BY <2>3, <2>6, <3>2
  <2>. QED  BY <2>4, <2>5, <2>6
<1>5. NoAddAfterLanding'
  <2>. SUFFICES ASSUME NEW a \in Aggs, NEW v \in TxIds, NEW u \in TxIds, u # v,
                       txs'[v].agg = a, txs'[u].agg = a,
                       txs'[u].state = "landed", txs'[u].own
                PROVE  txs'[v].run <= txs'[u].landedIn
    BY DEF NoAddAfterLanding, AddsOf
  <2>1. \A w \in AddsOf(cur[r]) :
          txs[w].state = "landed" /\ txs[w].own => seen[r].run <= txs[w].landedIn
    BY DEF SendInv, LookedFirst, At
  <2>2. u # t
    <3>1. txs'[t].state = "pending"
      BY <1>1
    <3>. QED  BY <3>1
  <2>3. txs[u].state = "landed" /\ txs[u].own /\ u \in AddsOf(a)
    BY <1>1, <2>2 DEF AddsOf
  <2>. QED  BY <1>1, <2>1, <2>2, <2>3 DEF ChainInv, NoAddAfterLanding, AddsOf
<1>. QED  BY <1>2, <1>3, <1>4, <1>5 DEF ChainInv

LEMMA SendStep ==
    ASSUME TypeOK, HashWellFormed, WorkInv, ChainInv, SendInv, NEW r \in Procs,
           Procs = {r}, Start(r) \/ Step(r) \/ Crash(r)
    PROVE  ChainInv' /\ SendInv'
<1>. USE DEF At
<1>0. pc[r] \notin {"idle", "next"} => cur[r] \in Aggs
  BY DEF TypeOK
<1>1. CASE RefuseSmall(r)
  <2>1. ChainInv'
    BY <1>1, ChainKept DEF RefuseSmall, Continue
  <2>0. txHash[cur[r]] = NoTx /\ status[cur[r]] = "planned"
    BY <1>1, <1>0 DEF RefuseSmall, TooSmall, SeenHash, SeenStatus, WorkInv, SnapshotCurrent
  <2>2. NotAddedYet'
    BY <1>1, <1>0, <2>0, NotAddedMarked DEF RefuseSmall, Mark, SendInv, Status
  <2>3. pc'[r] \notin {"presigned", "add"}
    BY <1>1 DEF RefuseSmall, Continue, Goto, TypeOK
  <2>. QED  BY <1>1, <2>1, <2>2, <2>3, SendKept DEF RefuseSmall
<1>2. CASE ResumeReceipt(r)
  <2>1. ChainInv'
    BY <1>2, ChainKept DEF ResumeReceipt, Advance
  <2>2. NotAddedYet'
    BY <1>2, NotAddedKept DEF ResumeReceipt, aggVars, SendInv
  <2>3. pc'[r] \notin {"presigned", "add"}
    BY <1>2 DEF ResumeReceipt, Advance, Goto, TypeOK
  <2>. QED  BY <1>2, <2>1, <2>2, <2>3, SendKept DEF ResumeReceipt
<1>3. CASE ResumeUnconfirmed(r)
  <2>1. ChainInv'
    BY <1>3, ChainKept DEF ResumeUnconfirmed, Advance
  <2>2. NotAddedYet'
    BY <1>3, NotAddedKept DEF ResumeUnconfirmed, aggVars, SendInv
  <2>3. pc'[r] \notin {"presigned", "add"}
    BY <1>3 DEF ResumeUnconfirmed, Advance, Goto, TypeOK
  <2>. QED  BY <1>3, <2>1, <2>2, <2>3, SendKept DEF ResumeUnconfirmed
<1>4. CASE BeginPull(r)
  <2>1. ChainInv'
    BY <1>4, ChainKept DEF BeginPull, Advance
  <2>0. txHash[cur[r]] = NoTx /\ status[cur[r]] \in {"planned", "submitted", "parked"}
    BY <1>4, <1>0 DEF BeginPull, SeenHash, SeenStatus, WorkInv, SnapshotCurrent,
       Resumable, InFlightStatus
  <2>2. NotAddedYet'
    BY <1>4, <1>0, <2>0, NotAddedMarked DEF BeginPull, Mark, SendInv, Status
  <2>3. pc'[r] \notin {"presigned", "add"}
    BY <1>4 DEF BeginPull, Advance, Goto, TypeOK
  <2>. QED  BY <1>4, <2>1, <2>2, <2>3, SendKept DEF BeginPull
<1>5. CASE ReceiptLanded(r)
  <2>1. ChainInv'
    BY <1>5, ChainKept DEF ReceiptLanded, Advance
  <2>2. NotAddedYet'
    BY <1>5, <1>0, NotAddedMarked DEF ReceiptLanded, MarkCommitted, SendInv, TypeOK, Status
  <2>3. pc'[r] \notin {"presigned", "add"}
    BY <1>5 DEF ReceiptLanded, Advance, Goto, TypeOK
  <2>. QED  BY <1>5, <2>1, <2>2, <2>3, SendKept DEF ReceiptLanded
<1>6. CASE ReconcileLanded(r)
  <2>1. ChainInv'
    BY <1>6, ChainKept DEF ReconcileLanded, Advance
  <2>2. NotAddedYet'
    BY <1>6, <1>0, NotAddedMarked DEF ReconcileLanded, MarkCommitted, SendInv, TypeOK,
       Status
  <2>3. pc'[r] \notin {"presigned", "add"}
    BY <1>6 DEF ReconcileLanded, Advance, Goto, TypeOK
  <2>. QED  BY <1>6, <2>1, <2>2, <2>3, SendKept DEF ReconcileLanded
<1>7. CASE ResumeNotLanded(r)
  <2>1. ChainInv'
    BY <1>7, ChainKept DEF ResumeNotLanded, Continue
  <2>2. NotAddedYet'
    BY <1>7, NotAddedKept DEF ResumeNotLanded, aggVars, SendInv
  <2>3. pc'[r] \notin {"presigned", "add"}
    BY <1>7 DEF ResumeNotLanded, Continue, Goto, TypeOK
  <2>. QED  BY <1>7, <2>1, <2>2, <2>3, SendKept DEF ResumeNotLanded
<1>8. CASE PullComplete(r)
  <2>1. ChainInv'
    BY <1>8, ChainKept DEF PullComplete, Advance
  <2>0. txHash[cur[r]] = NoTx /\ status[cur[r]] = "submitted"
    BY <1>8, <1>0 DEF PullComplete, WorkInv, RowUnderWork, SendInv, NotAddedYet
  <2>2. NotAddedYet'
    BY <1>8, <1>0, <2>0, NotAddedMarked DEF PullComplete, Mark, SendInv, Status
  <2>3. pc'[r] \notin {"presigned", "add"}
    BY <1>8 DEF PullComplete, Advance, Goto, TypeOK
  <2>. QED  BY <1>8, <2>1, <2>2, <2>3, SendKept DEF PullComplete
<1>9. CASE PullFailed(r)
  <2>1. ChainInv'
    BY <1>9, ChainKept DEF PullFailed, Continue
  <2>0. txHash[cur[r]] = NoTx /\ status[cur[r]] = "submitted"
    BY <1>9, <1>0 DEF PullFailed, WorkInv, RowUnderWork, SendInv, NotAddedYet
  <2>2. NotAddedYet'
    BY <1>9, <1>0, <2>0, NotAddedMarked DEF PullFailed, Mark, SendInv, Status
  <2>3. pc'[r] \notin {"presigned", "add"}
    BY <1>9 DEF PullFailed, Continue, Goto, TypeOK
  <2>. QED  BY <1>9, <2>1, <2>2, <2>3, SendKept DEF PullFailed
<1>10. CASE AlreadyOnChain(r)
  <2>1. ChainInv'
    BY <1>10, ChainKept DEF AlreadyOnChain, Continue
  <2>2. NotAddedYet'
    BY <1>10, <1>0, NotAddedMarked DEF AlreadyOnChain, MarkCommitted, SendInv, TypeOK,
       Status
  <2>3. pc'[r] \notin {"presigned", "add"}
    BY <1>10 DEF AlreadyOnChain, Continue, Goto, TypeOK
  <2>. QED  BY <1>10, <2>1, <2>2, <2>3, SendKept DEF AlreadyOnChain
<1>11. CASE AddRefused(r)
  <2>1. ChainInv'
    BY <1>11, ChainKept DEF AddRefused, Advance
  <2>2. NotAddedYet'
    BY <1>11, NotAddedKept DEF AddRefused, aggVars, SendInv
  <2>3. pc'[r] \notin {"presigned", "add"}
    BY <1>11 DEF AddRefused, Advance, Goto, TypeOK
  <2>. QED  BY <1>11, <2>1, <2>2, <2>3, SendKept DEF AddRefused
<1>12. CASE ErroredButLanded(r)
  <2>1. ChainInv'
    BY <1>12, ChainKept DEF ErroredButLanded, Continue
  <2>2. NotAddedYet'
    BY <1>12, <1>0, NotAddedMarked DEF ErroredButLanded, MarkCommitted, SendInv, TypeOK,
       Status
  <2>3. pc'[r] \notin {"presigned", "add"}
    BY <1>12 DEF ErroredButLanded, Continue, Goto, TypeOK
  <2>. QED  BY <1>12, <2>1, <2>2, <2>3, SendKept DEF ErroredButLanded
<1>13. CASE ErroredUnknown(r)
  <2>1. ChainInv'
    BY <1>13, ChainKept DEF ErroredUnknown, Continue
  <2>2. NotAddedYet'
    BY <1>13, <1>0, NotAddedMarked DEF ErroredUnknown, Mark, SendInv, Status
  <2>3. pc'[r] \notin {"presigned", "add"}
    BY <1>13 DEF ErroredUnknown, Continue, Goto, TypeOK
  <2>. QED  BY <1>13, <2>1, <2>2, <2>3, SendKept DEF ErroredUnknown
<1>14. CASE AddDone(r)
  <2>1. ChainInv'
    BY <1>14, ChainKept DEF AddDone, Advance
  <2>2. NotAddedYet'
    BY <1>14, NotAddedKept DEF AddDone, aggVars, SendInv
  <2>3. pc'[r] \notin {"presigned", "add"}
    BY <1>14 DEF AddDone, Advance, Goto, TypeOK
  <2>. QED  BY <1>14, <2>1, <2>2, <2>3, SendKept DEF AddDone
<1>15. CASE AddReverted(r)
  <2>1. ChainInv'
    BY <1>15, ChainKept DEF AddReverted, Continue
  <2>0. txHash[cur[r]] # NoTx
    BY <1>15, <1>0 DEF AddReverted, WorkInv, TxUnderWork, NoTx
  <2>2. NotAddedYet'
    BY <1>15, <1>0, <2>0, NotAddedMarked DEF AddReverted, Mark, SendInv, Status
  <2>3. pc'[r] \notin {"presigned", "add"}
    BY <1>15 DEF AddReverted, Continue, Goto, TypeOK
  <2>. QED  BY <1>15, <2>1, <2>2, <2>3, SendKept DEF AddReverted
<1>16. CASE ConfirmTimeout(r)
  <2>1. ChainInv'
    BY <1>16, ChainKept DEF ConfirmTimeout, Continue
  <2>2. NotAddedYet'
    BY <1>16, NotAddedKept DEF ConfirmTimeout, aggVars, SendInv
  <2>3. pc'[r] \notin {"presigned", "add"}
    BY <1>16 DEF ConfirmTimeout, Continue, Goto, TypeOK
  <2>. QED  BY <1>16, <2>1, <2>2, <2>3, SendKept DEF ConfirmTimeout
<1>17. CASE EventMatches(r)
  <2>1. ChainInv'
    BY <1>17, ChainKept DEF EventMatches, Advance
  <2>2. NotAddedYet'
    BY <1>17, <1>0, NotAddedMarked DEF EventMatches, MarkCommitted, SendInv, TypeOK, Status
  <2>3. pc'[r] \notin {"presigned", "add"}
    BY <1>17 DEF EventMatches, Advance, Goto, TypeOK
  <2>. QED  BY <1>17, <2>1, <2>2, <2>3, SendKept DEF EventMatches
<1>18. CASE EventMismatch(r)
  <2>1. ChainInv'
    BY <1>18, ChainKept DEF EventMismatch, Continue
  <2>0. txHash[cur[r]] # NoTx
    BY <1>18, <1>0 DEF EventMismatch, WorkInv, TxUnderWork, NoTx
  <2>2. NotAddedYet'
    BY <1>18, <1>0, <2>0, NotAddedMarked DEF EventMismatch, Mark, SendInv, Status
  <2>3. pc'[r] \notin {"presigned", "add"}
    BY <1>18 DEF EventMismatch, Continue, Goto, TypeOK
  <2>. QED  BY <1>18, <2>1, <2>2, <2>3, SendKept DEF EventMismatch
<1>19. CASE EventUnseen(r)
  <2>1. ChainInv'
    BY <1>19, ChainKept DEF EventUnseen, Advance
  <2>2. NotAddedYet'
    BY <1>19, <1>0, NotAddedMarked DEF EventUnseen, MarkCommitted, SendInv, TypeOK, Status
  <2>3. pc'[r] \notin {"presigned", "add"}
    BY <1>19 DEF EventUnseen, Advance, Goto, TypeOK
  <2>. QED  BY <1>19, <2>1, <2>2, <2>3, SendKept DEF EventUnseen
<1>20. CASE Evict(r)
  <2>1. ChainInv'
    BY <1>20, ChainKept DEF Evict, Continue
  <2>2. NotAddedYet'
    BY <1>20, NotAddedKept DEF Evict, aggVars, SendInv
  <2>3. pc'[r] \notin {"presigned", "add"}
    BY <1>20 DEF Evict, Continue, Goto, TypeOK
  <2>. QED  BY <1>20, <2>1, <2>2, <2>3, SendKept DEF Evict
<1>21. CASE Stop(r)
  <2>1. /\ pc'[r] \notin {"presigned", "add"}
        /\ seen'[r].run \in Nat /\ seen'[r].run <= starts
    BY <1>21 DEF Stop, Leave, Goto, NoSnapshot, TypeOK
  <2>2. ChainInv'
    BY <1>21, <2>1 DEF Stop, ChainInv, TxWellFormed, AddsDated, OneAddPerRearm,
       NoAddAfterLanding, AddsOf
  <2>3. NotAddedYet'
    BY <1>21, NotAddedKept DEF Stop, aggVars, SendInv
  <2>. QED  BY <1>21, <2>1, <2>2, <2>3, SendKept DEF Stop
<1>22. CASE Crash(r)
  <2>1. /\ pc'[r] \notin {"presigned", "add"}
        /\ seen'[r].run \in Nat /\ seen'[r].run <= starts
    BY <1>22 DEF Crash, Leave, Goto, NoSnapshot, TypeOK
  <2>2. ChainInv'
    BY <1>22, <2>1 DEF Crash, ChainInv, TxWellFormed, AddsDated, OneAddPerRearm,
       NoAddAfterLanding, AddsOf
  <2>3. NotAddedYet'
    BY <1>22, NotAddedKept DEF Crash, aggVars, SendInv
  <2>. QED  BY <1>22, <2>1, <2>2, <2>3, SendKept DEF Crash
<1>23. CASE Start(r)
  <2>1. /\ pc'[r] \notin {"presigned", "add"}
        /\ starts' = starts + 1 /\ starts \in Nat /\ seen'[r].run <= starts'
    BY <1>23 DEF Start, Goto, TypeOK
  <2>2. \A t \in TxIds : txs[t].run \in Nat
    BY DEF TypeOK, Tx
  <2>3. ChainInv'
    BY <1>23, <2>1, <2>2 DEF Start, ChainInv, TxWellFormed, AddsDated, OneAddPerRearm,
       NoAddAfterLanding, AddsOf
  <2>4. NotAddedYet'
    BY <1>23, NotAddedKept DEF Start, aggVars, SendInv
  <2>. QED  BY <1>23, <2>1, <2>3, <2>4, SendKept DEF Start
<1>24. ASSUME NEW a \in Aggs, Admit(r, a)
       PROVE  ChainInv' /\ SendInv'
  <2>1. ChainInv'
    BY <1>24, ChainKept DEF Admit
  <2>2. NotAddedYet'
    BY <1>24, NotAddedKept DEF Admit, aggVars, SendInv
  <2>3. pc'[r] \notin {"presigned", "add"}
    BY <1>24 DEF Admit, Goto, TypeOK
  <2>. QED  BY <1>24, <2>1, <2>2, <2>3, SendKept DEF Admit
<1>25. CASE PersistHash(r)
  <2>1. ChainInv'
    BY <1>25, ChainKept DEF PersistHash, Advance
  <2>2. NotAddedYet'
    BY <1>25, <1>0 DEF PersistHash, TypeOK, WorkInv, RowUnderWork, SendInv, NotAddedYet,
       AddsOf
  <2>3. pc'[r] \notin {"presigned", "add"}
    BY <1>25 DEF PersistHash, Advance, Goto, TypeOK
  <2>. QED  BY <1>25, <2>1, <2>2, <2>3, SendKept DEF PersistHash
<1>26. CASE Presign(r)
  <2>1. ChainInv'
    BY <1>26, ChainKept DEF Presign, Advance
  <2>2. NotAddedYet'
    BY <1>26, NotAddedKept DEF Presign, aggVars, SendInv
  <2>3. AddNotSentYet'
    BY <1>26 DEF Presign, Advance, Goto, TypeOK, AddNotSentYet
  <2>4. LookedFirst'
    BY <1>26 DEF Presign, Advance, OnChain, AddsOf, LookedFirst
  <2>. QED  BY <2>1, <2>2, <2>3, <2>4 DEF SendInv
<1>27. CASE Breadcrumb(r)
  <2>1. ChainInv'
    BY <1>27, ChainKept DEF Breadcrumb, Advance
  <2>2. NotAddedYet'
    BY <1>27, <1>0, NotAddedMarked DEF Breadcrumb, Mark, SendInv, Status
  <2>3. \A t \in AddsOf(cur[r]) : txs[t].era # rearms[cur[r]]
    BY <1>27, <1>0 DEF Breadcrumb, WorkInv, RowUnderWork, SendInv, NotAddedYet
  <2>4. AddNotSentYet'
    BY <1>27, <2>3 DEF Breadcrumb, Advance, AddNotSentYet, AddsOf
  <2>5. LookedFirst'
    BY <1>27 DEF Breadcrumb, Advance, Goto, SendInv, LookedFirst, AddsOf
  <2>. QED  BY <2>1, <2>2, <2>4, <2>5 DEF SendInv
<1>28. ASSUME NEW t \in TxIds, AddAccepted(r, t)
       PROVE  ChainInv' /\ SendInv'
  <2>1. PICK own \in BOOLEAN : Broadcast(r, t, own)
    BY <1>28 DEF AddAccepted
  <2>2. pc[r] = "add" /\ FreshTx(t) /\ UNCHANGED <<rearms, starts, seen, status, txHash>>
    BY <1>28 DEF AddAccepted, Advance, aggVars
  <2>3. ChainInv'
    BY <1>0, <2>1, <2>2, BroadcastKeepsChain
  <2>4. NotAddedYet'
    BY <1>0, <2>1, <2>2 DEF TypeOK, WorkInv, RowUnderWork, SendInv, NotAddedYet, AddsOf,
       Broadcast
  <2>5. pc'[r] \notin {"presigned", "add"}
    BY <1>28 DEF AddAccepted, Advance, Goto, TypeOK
  <2>6. SendInv'
    BY <2>4, <2>5 DEF SendInv, AddNotSentYet, LookedFirst
  <2>. QED  BY <2>3, <2>6
<1>29. ASSUME NEW t \in TxIds, AddAnswerLost(r, t)
       PROVE  ChainInv' /\ SendInv'
  <2>1. PICK own \in BOOLEAN : Broadcast(r, t, own)
    BY <1>29 DEF AddAnswerLost
  <2>2. pc[r] = "add" /\ FreshTx(t) /\ UNCHANGED <<rearms, starts, seen, status, txHash>>
    BY <1>29 DEF AddAnswerLost, Advance, aggVars
  <2>3. ChainInv'
    BY <1>0, <2>1, <2>2, BroadcastKeepsChain
  <2>4. NotAddedYet'
    BY <1>0, <2>1, <2>2 DEF TypeOK, WorkInv, RowUnderWork, SendInv, NotAddedYet, AddsOf,
       Broadcast
  <2>5. pc'[r] \notin {"presigned", "add"}
    BY <1>29 DEF AddAnswerLost, Advance, Goto, TypeOK
  <2>6. SendInv'
    BY <2>4, <2>5 DEF SendInv, AddNotSentYet, LookedFirst
  <2>. QED  BY <2>3, <2>6
<1>. QED
  BY <1>1, <1>2, <1>3, <1>4, <1>5, <1>6, <1>7, <1>8, <1>9, <1>10, <1>11, <1>12, <1>13,
     <1>14, <1>15, <1>16, <1>17, <1>18, <1>19, <1>20, <1>21, <1>22, <1>23, <1>24, <1>25,
     <1>26, <1>27, <1>28, <1>29
     DEF Step, LoopHead, Resume, PullAndAdd, Await

(***************************************************************************)
(* The operator and the chain.                                             *)
(***************************************************************************)
LEMMA TxSteps ==
    ASSUME TypeOK, ChainInv, RowsInv, WorkInv, SendInv, NEW t \in TxIds,
           TxLands(t) \/ TxReverts(t)
    PROVE  ChainInv' /\ RowsInv' /\ WorkInv' /\ SendInv'
<1>1. /\ txs[t].state = "pending"
      /\ txs'[t].agg = txs[t].agg /\ txs'[t].own = txs[t].own
      /\ txs'[t].era = txs[t].era /\ txs'[t].run = txs[t].run
      /\ txs'[t].state \in {"landed", "reverted"}
      /\ txs'[t].state = "landed" => txs'[t].landedIn = starts
      /\ \A u \in TxIds \ {t} : txs'[u] = txs[u]
  BY DEF TxLands, TxReverts, TypeOK, Tx
<1>2. UNCHANGED <<status, txHash, block, cached, pc, cur, todo, seen, tx, rearms, starts>>
  BY DEF TxLands, TxReverts, aggVars, procVars
<1>3. \A a \in Aggs : AddsOf(a)' = AddsOf(a)
  BY <1>1 DEF AddsOf
<1>12. \A u \in TxIds : txs'[u].era = txs[u].era /\ txs'[u].agg = txs[u].agg
  BY <1>1
<1>4. TxWellFormed' /\ AddsDated'
  BY <1>1, <1>2 DEF ChainInv, TxWellFormed, AddsDated
<1>5. OneAddPerRearm'
  <2>. SUFFICES ASSUME NEW a \in Aggs, NEW u \in AddsOf(a), NEW v \in AddsOf(a), u # v
                PROVE  txs'[u].era # txs'[v].era
    BY <1>3 DEF OneAddPerRearm
  <2>1. txs[u].era # txs[v].era
    BY DEF ChainInv, OneAddPerRearm
  <2>. QED  BY <1>12, <2>1 DEF AddsOf
<1>6. NoAddAfterLanding'
  <2>1. \A u \in TxIds : txs'[u].run <= starts
    BY <1>1 DEF ChainInv, AddsDated
  <2>2. \A u \in TxIds : u # t => txs'[u] = txs[u]
    BY <1>1
  <2>3. \A u \in TxIds : txs'[u].run = txs[u].run
    BY <1>1
  <2>. SUFFICES ASSUME NEW a \in Aggs, NEW v \in AddsOf(a), NEW u \in AddsOf(a), u # v,
                       txs'[u].state = "landed", txs'[u].own
                PROVE  txs'[v].run <= txs'[u].landedIn
    BY <1>3 DEF NoAddAfterLanding
  <2>4. CASE u = t
    BY <2>1, <2>4, <1>1 DEF AddsOf
  <2>5. CASE u # t
    BY <2>2, <2>3, <2>5 DEF AddsOf, ChainInv, NoAddAfterLanding
  <2>. QED  BY <2>4, <2>5
<1>7. RowsInv'
  <2>1. ChainGrows
    BY <1>1 DEF ChainGrows
  <2>. QED  BY <1>2, <2>1, RowsOnChain
<1>8. SnapshotCurrent' /\ RowUnderWork'
  BY <1>2 DEF WorkInv, SnapshotCurrent, RowUnderWork, At, Resumable, SeenHash
<1>9. TxUnderWork'
  BY <1>1, <1>2 DEF WorkInv, TxUnderWork, At, AddsOf
<1>10. NotAddedYet' /\ AddNotSentYet'
  <2>1. NotAddedYet'
    BY <1>2, <1>12 DEF SendInv, NotAddedYet, AddsOf
  <2>2. AddNotSentYet'
    BY <1>2, <1>12 DEF SendInv, AddNotSentYet, At, AddsOf
  <2>. QED  BY <2>1, <2>2
<1>11. LookedFirst'
  <2>. SUFFICES ASSUME NEW r \in Procs, pc[r] \in {"presigned", "add"},
                       NEW u \in TxIds, txs'[u].agg = cur[r],
                       txs'[u].state = "landed", txs'[u].own
                PROVE  seen[r].run <= txs'[u].landedIn
    BY <1>2 DEF LookedFirst, AddsOf
  <2>1. seen[r].run <= starts
    BY DEF ChainInv, AddsDated
  <2>2. CASE u = t
    BY <1>1, <2>1, <2>2
  <2>3. CASE u # t
    <3>1. txs'[u] = txs[u]
      BY <1>1, <2>3
    <3>2. u \in AddsOf(cur[r]) /\ txs[u].state = "landed" /\ txs[u].own
      BY <3>1 DEF AddsOf
    <3>. QED  BY <3>1, <3>2 DEF SendInv, LookedFirst
  <2>. QED  BY <2>2, <2>3
<1>. QED
  BY <1>4, <1>5, <1>6, <1>7, <1>8, <1>9, <1>10, <1>11 DEF ChainInv, WorkInv, SendInv

\* between runs nothing is in hand and no snapshot is in use
LEMMA NothingRuns ==
    ASSUME NobodyRuns, WorkInv, UNCHANGED procVars
    PROVE  WorkInv'
BY DEF NobodyRuns, procVars, WorkInv, SnapshotCurrent, RowUnderWork, TxUnderWork, At, NoAgg

LEMMA OperatorSteps ==
    ASSUME TypeOK, ChainInv, RowsInv, WorkInv, SendInv, ResetFailed \/ RetryUnconfirmed
    PROVE  ChainInv' /\ RowsInv' /\ WorkInv' /\ SendInv'
<1>1. WorkInv'
  BY NothingRuns DEF ResetFailed, RetryUnconfirmed
<1>2. RowsInv'
  <2>1. UNCHANGED <<block, cached, txs>>
    BY DEF ResetFailed, RetryUnconfirmed
  <2>2. \A a \in Aggs : status[a] = "committed" <=> status'[a] = "committed"
    BY DEF ResetFailed, RetryUnconfirmed, Unconfirmed, TypeOK
  <2>3. \A a \in Aggs : txHash'[a] = txHash[a] \/ (txHash'[a] = NoTx /\ status[a] # "committed")
    <3>1. CASE ResetFailed
      BY <3>1 DEF ResetFailed
    <3>2. CASE RetryUnconfirmed
      BY <3>2 DEF RetryUnconfirmed, Unconfirmed
    <3>. QED  BY <3>1, <3>2
  <2>. QED
    BY <2>1, <2>2, <2>3 DEF RowsInv, HashWellFormed, CommittedIsOnChain, EvictedIsCommitted,
       AddsOf, OnChain
<1>3. AddNotSentYet' /\ LookedFirst'
  BY DEF ResetFailed, RetryUnconfirmed, NobodyRuns, procVars, AddNotSentYet, LookedFirst, At
<1>4. CASE ResetFailed
  <2>1. ChainInv'
    BY <1>4, ChainKept DEF ResetFailed, procVars
  <2>2. NotAddedYet'
    <3>1. \A a \in Aggs : status'[a] = IF status[a] = "failed" THEN "planned" ELSE status[a]
      BY <1>4 DEF ResetFailed
    <3>2. UNCHANGED <<txHash, txs, rearms>>
      BY <1>4 DEF ResetFailed
    <3>. QED  BY <3>1, <3>2 DEF SendInv, NotAddedYet, AddsOf
  <2>. QED  BY <1>1, <1>2, <1>3, <2>1, <2>2 DEF SendInv
<1>5. CASE RetryUnconfirmed
  <2>1. /\ \A a \in Unconfirmed : status'[a] = "planned" /\ rearms'[a] = rearms[a] + 1
        /\ \A a \in Aggs \ Unconfirmed :
             status'[a] = status[a] /\ txHash'[a] = txHash[a] /\ rearms'[a] = rearms[a]
        /\ UNCHANGED <<txs, starts, seen>>
    BY <1>5 DEF RetryUnconfirmed, Unconfirmed, procVars
  <2>2. \A a \in Aggs : rearms[a] \in Nat /\ rearms[a] <= rearms'[a] /\ rearms'[a] \in Nat
    BY <2>1 DEF TypeOK, Unconfirmed
  <2>3. \A u \in TxIds : txs[u].era \in Nat /\ txs[u].agg \in Aggs \cup {NoAgg}
    BY DEF TypeOK, Tx
  <2>4. AddsDated'
    <3>1. ASSUME NEW u \in TxIds, txs'[u].agg # NoAgg
          PROVE  txs'[u].era <= rearms'[txs'[u].agg]
      <4>. DEFINE a == txs[u].agg
      <4>1. a \in Aggs /\ txs[u].era <= rearms[a] /\ txs'[u] = txs[u]
        BY <2>1, <2>3, <3>1 DEF ChainInv, AddsDated
      <4>2. rearms[a] \in Nat /\ rearms'[a] \in Nat /\ rearms[a] <= rearms'[a] /\ txs[u].era \in Nat
        BY <2>2, <2>3, <4>1
      <4>. QED  BY <4>1, <4>2
    <3>2. /\ \A u \in TxIds : txs'[u].run <= starts'
          /\ \A r \in Procs : seen'[r].run <= starts'
      BY <2>1 DEF ChainInv, AddsDated
    <3>. QED  BY <3>1, <3>2 DEF AddsDated
  <2>5. TxWellFormed' /\ OneAddPerRearm' /\ NoAddAfterLanding'
    BY <2>1 DEF ChainInv, TxWellFormed, OneAddPerRearm, NoAddAfterLanding, AddsOf
  <2>6. NotAddedYet'
    <3>1. ASSUME NEW a \in Unconfirmed, NEW u \in AddsOf(a)
          PROVE  txs[u].era # rearms'[a]
      <4>1. a \in Aggs /\ u \in TxIds /\ txs[u].agg = a /\ a # NoAgg
        BY DEF Unconfirmed, AddsOf, NoAgg
      <4>2. rearms[a] \in Nat /\ rearms'[a] = rearms[a] + 1 /\ txs[u].era \in Nat
        BY <2>1, <2>2, <2>3, <4>1
      <4>3. txs[u].era <= rearms[a]
        BY <4>1 DEF ChainInv, AddsDated
      <4>. QED  BY <4>2, <4>3
    <3>2. \A a \in Aggs : AddsOf(a)' = AddsOf(a)
      BY <2>1 DEF AddsOf
    <3>. QED  BY <2>1, <3>1, <3>2 DEF SendInv, NotAddedYet, Unconfirmed
  <2>. QED  BY <1>1, <1>2, <1>3, <2>4, <2>5, <2>6 DEF ChainInv, SendInv
<1>. QED  BY <1>4, <1>5

(***************************************************************************)
(* The theorems.                                                           *)
(***************************************************************************)
LEMMA IInvParts == IInv <=> TypeOK /\ ChainInv /\ RowsInv /\ WorkInv /\ SendInv
BY DEF IInv, ChainInv, RowsInv, WorkInv, SendInv

LEMMA Invariant ==
    ASSUME OneProc
    PROVE  Spec => []IInv
<1>1. Init => IInv
  <2>. SUFFICES ASSUME Init PROVE IInv
    OBVIOUS
  <2>1. TypeOK
    BY DEF Init, TypeOK, Status, PC, Tx, UnusedTx, Snapshot, NoSnapshot
  <2>2. ChainInv
    BY DEF Init, ChainInv, TxWellFormed, AddsDated, OneAddPerRearm, NoAddAfterLanding,
       AddsOf, UnusedTx, NoAgg, NoSnapshot
  <2>3. RowsInv
    BY DEF Init, RowsInv, HashWellFormed, CommittedIsOnChain, EvictedIsCommitted
  <2>4. WorkInv
    BY DEF Init, WorkInv, SnapshotCurrent, RowUnderWork, TxUnderWork, At, NoAgg
  <2>5. SendInv
    BY DEF Init, SendInv, NotAddedYet, AddNotSentYet, LookedFirst, At, AddsOf, UnusedTx,
       NoAgg
  <2>. QED  BY <2>1, <2>2, <2>3, <2>4, <2>5, IInvParts
<1>2. IInv /\ [Next]_vars => IInv'
  <2>. SUFFICES ASSUME IInv, [Next]_vars PROVE IInv'
    OBVIOUS
  <2>. USE IInvParts
  <2>6. IInv' <=> TypeOK' /\ ChainInv' /\ RowsInv' /\ WorkInv' /\ SendInv'
    BY DEF IInv, ChainInv, RowsInv, WorkInv, SendInv
  <2>1. TypeOK'
    BY TypeNext
  <2>2. ASSUME NEW r \in Procs, Start(r) \/ Step(r) \/ Crash(r)
        PROVE  IInv'
    <3>1. Procs = {r}
      BY OneProc DEF OneProc
    <3>2. TxWellFormed /\ HashWellFormed
      BY DEF ChainInv, RowsInv
    <3>3. RowsInv' /\ WorkInv'
      BY <2>2, <3>1, <3>2, RowsStep
    <3>4. ChainInv' /\ SendInv'
      BY <2>2, <3>1, <3>2, SendStep
    <3>. QED  BY <2>1, <2>6, <3>3, <3>4
  <2>3. CASE ResetFailed \/ RetryUnconfirmed
    BY <2>1, <2>6, <2>3, OperatorSteps
  <2>4. ASSUME NEW t \in TxIds, TxLands(t) \/ TxReverts(t)
        PROVE  IInv'
    BY <2>1, <2>6, <2>4, TxSteps
  <2>5. CASE UNCHANGED vars
    <3>1. RowsInv' /\ ChainInv'
      BY <2>5, RowsKept, ChainKept DEF vars
    <3>2. WorkInv'
      BY <2>5 DEF vars, WorkInv, SnapshotCurrent, RowUnderWork, TxUnderWork, At, Resumable,
         SeenHash, AddsOf
    <3>3. SendInv'
      BY <2>5 DEF vars, SendInv, NotAddedYet, AddNotSentYet, LookedFirst, At, AddsOf
    <3>. QED  BY <2>1, <2>6, <3>1, <3>2, <3>3
  <2>. QED  BY <2>2, <2>3, <2>4, <2>5 DEF Next, Environment
<1>. QED  BY <1>1, <1>2, PTL DEF Spec

\* One pdp-submit at a time: a committed row's root is active on chain, or the row
\* has no block and the add it names landed.
THEOREM CommittedOnChain ==
    ASSUME OneProc
    PROVE  Spec => []CommittedIsOnChain
<1>1. IInv => CommittedIsOnChain
  BY DEF IInv
<1>. QED  BY <1>1, Invariant, PTL

\* One pdp-submit at a time: between two re-arms by the operator, a root is added
\* at most once, whatever kills, errors, resumes and resets of failed rows occur.
THEOREM OneAdd ==
    ASSUME OneProc
    PROVE  Spec => []OneAddPerRearm
<1>1. IInv => OneAddPerRearm
  BY DEF IInv
<1>. QED  BY <1>1, Invariant, PTL

\* One pdp-submit at a time: a CAR is unlinked only for a row that is committed,
\* and such a row stays committed.
THEOREM EvictedCommitted ==
    ASSUME OneProc
    PROVE  Spec => []EvictedIsCommitted
<1>1. IInv => EvictedIsCommitted
  BY DEF IInv
<1>. QED  BY <1>1, Invariant, PTL

-----------------------------------------------------------------------------
(***************************************************************************)
(* SubmitPdp implements AddLedger with one process at a time.              *)
(***************************************************************************)
(* The refinement mapping. *)
StageOf(s) == CASE s = "committed"       -> "confirmed"
                [] s = "add_unconfirmed" -> "attempted"
                [] OTHER                 -> "unsent"
Stage  == [a \in Aggs |-> StageOf(status[a])]
Sent   == {a \in Aggs : AddsOf(a) # {}}
Landed == {a \in Aggs : \E t \in AddsOf(a) : txs[t].state = "landed"}

LedgerStep == Ledger!Next \/ UNCHANGED <<Stage, Sent, Landed>>

LEMMA StageValue ==
    ASSUME NEW s
    PROVE  /\ s = "committed" => StageOf(s) = "confirmed"
           /\ s = "add_unconfirmed" => StageOf(s) = "attempted"
           /\ s \notin {"committed", "add_unconfirmed"} => StageOf(s) = "unsent"
BY DEF StageOf

LEMMA LedgerMeaning ==
    /\ Ledger!Next <=>
         \/ \E S \in SUBSET Aggs : Ledger!Attempt(S) \/ Ledger!Broadcast(S)
                                   \/ Ledger!Land(S) \/ Ledger!Withdraw(S)
         \/ \E a \in Aggs : Ledger!Confirm(a) \/ Ledger!Discover(a)
    /\ \A a \in Aggs :
         /\ Ledger!Confirm(a) <=>
              /\ Stage[a] = "attempted" /\ a \in Landed
              /\ Stage' = [Stage EXCEPT ![a] = "confirmed"] /\ UNCHANGED <<Sent, Landed>>
         /\ Ledger!Discover(a) <=>
              /\ Stage[a] = "unsent" /\ a \in Landed
              /\ Stage' = [Stage EXCEPT ![a] = "confirmed"] /\ UNCHANGED <<Sent, Landed>>
    /\ \A S \in SUBSET Aggs :
         /\ Ledger!Attempt(S) <=>
              /\ \A a \in S : Stage[a] = "unsent"
              /\ Stage' = [a \in Aggs |-> IF a \in S THEN "attempted" ELSE Stage[a]]
              /\ UNCHANGED <<Sent, Landed>>
         /\ Ledger!Withdraw(S) <=>
              /\ \A a \in S : Stage[a] = "attempted"
              /\ Stage' = [a \in Aggs |-> IF a \in S THEN "unsent" ELSE Stage[a]]
              /\ UNCHANGED <<Sent, Landed>>
         /\ Ledger!Broadcast(S) <=>
              /\ \A a \in S : Stage[a] = "attempted"
              /\ Sent' = Sent \cup S /\ UNCHANGED <<Stage, Landed>>
         /\ Ledger!Land(S) <=>
              /\ S \subseteq Sent
              /\ Landed' = Landed \cup S /\ UNCHANGED <<Stage, Sent>>
BY DEF Ledger!Next, Ledger!Confirm, Ledger!Discover, Ledger!Attempt, Ledger!Withdraw,
       Ledger!Broadcast, Ledger!Land, Stage, StageOf, Sent, Landed

LEMMA ChainSame ==
    ASSUME UNCHANGED txs
    PROVE  UNCHANGED <<Sent, Landed>>
BY DEF Sent, Landed, AddsOf

\* A step that neither touches the transactions nor moves a row between stages is
\* invisible.
LEMMA Invisible ==
    ASSUME UNCHANGED txs, \A a \in Aggs : StageOf(status'[a]) = StageOf(status[a])
    PROVE  LedgerStep
BY ChainSame DEF Stage, LedgerStep

\* A write of one row that is not committed: an attempt, its withdrawal, a
\* confirmation, a late discovery, or nothing the ledger sees.
LEMMA RowMoves ==
    ASSUME TypeOK, NEW a \in Aggs, NEW s, SetStatus(a, s), UNCHANGED txs,
           status[a] # "committed", s = "committed" => a \in Landed
    PROVE  LedgerStep
<1>1. /\ status'[a] = s
      /\ \A b \in Aggs : b # a => status'[b] = status[b]
  BY DEF TypeOK, SetStatus
<1>2. UNCHANGED <<Sent, Landed>>
  BY ChainSame
<1>3. /\ Stage' = [b \in Aggs |-> IF b = a THEN StageOf(s) ELSE Stage[b]]
      /\ Stage[a] = StageOf(status[a])
  BY <1>1 DEF Stage
<1>4. Stage' = [Stage EXCEPT ![a] = StageOf(s)]
  BY <1>3 DEF Stage
<1>5. CASE s = "committed"
  <2>1. Stage' = [Stage EXCEPT ![a] = "confirmed"] /\ Stage[a] \in {"attempted", "unsent"}
    BY <1>3, <1>4, <1>5, StageValue
  <2>2. Ledger!Confirm(a) \/ Ledger!Discover(a)
    BY <1>2, <1>5, <2>1, LedgerMeaning
  <2>. QED  BY <2>2, LedgerMeaning DEF LedgerStep
<1>6. CASE s = "add_unconfirmed" /\ status[a] # "add_unconfirmed"
  <2>1. PICK S \in SUBSET Aggs : S = {a}
    OBVIOUS
  <2>2. Stage[a] = "unsent" /\ StageOf(s) = "attempted"
    BY <1>3, <1>6, StageValue
  <2>3. Stage' = [b \in Aggs |-> IF b \in S THEN "attempted" ELSE Stage[b]]
    BY <1>3, <2>1, <2>2
  <2>4. Ledger!Attempt(S)
    BY <1>2, <2>1, <2>2, <2>3, LedgerMeaning
  <2>. QED  BY <2>4, LedgerMeaning DEF LedgerStep
<1>7. CASE s \notin {"committed", "add_unconfirmed"} /\ status[a] = "add_unconfirmed"
  <2>1. PICK S \in SUBSET Aggs : S = {a}
    OBVIOUS
  <2>2. Stage[a] = "attempted" /\ StageOf(s) = "unsent"
    BY <1>3, <1>7, StageValue
  <2>3. Stage' = [b \in Aggs |-> IF b \in S THEN "unsent" ELSE Stage[b]]
    BY <1>3, <2>1, <2>2
  <2>4. Ledger!Withdraw(S)
    BY <1>2, <2>1, <2>2, <2>3, LedgerMeaning
  <2>. QED  BY <2>4, LedgerMeaning DEF LedgerStep
<1>8. CASE s # "committed" /\ (s = "add_unconfirmed" <=> status[a] = "add_unconfirmed")
  <2>1. StageOf(status'[a]) = StageOf(status[a])
    BY <1>1, <1>8, StageValue
  <2>. QED  BY <1>1, <2>1, Invisible
<1>. QED  BY <1>5, <1>6, <1>7, <1>8

LEMMA LandedRow ==
    ASSUME NEW a \in Aggs, NEW t \in AddsOf(a), txs[t].state = "landed"
    PROVE  a \in Landed
BY DEF Landed

LEMMA OnChainLanded == \A a \in Aggs : OnChain(a) => a \in Landed
BY DEF OnChain, Landed

\* An add is sent under the mark.
LEMMA BroadcastMoves ==
    ASSUME IInv, NEW r \in Procs, At(r, "add"), NEW t \in TxIds, FreshTx(t),
           NEW own \in BOOLEAN, Broadcast(r, t, own), UNCHANGED status
    PROVE  LedgerStep
<1>. USE DEF IInv
<1>0. cur[r] \in Aggs /\ status[cur[r]] = "add_unconfirmed"
  BY DEF RowUnderWork, TypeOK, At
<1>1. /\ txs'[t].agg = cur[r] /\ txs'[t].state = "pending"
      /\ \A u \in TxIds : u # t => txs'[u] = txs[u]
  BY DEF Broadcast, TypeOK
<1>2. txs[t] = UnusedTx
  BY DEF FreshTx, TxWellFormed
<1>3. NoAgg \notin Aggs
  BY AggsAssumption DEF NoAgg
<1>4. \A a \in Aggs : AddsOf(a)' = AddsOf(a) \cup (IF a = cur[r] THEN {t} ELSE {})
  <2>. SUFFICES ASSUME NEW a \in Aggs
                PROVE  AddsOf(a)' = AddsOf(a) \cup (IF a = cur[r] THEN {t} ELSE {})
    OBVIOUS
  <2>1. t \notin AddsOf(a)
    BY <1>2, <1>3 DEF AddsOf, UnusedTx
  <2>2. \A u \in TxIds : u # t => (u \in AddsOf(a)' <=> u \in AddsOf(a))
    BY <1>1 DEF AddsOf
  <2>3. t \in AddsOf(a)' <=> a = cur[r]
    BY <1>1 DEF AddsOf
  <2>4. AddsOf(a)' \subseteq TxIds /\ AddsOf(a) \subseteq TxIds
    BY DEF AddsOf
  <2>. QED  BY <2>1, <2>2, <2>3, <2>4
<1>5. Stage' = Stage
  BY DEF Stage
<1>6. Landed' = Landed
  BY <1>1, <1>2, <1>3, <1>4 DEF Landed, AddsOf, UnusedTx
<1>7. PICK S \in SUBSET Aggs : S = {cur[r]}
  BY <1>0
<1>8. Sent' = Sent \cup S
  BY <1>0, <1>4, <1>7 DEF Sent
<1>9. \A a \in S : Stage[a] = "attempted"
  BY <1>0, <1>7, StageValue DEF Stage
<1>10. Ledger!Broadcast(S)
  BY <1>5, <1>6, <1>8, <1>9, LedgerMeaning
<1>. QED  BY <1>10, LedgerMeaning DEF LedgerStep

LEMMA LandMoves ==
    ASSUME IInv, NEW t \in TxIds, TxLands(t)
    PROVE  LedgerStep
<1>. DEFINE carried == {a \in Aggs : t \in AddsOf(a)}
<1>1. /\ txs'[t].state = "landed" /\ txs'[t].agg = txs[t].agg
      /\ \A u \in TxIds : u # t => txs'[u] = txs[u]
      /\ status' = status
  BY DEF IInv, TxLands, TypeOK, Tx, aggVars
<1>2. \A a \in Aggs : AddsOf(a)' = AddsOf(a) /\ AddsOf(a) \subseteq TxIds
  BY <1>1 DEF AddsOf
<1>3. Stage' = Stage /\ Sent' = Sent
  BY <1>1, <1>2 DEF Stage, Sent
<1>4. carried \in SUBSET Aggs /\ carried \subseteq Sent
  BY DEF Sent
<1>5. Landed' = Landed \cup carried
  <2>1. \A u \in TxIds : txs'[u].state = "landed" <=> u = t \/ txs[u].state = "landed"
    BY <1>1
  <2>2. Landed' = {a \in Aggs : \E u \in AddsOf(a) : txs'[u].state = "landed"}
    BY <1>2 DEF Landed
  <2>. QED  BY <1>2, <2>1, <2>2 DEF Landed
<1>. HIDE DEF carried
<1>6. PICK S \in SUBSET Aggs : S = carried
  BY <1>4
<1>7. Ledger!Land(S)
  BY <1>3, <1>4, <1>5, <1>6, LedgerMeaning
<1>. QED  BY <1>7, LedgerMeaning DEF LedgerStep

LEMMA RevertMoves ==
    ASSUME IInv, NEW t \in TxIds, TxReverts(t)
    PROVE  LedgerStep
<1>1. /\ txs[t].state = "pending" /\ txs'[t].state = "reverted" /\ txs'[t].agg = txs[t].agg
      /\ \A u \in TxIds : u # t => txs'[u] = txs[u]
      /\ status' = status
  BY DEF IInv, TxReverts, TypeOK, Tx, aggVars
<1>2. \A a \in Aggs : AddsOf(a)' = AddsOf(a)
  BY <1>1 DEF AddsOf
<1>3. Stage' = Stage /\ Sent' = Sent /\ Landed' = Landed
  BY <1>1, <1>2 DEF Stage, Sent, Landed, AddsOf
<1>. QED  BY <1>3 DEF LedgerStep

\* The operator's commands: a reset is invisible, a retry withdraws.
LEMMA OperatorMoves ==
    ASSUME IInv, ResetFailed \/ RetryUnconfirmed
    PROVE  LedgerStep
<1>1. CASE ResetFailed
  <2>1. \A a \in Aggs : StageOf(status'[a]) = StageOf(status[a])
    BY <1>1, StageValue DEF ResetFailed
  <2>. QED  BY <1>1, <2>1, Invisible DEF ResetFailed
<1>2. CASE RetryUnconfirmed
  <2>1. UNCHANGED <<Sent, Landed>>
    BY <1>2, ChainSame DEF RetryUnconfirmed
  <2>2. PICK S \in SUBSET Aggs : S = Unconfirmed
    BY DEF Unconfirmed
  <2>3. \A a \in S : Stage[a] = "attempted"
    BY <2>2, StageValue DEF Stage, Unconfirmed
  <2>4. \A a \in Aggs : StageOf(status'[a]) = IF a \in S THEN "unsent" ELSE StageOf(status[a])
    BY <1>2, <2>2, StageValue DEF RetryUnconfirmed
  <2>5. Stage' = [a \in Aggs |-> IF a \in S THEN "unsent" ELSE Stage[a]]
    BY <2>4 DEF Stage
  <2>6. Ledger!Withdraw(S)
    BY <2>1, <2>3, <2>5, LedgerMeaning
  <2>. QED  BY <2>6, LedgerMeaning DEF LedgerStep
<1>. QED  BY <1>1, <1>2

\* What a process writes of the row under work.
LEMMA ProcessMoves ==
    ASSUME IInv, NEW r \in Procs, Start(r) \/ Step(r) \/ Crash(r)
    PROVE  LedgerStep
<1>. USE DEF At, aggVars
<1>0. TypeOK
  BY DEF IInv
<1>1. ASSUME UNCHANGED <<status, txs>> PROVE LedgerStep
  BY <1>1, Invisible
<1>2. ASSUME NEW s, SetStatus(cur[r], s), s # "committed", UNCHANGED txs,
             pc[r] \in {"admitted", "pull", "presigned", "errored", "confirm", "event"}
      PROVE  LedgerStep
  <2>1. cur[r] \in Aggs
    BY <1>0, <1>2 DEF TypeOK
  <2>2. status[cur[r]] # "committed"
    BY <1>2, <2>1 DEF IInv, RowUnderWork, SnapshotCurrent, Resumable, InFlightStatus
  <2>. QED  BY <1>0, <1>2, <2>1, <2>2, RowMoves
<1>3. ASSUME NEW h, NEW b, MarkCommitted(cur[r], h, b), UNCHANGED txs,
             \/ OnChain(cur[r]) /\ pc[r] \in {"receipt", "reconcile", "parked", "errored"}
             \/ pc[r] = "event"
      PROVE  LedgerStep
  <2>1. cur[r] \in Aggs
    BY <1>0, <1>3 DEF TypeOK
  <2>2. status[cur[r]] # "committed"
    BY <1>3 DEF IInv, RowUnderWork
  <2>3. cur[r] \in Landed
    <3>1. CASE OnChain(cur[r])
      BY <2>1, <3>1, OnChainLanded
    <3>2. CASE pc[r] = "event"
      BY <2>1, <3>2, LandedRow DEF IInv, TxUnderWork
    <3>. QED  BY <1>3, <3>1, <3>2
  <2>. QED  BY <1>0, <1>3, <2>1, <2>2, <2>3, RowMoves DEF MarkCommitted
<1>4. CASE \/ Start(r) \/ Crash(r) \/ Stop(r) \/ (\E a \in Aggs : Admit(r, a))
           \/ ResumeReceipt(r) \/ ResumeUnconfirmed(r) \/ ResumeNotLanded(r)
  BY <1>1, <1>4 DEF Start, Crash, Stop, Admit, ResumeReceipt, ResumeUnconfirmed,
     ResumeNotLanded
<1>5. CASE \/ Presign(r) \/ AddRefused(r) \/ PersistHash(r)
           \/ AddDone(r) \/ ConfirmTimeout(r) \/ Evict(r)
  BY <1>1, <1>5 DEF Presign, AddRefused, PersistHash, AddDone, ConfirmTimeout, Evict
<1>6. CASE \/ RefuseSmall(r) \/ BeginPull(r) \/ PullComplete(r) \/ PullFailed(r)
           \/ Breadcrumb(r) \/ ErroredUnknown(r)
  BY <1>2, <1>6 DEF RefuseSmall, BeginPull, PullComplete, PullFailed, Breadcrumb,
     ErroredUnknown, Mark
<1>7. CASE AddReverted(r) \/ EventMismatch(r)
  BY <1>2, <1>7 DEF AddReverted, EventMismatch, Mark
<1>8. CASE ReceiptLanded(r) \/ ReconcileLanded(r) \/ AlreadyOnChain(r) \/ ErroredButLanded(r)
  BY <1>3, <1>8 DEF ReceiptLanded, ReconcileLanded, AlreadyOnChain, ErroredButLanded
<1>9. CASE EventMatches(r) \/ EventUnseen(r)
  BY <1>3, <1>9 DEF EventMatches, EventUnseen
<1>10. ASSUME NEW t \in TxIds, AddAccepted(r, t) \/ AddAnswerLost(r, t) PROVE LedgerStep
  BY <1>10, BroadcastMoves DEF AddAccepted, AddAnswerLost
<1>. QED
  BY <1>4, <1>5, <1>6, <1>7, <1>8, <1>9, <1>10 DEF Step, LoopHead, Resume, PullAndAdd, Await

LEMMA LedgerNext == IInv /\ [Next]_vars => LedgerStep
<1>. SUFFICES ASSUME IInv, [Next]_vars PROVE LedgerStep
  OBVIOUS
<1>1. ASSUME NEW r \in Procs, Start(r) \/ Step(r) \/ Crash(r) PROVE LedgerStep
  BY <1>1, ProcessMoves
<1>2. ASSUME NEW t \in TxIds, TxLands(t) \/ TxReverts(t) PROVE LedgerStep
  BY <1>2, LandMoves, RevertMoves
<1>3. CASE ResetFailed \/ RetryUnconfirmed
  BY <1>3, OperatorMoves
<1>4. CASE UNCHANGED vars
  BY <1>4, Invisible DEF vars
<1>. QED  BY <1>1, <1>2, <1>3, <1>4 DEF Next, Environment

LEMMA LedgerInit == Init => Ledger!Init
<1>. SUFFICES ASSUME Init PROVE Ledger!Init
  OBVIOUS
<1>1. \A a \in Aggs : status[a] = "planned" /\ AddsOf(a) = {}
  BY AggsAssumption DEF Init, AddsOf, UnusedTx, NoAgg
<1>. QED  BY <1>1, StageValue DEF Ledger!Init, StageOf

\* The aggregate rows and the adds behave as AddLedger says, in every behaviour of the
\* submit loop with one process at a time, any faults, kills, resets and re-arms: no add
\* without a durable mark, no commit without a landed add (submit-pdp.ts:455, 529).
THEOREM LedgerImplemented ==
    ASSUME OneProc
    PROVE  Spec => AggregateLedger
<1>1. IInv /\ [Next]_vars => [Ledger!Next]_(Ledger!vars)
  BY LedgerNext DEF LedgerStep, Stage, StageOf, Sent, Landed, Ledger!vars
<1>. QED  BY Invariant, LedgerInit, <1>1, PTL DEF Spec, AggregateLedger, Ledger!Spec

(***************************************************************************)
(* Any number of processes.  What a process knows of the rows may be old,  *)
(* but not what it knows of the chain: an add that landed stays landed.    *)
(***************************************************************************)
TxOfRow ==
    \A r \in Procs :
        /\ pc[r] \in {"answered", "confirm", "event"} => tx[r] \in TxIds /\ tx[r] \in AddsOf(cur[r])
        /\ At(r, "event") => txs[tx[r]].state = "landed"

RunsDated ==
    /\ \A t \in TxIds : txs[t].run <= starts
    /\ \A r \in Procs : seen[r].run <= starts

RootsAgree == "root" \notin FaultKinds => \A t \in TxIds : txs[t].own

SharedInv ==
    /\ TypeOK /\ TxWellFormed /\ RunsDated /\ RootsAgree
    /\ TxOfRow /\ LookedFirst
    /\ CommittedWasAdded /\ NoAddAfterLanding

\* A write of the rows that commits none, or one that was added.
LEMMA SharedRows ==
    ASSUME TypeOK, CommittedWasAdded, txs' = txs, NEW a \in Aggs,
           \/ status' = status
           \/ \E s \in Status \ {"committed"} : Mark(a, s)
           \/ /\ \E t \in AddsOf(a) : txs[t].state = "landed"
              /\ \E h, b : MarkCommitted(a, h, b)
    PROVE  CommittedWasAdded'
<1>1. \A c \in Aggs : AddsOf(c)' = AddsOf(c)
  BY DEF AddsOf
<1>2. ASSUME NEW c \in Aggs, status'[c] = "committed"
      PROVE  \E t \in AddsOf(c) : txs[t].state = "landed"
  BY <1>2 DEF TypeOK, CommittedWasAdded, Mark, MarkCommitted, SetStatus
<1>. QED  BY <1>1, <1>2 DEF CommittedWasAdded

\* A step of one process that leaves the chain alone: what matters is what it then
\* knows of its transaction and of what landed.
LEMMA SharedMove ==
    ASSUME SharedInv, TypeOK', NEW r \in Procs, CommittedWasAdded', txs' = txs,
           starts' \in Nat, starts <= starts', seen'[r].run <= starts',
           \A q \in Procs \ {r} : /\ pc'[q] = pc[q] /\ cur'[q] = cur[q]
                                  /\ tx'[q] = tx[q] /\ seen'[q] = seen[q],
           pc'[r] \in {"answered", "confirm", "event"} =>
               tx'[r] \in TxIds /\ tx'[r] \in AddsOf(cur'[r]),
           pc'[r] = "event" => txs[tx'[r]].state = "landed",
           pc'[r] \in {"presigned", "add"} =>
               \A u \in AddsOf(cur'[r]) :
                   txs[u].state = "landed" /\ txs[u].own => seen'[r].run <= txs[u].landedIn
    PROVE  SharedInv'
<1>1. \A c : AddsOf(c)' = AddsOf(c)
  BY DEF AddsOf
<1>2. TxWellFormed' /\ RootsAgree' /\ NoAddAfterLanding'
  BY <1>1 DEF SharedInv, TxWellFormed, RootsAgree, NoAddAfterLanding
<1>3. RunsDated'
  <2>1. starts \in Nat /\ \A t \in TxIds : txs[t].run \in Nat
    BY DEF SharedInv, TypeOK, Tx
  <2>2. \A q \in Procs : seen[q].run \in Nat
    BY DEF SharedInv, TypeOK, Snapshot
  <2>3. ASSUME NEW q \in Procs PROVE seen'[q].run <= starts'
    BY <2>1, <2>2 DEF SharedInv, RunsDated
  <2>. QED  BY <2>1, <2>3 DEF SharedInv, RunsDated
<1>4. TxOfRow'
  BY <1>1 DEF SharedInv, TxOfRow, At
<1>5. LookedFirst'
  BY <1>1 DEF SharedInv, LookedFirst
<1>. QED  BY <1>2, <1>3, <1>4, <1>5 DEF SharedInv

\* On to a place where nothing need be known, or away from the row.
LEMMA SharedLeave ==
    ASSUME SharedInv, TypeOK', NEW r \in Procs, CommittedWasAdded', txs' = txs, starts' = starts,
           \/ Continue(r) \/ Leave(r)
           \/ \E l \in {"receipt", "reconcile", "pull", "parked", "errored", "evict"} :
                 Advance(r, l)
    PROVE  SharedInv'
<1>1. starts \in Nat /\ seen[r].run \in Nat /\ seen[r].run <= starts
  BY DEF SharedInv, RunsDated, TypeOK, Snapshot
<1>2. seen'[r].run <= starts /\ pc'[r] \notin {"answered", "confirm", "event", "presigned", "add"}
  BY <1>1 DEF SharedInv, TypeOK, Continue, Leave, Advance, Goto, NoSnapshot
<1>3. \A q \in Procs \ {r} : /\ pc'[q] = pc[q] /\ cur'[q] = cur[q]
                             /\ tx'[q] = tx[q] /\ seen'[q] = seen[q]
  BY DEF SharedInv, TypeOK, Continue, Leave, Advance, Goto
<1>. QED  BY <1>1, <1>2, <1>3, SharedMove

\* An add: it is pending, and what had landed before its run began was looked for.
LEMMA SharedBroadcast ==
    ASSUME SharedInv, TypeOK', NEW r \in Procs, NEW t \in TxIds, NEW own \in BOOLEAN,
           At(r, "add"), FreshTx(t), Broadcast(r, t, own),
           own \/ "root" \in FaultKinds, status' = status, starts' = starts, seen' = seen,
           cur' = cur, \A q \in Procs \ {r} : pc'[q] = pc[q] /\ tx'[q] = tx[q],
           pc'[r] = "errored" \/ (pc'[r] = "answered" /\ tx'[r] = t)
    PROVE  SharedInv'
<1>0. cur[r] \in Aggs /\ cur[r] # NoAgg
  BY AggsAssumption DEF SharedInv, TypeOK, At, NoAgg
<1>1. /\ txs'[t].agg = cur[r] /\ txs'[t].state = "pending" /\ txs'[t].own = own
      /\ txs'[t].run = seen[r].run
      /\ \A u \in TxIds \ {t} : txs'[u] = txs[u]
  BY DEF SharedInv, TypeOK, Broadcast
<1>2. txs[t].agg = NoAgg /\ txs[t].state = "unused"
  BY DEF SharedInv, TxWellFormed, FreshTx, UnusedTx
<1>3. \A c \in Aggs : /\ AddsOf(c)' = IF c = cur[r] THEN AddsOf(c) \cup {t} ELSE AddsOf(c)
                      /\ t \notin AddsOf(c)
  <2>. TAKE c \in Aggs
  <2>1. c # NoAgg
    BY AggsAssumption DEF NoAgg
  <2>2. \A u \in TxIds :
           txs'[u].agg = c <=> (u = t /\ c = cur[r]) \/ (u # t /\ txs[u].agg = c)
    BY <1>1
  <2>3. t \notin AddsOf(c)
    BY <1>2, <2>1 DEF AddsOf
  <2>4. CASE c = cur[r]
    BY <2>2, <2>3, <2>4 DEF AddsOf
  <2>5. CASE c # cur[r]
    BY <2>2, <2>3, <2>5 DEF AddsOf
  <2>. QED  BY <2>3, <2>4, <2>5
<1>4. TxWellFormed' /\ RootsAgree' /\ RunsDated'
  BY <1>1 DEF SharedInv, TxWellFormed, RootsAgree, RunsDated
<1>5. CommittedWasAdded'
  BY <1>1, <1>3 DEF SharedInv, CommittedWasAdded, AddsOf
<1>6. TxOfRow'
  <2>. SUFFICES ASSUME NEW q \in Procs, pc'[q] \in {"answered", "confirm", "event"}
                PROVE  /\ tx'[q] \in TxIds /\ txs'[tx'[q]].agg = cur[q]
                       /\ pc'[q] = "event" => txs'[tx'[q]].state = "landed"
    BY DEF TxOfRow, AddsOf, At
  <2>1. CASE q = r
    BY <2>1, <1>1
  <2>2. CASE q # r
    <3>1. /\ pc'[q] = pc[q] /\ tx'[q] = tx[q] /\ cur[q] \in Aggs
          /\ tx[q] \in TxIds /\ txs[tx[q]].agg = cur[q]
          /\ pc[q] = "event" => txs[tx[q]].state = "landed"
      BY <2>2 DEF SharedInv, TxOfRow, AddsOf, At, TypeOK
    <3>2. tx[q] # t
      BY <3>1, <1>2, AggsAssumption DEF NoAgg
    <3>. QED  BY <3>1, <3>2, <1>1
  <2>. QED  BY <2>1, <2>2
<1>7. LookedFirst'
  <2>. SUFFICES ASSUME NEW q \in Procs, pc'[q] \in {"presigned", "add"}, NEW u \in AddsOf(cur[q])',
                       txs'[u].state = "landed", txs'[u].own
                PROVE  seen[q].run <= txs'[u].landedIn
    BY DEF LookedFirst
  <2>1. q # r /\ pc[q] \in {"presigned", "add"} /\ cur[q] \in Aggs
    BY DEF SharedInv, TypeOK
  <2>2. u # t /\ u \in TxIds /\ u \in AddsOf(cur[q]) /\ txs'[u] = txs[u]
    BY <1>1, <1>3, <2>1 DEF AddsOf
  <2>. QED  BY <2>1, <2>2 DEF SharedInv, LookedFirst
<1>8. NoAddAfterLanding'
  <2>. SUFFICES ASSUME NEW a \in Aggs, NEW v \in AddsOf(a)', NEW u \in AddsOf(a)', u # v,
                       txs'[u].state = "landed", txs'[u].own
                PROVE  txs'[v].run <= txs'[u].landedIn
    BY DEF NoAddAfterLanding
  <2>1. u # t /\ u \in AddsOf(a) /\ txs'[u] = txs[u]
    BY <1>1, <1>3 DEF AddsOf
  <2>2. CASE v = t
    <3>1. a = cur[r] /\ txs'[v].run = seen[r].run
      BY <2>2, <1>1, <1>3
    <3>. QED  BY <2>1, <3>1 DEF SharedInv, LookedFirst, At
  <2>3. CASE v # t
    <3>1. v \in AddsOf(a) /\ txs'[v] = txs[v]
      BY <2>3, <1>1, <1>3 DEF AddsOf
    <3>. QED  BY <2>1, <3>1 DEF SharedInv, NoAddAfterLanding
  <2>. QED  BY <2>2, <2>3
<1>. QED  BY <1>4, <1>5, <1>6, <1>7, <1>8 DEF SharedInv

LEMMA SharedStep ==
    ASSUME SharedInv, TypeOK', NEW r \in Procs, Start(r) \/ Step(r) \/ Crash(r)
    PROVE  SharedInv'
<1>0. /\ TypeOK /\ CommittedWasAdded /\ starts \in Nat /\ seen[r].run \in Nat
      /\ seen[r].run <= starts
      /\ pc[r] \notin {"idle", "next"} => cur[r] \in Aggs
  BY DEF SharedInv, RunsDated, TypeOK, Snapshot
<1>1. ASSUME OnChain(cur[r]) PROVE \E t \in AddsOf(cur[r]) : txs[t].state = "landed"
  BY <1>1 DEF OnChain
<1>2. CASE RefuseSmall(r) \/ PullFailed(r) \/ ErroredUnknown(r) \/ AddReverted(r)
           \/ EventMismatch(r)
  <2>1. cur[r] \in Aggs /\ \E s \in Status \ {"committed"} : Mark(cur[r], s)
    BY <1>2, <1>0 DEF RefuseSmall, PullFailed, ErroredUnknown, AddReverted, EventMismatch,
       At, Status
  <2>2. txs' = txs /\ starts' = starts /\ Continue(r)
    BY <1>2 DEF RefuseSmall, PullFailed, ErroredUnknown, AddReverted, EventMismatch
  <2>. QED  BY <1>0, <2>1, <2>2, SharedRows, SharedLeave
<1>3. CASE BeginPull(r) \/ PullComplete(r)
  <2>1. cur[r] \in Aggs /\ \E s \in Status \ {"committed"} : Mark(cur[r], s)
    BY <1>3, <1>0 DEF BeginPull, PullComplete, At, Status
  <2>2. txs' = txs /\ starts' = starts /\ \E l \in {"pull", "parked"} : Advance(r, l)
    BY <1>3 DEF BeginPull, PullComplete
  <2>. QED  BY <1>0, <2>1, <2>2, SharedRows, SharedLeave
<1>4. CASE ResumeReceipt(r) \/ ResumeUnconfirmed(r) \/ AddRefused(r)
  <2>1. status' = status /\ txs' = txs /\ starts' = starts /\ cur[r] \in Aggs
    BY <1>4, <1>0 DEF ResumeReceipt, ResumeUnconfirmed, AddRefused, aggVars, At
  <2>2. \E l \in {"receipt", "reconcile", "errored"} : Advance(r, l)
    BY <1>4 DEF ResumeReceipt, ResumeUnconfirmed, AddRefused
  <2>. QED  BY <1>0, <2>1, <2>2, SharedRows, SharedLeave
<1>5. CASE ResumeNotLanded(r) \/ ConfirmTimeout(r) \/ Evict(r) \/ Stop(r) \/ Crash(r)
  <2>1. status' = status /\ txs' = txs /\ starts' = starts
    BY <1>5 DEF ResumeNotLanded, ConfirmTimeout, Evict, Stop, Crash, aggVars
  <2>2. CommittedWasAdded'
    BY <1>0, <2>1 DEF CommittedWasAdded, AddsOf
  <2>3. Continue(r) \/ Leave(r)
    BY <1>5 DEF ResumeNotLanded, ConfirmTimeout, Evict, Stop, Crash
  <2>. QED  BY <2>1, <2>2, <2>3, SharedLeave
<1>6. CASE ReceiptLanded(r) \/ ReconcileLanded(r) \/ AlreadyOnChain(r) \/ ErroredButLanded(r)
  <2>1. cur[r] \in Aggs /\ OnChain(cur[r]) /\ \E h, b : MarkCommitted(cur[r], h, b)
    BY <1>6, <1>0 DEF ReceiptLanded, ReconcileLanded, AlreadyOnChain, ErroredButLanded, At
  <2>2. txs' = txs /\ starts' = starts /\ (Continue(r) \/ Advance(r, "evict"))
    BY <1>6 DEF ReceiptLanded, ReconcileLanded, AlreadyOnChain, ErroredButLanded
  <2>. QED  BY <1>0, <1>1, <2>1, <2>2, SharedRows, SharedLeave
<1>7. CASE EventMatches(r) \/ EventUnseen(r)
  <2>1. cur[r] \in Aggs /\ At(r, "event") /\ \E h, b : MarkCommitted(cur[r], h, b)
    BY <1>7, <1>0 DEF EventMatches, EventUnseen, At
  <2>2. txs' = txs /\ starts' = starts /\ Advance(r, "evict")
    BY <1>7 DEF EventMatches, EventUnseen
  <2>3. \E t \in AddsOf(cur[r]) : txs[t].state = "landed"
    BY <2>1 DEF SharedInv, TxOfRow, At
  <2>. QED  BY <1>0, <2>1, <2>2, <2>3, SharedRows, SharedLeave
<1>8. CASE Presign(r) \/ Breadcrumb(r) \/ PersistHash(r) \/ AddDone(r)
  <2>1. /\ cur[r] \in Aggs /\ txs' = txs /\ starts' = starts
        /\ status' = status \/ \E s \in Status \ {"committed"} : Mark(cur[r], s)
    BY <1>8, <1>0 DEF Presign, Breadcrumb, PersistHash, AddDone, At, aggVars, Status
  <2>2. CommittedWasAdded'
    BY <1>0, <2>1, SharedRows
  <2>3. /\ cur' = cur /\ seen' = seen /\ tx' = tx
        /\ pc'[r] \in {"presigned", "add", "confirm", "event"}
        /\ \A q \in Procs \ {r} : pc'[q] = pc[q]
        /\ pc'[r] = "presigned" => ~ OnChain(cur[r])
        /\ pc'[r] = "add" => pc[r] = "presigned"
        /\ pc'[r] \in {"confirm", "event"} => pc[r] \in {"answered", "confirm"}
        /\ pc'[r] = "event" => txs[tx[r]].state = "landed"
    BY <1>8, <1>0 DEF Presign, Breadcrumb, PersistHash, AddDone, At, Advance, Goto, TypeOK
  <2>4. pc'[r] \in {"presigned", "add"} =>
           \A u \in AddsOf(cur[r]) :
               txs[u].state = "landed" /\ txs[u].own => seen[r].run <= txs[u].landedIn
    BY <2>3 DEF OnChain, SharedInv, LookedFirst
  <2>5. pc'[r] \in {"answered", "confirm", "event"} => tx[r] \in TxIds /\ tx[r] \in AddsOf(cur[r])
    BY <2>3 DEF SharedInv, TxOfRow
  <2>. QED  BY <1>0, <2>1, <2>2, <2>3, <2>4, <2>5, SharedMove
<1>9. ASSUME NEW t \in TxIds, AddAccepted(r, t) \/ AddAnswerLost(r, t)
      PROVE  SharedInv'
  <2>1. PICK own \in BOOLEAN : Broadcast(r, t, own) /\ (own \/ "root" \in FaultKinds)
    BY <1>9 DEF AddAccepted, AddAnswerLost, Fault
  <2>2. /\ At(r, "add") /\ FreshTx(t) /\ status' = status /\ starts' = starts
        /\ seen' = seen /\ cur' = cur
        /\ \A q \in Procs \ {r} : pc'[q] = pc[q] /\ tx'[q] = tx[q]
        /\ pc'[r] = "errored" \/ (pc'[r] = "answered" /\ tx'[r] = t)
    BY <1>9, <1>0 DEF AddAccepted, AddAnswerLost, Advance, Goto, aggVars, TypeOK
  <2>. QED  BY <2>1, <2>2, SharedBroadcast
<1>10. ASSUME NEW a \in Aggs, Admit(r, a)
       PROVE  SharedInv'
  <2>1. /\ status' = status /\ txs' = txs /\ starts' = starts /\ seen' = seen /\ tx' = tx
        /\ pc'[r] = "admitted"
        /\ \A q \in Procs \ {r} : pc'[q] = pc[q] /\ cur'[q] = cur[q]
    BY <1>10, <1>0 DEF Admit, Goto, aggVars, TypeOK
  <2>2. CommittedWasAdded'
    <3>1. \A c \in Aggs : AddsOf(c)' = AddsOf(c)
      BY <2>1 DEF AddsOf
    <3>. QED  BY <1>0, <2>1, <3>1 DEF CommittedWasAdded
  <2>. QED  BY <1>0, <2>1, <2>2, SharedMove
<1>11. CASE Start(r)
  <2>1. /\ status' = status /\ txs' = txs /\ starts' = starts + 1 /\ seen'[r].run = starts'
        /\ tx' = tx /\ cur' = cur /\ pc'[r] = "next"
        /\ \A q \in Procs \ {r} : pc'[q] = pc[q] /\ seen'[q] = seen[q]
    BY <1>11, <1>0 DEF Start, Goto, aggVars, TypeOK
  <2>2. CommittedWasAdded'
    BY <1>0, <2>1 DEF CommittedWasAdded, AddsOf
  <2>3. starts' \in Nat /\ starts <= starts' /\ seen'[r].run <= starts'
    BY <1>0, <2>1
  <2>. QED  BY <2>1, <2>2, <2>3, SharedMove
<1>. QED
  BY <1>2, <1>3, <1>4, <1>5, <1>6, <1>7, <1>8, <1>9, <1>10, <1>11
     DEF Step, LoopHead, Resume, PullAndAdd, Await

LEMMA SharedOperator ==
    ASSUME SharedInv, TypeOK', ResetFailed \/ RetryUnconfirmed \/ UNCHANGED vars
    PROVE  SharedInv'
<1>1. UNCHANGED <<txs, procVars, starts>>
  BY DEF ResetFailed, RetryUnconfirmed, vars, procVars
<1>2. \A c : AddsOf(c)' = AddsOf(c)
  BY <1>1 DEF AddsOf
<1>3. \A a \in Aggs : status'[a] = "committed" => status[a] = "committed"
  BY DEF ResetFailed, RetryUnconfirmed, vars
<1>4. CommittedWasAdded'
  BY <1>1, <1>2, <1>3 DEF SharedInv, CommittedWasAdded
<1>5. TxWellFormed' /\ RunsDated' /\ RootsAgree' /\ NoAddAfterLanding'
  BY <1>1, <1>2 DEF SharedInv, TxWellFormed, RunsDated, RootsAgree, NoAddAfterLanding, procVars
<1>6. TxOfRow' /\ LookedFirst'
  BY <1>1, <1>2 DEF SharedInv, TxOfRow, LookedFirst, At, procVars
<1>. QED  BY <1>4, <1>5, <1>6 DEF SharedInv

LEMMA SharedMined ==
    ASSUME SharedInv, TypeOK', NEW t \in TxIds, TxLands(t) \/ TxReverts(t)
    PROVE  SharedInv'
<1>1. UNCHANGED <<status, procVars, starts>> /\ txs[t].state = "pending"
  BY DEF TxLands, TxReverts, aggVars
<1>2. /\ \A u \in TxIds \ {t} : txs'[u] = txs[u]
      /\ txs'[t].agg = txs[t].agg /\ txs'[t].own = txs[t].own /\ txs'[t].run = txs[t].run
      /\ txs'[t].state \in {"landed", "reverted"}
      /\ txs'[t].state = "landed" => txs'[t].landedIn = starts
  BY DEF SharedInv, TypeOK, Tx, TxLands, TxReverts
<1>3. \A c : AddsOf(c)' = AddsOf(c)
  BY <1>2 DEF AddsOf
<1>4. \A u \in TxIds : txs[u].state = "landed" => u # t /\ txs'[u] = txs[u]
  BY <1>1, <1>2
<1>5. \A u \in TxIds : txs'[u].run = txs[u].run /\ txs'[u].own = txs[u].own
  BY <1>2
<1>6. TxWellFormed' /\ RunsDated' /\ RootsAgree'
  BY <1>1, <1>2, <1>5 DEF SharedInv, TxWellFormed, RunsDated, RootsAgree, procVars
<1>7. CommittedWasAdded'
  <2>. SUFFICES ASSUME NEW a \in Aggs, status[a] = "committed"
                PROVE  \E u \in AddsOf(a) : txs'[u].state = "landed"
    BY <1>1, <1>3 DEF CommittedWasAdded
  <2>1. PICK u \in AddsOf(a) : txs[u].state = "landed"
    BY DEF SharedInv, CommittedWasAdded
  <2>2. u \in TxIds
    BY DEF AddsOf
  <2>. QED  BY <2>1, <2>2, <1>4
<1>8. TxOfRow'
  BY <1>1, <1>3, <1>4 DEF SharedInv, TxOfRow, At, procVars
<1>9. LookedFirst'
  <2>. SUFFICES ASSUME NEW q \in Procs, pc[q] \in {"presigned", "add"}, NEW u \in AddsOf(cur[q]),
                       txs'[u].state = "landed", txs'[u].own
                PROVE  seen[q].run <= txs'[u].landedIn
    BY <1>1, <1>3 DEF LookedFirst, procVars
  <2>1. CASE u = t
    BY <2>1, <1>2 DEF SharedInv, RunsDated
  <2>2. CASE u # t
    BY <2>2, <1>2 DEF SharedInv, LookedFirst, AddsOf
  <2>. QED  BY <2>1, <2>2
<1>10. NoAddAfterLanding'
  <2>. SUFFICES ASSUME NEW a \in Aggs, NEW v \in AddsOf(a), NEW u \in AddsOf(a), u # v,
                       txs'[u].state = "landed", txs'[u].own
                PROVE  txs[v].run <= txs'[u].landedIn
    BY <1>3, <1>5 DEF NoAddAfterLanding, AddsOf
  <2>1. CASE u = t
    BY <2>1, <1>2 DEF SharedInv, RunsDated, AddsOf
  <2>2. CASE u # t
    BY <2>2, <1>2 DEF SharedInv, NoAddAfterLanding, AddsOf
  <2>. QED  BY <2>1, <2>2
<1>. QED  BY <1>6, <1>7, <1>8, <1>9, <1>10 DEF SharedInv

LEMMA SharedHolds == Spec => []SharedInv
<1>1. Init => SharedInv
  <2>. SUFFICES ASSUME Init PROVE SharedInv
    OBVIOUS
  <2>1. TypeOK
    BY DEF Init, TypeOK, Status, PC, Tx, UnusedTx, Snapshot, NoSnapshot
  <2>2. /\ \A t \in TxIds : /\ txs[t].state = "unused" /\ txs[t].run = 0 /\ txs[t].own
                            /\ txs[t] = UnusedTx
        /\ \A r \in Procs : pc[r] = "idle" /\ seen[r].run = 0
        /\ \A a \in Aggs : status[a] = "planned"
        /\ starts = 0
    BY DEF Init, UnusedTx, NoSnapshot
  <2>3. TxWellFormed /\ RootsAgree /\ CommittedWasAdded /\ TxOfRow /\ LookedFirst
    BY <2>2 DEF TxWellFormed, RootsAgree, CommittedWasAdded, TxOfRow, LookedFirst, At
  <2>4. RunsDated
    BY <2>2 DEF RunsDated
  <2>5. NoAddAfterLanding
    BY <2>2 DEF NoAddAfterLanding, AddsOf
  <2>. QED  BY <2>1, <2>3, <2>4, <2>5 DEF SharedInv
<1>2. SharedInv /\ [Next]_vars => SharedInv'
  <2>. SUFFICES ASSUME SharedInv, [Next]_vars PROVE SharedInv'
    OBVIOUS
  <2>1. TypeOK'
    BY TypeNext DEF SharedInv
  <2>. QED  BY <2>1, SharedStep, SharedOperator, SharedMined DEF Next, Environment
<1>. QED  BY <1>1, <1>2, PTL DEF Spec

\* However many pdp-submit processes work on one database: none adds a root that had
\* landed before it began, since each looks at the active pieces right before its add.
THEOREM GuardedAdd == Spec => []NoAddAfterLanding
<1>1. SharedInv => NoAddAfterLanding
  BY DEF SharedInv
<1>. QED  BY <1>1, SharedHolds, PTL

\* However many processes there are, a row that says committed was added and an add of
\* it landed: on every path the commit follows a look at the chain by the same process.
THEOREM CommittedAdded == Spec => []CommittedWasAdded
<1>1. SharedInv => CommittedWasAdded
  BY DEF SharedInv
<1>. QED  BY <1>1, SharedHolds, PTL

\* However many processes there are, a committed row's root is active on chain when the
\* provider computes the roots that we do.
THEOREM CommittedOnChainByAny ==
    ASSUME "root" \notin FaultKinds
    PROVE  Spec => []CommittedIsOnChain
<1>1. SharedInv => CommittedIsOnChain
  BY DEF SharedInv, CommittedWasAdded, CommittedIsOnChain, RootsAgree, OnChain, AddsOf
<1>. QED  BY <1>1, SharedHolds, PTL
=============================================================================
