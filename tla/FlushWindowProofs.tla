--------------------------- MODULE FlushWindowProofs ---------------------------
(* What FlushWindow's window arithmetic promises for every value of its        *)
(* constants.                                                                   *)
EXTENDS FlushWindow, FiniteSetTheorems, SequenceTheorems, TLAPS

\* The arithmetic of gc-window.ts and db.ts: a lowered window is never above the
\* window it lowers, unless that was below the floor, and never below the floor.
LEMMA LowerBounds ==
    ASSUME NEW w \in Nat, NEW a \in Nat
    PROVE  /\ LowerWindowOnGc(w, a) \in Nat
           /\ LowerWindowOnGc(w, a) >= MinWindow
           /\ w >= MinWindow => LowerWindowOnGc(w, a) <= w
BY FloorAssumption DEF LowerWindowOnGc, Larger, Smaller

\* the windows are numbers, and no row was parked in the future
ClockInv ==
    /\ now \in Nat
    /\ assumed \in Nat
    /\ trueWindow \in [Ctx -> Nat]
    /\ stored \in [Ctx -> Nat]
    /\ parked \in [Ctx -> Seq(Nat)]
    /\ \A c \in Ctx : \A i \in 1 .. Len(parked[c]) : parked[c][i] <= now
    /\ ctx \in Ctx

LEMMA ClockInit == Init => ClockInv
<1> SUFFICES ASSUME Init PROVE ClockInv
  OBVIOUS
<1>1. trueWindow \in [Ctx -> Nat] /\ assumed \in Nat
  BY WindowAssumption DEF Init
<1>2. 1 \in Ctx
  BY CopiesAssumption DEF Ctx
<1>3. \A c \in Ctx : parked[c] = <<>>
  BY DEF Init
<1> QED BY <1>1, <1>2, <1>3 DEF Init, ClockInv, NoRow

LEMMA ParkClock ==
    ASSUME ClockInv, NEW c \in Ctx, NEW time \in Nat, time >= now, Park(c, time)
    PROVE  /\ parked' \in [Ctx -> Seq(Nat)]
           /\ \A d \in Ctx : \A i \in 1 .. Len(parked'[d]) : parked'[d][i] <= time
<1>1. parked' = [parked EXCEPT ![c] = Append(@, time)]
  BY DEF Park
<1>2. parked'[c] = Append(parked[c], time)
  BY <1>1 DEF ClockInv
<1>3. \A d \in Ctx : d # c => parked'[d] = parked[d]
  BY <1>1 DEF ClockInv
<1>4. parked' \in [Ctx -> Seq(Nat)]
  BY <1>1 DEF ClockInv
<1>5. \A d \in Ctx : Len(parked[d]) \in Nat
                     /\ \A i \in 1 .. Len(parked[d]) : parked[d][i] \in Nat /\ parked[d][i] <= time
  <2>1. now \in Nat
    BY DEF ClockInv
  <2>. SUFFICES ASSUME NEW d \in Ctx
                PROVE  Len(parked[d]) \in Nat
                       /\ \A i \in 1 .. Len(parked[d]) : parked[d][i] \in Nat /\ parked[d][i] <= time
    OBVIOUS
  <2>2. parked[d] \in Seq(Nat) /\ \A i \in 1 .. Len(parked[d]) : parked[d][i] <= now
    BY DEF ClockInv
  <2>. QED  BY <2>1, <2>2
<1>6. \A i \in 1 .. Len(parked'[c]) : parked'[c][i] <= time
  <2>1. /\ Len(parked'[c]) = Len(parked[c]) + 1
        /\ parked'[c][Len(parked[c]) + 1] = time
        /\ \A i \in 1 .. Len(parked[c]) : parked'[c][i] = parked[c][i]
    BY <1>2 DEF ClockInv
  <2>. SUFFICES ASSUME NEW i \in 1 .. Len(parked'[c]) PROVE parked'[c][i] <= time
    OBVIOUS
  <2>2. i = Len(parked[c]) + 1 \/ i \in 1 .. Len(parked[c])
    BY <1>5, <2>1
  <2>3. CASE i = Len(parked[c]) + 1
    <3>1. parked'[c][i] = time
      BY <2>1, <2>3
    <3>. QED  BY ONLY <3>1, time \in Nat
  <2>4. CASE i \in 1 .. Len(parked[c])
    <3>1. parked'[c][i] = parked[c][i]
      BY <2>1, <2>4
    <3>2. parked[c][i] <= time
      BY <1>5, <2>4
    <3>. QED  BY <3>1, <3>2
  <2>. QED  BY <2>2, <2>3, <2>4
<1>. QED  BY <1>3, <1>4, <1>5, <1>6

\* A queue some of whose rows are gone.
LEMMA KeepClock ==
    ASSUME ClockInv, NEW time \in Nat, time >= now, NEW q \in Seq(Nat),
           \A i \in 1 .. Len(q) : \E j \in 1 .. Len(parked[ctx]) : q[i] = parked[ctx][j],
           parked' = [parked EXCEPT ![ctx] = q]
    PROVE  /\ parked' \in [Ctx -> Seq(Nat)]
           /\ \A d \in Ctx : \A i \in 1 .. Len(parked'[d]) : parked'[d][i] <= time
<1>1. parked'[ctx] = q /\ \A d \in Ctx : d # ctx => parked'[d] = parked[d]
  BY DEF ClockInv
<1>2. parked' \in [Ctx -> Seq(Nat)]
  BY DEF ClockInv
<1>3. ASSUME NEW i \in 1 .. Len(q) PROVE q[i] <= time
  <2>1. PICK j \in 1 .. Len(parked[ctx]) : q[i] = parked[ctx][j]
    OBVIOUS
  <2>2. q[i] \in Nat /\ now \in Nat /\ parked[ctx][j] <= now
    BY ElementOfSeq, LenProperties DEF ClockInv
  <2>. QED  BY <2>1, <2>2
<1>4. ASSUME NEW d \in Ctx, d # ctx, NEW i \in 1 .. Len(parked[d]) PROVE parked[d][i] <= time
  <2>1. parked[d] \in Seq(Nat) /\ now \in Nat /\ parked[d][i] <= now
    BY DEF ClockInv
  <2>2. parked[d][i] \in Nat
    BY <2>1
  <2>. QED  BY <2>1, <2>2
<1>. QED  BY <1>1, <1>2, <1>3, <1>4

\* After a commit only the rows behind the batch are left.
LEMMA TailClock ==
    ASSUME ClockInv, NEW time \in Nat, time >= now,
           parked' = [parked EXCEPT ![ctx] = SubSeq(@, BatchSize + 1, Len(@))]
    PROVE  /\ parked' \in [Ctx -> Seq(Nat)]
           /\ \A d \in Ctx : \A i \in 1 .. Len(parked'[d]) : parked'[d][i] <= time
<1>. DEFINE q == SubSeq(parked[ctx], BatchSize + 1, Len(parked[ctx]))
<1>1. parked[ctx] \in Seq(Nat) /\ BatchSize \in 0 .. Len(parked[ctx])
  BY CopiesAssumption DEF ClockInv, BatchSize, Smaller
<1>2. /\ q \in Seq(Nat)
      /\ \A i \in 1 .. Len(q) : i + BatchSize \in 1 .. Len(parked[ctx])
                                /\ q[i] = parked[ctx][i + BatchSize]
  BY <1>1, SubSeqProperties
<1>3. parked' = [parked EXCEPT ![ctx] = q]
  OBVIOUS
<1>4. \A i \in 1 .. Len(q) : \E j \in 1 .. Len(parked[ctx]) : q[i] = parked[ctx][j]
  BY <1>2
<1>. HIDE DEF q
<1>. QED  BY <1>2, <1>3, <1>4, KeepClock

\* Exactly the rows of a refused batch that are still there stay in the queue.
LEMMA RemainingClock ==
    ASSUME ClockInv, NEW time \in Nat, time >= now, NEW M, NEW f \in Remaining(M),
           parked' = [parked EXCEPT ![ctx] = [k \in DOMAIN f |-> @[f[k]]]]
    PROVE  /\ parked' \in [Ctx -> Seq(Nat)]
           /\ \A d \in Ctx : \A i \in 1 .. Len(parked'[d]) : parked'[d][i] <= time
<1>. DEFINE kept == (1 .. Len(parked[ctx])) \ M
            n == Cardinality(kept)
            q == [k \in DOMAIN f |-> parked[ctx][f[k]]]
<1>1. parked[ctx] \in Seq(Nat)
  BY DEF ClockInv
<1>2. n \in Nat
  <2>1. IsFiniteSet(1 .. Len(parked[ctx]))
    BY <1>1, FS_Interval
  <2>2. IsFiniteSet(kept)
    BY <2>1, FS_Difference
  <2>. QED  BY <2>2, FS_CardinalityType
<1>3. f \in [1 .. n -> kept]
  BY DEF Remaining
<1>. HIDE DEF n
<1>4. DOMAIN f = 1 .. n /\ \A k \in 1 .. n : f[k] \in 1 .. Len(parked[ctx])
  BY <1>3
<1>5. q \in Seq(Nat) /\ Len(q) = n /\ \A i \in 1 .. n : q[i] = parked[ctx][f[i]]
  <2>1. q \in [1 .. n -> Nat]
    BY <1>1, <1>4
  <2>. QED  BY <1>2, <1>4, <2>1
<1>6. \A i \in 1 .. Len(q) : \E j \in 1 .. Len(parked[ctx]) : q[i] = parked[ctx][j]
  BY <1>4, <1>5
<1>. HIDE DEF q
<1>7. parked' = [parked EXCEPT ![ctx] = q]
  BY DEF q
<1>. QED  BY <1>5, <1>6, <1>7, KeepClock

-----------------------------------------------------------------------------
\* What a refused commit writes is a number above the floor.
LEMMA LoweredIsNat ==
    ASSUME ClockInv, NEW time \in Nat, time >= now, NEW i \in 1 .. BatchSize
    PROVE  LowerWindowOnGc(ProviderWindow(ctx), time - parked[ctx][i]) \in Nat \ {0}
<1>1. parked[ctx] \in Seq(Nat) /\ BatchSize \in 0 .. Len(parked[ctx])
  BY CopiesAssumption DEF ClockInv, BatchSize, Smaller
<1>2. i \in 1 .. Len(parked[ctx])
  BY <1>1
<1>3. parked[ctx][i] \in Nat /\ parked[ctx][i] <= time
  BY <1>1, <1>2 DEF ClockInv
<1>4. ProviderWindow(ctx) \in Nat
  BY DEF ClockInv, ProviderWindow, Smaller
<1>5. time - parked[ctx][i] \in Nat
  BY <1>3
<1>. DEFINE lowered == LowerWindowOnGc(ProviderWindow(ctx), time - parked[ctx][i])
<1>6. lowered \in Nat /\ lowered >= MinWindow
  BY <1>4, <1>5, LowerBounds
<1>. HIDE DEF lowered
<1>7. lowered \in Nat \ {0}
  BY <1>6, FloorAssumption
<1>. QED  BY <1>7 DEF lowered

\* The window of every provider, given what a write does to the row of one.
LEMMA LowerLowers ==
    ASSUME ClockInv, NEW w \in Nat \ {0}, LowerProviderWindow(ctx, w),
           assumed' = assumed
    PROVE  /\ stored' \in [Ctx -> Nat]
           /\ \A c \in Ctx : ProviderWindow(c)' <= ProviderWindow(c)
BY DEF ClockInv, ProviderWindow, LowerProviderWindow, Smaller, NoRow

LEMMA SameRows ==
    ASSUME ClockInv, stored' = stored, assumed' = assumed
    PROVE  \A c \in Ctx : ProviderWindow(c)' <= ProviderWindow(c)
BY DEF ClockInv, ProviderWindow, Smaller

LEMMA WindowNext ==
    ASSUME ClockInv, [Next]_vars
    PROVE  /\ ClockInv'
           /\ \A c \in Ctx : ProviderWindow(c)' <= ProviderWindow(c)
<1>. USE DEF vars
<1>0. /\ now \in Nat /\ assumed \in Nat /\ stored \in [Ctx -> Nat] /\ ctx \in Ctx
      /\ 1 \in Ctx
  BY CopiesAssumption DEF ClockInv, Ctx
<1>1. ASSUME NEW c \in Ctx
      PROVE  c < Copies => c + 1 \in Ctx
  BY CopiesAssumption DEF Ctx
<1>2. ASSUME NEW d \in 0 .. MaxStore, StorePiece(d)
      PROVE  ClockInv' /\ \A c \in Ctx : ProviderWindow(c)' <= ProviderWindow(c)
  <2>1. now' \in Nat /\ now' >= now
    BY <1>0, <1>2, StepAssumption DEF StorePiece
  <2>2. ctx' \in Ctx
    BY <1>0, <1>1, <1>2 DEF StorePiece, NextCopy
  <2>3. /\ parked' \in [Ctx -> Seq(Nat)]
        /\ \A e \in Ctx : \A i \in 1 .. Len(parked'[e]) : parked'[e][i] <= now'
    BY <1>0, <1>2, <2>1, ParkClock DEF StorePiece
  <2>. QED  BY <1>0, <1>2, <2>1, <2>2, <2>3, SameRows DEF StorePiece, ClockInv
<1>3. ASSUME NEW d \in 0 .. MaxPull, PullPiece(d)
      PROVE  ClockInv' /\ \A c \in Ctx : ProviderWindow(c)' <= ProviderWindow(c)
  <2>1. now' \in Nat /\ now' >= now
    BY <1>0, <1>3, StepAssumption DEF PullPiece
  <2>2. ctx' \in Ctx
    BY <1>0, <1>1, <1>3 DEF PullPiece, NextCopy
  <2>3. /\ parked' \in [Ctx -> Seq(Nat)]
        /\ \A e \in Ctx : \A i \in 1 .. Len(parked'[e]) : parked'[e][i] <= now'
    <3>1. CASE Park(ctx, now')
      BY <1>0, <3>1, <2>1, ParkClock
    <3>2. CASE UNCHANGED parked
      <4>1. parked \in [Ctx -> Seq(Nat)]
        BY DEF ClockInv
      <4>2. \A e \in Ctx : \A i \in 1 .. Len(parked[e]) : parked[e][i] \in Nat /\ parked[e][i] <= now
        BY <4>1 DEF ClockInv
      <4>. QED  BY <1>0, <3>2, <2>1, <4>1, <4>2
    <3>. QED  BY <1>3, <3>1, <3>2 DEF PullPiece
  <2>. QED  BY <1>0, <1>3, <2>1, <2>2, <2>3, SameRows DEF PullPiece, ClockInv
<1>4. ASSUME NEW d \in 0 .. MaxCommit, CommitLands(d) \/ CommitFails(d)
      PROVE  ClockInv' /\ \A c \in Ctx : ProviderWindow(c)' <= ProviderWindow(c)
  <2>1. now' \in Nat /\ now' >= now
    BY <1>0, <1>4, StepAssumption DEF CommitLands, CommitFails
  <2>2. UNCHANGED <<assumed, trueWindow, stored, ctx>>
    BY <1>4 DEF CommitLands, CommitFails
  <2>3. /\ parked' \in [Ctx -> Seq(Nat)]
        /\ \A e \in Ctx : \A i \in 1 .. Len(parked'[e]) : parked'[e][i] <= now'
    BY <1>4, <2>1, TailClock DEF CommitLands, CommitFails
  <2>. QED  BY <1>0, <2>1, <2>2, <2>3, SameRows DEF ClockInv
<1>5. ASSUME NEW d \in 0 .. MaxCommit, CommitMissing(d)
      PROVE  ClockInv' /\ \A c \in Ctx : ProviderWindow(c)' <= ProviderWindow(c)
  <2>1. now' \in Nat /\ now' >= now
    BY <1>0, <1>5, StepAssumption DEF CommitMissing
  <2>2. UNCHANGED <<assumed, trueWindow, ctx>>
    BY <1>5 DEF CommitMissing
  <2>3. PICK M \in SUBSET Droppable(now'), i \in Droppable(now') :
          /\ LowerProviderWindow(ctx, LowerWindowOnGc(ProviderWindow(ctx),
                                                      now' - parked[ctx][i]))
          /\ \E f \in Remaining(M) :
               parked' = [parked EXCEPT ![ctx] = [k \in DOMAIN f |-> @[f[k]]]]
    BY <1>5 DEF CommitMissing
  <2>4. /\ stored' \in [Ctx -> Nat]
        /\ \A c \in Ctx : ProviderWindow(c)' <= ProviderWindow(c)
    <3>1. i \in 1 .. BatchSize
      BY DEF Droppable
    <3>2. LowerWindowOnGc(ProviderWindow(ctx), now' - parked[ctx][i]) \in Nat \ {0}
      BY <2>1, <3>1, LoweredIsNat
    <3>. QED  BY <2>2, <2>3, <3>2, LowerLowers
  <2>5. /\ parked' \in [Ctx -> Seq(Nat)]
        /\ \A e \in Ctx : \A j \in 1 .. Len(parked'[e]) : parked'[e][j] <= now'
    BY <2>1, <2>3, RemainingClock
  <2>. QED  BY <1>0, <2>1, <2>2, <2>4, <2>5 DEF ClockInv
<1>6. CASE SourceDrained \/ Flush \/ CheckAgain \/ LeaveContext \/ UNCHANGED vars
  <2>1. UNCHANGED <<now, assumed, trueWindow, stored, parked>>
    BY <1>6 DEF SourceDrained, Flush, CheckAgain, LeaveContext
  <2>2. ctx' \in Ctx
    BY <1>0, <1>1, <1>6 DEF SourceDrained, Flush, CheckAgain, LeaveContext
  <2>. QED  BY <2>1, <2>2, SameRows DEF ClockInv
<1>. QED  BY <1>2, <1>3, <1>4, <1>5, <1>6 DEF Next

\* However long the run and whatever the option, the stored rows and the real
\* windows are, the window used for a provider never grows.
THEOREM WindowFalls == Spec => WindowNeverRises
<1>1. ClockInv /\ [Next]_vars => ClockInv'
  BY WindowNext
<1>2. ClockInv /\ [Next]_vars => [\A c \in Ctx : ProviderWindow(c)' <= ProviderWindow(c)]_vars
  BY WindowNext
<1>. QED  BY ClockInit, <1>1, <1>2, PTL DEF Spec, WindowNeverRises
-----------------------------------------------------------------------------
(* No loss inside the window: how long a parked piece may wait.               *)

\* the windows are those the hypothesis speaks of
WindowsFit == TurnFitsMargin /\ \A c \in Ctx : assumed <= trueWindow[c]

\* contexts of this turn that may have committed by now
Commits == IF pc = "committed" \/ (pc = "check" /\ parked[ctx] = <<>>) THEN ctx ELSE ctx - 1

\* the longest it can be since this context was found not due, or since its last
\* piece was parked: what the loop may have done meanwhile, each at its longest
Spent(c) ==
    CASE pc = "main" -> (Copies - c) * MaxCommit
      [] pc = "pull" -> (Copies - c) * MaxCommit + MaxStore + (ctx - 2) * MaxPull
      [] pc \in {"check", "commit", "committed"} /\ c < ctx -> (Commits - c) * MaxCommit
      [] pc \in {"check", "commit", "committed"} /\ c >= ctx ->
            (Copies - c) * MaxCommit + MaxStore + (Copies - 1) * MaxPull + Commits * MaxCommit
      [] pc = "done" -> 0

\* nothing was parked on this context since it was found not due
Checked(c) == pc = "main" \/ (pc = "pull" /\ c >= ctx)
              \/ (pc \in {"check", "commit", "committed"} /\ c < ctx)

\* Where the loop stands: each context is checked once it has parked one piece, so
\* that one batch takes all it holds
TurnInv ==
    /\ slowest \in Nat
    /\ pc \in {"main", "pull", "check", "commit", "committed", "done"}
    /\ pc = "main" => ctx = 1
    /\ pc = "pull" => ctx >= 2
    /\ pc = "commit" => parked[ctx] # <<>> /\ before = Len(parked[ctx])
    /\ pc = "committed" => parked[ctx] = <<>> /\ before # 0
    /\ \A c \in Ctx : /\ Len(parked[c]) <= BatchCap
                      /\ Checked(c) => Len(parked[c]) < BatchCap
                      /\ \A i \in 1 .. Len(parked[c]) : parked[c][1] <= parked[c][i]

\* Nothing was refused, and no piece has waited so long that the rest of the turn
\* would take it past the assumed window
AgeInv ==
    /\ losses = 0 /\ \A c \in Ctx : stored[c] = NoRow
    /\ pc # "done" => \A c \in Ctx : parked[c] # <<>> =>
          now + MinMargin < parked[c][1] + assumed + Spent(c)

LossInv == WindowsFit => TurnInv /\ AgeInv

LEMMA QueueFacts ==
  ASSUME ClockInv, NEW c \in Ctx
  PROVE  /\ parked[c] \in Seq(Nat) /\ Len(parked[c]) \in Nat
         /\ parked[c] # <<>> <=> Len(parked[c]) > 0
         /\ parked[c] # <<>> => /\ Head(parked[c]) = parked[c][1]
                                /\ parked[c][1] \in Nat /\ parked[c][1] <= now
<1>1. parked[c] \in Seq(Nat)
  BY DEF ClockInv
<1>2. Len(parked[c]) \in Nat /\ (parked[c] # <<>> <=> Len(parked[c]) > 0)
  BY <1>1, EmptySeq, LenProperties
<1>3. ASSUME parked[c] # <<>>
      PROVE  /\ Head(parked[c]) = parked[c][1]
             /\ parked[c][1] \in Nat /\ parked[c][1] <= now
  <2>1. 1 \in 1 .. Len(parked[c])
    BY <1>2, <1>3
  <2> QED BY <1>1, <1>3, <2>1, HeadTailProperties, ElementOfSeq DEF ClockInv
<1> QED BY <1>1, <1>2, <1>3

LEMMA Numbers ==
  /\ Copies \in Nat /\ Copies > 0 /\ BatchCap \in Nat /\ BatchCap > 0 /\ MinMargin \in Nat
  /\ MaxStore \in Nat /\ MaxPull \in Nat /\ MaxCommit \in Nat
  /\ \A c \in Ctx : c \in Nat /\ c > 0 /\ c <= Copies
BY CopiesAssumption, FloorAssumption, StepAssumption DEF Ctx

\* Products of the constants with places of a context are numbers
LEMMA Products ==
  /\ \A c \in Ctx : (Copies - c) * MaxCommit \in Nat
  /\ \A n \in Nat : n * MaxCommit \in Nat /\ n * MaxPull \in Nat
  /\ (Copies - 1) * MaxPull \in Nat
<1>1. \A m, n \in Nat : m * n \in Nat
  OBVIOUS
<1>2. \A c \in Ctx : Copies - c \in Nat
  BY Numbers
<1> QED BY <1>1, <1>2, Numbers

\* Spent in each part of the turn
LEMMA SpentParts ==
  ASSUME NEW c \in Ctx, ctx \in Ctx
  PROVE  /\ pc = "main" => Spent(c) = (Copies - c) * MaxCommit
         /\ pc = "pull" => Spent(c) = (Copies - c) * MaxCommit + MaxStore + (ctx - 2) * MaxPull
         /\ pc \in {"check", "commit", "committed"} =>
              /\ c < ctx => Spent(c) = (Commits - c) * MaxCommit
              /\ c >= ctx => Spent(c) = (Copies - c) * MaxCommit + MaxStore
                                          + (Copies - 1) * MaxPull + Commits * MaxCommit
<1>1. CASE pc = "main"
  BY <1>1 DEF Spent
<1>2. CASE pc = "pull"
  BY <1>2 DEF Spent
<1>3. CASE pc \in {"check", "commit", "committed"} /\ c < ctx
  BY <1>3, Numbers DEF Spent
<1>4. CASE pc \in {"check", "commit", "committed"} /\ c >= ctx
  BY <1>4, Numbers DEF Spent
<1> QED BY <1>1, <1>2, <1>3, <1>4, Numbers

\* A piece is parked on a context that was checked
LEMMA ParkTurn ==
  ASSUME ClockInv, TurnInv, NEW c \in Ctx, Checked(c), NEW time \in Nat, time >= now,
         Park(c, time)
  PROVE  /\ \A e \in Ctx : e # c => parked'[e] = parked[e]
         /\ parked'[c] # <<>> /\ Len(parked'[c]) <= BatchCap
         /\ parked'[c][1] = IF parked[c] = <<>> THEN time ELSE parked[c][1]
         /\ \A i \in 1 .. Len(parked'[c]) : parked'[c][1] <= parked'[c][i]
<1>1. parked' = [parked EXCEPT ![c] = Append(@, time)]
  BY DEF Park
<1>2. parked'[c] = Append(parked[c], time) /\ \A e \in Ctx : e # c => parked'[e] = parked[e]
  BY <1>1 DEF ClockInv
<1> DEFINE s == parked[c]
           t == parked'[c]
<1>3. /\ s \in Seq(Nat) /\ Len(s) \in Nat /\ (s # <<>> <=> Len(s) > 0)
      /\ s # <<>> => s[1] \in Nat /\ s[1] <= now
  BY QueueFacts
<1>4. /\ t \in Seq(Nat) /\ t # <<>> /\ Len(t) = Len(s) + 1 /\ t[Len(s) + 1] = time
      /\ \A i \in 1 .. Len(s) : t[i] = s[i]
  <2>1. t = Append(s, time)
    BY <1>2
  <2> HIDE DEF s, t
  <2>2. /\ t \in Seq(Nat) /\ Len(t) = Len(s) + 1 /\ t[Len(s) + 1] = time
        /\ \A i \in 1 .. Len(s) : t[i] = s[i]
    BY <2>1, <1>3, AppendProperties
  <2>3. t # <<>>
    BY <2>1, <1>3, AppendProperties
  <2> QED BY <2>2, <2>3
<1>5. Len(s) < BatchCap /\ \A i \in 1 .. Len(s) : s[1] <= s[i]
  BY DEF TurnInv
<1>6. now \in Nat
  BY DEF ClockInv
<1> HIDE DEF s, t
<1>7. Len(t) <= BatchCap
  BY <1>3, <1>4, <1>5, Numbers
<1>8. t[1] = IF s = <<>> THEN time ELSE s[1]
  BY <1>3, <1>4
<1>9. ASSUME NEW i \in 1 .. Len(t) PROVE t[1] <= t[i]
  <2>1. CASE i = Len(s) + 1
    BY <2>1, <1>3, <1>4, <1>6, <1>8
  <2>2. CASE i \in 1 .. Len(s)
    BY <2>2, <1>3, <1>4, <1>5, <1>8
  <2> QED BY <2>1, <2>2, <1>3, <1>4
<1> QED BY <1>2, <1>4, <1>7, <1>8, <1>9 DEF s, t

\* What the age bound needs of a step that takes some time: each queue begins as it did
\* and may wait that much longer, or was just begun
LEMMA AgeStep ==
  ASSUME ClockInv, ClockInv', WindowsFit, AgeInv, assumed' = assumed,
         losses' = losses, stored' = stored, pc # "done", NEW d \in Nat, now' = now + d,
         \A c \in Ctx : Spent(c) \in Int /\ Spent(c)' \in Int,
         \A c \in Ctx : parked'[c] # <<>> =>
            \/ parked[c] # <<>> /\ parked'[c][1] = parked[c][1] /\ Spent(c) + d <= Spent(c)'
            \/ parked'[c][1] = now' /\ 0 <= Spent(c)'
  PROVE  AgeInv'
<1>1. losses' = 0 /\ \A c \in Ctx : stored'[c] = NoRow
  BY DEF AgeInv
<1>2. now \in Nat /\ assumed \in Nat /\ MinMargin < assumed
  BY DEF ClockInv, WindowsFit, TurnFitsMargin
<1>3. ASSUME NEW c \in Ctx, parked'[c] # <<>>
      PROVE  now' + MinMargin < parked'[c][1] + assumed' + Spent(c)'
  <2>1. CASE parked[c] # <<>> /\ parked'[c][1] = parked[c][1] /\ Spent(c) + d <= Spent(c)'
    <3>1. now + MinMargin < parked[c][1] + assumed + Spent(c)
      BY <2>1 DEF AgeInv
    <3>2. parked[c][1] \in Nat
      BY <2>1, QueueFacts
    <3>3. PICK x \in Int, y \in Int : x = Spent(c) /\ y = Spent(c)'
      OBVIOUS
    <3>4. PICK first \in Nat : first = parked[c][1]
      BY <3>2
    <3>5. now + MinMargin < first + assumed + x /\ x + d <= y
      BY <2>1, <3>1, <3>3, <3>4
    <3>6. now \in Nat /\ assumed \in Nat /\ MinMargin \in Nat
      BY <1>2, Numbers
    <3>7. now + d + MinMargin < first + assumed + y
      BY ONLY <3>5, <3>6
    <3> QED BY <2>1, <3>3, <3>4, <3>7
  <2>2. CASE parked'[c][1] = now' /\ 0 <= Spent(c)'
    BY <2>2, <1>2, Numbers
  <2> QED BY <1>3, <2>1, <2>2
<1> QED BY <1>1, <1>3 DEF AgeInv

\* Checking one context after another: the window is the assumed one, and a context found
\* not due has the margin before it
LEMMA DueOf ==
  ASSUME ClockInv, TurnInv, AgeInv, WindowsFit
  PROVE  /\ ProviderWindow(ctx) = assumed
         /\ Due(ctx) => parked[ctx] # <<>>
         /\ ~ Due(ctx) /\ parked[ctx] # <<>> =>
              /\ Len(parked[ctx]) < BatchCap
              /\ now + MinMargin < parked[ctx][1] + assumed
<1>1. ctx \in Ctx /\ now \in Nat /\ assumed \in Nat /\ slowest \in Nat
  BY DEF ClockInv, TurnInv
<1>2. ProviderWindow(ctx) = assumed
  BY <1>1 DEF AgeInv, ProviderWindow
<1> DEFINE margin == MarginFromConfirmations(slowest)
<1>3. margin \in Nat /\ margin >= MinMargin
  BY <1>1, FloorAssumption DEF MarginFromConfirmations, Larger
<1>4. Len(parked[ctx]) \in Nat /\ (parked[ctx] # <<>> => Head(parked[ctx]) = parked[ctx][1]
                                       /\ parked[ctx][1] \in Nat)
  BY <1>1, QueueFacts
<1> HIDE DEF margin
<1>5. Due(ctx) <=> /\ parked[ctx] # <<>>
                   /\ \/ Len(parked[ctx]) >= BatchCap
                      \/ now + margin >= Head(parked[ctx]) + assumed
                      \/ source = "drained"
  BY <1>2 DEF Due, ShouldFlush, margin
<1> QED BY <1>1, <1>2, <1>3, <1>4, <1>5, Numbers

\* Under the bound no piece of a batch can be refused: what the provider may have dropped
\* by the end of the commit is nothing
LEMMA NothingDroppable ==
  ASSUME ClockInv, TurnInv, AgeInv, WindowsFit, pc = "commit", NEW d \in 0 .. MaxCommit
  PROVE  Droppable(now + d) = {}
<1>1. /\ ctx \in Ctx /\ now \in Nat /\ assumed \in Nat
      /\ trueWindow[ctx] \in Nat /\ assumed <= trueWindow[ctx]
  BY DEF ClockInv, WindowsFit
<1>2. /\ parked[ctx] \in Seq(Nat) /\ Len(parked[ctx]) \in Nat /\ parked[ctx][1] \in Nat
      /\ parked[ctx] # <<>>
  BY <1>1, QueueFacts DEF TurnInv
<1>3. now + MinMargin < parked[ctx][1] + assumed + Spent(ctx)
  BY <1>1, <1>2 DEF AgeInv
<1>4. Spent(ctx) = (Copies - ctx) * MaxCommit + MaxStore + (Copies - 1) * MaxPull
                     + (ctx - 1) * MaxCommit
  <2>1. Commits = ctx - 1
    BY DEF Commits
  <2> QED BY <1>1, <2>1, SpentParts, Numbers
<1>5. Spent(ctx) + MaxCommit <= MinMargin
  <2>1. (Copies - ctx) * MaxCommit + (ctx - 1) * MaxCommit + MaxCommit = Copies * MaxCommit
    BY <1>1, Numbers
  <2>2. MaxStore + (Copies - 1) * MaxPull + Copies * MaxCommit <= MinMargin
    BY DEF WindowsFit, TurnFitsMargin
  <2>3. (Copies - ctx) * MaxCommit \in Nat /\ (ctx - 1) * MaxCommit \in Nat
        /\ Copies * MaxCommit \in Nat /\ (Copies - 1) * MaxPull \in Nat
    BY <1>1, Numbers, Products
  <2> QED BY <1>4, <2>1, <2>2, <2>3, Numbers
<1>6. Spent(ctx) \in Nat
  <2>1. (Copies - ctx) * MaxCommit \in Nat /\ (ctx - 1) * MaxCommit \in Nat
        /\ (Copies - 1) * MaxPull \in Nat
    BY <1>1, Numbers, Products
  <2> QED BY <1>4, <2>1, Numbers
<1>7. now + d < parked[ctx][1] + assumed
  <2>1. PICK spent \in Nat : spent = Spent(ctx)
    BY <1>6
  <2>2. PICK first \in Nat : first = parked[ctx][1]
    BY <1>2
  <2>3. MaxCommit \in Nat /\ MinMargin \in Nat
    BY Numbers
  <2>4. now + MinMargin < first + assumed + spent /\ spent + MaxCommit <= MinMargin
    BY <1>3, <1>5, <2>1, <2>2
  <2>5. now \in Nat /\ assumed \in Nat
    BY <1>1
  <2>6. now + d < first + assumed
    BY ONLY <2>3, <2>4, <2>5
  <2> QED BY <2>2, <2>6
<1>8. ASSUME NEW i \in 1 .. BatchSize PROVE ~ (now + d >= parked[ctx][i] + trueWindow[ctx])
  <2>1. i \in 1 .. Len(parked[ctx])
    BY <1>2, Numbers DEF BatchSize, Smaller
  <2>2. parked[ctx][1] <= parked[ctx][i] /\ parked[ctx][i] \in Nat
    BY <1>1, <1>2, <2>1, ElementOfSeq DEF TurnInv
  <2>3. PICK first \in Nat, age \in Nat, window \in Nat :
           first = parked[ctx][1] /\ age = parked[ctx][i] /\ window = trueWindow[ctx]
    BY <1>1, <1>2, <2>2
  <2>4. now + d < first + assumed /\ first <= age /\ assumed <= window
    BY <1>1, <1>7, <2>2, <2>3
  <2>5. now \in Nat /\ d \in Nat /\ assumed \in Nat
    BY <1>1, Numbers
  <2>6. ~ (now + d >= age + window)
    BY ONLY <2>4, <2>5
  <2> QED BY <2>3, <2>6
<1> QED BY <1>8 DEF Droppable

LEMMA SpentTyped ==
  ASSUME TurnInv, ClockInv, NEW c \in Ctx
  PROVE  Spent(c) \in Int
<1>1. ctx \in Ctx
  BY DEF ClockInv
<1>2. Commits \in Nat /\ ctx - 2 \in Int
  BY <1>1, Numbers DEF Commits
<1>3. \A n \in Int : n * MaxCommit \in Int /\ n * MaxPull \in Int
  BY Numbers
<1>4. (Commits - c) * MaxCommit \in Int /\ (ctx - 2) * MaxPull \in Int
      /\ Commits * MaxCommit \in Nat
  BY <1>2, <1>3, Numbers, Products
<1>5. (Copies - c) * MaxCommit \in Nat /\ (Copies - 1) * MaxPull \in Nat
  BY Products
<1>6. CASE pc = "done"
  BY <1>6 DEF Spent
<1>7. CASE pc = "main"
  BY <1>1, <1>5, <1>7, SpentParts
<1>8. CASE pc = "pull"
  BY <1>1, <1>4, <1>5, <1>8, SpentParts, Numbers
<1>9. CASE pc \in {"check", "commit", "committed"}
  <2>1. CASE c < ctx
    BY <1>1, <1>4, <1>9, <2>1, SpentParts
  <2>2. CASE c >= ctx
    BY <1>1, <1>4, <1>5, <1>9, <2>2, SpentParts, Numbers
  <2> QED BY <1>1, <2>1, <2>2, Numbers
<1> QED BY <1>6, <1>7, <1>8, <1>9 DEF TurnInv

\* The copy on a context is parked, or not, and the loop goes on to the next secondary or
\* to the checks
LEMMA CopyStep ==
  ASSUME ClockInv, ClockInv', WindowsFit, TurnInv, AgeInv,
         NEW c \in Ctx, Checked(c), pc \in {"main", "pull"}, pc = "main" => c = 1,
         pc = "pull" => c = ctx,
         NEW d \in Nat, now' = now + d, d <= IF pc = "main" THEN MaxStore ELSE MaxPull,
         Park(c, now') \/ UNCHANGED parked, NextCopy(c),
         UNCHANGED <<assumed, stored, slowest, losses>>
  PROVE  TurnInv' /\ AgeInv'
<1>1. now \in Nat /\ now' >= now /\ now' \in Nat
  BY DEF ClockInv
<1>2. /\ \A e \in Ctx : e # c => parked'[e] = parked[e]
      /\ Len(parked'[c]) <= BatchCap
      /\ parked'[c] # <<>> => parked'[c][1] = now' \/ (parked[c] # <<>> /\ parked'[c][1] = parked[c][1])
      /\ \A i \in 1 .. Len(parked'[c]) : parked'[c][1] <= parked'[c][i]
  <2>1. CASE Park(c, now')
    BY <2>1, <1>1, ParkTurn
  <2>2. CASE UNCHANGED parked
    BY <2>2 DEF TurnInv
  <2> QED BY <2>1, <2>2
<1>3. ctx \in Ctx /\ ctx' \in Ctx
  BY DEF ClockInv
<1>4. /\ c < Copies => pc' = "pull" /\ ctx' = c + 1
      /\ c = Copies => pc' = "check" /\ ctx' = 1
  BY Numbers DEF NextCopy
<1>5. ASSUME NEW e \in Ctx, Checked(e)' PROVE e # c /\ Checked(e)
  BY <1>4, <1>5, Numbers DEF Checked
<1>6. TurnInv'
  <2>1. \A e \in Ctx : /\ Len(parked'[e]) <= BatchCap
                       /\ Checked(e)' => Len(parked'[e]) < BatchCap
                       /\ \A i \in 1 .. Len(parked'[e]) : parked'[e][1] <= parked'[e][i]
    BY <1>2, <1>5 DEF TurnInv
  <2>2. pc' = "pull" => ctx' >= 2
    BY <1>4, Numbers
  <2>3. pc' \in {"pull", "check"} /\ slowest' \in Nat
    BY <1>4, Numbers DEF TurnInv
  <2> QED BY <2>1, <2>2, <2>3 DEF TurnInv
<1>7. ASSUME NEW e \in Ctx
      PROVE  Spent(e)' \in Int /\ Spent(e) + d <= Spent(e)' /\ 0 <= Spent(e)'
  <2>1. /\ (Copies - e) * MaxCommit \in Nat /\ (Copies - 1) * MaxPull \in Nat
        /\ (c - 1) * MaxPull \in Nat
    BY Numbers, Products
  <2>2. (c + 1 - 2) * MaxPull = (c - 1) * MaxPull /\ (c - 2) * MaxPull + MaxPull = (c - 1) * MaxPull
    BY Numbers
  <2>3. PICK x \in Nat : Spent(e)' = (Copies - e) * MaxCommit + MaxStore + (c - 1) * MaxPull + x
    <3>1. CASE c < Copies
      <4>1. pc' = "pull" /\ ctx' = c + 1
        BY <3>1, <1>4
      <4>2. Spent(e)' = (Copies - e) * MaxCommit + MaxStore + (c + 1 - 2) * MaxPull
        BY <4>1, <2>1, Numbers DEF Spent
      <4> QED BY <4>2, <2>1, <2>2, Numbers
    <3>2. CASE c = Copies
      <4>1. pc' = "check" /\ ctx' = 1 /\ e >= ctx' /\ ~ (e < ctx')
        BY <3>2, <1>4, Numbers
      <4>2. Spent(e)' = (Copies - e) * MaxCommit + MaxStore + (Copies - 1) * MaxPull
                           + Commits' * MaxCommit
        BY <4>1 DEF Spent
      <4>3. Commits' \in Nat /\ Commits' * MaxCommit \in Nat
        BY <4>1, Products DEF Commits
      <4> QED BY <4>2, <4>3, <3>2
    <3>3. c < Copies \/ c = Copies
      BY Numbers
    <3> QED BY <3>1, <3>2, <3>3, Zenon
  <2>4. Spent(e) + d <= (Copies - e) * MaxCommit + MaxStore + (c - 1) * MaxPull
    <3>1. CASE pc = "main"
      <4>1. Spent(e) = (Copies - e) * MaxCommit /\ d <= MaxStore
        BY <3>1, <1>3, SpentParts
      <4> QED BY <4>1, <2>1, Numbers
    <3>2. CASE pc = "pull"
      <4>1. Spent(e) = (Copies - e) * MaxCommit + MaxStore + (c - 2) * MaxPull /\ d <= MaxPull
        BY <3>2, <1>3, SpentParts
      <4>2. (c - 2) * MaxPull \in Int
        BY Numbers
      <4> QED BY <4>1, <4>2, <2>1, <2>2, Numbers
    <3> QED BY <3>1, <3>2
  <2>5. Spent(e) \in Int
    BY SpentTyped
  <2> QED BY <2>1, <2>3, <2>4, <2>5, Numbers
<1>8. \A e \in Ctx : Spent(e) \in Int /\ Spent(e)' \in Int
  BY <1>7, SpentTyped
<1>9. \A e \in Ctx : parked'[e] # <<>> =>
            \/ parked[e] # <<>> /\ parked'[e][1] = parked[e][1] /\ Spent(e) + d <= Spent(e)'
            \/ parked'[e][1] = now' /\ 0 <= Spent(e)'
  BY <1>2, <1>7
<1>10. AgeInv'
  <2>1. pc # "done"
    OBVIOUS
  <2> QED BY <2>1, <1>8, <1>9, AgeStep
<1> QED BY <1>6, <1>10

\* Commits of a turn come one by one, and nothing is waiting longer for them than they take
LEMMA CheckStep ==
  ASSUME ClockInv, ClockInv', WindowsFit, TurnInv, AgeInv,
         pc \in {"main", "check", "committed"}, pc' = "check",
         UNCHANGED <<now, assumed, stored, parked, slowest, losses>>,
         \/ pc = "main" /\ ctx' = ctx
         \/ pc = "committed" /\ ctx' = ctx
         \/ pc = "check" /\ ~ Due(ctx) /\ ctx' = ctx + 1
  PROVE  TurnInv' /\ AgeInv'
<1>1. ctx \in Ctx /\ ctx' \in Ctx /\ now \in Nat
  BY DEF ClockInv
<1>2. TurnInv'
  <2>1. \A e \in Ctx : Checked(e)' => Len(parked'[e]) < BatchCap
    <3> SUFFICES ASSUME NEW e \in Ctx, Checked(e)' PROVE Len(parked[e]) < BatchCap
      OBVIOUS
    <3>1. e < ctx'
      BY DEF Checked
    <3>2. CASE Checked(e)
      BY <3>2 DEF TurnInv
    <3>3. CASE ~ Checked(e)
      <4>1. pc = "check" /\ e = ctx /\ ~ Due(ctx)
        BY <1>1, <3>1, <3>3, Numbers DEF Checked
      <4>2. CASE parked[ctx] = <<>>
        BY <4>1, <4>2, Numbers
      <4>3. CASE parked[ctx] # <<>>
        BY <4>1, <4>3, DueOf
      <4> QED BY <4>2, <4>3
    <3> QED BY <3>2, <3>3
  <2> QED BY <2>1 DEF TurnInv
<1>3. Commits \in Nat /\ Commits' \in Nat /\ Commits <= Commits' /\ Commits' >= ctx' - 1
      /\ (pc = "check" => Commits' >= ctx)
  <2>1. Commits \in {ctx - 1, ctx} /\ Commits' \in {ctx' - 1, ctx'}
    BY DEF Commits
  <2>2. pc = "main" => Commits = ctx - 1
    BY DEF Commits
  <2>3. pc = "committed" => Commits' = ctx'
    BY DEF Commits, TurnInv
  <2>4. ctx \in Nat /\ ctx > 0 /\ ctx' \in Nat /\ ctx' > 0
    BY <1>1, Numbers
  <2>5. CASE pc = "main" /\ ctx' = ctx
    BY <2>1, <2>2, <2>4, <2>5
  <2>6. CASE pc = "committed" /\ ctx' = ctx
    BY <2>1, <2>3, <2>4, <2>6
  <2>7. CASE pc = "check" /\ ctx' = ctx + 1
    BY <2>1, <2>4, <2>7
  <2> QED BY <2>5, <2>6, <2>7
<1>4. Commits * MaxCommit <= Commits' * MaxCommit /\ Commits * MaxCommit \in Nat
      /\ Commits' * MaxCommit \in Nat
  <2>1. \A m, n \in Nat : m <= n => m * MaxCommit <= n * MaxCommit
    BY Numbers
  <2> QED BY <2>1, <1>3, Products
<1>5. \A e \in Ctx : (Copies - e) * MaxCommit \in Nat /\ (Copies - 1) * MaxPull \in Nat
  BY Products
<1>6. ASSUME NEW e \in Ctx
      PROVE  /\ Spent(e)' \in Int
             /\ Spent(e) <= Spent(e)' \/ (pc = "check" /\ e = ctx /\ 0 <= Spent(e)')
  <2>1. Spent(e) \in Int
    BY SpentTyped
  <2>2. CASE e < ctx'
    <3>1. Spent(e)' = (Commits' - e) * MaxCommit /\ Commits' - e \in Nat
      BY <1>1, <1>3, <2>2, Numbers DEF Spent
    <3>2. (Commits' - e) * MaxCommit \in Nat
      BY <3>1, Products
    <3>3. CASE e < ctx /\ pc # "main"
      <4>1. Spent(e) = (Commits - e) * MaxCommit
        BY <1>1, <3>3, SpentParts
      <4>2. /\ (Commits - e) * MaxCommit = Commits * MaxCommit - e * MaxCommit
            /\ (Commits' - e) * MaxCommit = Commits' * MaxCommit - e * MaxCommit
            /\ e * MaxCommit \in Nat
        BY <1>3, Numbers, Products
      <4> QED BY <3>1, <3>2, <4>1, <4>2, <1>4
    <3>4. CASE ~ (e < ctx /\ pc # "main")
      <4>1. pc = "check" /\ e = ctx
        BY <1>1, <2>2, <3>4, Numbers DEF TurnInv
      <4> QED BY <3>1, <3>2, <4>1
    <3> QED BY <3>3, <3>4
  <2>3. CASE ~ (e < ctx')
    <3>1. Spent(e)' = (Copies - e) * MaxCommit + MaxStore + (Copies - 1) * MaxPull
                           + Commits' * MaxCommit
      <4>1. e >= ctx'
        BY <1>1, <2>3, Numbers
      <4> QED BY <4>1, <2>3, Numbers DEF Spent
    <3>2. CASE pc = "main"
      BY <3>1, <3>2, <1>1, <1>4, <1>5, SpentParts, Numbers
    <3>3. CASE pc # "main"
      <4>1. e >= ctx
        BY <1>1, <2>3, Numbers
      <4>2. Spent(e) = (Copies - e) * MaxCommit + MaxStore + (Copies - 1) * MaxPull
                           + Commits * MaxCommit
        BY <1>1, <3>3, <4>1, SpentParts
      <4> QED BY <3>1, <4>2, <1>4, <1>5, Numbers
    <3> QED BY <3>2, <3>3
  <2> QED BY <2>2, <2>3
<1>7. ASSUME NEW e \in Ctx, parked[e] # <<>>
      PROVE  now + MinMargin < parked[e][1] + assumed + Spent(e)'
  <2>1. parked[e][1] \in Nat /\ now \in Nat /\ assumed \in Nat
    BY <1>7, QueueFacts DEF ClockInv
  <2>2. now + MinMargin < parked[e][1] + assumed + Spent(e)
    BY <1>7 DEF AgeInv
  <2>3. Spent(e) \in Int
    BY SpentTyped
  <2>4. PICK x \in Int, y \in Int : x = Spent(e) /\ y = Spent(e)'
    BY <1>6, <2>3
  <2>5. CASE Spent(e) <= Spent(e)'
    BY <2>1, <2>2, <2>4, <2>5, Numbers
  <2>6. CASE pc = "check" /\ e = ctx /\ 0 <= Spent(e)'
    <3>1. ~ Due(ctx)
      BY <2>6
    <3>2. now + MinMargin < parked[e][1] + assumed
      BY <3>1, <2>6, <1>7, DueOf
    <3> QED BY <2>1, <2>4, <2>6, <3>2, Numbers
  <2> QED BY <1>6, <2>5, <2>6
<1>8. AgeInv'
  BY <1>7 DEF AgeInv
<1> QED BY <1>2, <1>8

\* The last context was found not due: the next piece is stored, or the loop is over
LEMMA TurnEnds ==
  ASSUME ClockInv, ClockInv', WindowsFit, TurnInv, AgeInv,
         pc = "check", ~ Due(ctx), ctx = Copies, ctx' = 1, pc' \in {"main", "done"},
         UNCHANGED <<now, assumed, stored, parked, slowest, losses>>
  PROVE  TurnInv' /\ AgeInv'
<1>1. ctx \in Ctx /\ now \in Nat
  BY DEF ClockInv
<1>2. TurnInv'
  <2>1. ASSUME NEW e \in Ctx PROVE Len(parked[e]) < BatchCap
    <3>1. CASE e < ctx
      BY <3>1 DEF TurnInv, Checked
    <3>2. CASE e = ctx /\ parked[ctx] = <<>>
      BY <3>2, Numbers
    <3>3. CASE e = ctx /\ parked[ctx] # <<>>
      BY <3>3, DueOf
    <3>4. e = ctx \/ e < ctx
      BY Numbers
    <3> QED BY <3>1, <3>2, <3>3, <3>4
  <2> QED BY <2>1 DEF TurnInv
<1>3. ASSUME NEW e \in Ctx, parked[e] # <<>>, pc' = "main"
      PROVE  now + MinMargin < parked[e][1] + assumed + Spent(e)'
  <2>1. parked[e][1] \in Nat /\ now \in Nat /\ assumed \in Nat
    BY <1>3, QueueFacts DEF ClockInv
  <2>2. Spent(e)' = (Copies - e) * MaxCommit /\ (Copies - e) * MaxCommit \in Nat
    BY <1>3, Products DEF Spent
  <2>3. CASE e = ctx
    <3>1. now + MinMargin < parked[e][1] + assumed
      BY <2>3, <1>3, DueOf
    <3> QED BY <2>1, <2>2, <3>1, Numbers
  <2>4. CASE e < ctx
    <3>1. now + MinMargin < parked[e][1] + assumed + Spent(e)
      BY <1>3 DEF AgeInv
    <3>2. Spent(e) = (Commits - e) * MaxCommit /\ Commits \in {Copies - 1, Copies}
      BY <1>1, <2>4, SpentParts DEF Commits
    <3>3. (Copies - e) * MaxCommit = (Copies - 1 - e) * MaxCommit + MaxCommit
      BY Numbers
    <3>4. Copies - 1 - e \in Nat /\ (Copies - 1 - e) * MaxCommit \in Nat
      BY <2>4, Numbers, Products
    <3>5. Spent(e) \in Int /\ Spent(e) <= (Copies - e) * MaxCommit
      BY <3>2, <3>3, <3>4, <2>2, Numbers
    <3> QED BY <2>1, <2>2, <3>1, <3>5, Numbers
  <2>5. e = ctx \/ e < ctx
    BY Numbers
  <2> QED BY <2>3, <2>4, <2>5
<1>4. AgeInv'
  BY <1>3 DEF AgeInv
<1> QED BY <1>2, <1>4

\* A commit begins, or ends with the whole queue of its context committed or given up
LEMMA FlushStep ==
  ASSUME ClockInv, ClockInv', WindowsFit, TurnInv, AgeInv, Flush
  PROVE  TurnInv' /\ AgeInv'
<1>1. /\ pc = "check" /\ pc' = "commit" /\ Due(ctx) /\ before' = Len(parked[ctx])
      /\ UNCHANGED <<now, assumed, stored, parked, slowest, losses, ctx>>
  BY DEF Flush
<1>2. parked[ctx] # <<>>
  BY <1>1, DueOf
<1>3. \A e \in Ctx : Checked(e)' => Checked(e)
  BY <1>1 DEF Checked
<1>4. Commits' = Commits
  BY <1>1, <1>2 DEF Commits
<1>5. ASSUME NEW e \in Ctx PROVE Spent(e)' = Spent(e)
  <2>1. ctx \in Ctx
    BY DEF ClockInv
  <2>2. CASE e < ctx
    BY <1>1, <1>4, <2>2, <2>1, Numbers DEF Spent
  <2>3. CASE ~ (e < ctx)
    BY <1>1, <1>4, <2>3, <2>1, Numbers DEF Spent
  <2> QED BY <2>2, <2>3
<1>6. TurnInv'
  BY <1>1, <1>2, <1>3 DEF TurnInv
<1>7. AgeInv'
  BY <1>1, <1>5 DEF AgeInv
<1> QED BY <1>6, <1>7

LEMMA CommitStep ==
  ASSUME ClockInv, ClockInv', WindowsFit, TurnInv, AgeInv, NEW d \in 0 .. MaxCommit,
         CommitLands(d) \/ CommitFails(d)
  PROVE  TurnInv' /\ AgeInv'
<1>1. /\ pc = "commit" /\ pc' = "committed" /\ now' = now + d
      /\ parked' = [parked EXCEPT ![ctx] = SubSeq(@, BatchSize + 1, Len(@))]
      /\ slowest' \in {slowest, Larger(slowest, d)}
      /\ UNCHANGED <<assumed, stored, losses, ctx, before>>
  BY DEF CommitLands, CommitFails
<1>2. ctx \in Ctx /\ d \in Nat /\ d <= MaxCommit
  BY Numbers DEF ClockInv
<1>3. /\ parked[ctx] \in Seq(Nat) /\ Len(parked[ctx]) \in Nat /\ Len(parked[ctx]) > 0
      /\ Len(parked[ctx]) <= BatchCap
  BY <1>1, <1>2, QueueFacts DEF TurnInv
<1>4. parked'[ctx] = <<>>
  <2>1. BatchSize = Len(parked[ctx])
    BY <1>3, Numbers DEF BatchSize, Smaller
  <2>2. parked'[ctx] = SubSeq(parked[ctx], BatchSize + 1, Len(parked[ctx]))
    BY <1>1, <1>2 DEF ClockInv
  <2> QED BY <1>3, <2>1, <2>2, SubSeqEmpty
<1>5. \A e \in Ctx : e # ctx => parked'[e] = parked[e]
  BY <1>1 DEF ClockInv
<1>6. TurnInv'
  <2>1. slowest' \in Nat
    BY <1>1, <1>2 DEF TurnInv, Larger
  <2>2. before' # 0
    BY <1>1, <1>3 DEF TurnInv
  <2>3. \A e \in Ctx : /\ Len(parked'[e]) <= BatchCap
                       /\ Checked(e)' => Len(parked'[e]) < BatchCap
                       /\ \A i \in 1 .. Len(parked'[e]) : parked'[e][1] <= parked'[e][i]
    <3> SUFFICES ASSUME NEW e \in Ctx
                 PROVE  /\ Len(parked'[e]) <= BatchCap
                        /\ Checked(e)' => Len(parked'[e]) < BatchCap
                        /\ \A i \in 1 .. Len(parked'[e]) : parked'[e][1] <= parked'[e][i]
      OBVIOUS
    <3>1. CASE e = ctx
      BY <1>4, <3>1, Numbers
    <3>2. CASE e # ctx
      <4>1. Checked(e)' => Checked(e)
        BY <1>1 DEF Checked
      <4> QED BY <1>5, <3>2, <4>1 DEF TurnInv
    <3> QED BY <3>1, <3>2
  <2> QED BY <1>1, <1>4, <2>1, <2>2, <2>3 DEF TurnInv
<1>7. Commits = ctx - 1 /\ Commits' = ctx
  BY <1>1 DEF Commits
<1>8. ASSUME NEW e \in Ctx, e # ctx PROVE Spent(e)' = Spent(e) + MaxCommit /\ Spent(e) \in Int
  <2>1. Spent(e) \in Int
    BY SpentTyped
  <2>2. CASE e < ctx
    <3>1. Spent(e) = (ctx - 1 - e) * MaxCommit
      BY <1>1, <1>2, <1>7, <2>2, SpentParts
    <3>2. Spent(e)' = (ctx - e) * MaxCommit
      BY <1>1, <1>2, <1>7, <2>2, Numbers DEF Spent
    <3>3. (ctx - e) * MaxCommit = (ctx - 1 - e) * MaxCommit + MaxCommit
      BY <1>2, Numbers
    <3> QED BY <2>1, <3>1, <3>2, <3>3
  <2>3. CASE ~ (e < ctx)
    <3>1. e >= ctx
      BY <1>2, <2>3, Numbers
    <3>2. Spent(e) = (Copies - e) * MaxCommit + MaxStore + (Copies - 1) * MaxPull
                        + (ctx - 1) * MaxCommit
      BY <1>1, <1>2, <1>7, <3>1, SpentParts
    <3>3. Spent(e)' = (Copies - e) * MaxCommit + MaxStore + (Copies - 1) * MaxPull
                        + ctx * MaxCommit
      BY <1>1, <1>7, <2>3, <3>1, <1>2, Numbers DEF Spent
    <3>4. ctx * MaxCommit = (ctx - 1) * MaxCommit + MaxCommit
      BY <1>2, Numbers
    <3>5. /\ (Copies - e) * MaxCommit \in Nat /\ (Copies - 1) * MaxPull \in Nat
          /\ (ctx - 1) * MaxCommit \in Nat
      BY <1>2, Numbers, Products
    <3> QED BY <2>1, <3>2, <3>3, <3>4, <3>5, Numbers
  <2> QED BY <2>2, <2>3
<1>9. ASSUME NEW e \in Ctx, parked'[e] # <<>>
      PROVE  now' + MinMargin < parked'[e][1] + assumed' + Spent(e)'
  <2>1. e # ctx /\ parked'[e] = parked[e] /\ parked[e] # <<>>
    BY <1>4, <1>5, <1>9
  <2>2. now + MinMargin < parked[e][1] + assumed + Spent(e)
    BY <1>1, <2>1 DEF AgeInv
  <2>3. parked[e][1] \in Nat /\ now \in Nat /\ assumed \in Nat
    BY <2>1, QueueFacts DEF ClockInv
  <2>4. Spent(e)' = Spent(e) + MaxCommit /\ Spent(e) \in Int
    BY <2>1, <1>8
  <2>5. now + d + MinMargin < parked[e][1] + assumed + (Spent(e) + MaxCommit)
    BY <1>2, <2>2, <2>3, <2>4, Numbers
  <2> QED BY <1>1, <2>1, <2>4, <2>5
<1>10. AgeInv'
  BY <1>1, <1>9 DEF AgeInv
<1> QED BY <1>6, <1>10

LEMMA LossInit == Init => LossInv
<1> SUFFICES ASSUME Init, WindowsFit PROVE TurnInv /\ AgeInv
  BY DEF LossInv
<1>1. 1 \in Ctx /\ \A c \in Ctx : parked[c] = <<>>
  BY Numbers DEF Init, Ctx
<1>2. TurnInv
  <2>1. Len(<<>>) = 0
    BY EmptySeq
  <2> QED BY <1>1, <2>1, Numbers DEF Init, TurnInv
<1>3. AgeInv
  BY <1>1 DEF Init, AgeInv
<1> QED BY <1>2, <1>3

LEMMA LossNext ==
  ASSUME ClockInv, ClockInv', LossInv, [Next]_vars
  PROVE  LossInv'
<1> SUFFICES ASSUME WindowsFit, TurnInv, AgeInv PROVE TurnInv' /\ AgeInv'
  <2>1. UNCHANGED <<assumed, trueWindow>>
    BY DEF Next, vars, StorePiece, PullPiece, CommitLands, CommitFails, CommitMissing,
           SourceDrained, Flush, CheckAgain, LeaveContext
  <2>2. WindowsFit' => WindowsFit
    BY <2>1 DEF WindowsFit, TurnFitsMargin
  <2> QED BY <2>2 DEF LossInv
<1>0. ctx \in Ctx /\ 1 \in Ctx
  BY CopiesAssumption DEF ClockInv, Ctx
<1>1. ASSUME NEW d \in 0 .. MaxStore, StorePiece(d) PROVE TurnInv' /\ AgeInv'
  <2>1. pc = "main" /\ ctx = 1 /\ Checked(1) /\ d \in Nat /\ d <= MaxStore
    BY <1>1, Numbers DEF StorePiece, TurnInv, Checked
  <2>2. /\ now' = now + d /\ Park(1, now') /\ NextCopy(1)
        /\ UNCHANGED <<assumed, stored, slowest, losses>>
    BY <1>1 DEF StorePiece
  <2> QED BY <1>0, <2>1, <2>2, CopyStep
<1>2. ASSUME NEW d \in 0 .. MaxPull, PullPiece(d) PROVE TurnInv' /\ AgeInv'
  <2>1. pc = "pull" /\ Checked(ctx) /\ d \in Nat /\ d <= MaxPull
    BY <1>0, <1>2, Numbers DEF PullPiece, Checked
  <2>2. /\ now' = now + d /\ (Park(ctx, now') \/ UNCHANGED parked) /\ NextCopy(ctx)
        /\ UNCHANGED <<assumed, stored, slowest, losses>>
    BY <1>2 DEF PullPiece
  <2> QED BY <1>0, <2>1, <2>2, CopyStep
<1>3. ASSUME NEW d \in 0 .. MaxCommit, CommitLands(d) \/ CommitFails(d)
      PROVE  TurnInv' /\ AgeInv'
  BY <1>3, CommitStep
<1>4. ASSUME NEW d \in 0 .. MaxCommit, CommitMissing(d) PROVE FALSE
  <2>1. pc = "commit" /\ now' = now + d /\ \E i \in Droppable(now') : TRUE
    BY <1>4 DEF CommitMissing
  <2> QED BY <2>1, NothingDroppable
<1>5. CASE SourceDrained
  <2>1. /\ pc = "main" /\ pc' = "check" /\ ctx' = ctx
        /\ UNCHANGED <<now, assumed, stored, parked, slowest, losses>>
    BY <1>5 DEF SourceDrained
  <2> QED BY <2>1, CheckStep
<1>6. CASE Flush
  BY <1>6, FlushStep
<1>7. CASE CheckAgain
  <2>1. /\ pc = "committed" /\ pc' = "check" /\ ctx' = ctx
        /\ UNCHANGED <<now, assumed, stored, parked, slowest, losses>>
    BY <1>7 DEF CheckAgain
  <2> QED BY <2>1, CheckStep
<1>8. CASE LeaveContext
  <2>1. Len(<<>>) = 0
    BY EmptySeq
  <2>2. ~ (pc = "committed" /\ Len(parked[ctx]) = before)
    BY <2>1 DEF TurnInv
  <2>3. /\ pc = "check" /\ ~ Due(ctx)
        /\ UNCHANGED <<now, assumed, stored, parked, slowest, losses>>
    BY <1>8, <2>2 DEF LeaveContext
  <2>4. CASE ctx' = ctx + 1 /\ pc' = "check"
    BY <2>3, <2>4, CheckStep
  <2>5. CASE ctx = Copies /\ ctx' = 1 /\ pc' \in {"main", "done"}
    BY <2>3, <2>5, TurnEnds
  <2> QED BY <1>8, <2>4, <2>5 DEF LeaveContext
<1>9. CASE UNCHANGED vars
  BY <1>9 DEF vars, TurnInv, AgeInv, Checked, Spent, Commits
<1> QED BY <1>1, <1>2, <1>3, <1>4, <1>5, <1>6, <1>7, <1>8, <1>9 DEF Next

\* If no provider keeps parked pieces for less than the assumed window, and a turn of the
\* loop fits in the margin, then no commit is ever refused for a piece that was collected:
\* for any number of contexts, batch, margin, window and run, however long each store, pull
\* and commit takes within its bound (direct-upload.ts, maybeFlush: the timer is looked at
\* only between stores)
THEOREM NoLoss == Spec => []NoLossInsideWindow
<1>1. ClockInv /\ [Next]_vars => ClockInv'
  BY WindowNext
<1>2. ClockInv /\ LossInv /\ [Next]_vars /\ ClockInv' => LossInv'
  BY LossNext
<1>3. LossInv => NoLossInsideWindow
  BY DEF LossInv, WindowsFit, AgeInv, NoLossInsideWindow
<1> QED BY ClockInit, LossInit, <1>1, <1>2, <1>3, PTL DEF Spec
=============================================================================
