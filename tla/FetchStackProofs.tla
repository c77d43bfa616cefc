---------------------------- MODULE FetchStackProofs ---------------------------
(***************************************************************************)
(* Theorems about how the console gets its blocks, for every value of the  *)
(* constants: the fetch stack (FetchStack), the background runner that     *)
(* drives it (PrepareRun), and the export of one CAR (CarStream).  The     *)
(* three share no variable.                                                *)
(***************************************************************************)
EXTENDS FetchStack, PrepareRun, CarStream, FiniteSetTheorems, SequenceTheorems,
        WellFoundedInduction, TLAPS

USE StackAssumption

(***************************************************************************)
(* Queues: sequences in which nobody stands twice.                         *)
(***************************************************************************)
IsQueue(q) == q \in Seq(Pieces) /\ IsInjective(q)

LEMMA QueueFacts ==
    ASSUME NEW q \in Seq(Pieces)
    PROVE  /\ Len(q) \in Nat /\ DOMAIN q = 1 .. Len(q)
           /\ \A i \in 1 .. Len(q) : q[i] \in Pieces
           /\ ToSet(q) = {q[i] : i \in 1 .. Len(q)}
           /\ ToSet(q) \subseteq Pieces
           /\ q # <<>> <=> ToSet(q) # {}
<1>1. Len(q) \in Nat /\ DOMAIN q = 1 .. Len(q) /\ \A i \in 1 .. Len(q) : q[i] \in Pieces
  BY LenProperties
<1>2. ToSet(q) = {q[i] : i \in 1 .. Len(q)}
  BY <1>1 DEF ToSet
<1>3. q # <<>> => 1 \in 1 .. Len(q)
  BY EmptySeq, <1>1
<1>4. q = <<>> => 1 .. Len(q) = {}
  BY EmptySeq, <1>1
<1>. QED  BY <1>1, <1>2, <1>3, <1>4

LEMMA QueueAppend ==
    ASSUME NEW q, IsQueue(q), NEW p \in Pieces, p \notin ToSet(q)
    PROVE  IsQueue(Append(q, p)) /\ ToSet(Append(q, p)) = ToSet(q) \cup {p} /\ Append(q, p) # <<>>
<1>. DEFINE a == Append(q, p)
<1>1. /\ a \in Seq(Pieces) /\ a # <<>> /\ Len(a) = Len(q) + 1
      /\ \A i \in 1 .. Len(q) : a[i] = q[i]
      /\ a[Len(q) + 1] = p
  BY AppendProperties DEF IsQueue
<1>2. /\ Len(q) \in Nat /\ \A i \in 1 .. Len(q) : q[i] \in ToSet(q)
      /\ DOMAIN a = 1 .. Len(q) + 1 /\ DOMAIN q = 1 .. Len(q)
      /\ ToSet(q) = {q[i] : i \in 1 .. Len(q)}
      /\ ToSet(a) = {a[i] : i \in 1 .. Len(q) + 1}
  <2>1. /\ Len(q) \in Nat /\ DOMAIN q = 1 .. Len(q)
        /\ ToSet(q) = {q[i] : i \in 1 .. Len(q)}
    BY QueueFacts DEF IsQueue
  <2>2. DOMAIN a = 1 .. Len(a) /\ ToSet(a) = {a[i] : i \in 1 .. Len(a)}
    BY <1>1, QueueFacts
  <2>. QED  BY <1>1, <2>1, <2>2
<1>3. \A i \in 1 .. Len(q) + 1 : i \in 1 .. Len(q) \/ i = Len(q) + 1
  BY <1>2
<1>4. 1 .. Len(q) \subseteq 1 .. Len(q) + 1 /\ Len(q) + 1 \in 1 .. Len(q) + 1
  BY <1>2
<1>5. IsInjective(a)
  <2>. SUFFICES ASSUME NEW i \in 1 .. Len(q) + 1, NEW j \in 1 .. Len(q) + 1, a[i] = a[j]
                PROVE  i = j
    BY <1>2 DEF IsInjective
  <2>1. \A k \in 1 .. Len(q) : a[k] \in ToSet(q)
    BY <1>1, <1>2
  <2>2. i \in 1 .. Len(q) <=> j \in 1 .. Len(q)
    BY <1>1, <1>3, <2>1
  <2>3. CASE i \in 1 .. Len(q)
    BY <1>1, <1>2, <2>2, <2>3 DEF IsQueue, IsInjective
  <2>. QED  BY <1>3, <2>2, <2>3
<1>6. ToSet(a) \subseteq ToSet(q) \cup {p}
  BY <1>1, <1>2, <1>3
<1>7. ToSet(q) \cup {p} \subseteq ToSet(a)
  <2>1. \A i \in 1 .. Len(q) : q[i] \in ToSet(a)
    BY <1>1, <1>2, <1>4
  <2>2. p \in ToSet(a)
    BY <1>1, <1>2, <1>4
  <2>. QED  BY <1>2, <2>1, <2>2
<1>. QED  BY <1>1, <1>5, <1>6, <1>7 DEF IsQueue

LEMMA QueueTail ==
    ASSUME NEW q, IsQueue(q), q # <<>>
    PROVE  /\ Head(q) \in ToSet(q)
           /\ IsQueue(Tail(q)) /\ ToSet(Tail(q)) = ToSet(q) \ {Head(q)}
<1>. DEFINE t == Tail(q)
<1>1. /\ t \in Seq(Pieces) /\ Len(t) = Len(q) - 1
      /\ \A i \in 1 .. Len(t) : t[i] = q[i + 1]
  BY HeadTailProperties DEF IsQueue
<1>2. /\ Len(q) \in Nat \ {0} /\ DOMAIN q = 1 .. Len(q) /\ DOMAIN t = 1 .. Len(q) - 1
      /\ ToSet(q) = {q[i] : i \in 1 .. Len(q)}
      /\ ToSet(t) = {t[i] : i \in 1 .. Len(q) - 1}
  BY <1>1, QueueFacts, EmptySeq DEF IsQueue
<1>3. Head(q) = q[1] /\ 1 \in 1 .. Len(q)
  BY <1>2 DEF IsQueue
<1>4. \A i, j \in 1 .. Len(q) : q[i] = q[j] => i = j
  BY <1>2 DEF IsQueue, IsInjective
<1>5. \A i \in 1 .. Len(q) - 1 : i + 1 \in 1 .. Len(q) /\ i + 1 # 1
  BY <1>2
<1>6. \A i \in 1 .. Len(q) : i = 1 \/ (i - 1 \in 1 .. Len(q) - 1 /\ (i - 1) + 1 = i)
  BY <1>2
<1>7. IsInjective(t)
  <2>. SUFFICES ASSUME NEW i \in 1 .. Len(q) - 1, NEW j \in 1 .. Len(q) - 1, t[i] = t[j]
                PROVE  i = j
    BY <1>2 DEF IsInjective
  <2>1. i + 1 = j + 1
    BY <1>1, <1>4, <1>5
  <2>. QED  BY <2>1, <1>2
<1>8. ToSet(t) \subseteq ToSet(q) \ {Head(q)}
  BY <1>1, <1>2, <1>3, <1>4, <1>5
<1>9. ToSet(q) \ {Head(q)} \subseteq ToSet(t)
  <2>. SUFFICES ASSUME NEW i \in 1 .. Len(q), i # 1
                PROVE  q[i] \in ToSet(t)
    BY <1>2, <1>3
  <2>1. i - 1 \in 1 .. Len(q) - 1 /\ t[i - 1] = q[i]
    BY <1>1, <1>2, <1>6
  <2>. QED  BY <2>1, <1>2
<1>. QED  BY <1>1, <1>2, <1>3, <1>7, <1>8, <1>9 DEF IsQueue

\* What an abort does: splice(indexOf(waiter), 1).
LEMMA QueueSplice ==
    ASSUME NEW q, IsQueue(q), NEW p \in Pieces
    PROVE  IsQueue(RemoveFirst(q, p)) /\ ToSet(RemoveFirst(q, p)) = ToSet(q) \ {p}
<1>. DEFINE n == Len(q)
            t == RemoveFirst(q, p)
<1>1. n \in Nat /\ DOMAIN q = 1 .. n /\ ToSet(q) = {q[i] : i \in 1 .. n}
  BY QueueFacts DEF IsQueue
<1>2. \A i, j \in 1 .. n : q[i] = q[j] => i = j
  BY <1>1 DEF IsQueue, IsInjective
<1>3. CASE ~ \E i \in 1 .. n : q[i] = p
  <2>1. t = q /\ p \notin ToSet(q)
    BY <1>1, <1>3 DEF RemoveFirst
  <2>. QED  BY <2>1
<1>4. CASE \E i \in 1 .. n : q[i] = p
  <2>1. PICK k \in 1 .. n : q[k] = p
    BY <1>4
  <2>2. {i \in 1 .. n : q[i] = p} = {k}
    BY <1>2, <2>1
  <2>3. Min({k}) = k
    BY <2>1, <1>1 DEF Min
  <2>4. SelectInSeq(q, LAMBDA v : v = p) = k
    BY <2>2, <2>3 DEF SelectInSeq
  <2>5. t = SubSeq(q, 1, k - 1) \o SubSeq(q, k + 1, n)
    BY <1>4, <2>4 DEF RemoveFirst, RemoveAt
  <2>6. /\ SubSeq(q, 1, k - 1) \in Seq(Pieces) /\ Len(SubSeq(q, 1, k - 1)) = k - 1
        /\ \A i \in 1 .. k - 1 : SubSeq(q, 1, k - 1)[i] = q[i]
    <3>1. \A i \in 1 .. k - 1 : q[i] \in Pieces
      BY <1>1, QueueFacts DEF IsQueue
    <3>2. 1 \in Int /\ k - 1 \in Int /\ k >= 1
      BY <1>1
    <3>3. /\ SubSeq(q, 1, k - 1) \in Seq(Pieces)
          /\ Len(SubSeq(q, 1, k - 1)) = IF 1 <= k - 1 THEN k - 1 - 1 + 1 ELSE 0
          /\ \A i \in 1 .. k - 1 - 1 + 1 : SubSeq(q, 1, k - 1)[i] = q[1 + i - 1]
      BY <3>1, <3>2, SubSeqProperties
    <3>. QED  BY <3>2, <3>3
  <2>7. /\ SubSeq(q, k + 1, n) \in Seq(Pieces) /\ Len(SubSeq(q, k + 1, n)) = n - k
        /\ \A i \in 1 .. n - k : SubSeq(q, k + 1, n)[i] = q[k + i]
    <3>1. \A i \in k + 1 .. n : q[i] \in Pieces
      BY <1>1, QueueFacts DEF IsQueue
    <3>2. n \in Int /\ k + 1 \in Int /\ k <= n
      BY <1>1
    <3>3. /\ SubSeq(q, k + 1, n) \in Seq(Pieces)
          /\ Len(SubSeq(q, k + 1, n)) = IF k + 1 <= n THEN n - (k + 1) + 1 ELSE 0
          /\ \A i \in 1 .. n - (k + 1) + 1 : SubSeq(q, k + 1, n)[i] = q[k + 1 + i - 1]
      BY <3>1, <3>2, SubSeqProperties
    <3>. QED  BY <3>2, <3>3
  <2>8. /\ t \in Seq(Pieces) /\ Len(t) = n - 1
        /\ \A i \in 1 .. n - 1 : t[i] = IF i < k THEN q[i] ELSE q[i + 1]
    <3>. HIDE DEF n
    <3>1. ASSUME NEW a \in Seq(Pieces), NEW b \in Seq(Pieces),
                 Len(a) = k - 1, \A i \in 1 .. k - 1 : a[i] = q[i],
                 Len(b) = n - k, \A i \in 1 .. n - k : b[i] = q[k + i]
          PROVE  /\ a \o b \in Seq(Pieces) /\ Len(a \o b) = n - 1
                 /\ \A i \in 1 .. n - 1 : (a \o b)[i] = IF i < k THEN q[i] ELSE q[i + 1]
      <4>1. n \in Nat /\ k \in Nat /\ k >= 1 /\ k <= n /\ Len(a) + Len(b) = n - 1
        BY <1>1, <3>1
      <4>2. /\ a \o b \in Seq(Pieces) /\ Len(a \o b) = Len(a) + Len(b)
            /\ \A i \in 1 .. Len(a) + Len(b) :
                  (a \o b)[i] = IF i <= Len(a) THEN a[i] ELSE b[i - Len(a)]
        BY ConcatProperties
      <4>3. ASSUME NEW i \in 1 .. n - 1
            PROVE  (a \o b)[i] = IF i < k THEN q[i] ELSE q[i + 1]
        <5>1. (a \o b)[i] = IF i <= k - 1 THEN a[i] ELSE b[i - (k - 1)]
          BY <3>1, <4>1, <4>2
        <5>2. CASE i < k
          <6>1. i \in 1 .. k - 1 /\ i <= k - 1
            BY <4>1, <5>2
          <6>. QED  BY <3>1, <5>1, <5>2, <6>1
        <5>3. CASE ~ (i < k)
          <6>1. i - (k - 1) \in 1 .. n - k /\ k + (i - (k - 1)) = i + 1 /\ ~ (i <= k - 1)
            BY <4>1, <5>3
          <6>. QED  BY <3>1, <5>1, <5>3, <6>1
        <5>. QED  BY <5>2, <5>3
      <4>. QED  BY <4>1, <4>2, <4>3
    <3>. DEFINE s1 == SubSeq(q, 1, k - 1)
                s2 == SubSeq(q, k + 1, n)
    <3>2. s1 \in Seq(Pieces) /\ Len(s1) = k - 1 /\ \A i \in 1 .. k - 1 : s1[i] = q[i]
      BY <2>6
    <3>3. s2 \in Seq(Pieces) /\ Len(s2) = n - k /\ \A i \in 1 .. n - k : s2[i] = q[k + i]
      BY <2>7
    <3>4. t = s1 \o s2
      BY <2>5
    <3>. HIDE DEF s1, s2, t
    <3>. QED  BY <3>1, <3>2, <3>3, <3>4
  <2>. DEFINE at(i) == IF i < k THEN i ELSE i + 1
  <2>9. \A i \in 1 .. n - 1 : at(i) \in 1 .. n /\ at(i) # k /\ t[i] = q[at(i)]
    BY <1>1, <2>8
  <2>10. \A i, j \in 1 .. n - 1 : at(i) = at(j) => i = j
    BY <1>1
  <2>11. /\ DOMAIN t = 1 .. n - 1 /\ ToSet(t) = {t[i] : i \in 1 .. n - 1}
    BY <2>8, QueueFacts
  <2>12. \A i \in 1 .. n : i # k => \E j \in 1 .. n - 1 : at(j) = i
    <3>. TAKE i \in 1 .. n
    <3>. HAVE i # k
    <3>1. CASE i < k
      <4>1. i \in 1 .. n - 1 /\ at(i) = i
        BY <1>1, <3>1
      <4>. QED  BY <4>1
    <3>2. CASE i > k
      <4>1. i - 1 \in 1 .. n - 1 /\ at(i - 1) = i
        BY <1>1, <3>2
      <4>. QED  BY <4>1
    <3>. QED  BY <1>1, <3>1, <3>2
  <2>. HIDE DEF at, t
  <2>13. IsInjective(t)
    BY <1>2, <2>9, <2>10, <2>11 DEF IsInjective
  <2>14. ToSet(t) \subseteq ToSet(q) \ {p}
    BY <1>1, <1>2, <2>1, <2>9, <2>11
  <2>15. ToSet(q) \ {p} \subseteq ToSet(t)
    BY <1>1, <2>1, <2>9, <2>11, <2>12
  <2>16. IsQueue(t)
    BY <2>8, <2>13 DEF IsQueue
  <2>. QED  BY <2>14, <2>15, <2>16 DEF t
<1>. QED  BY <1>3, <1>4

(***************************************************************************)
(* One origin: h slots held, q its queue, c the sources.                   *)
(***************************************************************************)
Holders(o, c) == {p \in Pieces : c[p][o] \in Holding}
InQueue(o, c) == {p \in Pieces : c[p][o] = "queued"}

SlotsOf(o, h, q, c) ==
    /\ h = Cardinality(Holders(o, c)) /\ h <= Cap
    /\ q # <<>> => h = Cap
    /\ IsQueue(q) /\ ToSet(q) = InQueue(o, c)

\* d differs from c in the source that p has on o.
Differs(o, c, d, p, v) ==
    \A x \in Pieces : d[x][o] = IF x = p THEN v ELSE c[x][o]

LEMMA HoldersAreFinite ==
    ASSUME NEW o, NEW c
    PROVE  IsFiniteSet(Holders(o, c)) /\ Cardinality(Holders(o, c)) \in Nat
<1>1. Holders(o, c) \subseteq Pieces
  BY DEF Holders
<1>. QED  BY <1>1, FS_Subset, FS_CardinalityType

LEMMA QueuedHoldNothing == "queued" \notin Holding /\ "none" \notin Holding /\ "over" \notin Holding
                           /\ {"opening", "yielded", "streaming", "closing"} = Holding
BY DEF Holding, Live

\* Nothing changes for the origin.
LEMMA SlotsStay ==
    ASSUME NEW o, NEW h, NEW q, NEW c, NEW d, SlotsOf(o, h, q, c),
           \A x \in Pieces : \/ d[x][o] = c[x][o]
                             \/ c[x][o] \in Holding /\ d[x][o] \in Holding
                             \/ {c[x][o], d[x][o]} \subseteq {"none", "over"}
    PROVE  SlotsOf(o, h, q, d)
<1>1. Holders(o, d) = Holders(o, c)
  BY QueuedHoldNothing DEF Holders
<1>2. InQueue(o, d) = InQueue(o, c)
  BY QueuedHoldNothing DEF InQueue
<1>. QED  BY <1>1, <1>2 DEF SlotsOf

\* An aborted source gives up its wait, or keeps its slot for its teardown.
LEMMA SlotsAborted ==
    ASSUME NEW o, NEW h, NEW q, NEW c, NEW d, NEW p \in Pieces, NEW v,
           SlotsOf(o, h, q, c), Differs(o, c, d, p, v),
           \/ c[p][o] = "queued" /\ v = "over"
           \/ c[p][o] \in Holding /\ v \in Holding
           \/ c[p][o] \in {"none", "over"} /\ v = c[p][o]
    PROVE  SlotsOf(o, h, RemoveFirst(q, p), d)
<1>1. IsQueue(RemoveFirst(q, p)) /\ ToSet(RemoveFirst(q, p)) = ToSet(q) \ {p}
  BY QueueSplice DEF SlotsOf
<1>2. Holders(o, d) = Holders(o, c)
  BY QueuedHoldNothing DEF Holders, Differs
<1>3. InQueue(o, d) = InQueue(o, c) \ {p}
  BY QueuedHoldNothing DEF InQueue, Differs
<1>4. RemoveFirst(q, p) # <<>> => q # <<>>
  BY <1>1, QueueFacts DEF SlotsOf, IsQueue
<1>. QED  BY <1>1, <1>2, <1>3, <1>4 DEF SlotsOf

LEMMA SlotsFreed ==
    ASSUME NEW o, NEW h, NEW c, NEW d, NEW p \in Pieces,
           SlotsOf(o, h, <<>>, c), c[p][o] \in Holding, Differs(o, c, d, p, "over")
    PROVE  SlotsOf(o, h - 1, <<>>, d)
<1>1. Holders(o, d) = Holders(o, c) \ {p} /\ p \in Holders(o, c)
  BY QueuedHoldNothing DEF Holders, Differs
<1>2. InQueue(o, d) = InQueue(o, c)
  BY QueuedHoldNothing DEF InQueue, Differs
<1>3. Cardinality(Holders(o, d)) = Cardinality(Holders(o, c)) - 1
  <2>1. PICK H : H = Holders(o, c) /\ IsFiniteSet(H)
    BY HoldersAreFinite
  <2>2. Cardinality(H \ {p}) = Cardinality(H) - 1
    BY <1>1, <2>1, FS_RemoveElement
  <2>. QED  BY <1>1, <2>1, <2>2
<1>. QED  BY <1>2, <1>3, HoldersAreFinite DEF SlotsOf

\* The slot of p goes to the head of the queue.
LEMMA SlotsHandedOver ==
    ASSUME NEW o, NEW h, NEW q, NEW c, NEW d, NEW p \in Pieces, NEW n \in Pieces,
           SlotsOf(o, h, q, c), q # <<>>, n = Head(q), c[p][o] \in Holding,
           \A x \in Pieces : d[x][o] = IF x = n THEN "opening"
                                       ELSE IF x = p THEN "over" ELSE c[x][o]
    PROVE  SlotsOf(o, h, Tail(q), d)
<1>1. /\ n \in InQueue(o, c)
      /\ IsQueue(Tail(q)) /\ ToSet(Tail(q)) = InQueue(o, c) \ {n}
  BY QueueTail DEF SlotsOf
<1>2. c[n][o] = "queued" /\ n # p
  BY <1>1, QueuedHoldNothing DEF InQueue
<1>3. InQueue(o, d) = InQueue(o, c) \ {n}
  BY <1>2, QueuedHoldNothing DEF InQueue
<1>4. Holders(o, d) = (Holders(o, c) \ {p}) \cup {n} /\ p \in Holders(o, c) /\ n \notin Holders(o, c)
  BY <1>2, QueuedHoldNothing DEF Holders
<1>5. Cardinality(Holders(o, d)) = Cardinality(Holders(o, c))
  <2>1. IsFiniteSet(Holders(o, c) \ {p})
        /\ Cardinality(Holders(o, c) \ {p}) = Cardinality(Holders(o, c)) - 1
    BY <1>4, HoldersAreFinite, FS_RemoveElement
  <2>2. Cardinality((Holders(o, c) \ {p}) \cup {n}) = Cardinality(Holders(o, c) \ {p}) + 1
    BY <1>4, <2>1, FS_AddElement
  <2>. QED  BY <1>4, <2>1, <2>2, HoldersAreFinite
<1>. QED  BY <1>1, <1>3, <1>5 DEF SlotsOf

LEMMA SlotsTaken ==
    ASSUME NEW o, NEW h, NEW q, NEW c, NEW d, NEW p \in Pieces,
           SlotsOf(o, h, q, c), h < Cap, c[p][o] = "none", Differs(o, c, d, p, "opening")
    PROVE  SlotsOf(o, h + 1, q, d)
<1>1. Holders(o, d) = Holders(o, c) \cup {p} /\ p \notin Holders(o, c)
  BY QueuedHoldNothing DEF Holders, Differs
<1>2. InQueue(o, d) = InQueue(o, c)
  BY QueuedHoldNothing DEF InQueue, Differs
<1>3. Cardinality(Holders(o, d)) = Cardinality(Holders(o, c)) + 1
  BY <1>1, HoldersAreFinite, FS_AddElement
<1>. QED  BY <1>2, <1>3, HoldersAreFinite DEF SlotsOf

LEMMA SlotsAwaited ==
    ASSUME NEW o, NEW h, NEW q, NEW c, NEW d, NEW p \in Pieces,
           SlotsOf(o, h, q, c), h >= Cap, c[p][o] = "none", Differs(o, c, d, p, "queued")
    PROVE  SlotsOf(o, h, Append(q, p), d)
<1>1. InQueue(o, d) = InQueue(o, c) \cup {p} /\ p \notin InQueue(o, c)
  BY DEF InQueue, Differs
<1>2. Holders(o, d) = Holders(o, c)
  BY QueuedHoldNothing DEF Holders, Differs
<1>3. IsQueue(Append(q, p)) /\ ToSet(Append(q, p)) = ToSet(q) \cup {p}
  BY <1>1, QueueAppend DEF SlotsOf
<1>. QED  BY <1>1, <1>2, <1>3, HoldersAreFinite DEF SlotsOf

(***************************************************************************)
(* The hash workers.                                                       *)
(***************************************************************************)
PoolOK ==
    /\ job \in [Pieces -> {"none", "waiting", "begin", "job"}]
    /\ idle \in Nat /\ live \in Nat
    /\ waiters \in Seq(Pieces)
    /\ WorkersConserved

LEMMA LeasedAreFinite == IsFiniteSet(Leased) /\ Cardinality(Leased) \in Nat
<1>1. Leased \subseteq Pieces
  BY DEF Leased
<1>. QED  BY <1>1, FS_Subset, FS_CardinalityType

LEMMA LeasedAreFiniteNext == IsFiniteSet(Leased') /\ Cardinality(Leased)' \in Nat
<1>1. Leased' \subseteq Pieces
  BY DEF Leased
<1>. QED  BY <1>1, FS_Subset, FS_CardinalityType

LEMMA AcquireKeepsPool ==
    ASSUME PoolOK, NEW p \in Pieces, job[p] = "none", Acquire(p)
    PROVE  /\ PoolOK'
           /\ job'[p] \in {"waiting", "begin"}
           /\ \A x \in Pieces : x # p => job'[x] = job[x]
<1>. DEFINE Waiting == {x \in Pieces : job[x] = "waiting"}
<1>0. /\ p \notin Leased /\ p \notin Waiting
      /\ IsQueue(waiters) /\ ToSet(waiters) = Waiting
  BY DEF PoolOK, Leased, WorkersConserved, IsQueue
<1>1. CASE job' = [job EXCEPT ![p] = "begin"] /\ UNCHANGED waiters /\ waiters = <<>>
           /\ (\/ idle > 0 /\ idle' = idle - 1 /\ live' = live
               \/ idle = 0 /\ live < PoolSize /\ live' = live + 1 /\ idle' = idle)
  <2>1. Leased' = Leased \cup {p} /\ Waiting' = Waiting
    BY <1>0, <1>1 DEF PoolOK, Leased
  <2>2. Cardinality(Leased)' = Cardinality(Leased) + 1
    BY <1>0, <2>1, LeasedAreFinite, FS_AddElement
  <2>. QED  BY <1>0, <1>1, <2>1, <2>2, LeasedAreFinite DEF PoolOK, WorkersConserved, IsQueue
<1>2. CASE /\ idle = 0 /\ live >= PoolSize /\ UNCHANGED <<idle, live>>
           /\ waiters' = Append(waiters, p) /\ job' = [job EXCEPT ![p] = "waiting"]
  <2>1. Leased' = Leased /\ Waiting' = Waiting \cup {p}
    BY <1>0, <1>2 DEF PoolOK, Leased
  <2>2. IsQueue(waiters') /\ ToSet(waiters') = ToSet(waiters) \cup {p}
    BY <1>0, <1>2, QueueAppend
  <2>3. live <= PoolSize
    BY DEF PoolOK, WorkersConserved
  <2>. QED  BY <1>0, <1>2, <2>1, <2>2, <2>3 DEF PoolOK, WorkersConserved, IsQueue
<1>3. idle > 0 \/ (idle = 0 /\ live < PoolSize) => waiters = <<>>
  BY DEF PoolOK, WorkersConserved
<1>. QED  BY <1>1, <1>2, <1>3 DEF Acquire

\* What a release leaves: the worker of p is gone or idle, or serves the next waiter.
Released(p) ==
    /\ job'[p] = "none"
    /\ \A x \in Pieces : x # p =>
          job'[x] = job[x] \/ (job[x] = "waiting" /\ job'[x] = "begin")

LEMMA ReleaseKeepsPool ==
    ASSUME PoolOK, NEW p \in Pieces, p \in Leased, ReleaseBroken(p) \/ ReleaseWorker(p)
    PROVE  PoolOK' /\ Released(p)
<1>. DEFINE Waiting == {x \in Pieces : job[x] = "waiting"}
<1>0. /\ IsQueue(waiters) /\ ToSet(waiters) = Waiting
  BY DEF PoolOK, WorkersConserved, IsQueue
<1>1. CASE /\ waiters = <<>> /\ UNCHANGED waiters /\ job' = [job EXCEPT ![p] = "none"]
           /\ (\/ live' = live - 1 /\ idle' = idle
               \/ live' = live /\ idle' = idle + 1)
  <2>1. Leased' = Leased \ {p} /\ Waiting' = Waiting
    BY <1>1 DEF PoolOK, Leased
  <2>2. Cardinality(Leased)' = Cardinality(Leased) - 1 /\ Cardinality(Leased) - 1 \in Nat
    BY <2>1, LeasedAreFinite, LeasedAreFiniteNext, FS_RemoveElement
  <2>3. PoolOK'
    BY <1>0, <1>1, <2>1, <2>2, LeasedAreFinite DEF PoolOK, WorkersConserved, IsQueue
  <2>4. Released(p)
    BY <1>1 DEF PoolOK, Released
  <2>. QED  BY <2>3, <2>4
<1>2. CASE /\ waiters # <<>> /\ waiters' = Tail(waiters) /\ UNCHANGED <<live, idle>>
           /\ job' = [job EXCEPT ![p] = "none", ![Head(waiters)] = "begin"]
  <2>. DEFINE n == Head(waiters)
  <2>1. /\ n \in Waiting /\ IsQueue(waiters') /\ ToSet(waiters') = Waiting \ {n}
    BY <1>0, <1>2, QueueTail
  <2>. HIDE DEF n
  <2>2. /\ n \in Pieces /\ job[n] = "waiting" /\ n # p
        /\ job' = [job EXCEPT ![p] = "none", ![n] = "begin"]
    BY <1>2, <2>1 DEF Leased, n
  <2>3. /\ job' \in [Pieces -> {"none", "waiting", "begin", "job"}]
        /\ \A x \in Pieces : job'[x] = IF x = n THEN "begin" ELSE IF x = p THEN "none" ELSE job[x]
    BY <2>2 DEF PoolOK
  <2>4. Leased' = (Leased \ {p}) \cup {n} /\ n \notin Leased /\ Waiting' = Waiting \ {n}
    BY <2>2, <2>3 DEF Leased
  <2>5. Cardinality(Leased)' = Cardinality(Leased)
    <3>1. IsFiniteSet(Leased \ {p}) /\ Cardinality(Leased \ {p}) = Cardinality(Leased) - 1
      BY LeasedAreFinite, FS_RemoveElement
    <3>2. Cardinality((Leased \ {p}) \cup {n}) = Cardinality(Leased \ {p}) + 1
      BY <2>4, <3>1, FS_AddElement
    <3>. QED  BY <2>4, <3>1, <3>2, LeasedAreFinite
  <2>6. PoolOK'
    BY <1>2, <2>1, <2>3, <2>4, <2>5 DEF PoolOK, WorkersConserved, IsQueue
  <2>7. Released(p)
    BY <2>2, <2>3 DEF Released
  <2>. QED  BY <2>6, <2>7
<1>. QED  BY <1>1, <1>2 DEF ReleaseBroken, ReleaseWorker

LEMMA ReadyKeepsPool ==
    ASSUME PoolOK, NEW p \in Pieces, job[p] = "begin", job' = [job EXCEPT ![p] = "job"],
           UNCHANGED <<idle, live, waiters>>
    PROVE  PoolOK'
<1>1. Leased' = Leased
  BY DEF PoolOK, Leased
<1>2. {x \in Pieces : job'[x] = "waiting"} = {x \in Pieces : job[x] = "waiting"}
  BY DEF PoolOK
<1>. QED  BY <1>1, <1>2 DEF PoolOK, WorkersConserved

(***************************************************************************)
(* The sources of the pieces.                                              *)
(***************************************************************************)
States == Live \cup {"none", "over"}

LimiterOK ==
    /\ cand \in [Pieces -> [Origins -> States]]
    /\ held \in [Origins -> Nat] /\ queue \in [Origins -> Seq(Pieces)]
    /\ \A o \in Origins : SlotsOf(o, held[o], queue[o], cand)

\* Of the race of p: nothing runs towards a race that is over, a stream has won it.
RaceOf(p, r, c) ==
    r # "racing" =>
        \A o \in Origins : c[o] \notin {"queued", "opening", "yielded"}
StreamOf(p, r, c) == \A o \in Origins : c[o] = "streaming" => r # "racing"

RaceOK ==
    /\ race \in [Pieces -> {"racing", "won", "over"}]
    /\ \A p \in Pieces : RaceOf(p, race[p], cand[p]) /\ StreamOf(p, race[p], cand[p])

LEMMA StateNames == States = {"queued", "opening", "yielded", "streaming", "closing", "none", "over"}
BY DEF States, Live

LEMMA SetSource ==
    ASSUME NEW c \in [Pieces -> [Origins -> States]], NEW p \in Pieces, NEW o \in Origins,
           NEW v \in States
    PROVE  /\ [c EXCEPT ![p][o] = v] \in [Pieces -> [Origins -> States]]
           /\ \A x \in Pieces, y \in Origins :
                 [c EXCEPT ![p][o] = v][x][y] = IF x = p /\ y = o THEN v ELSE c[x][y]
OBVIOUS

LEMMA AbortedSources ==
    ASSUME LimiterOK, NEW p \in Pieces, NEW keep \in SUBSET Origins
    PROVE  /\ Aborted(p, keep) \in [Origins -> States]
           /\ \A o \in keep : Aborted(p, keep)[o] = cand[p][o]
           /\ \A o \in Origins \ keep :
                /\ Aborted(p, keep)[o] \in {"none", "over", "closing"}
                /\ \/ cand[p][o] = "queued" /\ Aborted(p, keep)[o] = "over"
                   \/ cand[p][o] \in Holding /\ Aborted(p, keep)[o] \in Holding
                   \/ cand[p][o] \in {"none", "over"} /\ Aborted(p, keep)[o] = cand[p][o]
<1>1. \A o \in Origins : cand[p][o] \in States
  BY DEF LimiterOK
<1>2. ASSUME NEW o \in keep PROVE Aborted(p, keep)[o] = cand[p][o]
  BY <1>2 DEF Aborted
<1>3. ASSUME NEW o \in Origins \ keep
      PROVE  /\ Aborted(p, keep)[o] \in {"none", "over", "closing"}
             /\ \/ cand[p][o] = "queued" /\ Aborted(p, keep)[o] = "over"
                \/ cand[p][o] \in Holding /\ Aborted(p, keep)[o] \in Holding
                \/ cand[p][o] \in {"none", "over"} /\ Aborted(p, keep)[o] = cand[p][o]
  <2>1. Aborted(p, keep)[o] =
           CASE cand[p][o] \in {"none", "over", "closing"} -> cand[p][o]
             [] cand[p][o] = "queued" -> "over"
             [] OTHER -> "closing"
    BY <1>3 DEF Aborted
  <2>. QED  BY <1>1, <2>1, StateNames, QueuedHoldNothing
<1>4. Aborted(p, keep) = [o \in Origins |-> Aborted(p, keep)[o]]
  BY DEF Aborted
<1>. QED  BY <1>1, <1>2, <1>3, <1>4, StateNames

\* The teardown of a race, or of all its sources but the winner.
LEMMA AbortKeepsSlots ==
    ASSUME LimiterOK, NEW p \in Pieces, NEW keep \in SUBSET Origins,
           NEW a \in [Origins -> States],
           \A o \in Origins \ keep : a[o] = Aborted(p, keep)[o],
           \A o \in keep : cand[p][o] \in Holding /\ a[o] \in Holding,
           cand' = [cand EXCEPT ![p] = a], queue' = LeavesQueues(p, keep), held' = held
    PROVE  LimiterOK'
<1>1. /\ cand' \in [Pieces -> [Origins -> States]]
      /\ \A x \in Pieces, o \in Origins : cand'[x][o] = IF x = p THEN a[o] ELSE cand[x][o]
  BY DEF LimiterOK
<1>2. ASSUME NEW o \in Origins
      PROVE  queue'[o] \in Seq(Pieces) /\ SlotsOf(o, held'[o], queue'[o], cand')
  <2>1. SlotsOf(o, held[o], queue[o], cand) /\ Differs(o, cand, cand', p, a[o])
    BY <1>1 DEF LimiterOK, Differs
  <2>2. CASE o \in keep
    <3>1. queue'[o] = queue[o]
      BY <2>2 DEF LeavesQueues
    <3>2. \A x \in Pieces : \/ cand'[x][o] = cand[x][o]
                            \/ cand[x][o] \in Holding /\ cand'[x][o] \in Holding
      BY <1>1, <2>2
    <3>3. SlotsOf(o, held[o], queue[o], cand')
      BY <2>1, <3>2, SlotsStay
    <3>. QED  BY <3>1, <3>3 DEF SlotsOf, IsQueue
  <2>3. CASE o \notin keep
    <3>1. queue'[o] = RemoveFirst(queue[o], p)
      BY <2>3 DEF LeavesQueues
    <3>2. SlotsOf(o, held[o], RemoveFirst(queue[o], p), cand')
      BY <2>1, <2>3, AbortedSources, SlotsAborted
    <3>. QED  BY <3>1, <3>2 DEF SlotsOf, IsQueue
  <2>. QED  BY <2>2, <2>3
<1>3. queue' = [o \in Origins |-> queue'[o]]
  BY DEF LeavesQueues
<1>. QED  BY <1>1, <1>2, <1>3 DEF LimiterOK

LEMMA CloseKeepsSources ==
    ASSUME LimiterOK, RaceOK, NEW p \in Pieces, CloseSource(p)
    PROVE  LimiterOK' /\ RaceOK'
<1>1. Aborted(p, {}) \in [Origins -> States]
      /\ \A o \in Origins : Aborted(p, {})[o] \in {"none", "over", "closing"}
  BY AbortedSources
<1>2. LimiterOK'
  <2>. DEFINE none == {}
              a == Aborted(p, none)
  <2>1. cand' = [cand EXCEPT ![p] = a] /\ queue' = LeavesQueues(p, none) /\ held' = held
    BY DEF CloseSource
  <2>2. a \in [Origins -> States] /\ none \in SUBSET Origins /\ \A o : o \notin none
    BY <1>1
  <2>. HIDE DEF none
  <2>3. \A o \in Origins \ none : a[o] = Aborted(p, none)[o]
    OBVIOUS
  <2>. HIDE DEF a
  <2>. QED  BY <2>1, <2>2, <2>3, AbortKeepsSlots
<1>3. /\ race' \in [Pieces -> {"racing", "won", "over"}]
      /\ \A x \in Pieces : x # p => race'[x] = race[x] /\ cand'[x] = cand[x]
      /\ race'[p] = "over" /\ cand'[p] = Aborted(p, {})
  BY DEF CloseSource, RaceOK, LimiterOK
<1>4. RaceOK'
  <2>. SUFFICES ASSUME NEW x \in Pieces
                PROVE  RaceOf(x, race'[x], cand'[x]) /\ StreamOf(x, race'[x], cand'[x])
    BY <1>3 DEF RaceOK
  <2>1. CASE x = p
    BY <1>1, <1>3, <2>1 DEF RaceOf, StreamOf
  <2>2. CASE x # p
    BY <1>3, <2>2 DEF RaceOK
  <2>. QED  BY <2>1, <2>2
<1>. QED  BY <1>2, <1>4

LEMMA WinKeepsSources ==
    ASSUME LimiterOK, RaceOK, NEW p \in Pieces, NEW o \in Origins, Win(p, o)
    PROVE  LimiterOK' /\ RaceOK'
<1>. DEFINE a == [Aborted(p, {o}) EXCEPT ![o] = "streaming"]
<1>1. /\ Aborted(p, {o}) \in [Origins -> States]
      /\ \A y \in Origins \ {o} : Aborted(p, {o})[y] \in {"none", "over", "closing"}
  BY AbortedSources
<1>2. /\ a \in [Origins -> States] /\ a[o] = "streaming"
      /\ \A y \in Origins \ {o} : a[y] = Aborted(p, {o})[y]
  BY <1>1, StateNames
<1>3. /\ cand' = [cand EXCEPT ![p] = a] /\ cand[p][o] = "yielded"
      /\ queue' = LeavesQueues(p, {o}) /\ held' = held
      /\ race' = [race EXCEPT ![p] = "won"]
  BY DEF Win
<1>. HIDE DEF a
<1>4. LimiterOK'
  <2>. DEFINE keep == {o}
  <2>1. cand' = [cand EXCEPT ![p] = a] /\ queue' = LeavesQueues(p, keep) /\ held' = held
    BY <1>3
  <2>2. keep \in SUBSET Origins /\ \A y \in Origins \ keep : a[y] = Aborted(p, keep)[y]
    BY <1>2
  <2>3. \A y \in keep : cand[p][y] \in Holding /\ a[y] \in Holding
    BY <1>2, <1>3, QueuedHoldNothing
  <2>. HIDE DEF keep
  <2>. QED  BY <1>2, <2>1, <2>2, <2>3, AbortKeepsSlots
<1>5. /\ race' \in [Pieces -> {"racing", "won", "over"}]
      /\ \A x \in Pieces : x # p => race'[x] = race[x] /\ cand'[x] = cand[x]
      /\ race'[p] = "won" /\ cand'[p] = a
  BY <1>3 DEF RaceOK, LimiterOK
<1>6. RaceOK'
  <2>. SUFFICES ASSUME NEW x \in Pieces
                PROVE  RaceOf(x, race'[x], cand'[x]) /\ StreamOf(x, race'[x], cand'[x])
    BY <1>5 DEF RaceOK
  <2>1. CASE x = p
    BY <1>1, <1>2, <1>5, <2>1 DEF RaceOf, StreamOf
  <2>2. CASE x # p
    BY <1>5, <2>2 DEF RaceOK
  <2>. QED  BY <2>1, <2>2
<1>. QED  BY <1>4, <1>6

\* One source of p moves, and with it the origin's slots; the race stays or ends.
LEMMA OneSourceMoves ==
    ASSUME LimiterOK, NEW p \in Pieces, NEW o \in Origins, NEW v \in States,
           cand' = [cand EXCEPT ![p][o] = v],
           NEW h \in Nat, NEW q \in Seq(Pieces),
           held' = [held EXCEPT ![o] = h], queue' = [queue EXCEPT ![o] = q],
           Differs(o, cand, cand', p, v) => SlotsOf(o, h, q, cand')
    PROVE  LimiterOK'
<1>1. /\ cand' \in [Pieces -> [Origins -> States]]
      /\ \A x \in Pieces, y \in Origins : cand'[x][y] = IF x = p /\ y = o THEN v ELSE cand[x][y]
  BY SetSource DEF LimiterOK
<1>2. /\ held' \in [Origins -> Nat] /\ queue' \in [Origins -> Seq(Pieces)]
      /\ \A y \in Origins : held'[y] = (IF y = o THEN h ELSE held[y])
                            /\ queue'[y] = (IF y = o THEN q ELSE queue[y])
  BY DEF LimiterOK
<1>3. ASSUME NEW y \in Origins PROVE SlotsOf(y, held'[y], queue'[y], cand')
  <2>1. CASE y = o
    <3>1. Differs(o, cand, cand', p, v)
      BY <1>1 DEF Differs
    <3>. QED  BY <2>1, <3>1, <1>2
  <2>2. CASE y # o
    <3>1. SlotsOf(y, held[y], queue[y], cand)
      BY DEF LimiterOK
    <3>2. \A x \in Pieces : cand'[x][y] = cand[x][y]
      BY <1>1, <2>2
    <3>3. SlotsOf(y, held[y], queue[y], cand')
      BY <3>1, <3>2, SlotsStay
    <3>. QED  BY <1>2, <2>2, <3>3
  <2>. QED  BY <2>1, <2>2
<1>. QED  BY <1>1, <1>2, <1>3 DEF LimiterOK

LEMMA SlotFacts ==
    ASSUME LimiterOK, NEW o \in Origins
    PROVE  /\ SlotsOf(o, held[o], queue[o], cand)
           /\ held[o] \in Nat /\ held[o] <= Cap /\ queue[o] \in Seq(Pieces)
           /\ \A p \in Pieces : cand[p][o] \in Holding => held[o] - 1 \in Nat
<1>1. /\ SlotsOf(o, held[o], queue[o], cand) /\ held[o] \in Nat /\ queue[o] \in Seq(Pieces)
      /\ held[o] <= Cap /\ held[o] = Cardinality(Holders(o, cand))
  BY DEF LimiterOK, SlotsOf
<1>2. ASSUME NEW p \in Pieces, cand[p][o] \in Holding PROVE held[o] # 0
  <2>1. p \in Holders(o, cand)
    BY <1>2 DEF Holders
  <2>. QED  BY <1>1, <2>1, HoldersAreFinite, FS_EmptySet
<1>. QED  BY <1>1, <1>2

LEMMA AcquireKeepsSlots ==
    ASSUME LimiterOK, NEW p \in Pieces, NEW o \in Origins, cand[p][o] = "none",
           AcquireSlot(p, o)
    PROVE  LimiterOK' /\ \E v \in {"opening", "queued"} : cand' = [cand EXCEPT ![p][o] = v]
<1>0. /\ SlotsOf(o, held[o], queue[o], cand) /\ held[o] \in Nat /\ queue[o] \in Seq(Pieces)
      /\ held \in [Origins -> Nat] /\ queue \in [Origins -> Seq(Pieces)]
      /\ held = [held EXCEPT ![o] = held[o]] /\ queue = [queue EXCEPT ![o] = queue[o]]
  BY SlotFacts DEF LimiterOK
<1>1. CASE /\ held[o] < Cap /\ held' = [held EXCEPT ![o] = @ + 1]
           /\ cand' = [cand EXCEPT ![p][o] = "opening"] /\ UNCHANGED queue
  <2>1. Differs(o, cand, cand', p, "opening") => SlotsOf(o, held[o] + 1, queue[o], cand')
    BY <1>0, <1>1, SlotsTaken
  <2>2. held[o] + 1 \in Nat /\ "opening" \in States
    BY <1>0, StateNames
  <2>3. held' = [held EXCEPT ![o] = held[o] + 1] /\ queue' = [queue EXCEPT ![o] = queue[o]]
    BY <1>0, <1>1
  <2>4. LimiterOK'
    <3>. DEFINE h == held[o] + 1
                q == queue[o]
                v == "opening"
    <3>1. /\ h \in Nat /\ q \in Seq(Pieces) /\ v \in States
          /\ cand' = [cand EXCEPT ![p][o] = v]
          /\ held' = [held EXCEPT ![o] = h] /\ queue' = [queue EXCEPT ![o] = q]
          /\ Differs(o, cand, cand', p, v) => SlotsOf(o, h, q, cand')
      BY <1>0, <1>1, <2>1, <2>2, <2>3
    <3>. HIDE DEF h, q, v
    <3>. QED  BY <3>1, OneSourceMoves
  <2>. QED  BY <1>1, <2>4
<1>2. CASE /\ held[o] >= Cap /\ queue' = [queue EXCEPT ![o] = Append(@, p)]
           /\ cand' = [cand EXCEPT ![p][o] = "queued"] /\ UNCHANGED held
  <2>1. Differs(o, cand, cand', p, "queued") => SlotsOf(o, held[o], Append(queue[o], p), cand')
    BY <1>0, <1>2, SlotsAwaited
  <2>2. Append(queue[o], p) \in Seq(Pieces) /\ "queued" \in States
    BY <1>0, StateNames, AppendProperties
  <2>3. held' = [held EXCEPT ![o] = held[o]]
        /\ queue' = [queue EXCEPT ![o] = Append(queue[o], p)]
    BY <1>0, <1>2
  <2>4. LimiterOK'
    <3>. DEFINE h == held[o]
                q == Append(queue[o], p)
                v == "queued"
    <3>1. /\ h \in Nat /\ q \in Seq(Pieces) /\ v \in States
          /\ cand' = [cand EXCEPT ![p][o] = v]
          /\ held' = [held EXCEPT ![o] = h] /\ queue' = [queue EXCEPT ![o] = q]
          /\ Differs(o, cand, cand', p, v) => SlotsOf(o, h, q, cand')
      BY <1>0, <1>2, <2>1, <2>2, <2>3
    <3>. HIDE DEF h, q, v
    <3>. QED  BY <3>1, OneSourceMoves
  <2>. QED  BY <1>2, <2>4
<1>. QED  BY <1>1, <1>2 DEF AcquireSlot

\* A source of p ends; its slot goes to the next in the queue, whose race still runs.
LEMMA FreeKeepsSources ==
    ASSUME LimiterOK, NEW p \in Pieces, NEW o \in Origins, cand[p][o] \in Holding,
           FreeSlot(o, [cand EXCEPT ![p][o] = "over"])
    PROVE  /\ LimiterOK'
           /\ \A x \in Pieces, y \in Origins :
                \/ cand'[x][y] = cand[x][y]
                \/ x = p /\ y = o /\ cand'[x][y] = "over"
                \/ cand[x][y] = "queued" /\ cand'[x][y] = "opening"
           /\ cand'[p][o] = "over"
<1>. DEFINE c == [cand EXCEPT ![p][o] = "over"]
<1>0. /\ SlotsOf(o, held[o], queue[o], cand) /\ held[o] - 1 \in Nat /\ queue[o] \in Seq(Pieces)
      /\ held \in [Origins -> Nat] /\ queue \in [Origins -> Seq(Pieces)]
      /\ held = [held EXCEPT ![o] = held[o]] /\ queue = [queue EXCEPT ![o] = queue[o]]
      /\ cand \in [Pieces -> [Origins -> States]]
  BY SlotFacts DEF LimiterOK
<1>1. /\ c \in [Pieces -> [Origins -> States]]
      /\ \A x \in Pieces, y \in Origins : c[x][y] = IF x = p /\ y = o THEN "over" ELSE cand[x][y]
  BY <1>0, SetSource, StateNames
<1>2. CASE /\ queue[o] = <<>> /\ held' = [held EXCEPT ![o] = @ - 1] /\ cand' = c
           /\ UNCHANGED queue
  <2>1. Differs(o, cand, cand', p, "over") => SlotsOf(o, held[o] - 1, <<>>, cand')
    BY <1>0, <1>2, SlotsFreed
  <2>2. held' = [held EXCEPT ![o] = held[o] - 1] /\ queue' = [queue EXCEPT ![o] = queue[o]]
    BY <1>0, <1>2
  <2>3. LimiterOK'
    <3>. DEFINE h == held[o] - 1
                q == queue[o]
                v == "over"
    <3>1. /\ h \in Nat /\ q \in Seq(Pieces) /\ v \in States
          /\ cand' = [cand EXCEPT ![p][o] = v]
          /\ held' = [held EXCEPT ![o] = h] /\ queue' = [queue EXCEPT ![o] = q]
          /\ Differs(o, cand, cand', p, v) => SlotsOf(o, h, q, cand')
      BY <1>0, <1>2, <2>1, <2>2, StateNames
    <3>. HIDE DEF h, q, v
    <3>. QED  BY <3>1, OneSourceMoves
  <2>. QED  BY <1>1, <1>2, <2>3
<1>3. CASE /\ queue[o] # <<>> /\ cand' = [c EXCEPT ![Head(queue[o])][o] = "opening"]
           /\ queue' = [queue EXCEPT ![o] = Tail(@)] /\ UNCHANGED held
  <2>. DEFINE n == Head(queue[o])
  <2>1. n \in Pieces /\ cand[n][o] = "queued"
    <3>1. n \in InQueue(o, cand)
      BY <1>0, <1>3, QueueTail DEF SlotsOf
    <3>. QED  BY <3>1 DEF InQueue
  <2>2. cand' = [c EXCEPT ![n][o] = "opening"] /\ Tail(queue[o]) \in Seq(Pieces)
    BY <1>0, <1>3, HeadTailProperties
  <2>. HIDE DEF c
  <2>3. /\ cand' \in [Pieces -> [Origins -> States]]
        /\ \A x \in Pieces, y \in Origins :
              cand'[x][y] = IF x = n /\ y = o THEN "opening" ELSE c[x][y]
    <3>. HIDE DEF n
    <3>. QED  BY <1>1, <2>1, <2>2, SetSource, StateNames
  <2>4. SlotsOf(o, held[o], Tail(queue[o]), cand')
    <3>1. \A x \in Pieces : cand'[x][o] = IF x = n THEN "opening"
                                          ELSE IF x = p THEN "over" ELSE cand[x][o]
      BY <1>1, <2>3
    <3>. DEFINE h == held[o]
                q == queue[o]
                d == cand'
    <3>2. n = Head(q) /\ q # <<>> /\ SlotsOf(o, h, q, cand)
      BY <1>0, <1>3
    <3>3. \A x \in Pieces : d[x][o] = IF x = n THEN "opening"
                                      ELSE IF x = p THEN "over" ELSE cand[x][o]
      BY <3>1
    <3>4. n \in Pieces /\ cand[p][o] \in Holding
      BY <2>1
    <3>. HIDE DEF n, h, q, d
    <3>5. SlotsOf(o, h, Tail(q), d)
      BY <3>2, <3>3, <3>4, SlotsHandedOver
    <3>. QED  BY <3>5 DEF h, q, d
  <2>5. ASSUME NEW y \in Origins, y # o PROVE SlotsOf(y, held[y], queue[y], cand')
    <3>1. SlotsOf(y, held[y], queue[y], cand)
      BY DEF LimiterOK
    <3>2. \A x \in Pieces : cand'[x][y] = cand[x][y]
      BY <1>1, <2>3, <2>5
    <3>. QED  BY <3>1, <3>2, SlotsStay
  <2>6. /\ queue' \in [Origins -> Seq(Pieces)] /\ held' = held
        /\ \A y \in Origins : queue'[y] = IF y = o THEN Tail(queue[o]) ELSE queue[y]
    BY <1>0, <1>3, <2>2
  <2>7. LimiterOK'
    BY <1>0, <2>3, <2>4, <2>5, <2>6 DEF LimiterOK
  <2>8. n # p
    BY <2>1, QueuedHoldNothing
  <2>. QED  BY <1>1, <2>1, <2>3, <2>7, <2>8
<1>. QED  BY <1>2, <1>3 DEF FreeSlot

(***************************************************************************)
(* The inductive invariant.  To the three properties it adds that a stream *)
(* has won its race (RaceOK) and that a job is held exactly while its      *)
(* piece is hashed (AttemptOf), so that finish() and cancel() release a    *)
(* worker that is leased.                                                  *)
(***************************************************************************)
Phases == {"new", "retrieve", "claim", "hash", "done", "failed"}

AttemptOf(f, j) ==
    /\ f \in {"new", "retrieve"} => j = "none"
    /\ f = "claim" => j \in {"waiting", "begin"}
    /\ f = "hash" <=> j = "job"

AttemptsOK ==
    /\ phase \in [Pieces -> Phases]
    /\ \A p \in Pieces : AttemptOf(phase[p], job[p])

RestOK ==
    /\ streak \in [Origins -> 0 .. StallTrip - 1] /\ cooling \in [Origins -> BOOLEAN]
    /\ hung \subseteq Pieces

IInv == LimiterOK /\ RaceOK /\ PoolOK /\ AttemptsOK /\ RestOK

LEMMA InvImplied == IInv => TypeOK /\ SlotsConserved /\ WorkersConserved
<1>. SUFFICES ASSUME IInv PROVE TypeOK /\ SlotsConserved /\ WorkersConserved
  OBVIOUS
<1>1. \A o \in Origins :
         /\ held[o] = Cardinality(Holders(o, cand)) /\ held[o] <= Cap /\ held[o] \in Nat
         /\ queue[o] # <<>> => held[o] = Cap
         /\ IsInjective(queue[o]) /\ ToSet(queue[o]) = InQueue(o, cand)
  BY DEF IInv, LimiterOK, SlotsOf, IsQueue
<1>2. SlotsConserved
  <2>1. ASSUME NEW p \in Pieces, race[p] # "racing" PROVE Silent(p) = {}
    BY <2>1 DEF IInv, RaceOK, RaceOf, Silent
  <2>. QED  BY <1>1, <2>1 DEF SlotsConserved, Holders, InQueue
<1>3. held \in [Origins -> 0 .. Cap]
  BY <1>1 DEF IInv, LimiterOK
<1>4. idle \in 0 .. PoolSize /\ live \in 0 .. PoolSize
  BY LeasedAreFinite DEF IInv, PoolOK, WorkersConserved
<1>5. TypeOK
  BY <1>3, <1>4 DEF IInv, LimiterOK, RaceOK, PoolOK, AttemptsOK, RestOK, TypeOK, Phases,
     States
<1>. QED  BY <1>2, <1>5 DEF IInv, PoolOK

LEMMA InitInv == Init => IInv
<1>. SUFFICES ASSUME Init PROVE IInv
  OBVIOUS
<1>1. <<>> \in Seq(Pieces) /\ Len(<<>>) = 0 /\ ToSet(<<>>) = {} /\ IsQueue(<<>>)
  <2>1. <<>> \in Seq(Pieces) /\ Len(<<>>) = 0
    BY EmptySeq
  <2>. DEFINE e == <<>>
  <2>2. e \in Seq(Pieces) /\ Len(e) = 0 /\ e = <<>>
    BY <2>1
  <2>. HIDE DEF e
  <2>3. DOMAIN e = 1 .. 0 /\ ToSet(e) = {}
    BY <2>2, QueueFacts
  <2>4. IsInjective(e)
    BY <2>3 DEF IsInjective
  <2>. QED  BY <2>1, <2>3, <2>4 DEF IsQueue, e
<1>2. ASSUME NEW o \in Origins PROVE SlotsOf(o, held[o], queue[o], cand)
  <2>1. \A p \in Pieces : cand[p][o] = "none"
    BY DEF Init
  <2>2. Holders(o, cand) = {} /\ InQueue(o, cand) = {}
    BY <2>1, QueuedHoldNothing DEF Holders, InQueue
  <2>3. queue[o] = <<>> /\ held[o] = 0 /\ 0 <= Cap
    BY DEF Init
  <2>4. SlotsOf(o, 0, <<>>, cand)
    BY <1>1, <2>2, <2>3, FS_EmptySet DEF SlotsOf
  <2>. QED  BY <2>3, <2>4
<1>3. LimiterOK
  BY <1>1, <1>2, StateNames DEF Init, LimiterOK
<1>4. RaceOK
  BY DEF Init, RaceOK, RaceOf, StreamOf
<1>5. PoolOK
  <2>1. Leased = {} /\ {p \in Pieces : job[p] = "waiting"} = {}
    BY DEF Init, Leased
  <2>. QED  BY <1>1, <2>1, FS_EmptySet DEF Init, PoolOK, WorkersConserved, IsQueue
<1>6. AttemptsOK /\ RestOK
  BY DEF Init, AttemptsOK, AttemptOf, RestOK, Phases
<1>. QED  BY <1>3, <1>4, <1>5, <1>6 DEF IInv

LEMMA LimiterStays == ASSUME LimiterOK, UNCHANGED <<cand, held, queue>> PROVE LimiterOK'
BY DEF LimiterOK, SlotsOf, Holders, InQueue

LEMMA RaceStays == ASSUME RaceOK, UNCHANGED <<race, cand>> PROVE RaceOK'
BY DEF RaceOK

LEMMA PoolStays == ASSUME PoolOK, UNCHANGED <<job, idle, live, waiters>> PROVE PoolOK'
BY DEF PoolOK, WorkersConserved, Leased

\* p goes to phase f, and its job to g; the others' jobs stay, or are begun.
LEMMA AttemptMoves ==
    ASSUME IInv, NEW p \in Pieces, NEW f \in Phases, PoolOK',
           phase' = [phase EXCEPT ![p] = f], AttemptOf(f, job'[p]),
           \A x \in Pieces : x # p =>
              job'[x] = job[x] \/ (job[x] = "waiting" /\ job'[x] = "begin")
    PROVE  AttemptsOK'
<1>1. /\ phase' \in [Pieces -> Phases]
      /\ \A x \in Pieces : phase'[x] = IF x = p THEN f ELSE phase[x]
  BY DEF IInv, AttemptsOK
<1>2. ASSUME NEW x \in Pieces PROVE AttemptOf(phase'[x], job'[x])
  BY <1>1 DEF IInv, AttemptsOK, AttemptOf
<1>. QED  BY <1>1, <1>2 DEF AttemptsOK

LEMMA FailKeeps ==
    ASSUME IInv, NEW p \in Pieces, Fail(p)
    PROVE  LimiterOK' /\ RaceOK' /\ PoolOK' /\ AttemptsOK' /\ hung' = hung
<1>1. /\ phase[p] \in {"retrieve", "claim", "hash"} /\ CloseSource(p)
      /\ phase' = [phase EXCEPT ![p] = "failed"] /\ hung' = hung
  BY DEF Fail
<1>2. LimiterOK' /\ RaceOK'
  BY <1>1, CloseKeepsSources DEF IInv
<1>3. CASE job[p] = "job"
  <2>1. PoolOK' /\ Released(p)
    BY <1>3, ReleaseKeepsPool DEF IInv, Fail, Leased
  <2>2. AttemptOf("failed", job'[p])
    BY <2>1 DEF Released, AttemptOf
  <2>3. AttemptsOK'
    BY <1>1, <2>1, <2>2, AttemptMoves DEF Released, Phases
  <2>. QED  BY <1>1, <1>2, <2>1, <2>3
<1>4. CASE job[p] # "job"
  <2>1. PoolOK' /\ job' = job
    BY <1>4, PoolStays DEF IInv, Fail, poolVars
  <2>2. AttemptOf("failed", job'[p])
    BY <1>4, <2>1 DEF AttemptOf
  <2>3. AttemptsOK'
    BY <1>1, <2>1, <2>2, AttemptMoves DEF Phases
  <2>. QED  BY <1>1, <1>2, <2>1, <2>3
<1>. QED  BY <1>3, <1>4

\* A step of the retrieval leaves attempts and workers alone.
LEMMA RetrievalKeeps ==
    ASSUME IInv, LimiterOK', RaceOK', RestOK', UNCHANGED <<phase, poolVars>>
    PROVE  IInv'
<1>1. PoolOK'
  BY PoolStays DEF IInv, poolVars
<1>2. AttemptsOK'
  BY DEF IInv, AttemptsOK, poolVars
<1>. QED  BY <1>1, <1>2 DEF IInv

LEMMA BreakersStay == ASSUME RestOK, UNCHANGED <<breakerVars, hung>> PROVE RestOK'
BY DEF RestOK, breakerVars

LEMMA StartNextStep ==
    ASSUME IInv, NEW p \in Pieces, StartNext(p)
    PROVE  IInv'
<1>1. /\ race[p] = "racing" /\ race' = race
      /\ UNCHANGED <<phase, breakerVars, poolVars, hung>>
  BY DEF StartNext
<1>2. PICK i \in Unstarted(p) :
         \/ cand' = [cand EXCEPT ![p][Route[p][i]] = "over"] /\ UNCHANGED limiterVars
         \/ AcquireSlot(p, Route[p][i])
  BY DEF StartNext
<1>. DEFINE o == Route[p][i]
<1>3. o \in Origins /\ cand[p][o] = "none"
  <2>1. Route[p] \in Seq(Origins) /\ i \in DOMAIN Route[p]
    BY DEF Unstarted
  <2>. QED  BY <2>1, LenProperties, ElementOfSeq DEF Unstarted
<1>. HIDE DEF o
<1>4. LimiterOK' /\ \E v \in {"opening", "queued", "over"} : cand' = [cand EXCEPT ![p][o] = v]
  <2>1. CASE cand' = [cand EXCEPT ![p][o] = "over"] /\ UNCHANGED limiterVars
    <3>1. /\ cand' \in [Pieces -> [Origins -> States]]
          /\ \A x \in Pieces, y \in Origins :
                cand'[x][y] = IF x = p /\ y = o THEN "over" ELSE cand[x][y]
      BY <1>3, <2>1, SetSource, StateNames DEF IInv, LimiterOK
    <3>2. ASSUME NEW y \in Origins PROVE SlotsOf(y, held[y], queue[y], cand')
      <4>1. SlotsOf(y, held[y], queue[y], cand)
        BY DEF IInv, LimiterOK
      <4>2. \A x \in Pieces : \/ cand'[x][y] = cand[x][y]
                              \/ {cand[x][y], cand'[x][y]} \subseteq {"none", "over"}
        BY <1>3, <3>1
      <4>. QED  BY <4>1, <4>2, SlotsStay
    <3>. QED  BY <2>1, <3>1, <3>2 DEF IInv, LimiterOK, limiterVars
  <2>2. CASE AcquireSlot(p, o)
    BY <1>3, <2>2, AcquireKeepsSlots DEF IInv
  <2>. QED  BY <1>2, <2>1, <2>2 DEF o
<1>5. RaceOK'
  <2>1. PICK v \in {"opening", "queued", "over"} : cand' = [cand EXCEPT ![p][o] = v]
    BY <1>4
  <2>2. \A x \in Pieces, y \in Origins : cand'[x][y] = IF x = p /\ y = o THEN v ELSE cand[x][y]
    BY <1>3, <2>1, SetSource, StateNames DEF IInv, LimiterOK
  <2>3. ASSUME NEW x \in Pieces
        PROVE  RaceOf(x, race'[x], cand'[x]) /\ StreamOf(x, race'[x], cand'[x])
    BY <1>1, <2>2 DEF IInv, RaceOK, RaceOf, StreamOf
  <2>. QED  BY <1>1, <2>3 DEF IInv, RaceOK
<1>. QED  BY <1>1, <1>4, <1>5, BreakersStay, RetrievalKeeps DEF IInv

LEMMA FirstBlockStep ==
    ASSUME IInv, NEW p \in Pieces, NEW o \in Origins, FirstBlock(p, o)
    PROVE  IInv'
<1>1. /\ cand[p][o] = "opening" /\ cand' = [cand EXCEPT ![p][o] = "yielded"]
      /\ streak' = [streak EXCEPT ![o] = 0]
      /\ UNCHANGED <<phase, race, limiterVars, cooling, poolVars, hung>>
  BY DEF FirstBlock
<1>2. /\ cand' \in [Pieces -> [Origins -> States]]
      /\ \A x \in Pieces, y \in Origins :
            cand'[x][y] = IF x = p /\ y = o THEN "yielded" ELSE cand[x][y]
  BY <1>1, SetSource, StateNames DEF IInv, LimiterOK
<1>3. ASSUME NEW y \in Origins PROVE SlotsOf(y, held[y], queue[y], cand')
  <2>1. SlotsOf(y, held[y], queue[y], cand)
    BY DEF IInv, LimiterOK
  <2>2. \A x \in Pieces : \/ cand'[x][y] = cand[x][y]
                          \/ cand[x][y] \in Holding /\ cand'[x][y] \in Holding
    BY <1>1, <1>2, QueuedHoldNothing
  <2>. QED  BY <2>1, <2>2, SlotsStay
<1>4. LimiterOK'
  BY <1>1, <1>2, <1>3 DEF IInv, LimiterOK, limiterVars
<1>5. RaceOK'
  <2>1. ASSUME NEW x \in Pieces
        PROVE  RaceOf(x, race'[x], cand'[x]) /\ StreamOf(x, race'[x], cand'[x])
    BY <1>1, <1>2 DEF IInv, RaceOK, RaceOf, StreamOf
  <2>. QED  BY <1>1, <2>1 DEF IInv, RaceOK
<1>6. RestOK'
  BY <1>1 DEF IInv, RestOK
<1>. QED  BY <1>1, <1>4, <1>5, <1>6, RetrievalKeeps

LEMMA SourceOverStep ==
    ASSUME IInv, NEW p \in Pieces, NEW o \in Origins, SourceOver(p, o)
    PROVE  IInv'
<1>1. /\ cand[p][o] \in Holding /\ FreeSlot(o, [cand EXCEPT ![p][o] = "over"])
      /\ UNCHANGED <<phase, race, breakerVars, poolVars, hung>>
  BY QueuedHoldNothing DEF SourceOver
<1>2. /\ LimiterOK'
      /\ \A x \in Pieces, y \in Origins :
            \/ cand'[x][y] = cand[x][y]
            \/ x = p /\ y = o /\ cand'[x][y] = "over"
            \/ cand[x][y] = "queued" /\ cand'[x][y] = "opening"
  BY <1>1, FreeKeepsSources DEF IInv
<1>3. RaceOK'
  <2>1. ASSUME NEW x \in Pieces
        PROVE  RaceOf(x, race'[x], cand'[x]) /\ StreamOf(x, race'[x], cand'[x])
    BY <1>1, <1>2 DEF IInv, RaceOK, RaceOf, StreamOf
  <2>. QED  BY <1>1, <2>1 DEF IInv, RaceOK
<1>. QED  BY <1>1, <1>2, <1>3, BreakersStay, RetrievalKeeps DEF IInv

LEMMA StreamEndsStep ==
    ASSUME IInv, NEW p \in Pieces, NEW o \in Origins, StreamEnds(p, o)
    PROVE  IInv'
<1>1. /\ cand[p][o] = "streaming" /\ cand[p][o] \in Holding
      /\ FreeSlot(o, [cand EXCEPT ![p][o] = "over"])
      /\ race' = [race EXCEPT ![p] = "over"]
      /\ UNCHANGED <<phase, breakerVars, poolVars, hung>>
  BY QueuedHoldNothing DEF StreamEnds
<1>2. /\ LimiterOK'
      /\ \A x \in Pieces, y \in Origins :
            \/ cand'[x][y] = cand[x][y]
            \/ x = p /\ y = o /\ cand'[x][y] = "over"
            \/ cand[x][y] = "queued" /\ cand'[x][y] = "opening"
  BY <1>1, FreeKeepsSources DEF IInv
<1>3. RaceOK'
  <2>1. race' \in [Pieces -> {"racing", "won", "over"}]
        /\ \A x \in Pieces : race'[x] = IF x = p THEN "over" ELSE race[x]
    BY <1>1 DEF IInv, RaceOK
  <2>2. race[p] # "racing"
    BY <1>1 DEF IInv, RaceOK, StreamOf
  <2>3. ASSUME NEW x \in Pieces
        PROVE  RaceOf(x, race'[x], cand'[x]) /\ StreamOf(x, race'[x], cand'[x])
    BY <1>2, <2>1, <2>2 DEF IInv, RaceOK, RaceOf, StreamOf
  <2>. QED  BY <2>1, <2>3 DEF RaceOK
<1>. QED  BY <1>1, <1>2, <1>3, BreakersStay, RetrievalKeeps DEF IInv

LEMMA RaceLostStep ==
    ASSUME IInv, NEW p \in Pieces, RaceLost(p)
    PROVE  IInv'
<1>1. /\ Silent(p) = {} /\ race' = [race EXCEPT ![p] = "over"]
      /\ UNCHANGED <<phase, cand, limiterVars, breakerVars, poolVars, hung>>
  BY DEF RaceLost
<1>2. RaceOK'
  <2>1. race' \in [Pieces -> {"racing", "won", "over"}]
        /\ \A x \in Pieces : race'[x] = IF x = p THEN "over" ELSE race[x]
    BY <1>1 DEF IInv, RaceOK
  <2>2. ASSUME NEW x \in Pieces
        PROVE  RaceOf(x, race'[x], cand'[x]) /\ StreamOf(x, race'[x], cand'[x])
    BY <1>1, <2>1 DEF IInv, RaceOK, RaceOf, StreamOf, Silent
  <2>. QED  BY <2>1, <2>2 DEF RaceOK
<1>3. LimiterOK'
  BY <1>1, LimiterStays DEF IInv, limiterVars
<1>. QED  BY <1>1, <1>2, <1>3, BreakersStay, RetrievalKeeps DEF IInv

LEMMA StallStep ==
    ASSUME IInv, NEW p \in Pieces, Stall(p)
    PROVE  IInv'
<1>1. LimiterOK' /\ RaceOK' /\ PoolOK' /\ AttemptsOK' /\ hung' = hung
  BY FailKeeps DEF Stall
<1>2. RestOK'
  <2>1. CASE UNCHANGED breakerVars
    BY <1>1, <2>1, BreakersStay DEF IInv
  <2>2. ASSUME NEW o \in Origins,
               streak' = [streak EXCEPT ![o] = (@ + 1) % StallTrip],
               cooling' = [cooling EXCEPT ![o] = @ \/ streak[o] + 1 = StallTrip]
        PROVE  RestOK'
    <3>1. streak[o] \in 0 .. StallTrip - 1 /\ streak[o] + 1 \in Nat
      BY DEF IInv, RestOK
    <3>2. (streak[o] + 1) % StallTrip \in 0 .. StallTrip - 1
      BY <3>1
    <3>3. streak' \in [Origins -> 0 .. StallTrip - 1]
      BY <2>2, <3>2 DEF IInv, RestOK
    <3>4. cooling' \in [Origins -> BOOLEAN]
      <4>. DEFINE b == cooling[o] \/ streak[o] + 1 = StallTrip
      <4>1. cooling' = [cooling EXCEPT ![o] = b] /\ b \in BOOLEAN
        BY <2>2
      <4>. HIDE DEF b
      <4>. QED  BY <4>1 DEF IInv, RestOK
    <3>. QED  BY <1>1, <3>3, <3>4 DEF IInv, RestOK
  <2>. QED  BY <2>1, <2>2 DEF Stall
<1>. QED  BY <1>1, <1>2 DEF IInv

\* A step of a claim or a worker of p, the sources left alone.
LEMMA WorkerKeeps ==
    ASSUME IInv, PoolOK', AttemptsOK', UNCHANGED <<race, cand, limiterVars, breakerVars, hung>>
    PROVE  IInv'
<1>1. LimiterOK' /\ RaceOK'
  BY LimiterStays, RaceStays DEF IInv, limiterVars
<1>. QED  BY <1>1, BreakersStay DEF IInv

LEMMA StartStep ==
    ASSUME IInv, NEW p \in Pieces, Start(p)
    PROVE  IInv'
<1>1. /\ phase[p] = "new" /\ phase' = [phase EXCEPT ![p] = "retrieve"]
      /\ UNCHANGED <<race, cand, limiterVars, breakerVars, poolVars, hung>>
  BY DEF Start
<1>2. PoolOK' /\ job' = job
  BY <1>1, PoolStays DEF IInv, poolVars
<1>3. AttemptOf("retrieve", job'[p])
  BY <1>1, <1>2 DEF IInv, AttemptsOK, AttemptOf
<1>4. AttemptsOK'
  BY <1>1, <1>2, <1>3, AttemptMoves DEF Phases
<1>. QED  BY <1>1, <1>2, <1>4, WorkerKeeps

LEMMA ClaimStep ==
    ASSUME IInv, NEW p \in Pieces, ClaimWorker(p)
    PROVE  IInv'
<1>1. /\ phase[p] = "retrieve" /\ phase' = [phase EXCEPT ![p] = "claim"] /\ Acquire(p)
      /\ UNCHANGED <<race, cand, limiterVars, breakerVars, hung>>
  BY DEF ClaimWorker
<1>2. job[p] = "none"
  BY <1>1 DEF IInv, AttemptsOK, AttemptOf
<1>3. /\ PoolOK' /\ job'[p] \in {"waiting", "begin"}
      /\ \A x \in Pieces : x # p => job'[x] = job[x]
  BY <1>1, <1>2, AcquireKeepsPool DEF IInv
<1>4. AttemptOf("claim", job'[p])
  BY <1>3 DEF AttemptOf
<1>5. AttemptsOK'
  BY <1>1, <1>3, <1>4, AttemptMoves DEF Phases
<1>. QED  BY <1>1, <1>3, <1>5, WorkerKeeps

\* A released worker leaves its piece in a phase in which it holds no job.
LEMMA ReleaseKeepsAttempts ==
    ASSUME IInv, NEW p \in Pieces, NEW f \in {"done", "failed"}, PoolOK', Released(p),
           (phase' = phase /\ phase[p] = f) \/ phase' = [phase EXCEPT ![p] = f]
    PROVE  AttemptsOK'
<1>1. phase' = [phase EXCEPT ![p] = f] /\ f \in Phases
  BY DEF IInv, AttemptsOK, Phases
<1>2. AttemptOf(f, job'[p])
  BY DEF Released, AttemptOf
<1>. QED  BY <1>1, <1>2, AttemptMoves DEF Released

LEMMA ReadyStep ==
    ASSUME IInv, NEW p \in Pieces, Ready(p)
    PROVE  IInv'
<1>0. /\ job[p] = "begin" /\ p \in Leased
      /\ UNCHANGED <<race, cand, limiterVars, breakerVars, hung>>
  BY DEF Ready, Leased
<1>1. CASE phase[p] = "claim"
  <2>1. /\ phase' = [phase EXCEPT ![p] = "hash"] /\ job' = [job EXCEPT ![p] = "job"]
        /\ UNCHANGED <<idle, live, waiters>>
    BY <1>1 DEF Ready
  <2>2. PoolOK'
    BY <1>0, <2>1, ReadyKeepsPool DEF IInv
  <2>3. job'[p] = "job" /\ \A x \in Pieces : x # p => job'[x] = job[x]
    BY <2>1 DEF IInv, PoolOK
  <2>4. AttemptOf("hash", job'[p])
    BY <2>3 DEF AttemptOf
  <2>5. AttemptsOK'
    BY <2>1, <2>2, <2>3, <2>4, AttemptMoves DEF Phases
  <2>. QED  BY <1>0, <2>2, <2>5, WorkerKeeps
<1>2. CASE phase[p] # "claim"
  <2>1. ReleaseBroken(p) /\ phase' = phase
    BY <1>2 DEF Ready
  <2>2. PoolOK' /\ Released(p)
    BY <1>0, <2>1, ReleaseKeepsPool DEF IInv
  <2>3. phase[p] \in {"done", "failed"}
    BY <1>0, <1>2 DEF IInv, AttemptsOK, AttemptOf, Phases
  <2>4. AttemptsOK'
    BY <2>1, <2>2, <2>3, ReleaseKeepsAttempts
  <2>. QED  BY <1>0, <2>2, <2>4, WorkerKeeps
<1>. QED  BY <1>1, <1>2

LEMMA BeginFailsStep ==
    ASSUME IInv, NEW p \in Pieces, BeginFails(p)
    PROVE  IInv'
<1>0. /\ job[p] = "begin" /\ p \in Leased /\ ReleaseBroken(p)
      /\ UNCHANGED <<breakerVars, hung>>
  BY DEF BeginFails, Leased
<1>1. PoolOK' /\ Released(p)
  BY <1>0, ReleaseKeepsPool DEF IInv
<1>2. CASE Settled(p)
  <2>1. UNCHANGED <<phase, race, cand, limiterVars>> /\ phase[p] \in {"done", "failed"}
    BY <1>2 DEF BeginFails, Settled
  <2>2. AttemptsOK'
    BY <1>1, <2>1, ReleaseKeepsAttempts
  <2>. QED  BY <1>0, <1>1, <2>1, <2>2, WorkerKeeps
<1>3. CASE ~ Settled(p)
  <2>1. phase' = [phase EXCEPT ![p] = "failed"] /\ CloseSource(p)
    BY <1>3 DEF BeginFails
  <2>2. LimiterOK' /\ RaceOK'
    BY <2>1, CloseKeepsSources DEF IInv
  <2>3. AttemptsOK'
    BY <1>1, <2>1, ReleaseKeepsAttempts
  <2>. QED  BY <1>0, <1>1, <2>2, <2>3, BreakersStay DEF IInv
<1>. QED  BY <1>2, <1>3

LEMMA FinishStep ==
    ASSUME IInv, NEW p \in Pieces, Finish(p)
    PROVE  IInv'
<1>0. /\ phase[p] = "hash" /\ phase' = [phase EXCEPT ![p] = "done"]
      /\ ReleaseWorker(p) /\ CloseSource(p)
      /\ UNCHANGED <<breakerVars, hung>>
  BY DEF Finish
<1>1. p \in Leased
  BY <1>0 DEF IInv, AttemptsOK, AttemptOf, Leased
<1>2. PoolOK' /\ Released(p)
  BY <1>0, <1>1, ReleaseKeepsPool DEF IInv
<1>3. LimiterOK' /\ RaceOK'
  BY <1>0, CloseKeepsSources DEF IInv
<1>4. AttemptsOK'
  BY <1>0, <1>2, ReleaseKeepsAttempts
<1>. QED  BY <1>0, <1>2, <1>3, <1>4, BreakersStay DEF IInv

LEMMA StepInv == IInv /\ [Next]_vars => IInv'
<1>. SUFFICES ASSUME IInv, [Next]_vars PROVE IInv'
  OBVIOUS
<1>1. ASSUME NEW p \in Pieces,
             Start(p) \/ StartNext(p) \/ RaceLost(p) \/ ClaimWorker(p)
      PROVE  IInv'
  BY <1>1, StartStep, StartNextStep, RaceLostStep, ClaimStep
<1>2. ASSUME NEW p \in Pieces, Worker(p) PROVE IInv'
  BY <1>2, ReadyStep, BeginFailsStep, FinishStep DEF Worker
<1>3. ASSUME NEW p \in Pieces, NEW o \in Origins, Network(p, o) \/ StreamEnds(p, o) PROVE IInv'
  BY <1>3, FirstBlockStep, SourceOverStep, StreamEndsStep DEF Network
<1>4. ASSUME NEW p \in Pieces, NEW o \in Origins, Win(p, o) PROVE IInv'
  <2>1. LimiterOK' /\ RaceOK'
    BY <1>4, WinKeepsSources DEF IInv
  <2>2. UNCHANGED <<phase, held, breakerVars, poolVars, hung>>
    BY <1>4 DEF Win
  <2>. QED  BY <2>1, <2>2, BreakersStay, RetrievalKeeps DEF IInv
<1>5. ASSUME NEW p \in Pieces, Break(p) PROVE IInv'
  BY <1>5, FailKeeps, BreakersStay DEF Break, IInv
<1>6. ASSUME NEW p \in Pieces, Stall(p) PROVE IInv'
  BY <1>6, StallStep
<1>7. ASSUME NEW p \in Pieces, Hang(p) PROVE IInv'
  <2>1. /\ hung' = hung \cup {p}
        /\ UNCHANGED <<phase, race, cand, limiterVars, breakerVars, poolVars>>
    BY <1>7 DEF Hang
  <2>2. RestOK'
    BY <2>1 DEF IInv, RestOK, breakerVars
  <2>3. LimiterOK' /\ RaceOK'
    BY <2>1, LimiterStays, RaceStays DEF IInv, limiterVars
  <2>. QED  BY <2>1, <2>2, <2>3, RetrievalKeeps
<1>8. ASSUME NEW o \in Origins, CoolDown(o) PROVE IInv'
  <2>1. /\ cooling' = [cooling EXCEPT ![o] = FALSE]
        /\ UNCHANGED <<phase, race, cand, limiterVars, streak, poolVars, hung>>
    BY <1>8 DEF CoolDown
  <2>2. RestOK'
    BY <2>1 DEF IInv, RestOK
  <2>3. LimiterOK' /\ RaceOK'
    BY <2>1, LimiterStays, RaceStays DEF IInv, limiterVars
  <2>. QED  BY <2>1, <2>2, <2>3, RetrievalKeeps
<1>9. CASE UNCHANGED vars
  <2>1. /\ UNCHANGED <<phase, race, cand, breakerVars, hung>>
        /\ UNCHANGED <<limiterVars, poolVars>>
    BY <1>9 DEF vars
  <2>2. LimiterOK' /\ RaceOK' /\ RestOK'
    BY <2>1, LimiterStays, RaceStays, BreakersStay DEF IInv, limiterVars
  <2>. QED  BY <2>1, <2>2, RetrievalKeeps
<1>. QED  BY <1>1, <1>2, <1>3, <1>4, <1>5, <1>6, <1>7, <1>8, <1>9 DEF Next, RaceStep

\* Every variable of the shared parts keeps its type, for any pieces, origins, routes,
\* caps and pool sizes.
THEOREM TypeCorrect == Spec => []TypeOK
<1>. QED  BY InitInv, StepInv, InvImplied, PTL DEF Spec

\* The slots of every origin are conserved (origin-limiter.ts:73), through hand-overs,
\* aborted waits, lost races and teardowns in any order.
THEOREM SlotsKept == Spec => []SlotsConserved
<1>. QED  BY InitInv, StepInv, InvImplied, PTL DEF Spec

\* liveWorkers is the number of workers there are (hash-pool.ts:82), through breakage,
\* replacement, claims that outlive their piece, and workers that never answer.
THEOREM WorkersKept == Spec => []WorkersConserved
<1>. QED  BY InitInv, StepInv, InvImplied, PTL DEF Spec

--------------------------------------------------------------------------------
(***************************************************************************)
(* The prepare run (PrepareRun).  Its row states and its attempts are kept *)
(* apart; the invariant says they agree on who is at work.                 *)
(***************************************************************************)
WInv == RunTypeOK /\ WorkingRowsAreWorkedOn

\* A row is working when the store says so.
LEMMA WorkedOn ==
    WorkingRowsAreWorkedOn <=>
        \A c \in Cids : rowLive[c] = "working" => \E a \in attempts : a.cid = c
BY DEF WorkingRowsAreWorkedOn, Row

LEMMA WInit == RunInit => WInv
<1> SUFFICES ASSUME RunInit PROVE WInv
  OBVIOUS
<1>1. RunTypeOK
  <2>1. {running, capped, dirty, timer, hydrated, ran} \subseteq BOOLEAN
    BY DEF RunInit
  <2>2. saved \in Runs /\ saved.gaps \subseteq saved.results
    BY DEF RunInit, NoRun, Runs
  <2>3. 0 \in 0 .. MaxAttempts /\ 0 \in 0 .. MaxReloads
    BY RunAssumption
  <2>4. /\ rowLive \in [Cids -> {"none", "working", "error"}]
        /\ controllers \in [Cids -> 0 .. MaxAttempts]
    BY <2>3 DEF RunInit, None
  <2> QED BY <2>1, <2>2, <2>3, <2>4 DEF RunInit, RunTypeOK
<1>2. WorkingRowsAreWorkedOn
  BY DEF RunInit, None, WorkingRowsAreWorkedOn, Row
<1> QED BY <1>1, <1>2 DEF WInv

\* The store's own operations keep its types; only MarkWorking makes a row working.
LEMMA MarksAre ==
    ASSUME RunTypeOK, NEW c \in Cids,
           MarkWorking(c) \/ MarkError(c) \/ \E gap \in BOOLEAN : MarkDone(c, gap)
    PROVE  /\ cids' \subseteq Cids /\ gaps' \subseteq results' /\ results' \subseteq Cids
           /\ rowLive' \in [Cids -> {"none", "working", "error"}]
           /\ errorCids' \subseteq Cids /\ workingCids' \subseteq Cids /\ doneCount' \in Nat
           /\ \A d \in Cids : rowLive'[d] = "working" => rowLive[d] = "working" \/ d = c
           /\ rowLive'[c] = "working" => MarkWorking(c)
<1>1. CASE MarkWorking(c)
  BY <1>1 DEF MarkWorking, RunTypeOK
<1>2. CASE MarkError(c)
  BY <1>2 DEF MarkError, RunTypeOK
<1>3. ASSUME NEW gap \in BOOLEAN, MarkDone(c, gap)
      PROVE  /\ cids' \subseteq Cids /\ gaps' \subseteq results' /\ results' \subseteq Cids
             /\ rowLive' \in [Cids -> {"none", "working", "error"}]
             /\ errorCids' \subseteq Cids /\ workingCids' \subseteq Cids /\ doneCount' \in Nat
             /\ \A d \in Cids : rowLive'[d] = "working" => rowLive[d] = "working" /\ d # c
  BY <1>3 DEF MarkDone, RunTypeOK
<1> QED BY <1>1, <1>2, <1>3

\* A new list of rows has no row at work.
LEMMA SetCidsIs ==
    ASSUME NEW next \in SUBSET Cids, NEW r \in SUBSET Cids, NEW g \in SUBSET r,
           SetCids(next, r, g)
    PROVE  /\ cids' \subseteq Cids /\ gaps' \subseteq results' /\ results' \subseteq Cids
           /\ rowLive' \in [Cids -> {"none", "working", "error"}]
           /\ errorCids' \subseteq Cids /\ workingCids' \subseteq Cids /\ doneCount' \in Nat
           /\ \A d \in Cids : rowLive'[d] = "none"
<1>1. IsFiniteSet(r \cap next)
  BY RunAssumption, FS_Subset
<1>2. Cardinality(r \cap next) \in Nat
  BY <1>1, FS_CardinalityType
<1> QED BY <1>2 DEF SetCids

LEMMA PersistIs ==
    ASSUME RunTypeOK, NEW t \in SUBSET Cids, NEW r \in SUBSET Cids, NEW g \in SUBSET r,
           Persist(t, r, g)
    PROVE  saved' \in Runs /\ saved'.gaps \subseteq saved'.results
BY DEF Persist, RunTypeOK, Runs

\* An attempt at a row is made.
LEMMA StartAttemptIs ==
    ASSUME WInv, NEW c \in Cids, NEW pooled \in BOOLEAN, StartAttempt(c, pooled)
    PROVE  /\ attempts' \subseteq Attempts /\ made' \in 0 .. MaxAttempts
           /\ controllers' \in [Cids -> 0 .. MaxAttempts]
           /\ WorkingRowsAreWorkedOn'
<1>1. /\ made < MaxAttempts /\ made' = made + 1 /\ made \in 0 .. MaxAttempts
      /\ attempts' = attempts \cup {[id |-> made + 1, cid |-> c, pool |-> pooled,
                                     aborted |-> FALSE]}
      /\ controllers' = [controllers EXCEPT ![c] = made + 1]
      /\ MarkWorking(c)
  BY DEF StartAttempt, WInv, RunTypeOK
<1>2. made + 1 \in 1 .. MaxAttempts /\ made + 1 \in 0 .. MaxAttempts
  BY <1>1, RunAssumption
<1> DEFINE new == [id |-> made + 1, cid |-> c, pool |-> pooled, aborted |-> FALSE]
<1>a. new \in Attempts /\ new.cid = c
  BY <1>2 DEF Attempts
<1> HIDE DEF new
<1>3. /\ attempts' \subseteq Attempts /\ made' \in 0 .. MaxAttempts
      /\ controllers' \in [Cids -> 0 .. MaxAttempts]
  <2>1. attempts' = attempts \cup {new}
    BY <1>1 DEF new
  <2>2. attempts \subseteq Attempts /\ controllers \in [Cids -> 0 .. MaxAttempts]
    BY DEF WInv, RunTypeOK
  <2> QED BY <1>1, <1>2, <1>a, <2>1, <2>2
<1>4. \A d \in Cids : rowLive'[d] = "working" => rowLive[d] = "working" \/ d = c
  BY <1>1, MarksAre DEF WInv
<1>5. \E a \in attempts' : a.cid = c
  BY <1>1, <1>a DEF new
<1>6. \A d \in Cids : rowLive'[d] = "working" => \E a \in attempts' : a.cid = d
  BY <1>1, <1>4, <1>5, WorkedOn DEF WInv
<1> QED BY <1>3, <1>6 DEF WorkingRowsAreWorkedOn, Row

\* An attempt ends, and its row with it: another at the same row goes on as before.
LEMMA AttemptEndsStep ==
    ASSUME WInv, NEW a \in attempts, AttemptEnds(a)
    PROVE  WInv'
<1>1. a \in Attempts /\ a.cid \in Cids
  BY DEF WInv, RunTypeOK, Attempts
<1>2. PICK c \in Cids : c = a.cid
  BY <1>1
<1>3. /\ attempts' = attempts \ {a} /\ controllers' = [controllers EXCEPT ![c] = 0]
      /\ UNCHANGED <<made, running, pool, capped, ran>>
  BY <1>2 DEF AttemptEnds, AttemptFails, AttemptDone, EndAttempt
<1>4. /\ UNCHANGED <<text, dirty, hydrated, saved, reloads>> /\ timer' \in BOOLEAN
  BY DEF AttemptEnds, AttemptFails, AttemptDone, diskVars, WInv, RunTypeOK
<1>5. /\ MarkError(c) \/ \E gap \in BOOLEAN : MarkDone(c, gap)
      /\ rowLive'[c] # "working"
  BY <1>2 DEF AttemptEnds, AttemptFails, AttemptDone, MarkError, MarkDone, WInv, RunTypeOK
<1>6. /\ cids' \subseteq Cids /\ gaps' \subseteq results' /\ results' \subseteq Cids
      /\ rowLive' \in [Cids -> {"none", "working", "error"}]
      /\ errorCids' \subseteq Cids /\ workingCids' \subseteq Cids /\ doneCount' \in Nat
      /\ \A d \in Cids : rowLive'[d] = "working" => rowLive[d] = "working" \/ d = c
  BY <1>5, MarksAre DEF WInv
<1>7. RunTypeOK'
  <2>1. 0 \in 0 .. MaxAttempts
    BY RunAssumption
  <2>2. controllers' \in [Cids -> 0 .. MaxAttempts]
    BY <1>3, <2>1 DEF WInv, RunTypeOK
  <2>3. Runs' = Runs /\ Attempts' = Attempts
    BY DEF Runs, Attempts
  <2> QED BY <1>3, <1>4, <1>6, <2>2, <2>3 DEF WInv, RunTypeOK
<1>8. \A d \in Cids : rowLive'[d] = "working" => \E b \in attempts' : b.cid = d
  BY <1>2, <1>3, <1>5, <1>6, WorkedOn DEF WInv
<1> QED BY <1>7, <1>8 DEF WInv, WorkingRowsAreWorkedOn, Row

LEMMA ProgressStep ==
    ASSUME WInv, NEW a \in attempts, Progress(a)
    PROVE  WInv'
<1>1. PICK c \in Cids : c = a.cid
  BY DEF WInv, RunTypeOK, Attempts
<1>2. /\ MarkWorking(c)
      /\ UNCHANGED <<attempts, made, controllers, running, pool, capped, ran>>
      /\ UNCHANGED <<text, dirty, timer, hydrated, saved, reloads>>
  BY <1>1 DEF Progress, runVars, diskVars
<1>3. /\ cids' \subseteq Cids /\ gaps' \subseteq results' /\ results' \subseteq Cids
      /\ rowLive' \in [Cids -> {"none", "working", "error"}]
      /\ errorCids' \subseteq Cids /\ workingCids' \subseteq Cids /\ doneCount' \in Nat
      /\ \A d \in Cids : rowLive'[d] = "working" => rowLive[d] = "working" \/ d = c
  BY <1>2, MarksAre DEF WInv
<1>4. RunTypeOK'
  BY <1>2, <1>3 DEF WInv, RunTypeOK
<1>5. \A d \in Cids : rowLive'[d] = "working" => \E b \in attempts' : b.cid = d
  BY <1>1, <1>2, <1>3, WorkedOn DEF WInv
<1> QED BY <1>4, <1>5 DEF WInv, WorkingRowsAreWorkedOn, Row

LEMMA CancelStep ==
    ASSUME WInv, NEW c \in Cids, Cancel(c)
    PROVE  WInv'
<1>1. PICK a \in attempts :
         attempts' = (attempts \ {a}) \cup {[a EXCEPT !.aborted = TRUE]}
  BY DEF Cancel
<1>2. UNCHANGED <<rowVars, made, controllers, running, pool, capped, ran, diskVars>>
  BY DEF Cancel
<1>3. [a EXCEPT !.aborted = TRUE] \in Attempts /\ [a EXCEPT !.aborted = TRUE].cid = a.cid
  BY DEF WInv, RunTypeOK, Attempts
<1>4. RunTypeOK'
  BY <1>1, <1>2, <1>3 DEF WInv, RunTypeOK, rowVars, diskVars
<1>5. \A d \in Cids : rowLive'[d] = "working" => \E b \in attempts' : b.cid = d
  BY <1>1, <1>2, <1>3, WorkedOn DEF WInv, rowVars
<1> QED BY <1>4, <1>5 DEF WInv, WorkingRowsAreWorkedOn, Row

\* An attempt of the retry button, or of a worker of the pool.
LEMMA RetryRowStep ==
    ASSUME WInv, NEW c \in Cids, RetryRow(c) \/ Take(c)
    PROVE  WInv'
<1>1. PICK pooled \in BOOLEAN : StartAttempt(c, pooled)
  BY DEF RetryRow, Take
<1>2. /\ UNCHANGED <<running, capped, ran, diskVars>>
      /\ pool' \subseteq Cids
  BY DEF RetryRow, Take, WInv, RunTypeOK
<1>3. /\ attempts' \subseteq Attempts /\ made' \in 0 .. MaxAttempts
      /\ controllers' \in [Cids -> 0 .. MaxAttempts]
      /\ WorkingRowsAreWorkedOn'
  BY <1>1, StartAttemptIs
<1>4. /\ cids' \subseteq Cids /\ gaps' \subseteq results' /\ results' \subseteq Cids
      /\ rowLive' \in [Cids -> {"none", "working", "error"}]
      /\ errorCids' \subseteq Cids /\ workingCids' \subseteq Cids /\ doneCount' \in Nat
  BY <1>1, MarksAre DEF StartAttempt, WInv
<1>5. RunTypeOK'
  BY <1>2, <1>3, <1>4 DEF WInv, RunTypeOK, diskVars
<1> QED BY <1>3, <1>5 DEF WInv

\* What leaves the rows and the attempts alone keeps the invariant.
LEMMA QuietStep ==
    ASSUME WInv, UNCHANGED <<rowLive, attempts>>, RunTypeOK'
    PROVE  WInv'
<1>1. \A d \in Cids : rowLive'[d] = "working" => \E b \in attempts' : b.cid = d
  BY WorkedOn DEF WInv
<1> QED BY <1>1 DEF WInv, WorkingRowsAreWorkedOn, Row

\* Saving, the read of the saved run, and the operator's edits.
LEMMA DiskStep ==
    ASSUME WInv,
           Restore \/ SaveCompletions \/ SaveEdit \/ \E t \in SUBSET Cids : Edit(t)
    PROVE  WInv'
<1>0. RunTypeOK /\ Runs' = Runs /\ Attempts' = Attempts
  BY DEF WInv, Runs, Attempts
<1>1. CASE SaveCompletions
  <2>1. saved' \in Runs /\ saved'.gaps \subseteq saved'.results
    BY <1>0, <1>1, PersistIs DEF SaveCompletions, RunTypeOK
  <2>2. RunTypeOK'
    BY <1>0, <1>1, <2>1 DEF SaveCompletions, RunTypeOK, rowVars, runVars
  <2> QED BY <1>1, <2>2, QuietStep DEF SaveCompletions, rowVars, runVars
<1>2. CASE SaveEdit
  <2>1. saved' \in Runs /\ saved'.gaps \subseteq saved'.results
    BY <1>0, <1>2, PersistIs DEF SaveEdit, RunTypeOK
  <2>2. RunTypeOK'
    BY <1>0, <1>2, <2>1 DEF SaveEdit, RunTypeOK, rowVars, runVars
  <2> QED BY <1>2, <2>2, QuietStep DEF SaveEdit, rowVars, runVars
<1>3. CASE \E t \in SUBSET Cids : Edit(t)
  <2>1. RunTypeOK'
    BY <1>0, <1>3 DEF Edit, RunTypeOK, rowVars, runVars
  <2> QED BY <1>3, <2>1, QuietStep DEF Edit, rowVars, runVars
<1>4. CASE Restore
  <2>1. PICK seeded, r, g : /\ seeded = saved.results \ results
                            /\ r = results \cup saved.results
                            /\ g = gaps \cup (saved.gaps \ results)
    OBVIOUS
  <2>2. r \in SUBSET Cids /\ g \in SUBSET r /\ seeded \subseteq Cids /\ saved.cids \subseteq Cids
    BY <1>0, <2>1 DEF RunTypeOK, Runs
  <2>3. doneCount + Cardinality(seeded \cap cids) \in Nat
    <3>1. IsFiniteSet(seeded \cap cids)
      BY <2>2, RunAssumption, FS_Subset
    <3>2. Cardinality(seeded \cap cids) \in Nat
      BY <3>1, FS_CardinalityType
    <3> QED BY <1>0, <3>2 DEF RunTypeOK
  <2>4. /\ hydrated' = TRUE /\ UNCHANGED <<runVars, timer, saved, reloads>>
        /\ text' \subseteq Cids /\ dirty' \in BOOLEAN
    BY <1>0, <1>4, <2>2 DEF Restore, RunTypeOK
  <2>5. \/ /\ results' = r /\ gaps' = g
           /\ doneCount' = doneCount + Cardinality(seeded \cap cids)
           /\ UNCHANGED <<cids, rowLive, errorCids, workingCids>>
        \/ SetCids(saved.cids, r, g)
    BY <1>4, <2>1 DEF Restore
  <2>6. CASE /\ results' = r /\ gaps' = g
             /\ doneCount' = doneCount + Cardinality(seeded \cap cids)
             /\ UNCHANGED <<cids, rowLive, errorCids, workingCids>>
    <3>1. RunTypeOK'
      BY <1>0, <2>2, <2>3, <2>4, <2>6 DEF RunTypeOK, runVars
    <3> QED BY <2>4, <2>6, <3>1, QuietStep DEF runVars
  <2>7. CASE SetCids(saved.cids, r, g)
    <3>1. /\ cids' \subseteq Cids /\ gaps' \subseteq results' /\ results' \subseteq Cids
          /\ rowLive' \in [Cids -> {"none", "working", "error"}]
          /\ errorCids' \subseteq Cids /\ workingCids' \subseteq Cids /\ doneCount' \in Nat
          /\ \A d \in Cids : rowLive'[d] = "none"
      BY <2>2, <2>7, SetCidsIs
    <3>2. RunTypeOK'
      BY <1>0, <2>4, <3>1 DEF RunTypeOK, runVars
    <3> QED BY <3>1, <3>2 DEF WInv, WorkingRowsAreWorkedOn, Row
  <2> QED BY <2>5, <2>6, <2>7
<1> QED BY <1>1, <1>2, <1>3, <1>4

\* A tab closed, a run begun, a list cleared: no row is at work afterwards.
LEMMA FreshStep ==
    ASSUME WInv, Reload \/ Prepare \/ Clear
    PROVE  WInv'
<1>0. RunTypeOK /\ Runs' = Runs /\ Attempts' = Attempts
  BY DEF WInv, Runs, Attempts
<1>1. PICK next \in SUBSET Cids, r \in SUBSET Cids, g \in SUBSET Cids :
         g \in SUBSET r /\ SetCids(next, r, g)
  BY <1>0 DEF Reload, Prepare, Clear, RunTypeOK
<1>2. /\ cids' \subseteq Cids /\ gaps' \subseteq results' /\ results' \subseteq Cids
      /\ rowLive' \in [Cids -> {"none", "working", "error"}]
      /\ errorCids' \subseteq Cids /\ workingCids' \subseteq Cids /\ doneCount' \in Nat
      /\ \A d \in Cids : rowLive'[d] = "none"
  BY <1>1, SetCidsIs
<1>3. saved' \in Runs /\ saved'.gaps \subseteq saved'.results
  <2>1. CASE Reload
    BY <1>0, <2>1 DEF Reload, RunTypeOK
  <2>2. CASE Prepare
    <3>1. PICK t \in SUBSET Cids, s \in SUBSET Cids, h \in SUBSET Cids :
             h \in SUBSET s /\ Persist(t, s, h)
      <4>1. Persist(text, results \cap text, gaps \cap text)
        BY <2>2 DEF Prepare
      <4>2. text \in SUBSET Cids /\ results \cap text \in SUBSET Cids
            /\ gaps \cap text \in SUBSET Cids /\ gaps \cap text \in SUBSET (results \cap text)
        BY <1>0 DEF RunTypeOK
      <4> QED BY <4>1, <4>2
    <3> QED BY <1>0, <3>1, PersistIs
  <2>3. CASE Clear
    BY <2>3 DEF Clear, NoRun, Runs
  <2> QED BY <2>1, <2>2, <2>3
<1>4. /\ attempts' \subseteq Attempts /\ made' \in 0 .. MaxAttempts
      /\ controllers' \in [Cids -> 0 .. MaxAttempts]
  BY <1>0, RunAssumption DEF Reload, Prepare, Clear, StartPool, RunTypeOK, None, runVars
<1>5. /\ pool' \subseteq Cids /\ text' \subseteq Cids /\ reloads' \in 0 .. MaxReloads
      /\ {running', capped', dirty', timer', hydrated', ran'} \subseteq BOOLEAN
  <2>1. CASE Reload
    <3>1. reloads' \in 0 .. MaxReloads
      BY <1>0, <2>1, RunAssumption DEF Reload, RunTypeOK
    <3> QED BY <2>1, <3>1 DEF Reload
  <2>2. CASE Prepare
    BY <1>0, <2>2 DEF Prepare, StartPool, RunTypeOK
  <2>3. CASE Clear
    BY <1>0, <2>3 DEF Clear, RunTypeOK, runVars
  <2> QED BY <2>1, <2>2, <2>3
<1>6. RunTypeOK'
  BY <1>0, <1>2, <1>3, <1>4, <1>5 DEF RunTypeOK
<1> QED BY <1>2, <1>6 DEF WInv, WorkingRowsAreWorkedOn, Row

\* The pool's own steps.
LEMMA PoolStepKeeps ==
    ASSUME WInv, RetryFailed \/ CapReached \/ RunEnds
    PROVE  WInv'
<1>0. RunTypeOK /\ Runs' = Runs /\ Attempts' = Attempts
  BY DEF WInv, Runs, Attempts
<1>1. CASE RetryFailed
  <2>1. RunTypeOK'
    BY <1>0, <1>1 DEF RetryFailed, StartPool, RunTypeOK, rowVars, diskVars
  <2> QED BY <1>1, <2>1, QuietStep DEF RetryFailed, StartPool, rowVars
<1>2. CASE CapReached
  <2>1. RunTypeOK'
    BY <1>0, <1>2 DEF CapReached, RunTypeOK, rowVars, diskVars
  <2> QED BY <1>2, <2>1, QuietStep DEF CapReached, rowVars
<1>3. CASE RunEnds
  <2>1. saved' \in Runs /\ saved'.gaps \subseteq saved'.results
    <3>1. CASE timer
      BY <1>0, <1>3, <3>1, PersistIs DEF RunEnds, RunTypeOK
    <3>2. CASE ~timer
      BY <1>0, <1>3, <3>2 DEF RunEnds, RunTypeOK
    <3> QED BY <3>1, <3>2
  <2>2. RunTypeOK'
    BY <1>0, <1>3, <2>1 DEF RunEnds, RunTypeOK, rowVars
  <2> QED BY <1>3, <2>2, QuietStep DEF RunEnds, rowVars
<1> QED BY <1>1, <1>2, <1>3

LEMMA WStep == WInv /\ [RunNext]_prepareVars => WInv'
<1> SUFFICES ASSUME WInv, [RunNext]_prepareVars PROVE WInv'
  OBVIOUS
<1>1. CASE Restore \/ SaveCompletions \/ SaveEdit \/ \E t \in SUBSET Cids : Edit(t)
  BY <1>1, DiskStep
<1>2. CASE Reload \/ Prepare \/ Clear
  BY <1>2, FreshStep
<1>3. CASE RetryFailed \/ CapReached \/ RunEnds
  BY <1>3, PoolStepKeeps
<1>4. ASSUME NEW c \in Cids, Take(c) \/ RetryRow(c) PROVE WInv'
  BY <1>4, RetryRowStep
<1>5. ASSUME NEW c \in Cids, Cancel(c) PROVE WInv'
  BY <1>5, CancelStep
<1>6. ASSUME NEW a \in attempts, Progress(a) PROVE WInv'
  BY <1>6, ProgressStep
<1>7. ASSUME NEW a \in attempts, AttemptEnds(a) PROVE WInv'
  BY <1>7, AttemptEndsStep
<1>8. CASE UNCHANGED prepareVars
  <2>1. RunTypeOK'
    BY <1>8 DEF WInv, RunTypeOK, prepareVars, rowVars, runVars, diskVars, Runs, Attempts
  <2> QED BY <1>8, <2>1, QuietStep DEF prepareVars, rowVars, runVars
<1> QED BY <1>1, <1>2, <1>3, <1>4, <1>5, <1>6, <1>7, <1>8 DEF RunNext, PoolStep

\* The store's lists and counts, the attempts and the saved run keep their types
\* (prepare-store.ts:60, run-store.ts).
THEOREM RunTypeCorrect == RunSpec => []RunTypeOK
<1>1. WInv => RunTypeOK
  BY DEF WInv
<1> QED BY <1>1, WInit, WStep, PTL DEF RunSpec

\* A row shown as working has an attempt in flight, for any number of rows, workers,
\* attempts and reloads: what the store says of a row and who computes it are written
\* at different places (prepare-store.ts:195, app.tsx:700).
THEOREM RowsWorkedOn == RunSpec => []WorkingRowsAreWorkedOn
<1>1. WInv => WorkingRowsAreWorkedOn
  BY DEF WInv
<1> QED BY <1>1, WInit, WStep, PTL DEF RunSpec

HIDE StackAssumption

-----------------------------------------------------------------------------
(***************************************************************************)
(* The export of a CAR (CarStream).  First numbers, and what is computed   *)
(* step by step.                                                           *)
(***************************************************************************)
LEMMA LeastNumber ==
    ASSUME NEW S \in SUBSET Nat, S # {}
    PROVE  \E x \in S : \A y \in S : x <= y
<1> DEFINE R == {ss \in Nat \X Nat : ss[1] < ss[2]}
<1>1. IsWellFoundedOn(R, Nat)
  BY NatLessThanWellFounded DEF OpToRel
<1>2. \E x \in S : \A y \in S : ~ (<<y, x>> \in R)
  <2> HIDE DEF R
  <2> QED BY <1>1, WFMin
<1>3. PICK x \in S : \A y \in S : ~ (<<y, x>> \in R)
  BY <1>2
<1>4. ASSUME NEW y \in S PROVE x <= y
  <2>1. x \in Nat /\ y \in Nat /\ <<y, x>> \notin R
    BY <1>3
  <2> QED BY <2>1
<1> QED BY <1>4

\* Induction, over the set of the numbers for which something holds.
LEMMA AllNumbers ==
    ASSUME NEW S \in SUBSET Nat, 0 \in S, \A k \in S : k + 1 \in S
    PROVE  S = Nat
<1> SUFFICES ASSUME Nat \ S # {} PROVE FALSE
  OBVIOUS
<1>1. PICK x \in Nat \ S : \A y \in Nat \ S : x <= y
  BY LeastNumber
<1>2. x # 0 /\ x - 1 \in Nat /\ (x - 1) + 1 = x
  BY <1>1
<1>3. x - 1 \notin S
  BY <1>2, <1>1
<1> QED BY <1>1, <1>2, <1>3

\* What is computed step by step from a base exists.
StepsTo(g, n, base, step) == g[0] = base /\ \A i \in 1 .. n : g[i] = step[i][g[i - 1]]

LEMMA StepByStep ==
    ASSUME NEW A, NEW n \in Nat, NEW base \in A, NEW step \in [1 .. n -> [A -> A]]
    PROVE  \E g \in [0 .. n -> A] : StepsTo(g, n, base, step)
<1> DEFINE Upto(k) == \E g \in [0 .. k -> A] : StepsTo(g, k, base, step)
           S == {k \in Nat : k <= n => Upto(k)}
<1>1. 0 \in S
  <2> DEFINE g == [j \in 0 .. 0 |-> base]
  <2>1. g \in [0 .. 0 -> A] /\ g[0] = base
    OBVIOUS
  <2>2. StepsTo(g, 0, base, step)
    <3> HIDE DEF g
    <3> QED BY <2>1 DEF StepsTo
  <2> QED BY <2>1, <2>2
<1>2. ASSUME NEW k \in S PROVE k + 1 \in S
  <2> SUFFICES ASSUME k + 1 <= n PROVE Upto(k + 1)
    OBVIOUS
  <2>1. PICK g \in [0 .. k -> A] : StepsTo(g, k, base, step)
    BY <1>2
  <2> DEFINE h == [j \in 0 .. k + 1 |-> IF j <= k THEN g[j] ELSE step[k + 1][g[k]]]
  <2>2. step[k + 1][g[k]] \in A
    <3>1. k + 1 \in 1 .. n /\ g[k] \in A
      BY <1>2
    <3> QED BY <3>1
  <2>3. h \in [0 .. k + 1 -> A]
    <3>1. ASSUME NEW j \in 0 .. k + 1 PROVE h[j] \in A
      BY <2>2, <1>2
    <3> QED BY <3>1
  <2>4. h[0] = base
    BY <2>1, <1>2 DEF StepsTo
  <2>5. ASSUME NEW i \in 1 .. k + 1 PROVE h[i] = step[i][h[i - 1]]
    <3>1. CASE i <= k
      BY <3>1, <2>1, <1>2 DEF StepsTo
    <3>2. CASE i = k + 1
      <4>1. h[i] = step[k + 1][g[k]] /\ i - 1 = k
        BY <3>2, <1>2
      <4>2. h[k] = g[k]
        BY <1>2
      <4> QED BY <4>1, <4>2, <3>2
    <3> QED BY <3>1, <3>2, <1>2
  <2>6. StepsTo(h, k + 1, base, step)
    <3> HIDE DEF h
    <3> QED BY <2>4, <2>5 DEF StepsTo
  <2> QED BY <2>3, <2>6
<1>3. S = Nat
  <2> HIDE DEF S
  <2>1. S \in SUBSET Nat
    BY DEF S
  <2> QED BY <1>1, <1>2, <2>1, AllNumbers
<1>4. n \in S
  BY <1>3
<1> QED BY <1>4

LEMMA GreatestNumber ==
    ASSUME NEW n \in Nat, NEW S \in SUBSET (0 .. n), S # {}
    PROVE  Max(S) \in S /\ \A y \in S : y <= Max(S)
<1> DEFINE T == {n - x : x \in S}
<1>1. T \in SUBSET Nat /\ T # {}
  <2>1. ASSUME NEW x \in S PROVE n - x \in Nat
    OBVIOUS
  <2>2. PICK x \in S : TRUE
    OBVIOUS
  <2>3. n - x \in T
    OBVIOUS
  <2> QED BY <2>1, <2>3
<1>2. PICK t \in T : \A y \in T : t <= y
  <2> HIDE DEF T
  <2> QED BY <1>1, LeastNumber
<1>3. PICK x \in S : t = n - x
  BY <1>2
<1>4. ASSUME NEW y \in S PROVE x >= y
  <2>1. n - y \in T
    OBVIOUS
  <2>2. t <= n - y /\ x \in Int /\ y \in Int
    BY <2>1, <1>2
  <2> QED BY <2>2, <1>3
<1>5. Max(S) \in S /\ \A y \in S : Max(S) >= y
  BY <1>4 DEF Max
<1>6. ASSUME NEW y \in S PROVE y <= Max(S)
  <2>1. S \in SUBSET Int
    OBVIOUS
  <2>2. Max(S) \in Int /\ y \in Int /\ Max(S) >= y
    BY ONLY <2>1, <1>5
  <2> QED BY ONLY <2>2
<1> QED BY <1>5, <1>6

LEMMA SmallestNumber ==
    ASSUME NEW S \in SUBSET Nat, S # {}
    PROVE  Min(S) \in S /\ \A y \in S : Min(S) <= y
<1>1. \E x \in S : \A y \in S : x <= y
  BY LeastNumber
<1> QED BY <1>1 DEF Min

LEMMA ReverseSeq ==
    ASSUME NEW A, NEW s \in Seq(A)
    PROVE  /\ Reverse(s) \in Seq(A) /\ Len(Reverse(s)) = Len(s)
           /\ \A i \in 1 .. Len(s) : Reverse(s)[i] = s[Len(s) - i + 1]
<1> DEFINE m == Len(s)
           r == Reverse(s)
<1>1. m \in Nat /\ \A i \in 1 .. m : s[i] \in A
  BY LenProperties
<1>2. r = [i \in 1 .. m |-> s[m - i + 1]]
  BY DEF Reverse
<1> HIDE DEF m, r
<1>3. ASSUME NEW i \in 1 .. m PROVE s[m - i + 1] \in A
  <2> DEFINE x == m - i + 1
  <2>1. x \in 1 .. m
    BY <1>1
  <2> HIDE DEF x
  <2>2. s[x] \in A
    BY <2>1, <1>1
  <2> QED BY <2>2 DEF x
<1>4. r \in [1 .. m -> A]
  BY <1>2, <1>3
<1>5. r \in Seq(A)
  BY <1>4, <1>1, SeqDef
<1>6. Len(r) = m
  <2>1. Len(r) \in Nat /\ 1 .. Len(r) = 1 .. m
    BY <1>4, <1>5, LenProperties
  <2> QED BY <2>1, <1>1
<1> QED BY <1>2, <1>5, <1>6 DEF m, r

LEMMA FrontSeq ==
    ASSUME NEW A, NEW s \in Seq(A), s # <<>>
    PROVE  /\ Front(s) \in Seq(A) /\ Len(Front(s)) = Len(s) - 1
           /\ \A i \in 1 .. Len(s) - 1 : Front(s)[i] = s[i]
           /\ Last(s) \in A
<1> DEFINE n == Len(s)
           f == Front(s)
<1>1. n \in Nat /\ n \in 1 .. n
  BY EmptySeq, LenProperties
<1>2. \A i \in 1 .. n : s[i] \in A
  BY LenProperties
<1>3. /\ f \in Seq(A) /\ Len(f) = IF 1 <= n - 1 THEN n - 1 - 1 + 1 ELSE 0
      /\ \A i \in 1 .. n - 1 - 1 + 1 : f[i] = s[1 + i - 1]
  <2>1. \A i \in 1 .. n - 1 : s[i] \in A
    <3>1. \A i \in 1 .. n - 1 : i \in 1 .. n
      BY <1>1
    <3> QED BY <1>2, <3>1
  <2> QED BY <1>1, <2>1, SubSeqProperties DEF Front
<1>4. Last(s) \in A
  BY <1>1, <1>2 DEF Last
<1> HIDE DEF f, n
<1>5. \A i \in 1 .. n - 1 : i \in 1 .. n - 1 - 1 + 1 /\ 1 + i - 1 = i
  BY <1>1
<1>6. Len(f) = n - 1
  BY <1>1, <1>3
<1> QED BY <1>3, <1>4, <1>5, <1>6 DEF f, n

(* Only: the elements it keeps, and what one element more adds.              *)
Keeping(f, s, S) ==
    /\ f[0] = <<>>
    /\ \A i \in 1 .. Len(s) :
          f[i] = IF s[i] \in S THEN Append(f[i - 1], s[i]) ELSE f[i - 1]

LEMMA OnlySteps ==
    ASSUME NEW A, NEW s \in Seq(A), NEW S
    PROVE  \E f \in [0 .. Len(s) -> Seq(A)] : Keeping(f, s, S) /\ Only(s, S) = f[Len(s)]
<1> DEFINE n == Len(s)
           step == [i \in 1 .. n |-> [o \in Seq(A) |-> IF s[i] \in S THEN Append(o, s[i]) ELSE o]]
           Eq(f) == f = [i \in 0 .. n |-> IF i = 0 THEN <<>>
                          ELSE IF s[i] \in S THEN Append(f[i - 1], s[i]) ELSE f[i - 1]]
<1>1. n \in Nat /\ \A i \in 1 .. n : s[i] \in A
  BY LenProperties
<1>2. step \in [1 .. n -> [Seq(A) -> Seq(A)]]
  <2>1. ASSUME NEW i \in 1 .. n, NEW o \in Seq(A) PROVE Append(o, s[i]) \in Seq(A)
    BY <1>1, AppendProperties
  <2> QED BY <2>1
<1>3. PICK g \in [0 .. n -> Seq(A)] : StepsTo(g, n, <<>>, step)
  <2> HIDE DEF step, n
  <2>1. <<>> \in Seq(A)
    OBVIOUS
  <2> QED BY <1>1, <1>2, <2>1, StepByStep
<1>4. Keeping(g, s, S)
  <2>1. g[0] = <<>> /\ \A i \in 1 .. n : g[i] = step[i][g[i - 1]]
    <3> HIDE DEF step
    <3> QED BY <1>3 DEF StepsTo
  <2>2. ASSUME NEW i \in 1 .. n
        PROVE  step[i][g[i - 1]] = IF s[i] \in S THEN Append(g[i - 1], s[i]) ELSE g[i - 1]
    <3>1. g[i - 1] \in Seq(A)
      BY <1>1
    <3> QED BY <3>1
  <2> HIDE DEF step
  <2> QED BY <2>1, <2>2 DEF Keeping
<1>5. Eq(g)
  <2> DEFINE f == [i \in 0 .. n |-> IF i = 0 THEN <<>>
                          ELSE IF s[i] \in S THEN Append(g[i - 1], s[i]) ELSE g[i - 1]]
  <2>1. ASSUME NEW i \in 0 .. n PROVE g[i] = f[i]
    <3>1. CASE i = 0
      BY <3>1, <1>4, <1>1 DEF Keeping
    <3>2. CASE i # 0
      <4>1. i \in 1 .. n
        BY <3>2, <1>1
      <4>2. g[i] = IF s[i] \in S THEN Append(g[i - 1], s[i]) ELSE g[i - 1]
        BY <4>1, <1>4 DEF Keeping
      <4> QED BY <3>2, <4>2
    <3> QED BY <3>1, <3>2
  <2>2. DOMAIN f = 0 .. n /\ f = [i \in DOMAIN f |-> f[i]]
    OBVIOUS
  <2>3. g = [i \in 0 .. n |-> g[i]]
    OBVIOUS
  <2> HIDE DEF f
  <2>4. g = f
    BY <2>1, <2>2, <2>3
  <2> QED BY <2>4 DEF f
<1> DEFINE kept == CHOOSE f : Eq(f)
<1>6. Eq(kept)
  <2> HIDE DEF Eq
  <2> QED BY <1>5
<1>7. Keeping(kept, s, S)
  <2> HIDE DEF kept
  <2>1. kept[0] = <<>>
    BY <1>6, <1>1
  <2>2. ASSUME NEW i \in 1 .. n
        PROVE  kept[i] = IF s[i] \in S THEN Append(kept[i - 1], s[i]) ELSE kept[i - 1]
    <3>1. i \in 0 .. n /\ i # 0
      BY <1>1
    <3>2. ASSUME NEW f, Eq(f)
          PROVE  f[i] = IF s[i] \in S THEN Append(f[i - 1], s[i]) ELSE f[i - 1]
      <4>1. f = [j \in 0 .. n |-> IF j = 0 THEN <<>>
                  ELSE IF s[j] \in S THEN Append(f[j - 1], s[j]) ELSE f[j - 1]]
        BY <3>2
      <4> HIDE DEF n
      <4> QED BY <4>1, <3>1
    <3> HIDE DEF Eq
    <3> QED BY <1>6, <3>2
  <2> QED BY <2>1, <2>2 DEF Keeping
<1>8. kept \in [0 .. n -> Seq(A)]
  <2> HIDE DEF kept
  <2> DEFINE T == {k \in Nat : k <= n => kept[k] \in Seq(A)}
  <2>1. 0 \in T
    <3>1. kept[0] = <<>>
      BY <1>7 DEF Keeping
    <3>2. kept[0] \in Seq(A)
      BY <3>1
    <3> QED BY <3>2
  <2>2. ASSUME NEW k \in T PROVE k + 1 \in T
    <3> SUFFICES ASSUME k + 1 <= n PROVE kept[k + 1] \in Seq(A)
      OBVIOUS
    <3>1. k + 1 \in 1 .. n /\ kept[k] \in Seq(A) /\ (k + 1) - 1 = k
      BY <1>1
    <3>2. Append(kept[k], s[k + 1]) \in Seq(A)
      BY <3>1, <1>1, AppendProperties
    <3> QED BY <3>1, <3>2, <1>7 DEF Keeping
  <2>3. T = Nat
    <3> HIDE DEF T
    <3>1. T \in SUBSET Nat
      BY DEF T
    <3> QED BY <2>1, <2>2, <3>1, AllNumbers
  <2>4. ASSUME NEW k \in 0 .. n PROVE kept[k] \in Seq(A)
    <3>1. k \in T /\ k <= n
      BY <2>3, <1>1
    <3> QED BY <3>1
  <2>5. kept = [k \in 0 .. n |-> kept[k]]
    BY <1>6
  <2> QED BY <2>4, <2>5
<1>9. Only(s, S) = kept[n]
  BY DEF Only
<1> HIDE DEF kept, n
<1> QED BY <1>7, <1>8, <1>9 DEF n

LEMMA OnlySeq ==
    ASSUME NEW A, NEW s \in Seq(A), NEW S
    PROVE  Only(s, S) \in Seq(A)
<1>1. PICK f \in [0 .. Len(s) -> Seq(A)] : Only(s, S) = f[Len(s)]
  BY OnlySteps
<1>2. Len(s) \in 0 .. Len(s)
  BY LenProperties
<1> QED BY <1>1, <1>2

LEMMA OnlyAppend ==
    ASSUME NEW A, NEW s \in Seq(A), NEW x \in A, NEW S
    PROVE  Only(Append(s, x), S) = IF x \in S THEN Append(Only(s, S), x) ELSE Only(s, S)
<1> DEFINE n == Len(s)
           t == Append(s, x)
<1>1. /\ n \in Nat /\ t \in Seq(A) /\ Len(t) = n + 1
      /\ \A i \in 1 .. n : t[i] = s[i]
      /\ t[n + 1] = x
  BY LenProperties, AppendProperties
<1>2. PICK f \in [0 .. n -> Seq(A)] : Keeping(f, s, S) /\ Only(s, S) = f[n]
  BY OnlySteps
<1> HIDE DEF n, t
<1>3. PICK g \in [0 .. n + 1 -> Seq(A)] : Keeping(g, t, S) /\ Only(t, S) = g[n + 1]
  <2>1. PICK g \in [0 .. Len(t) -> Seq(A)] : Keeping(g, t, S) /\ Only(t, S) = g[Len(t)]
    BY <1>1, OnlySteps
  <2> QED BY <2>1, <1>1
<1> DEFINE T == {k \in Nat : k <= n => g[k] = f[k]}
<1>4. T = Nat
  <2>1. 0 \in T
    BY <1>2, <1>3 DEF Keeping
  <2>2. ASSUME NEW k \in T PROVE k + 1 \in T
    <3> SUFFICES ASSUME k + 1 <= n PROVE g[k + 1] = f[k + 1]
      OBVIOUS
    <3>0. k \in Nat /\ g[k] = f[k]
      <4>1. k <= n
        BY <1>1
      <4> QED BY <4>1
    <3>1. /\ k + 1 \in 1 .. n /\ k + 1 \in 1 .. n + 1 /\ (k + 1) - 1 = k
          /\ g[k] = f[k] /\ t[k + 1] = s[k + 1]
      <4> HIDE DEF T
      <4>1. k + 1 \in 1 .. n /\ k + 1 \in 1 .. n + 1 /\ (k + 1) - 1 = k
        BY <1>1, <3>0
      <4> QED BY <1>1, <3>0, <4>1
    <3>2. f[k + 1] = IF s[k + 1] \in S THEN Append(f[k], s[k + 1]) ELSE f[k]
      BY <3>1, <1>2 DEF Keeping, n
    <3>3. g[k + 1] = IF t[k + 1] \in S THEN Append(g[k], t[k + 1]) ELSE g[k]
      BY <3>1, <1>3, <1>1 DEF Keeping
    <3> QED BY <3>1, <3>2, <3>3
  <2> HIDE DEF T
  <2>3. T \in SUBSET Nat
    BY DEF T
  <2> QED BY <2>1, <2>2, <2>3, AllNumbers
<1>5. g[n] = f[n]
  <2>1. n \in T
    BY <1>1, <1>4
  <2> QED BY <2>1, <1>1
<1>6. g[n + 1] = IF t[n + 1] \in S THEN Append(g[n], t[n + 1]) ELSE g[n]
  <2>1. n + 1 \in 1 .. Len(t) /\ (n + 1) - 1 = n
    BY <1>1
  <2> QED BY <2>1, <1>3 DEF Keeping
<1>7. Only(t, S) = IF x \in S THEN Append(Only(s, S), x) ELSE Only(s, S)
  BY <1>1, <1>2, <1>3, <1>5, <1>6
<1> QED BY <1>7 DEF t

\* h gives the place in s of each element of o, what is kept of its first k.
Sieved(s, S, k, o, h) ==
    /\ h \in [1 .. Len(o) -> 1 .. k]
    /\ \A i \in 1 .. Len(o) : o[i] = s[h[i]] /\ s[h[i]] \in S
    /\ \A i, j \in 1 .. Len(o) : i < j => h[i] < h[j]
    /\ \A j \in 1 .. k : s[j] \in S => \E i \in 1 .. Len(o) : h[i] = j

\* One element more, kept.
LEMMA SieveOneMore ==
    ASSUME NEW A, NEW s \in Seq(A), NEW S, NEW k \in Nat, k + 1 <= Len(s), NEW o \in Seq(A),
           NEW h, Sieved(s, S, k, o, h), s[k + 1] \in S
    PROVE  \E g : Sieved(s, S, k + 1, Append(o, s[k + 1]), g)
<1> DEFINE m == Len(o)
           p == Append(o, s[k + 1])
           g == [i \in 1 .. m + 1 |-> IF i <= m THEN h[i] ELSE k + 1]
<1>1. /\ m \in Nat /\ Len(p) = m + 1 /\ \A i \in 1 .. m : p[i] = o[i]
      /\ p[m + 1] = s[k + 1]
  <2>1. s[k + 1] \in A
    BY ElementOfSeq, LenProperties
  <2> QED BY <2>1, LenProperties, AppendProperties
<1>2. /\ h \in [1 .. m -> 1 .. k]
      /\ \A i \in 1 .. m : o[i] = s[h[i]] /\ s[h[i]] \in S
      /\ \A i, j \in 1 .. m : i < j => h[i] < h[j]
      /\ \A j \in 1 .. k : s[j] \in S => \E i \in 1 .. m : h[i] = j
  BY DEF Sieved
<1> HIDE DEF m, p
<1>3. /\ g[m + 1] = k + 1 /\ \A i \in 1 .. m : g[i] = h[i] /\ h[i] \in 1 .. k
      /\ \A i \in 1 .. m + 1 : i \in 1 .. m \/ i = m + 1
      /\ 1 .. m \subseteq 1 .. m + 1 /\ m + 1 \in 1 .. m + 1
  BY <1>1, <1>2
<1>4. g \in [1 .. m + 1 -> 1 .. k + 1]
  <2>1. ASSUME NEW i \in 1 .. m + 1 PROVE (IF i <= m THEN h[i] ELSE k + 1) \in 1 .. k + 1
    <3>1. CASE i <= m
      <4>1. i \in 1 .. m
        BY <3>1, <1>1
      <4>2. h[i] \in 1 .. k
        BY <4>1, <1>2
      <4> QED BY <3>1, <4>2
    <3>2. CASE ~ (i <= m)
      BY <3>2
    <3> QED BY <3>1, <3>2
  <2> QED BY <2>1
<1> HIDE DEF g
<1>5. ASSUME NEW i \in 1 .. m + 1 PROVE p[i] = s[g[i]] /\ s[g[i]] \in S
  BY <1>1, <1>2, <1>3
<1>6. ASSUME NEW i \in 1 .. m + 1, NEW j \in 1 .. m + 1, i < j PROVE g[i] < g[j]
  <2>1. i \in 1 .. m
    <3>1. i < m + 1 /\ i \in Int
      BY <1>1, <1>6
    <3> QED BY ONLY <3>1, <1>1, i \in 1 .. m + 1
  <2>2. CASE j \in 1 .. m
    <3>1. h[i] < h[j]
      BY <2>1, <2>2, <1>2, <1>6
    <3>2. g[i] = h[i] /\ g[j] = h[j]
      BY <2>1, <2>2, <1>3
    <3> QED BY <3>1, <3>2
  <2>3. CASE j = m + 1
    <3>1. g[i] \in 1 .. k /\ g[j] = k + 1
      BY <2>1, <2>3, <1>3
    <3> QED BY <3>1
  <2> QED BY <2>2, <2>3, <1>3
<1>7. ASSUME NEW j \in 1 .. k + 1, s[j] \in S PROVE \E i \in 1 .. m + 1 : g[i] = j
  <2>1. CASE j = k + 1
    BY <2>1, <1>3
  <2>2. CASE j # k + 1
    <3>1. j \in 1 .. k
      BY <2>2
    <3>2. PICK i \in 1 .. m : h[i] = j
      BY <3>1, <1>2, <1>7
    <3> QED BY <3>2, <1>3
  <2> QED BY <2>1, <2>2
<1>8. Sieved(s, S, k + 1, p, g)
  BY <1>1, <1>4, <1>5, <1>6, <1>7 DEF Sieved
<1> QED BY <1>8 DEF p

LEMMA OnlySieves ==
    ASSUME NEW A, NEW s \in Seq(A), NEW S
    PROVE  \E h : Sieved(s, S, Len(s), Only(s, S), h)
<1> DEFINE n == Len(s)
<1>1. n \in Nat
  BY LenProperties
<1>2. PICK f \in [0 .. n -> Seq(A)] : Keeping(f, s, S) /\ Only(s, S) = f[n]
  BY OnlySteps
<1> DEFINE T == {k \in Nat : k <= n => \E h : Sieved(s, S, k, f[k], h)}
<1>3. 0 \in T
  <2>1. f[0] = <<>> /\ Len(<<>>) = 0
    BY <1>2 DEF Keeping
  <2>2. Sieved(s, S, 0, <<>>, <<>>)
    BY <2>1 DEF Sieved
  <2> QED BY <2>1, <2>2
<1>4. ASSUME NEW k \in T PROVE k + 1 \in T
  <2> SUFFICES ASSUME k + 1 <= n PROVE \E h : Sieved(s, S, k + 1, f[k + 1], h)
    OBVIOUS
  <2> HIDE DEF n
  <2>1. k \in Nat /\ k + 1 \in 1 .. n /\ (k + 1) - 1 = k /\ f[k] \in Seq(A)
    BY <1>1
  <2>2. PICK h : Sieved(s, S, k, f[k], h)
    BY <1>1
  <2>3. f[k + 1] = IF s[k + 1] \in S THEN Append(f[k], s[k + 1]) ELSE f[k]
    BY <2>1, <1>2 DEF Keeping, n
  <2>4. CASE s[k + 1] \in S
    <3>1. k + 1 <= Len(s)
      BY DEF n
    <3> QED BY <2>1, <2>2, <2>3, <2>4, <3>1, SieveOneMore
  <2>5. CASE s[k + 1] \notin S
    <3>1. f[k + 1] = f[k]
      BY <2>3, <2>5
    <3>2. \A j \in 1 .. k + 1 : j \in 1 .. k \/ j = k + 1
      BY <2>1
    <3>3. 1 .. k \subseteq 1 .. k + 1
      BY <2>1
    <3>4. Sieved(s, S, k + 1, f[k], h)
      <4>1. h \in [1 .. Len(f[k]) -> 1 .. k + 1]
        BY <2>2, <3>3 DEF Sieved
      <4>2. \A j \in 1 .. k + 1 : s[j] \in S => \E i \in 1 .. Len(f[k]) : h[i] = j
        BY <2>2, <2>5, <3>2 DEF Sieved
      <4> QED BY <4>1, <4>2, <2>2 DEF Sieved
    <3> QED BY <3>1, <3>4
  <2> QED BY <2>4, <2>5
<1>5. T = Nat
  <2> HIDE DEF T
  <2>1. T \in SUBSET Nat
    BY DEF T
  <2> QED BY <1>3, <1>4, <2>1, AllNumbers
<1>6. n \in T
  BY <1>1, <1>5
<1>7. \E h : Sieved(s, S, n, f[n], h)
  <2>1. n <= n
    BY <1>1
  <2> QED BY <1>6, <2>1
<1> QED BY <1>2, <1>7

(***************************************************************************)
(* The canonical order, block by block.                                    *)
(***************************************************************************)
N == Cardinality(Blocks)

LEMMA BlocksFinite == N \in Nat /\ Links \in [Blocks -> Seq(Blocks)] /\ Root \in Blocks \ Identity
  BY ExportAssumption, FS_CardinalityType DEF N

LEMMA LinksAtType ==
    ASSUME NEW order \in Seq(Blocks), NEW k \in 0 .. Len(order)
    PROVE  LinksAt(order, k) \in Seq(Blocks)
<1>1. CASE k = 0
  <2>1. <<Root>> \in Seq(Blocks)
    BY BlocksFinite
  <2> QED BY <1>1, <2>1 DEF LinksAt
<1>2. CASE k # 0
  <2>1. k \in 1 .. Len(order)
    BY <1>2
  <2>2. order[k] \in Blocks
    BY <2>1, ElementOfSeq
  <2>3. Links[order[k]] \in Seq(Blocks)
    BY <2>2, BlocksFinite
  <2> QED BY <1>2, <2>3 DEF LinksAt
<1> QED BY <1>1, <1>2

\* What NextBlock is, where there is one.
LEMMA NextBlockIs ==
    ASSUME NEW order \in Seq(Blocks), NEW k \in Branching(order), NEW j \in LeftAt(order, k),
           \A i \in Branching(order) : i <= k, \A i \in LeftAt(order, k) : j <= i
    PROVE  NextBlock(order) = LinksAt(order, k)[j]
<1>1. Len(order) \in Nat /\ Branching(order) \in SUBSET (0 .. Len(order))
  BY LenProperties DEF Branching
<1>2. Max(Branching(order)) \in Branching(order) /\ k <= Max(Branching(order))
  BY <1>1, GreatestNumber
<1>3. Max(Branching(order)) = k
  <2>1. Max(Branching(order)) <= k
    BY <1>2
  <2>2. Max(Branching(order)) \in Int /\ k \in Int
    BY <1>1, <1>2
  <2> QED BY <1>2, <2>1, <2>2
<1>4. LeftAt(order, k) \in SUBSET Nat
  <2>1. DOMAIN LinksAt(order, k) = 1 .. Len(LinksAt(order, k)) /\ Len(LinksAt(order, k)) \in Nat
    BY <1>1, LinksAtType, LenProperties
  <2> QED BY <2>1 DEF LeftAt
<1>5. Min(LeftAt(order, k)) \in LeftAt(order, k) /\ Min(LeftAt(order, k)) <= j
  BY <1>4, SmallestNumber
<1>6. Min(LeftAt(order, k)) = j
  <2>1. j <= Min(LeftAt(order, k))
    BY <1>5
  <2>2. Min(LeftAt(order, k)) \in Int /\ j \in Int
    BY <1>4, <1>5
  <2> QED BY <1>5, <2>1, <2>2
<1> QED BY <1>3, <1>6 DEF NextBlock

LEMMA NextBlockType ==
    ASSUME NEW order \in Seq(Blocks), Branching(order) # {}
    PROVE  NextBlock(order) \in Blocks
<1>1. Len(order) \in Nat /\ Branching(order) \in SUBSET (0 .. Len(order))
  BY LenProperties DEF Branching
<1> DEFINE k == Max(Branching(order))
<1>2. k \in Branching(order)
  BY <1>1, GreatestNumber
<1> HIDE DEF k
<1>3. LinksAt(order, k) \in Seq(Blocks)
  BY <1>1, <1>2, LinksAtType
<1>4. /\ DOMAIN LinksAt(order, k) = 1 .. Len(LinksAt(order, k))
      /\ Len(LinksAt(order, k)) \in Nat
  BY <1>3, LenProperties
<1>5. LeftAt(order, k) \in SUBSET Nat /\ LeftAt(order, k) # {}
  BY <1>2, <1>4 DEF LeftAt, Branching
<1>6. Min(LeftAt(order, k)) \in DOMAIN LinksAt(order, k)
  <2>1. Min(LeftAt(order, k)) \in LeftAt(order, k)
    BY <1>5, SmallestNumber
  <2> QED BY <2>1 DEF LeftAt
<1>7. LinksAt(order, k)[Min(LeftAt(order, k))] \in Blocks
  BY <1>3, <1>4, <1>6, ElementOfSeq
<1> QED BY <1>7 DEF NextBlock, k

Extended(order) ==
    IF Branching(order) = {} THEN order ELSE Append(order, NextBlock(order))

LEMMA ExtendedType ==
    ASSUME NEW order \in Seq(Blocks)
    PROVE  Extended(order) \in Seq(Blocks)
<1>1. CASE Branching(order) = {}
  BY <1>1 DEF Extended
<1>2. CASE Branching(order) # {}
  <2>1. Append(order, NextBlock(order)) \in Seq(Blocks)
    BY <1>2, NextBlockType, AppendProperties
  <2> QED BY <1>2, <2>1 DEF Extended
<1> QED BY <1>1, <1>2

LEMMA PreorderSteps ==
    /\ Preorder[0] = <<>>
    /\ \A n \in 1 .. N : Preorder[n] = Extended(Preorder[n - 1])
    /\ \A n \in 0 .. N : Preorder[n] \in Seq(Blocks)
<1> DEFINE step == [i \in 1 .. N |-> [o \in Seq(Blocks) |-> Extended(o)]]
           Eq(f) == f = [n \in 0 .. N |-> IF n = 0 THEN <<>> ELSE Extended(f[n - 1])]
<1>1. N \in Nat
  BY BlocksFinite
<1>2. step \in [1 .. N -> [Seq(Blocks) -> Seq(Blocks)]]
  BY ExtendedType
<1>3. PICK g \in [0 .. N -> Seq(Blocks)] : StepsTo(g, N, <<>>, step)
  <2> HIDE DEF step
  <2>1. <<>> \in Seq(Blocks)
    OBVIOUS
  <2> QED BY <1>1, <1>2, <2>1, StepByStep
<1>4. g[0] = <<>> /\ \A i \in 1 .. N : g[i] = Extended(g[i - 1])
  <2>1. g[0] = <<>> /\ \A i \in 1 .. N : g[i] = step[i][g[i - 1]]
    <3> HIDE DEF step
    <3> QED BY <1>3 DEF StepsTo
  <2>2. ASSUME NEW i \in 1 .. N PROVE step[i][g[i - 1]] = Extended(g[i - 1])
    <3>1. g[i - 1] \in Seq(Blocks)
      BY <1>1
    <3> QED BY <3>1
  <2> HIDE DEF step
  <2> QED BY <2>1, <2>2
<1>5. Eq(g)
  <2> DEFINE f == [n \in 0 .. N |-> IF n = 0 THEN <<>> ELSE Extended(g[n - 1])]
  <2>1. ASSUME NEW i \in 0 .. N PROVE g[i] = f[i]
    BY <1>4, <1>1
  <2>2. DOMAIN f = 0 .. N /\ f = [i \in DOMAIN f |-> f[i]]
    OBVIOUS
  <2>3. g = [i \in 0 .. N |-> g[i]]
    OBVIOUS
  <2> HIDE DEF f
  <2>4. g = f
    BY <2>1, <2>2, <2>3
  <2> QED BY <2>4 DEF f
<1>6. Eq(Preorder)
  <2>1. Preorder = CHOOSE f : Eq(f)
    BY DEF Preorder, N, Extended
  <2> HIDE DEF Eq
  <2> QED BY <1>5, <2>1
<1>7. Preorder[0] = <<>>
  BY <1>1, <1>6
<1>8. ASSUME NEW n \in 1 .. N PROVE Preorder[n] = Extended(Preorder[n - 1])
  <2>1. n \in 0 .. N /\ n # 0
    BY <1>1
  <2> QED BY <1>6, <2>1
<1> DEFINE T == {k \in Nat : k <= N => Preorder[k] \in Seq(Blocks)}
<1>9. T = Nat
  <2>1. 0 \in T
    BY <1>7, EmptySeq
  <2>2. ASSUME NEW k \in T PROVE k + 1 \in T
    <3> SUFFICES ASSUME k + 1 <= N PROVE Preorder[k + 1] \in Seq(Blocks)
      OBVIOUS
    <3>1. k + 1 \in 1 .. N /\ (k + 1) - 1 = k /\ Preorder[k] \in Seq(Blocks)
      BY <1>1
    <3> QED BY <3>1, <1>8, ExtendedType
  <2> HIDE DEF T
  <2>3. T \in SUBSET Nat
    BY DEF T
  <2> QED BY <2>1, <2>2, <2>3, AllNumbers
<1>10. ASSUME NEW n \in 0 .. N PROVE Preorder[n] \in Seq(Blocks)
  <2>1. n \in Nat /\ n <= N
    BY <1>1
  <2>2. n \in T
    <3> HIDE DEF T
    <3> QED BY <2>1, <1>9
  <2> QED BY <2>1, <2>2
<1> QED BY <1>7, <1>8, <1>10

\* What a prefix is, element by element.
LEMMA PrefixIs ==
    ASSUME NEW A, NEW s \in Seq(A), NEW t \in Seq(A)
    PROVE  IsPrefix(s, t) <=> (Len(s) <= Len(t) /\ \A i \in 1 .. Len(s) : s[i] = t[i])
<1>1. /\ Len(s) \in Nat /\ Len(t) \in Nat
      /\ \A i \in 1 .. Len(s) : s[i] \in A
      /\ \A i \in 1 .. Len(t) : t[i] \in A
  BY LenProperties
<1>2. SubSeq(s, 1, Len(s)) = s
  BY SubSeqFull
<1>3. SUFFICES ASSUME Len(s) <= Len(t)
               PROVE  SubSeq(t, 1, Len(s)) = s <=> \A i \in 1 .. Len(s) : s[i] = t[i]
  BY <1>2 DEF IsPrefix
<1> DEFINE u == SubSeq(t, 1, Len(s))
<1>4. u \in Seq(A) /\ Len(u) = Len(s) /\ \A i \in 1 .. Len(s) : u[i] = t[i]
  <2>1. \A i \in 1 .. Len(s) : i \in 1 .. Len(t)
    BY <1>1, <1>3
  <2>2. \A i \in 1 .. Len(s) : t[i] \in A
    BY <1>1, <2>1
  <2>3. /\ u \in Seq(A) /\ Len(u) = IF 1 <= Len(s) THEN Len(s) - 1 + 1 ELSE 0
        /\ \A i \in 1 .. Len(s) - 1 + 1 : u[i] = t[1 + i - 1]
    BY <1>1, <2>2, SubSeqProperties
  <2> HIDE DEF u
  <2>4. Len(u) = Len(s)
    BY <2>3, <1>1
  <2>5. \A i \in 1 .. Len(s) : i \in 1 .. Len(s) - 1 + 1 /\ 1 + i - 1 = i
    BY <1>1
  <2> QED BY <2>3, <2>4, <2>5
<1> HIDE DEF u
<1>5. u = s => \A i \in 1 .. Len(s) : s[i] = t[i]
  BY <1>4
<1>6. (\A i \in 1 .. Len(s) : s[i] = t[i]) => u = s
  BY <1>4, SeqEqual
<1> QED BY <1>5, <1>6 DEF u

LEMMA PrefixAppend ==
    ASSUME NEW A, NEW s \in Seq(A), NEW t \in Seq(A), NEW x \in A, IsPrefix(s, t)
    PROVE  IsPrefix(s, Append(t, x))
<1> DEFINE u == Append(t, x)
<1>1. Len(s) <= Len(t) /\ \A i \in 1 .. Len(s) : s[i] = t[i]
  BY PrefixIs
<1>2. /\ u \in Seq(A) /\ Len(u) = Len(t) + 1 /\ \A i \in 1 .. Len(t) : u[i] = t[i]
      /\ Len(s) \in Nat /\ Len(t) \in Nat
  BY AppendProperties, LenProperties
<1> HIDE DEF u
<1>3. Len(s) <= Len(u) /\ \A i \in 1 .. Len(s) : s[i] = u[i]
  <2>1. \A i \in 1 .. Len(s) : i \in 1 .. Len(t)
    BY <1>1, <1>2
  <2>2. Len(s) <= Len(u)
    BY <1>1, <1>2
  <2> QED BY <1>1, <1>2, <2>1, <2>2
<1>4. IsPrefix(s, u)
  BY <1>2, <1>3, PrefixIs
<1> QED BY <1>4 DEF u

\* What the CAR holds of the first n blocks in the canonical order.
Kept == Blocks \ Identity
Framed(n) == Only(Preorder[n], Kept)

LEMMA FramedSteps ==
    /\ \A n \in 0 .. N : Framed(n) \in Seq(Blocks)
    /\ Framed(N) = Canonical
    /\ \A n \in 1 .. N :
          IF Branching(Preorder[n - 1]) = {}
            THEN Preorder[n] = Preorder[n - 1] /\ Framed(n) = Framed(n - 1)
            ELSE LET b == NextBlock(Preorder[n - 1]) IN
                 /\ b \in Blocks
                 /\ Preorder[n] = Append(Preorder[n - 1], b)
                 /\ Framed(n) = IF b \in Kept THEN Append(Framed(n - 1), b) ELSE Framed(n - 1)
<1>1. ASSUME NEW n \in 0 .. N PROVE Framed(n) \in Seq(Blocks)
  BY PreorderSteps, OnlySeq DEF Framed
<1>2. Framed(N) = Canonical
  BY DEF Framed, Canonical, Kept, N
<1>3. ASSUME NEW n \in 1 .. N, Branching(Preorder[n - 1]) = {}
      PROVE  Preorder[n] = Preorder[n - 1] /\ Framed(n) = Framed(n - 1)
  BY <1>3, PreorderSteps DEF Extended, Framed
<1>4. ASSUME NEW n \in 1 .. N, Branching(Preorder[n - 1]) # {}
      PROVE  LET b == NextBlock(Preorder[n - 1]) IN
             /\ b \in Blocks
             /\ Preorder[n] = Append(Preorder[n - 1], b)
             /\ Framed(n) = IF b \in Kept THEN Append(Framed(n - 1), b) ELSE Framed(n - 1)
  <2> DEFINE b == NextBlock(Preorder[n - 1])
  <2>1. Preorder[n - 1] \in Seq(Blocks)
    <3>1. n - 1 \in 0 .. N
      BY BlocksFinite
    <3> QED BY <3>1, PreorderSteps
  <2>2. b \in Blocks
    BY <2>1, <1>4, NextBlockType
  <2>3. Preorder[n] = Append(Preorder[n - 1], b)
    BY <1>4, PreorderSteps DEF Extended
  <2> HIDE DEF b
  <2>4. Framed(n) = IF b \in Kept THEN Append(Framed(n - 1), b) ELSE Framed(n - 1)
    <3> DEFINE o == Preorder[n - 1]
    <3>1. Only(Append(o, b), Kept) = IF b \in Kept THEN Append(Only(o, Kept), b) ELSE Only(o, Kept)
      <4> HIDE DEF o
      <4> QED BY <2>1, <2>2, OnlyAppend DEF o
    <3> QED BY <2>3, <3>1 DEF Framed
  <2> QED BY <2>2, <2>3, <2>4 DEF b
<1> QED BY <1>1, <1>2, <1>3, <1>4

LEMMA FramedIsPrefix ==
    ASSUME NEW m \in 0 .. N
    PROVE  /\ IsPrefix(Framed(m), Canonical)
           /\ Branching(Preorder[m]) = {} => Framed(m) = Canonical
<1> DEFINE Reached(n) == /\ IsPrefix(Framed(m), Framed(n))
                         /\ Branching(Preorder[m]) = {} =>
                               Preorder[n] = Preorder[m] /\ Framed(n) = Framed(m)
           T == {d \in Nat : m + d <= N => Reached(m + d)}
<1>0. N \in Nat /\ m \in Nat /\ m <= N
  BY BlocksFinite
<1>1. 0 \in T
  <2>1. Framed(m) \in Seq(Blocks)
    BY FramedSteps
  <2>2. IsPrefix(Framed(m), Framed(m))
    BY <2>1, PrefixIs, LenProperties
  <2>3. m + 0 = m
    BY <1>0
  <2> QED BY <2>2, <2>3
<1>2. ASSUME NEW d \in T PROVE d + 1 \in T
  <2> SUFFICES ASSUME m + (d + 1) <= N PROVE Reached(m + (d + 1))
    OBVIOUS
  <2> DEFINE n == m + (d + 1)
  <2>1. n \in 1 .. N /\ n - 1 = m + d /\ n - 1 \in 0 .. N /\ d \in Nat /\ m + d <= N
    BY <1>0
  <2>2. Reached(n - 1)
    BY <2>1
  <2> HIDE DEF n
  <2>3. Framed(m) \in Seq(Blocks) /\ Framed(n - 1) \in Seq(Blocks)
    BY <2>1, FramedSteps
  <2>4. CASE Branching(Preorder[n - 1]) = {}
    <3>1. Preorder[n] = Preorder[n - 1] /\ Framed(n) = Framed(n - 1)
      BY <2>1, <2>4, FramedSteps
    <3>2. Reached(n)
      BY <2>2, <3>1
    <3> QED BY <3>2 DEF n
  <2>5. CASE Branching(Preorder[n - 1]) # {}
    <3> DEFINE b == NextBlock(Preorder[n - 1])
    <3>1. /\ b \in Blocks
          /\ Framed(n) = IF b \in Kept THEN Append(Framed(n - 1), b) ELSE Framed(n - 1)
      BY <2>1, <2>5, FramedSteps
    <3> HIDE DEF b
    <3>2. Branching(Preorder[m]) # {}
      BY <2>2, <2>5
    <3>3. IsPrefix(Framed(m), Framed(n))
      BY <2>2, <2>3, <3>1, PrefixAppend
    <3>4. Reached(n)
      BY <3>2, <3>3
    <3> QED BY <3>4 DEF n
  <2> QED BY <2>4, <2>5
<1>3. T = Nat
  <2> HIDE DEF T
  <2>1. T \in SUBSET Nat
    BY DEF T
  <2> QED BY <1>1, <1>2, <2>1, AllNumbers
<1>4. Reached(N)
  <2>1. N - m \in Nat /\ m + (N - m) = N /\ N <= N
    BY <1>0
  <2>2. m + (N - m) <= N => Reached(m + (N - m))
    BY <2>1, <1>3
  <2> HIDE DEF Reached
  <2> QED BY <2>1, <2>2
<1> QED BY <1>4, FramedSteps

(***************************************************************************)
(* The stack and the canonical order.  Every place p of the stack s is     *)
(* owned: it is link j[p] of the k[p]-th block visited, later blocks lie   *)
(* above earlier ones and the links of one block lie first on top, and no  *)
(* link that is left at the first `top' blocks is missing.                 *)
(***************************************************************************)
Owned(order, top, s, k, j) ==
    /\ k \in [1 .. Len(s) -> 0 .. top] /\ j \in [1 .. Len(s) -> Nat]
    /\ \A p \in 1 .. Len(s) :
          j[p] \in DOMAIN LinksAt(order, k[p]) /\ s[p] = LinksAt(order, k[p])[j[p]]
    /\ \A p, q \in 1 .. Len(s) : p < q => k[p] < k[q] \/ (k[p] = k[q] /\ j[q] < j[p])
    /\ \A i \in 0 .. top : \A l \in LeftAt(order, i) : \E p \in 1 .. Len(s) : k[p] = i /\ j[p] = l

LEMMA RootOwned ==
    \E k, j : Owned(<<>>, 0, <<Root>>, k, j)
<1> DEFINE s == <<Root>>
           k == [p \in 1 .. 1 |-> 0]
           j == [p \in 1 .. 1 |-> 1]
<1>1. Len(s) = 1 /\ s[1] = Root
  OBVIOUS
<1>2. LinksAt(<<>>, 0) = s /\ DOMAIN s = 1 .. 1
  BY DEF LinksAt
<1> HIDE DEF s
<1>3. /\ k \in [1 .. 1 -> 0 .. 0] /\ j \in [1 .. 1 -> Nat]
      /\ k[1] = 0 /\ j[1] = 1 /\ \A p \in 1 .. 1 : p = 1
      /\ \A i \in 0 .. 0 : i = 0
  OBVIOUS
<1> HIDE DEF k, j
<1>4. \A i \in 0 .. 0 : \A l \in LeftAt(<<>>, i) : \E p \in 1 .. 1 : k[p] = i /\ j[p] = l
  <2>1. ASSUME NEW l \in LeftAt(<<>>, 0) PROVE l = 1
    <3>1. l \in 1 .. 1
      BY <1>2 DEF LeftAt
    <3> QED BY <3>1
  <2> QED BY <2>1, <1>3
<1>5. \A p \in 1 .. 1 :
         j[p] \in DOMAIN LinksAt(<<>>, k[p]) /\ s[p] = LinksAt(<<>>, k[p])[j[p]]
  BY <1>1, <1>2, <1>3
<1>6. \A p, q \in 1 .. 1 : p < q => k[p] < k[q] \/ (k[p] = k[q] /\ j[q] < j[p])
  OBVIOUS
<1>7. Owned(<<>>, 0, s, k, j)
  BY <1>1, <1>3, <1>4, <1>5, <1>6 DEF Owned
<1> QED BY <1>7 DEF s

\* The top of the stack, if it has not been visited, is the next block of the order.
LEMMA TopIsNext ==
    ASSUME NEW order \in Seq(Blocks), NEW s \in Seq(Blocks), s # <<>>, NEW k, NEW j,
           Owned(order, Len(order), s, k, j), ~ Contains(order, Last(s))
    PROVE  Branching(order) # {} /\ NextBlock(order) = Last(s)
<1> DEFINE n == Len(s)
<1>1. n \in Nat /\ n \in 1 .. n /\ Last(s) = s[n] /\ Len(order) \in Nat
  BY EmptySeq, LenProperties DEF Last
<1> HIDE DEF n
<1>2. /\ k \in [1 .. n -> 0 .. Len(order)] /\ j \in [1 .. n -> Nat]
      /\ \A p \in 1 .. n :
            j[p] \in DOMAIN LinksAt(order, k[p]) /\ s[p] = LinksAt(order, k[p])[j[p]]
      /\ \A p, q \in 1 .. n : p < q => k[p] < k[q] \/ (k[p] = k[q] /\ j[q] < j[p])
      /\ \A i \in 0 .. Len(order) : \A l \in LeftAt(order, i) :
            \E p \in 1 .. n : k[p] = i /\ j[p] = l
  BY DEF Owned, n
<1>3. k[n] \in 0 .. Len(order) /\ j[n] \in LeftAt(order, k[n])
  BY <1>1, <1>2 DEF LeftAt
<1>4. k[n] \in Branching(order)
  BY <1>3 DEF Branching
<1>5. ASSUME NEW i \in Branching(order) PROVE i <= k[n]
  <2>1. i \in 0 .. Len(order) /\ LeftAt(order, i) # {}
    BY DEF Branching
  <2>2. PICK l \in LeftAt(order, i) : TRUE
    BY <2>1
  <2>3. PICK p \in 1 .. n : k[p] = i /\ j[p] = l
    BY <1>2, <2>1
  <2>4. p = n \/ p < n
    BY <1>1
  <2>5. i = k[n] \/ i < k[n]
    BY <2>3, <2>4, <1>1, <1>2
  <2>6. i \in Int /\ k[n] \in Int
    BY <2>1, <1>3
  <2> QED BY <2>5, <2>6
<1>6. ASSUME NEW l \in LeftAt(order, k[n]) PROVE j[n] <= l
  <2>1. PICK p \in 1 .. n : k[p] = k[n] /\ j[p] = l
    BY <1>2, <1>3
  <2>2. p = n \/ p < n
    BY <1>1
  <2>3. k[n] \in Int /\ j[n] \in Int /\ j[p] \in Int
    BY <1>1, <1>2
  <2>4. j[n] = j[p] \/ j[n] < j[p]
    <3>1. CASE p = n
      BY <3>1
    <3>2. CASE p < n
      <4>1. k[p] < k[n] \/ (k[p] = k[n] /\ j[n] < j[p])
        BY <3>2, <1>1, <1>2
      <4> QED BY <4>1, <2>1, <2>3
    <3> QED BY <2>2, <3>1, <3>2
  <2> QED BY <2>1, <2>3, <2>4
<1>7. NextBlock(order) = LinksAt(order, k[n])[j[n]]
  BY <1>3, <1>4, <1>5, <1>6, NextBlockIs
<1> QED BY <1>1, <1>2, <1>4, <1>7

\* With nothing on the stack, nothing is left.
LEMMA EmptyIsComplete ==
    ASSUME NEW order \in Seq(Blocks), NEW k, NEW j, Owned(order, Len(order), <<>>, k, j)
    PROVE  Branching(order) = {}
<1>1. 1 .. Len(<<>>) = {}
  OBVIOUS
<1>2. ASSUME NEW i \in 0 .. Len(order), NEW l \in LeftAt(order, i) PROVE FALSE
  BY <1>1, <1>2 DEF Owned
<1> QED BY <1>2 DEF Branching

\* The top is popped: what it was, if it was left at all, is no longer left.
LEMMA PopOwned ==
    ASSUME NEW order, NEW after, NEW top, NEW s \in Seq(Blocks), s # <<>>, NEW k, NEW j,
           Owned(order, top, s, k, j),
           \A i \in 0 .. top :
              /\ LinksAt(after, i) = LinksAt(order, i)
              /\ LeftAt(after, i) \subseteq LeftAt(order, i)
              /\ \A l \in LeftAt(after, i) : LinksAt(order, i)[l] # Last(s)
    PROVE  \E kk, jj : Owned(after, top, Front(s), kk, jj)
<1> DEFINE n == Len(s)
           f == Front(s)
           kk == [p \in 1 .. n - 1 |-> k[p]]
           jj == [p \in 1 .. n - 1 |-> j[p]]
<1>1. n \in Nat /\ n \in 1 .. n /\ Last(s) = s[n]
  BY EmptySeq, LenProperties DEF Last
<1>2. Len(f) = n - 1 /\ \A p \in 1 .. n - 1 : f[p] = s[p]
  BY FrontSeq
<1>3. /\ k \in [1 .. n -> 0 .. top] /\ j \in [1 .. n -> Nat]
      /\ \A p \in 1 .. n :
            j[p] \in DOMAIN LinksAt(order, k[p]) /\ s[p] = LinksAt(order, k[p])[j[p]]
      /\ \A p, q \in 1 .. n : p < q => k[p] < k[q] \/ (k[p] = k[q] /\ j[q] < j[p])
      /\ \A i \in 0 .. top : \A l \in LeftAt(order, i) :
            \E p \in 1 .. n : k[p] = i /\ j[p] = l
  BY DEF Owned
<1> HIDE DEF n, f
<1>4. \A p \in 1 .. n - 1 : p \in 1 .. n
  BY <1>1
<1>5. /\ kk \in [1 .. n - 1 -> 0 .. top] /\ jj \in [1 .. n - 1 -> Nat]
      /\ \A p \in 1 .. n - 1 : kk[p] = k[p] /\ jj[p] = j[p]
  BY <1>3, <1>4
<1> HIDE DEF kk, jj
<1>6. ASSUME NEW p \in 1 .. n - 1
      PROVE  jj[p] \in DOMAIN LinksAt(after, kk[p]) /\ f[p] = LinksAt(after, kk[p])[jj[p]]
  <2>1. k[p] \in 0 .. top
    BY <1>3, <1>4
  <2>2. LinksAt(after, k[p]) = LinksAt(order, k[p])
    BY <2>1
  <2> QED BY <2>2, <1>2, <1>3, <1>4, <1>5
<1>7. ASSUME NEW p \in 1 .. n - 1, NEW q \in 1 .. n - 1, p < q
      PROVE  kk[p] < kk[q] \/ (kk[p] = kk[q] /\ jj[q] < jj[p])
  <2>1. k[p] < k[q] \/ (k[p] = k[q] /\ j[q] < j[p])
    BY <1>3, <1>4, <1>7
  <2> QED BY <2>1, <1>5
<1>8. ASSUME NEW i \in 0 .. top, NEW l \in LeftAt(after, i)
      PROVE  \E p \in 1 .. n - 1 : kk[p] = i /\ jj[p] = l
  <2>1. l \in LeftAt(order, i) /\ LinksAt(order, i)[l] # s[n]
    BY <1>1
  <2>2. PICK p \in 1 .. n : k[p] = i /\ j[p] = l
    BY <2>1, <1>3
  <2>3. p # n
    BY <2>1, <2>2, <1>3
  <2>4. p \in 1 .. n - 1
    BY <2>3, <1>1
  <2> QED BY <2>2, <2>4, <1>5
<1>9. Owned(after, top, f, kk, jj)
  BY <1>2, <1>5, <1>6, <1>7, <1>8 DEF Owned
<1> QED BY <1>9 DEF f

\* Taking up a block: what the stack below it owns of the order without it and with it.
LEMMA PopSeen ==
    ASSUME NEW order, NEW top, NEW s \in Seq(Blocks), s # <<>>, NEW k, NEW j,
           Owned(order, top, s, k, j), Contains(order, Last(s))
    PROVE  \E kk, jj : Owned(order, top, Front(s), kk, jj)
<1>1. ASSUME NEW i \in 0 .. top, NEW l \in LeftAt(order, i)
      PROVE  LinksAt(order, i)[l] # Last(s)
  BY DEF LeftAt
<1> QED BY <1>1, PopOwned

LEMMA PopUnseen ==
    ASSUME NEW order \in Seq(Blocks), NEW s \in Seq(Blocks), s # <<>>, NEW k, NEW j,
           Owned(order, Len(order), s, k, j)
    PROVE  \E kk, jj : Owned(Append(order, Last(s)), Len(order), Front(s), kk, jj)
<1> DEFINE b == Last(s)
           after == Append(order, b)
<1>1. b \in Blocks
  BY EmptySeq, ElementOfSeq DEF Last
<1> HIDE DEF b
<1>2. /\ Len(order) \in Nat /\ Len(after) = Len(order) + 1 /\ after[Len(order) + 1] = b
      /\ \A i \in 1 .. Len(order) : after[i] = order[i]
  BY <1>1, LenProperties, AppendProperties
<1> HIDE DEF after
<1>3. ASSUME NEW i \in 0 .. Len(order) PROVE LinksAt(after, i) = LinksAt(order, i)
  <2>1. i = 0 \/ i \in 1 .. Len(order)
    BY <1>2
  <2> QED BY <2>1, <1>2 DEF LinksAt
<1>4. Contains(after, b) /\ \A x : Contains(order, x) => Contains(after, x)
  <2>1. Len(order) + 1 \in 1 .. Len(after) /\ \A i \in 1 .. Len(order) : i \in 1 .. Len(after)
    BY <1>2
  <2> QED BY <2>1, <1>2 DEF Contains
<1>5. ASSUME NEW i \in 0 .. Len(order)
      PROVE  /\ LinksAt(after, i) = LinksAt(order, i)
             /\ LeftAt(after, i) \subseteq LeftAt(order, i)
             /\ \A l \in LeftAt(after, i) : LinksAt(order, i)[l] # b
  BY <1>3, <1>4 DEF LeftAt
<1>6. \E kk, jj : Owned(after, Len(order), Front(s), kk, jj)
  BY <1>5, PopOwned DEF b
<1> QED BY <1>6 DEF after, b

\* The links of the last block visited are pushed, the first of them on top.
LEMMA PushOwned ==
    ASSUME NEW order \in Seq(Blocks), NEW n \in Nat, Len(order) = n + 1,
           NEW s \in Seq(Blocks), NEW k, NEW j, Owned(order, n, s, k, j),
           NEW left, left = Only(Links[order[n + 1]], Blocks \ ToSet(order))
    PROVE  \E kk, jj : Owned(order, n + 1, s \o Reverse(left), kk, jj)
<1> DEFINE links == Links[order[n + 1]]
           free == Blocks \ ToSet(order)
           m == Len(left)
           q0 == Len(s)
           r == Reverse(left)
           t == s \o r
<1>1. links \in Seq(Blocks) /\ LinksAt(order, n + 1) = links
  <2>1. order[n + 1] \in Blocks
    BY ElementOfSeq
  <2> QED BY <2>1, BlocksFinite DEF LinksAt
<1>2. PICK h : Sieved(links, free, Len(links), left, h)
  BY <1>1, OnlySieves
<1> HIDE DEF links, free
<1>3. /\ left \in Seq(Blocks) /\ m \in Nat /\ q0 \in Nat /\ Len(links) \in Nat
      /\ \A i \in 1 .. Len(links) : links[i] \in Blocks
      /\ DOMAIN links = 1 .. Len(links)
      /\ \A i \in 1 .. m : left[i] \in Blocks
  <2>1. left \in Seq(Blocks)
    BY <1>1, OnlySeq DEF links, free
  <2>2. /\ Len(links) \in Nat /\ DOMAIN links = 1 .. Len(links)
        /\ \A i \in 1 .. Len(links) : links[i] \in Blocks
    BY <1>1, LenProperties
  <2> QED BY <2>1, <2>2, LenProperties
<1>4. r \in Seq(Blocks) /\ Len(r) = m /\ \A i \in 1 .. m : r[i] = left[m - i + 1]
  BY <1>3, ReverseSeq
<1> HIDE DEF r, m
<1>5. /\ Len(t) = q0 + m
      /\ \A p \in 1 .. q0 : t[p] = s[p]
      /\ \A p \in q0 + 1 .. q0 + m : t[p] = left[m - (p - q0) + 1]
  <2>1. /\ Len(t) = q0 + m
        /\ \A p \in 1 .. q0 + m : t[p] = IF p <= q0 THEN s[p] ELSE r[p - q0]
    BY <1>4, ConcatProperties
  <2> HIDE DEF t, q0
  <2>2. \A p \in 1 .. q0 : p \in 1 .. q0 + m /\ p <= q0
    BY <1>3
  <2>3. \A p \in q0 + 1 .. q0 + m : p \in 1 .. q0 + m /\ ~ (p <= q0) /\ p - q0 \in 1 .. m
    BY <1>3
  <2> QED BY <2>1, <2>2, <2>3, <1>4
<1>6. /\ k \in [1 .. q0 -> 0 .. n] /\ j \in [1 .. q0 -> Nat]
      /\ \A p \in 1 .. q0 :
            j[p] \in DOMAIN LinksAt(order, k[p]) /\ s[p] = LinksAt(order, k[p])[j[p]]
      /\ \A p, q \in 1 .. q0 : p < q => k[p] < k[q] \/ (k[p] = k[q] /\ j[q] < j[p])
      /\ \A i \in 0 .. n : \A l \in LeftAt(order, i) :
            \E p \in 1 .. q0 : k[p] = i /\ j[p] = l
  BY DEF Owned
<1>7. /\ h \in [1 .. m -> 1 .. Len(links)]
      /\ \A i \in 1 .. m : left[i] = links[h[i]] /\ links[h[i]] \in free
      /\ \A i, l \in 1 .. m : i < l => h[i] < h[l]
      /\ \A l \in 1 .. Len(links) : links[l] \in free => \E i \in 1 .. m : h[i] = l
  BY <1>2 DEF Sieved, m
<1> DEFINE place(p) == m - (p - q0) + 1
           kk == [p \in 1 .. q0 + m |-> IF p <= q0 THEN k[p] ELSE n + 1]
           jj == [p \in 1 .. q0 + m |-> IF p <= q0 THEN j[p] ELSE h[place(p)]]
<1> HIDE DEF t, q0
<1>8. \A p \in 1 .. q0 + m : p \in 1 .. q0 \/ p \in q0 + 1 .. q0 + m
  BY <1>3
<1>9. /\ \A p \in 1 .. q0 : kk[p] = k[p] /\ jj[p] = j[p]
      /\ \A p \in q0 + 1 .. q0 + m :
            kk[p] = n + 1 /\ jj[p] = h[place(p)] /\ place(p) \in 1 .. m
  <2>1. \A p \in 1 .. q0 : p \in 1 .. q0 + m /\ p <= q0
    BY <1>3
  <2>2. \A p \in q0 + 1 .. q0 + m : p \in 1 .. q0 + m /\ ~ (p <= q0) /\ place(p) \in 1 .. m
    BY <1>3
  <2> QED BY <2>1, <2>2
<1>10. kk \in [1 .. q0 + m -> 0 .. n + 1] /\ jj \in [1 .. q0 + m -> Nat]
  <2> HIDE DEF place
  <2>0. kk = [p \in 1 .. q0 + m |-> kk[p]] /\ jj = [p \in 1 .. q0 + m |-> jj[p]]
    OBVIOUS
  <2> HIDE DEF kk, jj
  <2>1. ASSUME NEW p \in 1 .. q0 + m PROVE kk[p] \in 0 .. n + 1 /\ jj[p] \in Nat
    <3>1. CASE p \in 1 .. q0
      <4>1. k[p] \in 0 .. n /\ j[p] \in Nat
        BY <3>1, <1>6
      <4> QED BY <3>1, <4>1, <1>9
    <3>2. CASE p \in q0 + 1 .. q0 + m
      <4>1. h[place(p)] \in 1 .. Len(links)
        BY <3>2, <1>7, <1>9
      <4> QED BY <3>2, <4>1, <1>9, <1>3
    <3> QED BY <3>1, <3>2, <1>8
  <2> QED BY <2>0, <2>1
<1> HIDE DEF kk, jj
<1>11. ASSUME NEW p \in 1 .. q0 + m
       PROVE  jj[p] \in DOMAIN LinksAt(order, kk[p]) /\ t[p] = LinksAt(order, kk[p])[jj[p]]
  <2>1. CASE p \in 1 .. q0
    BY <2>1, <1>5, <1>6, <1>9
  <2>2. CASE p \in q0 + 1 .. q0 + m
    <3>1. kk[p] = n + 1 /\ jj[p] = h[place(p)] /\ place(p) \in 1 .. m /\ t[p] = left[place(p)]
      BY <2>2, <1>5, <1>9
    <3> HIDE DEF place
    <3>2. h[place(p)] \in DOMAIN links /\ left[place(p)] = links[h[place(p)]]
      BY <3>1, <1>3, <1>7
    <3> QED BY <3>1, <3>2, <1>1
  <2> QED BY <2>1, <2>2, <1>8
<1>12. ASSUME NEW p \in 1 .. q0 + m, NEW q \in 1 .. q0 + m, p < q
       PROVE  kk[p] < kk[q] \/ (kk[p] = kk[q] /\ jj[q] < jj[p])
  <2>1. CASE p \in 1 .. q0 /\ q \in 1 .. q0
    <3>1. k[p] < k[q] \/ (k[p] = k[q] /\ j[q] < j[p])
      BY <2>1, <1>6, <1>12
    <3> QED BY <2>1, <3>1, <1>9
  <2>2. CASE p \in 1 .. q0 /\ q \in q0 + 1 .. q0 + m
    <3>1. kk[p] \in 0 .. n /\ kk[q] = n + 1
      BY <2>2, <1>6, <1>9
    <3> QED BY <3>1
  <2>3. CASE p \in q0 + 1 .. q0 + m /\ q \in q0 + 1 .. q0 + m
    <3>1. place(q) < place(p)
      BY <2>3, <1>3, <1>12
    <3>2. /\ kk[p] = n + 1 /\ jj[p] = h[place(p)] /\ place(p) \in 1 .. m
          /\ kk[q] = n + 1 /\ jj[q] = h[place(q)] /\ place(q) \in 1 .. m
      BY <2>3, <1>9
    <3> HIDE DEF place
    <3> QED BY <3>1, <3>2, <1>7
  <2>4. ~ (p \in q0 + 1 .. q0 + m /\ q \in 1 .. q0)
    BY <1>3, <1>12
  <2> QED BY <2>1, <2>2, <2>3, <2>4, <1>8
<1>13. ASSUME NEW i \in 0 .. n + 1, NEW l \in LeftAt(order, i)
       PROVE  \E p \in 1 .. q0 + m : kk[p] = i /\ jj[p] = l
  <2>1. CASE i \in 0 .. n
    <3>1. PICK p \in 1 .. q0 : k[p] = i /\ j[p] = l
      BY <2>1, <1>6
    <3>2. p \in 1 .. q0 + m
      BY <1>3
    <3> QED BY <3>1, <3>2, <1>9
  <2>2. CASE i = n + 1
    <3>1. l \in 1 .. Len(links) /\ ~ Contains(order, links[l])
      BY <2>2, <1>1, <1>3 DEF LeftAt
    <3>2. links[l] \in free
      <4>1. ToSet(order) = {order[x] : x \in 1 .. Len(order)}
        BY LenProperties DEF ToSet
      <4> QED BY <3>1, <4>1, <1>3 DEF Contains, free
    <3>3. PICK x \in 1 .. m : h[x] = l
      BY <3>1, <3>2, <1>7
    <3> DEFINE p == q0 + (m - x + 1)
    <3>4. p \in q0 + 1 .. q0 + m /\ p \in 1 .. q0 + m /\ place(p) = x
      <4>1. q0 \in Nat /\ m \in Nat /\ x \in Int /\ 1 <= x /\ x <= m
        BY <1>3
      <4>2. p \in Int /\ q0 + 1 <= p /\ p <= q0 + m /\ place(p) = x
        BY <4>1
      <4> HIDE DEF p, place
      <4> QED BY <4>1, <4>2
    <3> HIDE DEF p, place
    <3> QED BY <2>2, <3>3, <3>4, <1>9
  <2>3. i \in 0 .. n \/ i = n + 1
    OBVIOUS
  <2> QED BY <2>1, <2>2, <2>3
<1>14. Owned(order, n + 1, t, kk, jj)
  BY <1>5, <1>10, <1>11, <1>12, <1>13 DEF Owned
<1> QED BY <1>14 DEF t, r

(***************************************************************************)
(* Type correctness.                                                       *)
(***************************************************************************)
LEMMA InFinite ==
    ASSUME NEW g, NEW state, NEW h, NEW other
    PROVE  /\ Cardinality(In(g, state)) \in Nat
           /\ Cardinality(In(g, state) \ In(h, other)) \in Nat
           /\ Cardinality(In(g, state)) = 0 => In(g, state) = {}
           /\ Cardinality(In(g, state) \ In(h, other)) = 0 =>
                 In(g, state) \subseteq In(h, other)
<1>1. IsFiniteSet(Blocks)
  BY ExportAssumption
<1>2. In(g, state) \in SUBSET Blocks /\ In(g, state) \ In(h, other) \in SUBSET Blocks
  BY DEF In
<1>3. IsFiniteSet(In(g, state)) /\ IsFiniteSet(In(g, state) \ In(h, other))
  BY <1>1, <1>2, FS_Subset
<1> QED BY <1>3, FS_CardinalityType, FS_EmptySet

LEMMA RequestType ==
    ASSUME ExportTypeOK, NEW asked, Request(asked)
    PROVE  /\ got' \in [Blocks -> Requests] /\ arrived' \subseteq Blocks /\ gapFills' \in Nat
           /\ pump' \in {"off", "reading", "paused", "over"}
<1>1. got' \in [Blocks -> Requests] /\ arrived' \subseteq Blocks
  <2>1. \A b \in Blocks : GetState(b) \in Requests
    BY DEF GetState, Requests
  <2>2. got' = [b \in Blocks |-> IF b \in asked THEN GetState(b) ELSE got[b]]
    BY DEF Request
  <2>3. \A b \in Blocks : got[b] \in Requests
    BY DEF ExportTypeOK
  <2>4. got' \in [Blocks -> Requests]
    BY <2>1, <2>2, <2>3
  <2> QED BY <2>4 DEF Request, ExportTypeOK
<1>2. gapFills' \in Nat
  <2>1. gapFills' = gapFills + Cardinality(In(got', "filling") \ In(got, "filling"))
    BY DEF Request
  <2>2. Cardinality(In(got', "filling") \ In(got, "filling")) \in Nat
    BY InFinite
  <2> QED BY <2>1, <2>2 DEF ExportTypeOK
<1>3. pump' \in {"off", "reading", "paused", "over"}
  BY DEF Request, Resume, ExportTypeOK
<1> QED BY <1>1, <1>2, <1>3

LEMMA ExportTypeInit == ExportInit => ExportTypeOK
<1> SUFFICES ASSUME ExportInit PROVE ExportTypeOK
  OBVIOUS
<1>1. stack \in Seq(Blocks) /\ cur \in Blocks /\ out \in Seq(Blocks)
  BY BlocksFinite DEF ExportInit
<1>2. frames \in Seq([block : Blocks, valid : BOOLEAN]) /\ sent \in Streams
  BY ExportAssumption DEF ExportInit
<1>3. got \in [Blocks -> Requests]
  BY DEF ExportInit, Requests
<1> QED BY <1>1, <1>2, <1>3 DEF ExportInit, ExportTypeOK

LEMMA WalkType == ExportTypeOK /\ Walk => ExportTypeOK'
<1> SUFFICES ASSUME ExportTypeOK, Walk PROVE ExportTypeOK'
  OBVIOUS
<1>1. stack \in Seq(Blocks) /\ stack # <<>>
  BY DEF ExportTypeOK, Walk
<1>2. stack' \in Seq(Blocks) /\ Last(stack) \in Blocks
  BY <1>1, FrontSeq DEF Walk
<1>3. /\ got' \in [Blocks -> Requests] /\ arrived' \subseteq Blocks /\ gapFills' \in Nat
      /\ pump' \in {"off", "reading", "paused", "over"}
  BY RequestType DEF Walk
<1>4. /\ seen' \subseteq Blocks /\ cur' \in Blocks
      /\ walk' \in {"walk", "await", "put", "expand", "ended", "failed"}
  BY <1>2 DEF Walk, ExportTypeOK
<1> QED BY <1>2, <1>3, <1>4 DEF Walk, ExportTypeOK, sourceVars

LEMMA ExportTypeStep == ExportTypeOK /\ [ExportNext]_carVars => ExportTypeOK'
<1> SUFFICES ASSUME ExportTypeOK, [ExportNext]_carVars PROVE ExportTypeOK'
  OBVIOUS
<1>1. CASE Frame
  <2>1. frames \in Seq([block : Blocks, valid : BOOLEAN]) /\ frames # <<>>
    BY <1>1 DEF ExportTypeOK, Frame
  <2>2. /\ Head(frames) \in [block : Blocks, valid : BOOLEAN]
        /\ Tail(frames) \in Seq([block : Blocks, valid : BOOLEAN])
    BY <2>1, HeadTailProperties
  <2>3. frames' \in Seq([block : Blocks, valid : BOOLEAN])
    BY <1>1, <2>2 DEF Frame
  <2>4. got' \in [Blocks -> Requests] /\ arrived' \subseteq Blocks
    BY <1>1, <2>2 DEF Frame, ExportTypeOK, Requests
  <2>5. pump' \in {"off", "reading", "paused", "over"}
    BY <1>1 DEF Frame
  <2> QED BY <1>1, <2>3, <2>4, <2>5 DEF Frame, ExportTypeOK, exportVars
<1>2. CASE StreamOver
  <2>1. gapFills' \in Nat
    <3>1. gapFills' = gapFills + Cardinality(In(got, "waiting"))
      BY <1>2 DEF StreamOver
    <3>2. Cardinality(In(got, "waiting")) \in Nat
      BY InFinite
    <3> QED BY <3>1, <3>2 DEF ExportTypeOK
  <2> QED BY <1>2, <2>1 DEF StreamOver, ExportTypeOK, Requests, exportVars, sourceVars
<1>3. CASE Walk
  BY <1>3, WalkType
<1>4. CASE BlockReady
  BY <1>4 DEF BlockReady, ExportTypeOK, Requests, sourceVars
<1>5. CASE Put
  <2>1. out' \in Seq(Blocks)
    BY <1>5, AppendProperties DEF Put, ExportTypeOK
  <2> QED BY <1>5, <2>1 DEF Put, ExportTypeOK, sourceVars
<1>6. CASE Expand
  <2>1. Links[cur] \in Seq(Blocks)
    BY BlocksFinite DEF ExportTypeOK
  <2>2. LinksToPush(cur) \in Seq(Blocks)
    BY <2>1, OnlySeq, ReverseSeq DEF LinksToPush
  <2>3. stack' \in Seq(Blocks)
    BY <1>6, <2>2, ConcatProperties DEF Expand, ExportTypeOK
  <2> QED BY <1>6, <2>3 DEF Expand, ExportTypeOK, sourceVars
<1>7. CASE WalkEnds \/ WalkFails
  BY <1>7 DEF WalkEnds, WalkFails, ExportTypeOK, sourceVars
<1>8. CASE ExportOver \/ ConsumerStops
  BY <1>8 DEF ExportOver, ConsumerStops, StopExport, ReleaseGets, ExportTypeOK, Requests,
              sourceVars
<1>9. CASE Close
  BY <1>9 DEF Close, ReleaseGets, ExportTypeOK, Requests, exportVars
<1>10. ASSUME NEW b \in Blocks, Fill(b) PROVE ExportTypeOK'
  BY <1>10 DEF Fill, FillOk, FillFails, ExportTypeOK, Requests, exportVars, sourceVars
<1>11. CASE CallerAborts
  BY <1>11 DEF CallerAborts, ReleaseGets, ExportTypeOK, Requests
<1>12. CASE UNCHANGED carVars
  BY <1>12 DEF carVars, ExportTypeOK, exportVars, sourceVars
<1> QED BY <1>1, <1>2, <1>3, <1>4, <1>5, <1>6, <1>7, <1>8, <1>9, <1>10, <1>11, <1>12
        DEF ExportNext, SourceStep, WalkStep, Teardown

(***************************************************************************)
(* The CAR is the canonical one.  What has been visited is, in order, the  *)
(* beginning of the canonical order, and the stack owns what is left of it *)
(* (of the block being exported nothing has been pushed yet).              *)
(***************************************************************************)
Visited == Preorder[Cardinality(seen)]
Exporting == walk \in {"await", "put", "expand"}
Pushed == IF Exporting THEN Cardinality(seen) - 1 ELSE Cardinality(seen)

OrderInv ==
    /\ Len(Visited) = Cardinality(seen) /\ ToSet(Visited) = seen
    /\ Exporting => seen # {} /\ cur = Visited[Cardinality(seen)]
    /\ walk \in {"walk", "expand", "ended"} => out = Framed(Cardinality(seen))
    /\ walk \in {"await", "put"} => cur \in Kept /\ out = Framed(Cardinality(seen) - 1)
    /\ walk = "failed" => \E m \in 0 .. N : out = Framed(m)
    /\ walk = "ended" => stack = <<>>
    /\ walk # "failed" => \E k, j : Owned(Visited, Pushed, stack, k, j)

LEMMA PreorderShort == \A n \in 0 .. N : Len(Preorder[n]) <= n
<1> DEFINE T == {n \in Nat : n <= N => Len(Preorder[n]) \in 0 .. n}
<1>0. N \in Nat
  BY BlocksFinite
<1>1. 0 \in T
  BY PreorderSteps
<1>2. ASSUME NEW n \in T PROVE n + 1 \in T
  <2> SUFFICES ASSUME n + 1 <= N PROVE Len(Preorder[n + 1]) \in 0 .. n + 1
    OBVIOUS
  <2>1. /\ n + 1 \in 1 .. N /\ (n + 1) - 1 = n /\ n \in 0 .. N /\ n \in Nat
        /\ Len(Preorder[n]) \in 0 .. n
    BY <1>0
  <2>2. Preorder[n] \in Seq(Blocks)
    BY <2>1, PreorderSteps
  <2> DEFINE b == NextBlock(Preorder[n])
  <2>3. \/ Preorder[n + 1] = Preorder[n]
        \/ b \in Blocks /\ Preorder[n + 1] = Append(Preorder[n], b)
    BY <2>1, FramedSteps
  <2> HIDE DEF b
  <2>4. b \in Blocks => Len(Append(Preorder[n], b)) = Len(Preorder[n]) + 1
    BY <2>2, AppendProperties
  <2> QED BY <2>1, <2>3, <2>4
<1>3. T = Nat
  <2> HIDE DEF T
  <2>1. T \in SUBSET Nat
    BY DEF T
  <2> QED BY <1>1, <1>2, <2>1, AllNumbers
<1>4. ASSUME NEW n \in 0 .. N PROVE Len(Preorder[n]) <= n
  <2>1. n \in T /\ n <= N /\ n \in Nat
    BY <1>0, <1>3
  <2>2. Len(Preorder[n]) \in 0 .. n
    BY <2>1
  <2> QED BY <2>1, <2>2
<1> QED BY <1>4

LEMMA SeenFinite ==
    ASSUME ExportTypeOK
    PROVE  /\ IsFiniteSet(seen) /\ Cardinality(seen) \in 0 .. N
           /\ Visited \in Seq(Blocks)
           /\ seen # {} => Cardinality(seen) \in 1 .. N /\ Cardinality(seen) - 1 \in 0 .. N
<1>1. seen \in SUBSET Blocks /\ IsFiniteSet(Blocks)
  BY ExportAssumption DEF ExportTypeOK
<1>2. /\ IsFiniteSet(seen) /\ Cardinality(seen) <= N
      /\ Cardinality(seen) \in Nat /\ (Cardinality(seen) = 0 <=> seen = {})
  BY <1>1, FS_Subset, FS_CardinalityType, FS_EmptySet DEF N
<1>3. Cardinality(seen) \in 0 .. N
  BY <1>2, BlocksFinite
<1>4. seen # {} => Cardinality(seen) \in 1 .. N /\ Cardinality(seen) - 1 \in 0 .. N
  BY <1>2, BlocksFinite
<1> QED BY <1>2, <1>3, <1>4, PreorderSteps DEF Visited

LEMMA OrderInit == ExportInit => OrderInv
<1> SUFFICES ASSUME ExportInit PROVE OrderInv
  OBVIOUS
<1>1. /\ stack = <<Root>> /\ seen = {} /\ walk = "walk" /\ out = <<>>
      /\ ~ Exporting
  BY DEF ExportInit, Exporting
<1>2. Cardinality(seen) = 0 /\ Visited = <<>> /\ Len(Visited) = 0 /\ ToSet(Visited) = seen
  <2>1. Cardinality(seen) = 0
    BY <1>1, FS_EmptySet
  <2>2. Visited = <<>>
    BY <2>1, PreorderSteps DEF Visited
  <2> QED BY <1>1, <2>1, <2>2 DEF ToSet
<1>3. Framed(0) = <<>>
  <2>1. <<>> \in Seq(Blocks) /\ Len(<<>>) = 0
    BY EmptySeq
  <2>2. PICK f \in [0 .. Len(<<>>) -> Seq(Blocks)] :
           Keeping(f, <<>>, Kept) /\ Only(<<>>, Kept) = f[Len(<<>>)]
    BY <2>1, OnlySteps
  <2> QED BY <2>1, <2>2, PreorderSteps DEF Framed, Keeping
<1>4. \E k, j : Owned(Visited, Pushed, stack, k, j)
  BY <1>1, <1>2, RootOwned DEF Pushed
<1> QED BY <1>1, <1>2, <1>3, <1>4 DEF OrderInv

LEMMA OrderWalk == ExportTypeOK /\ OrderInv /\ Walk => OrderInv'
<1> SUFFICES ASSUME ExportTypeOK, OrderInv, Walk PROVE OrderInv'
  OBVIOUS
<1> DEFINE b == Last(stack)
           n == Cardinality(seen)
<1>1. /\ walk = "walk" /\ stack # <<>> /\ stack \in Seq(Blocks)
      /\ stack' = Front(stack) /\ out' = out
  BY DEF Walk, ExportTypeOK
<1>2. b \in Blocks
  BY <1>1, FrontSeq
<1>3. /\ IsFiniteSet(seen) /\ n \in 0 .. N /\ Visited \in Seq(Blocks)
      /\ n \in Nat /\ N \in Nat
  BY SeenFinite, BlocksFinite
<1>4. /\ Len(Visited) = n /\ ToSet(Visited) = seen /\ Visited = Preorder[n]
      /\ out = Framed(n) /\ Pushed = n
  BY <1>1 DEF OrderInv, Visited, Pushed, Exporting
<1>5. PICK k, j : Owned(Visited, n, stack, k, j)
  BY <1>1, <1>4 DEF OrderInv
<1>6. Contains(Visited, b) <=> b \in seen
  <2>1. DOMAIN Visited = 1 .. Len(Visited)
    BY <1>3, LenProperties
  <2> QED BY <2>1, <1>4 DEF Contains, ToSet
<1>7. CASE b \in seen
  <2>1. seen' = seen /\ cur' = cur /\ walk' = "walk"
    BY <1>1, <1>7 DEF Walk
  <2>2. Visited' = Visited /\ ~ Exporting' /\ Pushed' = n
    BY <2>1 DEF Visited, Exporting, Pushed
  <2>3. \E kk, jj : Owned(Visited, n, Front(stack), kk, jj)
    BY <1>1, <1>5, <1>6, <1>7, PopSeen
  <2>4. \E kk, jj : Owned(Visited', Pushed', stack', kk, jj)
    BY <2>2, <2>3, <1>1
  <2> QED BY <2>1, <2>2, <2>4, <1>1, <1>4 DEF OrderInv
<1>8. CASE b \notin seen
  <2>1. seen' = seen \cup {b} /\ cur' = b /\ walk' = IF b \in Identity THEN "expand" ELSE "await"
    BY <1>8 DEF Walk
  <2>2. Cardinality(seen') = n + 1 /\ n + 1 \in 1 .. N
    <3>1. Cardinality(seen') = n + 1
      BY <1>3, <1>8, <2>1, FS_AddElement
    <3>2. seen' \in SUBSET Blocks /\ IsFiniteSet(Blocks)
      BY <2>1, <1>2, ExportAssumption DEF ExportTypeOK
    <3>3. Cardinality(seen') <= N
      BY <3>2, FS_Subset DEF N
    <3> QED BY <3>1, <3>3, <1>3
  <2>3. Branching(Visited) # {} /\ NextBlock(Visited) = b
    BY <1>1, <1>3, <1>4, <1>5, <1>6, <1>8, TopIsNext
  <2>4. /\ Preorder[n + 1] = Append(Visited, b)
        /\ Framed(n + 1) = IF b \in Kept THEN Append(Framed(n), b) ELSE Framed(n)
    <3>1. (n + 1) - 1 = n
      BY <1>3
    <3> HIDE DEF n, b
    <3> QED BY <3>1, <2>2, <2>3, <1>4, FramedSteps
  <2>5. Visited' = Append(Visited, b) /\ Exporting' /\ Pushed' = n
    <3>1. Exporting'
      BY <2>1 DEF Exporting
    <3>2. Pushed' = n
      BY <3>1, <2>2, <1>3 DEF Pushed
    <3> QED BY <3>1, <3>2, <2>2, <2>4 DEF Visited
  <2>6. /\ Len(Visited') = n + 1 /\ Visited'[n + 1] = b
        /\ ToSet(Visited') = seen'
    <3> DEFINE a == Append(Visited, b)
    <3>1. /\ a \in Seq(Blocks) /\ Len(a) = n + 1 /\ a[n + 1] = b
          /\ \A i \in 1 .. n : a[i] = Visited[i]
      BY <1>2, <1>3, <1>4, AppendProperties
    <3> HIDE DEF a
    <3>2. ToSet(a) = {a[i] : i \in 1 .. n + 1} /\ seen = {Visited[i] : i \in 1 .. n}
      BY <3>1, <1>3, <1>4, LenProperties DEF ToSet
    <3>3. \A i \in 1 .. n + 1 : i \in 1 .. n \/ i = n + 1
      BY <1>3
    <3>4. n + 1 \in 1 .. n + 1 /\ \A i \in 1 .. n : i \in 1 .. n + 1
      BY <1>3
    <3>5. ToSet(a) = seen \cup {b}
      <4> HIDE DEF n, b
      <4>1. ToSet(a) \subseteq seen \cup {b}
        BY <3>1, <3>2, <3>3
      <4>2. seen \cup {b} \subseteq ToSet(a)
        BY <3>1, <3>2, <3>4
      <4> QED BY <4>1, <4>2
    <3> QED BY <3>1, <3>5, <2>1, <2>5 DEF a
  <2>7. \E kk, jj : Owned(Append(Visited, b), n, Front(stack), kk, jj)
    BY <1>1, <1>3, <1>4, <1>5, PopUnseen
  <2>8. \E kk, jj : Owned(Visited', Pushed', stack', kk, jj)
    BY <2>5, <2>7, <1>1
  <2>9. seen' # {} /\ cur' = Visited'[Cardinality(seen')]
    BY <2>1, <2>2, <2>6
  <2>10. walk' = "expand" => out' = Framed(Cardinality(seen'))
    <3>1. walk' = "expand" => b \notin Kept
      BY <2>1 DEF Kept
    <3> QED BY <3>1, <2>2, <2>4, <1>1, <1>4
  <2>11. walk' = "await" => cur' \in Kept /\ out' = Framed(Cardinality(seen') - 1)
    <3>1. walk' = "await" => b \in Kept
      BY <2>1, <1>2 DEF Kept
    <3>2. Cardinality(seen') - 1 = n
      BY <2>2, <1>3
    <3> QED BY <3>1, <3>2, <2>1, <1>1, <1>4
  <2>12. walk' \in {"expand", "await"}
    BY <2>1
  <2> HIDE DEF b, n
  <2> QED BY <2>2, <2>6, <2>8, <2>9, <2>10, <2>11, <2>12 DEF OrderInv
<1> QED BY <1>7, <1>8

LEMMA OrderExpand == ExportTypeOK /\ OrderInv /\ Expand => OrderInv'
<1> SUFFICES ASSUME ExportTypeOK, OrderInv, Expand PROVE OrderInv'
  OBVIOUS
<1> DEFINE n == Cardinality(seen) - 1
<1>1. /\ walk = "expand" /\ walk' = "walk" /\ stack' = stack \o LinksToPush(cur)
      /\ seen' = seen /\ cur' = cur /\ out' = out
      /\ Exporting /\ ~ Exporting' /\ seen # {}
  BY DEF Expand, OrderInv, Exporting
<1>2. /\ Cardinality(seen) \in 1 .. N /\ Visited \in Seq(Blocks) /\ n \in Nat
      /\ n + 1 = Cardinality(seen)
  BY <1>1, SeenFinite, BlocksFinite
<1>3. /\ Len(Visited) = n + 1 /\ ToSet(Visited) = seen /\ cur = Visited[n + 1]
      /\ out = Framed(Cardinality(seen))
  BY <1>1, <1>2 DEF OrderInv
<1>4. Pushed = n /\ Pushed' = n + 1 /\ Visited' = Visited
  BY <1>1, <1>2 DEF Pushed, Visited
<1>5. PICK k, j : Owned(Visited, n, stack, k, j)
  BY <1>1, <1>4 DEF OrderInv
<1>6. LinksToPush(cur) = Reverse(Only(Links[Visited[n + 1]], Blocks \ ToSet(Visited)))
  BY <1>3 DEF LinksToPush
<1> HIDE DEF n
<1>7. \E kk, jj : Owned(Visited, n + 1, stack', kk, jj)
  BY <1>1, <1>2, <1>3, <1>5, <1>6, PushOwned DEF ExportTypeOK
<1>8. \E kk, jj : Owned(Visited', Pushed', stack', kk, jj)
  BY <1>4, <1>7
<1> QED BY <1>1, <1>2, <1>3, <1>4, <1>8 DEF OrderInv

\* The block taken from the source is written after those of the order so far.
LEMMA OrderPut == ExportTypeOK /\ OrderInv /\ Put => OrderInv'
<1> SUFFICES ASSUME ExportTypeOK, OrderInv, Put PROVE OrderInv'
  OBVIOUS
<1> DEFINE n == Cardinality(seen)
<1>1. /\ walk = "put" /\ walk' = "expand" /\ out' = Append(out, cur)
      /\ stack' = stack /\ seen' = seen /\ cur' = cur
      /\ Exporting /\ Exporting' /\ seen # {}
  BY DEF Put, OrderInv, Exporting
<1>2. /\ n \in 1 .. N /\ n \in Nat \ {0} /\ n - 1 \in 0 .. N
      /\ Visited \in Seq(Blocks) /\ Len(Visited) = n
      /\ Visited = Preorder[n] /\ cur = Visited[n] /\ cur \in Kept /\ out = Framed(n - 1)
  BY <1>1, SeenFinite, BlocksFinite DEF OrderInv, Visited
<1>3. out' = Framed(n)
  <2> HIDE DEF n
  <2> DEFINE o == Preorder[n - 1]
             b == NextBlock(o)
  <2>1. o \in Seq(Blocks) /\ Len(o) \in Nat
    BY <1>2, PreorderSteps, LenProperties
  <2>2. CASE Branching(o) = {}
    \* Then fewer than n blocks would have been visited
    <3>1. Preorder[n] = o /\ Framed(n) = Framed(n - 1)
      BY <1>2, <2>2, FramedSteps
    <3>2. Len(o) = n /\ o = Visited
      BY <3>1, <1>2
    <3>3. Len(o) <= n - 1
      BY <1>2, PreorderShort
    <3> QED BY <3>2, <3>3, <1>2
  <2>3. CASE Branching(o) # {}
    <3>1. /\ b \in Blocks /\ Preorder[n] = Append(o, b)
          /\ Framed(n) = IF b \in Kept THEN Append(Framed(n - 1), b) ELSE Framed(n - 1)
      BY <1>2, <2>3, FramedSteps
    <3> HIDE DEF o, b
    <3>2. Len(Append(o, b)) = Len(o) + 1 /\ Append(o, b)[Len(o) + 1] = b
      BY <2>1, <3>1, AppendProperties
    <3>3. cur = b
      BY <3>1, <3>2, <1>2
    <3> QED BY <3>1, <3>3, <1>1, <1>2
  <2> QED BY <2>2, <2>3
<1>4. Visited' = Visited /\ Pushed' = Pushed
  BY <1>1 DEF Visited, Pushed
<1>5. \E k, j : Owned(Visited', Pushed', stack', k, j)
  <2>1. \E k, j : Owned(Visited, Pushed, stack, k, j)
    BY <1>1 DEF OrderInv
  <2> QED BY <2>1, <1>1, <1>4
<1> QED BY <1>1, <1>2, <1>3, <1>4, <1>5 DEF OrderInv

\* Whatever leaves the stack, the blocks visited and the walk alone.
orderVars == <<stack, seen, cur, walk, out>>

LEMMA OrderKept == OrderInv /\ UNCHANGED orderVars => OrderInv'
<1> SUFFICES ASSUME OrderInv, UNCHANGED orderVars PROVE OrderInv'
  OBVIOUS
<1>1. stack' = stack /\ seen' = seen /\ cur' = cur /\ walk' = walk /\ out' = out
  BY DEF orderVars
<1>2. Visited' = Visited /\ Pushed' = Pushed /\ (Exporting' <=> Exporting)
  BY <1>1 DEF Visited, Pushed, Exporting
<1> QED BY <1>1, <1>2 DEF OrderInv

LEMMA OrderReady == ExportTypeOK /\ OrderInv /\ BlockReady => OrderInv'
<1> SUFFICES ASSUME ExportTypeOK, OrderInv, BlockReady PROVE OrderInv'
  OBVIOUS
<1>1. /\ walk = "await" /\ walk' = "put" /\ out' = out
      /\ stack' = stack /\ seen' = seen /\ cur' = cur /\ Exporting /\ Exporting'
  BY DEF BlockReady, Exporting
<1>2. Visited' = Visited /\ Pushed' = Pushed
  BY <1>1 DEF Visited, Pushed
<1> QED BY <1>1, <1>2 DEF OrderInv

LEMMA OrderEnds == ExportTypeOK /\ OrderInv /\ WalkEnds => OrderInv'
<1> SUFFICES ASSUME ExportTypeOK, OrderInv, WalkEnds PROVE OrderInv'
  OBVIOUS
<1>1. /\ walk = "walk" /\ walk' = "ended" /\ stack = <<>> /\ out' = out
      /\ stack' = stack /\ seen' = seen /\ cur' = cur /\ ~ Exporting /\ ~ Exporting'
  BY DEF WalkEnds, Exporting
<1>2. Visited' = Visited /\ Pushed' = Pushed
  BY <1>1 DEF Visited, Pushed
<1> QED BY <1>1, <1>2 DEF OrderInv

\* A walk that fails leaves what it wrote.
LEMMA OrderFails == ExportTypeOK /\ OrderInv /\ WalkFails => OrderInv'
<1> SUFFICES ASSUME ExportTypeOK, OrderInv, WalkFails PROVE OrderInv'
  OBVIOUS
<1>1. /\ walk \in {"await", "put", "walk"} /\ walk' = "failed" /\ out' = out
      /\ seen' = seen /\ ~ Exporting'
  BY DEF WalkFails, Exporting
<1>2. Visited' = Visited
  BY <1>1 DEF Visited
<1>3. \E m \in 0 .. N : out = Framed(m)
  <2>1. CASE walk = "walk"
    BY <2>1, SeenFinite DEF OrderInv
  <2>2. CASE walk \in {"await", "put"}
    <3>1. seen # {} /\ out = Framed(Cardinality(seen) - 1)
      BY <2>2 DEF OrderInv, Exporting
    <3> QED BY <3>1, SeenFinite
  <2> QED BY <1>1, <2>1, <2>2
<1> QED BY <1>1, <1>2, <1>3 DEF OrderInv

LEMMA OrderStep == ExportTypeOK /\ OrderInv /\ [ExportNext]_carVars => OrderInv'
<1> SUFFICES ASSUME ExportTypeOK, OrderInv, [ExportNext]_carVars PROVE OrderInv'
  OBVIOUS
<1>1. CASE SourceStep
  <2>1. UNCHANGED orderVars
    BY <1>1 DEF SourceStep, Frame, StreamOver, exportVars, orderVars
  <2> QED BY <2>1, OrderKept
<1>2. CASE WalkStep
  BY <1>2, OrderWalk, OrderReady, OrderPut, OrderExpand, OrderEnds, OrderFails DEF WalkStep
<1>3. CASE Teardown \/ ConsumerStops \/ CallerAborts
  <2>1. UNCHANGED orderVars
    BY <1>3 DEF Teardown, ExportOver, ConsumerStops, StopExport, Close, CallerAborts,
                exportVars, orderVars
  <2> QED BY <2>1, OrderKept
<1>4. ASSUME NEW b \in Blocks, Fill(b) PROVE OrderInv'
  <2>1. UNCHANGED orderVars
    BY <1>4 DEF Fill, FillOk, FillFails, exportVars, orderVars
  <2> QED BY <2>1, OrderKept
<1>5. CASE UNCHANGED carVars
  <2>1. UNCHANGED orderVars
    BY <1>5 DEF carVars, exportVars, orderVars
  <2> QED BY <2>1, OrderKept
<1> QED BY <1>1, <1>2, <1>3, <1>4, <1>5 DEF ExportNext

LEMMA OrderIsCanonical == ExportTypeOK /\ OrderInv => CanonicalOrder
<1> SUFFICES ASSUME ExportTypeOK, OrderInv PROVE CanonicalOrder
  OBVIOUS
<1>1. \E m \in 0 .. N : out = Framed(m)
  <2>1. CASE walk \in {"walk", "expand", "ended"}
    BY <2>1, SeenFinite DEF OrderInv
  <2>2. CASE walk \in {"await", "put"}
    <3>1. seen # {} /\ out = Framed(Cardinality(seen) - 1)
      BY <2>2 DEF OrderInv, Exporting
    <3> QED BY <3>1, SeenFinite
  <2>3. CASE walk = "failed"
    BY <2>3 DEF OrderInv
  <2> QED BY <2>1, <2>2, <2>3 DEF ExportTypeOK
<1>2. IsPrefix(out, Canonical)
  BY <1>1, FramedIsPrefix
<1>3. ASSUME walk = "ended" PROVE out = Canonical
  <2>1. /\ out = Framed(Cardinality(seen)) /\ stack = <<>>
        /\ Pushed = Cardinality(seen) /\ Len(Visited) = Cardinality(seen)
    BY <1>3 DEF OrderInv, Pushed, Exporting
  <2>2. \E k, j : Owned(Visited, Len(Visited), <<>>, k, j)
    BY <1>3, <2>1 DEF OrderInv
  <2>3. Branching(Visited) = {}
    BY <2>2, SeenFinite, EmptyIsComplete
  <2> QED BY <2>1, <2>3, SeenFinite, FramedIsPrefix DEF Visited
<1> QED BY <1>2, <1>3 DEF CanonicalOrder

(***************************************************************************)
(* While nothing has been fetched singly, whatever the source holds ready  *)
(* or buffered, and whatever was written, came verified out of the stream. *)
(***************************************************************************)
Streamed(b) == Contains(sent, [block |-> b, valid |-> TRUE])

GapInv ==
    /\ ToSet(frames) \subseteq ToSet(sent)
    /\ gapFills = 0 =>
          /\ \A b \in Blocks : got[b] # "filling" /\ (got[b] = "ready" => Streamed(b))
          /\ \A b \in arrived \cup ToSet(out) : Streamed(b)
          /\ walk = "put" => Streamed(cur)

LEMMA GapInit == ExportInit => GapInv
<1> SUFFICES ASSUME ExportInit PROVE GapInv
  OBVIOUS
<1>1. ToSet(out) = {}
  BY DEF ExportInit, ToSet
<1> QED BY <1>1 DEF ExportInit, GapInv

LEMMA GapFrame == ExportTypeOK /\ GapInv /\ Frame => GapInv'
<1> SUFFICES ASSUME ExportTypeOK, GapInv, Frame PROVE GapInv'
  OBVIOUS
<1> DEFINE f == Head(frames)
           Frames == [block : Blocks, valid : BOOLEAN]
<1>1. /\ frames \in Seq(Frames) /\ frames # <<>> /\ sent \in Seq(Frames)
      /\ frames' = Tail(frames) /\ sent' = sent /\ gapFills' = gapFills
      /\ out' = out /\ walk' = walk /\ cur' = cur
  BY ExportAssumption DEF ExportTypeOK, Frame, exportVars
<1>2. f \in Frames /\ f \in ToSet(frames) /\ ToSet(Tail(frames)) \subseteq ToSet(frames)
  <2> HIDE DEF Frames
  <2>1. Len(frames) \in Nat \ {0} /\ DOMAIN frames = 1 .. Len(frames)
    BY <1>1, EmptySeq, LenProperties
  <2>2. /\ f \in Frames /\ Tail(frames) \in Seq(Frames) /\ Len(Tail(frames)) = Len(frames) - 1
        /\ \A i \in 1 .. Len(Tail(frames)) : Tail(frames)[i] = frames[i + 1]
    BY <1>1, HeadTailProperties
  <2>3. f = frames[1] /\ 1 \in 1 .. Len(frames)
    BY <1>1, <2>1
  <2>4. DOMAIN Tail(frames) = 1 .. Len(frames) - 1
    BY <2>2, LenProperties
  <2>5. \A i \in 1 .. Len(frames) - 1 : i + 1 \in 1 .. Len(frames)
    BY <2>1
  <2> QED BY <2>1, <2>2, <2>3, <2>4, <2>5 DEF ToSet
<1>3. ToSet(frames') \subseteq ToSet(sent')
  BY <1>1, <1>2 DEF GapInv
<1>4. f.valid => Streamed(f.block)
  <2>1. f.valid => f = [block |-> f.block, valid |-> TRUE]
    BY <1>2
  <2>2. f \in ToSet(sent)
    BY <1>2 DEF GapInv
  <2>3. DOMAIN sent = 1 .. Len(sent)
    BY <1>1, LenProperties
  <2> QED BY <2>1, <2>2, <2>3 DEF Streamed, Contains, ToSet
<1>5. \A b : Streamed(b)' <=> Streamed(b)
  BY <1>1 DEF Streamed
<1>6. /\ \A b \in Blocks : got'[b] = got[b] \/ (got'[b] = "ready" /\ b = f.block /\ f.valid)
      /\ \A b \in arrived' : b \in arrived \/ (b = f.block /\ f.valid)
  <2>1. /\ got' = IF f.valid /\ got[f.block] = "waiting"
                    THEN [got EXCEPT ![f.block] = "ready"] ELSE got
        /\ arrived' = arrived \/ (f.valid /\ arrived' = arrived \cup {f.block})
    BY DEF Frame
  <2>2. got \in [Blocks -> Requests]
    BY DEF ExportTypeOK
  <2> HIDE DEF f
  <2>3. \A b \in Blocks : got'[b] = got[b] \/ (got'[b] = "ready" /\ b = f.block /\ f.valid)
    BY <2>1, <2>2
  <2> QED BY <2>1, <2>3
<1> HIDE DEF f
<1>7. ASSUME gapFills = 0
      PROVE  /\ \A b \in Blocks : got'[b] # "filling" /\ (got'[b] = "ready" => Streamed(b))
             /\ \A b \in arrived' \cup ToSet(out') : Streamed(b)
             /\ walk' = "put" => Streamed(cur')
  <2>1. \A b \in Blocks : got'[b] # "filling" /\ (got'[b] = "ready" => Streamed(b))
    BY <1>4, <1>6, <1>7 DEF GapInv
  <2>2. \A b \in arrived' \cup ToSet(out') : Streamed(b)
    BY <1>1, <1>4, <1>6, <1>7 DEF GapInv
  <2> QED BY <2>1, <2>2, <1>1, <1>7 DEF GapInv
<1> QED BY <1>1, <1>3, <1>5, <1>7 DEF GapInv

LEMMA GapWalk == ExportTypeOK /\ GapInv /\ Walk => GapInv'
<1> SUFFICES ASSUME ExportTypeOK, GapInv, Walk PROVE GapInv'
  OBVIOUS
<1> DEFINE asked == Window \ Inflight
<1>1. /\ Request(asked) /\ walk' # "put" /\ out' = out /\ frames' = frames /\ sent' = sent
  BY DEF Walk, sourceVars
<1> HIDE DEF asked
<1>2. \A b : Streamed(b)' <=> Streamed(b)
  BY <1>1 DEF Streamed
<1>3. /\ gapFills \in Nat /\ gapFills' \in Nat
      /\ Cardinality(In(got', "filling") \ In(got, "filling")) \in Nat
      /\ gapFills' = gapFills + Cardinality(In(got', "filling") \ In(got, "filling"))
      /\ got' = [b \in Blocks |-> IF b \in asked THEN GetState(b) ELSE got[b]]
      /\ arrived' \subseteq arrived
  BY <1>1, RequestType, InFinite DEF Request, ExportTypeOK
<1>4. ASSUME gapFills' = 0
      PROVE  /\ \A b \in Blocks : got'[b] # "filling" /\ (got'[b] = "ready" => Streamed(b))
             /\ \A b \in arrived' \cup ToSet(out') : Streamed(b)
  <2>1. gapFills = 0 /\ Cardinality(In(got', "filling") \ In(got, "filling")) = 0
    BY <1>3, <1>4
  <2>2. In(got', "filling") \subseteq In(got, "filling")
    BY <2>1, InFinite
  <2>3. \A b \in Blocks : got'[b] # "filling"
    BY <2>1, <2>2 DEF GapInv, In
  <2>4. ASSUME NEW b \in Blocks, got'[b] = "ready" PROVE Streamed(b)
    <3>1. CASE b \in asked
      <4>1. b \in arrived
        BY <3>1, <2>4, <1>3 DEF GetState
      <4> QED BY <4>1, <2>1 DEF GapInv
    <3>2. CASE b \notin asked
      BY <3>2, <2>1, <2>4, <1>3 DEF GapInv
    <3> QED BY <3>1, <3>2
  <2>5. \A b \in arrived' \cup ToSet(out') : Streamed(b)
    BY <2>1, <1>1, <1>3 DEF GapInv
  <2> QED BY <2>3, <2>4, <2>5
<1> QED BY <1>1, <1>2, <1>4 DEF GapInv

LEMMA GapPut == ExportTypeOK /\ GapInv /\ Put => GapInv'
<1> SUFFICES ASSUME ExportTypeOK, GapInv, Put PROVE GapInv'
  OBVIOUS
<1>1. /\ walk = "put" /\ walk' = "expand" /\ out' = Append(out, cur) /\ gapFills' = gapFills
      /\ frames' = frames /\ sent' = sent /\ got' = got /\ arrived' = arrived
  BY DEF Put, sourceVars
<1>2. \A b : Streamed(b)' <=> Streamed(b)
  BY <1>1 DEF Streamed
<1>3. ToSet(out') \subseteq ToSet(out) \cup {cur}
  <2>1. out \in Seq(Blocks) /\ cur \in Blocks
    BY DEF ExportTypeOK
  <2>2. /\ DOMAIN out' = 1 .. Len(out) + 1 /\ DOMAIN out = 1 .. Len(out) /\ Len(out) \in Nat
        /\ \A i \in 1 .. Len(out) : out'[i] = out[i]
        /\ out'[Len(out) + 1] = cur
    BY <2>1, <1>1, AppendProperties, LenProperties
  <2>3. \A i \in 1 .. Len(out) + 1 : i \in 1 .. Len(out) \/ i = Len(out) + 1
    BY <2>2
  <2> QED BY <2>2, <2>3 DEF ToSet
<1> QED BY <1>1, <1>2, <1>3 DEF GapInv

LEMMA GapStep == ExportTypeOK /\ GapInv /\ [ExportNext]_carVars => GapInv'
<1> SUFFICES ASSUME ExportTypeOK, GapInv, [ExportNext]_carVars PROVE GapInv'
  OBVIOUS
<1>0. sent' = sent
  BY DEF ExportNext, SourceStep, WalkStep, Teardown, Frame, StreamOver, Fill, FillOk, FillFails,
         Walk, BlockReady, Put, Expand, WalkEnds, WalkFails, ExportOver, ConsumerStops,
         StopExport, CallerAborts, Close, carVars, sourceVars
<1>1. \A b : Streamed(b)' <=> Streamed(b)
  BY <1>0 DEF Streamed
<1>2. got \in [Blocks -> Requests] /\ cur \in Blocks /\ gapFills \in Nat
  BY DEF ExportTypeOK
<1>3. CASE StreamOver
  <2>1. /\ gapFills' = gapFills + Cardinality(In(got, "waiting"))
        /\ Cardinality(In(got, "waiting")) \in Nat
        /\ Cardinality(In(got, "waiting")) = 0 => In(got, "waiting") = {}
        /\ frames' = frames /\ out' = out /\ cur' = cur /\ walk' = walk /\ arrived' = arrived
        /\ got' = [b \in Blocks |-> IF got[b] = "waiting" THEN "filling" ELSE got[b]]
    BY <1>3, InFinite DEF StreamOver, exportVars, sourceVars
  <2>2. ASSUME gapFills' = 0 PROVE gapFills = 0 /\ \A b \in Blocks : got'[b] = got[b]
    <3>1. gapFills = 0 /\ In(got, "waiting") = {}
      BY <2>1, <2>2, <1>2
    <3> QED BY <3>1, <2>1 DEF In
  <2> QED BY <1>0, <1>1, <2>1, <2>2 DEF GapInv
<1>4. CASE BlockReady
  BY <1>0, <1>1, <1>2, <1>4 DEF BlockReady, GapInv, sourceVars
<1>5. CASE Expand \/ WalkEnds \/ WalkFails
  BY <1>0, <1>1, <1>5 DEF Expand, WalkEnds, WalkFails, GapInv, sourceVars
<1>6. CASE Teardown \/ ConsumerStops \/ CallerAborts
  <2>1. /\ frames' = frames /\ out' = out /\ cur' = cur /\ walk' = walk /\ arrived' = arrived
        /\ gapFills' = gapFills
        /\ got' = [b \in Blocks |-> IF got[b] = "waiting" THEN "failed" ELSE got[b]]
    BY <1>6 DEF Teardown, ExportOver, ConsumerStops, StopExport, Close, CallerAborts,
                ReleaseGets, exportVars, sourceVars
  <2> QED BY <1>0, <1>1, <2>1 DEF GapInv
<1>7. ASSUME NEW b \in Blocks, Fill(b) PROVE GapInv'
  <2>1. /\ frames' = frames /\ out' = out /\ cur' = cur /\ walk' = walk /\ arrived' = arrived
        /\ gapFills' = gapFills /\ got[b] = "filling"
    BY <1>7 DEF Fill, FillOk, FillFails, exportVars, sourceVars
  <2>2. gapFills # 0
    BY <2>1 DEF GapInv
  <2> QED BY <1>0, <2>1, <2>2 DEF GapInv
<1>8. CASE UNCHANGED carVars
  BY <1>0, <1>1, <1>8 DEF carVars, GapInv, exportVars, sourceVars
<1> QED BY <1>3, <1>4, <1>5, <1>6, <1>7, <1>8, GapFrame, GapWalk, GapPut
        DEF ExportNext, SourceStep, WalkStep

-----------------------------------------------------------------------------
(* The theorems of the export.                                               *)

\* The walk, its stack and the block source keep their types (car-export.ts:228-241,
\* car-stream-source.ts:246-266).
THEOREM ExportTypeCorrect == ExportSpec => []ExportTypeOK
<1> QED BY ExportTypeInit, ExportTypeStep, PTL DEF ExportSpec

\* Whatever the stream delivers and however far the prefetch ran ahead, the CAR
\* written is a prefix of the one in depth-first pre-order, and all of it when the walk
\* ends: for every graph of blocks, lookahead and buffer (car-export.ts:5-12).
THEOREM ExportIsCanonical == ExportSpec => []CanonicalOrder
<1>1. ExportInit => ExportTypeOK /\ OrderInv
  BY ExportTypeInit, OrderInit
<1>2. ExportTypeOK /\ OrderInv /\ [ExportNext]_carVars => (ExportTypeOK /\ OrderInv)'
  BY ExportTypeStep, OrderStep
<1> QED BY <1>1, <1>2, OrderIsCanonical, PTL DEF ExportSpec

\* A root exported with no gap-fill had every block delivered by the stream and
\* verified, for every stream a gateway may send (app/src/submit.ts:88-99).
THEOREM GapFreeIsStreamed == ExportSpec => []GapFreeMeansStreamed
<1>1. ExportInit => ExportTypeOK /\ GapInv
  BY ExportTypeInit, GapInit
<1>2. ExportTypeOK /\ GapInv /\ [ExportNext]_carVars => (ExportTypeOK /\ GapInv)'
  BY ExportTypeStep, GapStep
<1>3. GapInv => GapFreeMeansStreamed
  BY DEF GapInv, GapFreeMeansStreamed, Streamed
<1> QED BY <1>1, <1>2, <1>3, PTL DEF ExportSpec
================================================================================
