--------------------------- MODULE ServeDaemonProofs ---------------------------
(***************************************************************************)
(* Theorems about the daemon, for every value of the constants: its jobs   *)
(* and requests (ServeDaemon), and the plan its Runner and the commands    *)
(* fill (MigratePlan).  The two share no variable.                         *)
(***************************************************************************)
EXTENDS ServeDaemon, MigratePlan, FiniteSetTheorems, SequenceTheorems,
        WellFoundedInduction, TLAPS

-----------------------------------------------------------------------------
(***************************************************************************)
(* The plan (MigratePlan).  First what its recursions compute.             *)
(***************************************************************************)
\* Numbers have a least one.
LEMMA LeastNumber ==
    ASSUME NEW S \in SUBSET Nat, S # {}
    PROVE  \E x \in S : \A y \in S : x <= y
<1> DEFINE R == {ss \in Nat \X Nat : ss[1] < ss[2]}
<1>1. IsWellFoundedOn(R, Nat)
  BY NatLessThanWellFounded DEF OpToRel
<1>2. \E x \in S : \A y \in S : ~ (<<y, x>> \in R)
  <2> HIDE DEF R
  <2> QED BY <1>1, WFMin
<1>3. PICK x \in S : \A y \in S : ~ (<<y, x>> \in R)
  BY <1>2
<1>4. ASSUME NEW y \in S PROVE x <= y
  <2>1. x \in Nat /\ y \in Nat /\ <<y, x>> \notin R
    BY <1>3
  <2> QED BY <2>1
<1> QED BY <1>4

\* Induction, over the set of the numbers for which something holds.
LEMMA AllNumbers ==
    ASSUME NEW S \in SUBSET Nat, 0 \in S, \A k \in S : k + 1 \in S
    PROVE  S = Nat
<1> SUFFICES ASSUME Nat \ S # {} PROVE FALSE
  OBVIOUS
<1>1. PICK x \in Nat \ S : \A y \in Nat \ S : x <= y
  BY LeastNumber
<1>2. x # 0 /\ x - 1 \in Nat /\ (x - 1) + 1 = x
  BY <1>1
<1>3. x - 1 \notin S
  BY <1>2, <1>1
<1> QED BY <1>1, <1>2, <1>3

\* What is computed step by step from a base exists.
StepsTo(g, n, base, step) == g[0] = base /\ \A i \in 1 .. n : g[i] = step[i][g[i - 1]]

LEMMA StepByStep ==
    ASSUME NEW A, NEW n \in Nat, NEW base \in A, NEW step \in [1 .. n -> [A -> A]]
    PROVE  \E g \in [0 .. n -> A] : StepsTo(g, n, base, step)
<1> DEFINE Upto(k) == \E g \in [0 .. k -> A] : StepsTo(g, k, base, step)
           S == {k \in Nat : k <= n => Upto(k)}
<1>1. 0 \in S
  <2> DEFINE g == [j \in 0 .. 0 |-> base]
  <2>1. g \in [0 .. 0 -> A] /\ g[0] = base
    OBVIOUS
  <2>2. StepsTo(g, 0, base, step)
    <3> HIDE DEF g
    <3> QED BY <2>1 DEF StepsTo
  <2> QED BY <2>1, <2>2
<1>2. ASSUME NEW k \in S PROVE k + 1 \in S
  <2> SUFFICES ASSUME k + 1 <= n PROVE Upto(k + 1)
    OBVIOUS
  <2>1. PICK g \in [0 .. k -> A] : StepsTo(g, k, base, step)
    BY <1>2
  <2> DEFINE h == [j \in 0 .. k + 1 |-> IF j <= k THEN g[j] ELSE step[k + 1][g[k]]]
  <2>2. step[k + 1][g[k]] \in A
    <3>1. k + 1 \in 1 .. n /\ g[k] \in A
      BY <1>2
    <3> QED BY <3>1
  <2>3. h \in [0 .. k + 1 -> A]
    <3>1. ASSUME NEW j \in 0 .. k + 1 PROVE h[j] \in A
      BY <2>2, <1>2
    <3> QED BY <3>1
  <2>4. h[0] = base
    BY <2>1, <1>2 DEF StepsTo
  <2>5. ASSUME NEW i \in 1 .. k + 1 PROVE h[i] = step[i][h[i - 1]]
    <3>1. CASE i <= k
      BY <3>1, <2>1, <1>2 DEF StepsTo
    <3>2. CASE i = k + 1
      <4>1. h[i] = step[k + 1][g[k]] /\ i - 1 = k
        BY <3>2, <1>2
      <4>2. h[k] = g[k]
        BY <1>2
      <4> QED BY <4>1, <4>2, <3>2
    <3> QED BY <3>1, <3>2, <1>2
  <2>6. StepsTo(h, k + 1, base, step)
    <3> HIDE DEF h
    <3> QED BY <2>4, <2>5 DEF StepsTo
  <2> QED BY <2>3, <2>6
<1>3. S = Nat
  <2> HIDE DEF S
  <2>1. S \in SUBSET Nat
    BY DEF S
  <2> QED BY <1>1, <1>2, <2>1, AllNumbers
<1>4. n \in S
  BY <1>3
<1> QED BY <1>4

\* `packAggregates` unit by unit.
PackingRun(g, units, budget) ==
    /\ g[0] = NothingPacked
    /\ \A i \in 1 .. Len(units) : g[i] = PackUnit(g[i - 1], units[i], budget)
    /\ LET end == g[Len(units)]
       IN PackAggregates(units, budget) =
             [aggregates |-> IF end.open = {} THEN end.shut ELSE Append(end.shut, end.open),
              oversized  |-> end.oversized]

\* `packAggregates` unit by unit: what each unit leaves is what the recursion computes.
LEMMA PackingSteps ==
    ASSUME NEW A, NEW units, NEW budget, Len(units) \in Nat, NothingPacked \in A,
           \A acc \in A, i \in 1 .. Len(units) : PackUnit(acc, units[i], budget) \in A
    PROVE  \E g \in [0 .. Len(units) -> A] : PackingRun(g, units, budget)
<1> DEFINE n == Len(units)
           step == [i \in 1 .. n |-> [acc \in A |-> PackUnit(acc, units[i], budget)]]
           Eq(f) == f = [i \in 0 .. n |-> IF i = 0 THEN NothingPacked
                                          ELSE PackUnit(f[i - 1], units[i], budget)]
<1>1. step \in [1 .. n -> [A -> A]]
  OBVIOUS
<1>2. PICK g \in [0 .. n -> A] : StepsTo(g, n, NothingPacked, step)
  <2> HIDE DEF step
  <2>1. n \in Nat
    OBVIOUS
  <2> HIDE DEF n
  <2> QED BY <1>1, <2>1, StepByStep
<1>3. /\ g[0] = NothingPacked
      /\ \A i \in 1 .. n : g[i] = PackUnit(g[i - 1], units[i], budget)
  <2>1. g[0] = NothingPacked /\ \A i \in 1 .. n : g[i] = step[i][g[i - 1]]
    <3> HIDE DEF step
    <3> QED BY <1>2 DEF StepsTo
  <2>2. ASSUME NEW i \in 1 .. n PROVE step[i][g[i - 1]] = PackUnit(g[i - 1], units[i], budget)
    <3>1. g[i - 1] \in A
      OBVIOUS
    <3> QED BY <3>1
  <2> HIDE DEF step
  <2> QED BY <2>1, <2>2
<1>4. Eq(g)
  <2> DEFINE f == [i \in 0 .. n |-> IF i = 0 THEN NothingPacked
                                     ELSE PackUnit(g[i - 1], units[i], budget)]
  <2>1. ASSUME NEW i \in 0 .. n PROVE g[i] = f[i]
    BY <1>3
  <2>2. DOMAIN f = 0 .. n /\ f = [i \in DOMAIN f |-> f[i]]
    OBVIOUS
  <2>3. g = [i \in 0 .. n |-> g[i]]
    OBVIOUS
  <2> HIDE DEF f
  <2>4. g = f
    BY <2>1, <2>2, <2>3
  <2> QED BY <2>4 DEF f
<1> DEFINE packed == CHOOSE f : Eq(f)
<1>5. Eq(packed)
  <2> HIDE DEF Eq
  <2> QED BY <1>4
<1>6. packed[0] = NothingPacked
  <2> HIDE DEF packed
  <2> QED BY <1>5
<1>7. ASSUME NEW i \in 1 .. n PROVE packed[i] = PackUnit(packed[i - 1], units[i], budget)
  <2> HIDE DEF packed
  <2> QED BY <1>5
<1>8. packed \in [0 .. n -> A]
  <2> HIDE DEF packed
  <2> DEFINE S == {k \in Nat : k <= n => packed[k] \in A}
  <2>1. 0 \in S
    BY <1>6
  <2>2. ASSUME NEW k \in S PROVE k + 1 \in S
    <3> SUFFICES ASSUME k + 1 <= n PROVE packed[k + 1] \in A
      OBVIOUS
    <3>1. k + 1 \in 1 .. n /\ packed[k] \in A /\ (k + 1) - 1 = k
      OBVIOUS
    <3> QED BY <3>1, <1>7
  <2>3. S = Nat
    <3> HIDE DEF S
    <3>1. S \in SUBSET Nat
      BY DEF S
    <3> QED BY <2>1, <2>2, <3>1, AllNumbers
  <2>4. \A k \in 0 .. n : packed[k] \in A
    BY <2>3
  <2> QED BY <2>4, <1>5
<1>9. PackAggregates(units, budget) =
         LET end == packed[n]
         IN [aggregates |-> IF end.open = {} THEN end.shut ELSE Append(end.shut, end.open),
             oversized  |-> end.oversized]
  BY DEF PackAggregates
<1>10. PackingRun(packed, units, budget)
  <2> HIDE DEF packed
  <2> QED BY <1>6, <1>7, <1>9 DEF PackingRun
<1> HIDE DEF packed
<1> QED BY <1>8, <1>10
\* A set in turn: each member once, given that of two one comes first.
Enumerates(s, S) ==
    /\ s \in [1 .. Cardinality(S) -> S]
    /\ \A i, j \in 1 .. Cardinality(S) : s[i] = s[j] => i = j
    /\ \A c \in S : \E i \in 1 .. Cardinality(S) : s[i] = c

Orders(before, S) ==
    /\ before \in [S -> SUBSET S]
    /\ \A c \in S : c \notin before[c]
    /\ \A c, d \in S : c # d => c \in before[d] \/ d \in before[c]
    /\ \A c, d \in S : c \in before[d] => before[c] \subseteq before[d]

\* Of two members of an ordered set, the earlier has fewer before it.
LEMMA RanksDiffer ==
    ASSUME NEW S, IsFiniteSet(S), NEW before, Orders(before, S)
    PROVE  /\ \A c \in S : Cardinality(before[c]) \in 0 .. Cardinality(S) - 1
           /\ \A c, d \in S : Cardinality(before[c]) = Cardinality(before[d]) => c = d
<1>1. ASSUME NEW c \in S PROVE Cardinality(before[c]) \in 0 .. Cardinality(S) - 1
  <2>1. before[c] \in SUBSET (S \ {c})
    BY DEF Orders
  <2>2. IsFiniteSet(S \ {c}) /\ Cardinality(S \ {c}) = Cardinality(S) - 1
    BY FS_RemoveElement
  <2>3. /\ IsFiniteSet(before[c])
        /\ Cardinality(before[c]) <= Cardinality(S \ {c})
    BY <2>1, <2>2, FS_Subset
  <2>4. Cardinality(before[c]) \in Nat /\ Cardinality(S) \in Nat
    BY <2>3, FS_CardinalityType
  <2> QED BY <2>2, <2>3, <2>4
<1>2. ASSUME NEW c \in S, NEW d \in S, c \in before[d]
      PROVE  Cardinality(before[c]) # Cardinality(before[d])
  <2>1. before[d] \in SUBSET S /\ before[c] \in SUBSET before[d] /\ before[c] # before[d]
    BY <1>2 DEF Orders
  <2>2. IsFiniteSet(before[d])
    BY <2>1, FS_Subset
  <2> QED BY <2>1, <2>2, FS_Subset
<1> QED BY <1>1, <1>2 DEF Orders

\* `InTurn` lists every member once.
LEMMA InTurnEnumerates ==
    ASSUME NEW S, IsFiniteSet(S), NEW before, Orders(before, S)
    PROVE  Enumerates(InTurn(S, before), S)
<1> DEFINE n == Cardinality(S)
           r == [c \in S |-> Cardinality(before[c]) + 1]
           s == InTurn(S, before)
<1>1. n \in Nat
  BY FS_CardinalityType
<1>2. r \in [S -> 1 .. n]
  BY RanksDiffer, <1>1
<1>3. r \in Injection(S, 1 .. n)
  <2>1. ASSUME NEW c \in S, NEW d \in S, r[c] = r[d] PROVE c = d
    <3>1. Cardinality(before[c]) = Cardinality(before[d])
      BY <2>1, RanksDiffer, <1>1
    <3> QED BY <3>1, RanksDiffer
  <2> QED BY <1>2, <2>1 DEF Injection, IsInjective
<1>4. r \in Surjection(S, 1 .. n)
  <2>1. IsFiniteSet(1 .. n) /\ Cardinality(1 .. n) = n
    BY <1>1, FS_Interval
  <2> HIDE DEF r
  <2> QED BY <1>3, <2>1, FS_Injection
<1>5. ASSUME NEW i \in 1 .. n PROVE s[i] \in S /\ Cardinality(before[s[i]]) = i - 1
  <2>1. PICK c \in S : r[c] = i
    BY <1>4 DEF Surjection
  <2>2. Cardinality(before[c]) = i - 1
    BY <2>1, RanksDiffer, <1>1
  <2>3. s[i] = CHOOSE d \in S : Cardinality(before[d]) = i - 1
    BY DEF InTurn
  <2> QED BY <2>2, <2>3
<1>6. s \in [1 .. n -> S]
  <2>1. DOMAIN s = 1 .. n /\ s = [i \in DOMAIN s |-> s[i]]
    BY DEF InTurn
  <2> HIDE DEF s
  <2> QED BY <2>1, <1>5
<1>7. ASSUME NEW c \in S PROVE \E i \in 1 .. n : s[i] = c
  <2>1. r[c] \in 1 .. n /\ r[c] - 1 = Cardinality(before[c])
    BY <1>2, RanksDiffer, <1>1
  <2>2. Cardinality(before[s[r[c]]]) = Cardinality(before[c]) /\ s[r[c]] \in S
    BY <2>1, <1>5
  <2> QED BY <2>1, <2>2, RanksDiffer
<1>8. ASSUME NEW i \in 1 .. n, NEW j \in 1 .. n, s[i] = s[j] PROVE i = j
  <2>1. i - 1 = j - 1
    BY <1>5, <1>8
  <2> QED BY <2>1, <1>1
<1> QED BY <1>6, <1>7, <1>8 DEF Enumerates

\* So does the order of the CIDs,
LEMMA SortedEnumerates ==
    ASSUME NEW S \in SUBSET Cids
    PROVE  IsFiniteSet(S) /\ Enumerates(Sorted(S), S)
<1>1. IsFiniteSet(S)
  BY CidsAssumption, FS_Subset
<1>2. Orders([c \in S |-> {d \in S : d < c}], S)
  <2>1. \A c \in S : c \in Nat
    BY CidsAssumption
  <2> QED BY <2>1 DEF Orders
<1> QED BY <1>1, <1>2, InTurnEnumerates DEF Sorted

\* and that by size.
LEMMA BySizeEnumerates ==
    ASSUME NEW S \in SUBSET Cids, \A c \in S : rec[c] \in Contents
    PROVE  IsFiniteSet(S) /\ Enumerates(BySize(S), S)
<1>1. IsFiniteSet(S)
  BY CidsAssumption, FS_Subset
<1>2. Orders([c \in S |-> {d \in S : Larger(d, c)}], S)
  <2>1. \A c \in S : c \in Nat /\ RowRaw(c) \in Nat
    BY CidsAssumption, RawAssumption DEF RowRaw
  <2> QED BY <2>1 DEF Orders, Larger
<1> QED BY <1>1, <1>2, InTurnEnumerates DEF BySize

\* The rows there is room for.
LEMMA FirstOfFits ==
    ASSUME NEW S \in SUBSET Cids, NEW n \in Nat
    PROVE  /\ FirstOf(S, n) \subseteq S
           /\ Cardinality(FirstOf(S, n)) <= n
           /\ n > 0 /\ FirstOf(S, n) = {} => S = {}
<1> DEFINE before == [c \in S |-> {d \in S : d < c}]
           F == FirstOf(S, n)
           r == [c \in F |-> Cardinality(before[c]) + 1]
<1>1. IsFiniteSet(S) /\ \A c \in S : c \in Nat
  BY CidsAssumption, FS_Subset
<1>2. Orders(before, S)
  BY <1>1 DEF Orders
<1>3. F \subseteq S /\ \A c \in S : c \in F <=> Cardinality(before[c]) < n
  BY DEF FirstOf
<1>4. \A c \in S : Cardinality(before[c]) \in Nat
  <2> HIDE DEF before
  <2>1. Cardinality(S) \in Nat
    BY <1>1, FS_CardinalityType
  <2> QED BY <1>1, <1>2, <2>1, RanksDiffer
<1>5. r \in Injection(F, 1 .. n)
  <2> HIDE DEF before, F
  <2>1. r \in [F -> 1 .. n]
    BY <1>3, <1>4
  <2>2. ASSUME NEW c \in F, NEW d \in F, r[c] = r[d] PROVE c = d
    <3>1. Cardinality(before[c]) = Cardinality(before[d])
      BY <2>2, <1>3, <1>4
    <3> QED BY <3>1, <1>1, <1>2, <1>3, RanksDiffer
  <2> QED BY <2>1, <2>2 DEF Injection, IsInjective
<1>6. Cardinality(F) <= n
  <2> HIDE DEF F, r
  <2>1. IsFiniteSet(1 .. n) /\ Cardinality(1 .. n) = n
    BY FS_Interval
  <2> QED BY <1>5, <2>1, FS_Injection
<1>7. ASSUME n > 0, S # {} PROVE F # {}
  <2>1. PICK c \in S : \A d \in S : c <= d
    BY <1>1, <1>7, LeastNumber
  <2>2. before[c] = {}
    BY <2>1, <1>1
  <2>3. Cardinality(before[c]) = 0
    BY <2>2, FS_EmptySet
  <2> HIDE DEF before, F
  <2> QED BY <2>3, <1>3, <1>7
<1> QED BY <1>3, <1>6, <1>7
\* Sums of sizes, counted as bytes.
LEMMA TotalType ==
    ASSUME NEW size, IsFiniteSet(DOMAIN size), \A x \in DOMAIN size : size[x] \in Nat
    PROVE  /\ IsFiniteSet(UNION {{x} \X (1 .. size[x]) : x \in DOMAIN size})
           /\ Total(size) \in Nat
<1> DEFINE D == DOMAIN size
           T == {{x} \X (1 .. size[x]) : x \in D}
           f == [x \in D |-> {x} \X (1 .. size[x])]
<1>1. f \in Surjection(D, T)
  <2>1. f \in [D -> T]
    OBVIOUS
  <2>2. ASSUME NEW t \in T PROVE \E x \in D : f[x] = t
    OBVIOUS
  <2> QED BY <2>1, <2>2 DEF Surjection
<1>2. IsFiniteSet(T)
  <2> HIDE DEF f, T
  <2> QED BY <1>1, FS_Surjection
<1>3. ASSUME NEW t \in T PROVE IsFiniteSet(t)
  <2>1. PICK x \in D : t = {x} \X (1 .. size[x])
    OBVIOUS
  <2>2. size[x] \in Nat
    OBVIOUS
  <2>3. IsFiniteSet({x}) /\ IsFiniteSet(1 .. size[x])
    <3>1. PICK k \in Nat : k = size[x]
      BY <2>2
    <3>2. IsFiniteSet(1 .. k)
      BY FS_Interval
    <3>3. IsFiniteSet({x})
      BY FS_Singleton
    <3> QED BY <3>1, <3>2, <3>3
  <2> QED BY <2>1, <2>3, FS_Product
<1>4. IsFiniteSet(UNION T)
  <2> HIDE DEF T
  <2> QED BY <1>2, <1>3, FS_UNION
<1> QED BY <1>4, FS_CardinalityType DEF Total

\* A padded size is a number.
LEMMA PaddedType == \A s \in Ids : Padded(s) \in Nat
<1> SUFFICES ASSUME NEW s \in Ids PROVE Padded(s) \in Nat
  OBVIOUS
<1> DEFINE size == [i \in DOMAIN s |-> Raw[s[i]]]
           w == Weight(s)
           Powers == {2^k : k \in 0 .. w}
<1>1. PICK n \in 1 .. Cardinality(Cids) : s \in [1 .. n -> Contents]
  BY DEF Ids
<1>2. w \in Nat
  <2>1. DOMAIN size = 1 .. n /\ \A i \in 1 .. n : size[i] \in Nat
    BY <1>1, RawAssumption
  <2>2. IsFiniteSet(1 .. n)
    BY FS_Interval
  <2> HIDE DEF size
  <2>3. Total(size) \in Nat
    BY <2>1, <2>2, TotalType
  <2> QED BY <2>3 DEF Weight, size
<1>3. ASSUME NEW k \in Nat PROVE 2^k \in Nat /\ 2^k >= k
  <2>1. IsFiniteSet(1 .. k) /\ Cardinality(1 .. k) = k
    BY FS_Interval
  <2>2. IsFiniteSet(SUBSET (1 .. k)) /\ Cardinality(SUBSET (1 .. k)) = 2^k
    BY <2>1, FS_SUBSET
  <2> DEFINE f == [i \in 1 .. k |-> {i}]
  <2>3. f \in Injection(1 .. k, SUBSET (1 .. k))
    <3>1. f \in [1 .. k -> SUBSET (1 .. k)]
      OBVIOUS
    <3>2. \A i, j \in 1 .. k : f[i] = f[j] => i = j
      OBVIOUS
    <3> QED BY <3>1, <3>2 DEF Injection, IsInjective
  <2>4. Cardinality(1 .. k) <= Cardinality(SUBSET (1 .. k))
    <3> HIDE DEF f
    <3> QED BY <2>2, <2>3, FS_Injection
  <2> QED BY <2>1, <2>2, <2>4, FS_CardinalityType
<1>4. Powers \subseteq Nat
  BY <1>2, <1>3
<1>5. 2^w \in Powers /\ 2^w >= w
  BY <1>2, <1>3
<1> DEFINE Enough == {q \in Powers : q >= w}
<1>6. PICK q \in Enough : \A r \in Enough : q <= r
  <2>1. Enough \in SUBSET Nat /\ Enough # {}
    BY <1>4, <1>5
  <2> HIDE DEF Enough
  <2> QED BY <2>1, LeastNumber
<1>7. q \in Powers /\ q >= w /\ \A r \in Powers : r >= w => q <= r
  BY <1>6
<1>8. Padded(s) = CHOOSE p \in Powers : p >= w /\ \A r \in Powers : r >= w => p <= r
  BY DEF Padded
<1>9. Padded(s) \in Powers
  <2> HIDE DEF Powers, w
  <2> QED BY <1>7, <1>8
<1> QED BY <1>4, <1>9

\* The padded size of a set of sub-pieces.
SizeOf(S) == Total([s \in S |-> Padded(s)])

\* The padded sizes of sub-pieces add up.
LEMMA SizeOfNone == SizeOf({}) = 0
<1> DEFINE size == [s \in {} |-> Padded(s)]
<1>1. DOMAIN size = {}
  OBVIOUS
<1>2. UNION {{x} \X (1 .. size[x]) : x \in DOMAIN size} = {}
  BY <1>1
<1> QED BY <1>2, FS_EmptySet DEF SizeOf, Total

\* One sub-piece more adds its own.
LEMMA SizeOfOneMore ==
    ASSUME NEW S \in SUBSET Ids, IsFiniteSet(S), NEW s \in Ids, s \notin S
    PROVE  /\ SizeOf(S) \in Nat
           /\ SizeOf(S \cup {s}) = SizeOf(S) + Padded(s)
<1> DEFINE f == [x \in S |-> Padded(x)]
           g == [x \in S \cup {s} |-> Padded(x)]
           BytesOf(h) == UNION {{x} \X (1 .. h[x]) : x \in DOMAIN h}
<1>1. Padded(s) \in Nat /\ \A x \in S : Padded(x) \in Nat
  BY PaddedType
<1>2. IsFiniteSet(BytesOf(f)) /\ Total(f) \in Nat
  <2>1. DOMAIN f = S /\ \A x \in S : f[x] \in Nat
    BY <1>1
  <2> HIDE DEF f
  <2> QED BY <2>1, TotalType
<1> DEFINE more == {s} \X (1 .. Padded(s))
<1>3. IsFiniteSet(more) /\ Cardinality(more) = Padded(s)
  <2>1. IsFiniteSet({s}) /\ Cardinality({s}) = 1
    BY FS_Singleton
  <2>2. IsFiniteSet(1 .. Padded(s)) /\ Cardinality(1 .. Padded(s)) = Padded(s)
    BY <1>1, FS_Interval
  <2>3. PICK one, row : one = {s} /\ row = 1 .. Padded(s)
    OBVIOUS
  <2>4. /\ IsFiniteSet(one \X row)
        /\ Cardinality(one \X row) = Cardinality(one) * Cardinality(row)
    BY <2>1, <2>2, <2>3, FS_Product
  <2>5. more = one \X row
    BY <2>3
  <2>6. Cardinality(one) = 1 /\ Cardinality(row) = Padded(s)
    BY <2>1, <2>2, <2>3
  <2> HIDE DEF more
  <2>7. Cardinality(more) = 1 * Padded(s)
    BY <2>4, <2>5, <2>6
  <2> QED BY <1>1, <2>4, <2>5, <2>7
<1>4. BytesOf(g) = BytesOf(f) \cup more
  <2>1. DOMAIN f = S /\ DOMAIN g = S \cup {s}
    OBVIOUS
  <2>2. \A x \in S : g[x] = f[x]
    OBVIOUS
  <2>3. g[s] = Padded(s)
    OBVIOUS
  <2> HIDE DEF f, g
  <2> QED BY <2>1, <2>2, <2>3
<1>5. BytesOf(f) \cap more = {}
  OBVIOUS
<1>6. Cardinality(BytesOf(g)) = Cardinality(BytesOf(f)) + Padded(s)
  <2> HIDE DEF BytesOf, f, g, more
  <2>1. Cardinality(BytesOf(f) \cup more) =
            Cardinality(BytesOf(f)) + Cardinality(more) - Cardinality({})
    BY <1>2, <1>3, <1>5, FS_Union
  <2>2. Cardinality(BytesOf(f)) \in Nat
    BY <1>2, FS_CardinalityType
  <2> QED BY <2>1, <2>2, <1>3, <1>4, <1>1, FS_EmptySet
<1> QED BY <1>2, <1>6 DEF SizeOf, Total
\* Sequences of sets that are apart from one another.
Apart(q) == \A i, j \in DOMAIN q : i # j => q[i] \cap q[j] = {}
AllOf(q) == UNION {q[i] : i \in DOMAIN q}

\* A set apart from all in a list may join it.
LEMMA ApartAppend ==
    ASSUME NEW S, NEW q \in Seq(S), NEW T \in S, Apart(q), T \cap AllOf(q) = {}
    PROVE  Apart(Append(q, T)) /\ AllOf(Append(q, T)) = AllOf(q) \cup T
<1>1. /\ Append(q, T) \in Seq(S) /\ Len(Append(q, T)) = Len(q) + 1
      /\ \A i \in 1 .. Len(q) : Append(q, T)[i] = q[i]
      /\ Append(q, T)[Len(q) + 1] = T
  BY AppendProperties
<1>2. DOMAIN q = 1 .. Len(q) /\ DOMAIN Append(q, T) = 1 .. Len(q) + 1 /\ Len(q) \in Nat
  BY <1>1, LenProperties
<1> DEFINE p == Append(q, T)
<1> HIDE DEF p
<1>3. DOMAIN p = DOMAIN q \cup {Len(q) + 1} /\ Len(q) + 1 \notin DOMAIN q
  BY <1>2 DEF p
<1>4. p[Len(q) + 1] = T /\ \A i \in DOMAIN q : p[i] = q[i]
  BY <1>1, <1>2 DEF p
<1>5. Apart(p)
  BY <1>3, <1>4 DEF Apart, AllOf
<1>6. AllOf(p) = AllOf(q) \cup T
  BY <1>3, <1>4 DEF AllOf
<1> QED BY <1>5, <1>6 DEF p

\* What packing has made of the units taken so far.
Accs(U) == [shut : Seq(SUBSET U), open : SUBSET U, used : Nat, oversized : SUBSET U]

Packs(acc, taken, budget) ==
    /\ Apart(acc.shut)
    /\ acc.open \cap AllOf(acc.shut) = {}
    /\ AllOf(acc.shut) \cup acc.open \subseteq taken
    /\ taken \subseteq AllOf(acc.shut) \cup acc.open \cup acc.oversized
    /\ \A i \in DOMAIN acc.shut : SizeOf(acc.shut[i]) <= budget
    /\ SizeOf(acc.open) = acc.used /\ acc.used <= budget

\* What `packAggregates` keeps has its type,
LEMMA PackUnitType ==
    ASSUME NEW U \in SUBSET Ids, NEW acc \in Accs(U), NEW s \in U, NEW budget \in Nat
    PROVE  PackUnit(acc, s, budget) \in Accs(U)
<1>1. Padded(s) \in Nat
  BY PaddedType
<1>2. Append(acc.shut, acc.open) \in Seq(SUBSET U)
  BY AppendProperties DEF Accs
<1>3. [acc EXCEPT !.oversized = @ \cup {s}] \in Accs(U)
  BY DEF Accs
<1>4. [acc EXCEPT !.open = @ \cup {s}, !.used = @ + Padded(s)] \in Accs(U)
  <2>1. acc.open \cup {s} \in SUBSET U /\ acc.used + Padded(s) \in Nat
    BY <1>1 DEF Accs
  <2>2. PICK S, k : S = acc.open \cup {s} /\ k = acc.used + Padded(s)
    OBVIOUS
  <2>3. [acc EXCEPT !.open = S, !.used = k] \in Accs(U)
    BY <2>1, <2>2 DEF Accs
  <2> QED BY <2>2, <2>3
<1>5. [acc EXCEPT !.shut = Append(@, acc.open), !.open = {s}, !.used = Padded(s)] \in Accs(U)
  <2> DEFINE more == Append(acc.shut, acc.open)
  <2>1. more \in Seq(SUBSET U)
    BY <1>2
  <2> HIDE DEF more
  <2>2. [acc EXCEPT !.shut = more, !.open = {s}, !.used = Padded(s)] \in Accs(U)
    BY <1>1, <2>1 DEF Accs
  <2> QED BY <2>2 DEF more
<1> QED BY <1>3, <1>4, <1>5 DEF PackUnit

\* and each unit goes to one place, within the budget.
LEMMA PackUnitPacks ==
    ASSUME NEW U \in SUBSET Ids, IsFiniteSet(U), NEW acc \in Accs(U), NEW s \in U,
           NEW budget \in Nat, NEW taken \in SUBSET U, s \notin taken,
           Packs(acc, taken, budget)
    PROVE  Packs(PackUnit(acc, s, budget), taken \cup {s}, budget)
<1>1. Padded(s) \in Nat /\ s \in Ids
  BY PaddedType
<1>2. /\ acc.shut \in Seq(SUBSET U) /\ acc.open \in SUBSET U /\ acc.used \in Nat
      /\ acc.oversized \in SUBSET U
  BY DEF Accs
<1>3. IsFiniteSet(acc.open) /\ acc.open \in SUBSET Ids /\ s \notin acc.open
      /\ s \notin AllOf(acc.shut)
  BY <1>2, FS_Subset DEF Packs
<1>4. CASE Padded(s) > budget
  <2>1. PackUnit(acc, s, budget) = [acc EXCEPT !.oversized = @ \cup {s}]
    BY <1>4 DEF PackUnit
  <2> DEFINE a == [acc EXCEPT !.oversized = @ \cup {s}]
  <2>2. /\ a.shut = acc.shut /\ a.open = acc.open /\ a.used = acc.used
        /\ a.oversized = acc.oversized \cup {s}
    BY DEF Accs
  <2> HIDE DEF a
  <2>3. Packs(a, taken \cup {s}, budget)
    BY <2>2 DEF Packs
  <2> QED BY <2>1, <2>3 DEF a
<1>5. CASE ~(Padded(s) > budget) /\ acc.used + Padded(s) > budget
  <2> DEFINE a == [acc EXCEPT !.shut = Append(@, acc.open), !.open = {s},
                              !.used = Padded(s)]
  <2>1. PackUnit(acc, s, budget) = a
    BY <1>5 DEF PackUnit
  <2>2. /\ a.shut = Append(acc.shut, acc.open) /\ a.open = {s} /\ a.used = Padded(s)
        /\ a.oversized = acc.oversized
    BY DEF Accs
  <2> HIDE DEF a
  <2>3. Apart(a.shut) /\ AllOf(a.shut) = AllOf(acc.shut) \cup acc.open
    BY <1>2, <2>2, ApartAppend DEF Packs
  <2>4. SizeOf({s}) = Padded(s)
    <3>1. SizeOf({} \cup {s}) = SizeOf({}) + Padded(s)
      BY <1>1, FS_EmptySet, SizeOfOneMore
    <3> QED BY <3>1, <1>1, SizeOfNone
  <2>5. ASSUME NEW i \in DOMAIN a.shut PROVE SizeOf(a.shut[i]) <= budget
    <3>1. /\ Len(a.shut) = Len(acc.shut) + 1 /\ a.shut \in Seq(SUBSET U)
          /\ \A j \in 1 .. Len(acc.shut) : a.shut[j] = acc.shut[j]
          /\ a.shut[Len(acc.shut) + 1] = acc.open
      BY <1>2, <2>2, AppendProperties
    <3>2. DOMAIN acc.shut = 1 .. Len(acc.shut) /\ DOMAIN a.shut = 1 .. Len(acc.shut) + 1
          /\ Len(acc.shut) \in Nat
      BY <1>2, <3>1, LenProperties
    <3>3. CASE i \in 1 .. Len(acc.shut)
      BY <3>1, <3>2, <3>3 DEF Packs
    <3>4. CASE i = Len(acc.shut) + 1
      BY <3>1, <3>4 DEF Packs
    <3> QED BY <3>2, <3>3, <3>4
  <2>6. Padded(s) <= budget
    BY <1>1, <1>5
  <2>7. {s} \cap AllOf(a.shut) = {}
    BY <1>3, <2>3
  <2>8. AllOf(a.shut) \cup {s} \subseteq taken \cup {s}
    BY <2>3 DEF Packs
  <2>9. taken \cup {s} \subseteq AllOf(a.shut) \cup {s} \cup a.oversized
    BY <2>2, <2>3 DEF Packs
  <2>10. Packs(a, taken \cup {s}, budget)
    BY <2>2, <2>3, <2>4, <2>5, <2>6, <2>7, <2>8, <2>9 DEF Packs
  <2> QED BY <2>1, <2>10
<1>6. CASE ~(Padded(s) > budget) /\ ~(acc.used + Padded(s) > budget)
  <2> DEFINE a == [acc EXCEPT !.open = @ \cup {s}, !.used = @ + Padded(s)]
  <2>1. PackUnit(acc, s, budget) = a
    BY <1>6 DEF PackUnit
  <2>2. /\ a.shut = acc.shut /\ a.open = acc.open \cup {s} /\ a.used = acc.used + Padded(s)
        /\ a.oversized = acc.oversized
    BY DEF Accs
  <2> HIDE DEF a
  <2>3. SizeOf(a.open) = acc.used + Padded(s)
    BY <1>1, <1>3, <2>2, SizeOfOneMore DEF Packs
  <2>4. a.used <= budget
    BY <1>1, <1>2, <1>6, <2>2
  <2>5. a.open \cap AllOf(a.shut) = {}
    BY <1>3, <2>2 DEF Packs
  <2>6. /\ AllOf(a.shut) \cup a.open \subseteq taken \cup {s}
        /\ taken \cup {s} \subseteq AllOf(a.shut) \cup a.open \cup a.oversized
    BY <2>2 DEF Packs
  <2>7. Apart(a.shut) /\ \A i \in DOMAIN a.shut : SizeOf(a.shut[i]) <= budget
    BY <2>2 DEF Packs
  <2> QED BY <2>1, <2>2, <2>3, <2>4, <2>5, <2>6, <2>7 DEF Packs
<1> QED BY <1>4, <1>5, <1>6

\* Every unit in one aggregate that fits, or too large for any.
AllPacked(packed, U, budget) ==
    /\ packed.aggregates \in Seq(SUBSET U)
    /\ packed.oversized \in SUBSET U
    /\ Apart(packed.aggregates)
    /\ U \subseteq AllOf(packed.aggregates) \cup packed.oversized
    /\ \A i \in DOMAIN packed.aggregates : SizeOf(packed.aggregates[i]) <= budget

\* Every unit is in one aggregate, which fits, or is put aside.
LEMMA PackAggregatesPacks ==
    ASSUME NEW U \in SUBSET Ids, IsFiniteSet(U), NEW units, Enumerates(units, U),
           NEW budget \in Nat
    PROVE  AllPacked(PackAggregates(units, budget), U, budget)
<1> DEFINE n == Len(units)
<1>0. /\ Cardinality(U) \in Nat /\ units \in Seq(U) /\ Len(units) = Cardinality(U)
      /\ n \in Nat /\ \A i \in 1 .. n : units[i] \in U
  <2>1. Cardinality(U) \in Nat
    BY FS_CardinalityType
  <2>2. PICK m \in Nat : m = Cardinality(U)
    BY <2>1
  <2>3. units \in [1 .. m -> U]
    BY <2>2 DEF Enumerates
  <2> QED BY <2>2, <2>3
<1>1. NothingPacked \in Accs(U)
  <2>1. <<>> \in Seq(SUBSET U)
    BY EmptySeq
  <2> QED BY <2>1 DEF NothingPacked, Accs
<1>2. \A acc \in Accs(U), i \in 1 .. n : PackUnit(acc, units[i], budget) \in Accs(U)
  BY <1>0, PackUnitType
<1>3. PICK g \in [0 .. n -> Accs(U)] : PackingRun(g, units, budget)
  BY <1>0, <1>1, <1>2, PackingSteps
<1>3a. /\ g[0] = NothingPacked
       /\ \A i \in 1 .. n : g[i] = PackUnit(g[i - 1], units[i], budget)
       /\ PackAggregates(units, budget) =
             [aggregates |-> IF g[n].open = {} THEN g[n].shut
                             ELSE Append(g[n].shut, g[n].open),
              oversized  |-> g[n].oversized]
  BY <1>3 DEF PackingRun
<1> DEFINE Taken(k) == {units[i] : i \in 1 .. k}
           S == {k \in Nat : k <= n => Packs(g[k], Taken(k), budget)}
<1>4. 0 \in S
  <2>1. Taken(0) = {}
    OBVIOUS
  <2>2. Packs(NothingPacked, {}, budget)
    <3>1. AllOf(<<>>) = {} /\ Apart(<<>>)
      BY DEF AllOf, Apart
    <3> QED BY <3>1, SizeOfNone DEF Packs, NothingPacked
  <2> QED BY <2>1, <2>2, <1>3a
<1>5. ASSUME NEW k \in S PROVE k + 1 \in S
  <2> SUFFICES ASSUME k + 1 <= n PROVE Packs(g[k + 1], Taken(k + 1), budget)
    OBVIOUS
  <2>1. k \in 0 .. n /\ k + 1 \in 1 .. n /\ (k + 1) - 1 = k /\ Packs(g[k], Taken(k), budget)
    BY <1>0
  <2>2. Taken(k + 1) = Taken(k) \cup {units[k + 1]}
    <3>1. 1 .. k + 1 = (1 .. k) \cup {k + 1}
      BY <2>1
    <3> QED BY <3>1
  <2>3. units[k + 1] \notin Taken(k)
    BY <2>1, <1>0 DEF Enumerates
  <2>4. Taken(k) \in SUBSET U /\ units[k + 1] \in U
    BY <2>1, <1>0
  <2>5. g[k + 1] = PackUnit(g[k], units[k + 1], budget) /\ g[k] \in Accs(U)
    BY <2>1, <1>3, <1>3a
  <2> HIDE DEF Taken
  <2> QED BY <2>1, <2>2, <2>3, <2>4, <2>5, PackUnitPacks
<1>6. Packs(g[n], Taken(n), budget)
  <2>1. S = Nat
    <3> HIDE DEF S
    <3>1. S \in SUBSET Nat
      BY DEF S
    <3> QED BY <1>4, <1>5, <3>1, AllNumbers
  <2>2. n \in S
    BY <2>1, <1>0
  <2>3. n <= n
    BY <1>0
  <2> QED BY <2>2, <2>3
<1>7. Taken(n) = U
  BY <1>0 DEF Enumerates
<1> DEFINE end == g[n]
           q == IF end.open = {} THEN end.shut ELSE Append(end.shut, end.open)
<1>8. end \in Accs(U) /\ end.shut \in Seq(SUBSET U) /\ end.open \in SUBSET U
      /\ end.oversized \in SUBSET U
  <2>1. g[n] \in Accs(U)
    BY <1>0, <1>3
  <2> QED BY <2>1 DEF Accs
<1>9. Packs(end, U, budget)
  BY <1>6, <1>7
<1> HIDE DEF end
<1>10. q \in Seq(SUBSET U) /\ Apart(q) /\ U \subseteq AllOf(q) \cup end.oversized
       /\ \A i \in DOMAIN q : SizeOf(q[i]) <= budget
  <2>1. CASE end.open = {}
    BY <2>1, <1>8, <1>9 DEF Packs
  <2>2. CASE end.open # {}
    <3>1. q = Append(end.shut, end.open)
      BY <2>2
    <3>2. Apart(q) /\ AllOf(q) = AllOf(end.shut) \cup end.open
      BY <3>1, <1>8, <1>9, ApartAppend DEF Packs
    <3>3. /\ Len(q) = Len(end.shut) + 1 /\ q \in Seq(SUBSET U)
          /\ \A j \in 1 .. Len(end.shut) : q[j] = end.shut[j]
          /\ q[Len(end.shut) + 1] = end.open
      BY <3>1, <1>8, AppendProperties
    <3>4. DOMAIN end.shut = 1 .. Len(end.shut) /\ DOMAIN q = 1 .. Len(end.shut) + 1
          /\ Len(end.shut) \in Nat
      BY <1>8, <3>3, LenProperties
    <3>5. SizeOf(end.open) <= budget
      BY <1>9 DEF Packs
    <3>6. \A i \in DOMAIN q : SizeOf(q[i]) <= budget
      <4> HIDE DEF q
      <4>1. \A i \in DOMAIN q : i \in DOMAIN end.shut \/ i = Len(end.shut) + 1
        BY <3>4
      <4> QED BY <4>1, <3>3, <3>4, <3>5, <1>9 DEF Packs
    <3> QED BY <3>2, <3>3, <3>6, <1>9 DEF Packs
  <2> QED BY <2>1, <2>2
<1>11. /\ PackAggregates(units, budget).aggregates = q
       /\ PackAggregates(units, budget).oversized = end.oversized
  BY <1>3a DEF end
<1> HIDE DEF q
<1> QED BY <1>8, <1>10, <1>11 DEF AllPacked
\* `planBins` row by row.
BinningRun(g, rows, target) ==
    /\ g[0] = <<>>
    /\ \A i \in 1 .. Len(rows) : g[i] = PlaceInBin(g[i - 1], rows[i], target)

BinnedBy(g, rows, S, target) ==
    rows = BySize({c \in S : RowRaw(c) <= target}) => PlanBins(S, target) = g[Len(rows)]

\* `planBins` likewise.
LEMMA BinningSteps ==
    ASSUME NEW A, NEW S, NEW target, <<>> \in A, NEW rows, Len(rows) \in Nat,
           \A bins \in A, i \in 1 .. Len(rows) : PlaceInBin(bins, rows[i], target) \in A
    PROVE  \E g \in [0 .. Len(rows) -> A] :
              BinningRun(g, rows, target) /\ BinnedBy(g, rows, S, target)
<1> DEFINE n == Len(rows)
           step == [i \in 1 .. n |-> [bins \in A |-> PlaceInBin(bins, rows[i], target)]]
           Eq(f) == f = [i \in 0 .. n |-> IF i = 0 THEN <<>>
                                          ELSE PlaceInBin(f[i - 1], rows[i], target)]
<1>1. step \in [1 .. n -> [A -> A]]
  OBVIOUS
<1>2. PICK g \in [0 .. n -> A] : StepsTo(g, n, <<>>, step)
  <2> HIDE DEF step
  <2>1. n \in Nat
    OBVIOUS
  <2> HIDE DEF n
  <2> QED BY <1>1, <2>1, StepByStep
<1>3. g[0] = <<>> /\ \A i \in 1 .. n : g[i] = PlaceInBin(g[i - 1], rows[i], target)
  <2>1. g[0] = <<>> /\ \A i \in 1 .. n : g[i] = step[i][g[i - 1]]
    <3> HIDE DEF step
    <3> QED BY <1>2 DEF StepsTo
  <2>2. ASSUME NEW i \in 1 .. n PROVE step[i][g[i - 1]] = PlaceInBin(g[i - 1], rows[i], target)
    <3>1. g[i - 1] \in A
      OBVIOUS
    <3> QED BY <3>1
  <2> HIDE DEF step
  <2> QED BY <2>1, <2>2
<1>4. Eq(g)
  <2> DEFINE f == [i \in 0 .. n |-> IF i = 0 THEN <<>>
                                     ELSE PlaceInBin(g[i - 1], rows[i], target)]
  <2>1. ASSUME NEW i \in 0 .. n PROVE g[i] = f[i]
    BY <1>3
  <2>2. DOMAIN f = 0 .. n /\ f = [i \in DOMAIN f |-> f[i]]
    OBVIOUS
  <2>3. g = [i \in 0 .. n |-> g[i]]
    OBVIOUS
  <2> HIDE DEF f
  <2>4. g = f
    BY <2>1, <2>2, <2>3
  <2> QED BY <2>4 DEF f
<1> DEFINE bins == CHOOSE f : Eq(f)
<1>5. Eq(bins)
  <2> HIDE DEF Eq
  <2> QED BY <1>4
<1>6. bins[0] = <<>>
  <2> HIDE DEF bins
  <2> QED BY <1>5
<1>7. ASSUME NEW i \in 1 .. n PROVE bins[i] = PlaceInBin(bins[i - 1], rows[i], target)
  <2> HIDE DEF bins
  <2> QED BY <1>5
<1>8. bins \in [0 .. n -> A]
  <2> HIDE DEF bins
  <2> DEFINE T == {k \in Nat : k <= n => bins[k] \in A}
  <2>1. 0 \in T
    BY <1>6
  <2>2. ASSUME NEW k \in T PROVE k + 1 \in T
    <3> SUFFICES ASSUME k + 1 <= n PROVE bins[k + 1] \in A
      OBVIOUS
    <3>1. k + 1 \in 1 .. n /\ bins[k] \in A /\ (k + 1) - 1 = k
      OBVIOUS
    <3> QED BY <3>1, <1>7
  <2>3. T = Nat
    <3> HIDE DEF T
    <3>1. T \in SUBSET Nat
      BY DEF T
    <3> QED BY <2>1, <2>2, <3>1, AllNumbers
  <2>4. \A k \in 0 .. n : bins[k] \in A
    BY <2>3
  <2> QED BY <2>4, <1>5
<1>9. BinnedBy(bins, rows, S, target)
  BY DEF PlanBins, BinnedBy
<1>10. BinningRun(bins, rows, target)
  <2> HIDE DEF bins
  <2> QED BY <1>6, <1>7 DEF BinningRun
<1> HIDE DEF bins
<1> QED BY <1>8, <1>9, <1>10

Bins == (SUBSET Cids) \ {{}}

\* A piece is placed in one bin.
LEMMA PlaceInBinApart ==
    ASSUME NEW bins \in Seq(Bins), NEW c \in Cids, NEW target
    PROVE  /\ PlaceInBin(bins, c, target) \in Seq(Bins)
           /\ Apart(bins) /\ c \notin AllOf(bins) =>
                 /\ Apart(PlaceInBin(bins, c, target))
                 /\ AllOf(PlaceInBin(bins, c, target)) = AllOf(bins) \cup {c}
<1> DEFINE room == WithRoom(bins, c, target)
<1>1. /\ DOMAIN bins = 1 .. Len(bins) /\ Len(bins) \in Nat /\ room \subseteq DOMAIN bins
      /\ \A i \in DOMAIN bins : bins[i] \in Bins
  BY LenProperties DEF WithRoom
<1>2. CASE room = {}
  <2>1. PlaceInBin(bins, c, target) = Append(bins, {c}) /\ {c} \in Bins
    BY <1>2 DEF PlaceInBin, Bins
  <2>2. Append(bins, {c}) \in Seq(Bins)
    BY <2>1, AppendProperties
  <2>3. Apart(bins) /\ c \notin AllOf(bins) =>
           Apart(Append(bins, {c})) /\ AllOf(Append(bins, {c})) = AllOf(bins) \cup {c}
    <3>1. c \notin AllOf(bins) => {c} \cap AllOf(bins) = {}
      OBVIOUS
    <3> QED BY <2>1, <3>1, ApartAppend
  <2> QED BY <2>1, <2>2, <2>3
<1>3. CASE room # {}
  <2> DEFINE k == CHOOSE i \in room : \A j \in room : i <= j
  <2>1. k \in room
    <3>1. room \in SUBSET Nat
      BY <1>1
    <3>2. \E i \in room : \A j \in room : i <= j
      <4> HIDE DEF room
      <4> QED BY <3>1, <1>3, LeastNumber
    <3> HIDE DEF room
    <3> QED BY <3>2
  <2> HIDE DEF k
  <2>2. PlaceInBin(bins, c, target) = [bins EXCEPT ![k] = bins[k] \cup {c}]
    BY <1>3 DEF PlaceInBin, k
  <2> DEFINE q == [bins EXCEPT ![k] = bins[k] \cup {c}]
  <2>3. k \in 1 .. Len(bins) /\ bins[k] \cup {c} \in Bins
    BY <2>1, <1>1 DEF Bins
  <2>4. /\ q \in Seq(Bins) /\ DOMAIN q = DOMAIN bins /\ k \in DOMAIN bins
        /\ \A j \in DOMAIN bins : q[j] = IF j = k THEN bins[k] \cup {c} ELSE bins[j]
    BY <2>3, <1>1, ExceptSeq
  <2> HIDE DEF q, room
  <2>5. ASSUME Apart(bins), c \notin AllOf(bins)
        PROVE  Apart(q) /\ AllOf(q) = AllOf(bins) \cup {c}
    <3>1. \A i \in DOMAIN bins : c \notin bins[i]
      BY <2>5 DEF AllOf
    <3>2. Apart(q)
      BY <3>1, <2>4, <2>5 DEF Apart
    <3>3. AllOf(q) = AllOf(bins) \cup {c}
      BY <2>4 DEF AllOf
    <3> QED BY <3>2, <3>3
  <2> QED BY <2>2, <2>4, <2>5 DEF q
<1> QED BY <1>2, <1>3

\* Each free piece in one bin at most.
LEMMA PlanBinsApart ==
    ASSUME NEW S \in SUBSET Cids, \A c \in S : rec[c] \in Contents, NEW target
    PROVE  /\ PlanBins(S, target) \in Seq(Bins)
           /\ Apart(PlanBins(S, target))
           /\ AllOf(PlanBins(S, target)) \subseteq {c \in S : RowRaw(c) <= target}
<1> DEFINE U == {c \in S : RowRaw(c) <= target}
           rows == BySize(U)
           n == Len(rows)
<1>0. /\ n \in Nat /\ n = Cardinality(U) /\ U \in SUBSET Cids
      /\ Enumerates(rows, U) /\ \A i \in 1 .. n : rows[i] \in U
  <2>1. U \in SUBSET Cids /\ \A c \in U : rec[c] \in Contents
    OBVIOUS
  <2> HIDE DEF U
  <2>2. IsFiniteSet(U) /\ Enumerates(rows, U)
    BY <2>1, BySizeEnumerates
  <2> HIDE DEF rows
  <2>3. PICK m \in Nat : m = Cardinality(U)
    BY <2>2, FS_CardinalityType
  <2>4. rows \in [1 .. m -> U]
    BY <2>2, <2>3 DEF Enumerates
  <2> QED BY <2>1, <2>2, <2>3, <2>4
<1>1. <<>> \in Seq(Bins)
  BY EmptySeq
<1>2. \A bins \in Seq(Bins), i \in 1 .. n : PlaceInBin(bins, rows[i], target) \in Seq(Bins)
  <2> HIDE DEF rows
  <2> QED BY <1>0, PlaceInBinApart
<1>3. PICK g \in [0 .. n -> Seq(Bins)] :
         BinningRun(g, rows, target) /\ BinnedBy(g, rows, S, target)
  <2> HIDE DEF rows
  <2> QED BY <1>0, <1>1, <1>2, BinningSteps
<1>3a. PlanBins(S, target) = g[n]
  BY <1>3 DEF BinnedBy
<1> HIDE DEF rows, U
<1>4. /\ g[0] = <<>>
      /\ \A i \in 1 .. n : g[i] = PlaceInBin(g[i - 1], rows[i], target)
  BY <1>3 DEF BinningRun
<1> DEFINE Taken(k) == {rows[i] : i \in 1 .. k}
           Right(k) == Apart(g[k]) /\ AllOf(g[k]) = Taken(k)
           T == {k \in Nat : k <= n => Right(k)}
<1>5. 0 \in T
  <2>1. Apart(<<>>) /\ AllOf(<<>>) = {}
    BY DEF Apart, AllOf
  <2> QED BY <2>1, <1>4
<1>6. ASSUME NEW k \in T PROVE k + 1 \in T
  <2> SUFFICES ASSUME k + 1 <= n PROVE Right(k + 1)
    <3> HIDE DEF Right
    <3> QED OBVIOUS
  <2>1. k \in 0 .. n /\ k + 1 \in 1 .. n /\ (k + 1) - 1 = k
        /\ Apart(g[k]) /\ AllOf(g[k]) = Taken(k)
    BY <1>0
  <2>2. Taken(k + 1) = Taken(k) \cup {rows[k + 1]}
    <3>1. 1 .. k + 1 = (1 .. k) \cup {k + 1}
      BY <2>1
    <3> QED BY <3>1
  <2>3. rows[k + 1] \notin Taken(k)
    BY <2>1, <1>0 DEF Enumerates
  <2>4. rows[k + 1] \in Cids
    BY <2>1, <1>0
  <2>5. g[k] \in Seq(Bins)
    BY <2>1
  <2>6. g[k + 1] = PlaceInBin(g[k], rows[k + 1], target)
    BY <2>1, <1>4
  <2> HIDE DEF Taken, T
  <2>7. /\ Apart(PlaceInBin(g[k], rows[k + 1], target))
        /\ AllOf(PlaceInBin(g[k], rows[k + 1], target)) = AllOf(g[k]) \cup {rows[k + 1]}
    <3>1. rows[k + 1] \notin AllOf(g[k])
      BY <2>1, <2>3
    <3> QED BY <2>1, <2>4, <2>5, <3>1, PlaceInBinApart
  <2> QED BY <2>1, <2>2, <2>6, <2>7
<1>7. Apart(g[n]) /\ AllOf(g[n]) = Taken(n)
  <2>1. T = Nat
    <3> HIDE DEF T
    <3>1. T \in SUBSET Nat
      BY DEF T
    <3> QED BY <1>5, <1>6, <3>1, AllNumbers
  <2>2. n \in T
    <3> HIDE DEF T
    <3> QED BY <2>1, <1>0
  <2>3. n <= n
    BY <1>0
  <2> QED BY <2>2, <2>3
<1>8. Taken(n) \subseteq U
  BY <1>0
<1>9. g[n] \in Seq(Bins)
  BY <1>0
<1> QED BY <1>3a, <1>7, <1>8, <1>9 DEF U
-----------------------------------------------------------------------------
(***************************************************************************)
(* The scripts of the passes.                                              *)
(***************************************************************************)
\* What the writes of a pass are about.
WriteOf(phase) ==
    CASE phase = "import" -> {"record"} \X (Cids \X Contents)
      [] phase = "wrap"   -> {"wrap"} \X Cids
      [] phase = "append" -> ({"save"} \X SUBSET Ids) \cup ({"oversize"} \X Cids)
      [] phase = "bins"   -> ({"wrap"} \X Cids) \cup ({"bin"} \X Bins)
      [] OTHER            -> {}

\* The kinds of writes, pass by pass.
LEMMA WritesAre ==
    /\ WriteOf("import") = {"record"} \X (Cids \X Contents)
    /\ WriteOf("wrap") = {"wrap"} \X Cids
    /\ WriteOf("append") = ({"save"} \X SUBSET Ids) \cup ({"oversize"} \X Cids)
    /\ WriteOf("bins") = ({"wrap"} \X Cids) \cup ({"bin"} \X Bins)
BY DEF WriteOf

\* The sources a write of a wrap or bin pass takes are free, and no other write's.
Takes(w) == IF w[1] = "wrap" THEN {w[2]} ELSE w[2]

Takeable(q, taken) ==
    \A i \in DOMAIN q :
        /\ Takes(q[i]) \cap taken = {}
        /\ \A j \in DOMAIN q : i # j => Takes(q[i]) \cap Takes(q[j]) = {}

\* Likewise for the sub-pieces an append pass puts in aggregates.
Saves(w) == w[1] = "save"

Savable(q, free, budget) ==
    \A i \in DOMAIN q : Saves(q[i]) =>
        /\ q[i][2] \subseteq free
        /\ SizeOf(q[i][2]) <= budget
        /\ \A j \in DOMAIN q : i # j /\ Saves(q[j]) => q[i][2] \cap q[j][2] = {}

\* Each free sub-piece goes into an aggregate, or its sources (m) are marked.
Marks(q, c) == \E i \in DOMAIN q : q[i][1] = "oversize" /\ q[i][2] = c

Accounted(q, free, m, p) ==
    \A s \in free :
        \/ \E i \in DOMAIN q : Saves(q[i]) /\ s \in q[i][2]
        \/ \A c \in m[s] : p[c] = "oversized" \/ Marks(q, c)

\* One write for each of a list.
LEMMA OpsAre ==
    ASSUME NEW T, NEW q \in Seq(T), NEW name
    PROVE  /\ Ops(name, q) \in Seq({name} \X T)
           /\ Len(Ops(name, q)) = Len(q)
           /\ \A i \in 1 .. Len(q) : Ops(name, q)[i] = <<name, q[i]>>
<1>1. PICK n \in Nat : n = Len(q)
  BY LenProperties
<1>2. DOMAIN q = 1 .. n /\ \A i \in 1 .. n : q[i] \in T
  BY <1>1, LenProperties
<1>3. Ops(name, q) = [i \in 1 .. n |-> <<name, q[i]>>]
  BY <1>2 DEF Ops, Op
<1>4. [i \in 1 .. n |-> <<name, q[i]>>] \in [1 .. n -> {name} \X T]
  BY <1>2
<1>5. Ops(name, q) \in [1 .. n -> {name} \X T]
  BY <1>3, <1>4
<1>6. Ops(name, q) \in Seq({name} \X T) /\ Len(Ops(name, q)) = n
  BY <1>5
<1> QED BY <1>1, <1>3, <1>6

\* A list of all members.
LEMMA EnumerationIsSeq ==
    ASSUME NEW S, IsFiniteSet(S), NEW q, Enumerates(q, S)
    PROVE  /\ q \in Seq(S) /\ Len(q) = Cardinality(S)
           /\ \A i, j \in 1 .. Len(q) : q[i] = q[j] => i = j
           /\ \A c \in S : \E i \in 1 .. Len(q) : q[i] = c
<1>1. PICK m \in Nat : m = Cardinality(S)
  BY FS_CardinalityType
<1>2. q \in [1 .. m -> S]
  BY <1>1 DEF Enumerates
<1>3. q \in Seq(S) /\ Len(q) = m
  BY <1>2
<1> QED BY <1>1, <1>3 DEF Enumerates

\* One write for each of S in turn.
OnePer(q, name, S) ==
    /\ q \in Seq({name} \X S)
    /\ \A i \in DOMAIN q : q[i][1] = name /\ q[i][2] \in S
    /\ \A i, j \in DOMAIN q : q[i][2] = q[j][2] => i = j
    /\ \A c \in S : \E i \in DOMAIN q : q[i][1] = name /\ q[i][2] = c

\* One write for each CID of a set.
LEMMA OneEach ==
    ASSUME NEW S \in SUBSET Cids, NEW name
    PROVE  OnePer(Ops(name, Sorted(S)), name, S)
<1>1. IsFiniteSet(S) /\ Enumerates(Sorted(S), S)
  BY SortedEnumerates
<1>2. /\ Sorted(S) \in Seq(S)
      /\ \A i, j \in 1 .. Len(Sorted(S)) : Sorted(S)[i] = Sorted(S)[j] => i = j
      /\ \A c \in S : \E i \in 1 .. Len(Sorted(S)) : Sorted(S)[i] = c
  BY <1>1, EnumerationIsSeq
<1>3. PICK r : r = Sorted(S)
  OBVIOUS
<1>4. PICK q : q = Ops(name, r)
  OBVIOUS
<1>5. /\ q \in Seq({name} \X S) /\ Len(q) = Len(r)
      /\ \A i \in 1 .. Len(r) : q[i] = <<name, r[i]>>
  BY <1>2, <1>3, <1>4, OpsAre
<1>6. DOMAIN q = 1 .. Len(r) /\ \A i \in 1 .. Len(r) : r[i] \in S
  BY <1>2, <1>3, <1>5, LenProperties
<1>7. \A i \in DOMAIN q : q[i][1] = name /\ q[i][2] = r[i] /\ r[i] \in S
  BY <1>5, <1>6
<1>8. \A i, j \in DOMAIN q : q[i][2] = q[j][2] => i = j
  BY <1>2, <1>3, <1>6, <1>7
<1>9. \A c \in S : \E i \in DOMAIN q : q[i][1] = name /\ q[i][2] = c
  BY <1>2, <1>3, <1>6, <1>7
<1> QED BY <1>3, <1>4, <1>5, <1>7, <1>8, <1>9 DEF OnePer

\* A wrap pass takes what is free, all of it, each piece once.
LEMMA WrapScriptIs ==
    ASSUME NEW p
    PROVE  LET q == WrapScript(p)
           IN  /\ q \in Seq(WriteOf("wrap"))
               /\ \A i \in DOMAIN q : Takes(q[i]) \subseteq DoneFree(p)
               /\ Takeable(q, Wrapped)
               /\ \A c \in DoneFree(p) : \E i \in DOMAIN q : q[i][2] = c
<1>1. DoneFree(p) \in SUBSET Cids /\ DoneFree(p) \cap Wrapped = {}
  BY DEF DoneFree
<1>2. PICK S \in SUBSET Cids : S = DoneFree(p)
  BY <1>1
<1>3. PICK q : q = WrapScript(p)
  OBVIOUS
<1>4a. OnePer(q, "wrap", S)
  BY <1>2, <1>3, OneEach DEF WrapScript
<1>4. /\ q \in Seq({"wrap"} \X S)
      /\ \A i \in DOMAIN q : q[i][1] = "wrap" /\ q[i][2] \in S
      /\ \A i, j \in DOMAIN q : q[i][2] = q[j][2] => i = j
      /\ \A c \in S : \E i \in DOMAIN q : q[i][1] = "wrap" /\ q[i][2] = c
  BY <1>4a DEF OnePer
<1>5. q \in Seq(WriteOf("wrap"))
  BY <1>4, SeqMonotonic, WritesAre
<1>6. \A i \in DOMAIN q : Takes(q[i]) = {q[i][2]}
  BY <1>4 DEF Takes
<1>7. Takeable(q, Wrapped)
  BY <1>1, <1>2, <1>4, <1>6 DEF Takeable
<1> QED BY <1>2, <1>3, <1>4, <1>5, <1>6, <1>7
AppendWrites(q, free, budget, p) ==
    /\ q \in Seq(WriteOf("append"))
    /\ Savable(q, free, budget)
    /\ Accounted(q, free, subs, p)

\* An append pass puts each free sub-piece in one aggregate, or marks its sources.
LEMMA AppendScriptIs ==
    ASSUME NEW U \in SUBSET Ids, IsFiniteSet(U), \A s \in U : subs[s] \subseteq Cids,
           NEW units \in SetToSeqs(U), NEW budget \in Nat, NEW p
    PROVE  AppendWrites(AppendScript(units, budget), U, budget, p)
<1> DEFINE packed == PackAggregates(units, budget)
           M == UNION {subs[s] : s \in packed.oversized}
           q == AppendScript(units, budget)
<1>1. Enumerates(units, U)
  <2>1. PICK n \in Nat : n = Cardinality(U)
    BY FS_CardinalityType
  <2>2. units \in [1 .. n -> U] /\ \A i, j \in 1 .. n : i # j => units[i] # units[j]
    BY <2>1 DEF SetToSeqs
  <2>3. units \in Injection(1 .. n, U)
    BY <2>2 DEF Injection, IsInjective
  <2>4. Cardinality(1 .. n) = Cardinality(U)
    BY <2>1, FS_Interval
  <2>5. units \in Surjection(1 .. n, U)
    BY <2>3, <2>4, FS_Injection
  <2> QED BY <2>1, <2>2, <2>5 DEF Enumerates, Surjection
<1>2. PICK groups, large :
         /\ groups = packed.aggregates /\ large = packed.oversized
         /\ groups \in Seq(SUBSET U) /\ large \in SUBSET U
         /\ Apart(groups) /\ U \subseteq AllOf(groups) \cup large
         /\ \A i \in DOMAIN groups : SizeOf(groups[i]) <= budget
  <2>1. AllPacked(packed, U, budget)
    BY <1>1, PackAggregatesPacks
  <2> HIDE DEF packed
  <2> QED BY <2>1 DEF AllPacked
<1>3. M \in SUBSET Cids /\ M = UNION {subs[s] : s \in large}
  BY <1>2
<1>4. PICK saves, marks : saves = Ops("save", groups) /\ marks = Ops("oversize", Sorted(M))
  OBVIOUS
<1>5. q = saves \o marks
  BY <1>2, <1>4 DEF AppendScript
<1> HIDE DEF M, q, packed
<1>6. /\ saves \in Seq({"save"} \X SUBSET U) /\ Len(saves) = Len(groups)
      /\ \A i \in 1 .. Len(groups) : saves[i] = <<"save", groups[i]>>
  <2>1. PICK T, r : T = SUBSET U /\ r = groups /\ r \in Seq(T)
    BY <1>2
  <2>2. PICK w : w = Ops("save", r)
    OBVIOUS
  <2>3. w \in Seq({"save"} \X T) /\ Len(w) = Len(r)
        /\ \A i \in 1 .. Len(r) : w[i] = <<"save", r[i]>>
    BY <2>1, <2>2, OpsAre
  <2> QED BY <2>1, <2>2, <2>3, <1>4
<1>7. OnePer(marks, "oversize", M)
  BY <1>3, <1>4, OneEach
<1>8. marks \in Seq({"oversize"} \X M)
  BY <1>7 DEF OnePer
<1> DEFINE W == ({"save"} \X SUBSET Ids) \cup ({"oversize"} \X Cids)
<1>9. saves \in Seq(W) /\ marks \in Seq(W)
  <2>1. {"save"} \X SUBSET U \subseteq W /\ {"oversize"} \X M \subseteq W
    BY <1>3
  <2> HIDE DEF W
  <2> QED BY <1>6, <1>8, <2>1, SeqMonotonic
<1>10. /\ q \in Seq(W) /\ Len(q) = Len(saves) + Len(marks)
       /\ \A i \in 1 .. Len(saves) + Len(marks) :
             q[i] = IF i <= Len(saves) THEN saves[i] ELSE marks[i - Len(saves)]
  <2> HIDE DEF W
  <2> QED BY <1>5, <1>9, ConcatProperties
<1>11. /\ DOMAIN q = 1 .. Len(saves) + Len(marks) /\ Len(saves) \in Nat /\ Len(marks) \in Nat
       /\ DOMAIN groups = 1 .. Len(saves) /\ DOMAIN marks = 1 .. Len(marks)
  <2> HIDE DEF W
  <2> QED BY <1>2, <1>6, <1>9, <1>10, LenProperties
<1>12. \A i \in DOMAIN groups : i \in DOMAIN q /\ q[i][1] = "save" /\ q[i][2] = groups[i]
  BY <1>6, <1>10, <1>11
<1>13. \A i \in DOMAIN q \ DOMAIN groups : q[i][1] = "oversize"
  <2>1. ASSUME NEW i \in DOMAIN q \ DOMAIN groups
        PROVE  i - Len(saves) \in DOMAIN marks /\ q[i] = marks[i - Len(saves)]
    BY <1>10, <1>11
  <2> QED BY <2>1, <1>7 DEF OnePer
<1>14. Savable(q, U, budget)
  <2>1. \A i \in DOMAIN q : Saves(q[i]) => i \in DOMAIN groups /\ q[i][2] = groups[i]
    BY <1>12, <1>13 DEF Saves
  <2>2. \A i \in DOMAIN groups : groups[i] \subseteq U
    BY <1>2, LenProperties
  <2> QED BY <2>1, <2>2, <1>2 DEF Savable, Apart
<1>15. ASSUME NEW c \in M PROVE Marks(q, c)
  <2>1. PICK i \in DOMAIN marks : marks[i][1] = "oversize" /\ marks[i][2] = c
    BY <1>7 DEF OnePer
  <2>2. i + Len(saves) \in DOMAIN q /\ q[i + Len(saves)] = marks[i]
    BY <1>10, <1>11
  <2> QED BY <2>1, <2>2 DEF Marks
<1>16. Accounted(q, U, subs, p)
  <2>1. ASSUME NEW s \in U PROVE s \in AllOf(groups) \/ s \in large
    BY <1>2
  <2>2. ASSUME NEW s \in AllOf(groups) PROVE \E i \in DOMAIN q : Saves(q[i]) /\ s \in q[i][2]
    BY <1>12 DEF AllOf, Saves
  <2>3. ASSUME NEW s \in large, NEW c \in subs[s] PROVE Marks(q, c)
    BY <1>3, <1>15
  <2> QED BY <2>1, <2>2, <2>3 DEF Accounted
<1> QED BY <1>10, <1>14, <1>16, WritesAre DEF AppendWrites, q

\* Two scripts in a row.
LEMMA TakeableBoth ==
    ASSUME NEW W, NEW a \in Seq(W), NEW b \in Seq(W), NEW taken,
           Takeable(a, taken), Takeable(b, taken),
           \A i \in DOMAIN a, j \in DOMAIN b : Takes(a[i]) \cap Takes(b[j]) = {}
    PROVE  Takeable(a \o b, taken)
<1>1. PICK q : q = a \o b
  OBVIOUS
<1>2. /\ q \in Seq(W) /\ Len(q) = Len(a) + Len(b)
      /\ \A i \in 1 .. Len(a) + Len(b) : q[i] = IF i <= Len(a) THEN a[i] ELSE b[i - Len(a)]
  BY <1>1, ConcatProperties
<1>3. /\ DOMAIN q = 1 .. Len(a) + Len(b) /\ Len(a) \in Nat /\ Len(b) \in Nat
      /\ DOMAIN a = 1 .. Len(a) /\ DOMAIN b = 1 .. Len(b)
  BY <1>2, LenProperties
<1>4. \A i \in DOMAIN q :
         \/ i \in DOMAIN a /\ q[i] = a[i]
         \/ i \notin DOMAIN a /\ i - Len(a) \in DOMAIN b /\ q[i] = b[i - Len(a)]
  BY <1>2, <1>3
<1>5. \A i, j \in DOMAIN q : i # j => i - Len(a) # j - Len(a)
  BY <1>3
<1>6. ASSUME NEW i \in DOMAIN q PROVE Takes(q[i]) \cap taken = {}
  BY <1>4 DEF Takeable
<1>7. ASSUME NEW i \in DOMAIN q, NEW j \in DOMAIN q, i # j
      PROVE  Takes(q[i]) \cap Takes(q[j]) = {}
  <2>1. CASE i \in DOMAIN a /\ j \in DOMAIN a
    BY <1>4, <1>7, <2>1 DEF Takeable
  <2>2. CASE i \in DOMAIN a /\ j \notin DOMAIN a
    BY <1>4, <2>2
  <2>3. CASE i \notin DOMAIN a /\ j \in DOMAIN a
    BY <1>4, <2>3
  <2>4. CASE i \notin DOMAIN a /\ j \notin DOMAIN a
    BY <1>4, <1>5, <1>7, <2>4 DEF Takeable
  <2> QED BY <2>1, <2>2, <2>3, <2>4
<1> QED BY <1>1, <1>6, <1>7 DEF Takeable

\* A script that takes free sources of S.
Taking(q, S) ==
    /\ q \in Seq(WriteOf("bins"))
    /\ Takeable(q, Wrapped)
    /\ \A i \in DOMAIN q : Takes(q[i]) \subseteq S

\* Scripts that take apart sources, one after the other.
LEMMA TakingBoth ==
    ASSUME NEW S, NEW T, NEW a, NEW b, Taking(a, S), Taking(b, T), S \cap T = {}
    PROVE  Taking(a \o b, S \cup T)
<1>1. PICK W : W = WriteOf("bins")
  OBVIOUS
<1>2. /\ a \in Seq(W) /\ b \in Seq(W) /\ Takeable(a, Wrapped) /\ Takeable(b, Wrapped)
      /\ \A i \in DOMAIN a : Takes(a[i]) \subseteq S
      /\ \A i \in DOMAIN b : Takes(b[i]) \subseteq T
  BY <1>1 DEF Taking
<1>3. \A i \in DOMAIN a, j \in DOMAIN b : Takes(a[i]) \cap Takes(b[j]) = {}
  BY <1>2
<1>4. Takeable(a \o b, Wrapped)
  BY <1>2, <1>3, TakeableBoth
<1>5. PICK q : q = a \o b
  OBVIOUS
<1>6. /\ q \in Seq(W) /\ Len(q) = Len(a) + Len(b)
      /\ \A i \in 1 .. Len(a) + Len(b) : q[i] = IF i <= Len(a) THEN a[i] ELSE b[i - Len(a)]
  BY <1>2, <1>5, ConcatProperties
<1>7. /\ DOMAIN q = 1 .. Len(a) + Len(b) /\ Len(a) \in Nat /\ Len(b) \in Nat
      /\ DOMAIN a = 1 .. Len(a) /\ DOMAIN b = 1 .. Len(b)
  BY <1>2, <1>6, LenProperties
<1>8. \A i \in DOMAIN q :
         \/ i \in DOMAIN a /\ q[i] = a[i]
         \/ i - Len(a) \in DOMAIN b /\ q[i] = b[i - Len(a)]
  BY <1>6, <1>7
<1>9. \A i \in DOMAIN q : Takes(q[i]) \subseteq S \cup T
  BY <1>2, <1>8
<1> QED BY <1>1, <1>4, <1>5, <1>6, <1>9 DEF Taking

\* The bins of a pass take free pieces, each once;
LEMMA BinsTaking ==
    ASSUME NEW S \in SUBSET Cids, S \cap Wrapped = {}, \A c \in S : rec[c] \in Contents,
           NEW target
    PROVE  Taking(Ops("bin", PlanBins(S, target)), {c \in S : RowRaw(c) <= target})
<1>1. PICK bins : bins = PlanBins(S, target)
  OBVIOUS
<1>2. /\ bins \in Seq(Bins) /\ Apart(bins)
      /\ AllOf(bins) \subseteq {c \in S : RowRaw(c) <= target}
  BY <1>1, PlanBinsApart
<1>3. PICK q : q = Ops("bin", bins)
  OBVIOUS
<1>4. /\ q \in Seq({"bin"} \X Bins) /\ Len(q) = Len(bins)
      /\ \A i \in 1 .. Len(bins) : q[i] = <<"bin", bins[i]>>
  BY <1>2, <1>3, OpsAre
<1>5. DOMAIN q = 1 .. Len(bins) /\ DOMAIN bins = 1 .. Len(bins)
  BY <1>2, <1>4, LenProperties
<1>6. \A i \in DOMAIN q : Takes(q[i]) = bins[i]
  BY <1>4, <1>5 DEF Takes
<1>7. \A i \in DOMAIN q : bins[i] \subseteq {c \in S : RowRaw(c) <= target}
  BY <1>2, <1>5 DEF AllOf
<1>8. Takeable(q, Wrapped)
  BY <1>2, <1>5, <1>6, <1>7 DEF Takeable, Apart
<1>9. q \in Seq(WriteOf("bins"))
  BY <1>4, SeqMonotonic, WritesAre
<1> QED BY <1>1, <1>3, <1>6, <1>7, <1>8, <1>9 DEF Taking

\* so do the pieces passed through,
LEMMA PassthroughsTaking ==
    ASSUME NEW S \in SUBSET Cids, S \cap Wrapped = {}
    PROVE  Taking(Passthroughs(S), S)
<1>1. PICK q : q = Passthroughs(S)
  OBVIOUS
<1>2. OnePer(q, "wrap", S)
  BY <1>1, OneEach DEF Passthroughs
<1>3. /\ q \in Seq({"wrap"} \X S)
      /\ \A i \in DOMAIN q : q[i][1] = "wrap" /\ q[i][2] \in S
      /\ \A i, j \in DOMAIN q : q[i][2] = q[j][2] => i = j
  BY <1>2 DEF OnePer
<1>4. \A i \in DOMAIN q : Takes(q[i]) = {q[i][2]}
  BY <1>3 DEF Takes
<1>5. q \in Seq(WriteOf("bins"))
  BY <1>3, SeqMonotonic, WritesAre
<1>6. Takeable(q, Wrapped)
  BY <1>3, <1>4 DEF Takeable
<1> QED BY <1>1, <1>3, <1>4, <1>5, <1>6 DEF Taking

\* and those packed alone.
LEMMA SinglesTaking ==
    ASSUME NEW S \in SUBSET Cids, S \cap Wrapped = {}
    PROVE  Taking(Singles(S), S)
<1>0. PICK U \in SUBSET S : U = {c \in S : RowRaw(c) <= UploadCap}
  OBVIOUS
<1>1. IsFiniteSet(U) /\ Enumerates(Sorted(U), U)
  BY <1>0, SortedEnumerates
<1>2. PICK one : one = Sorted(U)
  OBVIOUS
<1>3. /\ one \in Seq(U)
      /\ \A i, j \in 1 .. Len(one) : one[i] = one[j] => i = j
  BY <1>1, <1>2, EnumerationIsSeq
<1>4. PICK n \in Nat : n = Len(one)
  BY <1>3, LenProperties
<1>5. DOMAIN one = 1 .. n /\ \A i \in 1 .. n : one[i] \in S
  BY <1>3, <1>4, LenProperties
<1>6. Singles(S) = [i \in 1 .. n |-> <<"bin", {one[i]}>>]
  BY <1>0, <1>2, <1>5 DEF Singles, Op
<1>7. PICK q : q = [i \in 1 .. n |-> <<"bin", {one[i]}>>]
  OBVIOUS
<1>8. DOMAIN q = 1 .. n /\ \A i \in 1 .. n : q[i] = <<"bin", {one[i]}>>
  BY <1>7
<1>9. q \in Seq(WriteOf("bins"))
  <2>1. \A i \in 1 .. n : {one[i]} \in Bins
    BY <1>5 DEF Bins
  <2>2. q \in [1 .. n -> {"bin"} \X Bins]
    BY <1>7, <2>1
  <2>3. q \in Seq({"bin"} \X Bins)
    BY <2>2
  <2> QED BY <2>3, SeqMonotonic, WritesAre
<1>10. \A i \in DOMAIN q : Takes(q[i]) = {one[i]}
  BY <1>8 DEF Takes
<1>11. Takeable(q, Wrapped)
  BY <1>3, <1>4, <1>5, <1>8, <1>10 DEF Takeable
<1>12. \A i \in DOMAIN q : Takes(q[i]) \subseteq S
  BY <1>5, <1>8, <1>10
<1> QED BY <1>6, <1>7, <1>9, <1>11, <1>12 DEF Taking

\* So a bin pass takes free pieces, each once.
LEMMA BinScriptIs ==
    ASSUME \A c \in DoneFree(piece) : rec[c] \in Contents,
           NEW kind, NEW target \in Nat
    PROVE  Taking(BinScript(kind, target), DoneFree(piece))
<1>1. DoneFree(piece) \in SUBSET Cids /\ DoneFree(piece) \cap Wrapped = {}
  BY DEF DoneFree
<1>2. PICK D : D = DoneFree(piece)
  OBVIOUS
<1>3. PICK small, large : small = {c \in D : RowRaw(c) <= target}
                          /\ large = {c \in D : RowRaw(c) > target}
  OBVIOUS
<1>4. /\ small \in SUBSET Cids /\ large \in SUBSET Cids
      /\ small \cap large = {} /\ small \cup large \subseteq D /\ large \cap Wrapped = {}
  <2>1. \A c \in D : RowRaw(c) \in Nat
    BY <1>2, RawAssumption DEF RowRaw
  <2>2. \A c \in D : ~(RowRaw(c) <= target /\ RowRaw(c) > target)
    BY <2>1
  <2> QED BY <1>1, <1>2, <1>3, <2>2
<1>5. PICK a : a = Ops("bin", PlanBins(D, target)) /\ Taking(a, small)
  <2>1. Taking(Ops("bin", PlanBins(D, target)), {c \in D : RowRaw(c) <= target})
    BY <1>1, <1>2, BinsTaking
  <2> QED BY <2>1, <1>3
<1>6. PICK b : /\ b = (IF kind = "upload" THEN Singles(large) ELSE Passthroughs(large))
               /\ Taking(b, large)
  BY <1>4, SinglesTaking, PassthroughsTaking
<1>7. Taking(a \o b, small \cup large)
  BY <1>4, <1>5, <1>6, TakingBoth
<1>8. BinScript(kind, target) = a \o b
  BY <1>2, <1>3, <1>5, <1>6 DEF BinScript
<1> QED BY <1>2, <1>4, <1>7, <1>8 DEF Taking
-----------------------------------------------------------------------------
(***************************************************************************)
(* The inductive invariant.                                                *)
(***************************************************************************)
\* Where a command is in each phase, and with which piece size.
PhaseInv ==
    /\ pc = "off" => proc = "none"
    /\ pc = "import" => proc = "import"
    /\ pc = "wrap" => proc \in {"serve", "plan", "import"}
    /\ pc = "append" => proc \in {"serve", "plan", "import", "pack"}
    /\ pc = "bins" => proc \in {"pack", "upload"}
    /\ proc \in {"serve", "plan", "import"} => opts.budget \in Budgets
    /\ pc = "append" => opts.budget \in Budgets \cup {DefaultBudget}
    /\ pc # "loop" => workers = {}

\* What the tables say whatever the command is at.
TablesInv ==
    /\ IsFiniteSet(Built)
    /\ \A c \in Cids : piece[c] = "done" => rec[c] \in Contents
    /\ SourceInOneSubPiece
    /\ SubPieceInOneAggregate
    /\ AggregatesFit

\* A wrap pass has a write to come for each piece that is free yet, and takes no
\* other; a bin pass takes free pieces; an append pass puts in aggregates, or
\* marks, all that is free.
WrapPending ==
    /\ script \in Seq(WriteOf("wrap"))
    /\ Takeable(script, Wrapped)
    /\ \A i \in DOMAIN script : Takes(script[i]) \subseteq DonePieces
    /\ \A c \in DoneFree(piece) : \E i \in DOMAIN script : script[i][2] = c

BinsPending == Taking(script, DonePieces)

AppendPending ==
    /\ AppendWrites(script, Built \ Aggregated, opts.budget, piece)
    /\ proc # "pack" => DoneFree(piece) = {}

ScriptInv ==
    /\ pc \in {"off", "loop"} => script = <<>>
    /\ pc = "import" => script \in Seq(WriteOf("import"))
    /\ pc = "wrap" => WrapPending
    /\ pc = "bins" => BinsPending
    /\ pc = "append" => AppendPending

\* The Runner packs with nothing left to fetch.
IdleInv ==
    pc \in {"wrap", "append"} /\ proc = "serve" =>
        \A c \in Cids : piece[c] \notin {"pending", "processing"}

PInv ==
    PlanTypeOK /\ PhaseInv /\ TablesInv /\ ScriptInv /\ IdleInv /\ ClaimsAreWorked

-----------------------------------------------------------------------------
\* The first write of a script is carried out.
Popped(q, W) ==
    /\ Tail(q) \in Seq(W)
    /\ Head(q) \in W /\ 1 \in DOMAIN q /\ Head(q) = q[1]
    /\ \A i \in DOMAIN Tail(q) : i + 1 \in DOMAIN q /\ i + 1 # 1 /\ Tail(q)[i] = q[i + 1]
    /\ \A i, j \in DOMAIN Tail(q) : i # j => i + 1 # j + 1
    /\ \A i \in DOMAIN q \ {1} : i - 1 \in DOMAIN Tail(q) /\ Tail(q)[i - 1] = q[i]

\* What is left of a script is its tail.
LEMMA PopIs ==
    ASSUME NEW W, NEW q \in Seq(W), q # <<>>
    PROVE  Popped(q, W)
<1>1. PICK r : r = Tail(q)
  OBVIOUS
<1>2. /\ r \in Seq(W) /\ Len(r) = Len(q) - 1 /\ Head(q) \in W
      /\ \A i \in 1 .. Len(r) : r[i] = q[i + 1]
  BY <1>1, HeadTailProperties
<1>3. PICK n \in Nat : n = Len(q)
  BY LenProperties
<1>4. /\ n # 0 /\ DOMAIN q = 1 .. n /\ DOMAIN r = 1 .. n - 1
      /\ \A i \in 1 .. n - 1 : r[i] = q[i + 1]
  BY <1>2, <1>3, EmptySeq, LenProperties
<1>5. \A i \in DOMAIN q \ {1} : i - 1 \in DOMAIN r /\ r[i - 1] = q[i]
  BY <1>4
<1>6. \A i, j \in DOMAIN r : i # j => i + 1 # j + 1
  BY <1>4
<1>7. \A i \in DOMAIN r : i + 1 \in DOMAIN q /\ i + 1 # 1 /\ r[i] = q[i + 1]
  BY <1>4
<1>8. 1 \in DOMAIN q /\ Head(q) = q[1]
  BY <1>4
<1> QED BY <1>1, <1>2, <1>5, <1>6, <1>7, <1>8 DEF Popped

\* What the write has taken, no later one takes.
LEMMA TakeableTail ==
    ASSUME NEW W, NEW q \in Seq(W), q # <<>>, NEW taken, Takeable(q, taken)
    PROVE  Takeable(Tail(q), taken \cup Takes(Head(q)))
<1>1. Popped(q, W)
  BY PopIs
<1>2. PICK r, h : r = Tail(q) /\ h = Head(q)
  OBVIOUS
<1>3. /\ 1 \in DOMAIN q /\ h = q[1]
      /\ \A i \in DOMAIN r : i + 1 \in DOMAIN q /\ i + 1 # 1 /\ r[i] = q[i + 1]
      /\ \A i, j \in DOMAIN r : i # j => i + 1 # j + 1
  BY <1>1, <1>2 DEF Popped
<1>4. ASSUME NEW i \in DOMAIN r PROVE Takes(r[i]) \cap (taken \cup Takes(h)) = {}
  BY <1>3 DEF Takeable
<1>5. ASSUME NEW i \in DOMAIN r, NEW j \in DOMAIN r, i # j
      PROVE  Takes(r[i]) \cap Takes(r[j]) = {}
  BY <1>3, <1>5 DEF Takeable
<1>6. Takeable(r, taken \cup Takes(h))
  BY <1>4, <1>5 DEF Takeable
<1> QED BY <1>2, <1>6

\* What the write has put in an aggregate, no later one does.
LEMMA SavableTail ==
    ASSUME NEW W, NEW q \in Seq(W), q # <<>>, NEW free, NEW budget, Savable(q, free, budget)
    PROVE  /\ Savable(Tail(q), free, budget)
           /\ Saves(Head(q)) => Savable(Tail(q), free \ Head(q)[2], budget)
<1>1. Popped(q, W)
  BY PopIs
<1>2. PICK r, h : r = Tail(q) /\ h = Head(q)
  OBVIOUS
<1>3. /\ 1 \in DOMAIN q /\ h = q[1]
      /\ \A i \in DOMAIN r : i + 1 \in DOMAIN q /\ i + 1 # 1 /\ r[i] = q[i + 1]
      /\ \A i, j \in DOMAIN r : i # j => i + 1 # j + 1
  BY <1>1, <1>2 DEF Popped
<1>4. ASSUME NEW i \in DOMAIN r, Saves(r[i])
      PROVE  /\ r[i][2] \subseteq free /\ SizeOf(r[i][2]) <= budget
             /\ Saves(h) => r[i][2] \subseteq free \ h[2]
  BY <1>3, <1>4 DEF Savable
<1>5. ASSUME NEW i \in DOMAIN r, NEW j \in DOMAIN r, i # j, Saves(r[i]), Saves(r[j])
      PROVE  r[i][2] \cap r[j][2] = {}
  BY <1>3, <1>5 DEF Savable
<1>6. Savable(r, free, budget) /\ (Saves(h) => Savable(r, free \ h[2], budget))
  BY <1>4, <1>5 DEF Savable
<1> QED BY <1>2, <1>6

\* An aggregate saved accounts for its sub-pieces,
LEMMA AccountedTail ==
    ASSUME NEW W, NEW q \in Seq(W), q # <<>>, NEW free, NEW m, NEW p,
           Accounted(q, free, m, p), Saves(Head(q))
    PROVE  Accounted(Tail(q), free \ Head(q)[2], m, p)
<1>1. Popped(q, W)
  BY PopIs
<1>2. PICK r, h : r = Tail(q) /\ h = Head(q)
  OBVIOUS
<1>3. /\ 1 \in DOMAIN q /\ h = q[1]
      /\ \A i \in DOMAIN q \ {1} : i - 1 \in DOMAIN r /\ r[i - 1] = q[i]
  BY <1>1, <1>2 DEF Popped
<1>4. h[1] # "oversize"
  BY <1>2 DEF Saves
<1>5. ASSUME NEW c, Marks(q, c) PROVE Marks(r, c)
  BY <1>3, <1>4, <1>5 DEF Marks
<1>6. ASSUME NEW s \in free \ h[2], NEW i \in DOMAIN q, Saves(q[i]), s \in q[i][2]
      PROVE  \E j \in DOMAIN r : Saves(r[j]) /\ s \in r[j][2]
  BY <1>3, <1>6
<1>7. Accounted(r, free \ h[2], m, p)
  BY <1>5, <1>6 DEF Accounted
<1> QED BY <1>2, <1>7

\* a mark for the source it marks.
LEMMA AccountedMarked ==
    ASSUME NEW W, NEW q \in Seq(W), q # <<>>, NEW free, NEW m, NEW p,
           Accounted(q, free, m, p), ~Saves(Head(q)), NEW p2,
           \A c : p[c] = "oversized" => p2[c] = "oversized",
           p2[Head(q)[2]] = "oversized"
    PROVE  Accounted(Tail(q), free, m, p2)
<1>1. Popped(q, W)
  BY PopIs
<1>2. PICK r, h : r = Tail(q) /\ h = Head(q)
  OBVIOUS
<1>3. /\ 1 \in DOMAIN q /\ h = q[1]
      /\ \A i \in DOMAIN q \ {1} : i - 1 \in DOMAIN r /\ r[i - 1] = q[i]
  BY <1>1, <1>2 DEF Popped
<1>4. ASSUME NEW c, Marks(q, c) PROVE p2[c] = "oversized" \/ Marks(r, c)
  BY <1>2, <1>3, <1>4 DEF Marks
<1>5. ASSUME NEW s \in free, NEW i \in DOMAIN q, Saves(q[i]), s \in q[i][2]
      PROVE  \E j \in DOMAIN r : Saves(r[j]) /\ s \in r[j][2]
  BY <1>2, <1>3, <1>5
<1>6. Accounted(r, free, m, p2)
  BY <1>4, <1>5 DEF Accounted
<1> QED BY <1>2, <1>6
-----------------------------------------------------------------------------
(***************************************************************************)
(* A pass begins.                                                          *)
(***************************************************************************)
LEMMA WrapBegins ==
    ASSUME script' = WrapScript(piece'), UNCHANGED subs
    PROVE  WrapPending'
<1>1. PICK p : p = piece'
  OBVIOUS
<1>2. PICK q : q = WrapScript(p)
  OBVIOUS
<1>3. /\ q \in Seq(WriteOf("wrap"))
      /\ \A i \in DOMAIN q : Takes(q[i]) \subseteq DoneFree(p)
      /\ Takeable(q, Wrapped)
      /\ \A c \in DoneFree(p) : \E i \in DOMAIN q : q[i][2] = c
  BY <1>2, WrapScriptIs
<1>4. q = script'
  BY <1>1, <1>2
<1>5. Wrapped' = Wrapped /\ DoneFree(piece)' = DoneFree(p) /\ WriteOf("wrap")' = WriteOf("wrap")
  BY <1>1 DEF Wrapped, Built, DoneFree, WriteOf, Ids
<1>6. DoneFree(p) \subseteq DonePieces'
  BY <1>1 DEF DoneFree, DonePieces
<1>7. Takeable(script, Wrapped)'
  BY <1>3, <1>4, <1>5 DEF Takeable, Takes
<1>8. \A i \in DOMAIN script' : (Takes(script[i]) \subseteq DonePieces)'
  BY <1>3, <1>4, <1>6 DEF Takes
<1> QED BY <1>3, <1>4, <1>5, <1>7, <1>8 DEF WrapPending

\* What #kick comes to.
KickDone(p) ==
    /\ piece' \in [Cids -> PieceStatus] /\ workers' \in SUBSET Cids
    /\ \A c \in Cids : piece'[c] # p[c] => p[c] = "pending" /\ piece'[c] = "processing"
    /\ {c \in Cids : piece'[c] = "processing"} = workers'
    /\ Cardinality(workers') <= Concurrency
    /\ state' \in {"idle", "running", "paused"}
    /\ opts' \in [budget : Nat, target : Nat, pack : BOOLEAN, made : BOOLEAN,
                  caller : {"api", "worker"}]
    /\ opts'.budget = opts.budget
    /\ \/ pc' = pc /\ script' = script
       \/ /\ pc' = "wrap" /\ workers' = {} /\ WrapPending'
          /\ \A c \in Cids : piece'[c] \notin {"pending", "processing"}

\* #kick claims what there is room for, or, with nothing to fetch, begins a wrap pass.
LEMMA KickIs ==
    ASSUME PlanTypeOK, NEW p \in [Cids -> PieceStatus], NEW w \in SUBSET Cids,
           {c \in Cids : p[c] = "processing"} = w, Cardinality(w) <= Concurrency,
           NEW run \in {"idle", "running", "paused"}, NEW caller \in {"api", "worker"},
           Kick(p, w, run, caller), UNCHANGED subs
    PROVE  KickDone(p)
<1>1. state' = run
  BY DEF Kick
<1>2. CASE /\ run # "running"
           /\ piece' = p /\ workers' = w
           /\ UNCHANGED <<opts, pc, script>>
  BY <1>1, <1>2 DEF KickDone, PlanTypeOK
<1>3. CASE run = "running"
  <2>1. PICK pending \in SUBSET Cids : pending = {c \in Cids : p[c] = "pending"}
    OBVIOUS
  <2>2. IsFiniteSet(w) /\ Cardinality(w) \in Nat /\ Concurrency \in Nat \ {0}
    BY CidsAssumption, SizesAssumption, FS_Subset, FS_CardinalityType
  <2>3. PICK n \in Nat : n = Concurrency - Cardinality(w)
    BY <2>2
  <2>4. PICK claimed : claimed = FirstOf(pending, n)
    OBVIOUS
  <2>5. /\ claimed \subseteq pending /\ Cardinality(claimed) <= n
        /\ n > 0 /\ claimed = {} => pending = {}
    BY <2>4, FirstOfFits
  <2>6. /\ piece' = [c \in Cids |-> IF c \in claimed THEN "processing" ELSE p[c]]
        /\ workers' = w \cup claimed
        /\ \/ workers' # {} /\ UNCHANGED <<opts, pc, script>>
           \/ /\ workers' = {} /\ BeginWrap(piece')
              /\ opts' = [opts EXCEPT !.caller = caller]
    BY <1>3, <2>1, <2>3, <2>4 DEF Kick
  <2>7. \A c \in claimed : c \in Cids /\ p[c] = "pending" /\ c \notin w
    BY <2>1, <2>5
  <2>8. /\ piece' \in [Cids -> PieceStatus] /\ workers' \in SUBSET Cids
        /\ \A c \in Cids : piece'[c] # p[c] => p[c] = "pending" /\ piece'[c] = "processing"
    <3>1. \A c \in Cids : piece'[c] = IF c \in claimed THEN "processing" ELSE p[c]
      BY <2>6
    <3>2. piece' \in [Cids -> PieceStatus]
      BY <2>6 DEF PieceStatus
    <3> QED BY <2>6, <2>7, <3>1, <3>2
  <2>9. {c \in Cids : piece'[c] = "processing"} = workers'
    BY <2>6, <2>7
  <2>10. Cardinality(workers') <= Concurrency
    <3>1. IsFiniteSet(claimed) /\ Cardinality(claimed) \in Nat
      BY <2>1, <2>5, CidsAssumption, FS_Subset, FS_CardinalityType
    <3>2. w \cap claimed = {}
      BY <2>7
    <3>3. Cardinality(w \cup claimed) = Cardinality(w) + Cardinality(claimed)
      <4>1. Cardinality(w \cup claimed)
               = Cardinality(w) + Cardinality(claimed) - Cardinality(w \cap claimed)
        BY <2>2, <3>1, FS_Union
      <4>2. Cardinality(w \cap claimed) = 0
        BY <3>2, FS_EmptySet
      <4> QED BY <2>2, <3>1, <4>1, <4>2
    <3> QED BY <2>2, <2>3, <2>5, <2>6, <3>1, <3>3
  <2>11. CASE workers' # {} /\ UNCHANGED <<opts, pc, script>>
    BY <1>1, <2>8, <2>9, <2>10, <2>11 DEF KickDone, PlanTypeOK
  <2>12. CASE /\ workers' = {} /\ BeginWrap(piece')
              /\ opts' = [opts EXCEPT !.caller = caller]
    <3>1. w = {} /\ claimed = {} /\ Cardinality(w) = 0
      BY <2>6, <2>12, FS_EmptySet
    <3>2. pending = {}
      BY <2>2, <2>3, <2>5, <3>1
    <3>3. \A c \in Cids : piece'[c] \notin {"pending", "processing"}
      BY <2>1, <2>6, <2>9, <2>12, <3>1, <3>2
    <3>4. pc' = "wrap" /\ WrapPending'
      BY <2>12, WrapBegins DEF BeginWrap
    <3>5. /\ opts' \in [budget : Nat, target : Nat, pack : BOOLEAN, made : BOOLEAN,
                        caller : {"api", "worker"}]
          /\ opts'.budget = opts.budget
      BY <2>12 DEF PlanTypeOK
    <3> QED BY <1>1, <2>8, <2>9, <2>10, <2>12, <3>3, <3>4, <3>5 DEF KickDone
  <2> QED BY <2>6, <2>11, <2>12
<1> QED BY <1>2, <1>3 DEF Kick

\* An append pass begins with all that is free accounted for,
LEMMA AppendBegins ==
    ASSUME PlanTypeOK, TablesInv, NEW budget \in Nat, BeginAppend(budget),
           opts'.budget = budget, UNCHANGED <<piece, subs, aggs>>,
           proc' # "pack" => DoneFree(piece) = {}
    PROVE  AppendPending'
<1>1. PICK units \in SetToSeqs(Built \ Aggregated) : script' = AppendScript(units, budget)
  BY DEF BeginAppend
<1>2. PICK U \in SUBSET Ids : /\ U = Built \ Aggregated /\ IsFiniteSet(U)
                              /\ \A s \in U : subs[s] \subseteq Cids
  <2>1. Built \in SUBSET Ids /\ IsFiniteSet(Built) /\ \A s \in Built : subs[s] \subseteq Cids
    BY DEF PlanTypeOK, TablesInv, Built
  <2>2. PICK U : U = Built \ Aggregated
    OBVIOUS
  <2>3. U \in SUBSET Ids /\ IsFiniteSet(U) /\ \A s \in U : subs[s] \subseteq Cids
    BY <2>1, <2>2, FS_Subset
  <2> QED BY <2>2, <2>3
<1>3. PICK q : q = AppendScript(units, budget)
  OBVIOUS
<1>4. AppendWrites(q, U, budget, piece)
  BY <1>1, <1>2, <1>3, AppendScriptIs
<1>5. /\ U = (Built \ Aggregated)' /\ q = script'
      /\ piece' = piece /\ subs' = subs
      /\ DoneFree(piece)' = DoneFree(piece)
  BY <1>1, <1>2, <1>3 DEF Built, Aggregated, DoneFree, Wrapped
<1>6. /\ WriteOf("append")' = WriteOf("append")
      /\ q \in Seq(WriteOf("append")) /\ Savable(q, U, budget) /\ Accounted(q, U, subs, piece)
  BY <1>4 DEF AppendWrites, WriteOf, Ids
<1>7. Savable(script, Built \ Aggregated, opts.budget)'
  BY <1>5, <1>6 DEF Savable, Saves
<1>8. Accounted(script, Built \ Aggregated, subs, piece)'
  BY <1>5, <1>6 DEF Accounted, Saves, Marks
<1>9. (script \in Seq(WriteOf("append")))'
  BY <1>5, <1>6
<1> QED BY <1>5, <1>7, <1>8, <1>9 DEF AppendPending, AppendWrites

\* a bin pass with free pieces to take.
LEMMA BinsBegin ==
    ASSUME TablesInv, NEW kind, NEW target \in Nat, BeginBins(kind, target),
           UNCHANGED <<piece, subs>>
    PROVE  BinsPending'
<1>1. PICK q : q = BinScript(kind, target)
  OBVIOUS
<1>2. Taking(q, DoneFree(piece))
  BY <1>1, BinScriptIs DEF TablesInv, DoneFree
<1>3. /\ q = script' /\ Wrapped' = Wrapped /\ WriteOf("bins")' = WriteOf("bins")
      /\ DoneFree(piece) \subseteq DonePieces'
  BY <1>1 DEF BeginBins, Wrapped, Built, WriteOf, DoneFree, DonePieces
<1>4. /\ q \in Seq(WriteOf("bins")) /\ Takeable(q, Wrapped)
      /\ \A i \in DOMAIN q : Takes(q[i]) \subseteq DonePieces'
  BY <1>2, <1>3 DEF Taking
<1>5. Takeable(script, Wrapped)'
  BY <1>3, <1>4 DEF Takeable, Takes
<1>6. \A i \in DOMAIN script' : (Takes(script[i]) \subseteq DonePieces)'
  BY <1>3, <1>4 DEF Takes
<1> QED BY <1>3, <1>4, <1>5, <1>6 DEF BinsPending, Taking
-----------------------------------------------------------------------------
(***************************************************************************)
(* Every action keeps the invariant.                                       *)
(***************************************************************************)

\* It holds of the empty tables.
LEMMA PInit == PlanInit => PInv
<1> SUFFICES ASSUME PlanInit PROVE PInv
  OBVIOUS
<1>1. DOMAIN subs = {} /\ DOMAIN aggs = {} /\ Built = {}
  BY DEF PlanInit, Built
<1>2. PlanTypeOK
  BY <1>1, BoundsAssumption, EmptySeq DEF PlanInit, PlanTypeOK, PieceStatus, NoOpts
<1>3. TablesInv
  BY <1>1, FS_EmptySet DEF PlanInit, TablesInv, SourceInOneSubPiece, SubPieceInOneAggregate,
                           AggregatesFit
<1>4. PhaseInv /\ ScriptInv /\ IdleInv /\ ClaimsAreWorked
  BY DEF PlanInit, PhaseInv, ScriptInv, IdleInv, ClaimsAreWorked
<1> QED BY <1>2, <1>3, <1>4 DEF PInv

\* With the sub-pieces and aggregates left alone, what the tables say stays true.
LEMMA TablesKept ==
    ASSUME TablesInv, UNCHANGED <<subs, aggs>>,
           \A c \in Cids : piece'[c] = "done" => rec'[c] \in Contents
    PROVE  TablesInv'
BY DEF TablesInv, SourceInOneSubPiece, SubPieceInOneAggregate, AggregatesFit, Built

\* A command that ends or dies leaves the tables as they are.
LEMMA OffStep ==
    ASSUME PInv, Off, UNCHANGED <<piece, rec, subs, aggs, faults, sessions>>
    PROVE  PInv'
<1>1. PlanTypeOK'
  BY DEF PInv, Off, PlanTypeOK, NoOpts
<1>2. TablesInv'
  BY TablesKept DEF PInv, TablesInv
<1>3. PhaseInv' /\ ScriptInv' /\ IdleInv' /\ ClaimsAreWorked'
  BY DEF Off, PhaseInv, ScriptInv, IdleInv, ClaimsAreWorked
<1> QED BY <1>1, <1>2, <1>3 DEF PInv

\* Adding CIDs makes absent rows pending and touches no other.
LEMMA AddedToType ==
    ASSUME NEW p \in [Cids -> PieceStatus], NEW S
    PROVE  /\ AddedTo(p, S) \in [Cids -> PieceStatus]
           /\ \A c \in Cids : AddedTo(p, S)[c] # p[c] =>
                 p[c] = "absent" /\ AddedTo(p, S)[c] = "pending"
BY DEF AddedTo, PieceStatus

\* `serve` starts.
LEMMA OpenServeStep == PInv /\ OpenServe => PInv'
<1> SUFFICES ASSUME PInv, OpenServe PROVE PInv'
  OBVIOUS
<1>1. PICK S \in SUBSET Cids, b \in Budgets :
         /\ piece' = ResetProcessing(AddedTo(piece, S))
         /\ opts' = [NoOpts EXCEPT !.budget = b]
  BY DEF OpenServe
<1>2. /\ pc = "off" /\ pc' = "loop" /\ proc' = "serve" /\ sessions < MaxSessions
      /\ sessions' = sessions + 1
      /\ UNCHANGED <<rec, subs, aggs, state, faults, workers, queue, script>>
  BY DEF OpenServe, Open
<1>3. PICK p \in [Cids -> PieceStatus] :
         /\ p = AddedTo(piece, S)
         /\ \A c \in Cids : p[c] # piece[c] => p[c] = "pending"
  BY AddedToType DEF PInv, PlanTypeOK
<1>4. /\ piece' \in [Cids -> PieceStatus]
      /\ \A c \in Cids : /\ piece'[c] # piece[c] => piece'[c] = "pending"
                         /\ piece'[c] # "processing"
  BY <1>1, <1>3 DEF ResetProcessing, PieceStatus
<1>5. PlanTypeOK'
  <2>1. b \in Nat
    BY SizesAssumption
  <2>2. sessions' \in 0 .. MaxSessions
    BY <1>2, BoundsAssumption DEF PInv, PlanTypeOK
  <2>3. opts' \in [budget : Nat, target : Nat, pack : BOOLEAN, made : BOOLEAN,
                   caller : {"api", "worker"}]
    BY <1>1, <2>1 DEF NoOpts
  <2> QED BY <1>2, <1>4, <2>2, <2>3 DEF PInv, PlanTypeOK
<1>6. TablesInv'
  BY <1>2, <1>4, TablesKept DEF PInv, TablesInv
<1>7. workers' = {} /\ script' = <<>> /\ opts'.budget = b
  BY <1>1, <1>2 DEF PInv, PhaseInv, ScriptInv, NoOpts
<1>8. PhaseInv' /\ ScriptInv' /\ IdleInv'
  BY <1>2, <1>7 DEF PhaseInv, ScriptInv, IdleInv
<1>9. ClaimsAreWorked'
  <2>1. Cardinality({}) <= Concurrency
    BY SizesAssumption, FS_EmptySet
  <2> QED BY <1>4, <1>7, <2>1 DEF ClaimsAreWorked
<1> QED BY <1>5, <1>6, <1>8, <1>9 DEF PInv

\* `plan` or `upload` starts.
LEMMA OpenPlanStep == PInv /\ OpenPlan => PInv'
<1> SUFFICES ASSUME PInv, OpenPlan PROVE PInv'
  OBVIOUS
<1>1. PICK kind \in {"plan", "upload"}, S \in SUBSET Cids, b \in Budgets, t \in Targets,
           auto \in BOOLEAN :
         /\ Open(kind)
         /\ opts' = [NoOpts EXCEPT !.budget = IF kind = "plan" THEN b ELSE 0,
                                   !.target = IF kind = "upload" THEN t ELSE 0,
                                   !.pack = (kind = "plan" /\ auto)]
         /\ piece' = AddedTo(piece, S)
         /\ PoolNext(PendingCids(AddedTo(piece, S)), {})
         /\ pc' = "loop"
         /\ UNCHANGED <<rec, script>>
  BY DEF OpenPlan
<1>2. /\ pc = "off" /\ pc' = "loop" /\ proc' = kind /\ sessions < MaxSessions
      /\ sessions' = sessions + 1
      /\ UNCHANGED <<rec, subs, aggs, state, faults, script>>
  BY <1>1 DEF Open
<1>3. /\ piece' \in [Cids -> PieceStatus]
      /\ \A c \in Cids : piece'[c] # piece[c] => piece'[c] = "pending"
  BY <1>1, AddedToType DEF PInv, PlanTypeOK
<1>4. workers' \subseteq Cids /\ queue' \subseteq Cids
  <2>1. PICK T \in SUBSET Cids : T = PendingCids(AddedTo(piece, S))
    BY DEF PendingCids
  <2>2. workers' = {} \cup FirstOf(T, Concurrency - Cardinality({}))
        /\ queue' = T \ FirstOf(T, Concurrency - Cardinality({}))
    BY <1>1, <2>1 DEF PoolNext
  <2>3. FirstOf(T, Concurrency - Cardinality({})) \subseteq T
    BY DEF FirstOf
  <2> QED BY <2>2, <2>3
<1>5. PlanTypeOK'
  <2>1. b \in Nat /\ t \in Nat
    BY SizesAssumption
  <2>2. sessions' \in 0 .. MaxSessions
    BY <1>2, BoundsAssumption DEF PInv, PlanTypeOK
  <2>3. opts' \in [budget : Nat, target : Nat, pack : BOOLEAN, made : BOOLEAN,
                   caller : {"api", "worker"}]
    BY <1>1, <2>1 DEF NoOpts
  <2> QED BY <1>2, <1>3, <1>4, <2>2, <2>3 DEF PInv, PlanTypeOK
<1>6. TablesInv'
  BY <1>2, <1>3, TablesKept DEF PInv, TablesInv
<1>7. script' = <<>> /\ (kind = "plan" => opts'.budget = b)
  BY <1>1, <1>2 DEF PInv, ScriptInv, NoOpts
<1>8. PhaseInv' /\ ScriptInv' /\ IdleInv'
  BY <1>2, <1>7 DEF PhaseInv, ScriptInv, IdleInv
<1>9. ClaimsAreWorked'
  BY <1>2 DEF ClaimsAreWorked
<1> QED BY <1>5, <1>6, <1>8, <1>9 DEF PInv

\* `import-manifest` starts.
LEMMA OpenImportStep == PInv /\ OpenImport => PInv'
<1> SUFFICES ASSUME PInv, OpenImport PROVE PInv'
  OBVIOUS
<1>0. PICK S \in SUBSET Cids, b \in Budgets, auto \in BOOLEAN :
         \E manifest \in [S -> Contents] :
            /\ \A c \in S : manifest[c] \in Serves[c] /\ ~Conflict(c, manifest[c])
            /\ LET toImport == {c \in S : piece[c] \notin {"done", "oversized"}}
                   order == Sorted(toImport)
               IN  /\ piece' = AddedTo(piece, toImport)
                   /\ script' = [i \in DOMAIN order |->
                                    Op("record", <<order[i], manifest[order[i]]>>)]
            /\ opts' = [NoOpts EXCEPT !.budget = b, !.pack = auto]
  BY DEF OpenImport
<1>1. PICK manifest, toImport, order :
         /\ manifest \in [S -> Contents]
         /\ toImport = {c \in S : piece[c] \notin {"done", "oversized"}}
         /\ order = Sorted(toImport)
         /\ piece' = AddedTo(piece, toImport)
         /\ script' = [i \in DOMAIN order |-> Op("record", <<order[i], manifest[order[i]]>>)]
         /\ opts' = [NoOpts EXCEPT !.budget = b, !.pack = auto]
  BY <1>0
<1>2. /\ pc = "off" /\ pc' = "import" /\ proc' = "import" /\ sessions < MaxSessions
      /\ sessions' = sessions + 1
      /\ UNCHANGED <<rec, subs, aggs, state, faults, workers, queue>>
  BY DEF OpenImport, Open
<1>3. /\ piece' \in [Cids -> PieceStatus]
      /\ \A c \in Cids : piece'[c] # piece[c] => piece'[c] = "pending"
  BY <1>1, AddedToType DEF PInv, PlanTypeOK
<1>4. PlanTypeOK'
  <2>1. b \in Nat
    BY SizesAssumption
  <2>2. sessions' \in 0 .. MaxSessions
    BY <1>2, BoundsAssumption DEF PInv, PlanTypeOK
  <2>3. opts' \in [budget : Nat, target : Nat, pack : BOOLEAN, made : BOOLEAN,
                   caller : {"api", "worker"}]
    BY <1>1, <2>1 DEF NoOpts
  <2> QED BY <1>2, <1>3, <2>2, <2>3 DEF PInv, PlanTypeOK
<1>5. TablesInv'
  BY <1>2, <1>3, TablesKept DEF PInv, TablesInv
<1>6. script' \in Seq(WriteOf("import"))
  <2>1. IsFiniteSet(toImport) /\ Enumerates(order, toImport)
    BY <1>1, SortedEnumerates
  <2>2. order \in Seq(toImport)
    BY <2>1, EnumerationIsSeq
  <2>3. PICK n \in Nat : n = Len(order)
    BY <2>2, LenProperties
  <2>4. DOMAIN order = 1 .. n /\ \A i \in 1 .. n : order[i] \in toImport
    BY <2>2, <2>3, LenProperties
  <2>5. \A i \in 1 .. n : order[i] \in S /\ manifest[order[i]] \in Contents
    BY <1>1, <2>4
  <2>6. script' = [i \in 1 .. n |-> <<"record", <<order[i], manifest[order[i]]>>>>]
    BY <1>1, <2>4 DEF Op
  <2>7. script' \in [1 .. n -> {"record"} \X (Cids \X Contents)]
    BY <2>5, <2>6
  <2>8. script' \in Seq({"record"} \X (Cids \X Contents))
    BY <2>7
  <2> QED BY <2>8, WritesAre
<1>7. workers' = {} /\ opts'.budget = b
  BY <1>1, <1>2 DEF PInv, PhaseInv, NoOpts
<1>8. PhaseInv' /\ ScriptInv' /\ IdleInv' /\ ClaimsAreWorked'
  <2>1. WriteOf("import")' = WriteOf("import")
    BY DEF WriteOf, Ids
  <2> QED BY <1>2, <1>6, <1>7, <2>1 DEF PhaseInv, ScriptInv, IdleInv, ClaimsAreWorked
<1> QED BY <1>4, <1>5, <1>8 DEF PInv

\* `pack-cars` starts.
LEMMA OpenPackStep == PInv /\ OpenPack => PInv'
<1> SUFFICES ASSUME PInv, OpenPack PROVE PInv'
  OBVIOUS
<1>1. PICK t \in Targets : opts' = [NoOpts EXCEPT !.target = t] /\ BeginBins("pack", t)
  BY DEF OpenPack
<1>2. /\ pc = "off" /\ pc' = "bins" /\ proc' = "pack" /\ sessions < MaxSessions
      /\ sessions' = sessions + 1
      /\ UNCHANGED <<piece, rec, subs, aggs, state, faults, workers, queue>>
  BY <1>1 DEF OpenPack, Open, BeginBins
<1>3. t \in Nat
  BY SizesAssumption
<1>4. PlanTypeOK'
  <2>2. sessions' \in 0 .. MaxSessions
    BY <1>2, BoundsAssumption DEF PInv, PlanTypeOK
  <2>3. opts' \in [budget : Nat, target : Nat, pack : BOOLEAN, made : BOOLEAN,
                   caller : {"api", "worker"}]
    BY <1>1, <1>3 DEF NoOpts
  <2> QED BY <1>2, <2>2, <2>3 DEF PInv, PlanTypeOK
<1>5. TablesInv'
  BY <1>2, TablesKept DEF PInv, TablesInv
<1>6. BinsPending'
  BY <1>1, <1>2, <1>3, BinsBegin DEF PInv
<1>7. workers' = {}
  BY <1>2 DEF PInv, PhaseInv
<1>8. PhaseInv' /\ ScriptInv' /\ IdleInv' /\ ClaimsAreWorked'
  BY <1>2, <1>6, <1>7 DEF PhaseInv, ScriptInv, IdleInv, ClaimsAreWorked
<1> QED BY <1>4, <1>5, <1>8 DEF PInv

\* Whatever kicked the Runner.
LEMMA KickStep ==
    ASSUME PInv, pc = "loop", proc = "serve", NEW p, KickDone(p),
           rec' \in [Cids -> Contents \cup {NoContent}],
           \A c \in Cids : p[c] = "done" => rec'[c] \in Contents,
           faults' \in 0 .. MaxFaults, UNCHANGED <<subs, aggs, proc, queue, sessions>>
    PROVE  PInv'
<1>1. PlanTypeOK'
  BY DEF PInv, PlanTypeOK, KickDone
<1>2. TablesInv'
  <2>1. \A c \in Cids : piece'[c] = "done" => piece'[c] = p[c]
    BY DEF KickDone
  <2> QED BY <2>1, TablesKept DEF PInv
<1>3. ClaimsAreWorked'
  BY DEF KickDone, ClaimsAreWorked
<1>4. PhaseInv'
  BY DEF PInv, PhaseInv, KickDone
<1>5. ScriptInv' /\ IdleInv'
  BY DEF PInv, ScriptInv, IdleInv, KickDone
<1> QED BY <1>1, <1>2, <1>3, <1>4, <1>5 DEF PInv

\* A request that kicks it.
LEMMA HandlerStep ==
    ASSUME PInv, Handler, NEW p \in [Cids -> PieceStatus],
           \A c \in Cids : p[c] # piece[c] =>
               piece[c] # "processing" /\ p[c] = "pending",
           NEW run \in {"idle", "running", "paused"}, Kick(p, workers, run, "api")
    PROVE  PInv'
<1>1. /\ pc = "loop" /\ proc = "serve"
      /\ UNCHANGED <<rec, subs, aggs, proc, queue, faults, sessions>>
  BY DEF Handler
<1>2. /\ {c \in Cids : piece[c] = "processing"} = workers /\ Cardinality(workers) <= Concurrency
      /\ PlanTypeOK /\ workers \in SUBSET Cids
  BY <1>1 DEF PInv, ClaimsAreWorked, PlanTypeOK
<1>3. {c \in Cids : p[c] = "processing"} = workers
  BY <1>2
<1>4. KickDone(p)
  BY <1>1, <1>2, <1>3, KickIs
<1>5. \A c \in Cids : p[c] = "done" => rec'[c] \in Contents
  BY <1>1 DEF PInv, TablesInv
<1>6. rec' \in [Cids -> Contents \cup {NoContent}] /\ faults' \in 0 .. MaxFaults
  BY <1>1 DEF PInv, PlanTypeOK
<1> QED BY <1>1, <1>4, <1>5, <1>6, KickStep

\* The requests of the operator.
LEMMA OperatorStep == PInv /\ Operator => PInv'
<1> SUFFICES ASSUME PInv, Operator PROVE PInv'
  OBVIOUS
<1>1. piece \in [Cids -> PieceStatus] /\ state \in {"idle", "running", "paused"}
  BY DEF PInv, PlanTypeOK
<1>2. CASE AddCids
  <2>1. PICK S \in SUBSET Cids : Kick(AddedTo(piece, S), workers, state, "api")
    BY <1>2 DEF AddCids
  <2>2. PICK p \in [Cids -> PieceStatus] :
           /\ p = AddedTo(piece, S)
           /\ \A c \in Cids : p[c] # piece[c] => piece[c] = "absent" /\ p[c] = "pending"
    BY <1>1, AddedToType
  <2> QED BY <1>1, <1>2, <2>1, <2>2, HandlerStep DEF AddCids
<1>3. CASE StartRunner
  BY <1>1, <1>3, HandlerStep DEF StartRunner
<1>4. CASE Pause
  BY <1>1, <1>4, HandlerStep DEF Pause
<1>5. CASE RetryFailed
  <2>1. PICK p : p = ResetFailed(piece)
    OBVIOUS
  <2>2. p \in [Cids -> PieceStatus]
        /\ \A c \in Cids : p[c] # piece[c] => piece[c] = "failed" /\ p[c] = "pending"
    BY <1>1, <2>1 DEF ResetFailed, PieceStatus
  <2> QED BY <1>1, <1>5, <2>1, <2>2, HandlerStep DEF RetryFailed
<1> QED BY <1>2, <1>3, <1>4, <1>5 DEF Operator

\* A fetch ends in a status,
LEMMA SettleStep ==
    ASSUME PInv, NEW c \in Cids, NEW to \in {"done", "failed"},
           Settle(c, [piece EXCEPT ![c] = to]),
           rec' \in [Cids -> Contents \cup {NoContent}],
           \A d \in Cids : d # c => rec'[d] = rec[d],
           to = "done" => rec'[c] \in Contents,
           faults' \in 0 .. MaxFaults
    PROVE  PInv'
<1>1. /\ pc = "loop" /\ c \in workers /\ UNCHANGED <<subs, aggs, proc, sessions>>
  BY DEF Settle
<1>2. PlanTypeOK
  BY DEF PInv
<1>3. PICK p \in [Cids -> PieceStatus] : p = [piece EXCEPT ![c] = to]
  BY <1>2 DEF PlanTypeOK, PieceStatus
<1>4. \A d \in Cids : p[d] = IF d = c THEN to ELSE piece[d]
  BY <1>2, <1>3 DEF PlanTypeOK
<1>5. \A d \in Cids : p[d] = "done" => rec'[d] \in Contents
  BY <1>4 DEF PInv, TablesInv
<1>6. CASE proc = "serve"
  <2>1. Kick(p, workers \ {c}, state, "worker") /\ UNCHANGED queue
    BY <1>3, <1>6 DEF Settle
  <2>2. {d \in Cids : piece[d] = "processing"} = workers /\ Cardinality(workers) <= Concurrency
    BY <1>6 DEF PInv, ClaimsAreWorked
  <2>3. PICK w \in SUBSET Cids : w = workers \ {c}
    BY <1>2 DEF PlanTypeOK
  <2>4. {d \in Cids : p[d] = "processing"} = w
    BY <1>4, <2>2, <2>3
  <2>5. Cardinality(w) <= Concurrency
    <3>1. IsFiniteSet(workers)
      BY <1>2, CidsAssumption, FS_Subset DEF PlanTypeOK
    <3>2. Cardinality(w) <= Cardinality(workers)
      BY <2>3, <3>1, FS_Subset
    <3> QED BY <2>2, <2>3, <3>1, <3>2, FS_Subset, FS_CardinalityType, SizesAssumption
  <2>6. KickDone(p)
    BY <1>1, <1>2, <2>1, <2>3, <2>4, <2>5, KickIs DEF PlanTypeOK
  <2> QED BY <1>1, <1>5, <1>6, <2>1, <2>6, KickStep
<1>7. CASE proc # "serve"
  <2>1. /\ piece' = p /\ PoolNext(queue, workers \ {c})
        /\ UNCHANGED <<state, opts, pc, script>>
    BY <1>3, <1>7 DEF Settle
  <2>2. workers' \subseteq Cids /\ queue' \subseteq Cids
    <3>1. PICK n : n = Concurrency - Cardinality(workers \ {c})
      OBVIOUS
    <3>2. FirstOf(queue, n) \subseteq queue
      BY DEF FirstOf
    <3> QED BY <1>2, <2>1, <3>1, <3>2 DEF PoolNext, PlanTypeOK
  <2>3. PlanTypeOK'
    BY <1>1, <1>2, <2>1, <2>2 DEF PlanTypeOK
  <2>4. TablesInv'
    BY <1>1, <1>5, <2>1, TablesKept DEF PInv
  <2>5. PhaseInv' /\ ScriptInv' /\ IdleInv' /\ ClaimsAreWorked'
    BY <1>1, <1>7, <2>1 DEF PInv, PhaseInv, ScriptInv, IdleInv, ClaimsAreWorked
  <2> QED BY <2>3, <2>4, <2>5 DEF PInv
<1> QED BY <1>6, <1>7

\* done or failed.
LEMMA FetchStep == ASSUME PInv, NEW c \in Cids, Fetch(c) PROVE PInv'
<1>1. CASE Fetched(c)
  <2>1. Settle(c, [piece EXCEPT ![c] = "done"])
    BY <1>1 DEF Fetched, RecordPieceOutcome
  <2>2. rec' = [rec EXCEPT ![c] = Content[c]] /\ UNCHANGED faults
    BY <1>1 DEF Fetched
  <2>3. /\ rec' \in [Cids -> Contents \cup {NoContent}]
        /\ \A d \in Cids : d # c => rec'[d] = rec[d]
        /\ rec'[c] \in Contents /\ faults' \in 0 .. MaxFaults
    BY <2>2, ServesAssumption DEF PInv, PlanTypeOK
  <2> QED BY <2>1, <2>3, SettleStep
<1>2. CASE FetchFailed(c)
  <2>1. PICK source \in Sources \ {"gateway"} : RecordPieceOutcome(c, source)
    BY <1>2 DEF FetchFailed
  <2>2. Settle(c, [piece EXCEPT ![c] = "failed"])
    BY <2>1 DEF RecordPieceOutcome
  <2>3. faults < MaxFaults /\ faults' = faults + 1 /\ UNCHANGED rec
    BY <1>2 DEF FetchFailed
  <2>4. rec' \in [Cids -> Contents \cup {NoContent}] /\ faults' \in 0 .. MaxFaults
        /\ \A d \in Cids : d # c => rec'[d] = rec[d]
    BY <2>3, BoundsAssumption DEF PInv, PlanTypeOK
  <2> QED BY <2>2, <2>4, SettleStep
<1> QED BY <1>1, <1>2 DEF Fetch

\* The pool of `plan` is through.
LEMMA PoolDrainedStep == PInv /\ PoolDrained => PInv'
<1> SUFFICES ASSUME PInv, PoolDrained PROVE PInv'
  OBVIOUS
<1>1. /\ pc = "loop" /\ proc \in {"plan", "upload"} /\ workers = {}
      /\ UNCHANGED <<piece, rec, subs, aggs, faults, sessions>>
  BY DEF PoolDrained, tables
<1>2. CASE Off
  BY <1>1, <1>2, OffStep
<1>3. CASE /\ \/ proc = "plan" /\ opts.pack /\ BeginWrap(piece)
              \/ proc = "upload" /\ BeginBins("upload", opts.target)
           /\ UNCHANGED <<proc, state, workers, queue, opts>>
  <2>1. PlanTypeOK'
    BY <1>1, <1>3 DEF PInv, PlanTypeOK, BeginWrap, BeginBins
  <2>2. TablesInv'
    BY <1>1, TablesKept DEF PInv, TablesInv
  <2>3. ClaimsAreWorked' /\ IdleInv'
    BY <1>1, <1>3 DEF ClaimsAreWorked, IdleInv
  <2>4. CASE proc = "plan" /\ BeginWrap(piece)
    <3>1. pc' = "wrap" /\ WrapPending'
      BY <1>1, <2>4, WrapBegins DEF BeginWrap
    <3>2. PhaseInv' /\ ScriptInv'
      BY <1>1, <1>3, <2>4, <3>1 DEF PInv, PhaseInv, ScriptInv
    <3> QED BY <2>1, <2>2, <2>3, <3>2 DEF PInv
  <2>5. CASE proc = "upload" /\ BeginBins("upload", opts.target)
    <3>1. opts.target \in Nat
      BY DEF PInv, PlanTypeOK
    <3>2. pc' = "bins" /\ BinsPending'
      BY <1>1, <2>5, <3>1, BinsBegin DEF BeginBins, PInv
    <3>3. PhaseInv' /\ ScriptInv'
      BY <1>1, <1>3, <2>5, <3>2 DEF PInv, PhaseInv, ScriptInv
    <3> QED BY <2>1, <2>2, <2>3, <3>3 DEF PInv
  <2> QED BY <1>3, <2>4, <2>5
<1> QED BY <1>2, <1>3 DEF PoolDrained

\* The write at the head of a script belongs to the pass.
LEMMA WriteIs ==
    ASSUME PInv, script # <<>>
    PROVE  /\ pc \in {"import", "wrap", "append", "bins"} /\ workers = {}
           /\ script \in Seq(WriteOf(pc))
           /\ Popped(script, WriteOf(pc))
           /\ Head(script) \in WriteOf(pc)
<1>1. pc \in {"import", "wrap", "append", "bins"}
  BY DEF PInv, PlanTypeOK, ScriptInv
<1>2. script \in Seq(WriteOf(pc))
  BY <1>1 DEF PInv, ScriptInv, WrapPending, BinsPending, Taking, AppendPending, AppendWrites
<1>3. Popped(script, WriteOf(pc))
  BY <1>2, PopIs
<1>4. workers = {}
  BY <1>1 DEF PInv, PhaseInv
<1> QED BY <1>1, <1>2, <1>3, <1>4 DEF Popped

\* Each kind of write has its pass.
LEMMA HeadIs ==
    ASSUME PInv, script # <<>>
    PROVE  /\ Head(script)[1] = "record" => pc = "import" /\ Head(script)[2] \in Cids \X Contents
           /\ Head(script)[1] = "wrap" => pc \in {"wrap", "bins"} /\ Head(script)[2] \in Cids
           /\ Head(script)[1] = "bin" => pc = "bins" /\ Head(script)[2] \in Bins
           /\ Head(script)[1] = "save" => pc = "append" /\ Head(script)[2] \in SUBSET Ids
           /\ Head(script)[1] = "oversize" => pc = "append" /\ Head(script)[2] \in Cids
           /\ Head(script)[1] \in {"record", "wrap", "bin", "save", "oversize"}
<1>1. PICK h : h = Head(script)
  OBVIOUS
<1>2. pc \in {"import", "wrap", "append", "bins"} /\ h \in WriteOf(pc)
  BY <1>1, WriteIs
<1>3. CASE pc = "import"
  BY <1>1, <1>2, <1>3, WritesAre
<1>4. CASE pc = "wrap"
  BY <1>1, <1>2, <1>4, WritesAre
<1>5. CASE pc = "append"
  BY <1>1, <1>2, <1>5, WritesAre
<1>6. CASE pc = "bins"
  BY <1>1, <1>2, <1>6, WritesAre
<1> QED BY <1>2, <1>3, <1>4, <1>5, <1>6

\* A piece of the manifest is recorded.
LEMMA ImportPieceStep == PInv /\ ImportPiece => PInv'
<1> SUFFICES ASSUME PInv, ImportPiece PROVE PInv'
  OBVIOUS
<1>1. /\ script # <<>> /\ Head(script)[1] = "record" /\ script' = Tail(script)
      /\ UNCHANGED <<subs, aggs, opts, faults, proc, state, workers, queue, pc, sessions>>
  BY DEF ImportPiece, Write
<1>2. PICK r : /\ r = Head(script)[2]
               /\ piece' = [piece EXCEPT ![r[1]] = "done"] /\ rec' = [rec EXCEPT ![r[1]] = r[2]]
  BY DEF ImportPiece
<1>3. pc = "import" /\ r[1] \in Cids /\ r[2] \in Contents
  BY <1>1, <1>2, HeadIs
<1>4. /\ piece \in [Cids -> PieceStatus] /\ rec \in [Cids -> Contents \cup {NoContent}]
      /\ proc = "import"
  BY <1>3 DEF PInv, PlanTypeOK, PhaseInv
<1>5. PlanTypeOK'
  <2>1. /\ piece' \in [Cids -> PieceStatus] /\ rec' \in [Cids -> Contents \cup {NoContent}]
    BY <1>2, <1>3, <1>4 DEF PieceStatus
  <2> QED BY <1>1, <2>1 DEF PInv, PlanTypeOK
<1>6. TablesInv'
  <2>1. \A c \in Cids : piece'[c] = "done" => rec'[c] \in Contents
    BY <1>2, <1>3, <1>4 DEF PInv, TablesInv
  <2> QED BY <1>1, <2>1, TablesKept DEF PInv
<1>7. PhaseInv'
  BY <1>1 DEF PInv, PhaseInv
<1>8. script' \in Seq(WriteOf("import"))
  BY <1>1, <1>3, WriteIs DEF Popped
<1>9. ScriptInv' /\ IdleInv' /\ ClaimsAreWorked'
  <2>1. WriteOf("import")' = WriteOf("import")
    BY DEF WriteOf, Ids
  <2> QED BY <1>1, <1>3, <1>4, <1>8, <2>1 DEF ScriptInv, IdleInv, ClaimsAreWorked
<1> QED BY <1>5, <1>6, <1>7, <1>9 DEF PInv

\* A sub-piece is recorded.
LEMMA NewSubPiece ==
    ASSUME IsFiniteSet(Built), SourceInOneSubPiece, NEW s, s \notin Built, NEW X,
           X \cap Wrapped = {}, subs' = WithSubPiece(s, X)
    PROVE  /\ Built' = Built \cup {s} /\ Wrapped' = Wrapped \cup X
           /\ IsFiniteSet(Built') /\ SourceInOneSubPiece'
           /\ subs'[s] = X /\ \A t \in Built : subs'[t] = subs[t]
<1>1. /\ Built' = Built \cup {s} /\ subs'[s] = X
      /\ \A t \in Built : subs'[t] = subs[t]
  BY DEF Built, WithSubPiece
<1>2. Wrapped' = Wrapped \cup X
  BY <1>1 DEF Wrapped
<1>3. IsFiniteSet(Built')
  BY <1>1, FS_AddElement
<1>4. SourceInOneSubPiece'
  BY <1>1 DEF SourceInOneSubPiece, Wrapped
<1> QED BY <1>1, <1>2, <1>3, <1>4

\* A write that takes its sources into a sub-piece.
LEMMA TakenStep ==
    ASSUME PInv, script # <<>>, pc \in {"wrap", "bins"}, NEW s \in Ids, s \notin Built,
           NEW X \in SUBSET Cids, X = Takes(Head(script)),
           subs' = WithSubPiece(s, X), script' = Tail(script),
           UNCHANGED <<piece, rec, aggs, faults, proc, state, workers, queue, pc, sessions>>,
           opts' \in [budget : Nat, target : Nat, pack : BOOLEAN, made : BOOLEAN,
                      caller : {"api", "worker"}],
           opts'.budget = opts.budget
    PROVE  PInv'
<1>1. /\ script \in Seq(WriteOf(pc)) /\ Popped(script, WriteOf(pc))
      /\ Head(script) \in WriteOf(pc)
  BY WriteIs
<1>2. Takeable(script, Wrapped) /\ \A i \in DOMAIN script : Takes(script[i]) \subseteq DonePieces
  BY DEF PInv, ScriptInv, WrapPending, BinsPending, Taking
<1>3. X \cap Wrapped = {}
  BY <1>1, <1>2 DEF Popped, Takeable
<1>4. /\ Built' = Built \cup {s} /\ Wrapped' = Wrapped \cup X
      /\ IsFiniteSet(Built') /\ SourceInOneSubPiece'
      /\ subs'[s] = X /\ \A t \in Built : subs'[t] = subs[t]
  BY <1>3, NewSubPiece DEF PInv, TablesInv
<1>5. TablesInv'
  BY <1>4 DEF PInv, TablesInv, SubPieceInOneAggregate, AggregatesFit
<1>6. PlanTypeOK'
  <2>1. aggs' \in Seq([members : SUBSET DOMAIN subs', budget : Budgets \cup {DefaultBudget}])
    <3> DEFINE old == [members : SUBSET DOMAIN subs, budget : Budgets \cup {DefaultBudget}]
               new == [members : SUBSET DOMAIN subs', budget : Budgets \cup {DefaultBudget}]
    <3>1. DOMAIN subs \subseteq DOMAIN subs'
      BY <1>4 DEF Built
    <3>2. old \subseteq new
      BY <3>1
    <3>3. aggs \in Seq(old) /\ aggs' = aggs
      BY <1>1 DEF PInv, PlanTypeOK
    <3> HIDE DEF old, new
    <3>4. aggs' \in Seq(new)
      BY <3>2, <3>3, SeqMonotonic
    <3> QED BY <3>4 DEF new
  <2>2. DOMAIN subs' \subseteq Ids /\ \A t \in DOMAIN subs' : subs'[t] \subseteq Cids
    BY <1>4 DEF PInv, PlanTypeOK, Built
  <2> QED BY <2>1, <2>2 DEF PInv, PlanTypeOK, Ids
<1>7. PhaseInv' /\ ClaimsAreWorked' /\ IdleInv'
  BY DEF PInv, PhaseInv, ClaimsAreWorked, IdleInv
<1>8. /\ Takeable(script, Wrapped)' /\ DonePieces' = DonePieces
      /\ \A i \in DOMAIN script' : (Takes(script[i]) \subseteq DonePieces)'
  <2>1. Takeable(Tail(script), Wrapped \cup X)
    BY <1>1, <1>2, TakeableTail
  <2>2. Takeable(script, Wrapped)'
    <3>1. PICK q, taken : q = Tail(script) /\ taken = Wrapped \cup X
      OBVIOUS
    <3>2. Takeable(q, taken)
      BY <2>1, <3>1
    <3>3. q = script' /\ taken = Wrapped'
      BY <3>1, <1>4
    <3> QED BY <3>2, <3>3
  <2>3. DonePieces' = DonePieces
    BY DEF DonePieces
  <2>4. \A i \in DOMAIN Tail(script) : Takes(Tail(script)[i]) \subseteq DonePieces
    BY <1>1, <1>2 DEF Popped
  <2>5. \A i \in DOMAIN script' : (Takes(script[i]) \subseteq DonePieces)'
    BY <2>3, <2>4 DEF Takes
  <2> QED BY <2>2, <2>3, <2>5
<1>9. script' \in Seq(WriteOf(pc)) /\ WriteOf("wrap")' = WriteOf("wrap")
      /\ WriteOf("bins")' = WriteOf("bins")
  BY <1>1 DEF Popped, WriteOf, Ids
<1>10. CASE pc = "wrap"
  <2>1. \A c \in DoneFree(piece)' : \E i \in DOMAIN script' : script'[i][2] = c
    <3>1. \A c \in DoneFree(piece)' : c \in DoneFree(piece) /\ c \notin X
      BY <1>4 DEF DoneFree
    <3>2. Head(script)[1] = "wrap" /\ X = {Head(script)[2]} /\ Head(script) = script[1]
      BY <1>1, <1>10, WritesAre DEF Takes, Popped
    <3>3. \A c \in DoneFree(piece) : \E i \in DOMAIN script : script[i][2] = c
      BY <1>10 DEF PInv, ScriptInv, WrapPending
    <3>4. \A i \in DOMAIN script \ {1} : i - 1 \in DOMAIN script' /\ script'[i - 1] = script[i]
      BY <1>1 DEF Popped
    <3>5. ASSUME NEW c \in DoneFree(piece)'
          PROVE  \E i \in DOMAIN script' : script'[i][2] = c
      <4>1. PICK i \in DOMAIN script : script[i][2] = c
        BY <3>1, <3>3
      <4>2. i # 1
        BY <3>1, <3>2, <4>1
      <4> QED BY <3>4, <4>1, <4>2
    <3> QED BY <3>5
  <2>2. WrapPending'
    BY <1>8, <1>9, <1>10, <2>1 DEF WrapPending
  <2>3. ScriptInv'
    BY <1>10, <2>2 DEF ScriptInv
  <2> QED BY <1>5, <1>6, <1>7, <2>3 DEF PInv
<1>11. CASE pc = "bins"
  <2>1. BinsPending'
    BY <1>8, <1>9, <1>11 DEF BinsPending, Taking
  <2>2. ScriptInv'
    BY <1>11, <2>1 DEF ScriptInv
  <2> QED BY <1>5, <1>6, <1>7, <2>2 DEF PInv
<1> QED BY <1>10, <1>11

\* A passthrough is recorded.
LEMMA WrapStep == PInv /\ Wrap => PInv'
<1> SUFFICES ASSUME PInv, Wrap PROVE PInv'
  OBVIOUS
<1>1. /\ script # <<>> /\ Head(script)[1] = "wrap" /\ script' = Tail(script)
      /\ UNCHANGED <<piece, rec, aggs, faults, proc, state, workers, queue, pc, sessions>>
      /\ opts' = [opts EXCEPT !.made = (pc = "bins")]
  BY DEF Wrap, Write
<1>2. PICK c : /\ c = Head(script)[2]
               /\ <<rec[c]>> \notin Built /\ subs' = WithSubPiece(<<rec[c]>>, {c})
  BY DEF Wrap
<1>3. c \in Cids /\ pc \in {"wrap", "bins"} /\ {c} = Takes(Head(script))
  BY <1>1, <1>2, HeadIs DEF Takes
<1>4. rec[c] \in Contents
  <2>1. /\ Popped(script, WriteOf(pc))
        /\ \A i \in DOMAIN script : Takes(script[i]) \subseteq DonePieces
    BY <1>1, <1>3, WriteIs DEF PInv, ScriptInv, WrapPending, BinsPending, Taking
  <2>2. piece[c] = "done"
    BY <1>3, <2>1 DEF Popped, DonePieces
  <2> QED BY <1>3, <2>2 DEF PInv, TablesInv
<1>5. <<rec[c]>> \in Ids
  <2>1. 1 \in 1 .. Cardinality(Cids)
    <3>1. Cardinality(Cids) \in Nat /\ Cardinality(Cids) # 0
      BY <1>3, CidsAssumption, FS_CardinalityType, FS_EmptySet
    <3> QED BY <3>1
  <2>2. <<rec[c]>> \in [1 .. 1 -> Contents]
    BY <1>4
  <2> QED BY <2>1, <2>2 DEF Ids
<1>6. /\ opts' \in [budget : Nat, target : Nat, pack : BOOLEAN, made : BOOLEAN,
                    caller : {"api", "worker"}]
      /\ opts'.budget = opts.budget
  BY <1>1 DEF PInv, PlanTypeOK
<1>7. PICK s, X : s = <<rec[c]>> /\ X = {c}
  OBVIOUS
<1>8. /\ s \in Ids /\ s \notin Built /\ X \in SUBSET Cids /\ X = Takes(Head(script))
      /\ subs' = WithSubPiece(s, X)
  BY <1>2, <1>3, <1>5, <1>7
<1> QED BY <1>1, <1>3, <1>6, <1>8, TakenStep

\* A bin is built.
LEMMA BuildBinStep == PInv /\ BuildBin => PInv'
<1> SUFFICES ASSUME PInv, BuildBin PROVE PInv'
  OBVIOUS
<1>1. /\ script # <<>> /\ Head(script)[1] = "bin" /\ script' = Tail(script)
      /\ UNCHANGED <<piece, rec, aggs, faults, proc, state, workers, queue, pc, sessions>>
      /\ opts' = [opts EXCEPT !.made = TRUE]
  BY DEF BuildBin, Write
<1>2. PICK X : X = Head(script)[2]
  OBVIOUS
<1>3. PICK s \in BuildOneBin(X) \ Built : subs' = WithSubPiece(s, X)
  BY <1>2 DEF BuildBin
<1>4. X \in Bins /\ pc = "bins" /\ X = Takes(Head(script))
  BY <1>1, <1>2, HeadIs DEF Takes
<1>5. s \in Ids
  <2>1. X \in SUBSET Cids /\ X # {}
    BY <1>4 DEF Bins
  <2>2. IsFiniteSet(X) /\ Enumerates(Sorted(X), X)
    BY <2>1, SortedEnumerates
  <2>3. PICK n \in Nat : n = Cardinality(X)
    BY <2>2, FS_CardinalityType
  <2>4. Sorted(X) \in [1 .. n -> X]
    BY <2>2, <2>3 DEF Enumerates
  <2>5. s \in [1 .. n -> Contents]
    BY <1>3, <2>4 DEF BuildOneBin, Assembled
  <2>6. n # 0 /\ n <= Cardinality(Cids) /\ Cardinality(Cids) \in Nat
    BY <2>1, <2>2, <2>3, CidsAssumption, FS_EmptySet, FS_Subset, FS_CardinalityType
  <2>7. n \in 1 .. Cardinality(Cids)
    BY <2>6
  <2> QED BY <2>5, <2>7 DEF Ids
<1>6. /\ opts' \in [budget : Nat, target : Nat, pack : BOOLEAN, made : BOOLEAN,
                    caller : {"api", "worker"}]
      /\ opts'.budget = opts.budget
  BY <1>1 DEF PInv, PlanTypeOK
<1> QED BY <1>1, <1>3, <1>4, <1>5, <1>6, TakenStep DEF Bins

\* A passthrough is refused.
LEMMA WrapRefusedStep == PInv /\ WrapRefused => PInv'
<1> SUFFICES ASSUME PInv, WrapRefused PROVE PInv'
  OBVIOUS
<1>1. script # <<>> /\ UNCHANGED <<piece, rec, subs, aggs, faults, sessions>>
  BY DEF WrapRefused, tables
<1>2. CASE Off
  BY <1>1, <1>2, OffStep
<1>3. CASE /\ pc' = "loop" /\ script' = <<>> /\ opts' = [opts EXCEPT !.caller = "worker"]
           /\ UNCHANGED <<proc, state, workers, queue>>
  <2>1. PlanTypeOK'
    BY <1>1, <1>3 DEF PInv, PlanTypeOK
  <2>2. TablesInv'
    BY <1>1, TablesKept DEF PInv, TablesInv
  <2>3. PhaseInv' /\ ScriptInv' /\ IdleInv' /\ ClaimsAreWorked'
    <3>1. opts'.budget = opts.budget
      BY <1>3 DEF PInv, PlanTypeOK
    <3> QED BY <1>1, <1>3, <3>1 DEF PInv, PhaseInv, ScriptInv, IdleInv, ClaimsAreWorked
  <2> QED BY <2>1, <2>2, <2>3 DEF PInv
<1> QED BY <1>2, <1>3 DEF WrapRefused

\* A bin is given up.
LEMMA BinFailedStep == PInv /\ BinFailed => PInv'
<1> SUFFICES ASSUME PInv, BinFailed PROVE PInv'
  OBVIOUS
<1>1. /\ script # <<>> /\ Head(script)[1] = "bin" /\ script' = Tail(script)
      /\ UNCHANGED <<piece, rec, subs, aggs, opts, proc, state, workers, queue, pc, sessions>>
  BY DEF BinFailed, Write, tables
<1>2. faults' \in 0 .. MaxFaults
  BY BoundsAssumption DEF PInv, PlanTypeOK, BinFailed
<1>3. pc = "bins" /\ BinsPending /\ Popped(script, WriteOf(pc))
  BY <1>1, HeadIs, WriteIs DEF PInv, ScriptInv
<1>4. PlanTypeOK' /\ PhaseInv' /\ IdleInv' /\ ClaimsAreWorked'
  BY <1>1, <1>2 DEF PInv, PlanTypeOK, PhaseInv, IdleInv, ClaimsAreWorked
<1>5. TablesInv'
  BY <1>1, TablesKept DEF PInv, TablesInv
<1>6. Taking(Tail(script), DonePieces)
  <2>1. PICK q : q = Tail(script)
    OBVIOUS
  <2>2. /\ script \in Seq(WriteOf("bins")) /\ Takeable(script, Wrapped)
        /\ \A i \in DOMAIN script : Takes(script[i]) \subseteq DonePieces
    BY <1>3 DEF BinsPending, Taking
  <2>3. Takeable(q, Wrapped \cup Takes(Head(script)))
    BY <1>1, <2>1, <2>2, TakeableTail
  <2>4. Takeable(q, Wrapped)
    BY <2>3 DEF Takeable
  <2>5. q \in Seq(WriteOf("bins")) /\ \A i \in DOMAIN q : Takes(q[i]) \subseteq DonePieces
    BY <1>3, <2>1, <2>2 DEF Popped
  <2> QED BY <2>1, <2>4, <2>5 DEF Taking
<1>7. BinsPending'
  <2>1. PICK q : q = Tail(script)
    OBVIOUS
  <2>2. /\ q \in Seq(WriteOf("bins")) /\ Takeable(q, Wrapped)
        /\ \A i \in DOMAIN q : Takes(q[i]) \subseteq DonePieces
    BY <1>6, <2>1 DEF Taking
  <2>3. /\ q = script' /\ Wrapped' = Wrapped /\ WriteOf("bins")' = WriteOf("bins")
        /\ DonePieces' = DonePieces
    BY <1>1, <2>1 DEF Wrapped, Built, WriteOf, DonePieces, Ids
  <2>4. Takeable(script, Wrapped)'
    BY <2>2, <2>3
  <2>5. \A i \in DOMAIN script' : (Takes(script[i]) \subseteq DonePieces)'
    BY <2>2, <2>3 DEF Takes
  <2> QED BY <2>2, <2>3, <2>4, <2>5 DEF BinsPending, Taking
<1>8. ScriptInv'
  BY <1>1, <1>3, <1>7 DEF ScriptInv
<1> QED BY <1>4, <1>5, <1>8 DEF PInv

\* An aggregate is saved.
LEMMA SaveAggregateStep == PInv /\ SaveAggregate => PInv'
<1> SUFFICES ASSUME PInv, SaveAggregate PROVE PInv'
  OBVIOUS
<1>1. /\ script # <<>> /\ Head(script)[1] = "save" /\ script' = Tail(script)
      /\ UNCHANGED <<piece, rec, subs, opts, faults, proc, state, workers, queue, pc, sessions>>
  BY DEF SaveAggregate, Write
<1>2. PICK X, r : /\ X = Head(script)[2] /\ r = [members |-> X, budget |-> opts.budget]
                  /\ aggs' = Append(aggs, r)
  BY DEF SaveAggregate
<1>3. /\ pc = "append" /\ AppendPending /\ Popped(script, WriteOf("append"))
      /\ script \in Seq(WriteOf("append")) /\ opts.budget \in Budgets \cup {DefaultBudget}
  BY <1>1, HeadIs, WriteIs DEF PInv, ScriptInv, PhaseInv
<1>4. PICK free : free = Built \ Aggregated
  OBVIOUS
<1>5. Savable(script, free, opts.budget) /\ Accounted(script, free, subs, piece)
  BY <1>3, <1>4 DEF AppendPending, AppendWrites
<1>6. Saves(Head(script)) /\ X \subseteq free /\ SizeOf(X) <= opts.budget
  BY <1>1, <1>2, <1>3, <1>5 DEF Saves, Savable, Popped
<1> DEFINE Rows == [members : SUBSET Built, budget : Budgets \cup {DefaultBudget}]
<1>7. aggs \in Seq(Rows) /\ r \in Rows
  BY <1>2, <1>3, <1>4, <1>6 DEF PInv, PlanTypeOK, Built
<1>8. PICK n \in Nat : n = Len(aggs)
  BY <1>7, LenProperties
<1>9. /\ DOMAIN aggs = 1 .. n /\ DOMAIN aggs' = 1 .. n + 1 /\ aggs' \in Seq(Rows)
      /\ \A i \in 1 .. n : aggs'[i] = aggs[i]
      /\ aggs'[n + 1] = r
  <2> HIDE DEF Rows
  <2>1. /\ aggs' \in Seq(Rows) /\ Len(aggs') = n + 1
        /\ \A i \in 1 .. n : aggs'[i] = aggs[i]
        /\ aggs'[n + 1] = r
    BY <1>2, <1>7, <1>8, AppendProperties
  <2> QED BY <1>7, <1>8, <2>1, LenProperties
<1>10. \A i \in DOMAIN aggs' : i \in DOMAIN aggs \/ i = n + 1
  BY <1>8, <1>9
<1>11. r.members = X /\ r.budget = opts.budget
  BY <1>2
<1> HIDE DEF Rows
<1>12. Aggregated' = Aggregated \cup X
  <2>1. \A i \in DOMAIN aggs : i \in DOMAIN aggs' /\ aggs'[i] = aggs[i]
    BY <1>8, <1>9
  <2>2. n + 1 \in DOMAIN aggs'
    BY <1>8, <1>9
  <2> QED BY <1>9, <1>10, <1>11, <2>1, <2>2 DEF Aggregated
<1>13. SubPieceInOneAggregate'
  <2>1. \A i \in DOMAIN aggs : aggs[i].members \cap X = {}
    BY <1>4, <1>6 DEF Aggregated
  <2>2. \A i, j \in DOMAIN aggs : i # j => aggs[i].members \cap aggs[j].members = {}
    BY DEF PInv, TablesInv, SubPieceInOneAggregate
  <2>3. \A i \in DOMAIN aggs : aggs'[i] = aggs[i]
    BY <1>9
  <2> QED BY <1>9, <1>10, <1>11, <2>1, <2>2, <2>3 DEF SubPieceInOneAggregate
<1>14. AggregatesFit'
  <2>1. \A i \in DOMAIN aggs : SizeOf(aggs[i].members) <= aggs[i].budget
    BY DEF PInv, TablesInv, AggregatesFit, SizeOf
  <2>2. \A i \in DOMAIN aggs' : SizeOf(aggs'[i].members) <= aggs'[i].budget
    BY <1>6, <1>9, <1>10, <1>11, <2>1
  <2> QED BY <2>2 DEF AggregatesFit, SizeOf
<1>15. TablesInv'
  BY <1>1, <1>13, <1>14 DEF PInv, TablesInv, SourceInOneSubPiece, Built
<1>16. PlanTypeOK'
  BY <1>1, <1>9 DEF PInv, PlanTypeOK, Rows, Built
<1>17. PhaseInv' /\ IdleInv' /\ ClaimsAreWorked'
  BY <1>1 DEF PInv, PhaseInv, IdleInv, ClaimsAreWorked
<1>18. AppendPending'
  <2>1. PICK q, left : q = Tail(script) /\ left = free \ X
    OBVIOUS
  <2>2. q \in Seq(WriteOf("append"))
    BY <1>3, <2>1 DEF Popped
  <2>3. Savable(q, left, opts.budget)
    BY <1>1, <1>2, <1>3, <1>5, <1>6, <2>1, SavableTail
  <2>4. Accounted(q, left, subs, piece)
    BY <1>1, <1>2, <1>3, <1>5, <1>6, <2>1, AccountedTail
  <2>5. /\ q = script' /\ left = (Built \ Aggregated)' /\ opts.budget = opts'.budget
        /\ subs = subs' /\ piece = piece' /\ WriteOf("append") = WriteOf("append")'
        /\ DoneFree(piece)' = DoneFree(piece)
    BY <1>1, <1>4, <1>12, <2>1 DEF Built, WriteOf, Ids, DoneFree, Wrapped
  <2>6. Savable(script, Built \ Aggregated, opts.budget)'
    BY <2>3, <2>5 DEF Savable, Saves
  <2>7. Accounted(script, Built \ Aggregated, subs, piece)'
    BY <2>4, <2>5 DEF Accounted, Saves, Marks
  <2>8. (proc # "pack" => DoneFree(piece) = {})'
    BY <1>1, <1>3, <2>5 DEF AppendPending
  <2> QED BY <2>2, <2>5, <2>6, <2>7, <2>8 DEF AppendPending, AppendWrites
<1>19. ScriptInv'
  BY <1>1, <1>3, <1>18 DEF ScriptInv
<1> QED BY <1>15, <1>16, <1>17, <1>19 DEF PInv

\* A source is marked oversized.
LEMMA MarkOversizedStep == PInv /\ MarkOversized => PInv'
<1> SUFFICES ASSUME PInv, MarkOversized PROVE PInv'
  OBVIOUS
<1>1. /\ script # <<>> /\ Head(script)[1] = "oversize" /\ script' = Tail(script)
      /\ UNCHANGED <<rec, subs, aggs, opts, faults, proc, state, workers, queue, pc, sessions>>
  BY DEF MarkOversized, Write
<1>2. PICK c : c = Head(script)[2] /\ piece' = [piece EXCEPT ![c] = "oversized"]
  BY DEF MarkOversized
<1>3. /\ pc = "append" /\ AppendPending /\ Popped(script, WriteOf("append"))
      /\ script \in Seq(WriteOf("append")) /\ c \in Cids /\ workers = {}
      /\ piece \in [Cids -> PieceStatus]
  BY <1>1, <1>2, HeadIs, WriteIs DEF PInv, ScriptInv, PlanTypeOK
<1>4. /\ piece' \in [Cids -> PieceStatus]
      /\ \A d \in Cids : piece'[d] = IF d = c THEN "oversized" ELSE piece[d]
  BY <1>2, <1>3 DEF PieceStatus
<1>5. PlanTypeOK'
  BY <1>1, <1>4 DEF PInv, PlanTypeOK
<1>6. TablesInv'
  BY <1>1, <1>4, TablesKept DEF PInv, TablesInv
<1>7. PhaseInv'
  BY <1>1 DEF PInv, PhaseInv
<1>8. IdleInv' /\ ClaimsAreWorked'
  BY <1>1, <1>3, <1>4 DEF PInv, IdleInv, ClaimsAreWorked
<1>9. AppendPending'
  <2>1. PICK q, free, p2 : q = Tail(script) /\ free = Built \ Aggregated /\ p2 = piece'
    OBVIOUS
  <2>2. Savable(script, free, opts.budget) /\ Accounted(script, free, subs, piece)
    BY <1>3, <2>1 DEF AppendPending, AppendWrites
  <2>3. q \in Seq(WriteOf("append"))
    BY <1>3, <2>1 DEF Popped
  <2>4. Savable(q, free, opts.budget)
    BY <1>1, <1>3, <2>1, <2>2, SavableTail
  <2>5. ~Saves(Head(script))
    BY <1>1 DEF Saves
  <2>6. p2[c] = "oversized" /\ \A d : piece[d] = "oversized" => p2[d] = "oversized"
    BY <1>2, <1>3, <2>1
  <2>7. Accounted(q, free, subs, p2)
    <3>1. PICK W : W = WriteOf("append") /\ script \in Seq(W)
      BY <1>3
    <3>2. p2[Head(script)[2]] = "oversized"
      BY <1>2, <2>6
    <3>3. Accounted(Tail(script), free, subs, p2)
      BY <1>1, <2>2, <2>5, <2>6, <3>1, <3>2, AccountedMarked
    <3> QED BY <2>1, <3>3
  <2>8. /\ q = script' /\ free = (Built \ Aggregated)' /\ opts.budget = opts'.budget
        /\ subs = subs' /\ p2 = piece' /\ WriteOf("append") = WriteOf("append")'
    BY <1>1, <2>1 DEF Built, Aggregated, WriteOf, Ids
  <2>9. Savable(script, Built \ Aggregated, opts.budget)'
    BY <2>4, <2>8 DEF Savable, Saves
  <2>10. Accounted(script, Built \ Aggregated, subs, piece)'
    BY <2>7, <2>8 DEF Accounted, Saves, Marks
  <2>11. (proc # "pack" => DoneFree(piece) = {})'
    BY <1>1, <1>3, <1>4 DEF AppendPending, DoneFree, Wrapped, Built
  <2> QED BY <2>3, <2>8, <2>9, <2>10, <2>11 DEF AppendPending, AppendWrites
<1>10. ScriptInv'
  BY <1>1, <1>3, <1>9 DEF ScriptInv
<1> QED BY <1>5, <1>6, <1>7, <1>8, <1>10 DEF PInv

\* A pass ends, and another begins or the command is through.
LEMMA PassEndsStep == PInv /\ PassEnds => PInv'
<1> SUFFICES ASSUME PInv, PassEnds PROVE PInv'
  OBVIOUS
<1>1. /\ pc \in {"import", "wrap", "append", "bins"} /\ script = <<>>
      /\ UNCHANGED <<piece, rec, subs, aggs, faults, sessions>>
  BY DEF PassEnds, tables
<1>2. workers = {} /\ PlanTypeOK
  BY <1>1 DEF PInv, PhaseInv
<1>3. TablesInv'
  BY <1>1, TablesKept DEF PInv, TablesInv
<1>4. CASE Off
  BY <1>1, <1>4, OffStep
<1>5. CASE pc = "append" /\ proc = "serve" /\ RepackDone
  <2>1. /\ pc' = "loop" /\ opts' = [opts EXCEPT !.caller = "worker"] /\ state' = "idle"
        /\ UNCHANGED <<proc, workers, queue, script>>
    BY <1>5 DEF RepackDone
  <2>2. PlanTypeOK'
    BY <1>1, <1>2, <2>1 DEF PlanTypeOK
  <2>3. opts'.budget = opts.budget
    BY <1>2, <2>1 DEF PlanTypeOK
  <2>4. PhaseInv' /\ ScriptInv' /\ IdleInv' /\ ClaimsAreWorked'
    BY <1>1, <2>1, <2>3 DEF PInv, PhaseInv, ScriptInv, IdleInv, ClaimsAreWorked
  <2> QED BY <1>3, <2>2, <2>4 DEF PInv
<1>6. CASE /\ pc = "import" /\ opts.pack /\ BeginWrap(piece) /\ UNCHANGED opts
           /\ UNCHANGED <<proc, state, workers, queue>>
  <2>1. pc' = "wrap" /\ WrapPending'
    BY <1>1, <1>6, WrapBegins DEF BeginWrap
  <2>2. PlanTypeOK'
    BY <1>1, <1>2, <1>6, <2>1 DEF PlanTypeOK
  <2>3. proc = "import"
    BY <1>6 DEF PInv, PhaseInv
  <2>4. PhaseInv' /\ ScriptInv' /\ IdleInv' /\ ClaimsAreWorked'
    BY <1>1, <1>6, <2>1, <2>3
       DEF PInv, PhaseInv, ScriptInv, IdleInv, ClaimsAreWorked
  <2> QED BY <1>3, <2>2, <2>4 DEF PInv
<1>7. CASE /\ pc = "wrap" /\ BeginAppend(opts.budget) /\ UNCHANGED opts
           /\ UNCHANGED <<proc, state, workers, queue>>
  <2>1. DoneFree(piece) = {}
    BY <1>1, <1>7 DEF PInv, ScriptInv, WrapPending
  <2>2. opts.budget \in Nat
    BY <1>2 DEF PlanTypeOK
  <2>3. pc' = "append" /\ AppendPending'
    <3>1. pc' = "append"
      BY <1>7 DEF BeginAppend
    <3>2. opts'.budget = opts.budget
      BY <1>7
    <3>3. PICK b \in Nat : b = opts.budget
      BY <2>2
    <3>4. BeginAppend(b) /\ opts'.budget = b
      BY <1>7, <3>2, <3>3
    <3> QED BY <1>1, <1>2, <2>1, <3>1, <3>4, AppendBegins DEF PInv
  <2>4. PlanTypeOK'
    BY <1>1, <1>2, <1>7, <2>3 DEF PlanTypeOK
  <2>5. proc \in {"serve", "plan", "import"} /\ opts.budget \in Budgets
    BY <1>7 DEF PInv, PhaseInv
  <2>6. PhaseInv' /\ ScriptInv' /\ IdleInv' /\ ClaimsAreWorked'
    BY <1>1, <1>2, <1>7, <2>3, <2>5
       DEF PInv, PhaseInv, ScriptInv, IdleInv, ClaimsAreWorked
  <2> QED BY <1>3, <2>4, <2>6 DEF PInv
<1>8. CASE /\ pc = "bins" /\ proc = "pack" /\ opts.made
           /\ \E b \in PackBudgets :
                 BeginAppend(b) /\ opts' = [opts EXCEPT !.budget = b, !.made = FALSE]
           /\ UNCHANGED <<proc, state, workers, queue>>
  <2>1. PICK b \in PackBudgets :
           BeginAppend(b) /\ opts' = [opts EXCEPT !.budget = b, !.made = FALSE]
    BY <1>8
  <2>2. b \in Budgets \cup {DefaultBudget}
    <3>1. CASE b = DefaultBudget
      BY <3>1
    <3>2. CASE b \in {aggs[i].budget : i \in DOMAIN aggs}
      <4>1. PICK i \in DOMAIN aggs : b = aggs[i].budget
        BY <3>2
      <4>2. aggs[i] \in [members : SUBSET DOMAIN subs, budget : Budgets \cup {DefaultBudget}]
        <5>1. PICK Rows : Rows = [members : SUBSET DOMAIN subs,
                                  budget : Budgets \cup {DefaultBudget}]
          OBVIOUS
        <5>2. aggs \in Seq(Rows)
          BY <1>2, <5>1 DEF PlanTypeOK
        <5>3. aggs[i] \in Rows
          BY <4>1, <5>2, LenProperties
        <5> QED BY <5>1, <5>3
      <4> QED BY <4>1, <4>2
    <3> QED BY <2>1, <3>1, <3>2 DEF PackBudgets
  <2>3. b \in Nat
    BY <2>2, SizesAssumption
  <2>4. /\ opts'.budget = b
        /\ opts' \in [budget : Nat, target : Nat, pack : BOOLEAN, made : BOOLEAN,
                      caller : {"api", "worker"}]
    BY <1>2, <2>1, <2>3 DEF PlanTypeOK
  <2>5. pc' = "append" /\ AppendPending'
    <3>1. pc' = "append"
      BY <2>1 DEF BeginAppend
    <3>2. ~ (proc' # "pack")
      BY <1>8
    <3> QED BY <1>1, <1>2, <2>1, <2>3, <2>4, <3>1, <3>2, AppendBegins DEF PInv
  <2>6. PlanTypeOK'
    BY <1>1, <1>2, <1>8, <2>4, <2>5 DEF PlanTypeOK
  <2>7. PhaseInv' /\ ScriptInv' /\ IdleInv' /\ ClaimsAreWorked'
    BY <1>1, <1>2, <1>8, <2>2, <2>4, <2>5
       DEF PInv, PhaseInv, ScriptInv, IdleInv, ClaimsAreWorked
  <2> QED BY <1>3, <2>6, <2>7 DEF PInv
<1> QED BY <1>4, <1>5, <1>6, <1>7, <1>8 DEF PassEnds

\* So every step keeps it.
LEMMA PNextStep == PInv /\ [PlanNext]_planVars => PInv'
<1> SUFFICES ASSUME PInv, [PlanNext]_planVars PROVE PInv'
  OBVIOUS
<1>1. CASE Command
  BY <1>1, OpenServeStep, OpenPlanStep, OpenImportStep, OpenPackStep DEF Command
<1>2. CASE Operator
  BY <1>2, OperatorStep
<1>3. CASE \E c \in Cids : Fetch(c)
  BY <1>3, FetchStep
<1>4. CASE Pass
  BY <1>4, ImportPieceStep, WrapStep, WrapRefusedStep, BuildBinStep, BinFailedStep,
     SaveAggregateStep, MarkOversizedStep, PoolDrainedStep, PassEndsStep DEF Pass
<1>5. CASE Crash
  BY <1>5, OffStep DEF Crash, tables
<1>6. CASE UNCHANGED planVars
  <2>1. /\ UNCHANGED <<piece, rec, subs, aggs, proc, state, workers, queue, opts, pc, script>>
        /\ UNCHANGED <<faults, sessions>>
    BY <1>6 DEF planVars
  <2>2. PlanTypeOK' /\ PhaseInv' /\ IdleInv' /\ ClaimsAreWorked'
    BY <2>1 DEF PInv, PlanTypeOK, PhaseInv, IdleInv, ClaimsAreWorked
  <2>3. TablesInv'
    BY <2>1, TablesKept DEF PInv, TablesInv
  <2>4. ScriptInv'
    <3>1. WrapPending => WrapPending'
      <4>1. /\ script' = script /\ Wrapped' = Wrapped /\ DonePieces' = DonePieces
            /\ DoneFree(piece)' = DoneFree(piece) /\ WriteOf("wrap")' = WriteOf("wrap")
        BY <2>1 DEF DoneFree, DonePieces, Wrapped, Built, WriteOf, Ids
      <4>2. Takeable(script, Wrapped) => Takeable(script, Wrapped)'
        BY <4>1
      <4> QED BY <4>1, <4>2 DEF WrapPending, Takes
    <3>2. BinsPending => BinsPending'
      BY <2>1 DEF BinsPending, Taking, Takeable, Takes, DonePieces, Wrapped, Built,
         WriteOf, Ids
    <3>3. AppendPending => AppendPending'
      BY <2>1 DEF AppendPending, AppendWrites, Savable, Saves, Accounted, Marks, DoneFree,
                  Wrapped, Built, Aggregated, WriteOf, Ids
    <3>4. WriteOf("import")' = WriteOf("import")
      BY DEF WriteOf, Ids
    <3> QED BY <2>1, <3>1, <3>2, <3>3, <3>4 DEF PInv, ScriptInv
  <2> QED BY <2>2, <2>3, <2>4 DEF PInv
<1> QED BY <1>1, <1>2, <1>3, <1>4, <1>5, <1>6 DEF PlanNext

\* The invariant holds throughout.
LEMMA PlanInvariant == PlanSpec => []PInv
<1> QED BY PInit, PNextStep, PTL DEF PlanSpec

\* The tables and the command's own state keep their types, whatever commands run and
\* wherever they are cut short (packages/cli/src/db.ts).
THEOREM PlanTypeCorrect == PlanSpec => []PlanTypeOK
<1>1. PInv => PlanTypeOK
  BY DEF PInv
<1> QED BY <1>1, PlanInvariant, PTL

\* Each source is in one sub-piece at most, each sub-piece in one aggregate, and each
\* aggregate fits the piece size it is recorded with, over any sequence of commands cut
\* short anywhere, for any CIDs, sizes, budgets and concurrency (db.ts,
\* donePiecesFreeForPacking; migrate.ts, appendAggregatesFromFreeSubPieces).
THEOREM PlanNested == PlanSpec => []PlanNests
<1>1. PInv => PlanNests
  BY DEF PInv, TablesInv, PlanNests
<1> QED BY <1>1, PlanInvariant, PTL

\* While serve runs, the rows marked processing are those being fetched, at most the
\* concurrency of them (runner.ts, #kick and #process).
THEOREM ClaimsWorked == PlanSpec => []ClaimsAreWorked
<1>1. PInv => ClaimsAreWorked
  BY DEF PInv
<1> QED BY <1>1, PlanInvariant, PTL

\* When an append pass is through, every sub-piece is in an aggregate or its sources are
\* marked oversized, every done piece is in a sub-piece (but for pack-cars), and serve has
\* left nothing to fetch (runner.ts, #repack).
THEOREM DrainedPlanned == PlanSpec => []DrainedIsPlanned
<1>1. PInv => DrainedIsPlanned
  <2> SUFFICES ASSUME PInv, pc = "append", script = <<>> PROVE DrainedIsPlanned
    BY DEF DrainedIsPlanned
  <2>1. AppendPending /\ DOMAIN script = {}
    BY DEF PInv, ScriptInv
  <2>2. \A s \in Built \ Aggregated : \A c \in subs[s] : piece[c] = "oversized"
    BY <2>1 DEF AppendPending, AppendWrites, Accounted, Marks
  <2> QED BY <2>1, <2>2 DEF DrainedIsPlanned, AppendPending, PInv, IdleInv
<1> QED BY <1>1, PlanInvariant, PTL

-----------------------------------------------------------------------------
(***************************************************************************)
(* The jobs and requests of the daemon (ServeDaemon).                      *)
(***************************************************************************)
USE KeysAssumption, BoundAssumption

LEMMA Bounds == Margin \in Nat /\ MaxTime \in Nat /\ Presigns \in Nat \ {0} /\ MaxRestarts \in Nat
OBVIOUS

(***************************************************************************)
(* The jobs.                                                               *)
(***************************************************************************)
LEMMA JobsAreJobs ==
    ASSUME jobs \in Seq(Job)
    PROVE  /\ Len(jobs) \in Nat
           /\ DOMAIN jobs = 1 .. Len(jobs)
           /\ \A j \in DOMAIN jobs : jobs[j] \in Job
BY LenProperties

\* One job changes, the others stay.
LEMMA OneJobChanges ==
    ASSUME jobs \in Seq(Job), NEW j \in DOMAIN jobs, NEW job \in Job,
           jobs' = [jobs EXCEPT ![j] = job]
    PROVE  /\ jobs' \in Seq(Job)
           /\ Len(jobs') = Len(jobs)
           /\ DOMAIN jobs' = DOMAIN jobs
           /\ \A i \in DOMAIN jobs : jobs'[i] = IF i = j THEN job ELSE jobs[i]
BY JobsAreJobs, ExceptSeq

\* A new job is the last one.
LEMMA OneJobMore ==
    ASSUME jobs \in Seq(Job), NEW kind \in Kinds, NEW row \in Row, StartJob(kind, row)
    PROVE  /\ NewJob(kind, row) \in Job
           /\ jobs' \in Seq(Job)
           /\ Len(jobs') = Len(jobs) + 1
           /\ DOMAIN jobs' = 1 .. Len(jobs) + 1
           /\ \A i \in DOMAIN jobs : jobs'[i] = jobs[i]
           /\ jobs'[Len(jobs) + 1] = NewJob(kind, row)
           /\ shown' = Len(jobs) + 1
<1>1. NewJob(kind, row) \in Job
  BY DEF NewJob, Job, Time, Kinds
<1>2. jobs' = Append(jobs, NewJob(kind, row)) /\ shown' = Len(jobs) + 1
  BY DEF StartJob
<1>. QED  BY <1>1, <1>2, JobsAreJobs, AppendProperties, LenProperties

\* What is not true of a row is caught before it matters: an expiry that was read
\* for the row's own key is at most the key's grant, until the key is revoked.
Backed(row, g, gone) ==
    row = NoRow \/ row.of # row.key \/ row.key \in gone \/ row.expires <= g[row.key]

JobSound(job) ==
    /\ job.phase \in {"presign", "reread", "signed"} => job.left >= 1
    /\ job.phase = "signed" => job.row.expires > job.signed + Margin

ReqSound(q, g, gone) ==
    q.pc \in {"validating", "body", "probe"} => q.row \in Row /\ Backed(q.row, g, gone)

RowsBacked ==
    /\ Backed(stored, grant, revoked)
    /\ \A r \in Reqs : ReqSound(req[r], grant, revoked)
    /\ \A j \in DOMAIN jobs : Backed(jobs[j].row, grant, revoked) /\ JobSound(jobs[j])

IInv == TypeOK /\ RowsBacked

\* What each step of a job leaves behind.
JobAfter(j, job) ==
    /\ jobs' = [jobs EXCEPT ![j] = job]
    /\ job \in Job /\ JobSound(job) /\ Backed(job.row, grant, revoked)

LEMMA EndedSound ==
    ASSUME NEW job \in Job, NEW failed \in BOOLEAN
    PROVE  /\ Ended(job, failed) \in Job
           /\ JobSound(Ended(job, failed))
           /\ Ended(job, failed).row = job.row
<1>1. 0 \in Time
  BY Bounds DEF Time
<1>2. Ended(job, failed) \in Job
  BY <1>1 DEF Ended, Job
<1>3. Ended(job, failed).phase = "ended" /\ Ended(job, failed).row = job.row
  BY DEF Ended, Job
<1>. QED  BY <1>2, <1>3 DEF JobSound

LEMMA PresignFromCacheAfter ==
    ASSUME IInv, NEW j \in DOMAIN jobs, PresignFromCache(j)
    PROVE  \E job : JobAfter(j, job)
<1>. DEFINE job == IF InMargin(jobs[j].row.expires)
                     THEN [jobs[j] EXCEPT !.phase = "reread"]
                     ELSE [jobs[j] EXCEPT !.phase = "signed", !.signed = now]
<1>1. jobs[j] \in Job /\ jobs[j].phase = "presign" /\ now \in Time
  BY JobsAreJobs DEF IInv, TypeOK, PresignFromCache, AtPhase
<1>2. jobs[j].left >= 1 /\ Backed(jobs[j].row, grant, revoked)
  BY <1>1 DEF IInv, RowsBacked, JobSound
<1>3. job \in Job
  BY <1>1 DEF Job
<1>4. JobSound(job) /\ job.row = jobs[j].row
  BY <1>1, <1>2 DEF Job, JobSound, InMargin, Row, Time
<1>5. jobs' = [jobs EXCEPT ![j] = job]
  BY DEF PresignFromCache
<1>6. JobAfter(j, job)
  BY <1>2, <1>3, <1>4, <1>5 DEF JobAfter
<1>. QED  BY <1>6

LEMMA PresignRereadAfter ==
    ASSUME IInv, NEW j \in DOMAIN jobs, PresignReread(j)
    PROVE  /\ \E job : JobAfter(j, job)
           /\ jobs[j].row.key \in Keys
           /\ UpdateSessionExpiry(jobs[j].row.key, grant[jobs[j].row.key])
<1>. DEFINE k == jobs[j].row.key
            fresh == [jobs[j] EXCEPT !.row.expires = grant[k], !.row.of = k]
            signed == [fresh EXCEPT !.phase = "signed", !.signed = now]
            job == IF InMargin(grant[k]) THEN Ended(fresh, TRUE) ELSE signed
<1>1. /\ jobs[j] \in Job /\ jobs[j].phase = "reread"
      /\ now \in Time /\ grant \in [Keys -> Time]
  BY JobsAreJobs DEF IInv, TypeOK, PresignReread, AtPhase
<1>2. jobs[j].left >= 1
  BY <1>1 DEF IInv, RowsBacked, JobSound
<1>3. k \in Keys /\ jobs[j].row \in Row
  BY <1>1 DEF Job, Row
<1>4. [jobs[j].row EXCEPT !.expires = grant[k], !.of = k] \in Row
  BY <1>1, <1>3 DEF Row
<1>5. /\ fresh \in Job
      /\ fresh.row = [jobs[j].row EXCEPT !.expires = grant[k], !.of = k]
  BY <1>1, <1>4 DEF Job
<1>6. fresh.row.key = k /\ fresh.row.expires = grant[k] /\ fresh.left = jobs[j].left
  BY <1>1, <1>3, <1>5 DEF Job, Row
<1>7. Backed(fresh.row, grant, revoked)
  BY <1>1, <1>3, <1>6 DEF Backed, Time
<1>8. signed \in Job /\ signed.row = fresh.row /\ signed.left = fresh.left
      /\ signed.signed = now
  BY <1>1, <1>5 DEF Job
<1>9. ~ InMargin(grant[k]) => JobSound(signed)
  BY <1>1, <1>2, <1>3, <1>6, <1>8 DEF JobSound, InMargin, Time, Job
<1>10. job \in Job /\ JobSound(job) /\ job.row = fresh.row
  BY <1>5, <1>8, <1>9, EndedSound
<1>11. jobs' = [jobs EXCEPT ![j] = job]
  BY DEF PresignReread
<1>12. JobAfter(j, job)
  BY <1>7, <1>10, <1>11 DEF JobAfter
<1>13. UpdateSessionExpiry(k, grant[k])
  BY DEF PresignReread
<1>. QED  BY <1>3, <1>12, <1>13

LEMMA AddSentAfter ==
    ASSUME IInv, NEW j \in DOMAIN jobs, AddSent(j)
    PROVE  \E job : JobAfter(j, job)
<1>. DEFINE ok == grant[jobs[j].row.key] > now
            more == [jobs[j] EXCEPT !.left = @ - 1, !.signed = 0, !.phase = "presign"]
            job == IF ~ ok \/ jobs[j].left = 1 THEN Ended(jobs[j], ~ ok) ELSE more
<1>1. jobs[j] \in Job /\ jobs[j].phase = "signed"
  BY JobsAreJobs DEF IInv, TypeOK, AddSent, AtPhase
<1>2. jobs[j].left >= 1 /\ Backed(jobs[j].row, grant, revoked)
  BY <1>1 DEF IInv, RowsBacked, JobSound
<1>3. jobs[j].left # 1 => more \in Job /\ JobSound(more) /\ more.row = jobs[j].row
  <2>1. 0 \in Time /\ jobs[j].left \in 0 .. Presigns /\ jobs[j].left >= 1
    BY <1>1, <1>2, Bounds DEF Job, Time
  <2>2. jobs[j].left # 1 => jobs[j].left - 1 \in 0 .. Presigns /\ jobs[j].left - 1 >= 1
    BY <2>1, Bounds
  <2>3. more = [jobs[j] EXCEPT !.left = jobs[j].left - 1, !.signed = 0, !.phase = "presign"]
    OBVIOUS
  <2>. QED  BY <1>1, <2>1, <2>2, <2>3 DEF Job, JobSound
<1>4. job \in Job /\ JobSound(job) /\ job.row = jobs[j].row
  BY <1>1, <1>3, EndedSound
<1>5. jobs' = [jobs EXCEPT ![j] = job]
  BY DEF AddSent
<1>6. JobAfter(j, job)
  BY <1>2, <1>4, <1>5 DEF JobAfter
<1>. QED  BY <1>6

LEMMA CreatePostedAfter ==
    ASSUME IInv, NEW j \in DOMAIN jobs, CreatePosted(j)
    PROVE  \E job : JobAfter(j, job)
<1>. DEFINE made == [jobs[j] EXCEPT !.phase = "created"]
            job == IF grant[jobs[j].row.key] > now THEN made ELSE Ended(jobs[j], TRUE)
<1>1. jobs[j] \in Job /\ Backed(jobs[j].row, grant, revoked)
  BY JobsAreJobs DEF IInv, TypeOK, RowsBacked
<1>2. made \in Job /\ JobSound(made) /\ made.row = jobs[j].row
  BY <1>1 DEF Job, JobSound
<1>3. job \in Job /\ JobSound(job) /\ job.row = jobs[j].row
  BY <1>1, <1>2, EndedSound
<1>4. jobs' = [jobs EXCEPT ![j] = job]
  BY DEF CreatePosted
<1>5. JobAfter(j, job)
  BY <1>1, <1>3, <1>4 DEF JobAfter
<1>. QED  BY <1>5

LEMMA JobFailsAfter ==
    ASSUME IInv, NEW j \in DOMAIN jobs, JobFails(j)
    PROVE  \E job : JobAfter(j, job)
<1>1. jobs[j] \in Job /\ Backed(jobs[j].row, grant, revoked)
  BY JobsAreJobs DEF IInv, TypeOK, RowsBacked
<1>2. JobAfter(j, Ended(jobs[j], TRUE))
  BY <1>1, EndedSound DEF JobAfter, JobFails
<1>. QED  BY <1>2

\* A step that leaves one job sound, and nothing else of a row or a grant.
LEMMA JobAfterKeeps ==
    ASSUME IInv, NEW j \in DOMAIN jobs, NEW job, JobAfter(j, job),
           UNCHANGED <<grant, revoked, shown>>
    PROVE  /\ jobs' \in Seq(Job) /\ shown' \in 0 .. Len(jobs')
           /\ (\A i \in DOMAIN jobs : Backed(jobs[i].row, grant, revoked) /\ JobSound(jobs[i]))'
<1>0. jobs \in Seq(Job) /\ shown \in 0 .. Len(jobs)
  BY DEF IInv, TypeOK
<1>1. /\ jobs' \in Seq(Job) /\ Len(jobs') = Len(jobs) /\ DOMAIN jobs' = DOMAIN jobs
      /\ \A i \in DOMAIN jobs : jobs'[i] = IF i = j THEN job ELSE jobs[i]
  BY <1>0, OneJobChanges DEF JobAfter
<1>. QED  BY <1>0, <1>1 DEF JobAfter, IInv, RowsBacked

\* The answer of a creation: every job keeps its row, its phase at most ends.
LEMMA CreateAnsweredAfter ==
    ASSUME IInv, NEW j \in DOMAIN jobs, CreateAnswered(j)
    PROVE  /\ jobs' \in Seq(Job) /\ shown' \in 0 .. Len(jobs')
           /\ (\A i \in DOMAIN jobs : Backed(jobs[i].row, grant, revoked) /\ JobSound(jobs[i]))'
<1>0. /\ jobs \in Seq(Job) /\ shown \in 0 .. Len(jobs)
      /\ Len(jobs) \in Nat /\ DOMAIN jobs = 1 .. Len(jobs)
      /\ \A i \in DOMAIN jobs : jobs[i] \in Job
  BY JobsAreJobs DEF IInv, TypeOK
<1>. DEFINE job(i) == IF i = j THEN Ended(jobs[i], FALSE) ELSE jobs[i]
            after(i) == IF i = shown THEN [job(i) EXCEPT !.dataSet = j] ELSE job(i)
<1>1. ASSUME NEW i \in DOMAIN jobs
      PROVE  job(i) \in Job /\ JobSound(job(i)) /\ job(i).row = jobs[i].row
  <2>1. jobs[i] \in Job /\ JobSound(jobs[i])
    BY <1>0 DEF IInv, RowsBacked
  <2>2. CASE i = j
    BY <2>1, <2>2, EndedSound
  <2>3. CASE i # j
    BY <2>1, <2>3
  <2>. QED  BY <2>2, <2>3
<1>2. ASSUME NEW i \in DOMAIN jobs
      PROVE  after(i) \in Job /\ JobSound(after(i)) /\ after(i).row = jobs[i].row
  <2>0. j \in Nat
    BY <1>0
  <2>1. job(i) \in Job /\ JobSound(job(i)) /\ job(i).row = jobs[i].row
    BY <1>1
  <2>. HIDE DEF job
  <2>2. [job(i) EXCEPT !.dataSet = j] \in Job
    BY <2>0, <2>1 DEF Job
  <2>3. JobSound([job(i) EXCEPT !.dataSet = j]) /\ [job(i) EXCEPT !.dataSet = j].row = job(i).row
    BY <2>1 DEF Job, JobSound
  <2>. QED  BY <2>1, <2>2, <2>3
<1>3. jobs' = [i \in DOMAIN jobs |-> after(i)] /\ UNCHANGED <<grant, revoked, shown>>
  BY DEF CreateAnswered
<1>. HIDE DEF after
<1>4. jobs' \in [1 .. Len(jobs) -> Job]
  BY <1>0, <1>2, <1>3
<1>5. jobs' \in Seq(Job) /\ Len(jobs') = Len(jobs)
  BY <1>0, <1>4
<1>6. \A i \in DOMAIN jobs' : Backed(jobs'[i].row, grant, revoked) /\ JobSound(jobs'[i])
  BY <1>0, <1>2, <1>3 DEF IInv, RowsBacked
<1>. QED  BY <1>0, <1>3, <1>5, <1>6

(***************************************************************************)
(* Type correctness, and that rows stay backed.                            *)
(***************************************************************************)
\* A grant only shrinks by being revoked.
GrantsMove ==
    /\ revoked \subseteq revoked'
    /\ \A k \in Keys : k \in revoked' \/ grant'[k] >= grant[k]

LEMMA BackedStays ==
    ASSUME grant \in [Keys -> Time], grant' \in [Keys -> Time], GrantsMove,
           NEW row \in Row \cup {NoRow}, Backed(row, grant, revoked)
    PROVE  Backed(row, grant', revoked')
<1>1. CASE row = NoRow
  BY <1>1 DEF Backed
<1>2. CASE row \in Row
  <2>1. row.key \in Keys /\ row.expires \in Time
    BY <1>2 DEF Row
  <2>. QED  BY <2>1, Bounds DEF Backed, GrantsMove, Time
<1>. QED  BY <1>1, <1>2

LEMMA GrantsStay ==
    ASSUME grant \in [Keys -> Time], UNCHANGED <<grant, revoked>>
    PROVE  grant' \in [Keys -> Time] /\ GrantsMove
BY Bounds DEF GrantsMove, Time

LEMMA ExtendMoves ==
    ASSUME grant \in [Keys -> Time], NEW k \in Keys, NEW e \in Time, Extend(k, e)
    PROVE  grant' \in [Keys -> Time] /\ GrantsMove
BY Bounds DEF GrantsMove, Time, Extend

LEMMA RevokeMoves ==
    ASSUME grant \in [Keys -> Time], NEW k \in Keys, Revoke(k)
    PROVE  grant' \in [Keys -> Time] /\ GrantsMove
<1>1. 0 \in Time
  BY Bounds DEF Time
<1>. QED  BY <1>1, Bounds DEF GrantsMove, Time, Revoke

\* What the wallet and the clock do to the rows: nothing.
LEMMA RowsStay ==
    ASSUME IInv, grant' \in [Keys -> Time], GrantsMove,
           UNCHANGED <<stored, req, jobs>>
    PROVE  RowsBacked'
<1>1. /\ grant \in [Keys -> Time] /\ stored \in Row \cup {NoRow}
      /\ \A j \in DOMAIN jobs : jobs[j].row \in Row
  BY JobsAreJobs DEF IInv, TypeOK, Job
<1>2. Backed(stored, grant', revoked')
  BY <1>1, BackedStays DEF IInv, RowsBacked
<1>3. ASSUME NEW r \in Reqs PROVE ReqSound(req[r], grant', revoked')
  BY <1>1, BackedStays DEF IInv, RowsBacked, ReqSound
<1>4. ASSUME NEW j \in DOMAIN jobs PROVE Backed(jobs[j].row, grant', revoked')
  BY <1>1, BackedStays DEF IInv, RowsBacked
<1>. QED  BY <1>2, <1>3, <1>4 DEF IInv, RowsBacked

Request ==
    [pc : {"idle", "validating", "body", "probe", "done"},
     kind : Kinds \cup {"session", "none"}, row : Row \cup {NoRow}]

LEMMA RequestTypes == Idle \in Request /\ Answered \in Request
BY DEF Idle, Answered, Request

\* One request moves on.
LEMMA ReqChanges ==
    ASSUME IInv, NEW r \in Reqs, NEW q \in Request, req' = [req EXCEPT ![r] = q],
           ReqSound(q, grant, revoked)
    PROVE  /\ req' \in [Reqs -> Request]
           /\ \A s \in Reqs : ReqSound(req'[s], grant, revoked)
<1>1. req \in [Reqs -> Request]
  BY DEF IInv, TypeOK, Request
<1>. QED  BY <1>1 DEF IInv, RowsBacked

LEMMA AnsweredSound == ReqSound(Answered, grant, revoked) /\ ReqSound(Idle, grant, revoked)
BY DEF ReqSound, Answered, Idle

LEMMA InitInv == Init => IInv
<1>. SUFFICES ASSUME Init PROVE IInv
  OBVIOUS
<1>1. 0 \in Time /\ Idle \in Request
  BY Bounds, RequestTypes DEF Time
<1>2. jobs \in Seq(Job) /\ DOMAIN jobs = {} /\ Len(jobs) = 0
  BY DEF Init
<1>3. TypeOK
  <2>1. /\ now \in Time /\ grant \in [Keys -> Time] /\ revoked \subseteq Keys
        /\ stored \in Row \cup {NoRow} /\ reachable \in BOOLEAN
    BY <1>1 DEF Init
  <2>2. req \in [Reqs -> Request]
    BY <1>1 DEF Init
  <2>3. shown \in 0 .. Len(jobs) /\ restarts \in 0 .. MaxRestarts
    BY <1>2, Bounds DEF Init
  <2>. QED  BY <1>2, <2>1, <2>2, <2>3 DEF TypeOK, Request
<1>4. RowsBacked
  BY <1>2, AnsweredSound DEF Init, RowsBacked, Backed
<1>. QED  BY <1>3, <1>4 DEF IInv

LEMMA StepInv == IInv /\ [Next]_vars => IInv'
<1>. SUFFICES ASSUME IInv, [Next]_vars PROVE IInv'
  OBVIOUS
<1>0. /\ now \in Time /\ grant \in [Keys -> Time] /\ revoked \subseteq Keys
      /\ stored \in Row \cup {NoRow} /\ req \in [Reqs -> Request]
      /\ reachable \in BOOLEAN /\ jobs \in Seq(Job)
      /\ shown \in 0 .. Len(jobs) /\ restarts \in 0 .. MaxRestarts
  BY DEF IInv, TypeOK, Request
<1>1. CASE Tick
  <2>1. now' \in Time /\ UNCHANGED <<grant, revoked, stored, req, reachable, jobs, shown, restarts>>
    BY <1>0, <1>1, Bounds DEF Tick, Time
  <2>2. TypeOK'
    BY <1>0, <2>1 DEF TypeOK, Request
  <2>3. RowsBacked'
    BY <1>0, <2>1, GrantsStay, RowsStay
  <2>. QED  BY <2>2, <2>3 DEF IInv
<1>2. CASE \E k \in Keys, e \in Time : Extend(k, e)
  <2>1. /\ grant' \in [Keys -> Time] /\ GrantsMove
        /\ UNCHANGED <<now, revoked, stored, req, reachable, jobs, shown, restarts>>
    BY <1>0, <1>2, ExtendMoves DEF Extend
  <2>2. TypeOK'
    BY <1>0, <2>1 DEF TypeOK, Request
  <2>3. RowsBacked'
    BY <2>1, RowsStay
  <2>. QED  BY <2>2, <2>3 DEF IInv
<1>3. CASE \E k \in Keys : Revoke(k)
  <2>1. /\ grant' \in [Keys -> Time] /\ GrantsMove /\ revoked' \subseteq Keys
        /\ UNCHANGED <<now, stored, req, reachable, jobs, shown, restarts>>
    BY <1>0, <1>3, RevokeMoves DEF Revoke
  <2>2. TypeOK'
    BY <1>0, <2>1 DEF TypeOK, Request
  <2>3. RowsBacked'
    BY <2>1, RowsStay
  <2>. QED  BY <2>2, <2>3 DEF IInv
<1>4. CASE Restart
  <2>1. /\ jobs' = <<>> /\ shown' = 0 /\ reachable' = FALSE /\ restarts' \in 0 .. MaxRestarts
        /\ UNCHANGED <<now, grant, revoked, stored>>
    BY <1>0, <1>4, Bounds DEF Restart
  <2>2. jobs' \in Seq(Job) /\ DOMAIN jobs' = {} /\ Len(jobs') = 0
    BY <2>1
  <2>3. /\ req' \in [Reqs -> Request]
        /\ \A r \in Reqs : ReqSound(req'[r], grant, revoked)
    BY <1>4, RequestTypes, AnsweredSound DEF Restart
  <2>4. TypeOK'
    <3>1. shown' \in 0 .. Len(jobs')
      <4>1. 0 \in 0 .. 0
        OBVIOUS
      <4>. QED  BY <2>1, <2>2, <4>1
    <3>2. reachable' \in BOOLEAN
      BY <2>1
    <3>. QED  BY <1>0, <2>1, <2>2, <2>3, <3>1, <3>2 DEF TypeOK, Request
  <2>5. RowsBacked'
    BY <2>1, <2>2, <2>3 DEF IInv, RowsBacked
  <2>. QED  BY <2>4, <2>5 DEF IInv
<1>5. CASE SessionDeleted
  <2>1. stored' = NoRow /\ UNCHANGED <<now, grant, revoked, req, reachable, jobs, shown, restarts>>
    BY <1>5 DEF SessionDeleted
  <2>2. TypeOK'
    BY <1>0, <2>1 DEF TypeOK, Request
  <2>3. RowsBacked'
    BY <2>1 DEF IInv, RowsBacked, Backed
  <2>. QED  BY <2>2, <2>3 DEF IInv
<1>6. ASSUME NEW r \in Reqs, NEW k \in Keys, SessionPosted(r, k) PROVE IInv'
  <2>. DEFINE row == [key |-> k, expires |-> 0, of |-> k]
              q == [pc |-> "validating", kind |-> "session", row |-> row]
  <2>1. row \in Row /\ Backed(row, grant, revoked)
    BY <1>0, Bounds DEF Row, Time, Backed
  <2>2. q \in Request /\ ReqSound(q, grant, revoked)
    BY <2>1 DEF Request, ReqSound
  <2>3. /\ req' = [req EXCEPT ![r] = q]
        /\ UNCHANGED <<now, grant, revoked, stored, reachable, jobs, shown, restarts>>
    BY <1>6 DEF SessionPosted
  <2>4. req' \in [Reqs -> Request] /\ \A s \in Reqs : ReqSound(req'[s], grant, revoked)
    BY <2>2, <2>3, ReqChanges
  <2>5. TypeOK'
    BY <1>0, <2>3, <2>4 DEF TypeOK, Request
  <2>6. RowsBacked'
    BY <2>3, <2>4 DEF IInv, RowsBacked
  <2>. QED  BY <2>5, <2>6 DEF IInv
<1>7. ASSUME NEW r \in Reqs, SessionValidated(r) PROVE IInv'
  <2>. DEFINE k == req[r].row.key
  <2>1. /\ req' = [req EXCEPT ![r] = Answered] /\ req[r].pc = "validating"
        /\ IF grant[k] > now THEN SaveSessionKey(k, grant[k]) ELSE UNCHANGED stored
        /\ UNCHANGED <<now, grant, revoked, reachable, jobs, shown, restarts>>
    BY <1>7 DEF SessionValidated
  <2>2. k \in Keys
    BY <2>1 DEF IInv, RowsBacked, ReqSound, Row
  <2>3. [key |-> k, expires |-> grant[k], of |-> k] \in Row
    BY <1>0, <2>2 DEF Row
  <2>4. Backed([key |-> k, expires |-> grant[k], of |-> k], grant, revoked)
    BY <1>0, <2>2, Bounds DEF Backed, Time
  <2>5. stored' \in Row \cup {NoRow} /\ Backed(stored', grant, revoked)
    BY <1>0, <2>1, <2>3, <2>4 DEF SaveSessionKey, IInv, RowsBacked
  <2>6. req' \in [Reqs -> Request] /\ \A s \in Reqs : ReqSound(req'[s], grant, revoked)
    BY <2>1, ReqChanges, RequestTypes, AnsweredSound
  <2>7. TypeOK'
    BY <1>0, <2>1, <2>5, <2>6 DEF TypeOK, Request
  <2>8. RowsBacked'
    BY <2>1, <2>5, <2>6 DEF IInv, RowsBacked
  <2>. QED  BY <2>7, <2>8 DEF IInv
<1>8. ASSUME NEW r \in Reqs, NEW kind \in Kinds, JobPosted(r, kind) PROVE IInv'
  <2>. DEFINE q == [pc |-> "body", kind |-> kind, row |-> stored]
  <2>1. /\ req' = [req EXCEPT ![r] = q] /\ stored # NoRow
        /\ UNCHANGED <<now, grant, revoked, stored, reachable, jobs, shown, restarts>>
    BY <1>8 DEF JobPosted
  <2>2. q \in Request /\ ReqSound(q, grant, revoked)
    BY <1>0, <2>1 DEF Request, ReqSound, IInv, RowsBacked
  <2>3. req' \in [Reqs -> Request] /\ \A s \in Reqs : ReqSound(req'[s], grant, revoked)
    BY <2>1, <2>2, ReqChanges
  <2>4. TypeOK'
    BY <1>0, <2>1, <2>3 DEF TypeOK, Request
  <2>5. RowsBacked'
    BY <2>1, <2>3 DEF IInv, RowsBacked
  <2>. QED  BY <2>4, <2>5 DEF IInv
<1>9. ASSUME NEW r \in Reqs, SubmitBody(r) PROVE IInv'
  <2>. DEFINE q == [req[r] EXCEPT !.pc = "probe"]
  <2>1. /\ req' = [req EXCEPT ![r] = q] /\ req[r].pc = "body"
        /\ UNCHANGED <<now, grant, revoked, stored, reachable, jobs, shown, restarts>>
    BY <1>9 DEF SubmitBody
  <2>2. q \in Request /\ ReqSound(q, grant, revoked)
    BY <1>0, <2>1 DEF Request, ReqSound, IInv, RowsBacked
  <2>3. req' \in [Reqs -> Request] /\ \A s \in Reqs : ReqSound(req'[s], grant, revoked)
    BY <2>1, <2>2, ReqChanges
  <2>4. TypeOK'
    BY <1>0, <2>1, <2>3 DEF TypeOK, Request
  <2>5. RowsBacked'
    BY <2>1, <2>3 DEF IInv, RowsBacked
  <2>. QED  BY <2>4, <2>5 DEF IInv
<1>10. ASSUME NEW r \in Reqs, NEW kind \in Kinds, req[r].pc \in {"body", "probe"},
              StartJob(kind, req[r].row), req' = [req EXCEPT ![r] = Answered],
              reachable' \in BOOLEAN, UNCHANGED <<now, grant, revoked, stored, restarts>>
       PROVE  IInv'
  <2>1. req[r].row \in Row /\ Backed(req[r].row, grant, revoked)
    BY <1>10 DEF IInv, RowsBacked, ReqSound
  <2>2. /\ jobs' \in Seq(Job) /\ DOMAIN jobs' = 1 .. Len(jobs) + 1 /\ Len(jobs') = Len(jobs) + 1
        /\ \A i \in DOMAIN jobs : jobs'[i] = jobs[i]
        /\ jobs'[Len(jobs) + 1] = NewJob(kind, req[r].row)
        /\ shown' = Len(jobs) + 1
    BY <1>0, <1>10, <2>1, OneJobMore
  <2>3. JobSound(NewJob(kind, req[r].row)) /\ NewJob(kind, req[r].row).row = req[r].row
    BY Bounds DEF NewJob, JobSound
  <2>4. DOMAIN jobs = 1 .. Len(jobs) /\ Len(jobs) \in Nat
    BY <1>0, JobsAreJobs
  <2>5. \A j \in DOMAIN jobs' : Backed(jobs'[j].row, grant, revoked) /\ JobSound(jobs'[j])
    BY <2>1, <2>2, <2>3, <2>4 DEF IInv, RowsBacked
  <2>6. req' \in [Reqs -> Request] /\ \A s \in Reqs : ReqSound(req'[s], grant, revoked)
    BY <1>10, ReqChanges, RequestTypes, AnsweredSound
  <2>7. TypeOK'
    BY <1>0, <1>10, <2>2, <2>4, <2>6 DEF TypeOK, Request
  <2>8. RowsBacked'
    BY <1>10, <2>5, <2>6 DEF IInv, RowsBacked
  <2>. QED  BY <2>7, <2>8 DEF IInv
<1>11. ASSUME NEW r \in Reqs, DataSetBody(r) PROVE IInv'
  BY <1>0, <1>10, <1>11 DEF DataSetBody, Kinds
<1>12. ASSUME NEW r \in Reqs, NEW ok \in BOOLEAN, Probed(r, ok) PROVE IInv'
  <2>1. CASE ok
    BY <1>10, <1>12, <2>1 DEF Probed, Kinds
  <2>2. CASE ~ ok
    <3>1. /\ req' = [req EXCEPT ![r] = Answered] /\ reachable' = ok
          /\ UNCHANGED <<now, grant, revoked, stored, jobs, shown, restarts>>
      BY <1>12, <2>2 DEF Probed
    <3>2. req' \in [Reqs -> Request] /\ \A s \in Reqs : ReqSound(req'[s], grant, revoked)
      BY <3>1, ReqChanges, RequestTypes, AnsweredSound
    <3>3. TypeOK'
      BY <1>0, <3>1, <3>2 DEF TypeOK, Request
    <3>4. RowsBacked'
      BY <3>1, <3>2 DEF IInv, RowsBacked
    <3>. QED  BY <3>3, <3>4 DEF IInv
  <2>. QED  BY <2>1, <2>2
\* the steps of a job leave the requests alone, and all but one of them the row
<1>13. ASSUME jobs' \in Seq(Job), shown' \in 0 .. Len(jobs'),
              (\A i \in DOMAIN jobs : Backed(jobs[i].row, grant, revoked) /\ JobSound(jobs[i]))',
              stored' \in Row \cup {NoRow}, Backed(stored', grant, revoked),
              UNCHANGED <<now, grant, revoked, req, reachable, restarts>>
       PROVE  IInv'
  <2>1. TypeOK'
    BY <1>0, <1>13 DEF TypeOK, Request
  <2>2. RowsBacked'
    BY <1>13 DEF IInv, RowsBacked
  <2>. QED  BY <2>1, <2>2 DEF IInv
<1>14. Backed(stored, grant, revoked)
  BY DEF IInv, RowsBacked
<1>15. ASSUME NEW j \in DOMAIN jobs,
              PresignFromCache(j) \/ AddSent(j) \/ CreatePosted(j) \/ JobFails(j)
       PROVE  IInv'
  <2>1. UNCHANGED <<now, grant, revoked, stored, req, reachable, shown, restarts>>
    BY <1>15 DEF PresignFromCache, AddSent, CreatePosted, JobFails
  <2>2. PICK job : JobAfter(j, job)
    BY <1>15, PresignFromCacheAfter, AddSentAfter, CreatePostedAfter, JobFailsAfter
  <2>3. /\ jobs' \in Seq(Job) /\ shown' \in 0 .. Len(jobs')
        /\ (\A i \in DOMAIN jobs : Backed(jobs[i].row, grant, revoked) /\ JobSound(jobs[i]))'
    BY <2>1, <2>2, JobAfterKeeps
  <2>. QED  BY <1>0, <1>13, <1>14, <2>1, <2>3
<1>16. ASSUME NEW j \in DOMAIN jobs, CreateAnswered(j) PROVE IInv'
  <2>1. UNCHANGED <<now, grant, revoked, stored, req, reachable, restarts>>
    BY <1>16 DEF CreateAnswered
  <2>. QED  BY <1>0, <1>13, <1>14, <1>16, <2>1, CreateAnsweredAfter
<1>17. ASSUME NEW j \in DOMAIN jobs, PresignReread(j) PROVE IInv'
  <2>. DEFINE k == jobs[j].row.key
  <2>1. UNCHANGED <<now, grant, revoked, req, reachable, shown, restarts>>
    BY <1>17 DEF PresignReread
  <2>2. PICK job : JobAfter(j, job)
    BY <1>17, PresignRereadAfter
  <2>3. k \in Keys /\ UpdateSessionExpiry(k, grant[k])
    BY <1>17, PresignRereadAfter
  <2>. HIDE DEF k
  <2>4. grant[k] \in Time
    BY <1>0, <2>3
  <2>7. stored' \in Row \cup {NoRow} /\ Backed(stored', grant, revoked)
    <3>1. CASE stored = NoRow
      BY <2>3, <3>1 DEF UpdateSessionExpiry, Backed
    <3>2. CASE stored # NoRow
      <4>1. stored \in Row /\ stored' = [stored EXCEPT !.expires = grant[k], !.of = k]
        BY <1>0, <2>3, <3>2 DEF UpdateSessionExpiry
      <4>2. stored' \in Row /\ stored'.expires = grant[k] /\ stored'.of = k
        BY <2>3, <2>4, <4>1 DEF Row
      <4>. QED  BY <2>4, <4>2, Bounds DEF Backed, Time
    <3>. QED  BY <3>1, <3>2
  <2>8. /\ jobs' \in Seq(Job) /\ shown' \in 0 .. Len(jobs')
        /\ (\A i \in DOMAIN jobs : Backed(jobs[i].row, grant, revoked) /\ JobSound(jobs[i]))'
    BY <2>1, <2>2, JobAfterKeeps
  <2>. QED  BY <1>13, <2>1, <2>7, <2>8
<1>18. CASE UNCHANGED vars
  BY <1>18 DEF IInv, TypeOK, RowsBacked, vars
<1>. QED
  BY <1>1, <1>2, <1>3, <1>4, <1>5, <1>6, <1>7, <1>8, <1>9, <1>11, <1>12, <1>15, <1>16,
     <1>17, <1>18 DEF Next, RequestStep, JobStep

\* Every variable of the daemon keeps its type, whatever requests, jobs, grants and
\* restarts there are.
THEOREM TypeCorrect == Spec => []TypeOK
<1>1. IInv => TypeOK
  BY DEF IInv
<1>. QED  BY InitInv, StepInv, <1>1, PTL DEF Spec

(***************************************************************************)
(* What is done with the keys.                                             *)
(***************************************************************************)
LEMMA AddsStep ==
    ASSUME IInv, AddsInsideMarginAreAuthorized, [Next]_vars
    PROVE  AddsInsideMarginAreAuthorized'
<1>0. now \in Time /\ grant \in [Keys -> Time] /\ jobs \in Seq(Job)
  BY DEF IInv, TypeOK
<1>1. CASE UNCHANGED lastAdd /\ revoked \subseteq revoked'
  BY <1>1 DEF AddsInsideMarginAreAuthorized
<1>2. ASSUME NEW j \in DOMAIN jobs, AddSent(j) PROVE AddsInsideMarginAreAuthorized'
  <2>. DEFINE job == jobs[j]
  <2>1. job \in Job /\ job.phase = "signed" /\ job.row \in Row /\ job.row.key \in Keys
    BY <1>0, <1>2, JobsAreJobs DEF AddSent, AtPhase, Job, Row
  <2>2. /\ job.row.expires > job.signed + Margin
        /\ Backed(job.row, grant, revoked)
    BY <2>1 DEF IInv, RowsBacked, JobSound
  <2>3. /\ lastAdd' = IF grant[job.row.key] > now THEN NoAdd
                      ELSE [row |-> job.row, signed |-> job.signed, at |-> now]
        /\ revoked' = revoked
    BY <1>2 DEF AddSent
  <2>4. CASE grant[job.row.key] > now
    BY <2>3, <2>4 DEF AddsInsideMarginAreAuthorized
  <2>5. CASE ~ (grant[job.row.key] > now)
    <3>1. /\ job.row.expires \in Nat /\ job.signed \in Nat /\ now \in Nat
          /\ grant[job.row.key] \in Nat /\ job.row # NoRow
      <4>1. Time \subseteq Nat
        BY Bounds DEF Time
      <4>2. job.row.expires \in Time
        BY <2>1 DEF Row
      <4>3. job.signed \in Time
        BY <2>1 DEF Job
      <4>4. grant[job.row.key] \in Time
        BY <1>0, <2>1
      <4>5. job.row # NoRow
        BY <2>1, KeysAssumption DEF NoRow
      <4>. QED  BY <1>0, <4>1, <4>2, <4>3, <4>4, <4>5
    <3>2. \/ job.row.of # job.row.key
          \/ job.row.key \in revoked
          \/ now > job.signed + Margin
      BY <2>2, <2>5, <3>1, Bounds DEF Backed
    <3>3. /\ lastAdd'.row = job.row /\ lastAdd'.signed = job.signed /\ lastAdd'.at = now
      BY <2>3, <2>5
    <3>. QED  BY <2>3, <3>2, <3>3 DEF AddsInsideMarginAreAuthorized
  <2>. QED  BY <2>4, <2>5
<1>3. [Next]_vars => (UNCHANGED lastAdd /\ revoked \subseteq revoked')
                     \/ \E j \in DOMAIN jobs : AddSent(j)
  BY DEF Next, vars, RequestStep, JobStep, Tick, Extend, Revoke, Restart, SessionDeleted,
     SessionPosted, JobPosted, SessionValidated, DataSetBody, SubmitBody, Probed,
     PresignFromCache, PresignReread, CreatePosted, CreateAnswered, JobFails
<1>. QED  BY <1>1, <1>2, <1>3

\* An add that is sent within the margin of its presign finds its grant alive, for any
\* keys, requests, margin and run length, over extensions, restarts and jobs that overlap
\* (session-submit.ts:42): the exceptions are a revoked key and an expiry that was read
\* for another key.
THEOREM AddsAuthorized == Spec => []AddsInsideMarginAreAuthorized
<1>1. Init => AddsInsideMarginAreAuthorized
  BY DEF Init, AddsInsideMarginAreAuthorized
<1>. QED  BY InitInv, StepInv, AddsStep, <1>1, PTL DEF Spec

LEMMA KeysStep ==
    ASSUME IInv, [Next]_vars, stored'.key \notin {stored.key, NoKey}
    PROVE  \E r \in Reqs : /\ req[r].pc = "validating" /\ req'[r].pc = "done"
                           /\ req[r].row.key = stored'.key
                           /\ grant[stored'.key] > now
<1>0. stored \in Row \cup {NoRow} /\ req \in [Reqs -> Request]
  BY DEF IInv, TypeOK, Request
<1>1. stored' # stored /\ stored' # NoRow
  BY DEF NoRow
<1>2. \/ \E r \in Reqs : SessionValidated(r)
      \/ \E j \in DOMAIN jobs : PresignReread(j)
  BY <1>1 DEF Next, vars, RequestStep, JobStep, Tick, Extend, Revoke, Restart,
     SessionDeleted, SessionPosted, JobPosted, DataSetBody, SubmitBody, Probed,
     PresignFromCache, AddSent, CreatePosted, CreateAnswered, JobFails
<1>3. ASSUME NEW j \in DOMAIN jobs, PresignReread(j) PROVE FALSE
  <2>1. PICK k, e : UpdateSessionExpiry(k, e)
    BY <1>3 DEF PresignReread
  <2>2. stored # NoRow /\ stored' = [stored EXCEPT !.expires = e, !.of = k]
    BY <1>1, <2>1 DEF UpdateSessionExpiry
  <2>3. stored'.key = stored.key
    BY <1>0, <2>2 DEF Row
  <2>. QED  BY <2>3
<1>4. PICK r \in Reqs : SessionValidated(r)
  BY <1>2, <1>3
<1>5. /\ req[r].pc = "validating" /\ grant[req[r].row.key] > now
      /\ stored' = [key |-> req[r].row.key, expires |-> grant[req[r].row.key],
                    of |-> req[r].row.key]
      /\ req' = [req EXCEPT ![r] = Answered]
  BY <1>1, <1>4 DEF SessionValidated, SaveSessionKey
<1>6. req'[r].pc = "done" /\ stored'.key = req[r].row.key
  BY <1>0, <1>5 DEF Answered, Idle
<1>. QED  BY <1>5, <1>6

\* A key only enters the row from a POST for it whose grant is alive then; no job writes
\* a deleted or replaced key back, whatever ran or was re-read meanwhile (db.ts:1331).
THEOREM KeysEnter == Spec => KeysEnterByValidatedPost
<1>1. IInv /\ [Next]_vars =>
        [stored'.key \notin {stored.key, NoKey} =>
           \E r \in Reqs : /\ req[r].pc = "validating" /\ req'[r].pc = "done"
                           /\ req[r].row.key = stored'.key
                           /\ grant[stored'.key] > now]_vars
  BY KeysStep
<1>. QED  BY InitInv, StepInv, <1>1, PTL DEF Spec, KeysEnterByValidatedPost
================================================================================
