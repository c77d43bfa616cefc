-------------------------- MODULE BrowserSubmitProofs --------------------------
(* Theorems about BrowserSubmit, for every value of its constants. *)
EXTENDS BrowserSubmit, FiniteSetTheorems, SequenceTheorems, TLAPS

USE CopiesAssumption, BoundAssumption

(***************************************************************************)
(* Copies and records.                                                     *)
(***************************************************************************)
Record == [Copies -> Copy]

LEMMA CopiesFacts ==
    /\ Cardinality(Copies) \in Nat /\ Primary \in Copies
    /\ {NumPieces, ChunkSize, MaxTx} \subseteq Nat \ {0}
    /\ Copies \subseteq TxIds
    /\ \A r \in Record : r # NoRecord
<1>1. Cardinality(Copies) \in Nat
  BY FS_CardinalityType
<1>2. Primary \in Copies /\ Copies \subseteq TxIds
  BY <1>1 DEF Primary, TxIds
<1>3. ASSUME NEW r \in Record
      PROVE  r # NoRecord
  <2>1. DOMAIN r = Copies
    BY DEF Record
  <2>2. DOMAIN NoRecord = {}
    BY DEF NoRecord
  <2>. QED  BY <2>1, <2>2
<1>. QED  BY <1>1, <1>2, <1>3

(***************************************************************************)
(* Planned chunks.                                                         *)
(***************************************************************************)
LEMMA Slices ==
    ASSUME NEW k \in Nat, NEW n \in Nat, k < n, NEW size \in Nat \ {0}
    PROVE  k \div size + 1 \in 1 .. (n + size - 1) \div size
<1>. DEFINE q == k \div size
            m == (n + size - 1) \div size
<1>1. q \in Nat /\ k < size * q + size /\ size * q <= k
  OBVIOUS
<1>2. m \in Nat /\ n + size - 1 < size * m + size
  OBVIOUS
<1>. HIDE DEF q, m
<1>3. size * q <= n - 1
  BY <1>1
<1>4. m <= q => size * m <= size * q
  BY <1>1, <1>2
<1>5. size * m \in Nat /\ size * q \in Nat
  BY <1>1, <1>2
<1>6. ~ (m <= q)
  BY <1>1, <1>2, <1>3, <1>4, <1>5
<1>7. q + 1 \in 1 .. m
  BY <1>1, <1>2, <1>6
<1>. QED  BY <1>7 DEF q, m

\* A piece of a copy is in one chunk or deferred.
Conserved(copy) ==
    /\ PiecesIn(copy) \cup copy.deferred = Pieces
    /\ PiecesIn(copy) \cap copy.deferred = {}
    /\ \A i, j \in DOMAIN copy.chunks :
          i # j => copy.chunks[i].pieces \cap copy.chunks[j].pieces = {}

Unsent(chunk) == chunk.tx = NoTx /\ ~ chunk.done

LEMMA ChunkFacts ==
    ASSUME NEW S \in SUBSET Pieces
    PROVE  /\ NewChunk(S) \in Chunk
           /\ NewChunk(S).pieces = S /\ Unsent(NewChunk(S))
BY DEF NewChunk, Chunk, Unsent, NoTx, NoSet, Sets

\* Transactions are numbered within the bound.
LEMMA TxsAreNumbered ==
    ASSUME TypeOK
    PROVE  DOMAIN txs \subseteq TxIds
<1>1. txs \in Seq(Tx) /\ Len(txs) <= MaxTx
  BY DEF TypeOK
<1>2. Len(txs) \in Nat /\ DOMAIN txs = 1 .. Len(txs)
  BY <1>1, LenProperties
<1>3. MaxTx \in Nat
  BY CopiesFacts
<1>4. \A m \in Nat : m <= MaxTx => 1 .. m \subseteq 1 .. MaxTx
  BY <1>3
<1>. QED  BY <1>1, <1>2, <1>4 DEF TxIds

LEMMA ChunksPartition ==
    ASSUME NEW S \in SUBSET Pieces
    PROVE  /\ ChunksOf(S) \in Seq(Chunk)
           /\ \A i \in DOMAIN ChunksOf(S) :
                 ChunksOf(S)[i].pieces \subseteq S /\ Unsent(ChunksOf(S)[i])
           /\ \A p \in S : \E i \in DOMAIN ChunksOf(S) : p \in ChunksOf(S)[i].pieces
           /\ \A i, j \in DOMAIN ChunksOf(S) :
                 i # j => ChunksOf(S)[i].pieces \cap ChunksOf(S)[j].pieces = {}
<1>. DEFINE n == Cardinality(S)
            count == (n + ChunkSize - 1) \div ChunkSize
            place(p) == Cardinality({q \in S : q < p})
            slice(i) == {p \in S : place(p) \div ChunkSize = i - 1}
<1>1. IsFiniteSet(S) /\ n \in Nat
  <2>1. IsFiniteSet(Pieces)
    BY CopiesFacts, FS_Interval DEF Pieces
  <2>. QED  BY <2>1, FS_Subset, FS_CardinalityType
<1>2. count \in Nat
  <2>1. \A a \in Nat, b \in Nat \ {0} : (a + b - 1) \div b \in Nat
    OBVIOUS
  <2>2. ChunkSize \in Nat \ {0}
    BY CopiesFacts
  <2>. HIDE DEF n
  <2>. QED  BY <1>1, <2>1, <2>2
<1>3. ChunksOf(S) = [i \in 1 .. count |-> NewChunk(slice(i))]
  BY DEF ChunksOf
<1>4. ASSUME NEW p \in S
      PROVE  place(p) \in Nat /\ place(p) < n
  <2>. DEFINE below == {q \in S : q < p}
  <2>1. p \in Nat /\ below \subseteq S /\ p \notin below
    BY DEF Pieces
  <2>2. IsFiniteSet(below) /\ Cardinality(below) <= n /\ Cardinality(below) # n
    BY <1>1, <2>1, FS_Subset
  <2>3. Cardinality(below) \in Nat
    BY <2>2, FS_CardinalityType
  <2>. QED  BY <1>1, <2>2, <2>3
<1>. HIDE DEF place, count
<1>5. \A i \in 1 .. count : /\ ChunksOf(S)[i] = NewChunk(slice(i)) /\ slice(i) \subseteq S
                            /\ slice(i) \in SUBSET Pieces
  BY <1>3
<1>6. ChunksOf(S) \in Seq(Chunk) /\ DOMAIN ChunksOf(S) = 1 .. count
  <2>1. \A i \in 1 .. count : NewChunk(slice(i)) \in Chunk
    BY <1>5, ChunkFacts
  <2>2. ChunksOf(S) \in [1 .. count -> Chunk]
    BY <1>3, <1>5, <2>1
  <2>. QED  BY <1>2, <2>2
<1>7. \A i \in 1 .. count : ChunksOf(S)[i].pieces = slice(i) /\ Unsent(ChunksOf(S)[i])
  BY <1>5, ChunkFacts
<1>8. ASSUME NEW p \in S
      PROVE  \E i \in 1 .. count : p \in slice(i)
  <2>1. place(p) \div ChunkSize + 1 \in 1 .. count
    BY <1>1, <1>4, CopiesFacts, Slices DEF count
  <2>2. place(p) \div ChunkSize \in Int
    BY <1>4, CopiesFacts
  <2>. QED  BY <2>1, <2>2
<1>9. ASSUME NEW i \in 1 .. count, NEW j \in 1 .. count, i # j
      PROVE  slice(i) \cap slice(j) = {}
  BY <1>9
<1>. HIDE DEF slice
<1>. QED  BY <1>5, <1>6, <1>7, <1>8, <1>9

(***************************************************************************)
(* The inductive invariant.                                                *)
(***************************************************************************)
\* A chunk that names an add was added by it; one that is done is on chain.
Backed(c, chunk, chain, adds) ==
    /\ chunk.done => chunk.pieces \subseteq chain
    /\ chunk.tx # NoTx => /\ chunk.tx \in DOMAIN adds
                          /\ adds[chunk.tx].copy = c
                          /\ adds[chunk.tx].pieces = chunk.pieces

SoundCopy(c, copy, chain, adds) ==
    /\ copy \in Copy
    /\ Conserved(copy)
    /\ \A i \in DOMAIN copy.chunks : Backed(c, copy.chunks[i], chain, adds)

SoundRecord(r, chain, adds) ==
    /\ r \in Record
    /\ \A c \in Copies : SoundCopy(c, r[c], chain[c], adds)

Chain == [c \in Copies |-> OnChain(c)]

\* Every record there is: the stored one, a run's, the one a verify works on.
RecordsInv == \A r \in {disk, mem, looked} \ {NoRecord} : SoundRecord(r, Chain, txs)

Driven == {"bind", "presign", "pull", "commit", "posted", "confirm"}

\* A copy that is driven stands at a chunk, which has a hash only once it is confirmed.
AtChunk(c) ==
    pc[c] \in Driven => /\ mem # NoRecord
                        /\ cursor[c] \in DOMAIN mem[c].chunks
                        /\ pc[c] # "confirm" => Unsent(At(c))
                        /\ pc[c] = "confirm" => At(c).tx # NoTx

PostedInv(c) ==
    pc[c] = "posted" => /\ posted[c] \in DOMAIN txs
                        /\ txs[posted[c]].copy = c
                        /\ txs[posted[c]].pieces = At(c).pieces

RunInv ==
    /\ stage = "off" <=> mem = NoRecord
    /\ unsaved => mem # NoRecord
    /\ \A c \in Copies : AtChunk(c) /\ PostedInv(c)

IInv == TypeOK /\ RecordsInv /\ RunInv

(***************************************************************************)
(* What is needed on top of it when no two actions of the operator overlap. *)
(***************************************************************************)
\* No later add of its copy has a piece of t.
Newest(t, adds) ==
    \A u \in DOMAIN adds :
        t < u /\ adds[t].copy = adds[u].copy => adds[t].pieces \cap adds[u].pieces = {}

CopyHashes(copy) == {copy.chunks[i].tx : i \in DOMAIN copy.chunks} \ {NoTx}

\* What is recorded is named in the stored record, and in the run's, at its copy.
HashInv ==
    /\ recorded \subseteq DOMAIN txs
    /\ disk = NoRecord => recorded = {}
    /\ disk # NoRecord => HashesIn(disk) \subseteq recorded
    /\ \A r \in {disk, mem} \ {NoRecord} : \A t \in recorded : t \in CopyHashes(r[txs[t].copy])

NewestInv ==
    /\ \A t \in recorded : Newest(t, txs)
    /\ mem # NoRecord => \A t \in HashesIn(mem) : Newest(t, txs)
    /\ \A c \in Copies : pc[c] = "posted" =>
          \A u \in DOMAIN txs : txs[u].copy = c => u <= posted[c]

(***************************************************************************)
(* Edits of a copy keep it sound.                                          *)
(***************************************************************************)
LEMMA CopyFacts ==
    ASSUME NEW copy \in Copy
    PROVE  /\ Len(copy.chunks) \in Nat /\ DOMAIN copy.chunks = 1 .. Len(copy.chunks)
           /\ \A i \in DOMAIN copy.chunks : copy.chunks[i] \in Chunk
           /\ copy.chunks \in Seq(Chunk) /\ copy.set \in Sets /\ copy.deferred \subseteq Pieces
           /\ \A p : p \in PiecesIn(copy) <=>
                 \E i \in DOMAIN copy.chunks : p \in copy.chunks[i].pieces
<1>1. copy.chunks \in Seq(Chunk) /\ copy.set \in Sets /\ copy.deferred \subseteq Pieces
  BY DEF Copy
<1>2. /\ Len(copy.chunks) \in Nat /\ DOMAIN copy.chunks = 1 .. Len(copy.chunks)
      /\ \A i \in 1 .. Len(copy.chunks) : copy.chunks[i] \in Chunk
  BY <1>1, LenProperties
<1>. QED  BY <1>1, <1>2 DEF PiecesIn

LEMMA ReplacedChunk ==
    ASSUME NEW copy \in Copy, NEW i \in DOMAIN copy.chunks, NEW chunk \in Chunk
    PROVE  LET new == [copy EXCEPT !.chunks[i] = chunk]
           IN  /\ new \in Copy
               /\ new.set = copy.set /\ new.deferred = copy.deferred
               /\ DOMAIN new.chunks = DOMAIN copy.chunks
               /\ new.chunks[i] = chunk
               /\ \A j \in DOMAIN copy.chunks : j # i => new.chunks[j] = copy.chunks[j]
<1>. DEFINE new == [copy EXCEPT !.chunks[i] = chunk]
<1>1. /\ copy.chunks \in Seq(Chunk) /\ DOMAIN copy.chunks = 1 .. Len(copy.chunks)
      /\ copy.set \in Sets /\ copy.deferred \in SUBSET Pieces
  BY CopyFacts
<1>2. /\ new.chunks = [copy.chunks EXCEPT ![i] = chunk]
      /\ new.set = copy.set /\ new.deferred = copy.deferred
  BY DEF Copy
<1>3. [copy.chunks EXCEPT ![i] = chunk] \in Seq(Chunk)
  BY <1>1, ExceptSeq
<1>4. new \in Copy
  BY <1>1, <1>2, <1>3 DEF Copy
<1>. QED  BY <1>1, <1>2, <1>4

\* A chunk is replaced by one with the same pieces, and the data set may be pinned.
LEMMA SoundReplaced ==
    ASSUME NEW c, NEW copy, NEW chain, NEW adds, SoundCopy(c, copy, chain, adds),
           NEW i \in DOMAIN copy.chunks, NEW chunk \in Chunk,
           chunk.pieces = copy.chunks[i].pieces, Backed(c, chunk, chain, adds),
           NEW set \in Sets
    PROVE  /\ SoundCopy(c, [copy EXCEPT !.chunks[i] = chunk], chain, adds)
           /\ SoundCopy(c, [[copy EXCEPT !.chunks[i] = chunk] EXCEPT !.set = set], chain, adds)
<1>. DEFINE new == [copy EXCEPT !.chunks[i] = chunk]
            pinned == [new EXCEPT !.set = set]
<1>1. /\ new \in Copy /\ new.deferred = copy.deferred
      /\ DOMAIN new.chunks = DOMAIN copy.chunks /\ new.chunks[i] = chunk
      /\ \A j \in DOMAIN copy.chunks : j # i => new.chunks[j] = copy.chunks[j]
  BY ReplacedChunk DEF SoundCopy
<1>2. \A j \in DOMAIN copy.chunks : new.chunks[j].pieces = copy.chunks[j].pieces
  BY <1>1
<1>. HIDE DEF new
<1>3. PiecesIn(new) = PiecesIn(copy)
  BY <1>1, <1>2 DEF PiecesIn
<1>4. Conserved(new)
  BY <1>1, <1>2, <1>3 DEF Conserved, SoundCopy
<1>5. \A j \in DOMAIN new.chunks : Backed(c, new.chunks[j], chain, adds)
  BY <1>1 DEF SoundCopy
<1>6. /\ pinned \in Copy /\ pinned.chunks = new.chunks /\ pinned.deferred = new.deferred
  BY <1>1 DEF Copy
<1>7. Conserved(pinned)
  BY <1>4, <1>6 DEF Conserved, PiecesIn
<1>. QED  BY <1>1, <1>4, <1>5, <1>6, <1>7 DEF SoundCopy, new

LEMMA SoundPinned ==
    ASSUME NEW c, NEW copy, NEW chain, NEW adds, SoundCopy(c, copy, chain, adds),
           NEW set \in Sets
    PROVE  SoundCopy(c, [copy EXCEPT !.set = set], chain, adds)
<1>. DEFINE pinned == [copy EXCEPT !.set = set]
<1>1. pinned \in Copy /\ pinned.chunks = copy.chunks /\ pinned.deferred = copy.deferred
  BY DEF Copy, SoundCopy
<1>. QED  BY <1>1 DEF SoundCopy, Conserved, PiecesIn

\* F is carved off a chunk and deferred.
LEMMA SoundCarved ==
    ASSUME NEW c, NEW copy, NEW chain, NEW adds, SoundCopy(c, copy, chain, adds),
           NEW i \in DOMAIN copy.chunks, NEW F \in SUBSET copy.chunks[i].pieces,
           NEW chunk \in Chunk, chunk.pieces = copy.chunks[i].pieces \ F,
           Backed(c, chunk, chain, adds)
    PROVE  SoundCopy(c, [[copy EXCEPT !.chunks[i] = chunk] EXCEPT !.deferred = @ \cup F], chain, adds)
<1>. DEFINE new == [copy EXCEPT !.chunks[i] = chunk]
            carved == [new EXCEPT !.deferred = @ \cup F]
<1>0. /\ copy \in Copy /\ copy.deferred \subseteq Pieces /\ copy.chunks[i] \in Chunk
      /\ F \subseteq Pieces /\ F \subseteq PiecesIn(copy)
  BY CopyFacts DEF SoundCopy, Chunk
<1>1. /\ new \in Copy /\ new.deferred = copy.deferred
      /\ DOMAIN new.chunks = DOMAIN copy.chunks /\ new.chunks[i] = chunk
      /\ \A j \in DOMAIN copy.chunks : j # i => new.chunks[j] = copy.chunks[j]
  BY <1>0, ReplacedChunk
<1>. HIDE DEF new
<1>2. /\ carved \in Copy /\ carved.chunks = new.chunks
      /\ carved.deferred = copy.deferred \cup F
  BY <1>0, <1>1 DEF Copy
<1>. HIDE DEF carved
<1>3. \A j \in DOMAIN copy.chunks : /\ carved.chunks[j].pieces \subseteq copy.chunks[j].pieces
                                    /\ carved.chunks[j].pieces \cap F = {}
  BY <1>1, <1>2 DEF SoundCopy, Conserved
<1>4. \A p \in PiecesIn(copy) : p \in PiecesIn(carved) \/ p \in F
  BY <1>0, <1>1, <1>2, CopyFacts
<1>5. \A p \in PiecesIn(carved) : p \in PiecesIn(copy) /\ p \notin F
  BY <1>0, <1>1, <1>2, <1>3, CopyFacts
<1>6. Conserved(carved)
  BY <1>0, <1>1, <1>2, <1>3, <1>4, <1>5 DEF Conserved, SoundCopy
<1>7. \A j \in DOMAIN carved.chunks : Backed(c, carved.chunks[j], chain, adds)
  BY <1>1, <1>2 DEF SoundCopy
<1>. QED  BY <1>2, <1>6, <1>7 DEF SoundCopy, carved, new

\* Deferred pieces are put into new chunks at the end.
LEMMA SoundExtended ==
    ASSUME NEW c, NEW copy, NEW chain, NEW adds, SoundCopy(c, copy, chain, adds),
           NEW more \in Seq(Chunk), NEW new \in Copy,
           new.chunks = copy.chunks \o more,
           \A i \in DOMAIN more : Backed(c, more[i], chain, adds),
           \A i, j \in DOMAIN more : i # j => more[i].pieces \cap more[j].pieces = {},
           \A i \in DOMAIN more : more[i].pieces \subseteq copy.deferred,
           new.deferred = copy.deferred \ UNION {more[i].pieces : i \in DOMAIN more}
    PROVE  SoundCopy(c, new, chain, adds)
<1>. DEFINE n == Len(copy.chunks)
            m == Len(more)
<1>1. /\ n \in Nat /\ DOMAIN copy.chunks = 1 .. n /\ copy.chunks \in Seq(Chunk)
      /\ copy.deferred \subseteq Pieces
  BY CopyFacts DEF SoundCopy
<1>2. m \in Nat /\ DOMAIN more = 1 .. m
  BY LenProperties
<1>3. /\ DOMAIN new.chunks = 1 .. n + m
      /\ \A i \in 1 .. n : new.chunks[i] = copy.chunks[i]
      /\ \A i \in n + 1 .. n + m : i - n \in 1 .. m /\ new.chunks[i] = more[i - n]
  <2>1. /\ Len(new.chunks) = n + m
        /\ \A i \in 1 .. n + m :
              new.chunks[i] = IF i <= n THEN copy.chunks[i] ELSE more[i - n]
    BY <1>1, ConcatProperties
  <2>. QED  BY <1>1, <1>2, <2>1, CopyFacts
<1>. HIDE DEF n, m
<1>4. \A i \in 1 .. m : /\ n + i \in n + 1 .. n + m /\ n + i \in 1 .. n + m
                        /\ new.chunks[n + i] = more[i]
  <2>1. \A i \in 1 .. m : n + i \in n + 1 .. n + m /\ n + i \in 1 .. n + m /\ (n + i) - n = i
    BY <1>1, <1>2
  <2>. QED  BY <1>3, <2>1
<1>5. \A i \in 1 .. n + m : i \in 1 .. n \/ i \in n + 1 .. n + m
  BY <1>1, <1>2
<1>5a. 1 .. n \subseteq 1 .. n + m
  BY <1>1, <1>2
<1>6. ASSUME NEW i \in 1 .. n + m, NEW j \in 1 .. n + m, i # j
      PROVE  new.chunks[i].pieces \cap new.chunks[j].pieces = {}
  <2>1. CASE i \in 1 .. n /\ j \in 1 .. n
    BY <1>1, <1>3, <1>6, <2>1 DEF SoundCopy, Conserved
  <2>2. CASE i \in n + 1 .. n + m /\ j \in n + 1 .. n + m
    <3>1. i - n # j - n /\ i - n \in DOMAIN more /\ j - n \in DOMAIN more
      BY <1>1, <1>2, <1>3, <1>6, <2>2
    <3>2. more[i - n].pieces \cap more[j - n].pieces = {}
      BY <3>1
    <3>. QED  BY <1>3, <2>2, <3>2
  <2>3. \A k \in 1 .. n : copy.chunks[k].pieces \cap copy.deferred = {}
    BY <1>1 DEF SoundCopy, Conserved, PiecesIn
  <2>4. CASE i \in 1 .. n /\ j \in n + 1 .. n + m
    BY <1>2, <1>3, <2>3, <2>4
  <2>5. CASE i \in n + 1 .. n + m /\ j \in 1 .. n
    BY <1>2, <1>3, <2>3, <2>5
  <2>. QED  BY <1>5, <2>1, <2>2, <2>4, <2>5
<1>7. \A p : p \in PiecesIn(new) <=>
           \/ p \in PiecesIn(copy)
           \/ \E i \in DOMAIN more : p \in more[i].pieces
  <2>1. \A p : p \in PiecesIn(new) <=> \E i \in 1 .. n + m : p \in new.chunks[i].pieces
    BY <1>3, CopyFacts
  <2>2. \A p : p \in PiecesIn(copy) <=> \E i \in 1 .. n : p \in copy.chunks[i].pieces
    BY <1>1, CopyFacts DEF SoundCopy
  <2>3. ASSUME NEW p, NEW i \in 1 .. n + m, p \in new.chunks[i].pieces
        PROVE  p \in PiecesIn(copy) \/ \E j \in DOMAIN more : p \in more[j].pieces
    <3>1. CASE i \in 1 .. n
      BY <1>3, <2>2, <2>3, <3>1
    <3>2. CASE i \in n + 1 .. n + m
      BY <1>2, <1>3, <2>3, <3>2
    <3>. QED  BY <1>5, <3>1, <3>2
  <2>4. ASSUME NEW p, NEW i \in 1 .. n, p \in copy.chunks[i].pieces
        PROVE  p \in PiecesIn(new)
    BY <1>3, <1>5a, <2>1, <2>4
  <2>5. ASSUME NEW p, NEW j \in DOMAIN more, p \in more[j].pieces
        PROVE  p \in PiecesIn(new)
    BY <1>2, <1>4, <2>1, <2>5
  <2>. QED  BY <2>1, <2>2, <2>3, <2>4, <2>5
<1>8. Conserved(new)
  <2>1. PiecesIn(copy) \cup copy.deferred = Pieces /\ PiecesIn(copy) \cap copy.deferred = {}
    BY DEF SoundCopy, Conserved
  <2>2. \A p : p \in new.deferred <=>
           p \in copy.deferred /\ ~ \E i \in DOMAIN more : p \in more[i].pieces
    OBVIOUS
  <2>3. \A p : (\E i \in DOMAIN more : p \in more[i].pieces) => p \in copy.deferred
    OBVIOUS
  <2>4. PiecesIn(new) \cup new.deferred = Pieces /\ PiecesIn(new) \cap new.deferred = {}
    BY <1>7, <2>1, <2>2, <2>3
  <2>. QED  BY <1>3, <1>6, <2>4 DEF Conserved
<1>9. \A i \in 1 .. n + m : Backed(c, new.chunks[i], chain, adds)
  BY <1>1, <1>2, <1>3, <1>5 DEF SoundCopy
<1>. QED  BY <1>3, <1>8, <1>9 DEF SoundCopy

\* An unsent chunk claims nothing.
LEMMA UnsentBacked ==
    ASSUME NEW c, NEW chunk, NEW chain, NEW adds, Unsent(chunk)
    PROVE  Backed(c, chunk, chain, adds)
BY DEF Unsent, Backed

LEMMA SoundFresh ==
    ASSUME NEW c, NEW set \in Sets, NEW chain, NEW adds
    PROVE  SoundCopy(c, FreshCopy(set), chain, adds)
<1>. DEFINE new == FreshCopy(set)
            plan == ChunksOf(Pieces)
<1>1. /\ plan \in Seq(Chunk)
      /\ \A i \in DOMAIN plan : plan[i].pieces \subseteq Pieces /\ Unsent(plan[i])
      /\ \A p \in Pieces : \E i \in DOMAIN plan : p \in plan[i].pieces
      /\ \A i, j \in DOMAIN plan : i # j => plan[i].pieces \cap plan[j].pieces = {}
  BY ChunksPartition
<1>. HIDE DEF plan
<1>2. new = [chunks |-> plan, set |-> set, deferred |-> {}]
  BY DEF FreshCopy, plan
<1>3. new \in Copy /\ new.chunks = plan /\ new.deferred = {}
  BY <1>1, <1>2 DEF Copy
<1>. HIDE DEF new
<1>4. PiecesIn(new) = Pieces
  BY <1>1, <1>3 DEF PiecesIn
<1>. QED  BY <1>1, <1>3, <1>4, UnsentBacked DEF SoundCopy, Conserved, new

LEMMA SoundRequeued ==
    ASSUME NEW c, NEW copy, NEW chain, NEW adds, SoundCopy(c, copy, chain, adds)
    PROVE  SoundCopy(c, Requeued(copy), chain, adds)
<1>. DEFINE new == Requeued(copy)
            more == ChunksOf(copy.deferred)
<1>1. copy \in Copy /\ copy.deferred \in SUBSET Pieces /\ copy.chunks \in Seq(Chunk)
  BY CopyFacts DEF SoundCopy
<1>2. /\ more \in Seq(Chunk)
      /\ \A i \in DOMAIN more : more[i].pieces \subseteq copy.deferred /\ Unsent(more[i])
      /\ \A p \in copy.deferred : \E i \in DOMAIN more : p \in more[i].pieces
      /\ \A i, j \in DOMAIN more : i # j => more[i].pieces \cap more[j].pieces = {}
  BY <1>1, ChunksPartition
<1>. HIDE DEF more
<1>3. copy.chunks \o more \in Seq(Chunk)
  BY <1>1, <1>2, ConcatProperties
<1>4. new = [copy EXCEPT !.chunks = copy.chunks \o more, !.deferred = {}]
  BY DEF Requeued, more
<1>5. new \in Copy /\ new.chunks = copy.chunks \o more /\ new.deferred = {}
  BY <1>1, <1>3, <1>4 DEF Copy
<1>. HIDE DEF new
<1>6. new.deferred = copy.deferred \ UNION {more[i].pieces : i \in DOMAIN more}
  BY <1>2, <1>5
<1>7. SoundCopy(c, new, chain, adds)
  BY <1>2, <1>5, <1>6, UnsentBacked, SoundExtended
<1>. QED  BY <1>7 DEF new

\* Deferred pieces that are found on chain are put into a committed chunk.
LEMMA SoundVerified ==
    ASSUME NEW c, NEW copy, NEW chain, NEW adds, SoundCopy(c, copy, chain, adds),
           NEW found \in SUBSET copy.deferred, found \subseteq chain
    PROVE  SoundCopy(c, [copy EXCEPT !.deferred = @ \ found,
                           !.chunks = Append(@, [NewChunk(found) EXCEPT !.pulled = TRUE, !.done = TRUE])],
                     chain, adds)
<1>. DEFINE chunk == [NewChunk(found) EXCEPT !.pulled = TRUE, !.done = TRUE]
            more == <<chunk>>
            new == [copy EXCEPT !.deferred = @ \ found, !.chunks = Append(@, chunk)]
<1>1. copy \in Copy /\ copy.deferred \in SUBSET Pieces /\ copy.chunks \in Seq(Chunk)
  BY CopyFacts DEF SoundCopy
<1>2. chunk \in Chunk /\ chunk.pieces = found /\ chunk.tx = NoTx
  <2>1. /\ NewChunk(found) \in Chunk /\ NewChunk(found).pieces = found
        /\ NewChunk(found).tx = NoTx
    BY <1>1, ChunkFacts DEF Unsent
  <2>. QED  BY <2>1 DEF Chunk
<1>. HIDE DEF chunk
<1>3. Append(copy.chunks, chunk) = copy.chunks \o more
  BY <1>1, <1>2, AppendIsConcat
<1>4. more \in Seq(Chunk) /\ DOMAIN more = {1} /\ more[1] = chunk
  BY <1>2
<1>5. Append(copy.chunks, chunk) \in Seq(Chunk)
  BY <1>1, <1>2, AppendProperties
<1>6. /\ new \in Copy /\ new.chunks = copy.chunks \o more
      /\ new.deferred = copy.deferred \ found
  BY <1>1, <1>3, <1>5 DEF Copy
<1>. HIDE DEF new, more
<1>7. new.deferred = copy.deferred \ UNION {more[i].pieces : i \in DOMAIN more}
  BY <1>2, <1>4, <1>6
<1>8. \A i \in DOMAIN more : Backed(c, more[i], chain, adds) /\ more[i].pieces \subseteq copy.deferred
  BY <1>2, <1>4 DEF Backed
<1>9. \A i, j \in DOMAIN more : i = j
  BY <1>4
<1>10. SoundCopy(c, new, chain, adds)
  BY <1>4, <1>6, <1>7, <1>8, <1>9, SoundExtended
<1>. QED  BY <1>10 DEF new, chunk

(***************************************************************************)
(* Records from step to step.                                              *)
(***************************************************************************)
LEMMA SoundEdit ==
    ASSUME NEW r, NEW chain, NEW adds, SoundRecord(r, chain, adds),
           NEW c \in Copies, NEW copy, SoundCopy(c, copy, chain[c], adds)
    PROVE  SoundRecord([r EXCEPT ![c] = copy], chain, adds)
<1>. DEFINE new == [r EXCEPT ![c] = copy]
<1>1. new \in Record /\ new[c] = copy /\ \A d \in Copies : d # c => new[d] = r[d]
  BY DEF SoundRecord, Record, SoundCopy
<1>. QED  BY <1>1 DEF SoundRecord

\* What landed stays, and an add keeps its copy and its pieces.
ChainGrows ==
    /\ \A t \in DOMAIN txs : /\ t \in DOMAIN txs'
                             /\ txs'[t].copy = txs[t].copy /\ txs'[t].pieces = txs[t].pieces
                             /\ Landed(t) => Landed(t)'
    /\ elsewhere \subseteq elsewhere'

LEMMA ChainKept ==
    ASSUME UNCHANGED <<txs, elsewhere>>
    PROVE  ChainGrows
BY DEF ChainGrows, Landed

LEMMA RecordsStep ==
    ASSUME RecordsInv, ChainGrows,
           \A r \in {disk', mem', looked'} \ {NoRecord} :
              r \in {disk, mem, looked} \/ SoundRecord(r, Chain, txs)
    PROVE  RecordsInv'
<1>1. ASSUME NEW c \in Copies
      PROVE  Chain[c] \subseteq Chain'[c]
  <2>1. Chain[c] = OnChain(c) /\ Chain'[c] = OnChain(c)'
    BY DEF Chain
  <2>2. ASSUME NEW t \in DOMAIN txs, txs[t].copy = c, Landed(t)
        PROVE  t \in {u \in DOMAIN txs' : txs'[u].copy = c /\ Landed(u)'} /\ txs'[t].pieces = txs[t].pieces
    BY <2>2 DEF ChainGrows
  <2>3. UNION {txs[t].pieces : t \in {u \in DOMAIN txs : txs[u].copy = c /\ Landed(u)}}
          \subseteq UNION {txs'[t].pieces : t \in {u \in DOMAIN txs' : txs'[u].copy = c /\ Landed(u)'}}
    BY <2>2
  <2>4. {e[2] : e \in {e \in elsewhere : e[1] = c}} \subseteq {e[2] : e \in {e \in elsewhere' : e[1] = c}}
    BY DEF ChainGrows
  <2>. QED  BY <2>1, <2>3, <2>4 DEF OnChain
<1>2. ASSUME NEW r, SoundRecord(r, Chain, txs)
      PROVE  SoundRecord(r, Chain', txs')
  <2>1. ASSUME NEW c \in Copies, NEW chunk, Backed(c, chunk, Chain[c], txs)
        PROVE  Backed(c, chunk, Chain'[c], txs')
    BY <1>1, <2>1 DEF Backed, ChainGrows
  <2>. QED  BY <1>2, <2>1 DEF SoundRecord, SoundCopy
<1>3. \A r \in {disk', mem', looked'} \ {NoRecord} : SoundRecord(r, Chain, txs)
  BY DEF RecordsInv
<1>. QED  BY <1>2, <1>3 DEF RecordsInv

LEMMA RunFacts ==
    ASSUME IInv, stage # "off"
    PROVE  /\ mem \in Record /\ mem # NoRecord /\ SoundRecord(mem, Chain, txs)
           /\ \A c \in Copies : /\ SoundCopy(c, mem[c], Chain[c], txs)
                                /\ mem[c] \in Copy
                                /\ Chain[c] = OnChain(c)
BY DEF IInv, RunInv, RecordsInv, SoundRecord, SoundCopy, Chain

\* The chunk a copy is driven at.
LEMMA ChunkAt ==
    ASSUME IInv, stage # "off", NEW c \in Copies, pc[c] \in Driven
    PROVE  /\ cursor[c] \in DOMAIN mem[c].chunks /\ At(c) = mem[c].chunks[cursor[c]]
           /\ At(c) \in Chunk /\ Backed(c, At(c), OnChain(c), txs)
           /\ pc[c] # "confirm" => Unsent(At(c))
           /\ pc[c] = "confirm" => At(c).tx # NoTx
<1>1. SoundCopy(c, mem[c], OnChain(c), txs)
  BY RunFacts
<1>2. AtChunk(c)
  BY DEF IInv, RunInv
<1>. QED  BY <1>1, <1>2, CopyFacts DEF AtChunk, At, SoundCopy

\* A step of one copy leaves the others where they are.
LEMMA RunStep ==
    ASSUME IInv, stage # "off", stage' # "off", NEW c \in Copies, mem' \in Record, ChainGrows,
           \A d \in Copies \ {c} : /\ mem'[d] = mem[d] /\ cursor'[d] = cursor[d]
                                   /\ posted'[d] = posted[d] /\ pc'[d] = pc[d],
           AtChunk(c)', PostedInv(c)'
    PROVE  RunInv'
<1>1. mem # NoRecord /\ mem' # NoRecord
  BY RunFacts, CopiesFacts
<1>2. ASSUME NEW d \in Copies \ {c}
      PROVE  AtChunk(d)' /\ PostedInv(d)'
  <2>1. AtChunk(d) /\ PostedInv(d)
    BY DEF IInv, RunInv
  <2>2. At(d)' = At(d)
    BY DEF At
  <2>. QED  BY <1>1, <2>1, <2>2 DEF AtChunk, PostedInv, ChainGrows
<1>. QED  BY <1>1, <1>2 DEF RunInv

(***************************************************************************)
(* The initial states.                                                     *)
(***************************************************************************)
LEMMA OldAdds ==
    ASSUME NEW old
    PROVE  /\ OldTxs(old) \in Seq(Tx) /\ Len(OldTxs(old)) <= MaxTx
           /\ old # "unsubmitted" =>
                 \A c \in Copies : /\ c \in DOMAIN OldTxs(old)
                                   /\ OldTxs(old)[c].copy = c
                                   /\ OldTxs(old)[c].pieces = Pieces
                                   /\ old = "committed" => OldTxs(old)[c].state = "landed"
<1>1. CASE old = "unsubmitted"
  BY <1>1, CopiesFacts DEF OldTxs
<1>2. CASE old # "unsubmitted"
  <2>. DEFINE n == Cardinality(Copies)
  <2>1. n \in Nat /\ Copies = 1 .. n /\ n <= MaxTx /\ MaxTx \in Nat
    BY CopiesFacts
  <2>2. OldSet \in Sets
    BY <2>1 DEF OldSet, Sets
  <2>3. OldTxs(old) = [c \in Copies |-> [copy |-> c, pieces |-> Pieces, set |-> OldSet,
                            state |-> IF old = "committed" THEN "landed" ELSE "pending"]]
    BY <1>2 DEF OldTxs
  <2>4. OldTxs(old) \in [Copies -> Tx]
    BY <2>2, <2>3 DEF Tx
  <2>5. OldTxs(old) \in [1 .. n -> Tx]
    BY <2>1, <2>4
  <2>. HIDE DEF n
  <2>6. OldTxs(old) \in Seq(Tx) /\ Len(OldTxs(old)) = n
    BY <2>1, <2>5
  <2>. QED  BY <1>2, <2>1, <2>3, <2>6
<1>. QED  BY <1>1, <1>2

LEMMA SoundOld ==
    ASSUME NEW old, NEW c \in Copies, NEW chain, NEW adds,
           old = "unsubmitted" \/ /\ c \in DOMAIN adds
                                  /\ adds[c].copy = c /\ adds[c].pieces = Pieces,
           old = "committed" => Pieces \subseteq chain
    PROVE  SoundCopy(c, MigrateLegacySubmit(old)[c], chain, adds)
<1>. DEFINE new == MigrateLegacySubmit(old)[c]
<1>1. NoSet \in Sets /\ OldSet \in Sets
  BY CopiesFacts DEF NoSet, OldSet, Sets
<1>2. CASE old = "unsubmitted"
  <2>1. new = FreshCopy(NoSet)
    BY <1>2 DEF MigrateLegacySubmit, FreshCopy
  <2>. QED  BY <1>1, <2>1, SoundFresh
<1>3. CASE old # "unsubmitted"
  <2>. DEFINE chunk == [NewChunk(Pieces) EXCEPT !.signed = TRUE, !.set = OldSet,
                             !.pulled = TRUE, !.tx = c, !.done = (old = "committed")]
  <2>1. /\ new.chunks = <<chunk>> /\ new.deferred = {}
        /\ new.set = IF old = "committed" THEN OldSet ELSE NoSet
        /\ new = [set |-> new.set, deferred |-> {}, chunks |-> <<chunk>>]
    BY <1>3 DEF MigrateLegacySubmit
  <2>2. /\ chunk \in Chunk /\ chunk.pieces = Pieces /\ chunk.tx = c
        /\ chunk.done = (old = "committed")
    <3>1. NewChunk(Pieces) \in Chunk /\ NewChunk(Pieces).pieces = Pieces
      BY ChunkFacts
    <3>. QED  BY <1>1, <3>1, CopiesFacts DEF Chunk
  <2>. HIDE DEF chunk
  <2>3. <<chunk>> \in Seq(Chunk) /\ DOMAIN <<chunk>> = {1} /\ <<chunk>>[1] = chunk
    BY <2>2
  <2>4. new \in Copy
    BY <1>1, <2>1, <2>3 DEF Copy
  <2>5. Backed(c, chunk, chain, adds)
    BY <1>3, <2>2 DEF Backed
  <2>. HIDE DEF new
  <2>6. PiecesIn(new) = Pieces
    BY <2>1, <2>2, <2>3 DEF PiecesIn
  <2>7. Conserved(new)
    BY <2>1, <2>3, <2>6 DEF Conserved
  <2>8. SoundCopy(c, new, chain, adds)
    BY <2>1, <2>3, <2>4, <2>5, <2>7 DEF SoundCopy
  <2>. QED  BY <2>8 DEF new
<1>. QED  BY <1>2, <1>3

LEMMA Starts == Init => IInv
<1>. SUFFICES ASSUME Init PROVE IInv
  OBVIOUS
<1>1. mem = NoRecord /\ looked = NoRecord /\ stage = "off" /\ ~ unsaved
  BY DEF Init
<1>2. /\ txs \in Seq(Tx) /\ Len(txs) <= MaxTx
      /\ disk = NoRecord \/ SoundRecord(disk, Chain, txs)
  <2>1. CASE disk = NoRecord /\ txs = <<>>
    BY <2>1, CopiesFacts
  <2>2. ASSUME NEW old \in OldRecords, disk = MigrateLegacySubmit(old), txs = OldTxs(old)
        PROVE  SoundRecord(disk, Chain, txs) /\ txs \in Seq(Tx) /\ Len(txs) <= MaxTx
    <3>1. ASSUME NEW c \in Copies
          PROVE  SoundCopy(c, disk[c], Chain[c], txs)
      <4>1. old = "committed" => Pieces \subseteq OnChain(c)
        BY <2>2, OldAdds DEF OnChain, Landed
      <4>2. old = "unsubmitted" \/ /\ c \in DOMAIN txs
                                   /\ txs[c].copy = c /\ txs[c].pieces = Pieces
        BY <2>2, OldAdds
      <4>3. SoundCopy(c, MigrateLegacySubmit(old)[c], OnChain(c), txs)
        BY <4>1, <4>2, SoundOld
      <4>. QED  BY <2>2, <4>3 DEF Chain
    <3>2. disk = [c \in Copies |-> disk[c]] /\ \A c \in Copies : disk[c] \in Copy
      BY <2>2, <3>1 DEF MigrateLegacySubmit, SoundCopy
    <3>. QED  BY <2>2, <3>1, <3>2, OldAdds DEF SoundRecord, Record
  <2>. QED  BY <2>1, <2>2 DEF Init
<1>3. recorded \subseteq TxIds
  <2>1. DOMAIN txs \subseteq TxIds
    BY <1>2, CopiesFacts, LenProperties DEF TxIds
  <2>. QED  BY <2>1 DEF Init
<1>4. TypeOK
  <2>1. disk = NoRecord \/ disk \in [Copies -> Copy]
    BY <1>2 DEF SoundRecord, Record
  <2>2. NoSet \in Sets /\ "idle" \in PC /\ 1 \in Nat \ {0}
    BY CopiesFacts DEF NoSet, Sets, PC
  <2>3. /\ pc \in [Copies -> PC] /\ cursor \in [Copies -> Nat \ {0}]
        /\ ctx \in [Copies -> Sets] /\ posted \in [Copies -> {NoTx} \cup TxIds]
    BY <2>2 DEF Init
  <2>. QED  BY <1>1, <1>2, <1>3, <2>1, <2>3 DEF TypeOK
<1>5. RecordsInv
  BY <1>1, <1>2 DEF RecordsInv
<1>6. RunInv
  BY <1>1 DEF Init, RunInv, AtChunk, PostedInv, Driven
<1>. QED  BY <1>4, <1>5, <1>6 DEF IInv

(***************************************************************************)
(* What the parts of the actions do to the invariant.                      *)
(***************************************************************************)
LEMMA HashNamed ==
    ASSUME NEW r, NEW t
    PROVE  t \in HashesIn(r) <=>
              t # NoTx /\ \E c \in Copies : \E i \in DOMAIN r[c].chunks : t = r[c].chunks[i].tx
<1>. DEFINE hashes(c) == {r[c].chunks[i].tx : i \in DOMAIN r[c].chunks}
            all == UNION {hashes(c) : c \in Copies}
<1>1. \A c : t \in hashes(c) <=> \E i \in DOMAIN r[c].chunks : t = r[c].chunks[i].tx
  OBVIOUS
<1>2. HashesIn(r) = all \ {NoTx}
  BY DEF HashesIn
<1>. HIDE DEF hashes
<1>3. t \in all <=> \E c \in Copies : t \in hashes(c)
  OBVIOUS
<1>. HIDE DEF all
<1>4. t \in HashesIn(r) <=> t # NoTx /\ \E c \in Copies : t \in hashes(c)
  BY <1>2, <1>3
<1>. QED  BY <1>1, <1>4, Zenon

LEMMA HashesTyped ==
    ASSUME NEW r \in Record
    PROVE  HashesIn(r) \subseteq TxIds
<1>1. ASSUME NEW c \in Copies, NEW i \in DOMAIN r[c].chunks
      PROVE  r[c].chunks[i].tx \in {NoTx} \cup TxIds
  <2>1. r[c].chunks[i] \in Chunk
    BY CopyFacts DEF Record
  <2>. QED  BY <2>1 DEF Chunk
<1>2. ASSUME NEW t \in HashesIn(r)
      PROVE  t \in TxIds
  BY <1>1, HashNamed
<1>. QED  BY <1>2

LEMMA SaveFacts ==
    ASSUME TypeOK, NEW r \in Record, Save(r)
    PROVE  disk' \in {disk, r} /\ recorded' \subseteq TxIds
BY HashesTyped DEF Save, TypeOK

\* A step edits no copy of the run's record but c, and keeps c sound.
EditsOnly(c) ==
    /\ mem' \in Record /\ SoundCopy(c, mem'[c], OnChain(c), txs)
    /\ \A d \in Copies \ {c} : mem'[d] = mem[d]
    /\ disk' \in {disk, mem'} /\ recorded' \subseteq TxIds

LEMMA EditedRecord ==
    ASSUME IInv, stage # "off", NEW c \in Copies, NEW copy, SoundCopy(c, copy, OnChain(c), txs)
    PROVE  LET record == [mem EXCEPT ![c] = copy]
           IN  /\ record \in Record /\ record[c] = copy
               /\ \A d \in Copies \ {c} : record[d] = mem[d]
<1>1. mem \in Record /\ copy \in Copy
  BY RunFacts DEF SoundCopy
<1>. QED  BY <1>1 DEF Record

\* The edit is stored, or not.
Stored(record) ==
    \/ UNCHANGED <<disk, recorded>>
    \/ disk' = record /\ recorded' = recorded \cup HashesIn(record)

LEMMA Edited ==
    ASSUME IInv, stage # "off", NEW c \in Copies, NEW copy, SoundCopy(c, copy, OnChain(c), txs),
           mem' = [mem EXCEPT ![c] = copy], Stored([mem EXCEPT ![c] = copy])
    PROVE  EditsOnly(c) /\ mem'[c] = copy
<1>. DEFINE record == [mem EXCEPT ![c] = copy]
<1>0. record \in Record
  BY EditedRecord
<1>1. record[c] = copy
  BY EditedRecord
<1>1a. \A d \in Copies \ {c} : record[d] = mem[d]
  BY EditedRecord
<1>. HIDE DEF record
<1>2. disk' \in {disk, record} /\ recorded' \subseteq TxIds
  BY <1>0, HashesTyped DEF Stored, IInv, TypeOK, record
<1>. QED  BY <1>0, <1>1, <1>1a, <1>2 DEF EditsOnly, record

LEMMA Unedited ==
    ASSUME IInv, stage # "off", NEW c \in Copies, mem' = mem,
           Save(mem) \/ UNCHANGED <<disk, recorded>>
    PROVE  EditsOnly(c)
<1>1. mem \in Record /\ TypeOK /\ SoundCopy(c, mem[c], OnChain(c), txs)
  BY RunFacts DEF IInv
<1>2. disk' \in {disk, mem'} /\ recorded' \subseteq TxIds
  BY <1>1, SaveFacts DEF TypeOK
<1>. QED  BY <1>1, <1>2 DEF EditsOnly

\* A step of a run in which only copy c moves.
LEMMA CopyMoves ==
    ASSUME IInv, stage # "off", stage' = stage, looked' = looked, NEW c \in Copies, EditsOnly(c),
           \A d \in Copies \ {c} : /\ cursor'[d] = cursor[d]
                                   /\ posted'[d] = posted[d] /\ pc'[d] = pc[d],
           pc' \in [Copies -> PC], cursor' \in [Copies -> Nat \ {0}],
           ctx' \in [Copies -> Sets], posted' \in [Copies -> {NoTx} \cup TxIds],
           ChainGrows, txs' \in Seq(Tx), Len(txs') <= MaxTx,
           AtChunk(c)', PostedInv(c)'
    PROVE  IInv'
<1>0. mem' \in Record /\ disk' \in {disk, mem'} /\ recorded' \subseteq TxIds
      /\ \A d \in Copies \ {c} : mem'[d] = mem[d]
  BY DEF EditsOnly
<1>1. SoundRecord(mem', Chain, txs)
  <2>1. \A d \in Copies : SoundCopy(d, mem'[d], Chain[d], txs)
    BY RunFacts DEF EditsOnly
  <2>. QED  BY <1>0, <2>1 DEF SoundRecord
<1>2. RecordsInv'
  <2>1. RecordsInv
    BY DEF IInv
  <2>. QED  BY <1>0, <1>1, <2>1, RecordsStep
<1>3. TypeOK'
  BY <1>0, CopiesFacts DEF IInv, TypeOK, Record
<1>4. RunInv'
  BY <1>0, RunStep
<1>. QED  BY <1>2, <1>3, <1>4 DEF IInv

\* A step outside the runs: their state is left alone.
LEMMA RunsAside ==
    ASSUME IInv, UNCHANGED memVars, ChainGrows,
           \A r \in {disk', looked'} \ {NoRecord} :
              r \in {disk, mem, looked} \/ SoundRecord(r, Chain, txs),
           recorded' \subseteq TxIds, txs' \in Seq(Tx), Len(txs') <= MaxTx
    PROVE  IInv'
<1>1. RecordsInv'
  BY RecordsStep DEF IInv, memVars
<1>2. TypeOK'
  <2>1. \A r \in {disk', looked'} \ {NoRecord} : r \in [Copies -> Copy]
    BY DEF IInv, TypeOK, SoundRecord, Record
  <2>. QED  BY <2>1 DEF IInv, TypeOK, memVars
<1>3. RunInv'
  <2>1. ASSUME NEW c \in Copies
        PROVE  AtChunk(c)' /\ PostedInv(c)'
    <3>1. AtChunk(c) /\ PostedInv(c)
      BY DEF IInv, RunInv
    <3>2. At(c)' = At(c)
      BY DEF At, memVars
    <3>. QED  BY <3>1, <3>2 DEF AtChunk, PostedInv, ChainGrows, memVars
  <2>. QED  BY <2>1 DEF IInv, RunInv, memVars
<1>. QED  BY <1>1, <1>2, <1>3 DEF IInv

\* A run is over.
LEMMA Forgotten ==
    ASSUME IInv, Forget, UNCHANGED <<txs, elsewhere>>,
           disk' \in {disk, mem}, looked' \in {looked, NoRecord}, recorded' \subseteq TxIds
    PROVE  IInv'
<1>1. RecordsInv'
  BY ChainKept, RecordsStep DEF IInv, Forget
<1>2. TypeOK'
  BY DEF IInv, TypeOK, Forget, PC, Sets, NoSet, NoTx
<1>3. RunInv'
  BY DEF RunInv, Forget, AtChunk, PostedInv, Driven
<1>. QED  BY <1>1, <1>2, <1>3 DEF IInv

(***************************************************************************)
(* Each action.                                                            *)
(***************************************************************************)
\* What holds of a run's copy before any of its steps.
LEMMA StepFacts ==
    ASSUME IInv, NEW c \in Copies, Active(c)
    PROVE  /\ stage # "off" /\ mem \in Record /\ SoundCopy(c, mem[c], OnChain(c), txs)
           /\ recorded \subseteq TxIds /\ txs \in Seq(Tx) /\ Len(txs) <= MaxTx
           /\ pc \in [Copies -> PC] /\ cursor \in [Copies -> Nat \ {0}]
           /\ ctx \in [Copies -> Sets] /\ posted \in [Copies -> {NoTx} \cup TxIds]
           /\ TypeOK /\ AtChunk(c) /\ PostedInv(c)
BY RunFacts DEF IInv, RunInv, Active, TypeOK

LEMMA NextChunkKeeps ==
    ASSUME IInv, NEW c \in Copies, NextChunk(c)
    PROVE  IInv'
<1>1. /\ Active(c) /\ pc[c] = "next" /\ mem' = mem /\ stage' = stage /\ ctx' = ctx
      /\ posted' = posted /\ looked' = looked /\ UNCHANGED <<txs, elsewhere>>
  BY DEF NextChunk, envVars
<1>2. /\ stage # "off" /\ mem \in Record /\ SoundCopy(c, mem[c], OnChain(c), txs)
      /\ TypeOK /\ mem # NoRecord
  BY <1>1, StepFacts, CopiesFacts
<1>3. DOMAIN mem[c].chunks = 1 .. Len(mem[c].chunks) /\ Len(mem[c].chunks) \in Nat
  BY <1>2, CopyFacts DEF SoundCopy
<1>4. /\ EditsOnly(c)
      /\ pc' \in [Copies -> PC] /\ cursor' \in [Copies -> Nat \ {0}]
      /\ \A d \in Copies \ {c} : cursor'[d] = cursor[d] /\ pc'[d] = pc[d]
      /\ pc'[c] # "posted"
      /\ \/ pc'[c] \notin Driven
         \/ /\ cursor'[c] = cursor[c] /\ cursor[c] <= Len(mem[c].chunks) /\ ~ At(c).done
            /\ pc'[c] = IF At(c).tx # NoTx THEN "confirm" ELSE "bind"
  <2>1. CASE cursor[c] > Len(mem[c].chunks)
    <3>1. Save(mem) /\ Goto(c, "done") /\ cursor' = cursor
      BY <2>1 DEF NextChunk
    <3>. QED  BY <1>1, <1>2, <3>1, Unedited DEF Goto, TypeOK, PC, Driven
  <2>2. CASE ~ (cursor[c] > Len(mem[c].chunks)) /\ At(c).done
    <3>1. disk' = disk /\ recorded' = recorded /\ cursor' = ToNext(c) /\ pc' = pc
      BY <2>2 DEF NextChunk
    <3>. QED  BY <1>1, <1>2, <3>1, Unedited DEF ToNext, TypeOK, Driven
  <2>3. CASE ~ (cursor[c] > Len(mem[c].chunks)) /\ ~ At(c).done
    <3>1. /\ disk' = disk /\ recorded' = recorded /\ cursor' = cursor
          /\ Goto(c, IF At(c).tx # NoTx THEN "confirm" ELSE "bind")
      BY <2>3 DEF NextChunk
    <3>2. cursor[c] \in Nat /\ cursor[c] <= Len(mem[c].chunks)
      BY <1>2, <1>3, <2>3 DEF TypeOK
    <3>. QED  BY <1>1, <1>2, <2>3, <3>1, <3>2, Unedited DEF Goto, TypeOK, PC
  <2>. QED  BY <2>1, <2>2, <2>3
<1>5. AtChunk(c)'
  <2>1. CASE pc'[c] \notin Driven
    BY <2>1 DEF AtChunk
  <2>2. CASE pc'[c] \in Driven
    <3>1. /\ cursor'[c] = cursor[c] /\ cursor[c] <= Len(mem[c].chunks) /\ ~ At(c).done
          /\ pc'[c] = IF At(c).tx # NoTx THEN "confirm" ELSE "bind"
      BY <1>4, <2>2
    <3>2. At(c)' = At(c)
      BY <1>1, <3>1 DEF At
    <3>3. cursor[c] \in DOMAIN mem[c].chunks
      BY <1>2, <1>3, <3>1 DEF TypeOK
    <3>. QED  BY <1>1, <1>2, <3>1, <3>2, <3>3 DEF AtChunk, Unsent
  <2>. QED  BY <2>1, <2>2
<1>6. PostedInv(c)'
  BY <1>4 DEF PostedInv
<1>. QED  BY <1>1, <1>2, <1>4, <1>5, <1>6, ChainKept, CopyMoves, StepFacts

\* A driven copy moves on, its chunk still unsent.
LEMMA StillUnsent ==
    ASSUME NEW c \in Copies, mem' # NoRecord, cursor' = cursor, cursor[c] \in DOMAIN mem'[c].chunks,
           Unsent(At(c)'), pc'[c] \in {"presign", "pull", "commit"}
    PROVE  AtChunk(c)' /\ PostedInv(c)'
BY DEF AtChunk, PostedInv

LEMMA BindCtxKeeps ==
    ASSUME IInv, NEW c \in Copies, BindCtx(c)
    PROVE  IInv'
<1>1. /\ Active(c) /\ pc[c] = "bind" /\ Goto(c, "presign") /\ stage' = stage
      /\ cursor' = cursor /\ posted' = posted /\ looked' = looked /\ UNCHANGED <<txs, elsewhere>>
  BY DEF BindCtx, envVars
<1>2. /\ stage # "off" /\ mem \in Record /\ SoundCopy(c, mem[c], OnChain(c), txs)
      /\ TypeOK /\ mem[c] \in Copy
  BY <1>1, StepFacts DEF SoundCopy
<1>3. cursor[c] \in DOMAIN mem[c].chunks /\ At(c) = mem[c].chunks[cursor[c]] /\ Unsent(At(c))
  BY <1>1, <1>2, ChunkAt DEF Driven
<1>4. Resolved(c) \subseteq Sets
  <2>1. DOMAIN txs \subseteq TxIds
    BY <1>2, TxsAreNumbered
  <2>2. TxIds \subseteq Sets /\ OldSet \in Sets /\ NoSet \in Sets
    BY CopiesFacts DEF TxIds, Sets, OldSet, NoSet
  <2>. QED  BY <2>1, <2>2 DEF Resolved, MatchingSets
<1>5. ctx' \in [Copies -> Sets] /\ EditsOnly(c) /\ mem'[c].chunks = mem[c].chunks
  <2>0. ctx \in [Copies -> Sets] /\ mem[c].set \in Sets
    BY <1>2, CopyFacts DEF TypeOK
  <2>1. CASE mem' = mem /\ disk' = disk /\ recorded' = recorded /\ ctx' = [ctx EXCEPT ![c] = mem[c].set]
    BY <1>2, <2>0, <2>1, Unedited
  <2>2. ASSUME NEW set \in Resolved(c), ctx' = [ctx EXCEPT ![c] = set],
               mem' = mem /\ disk' = disk /\ recorded' = recorded
        PROVE  ctx' \in [Copies -> Sets] /\ EditsOnly(c) /\ mem'[c].chunks = mem[c].chunks
    BY <1>2, <1>4, <2>0, <2>2, Unedited
  <2>3. ASSUME NEW set \in Resolved(c), ctx' = [ctx EXCEPT ![c] = set],
               Persist([mem EXCEPT ![c].set = set])
        PROVE  ctx' \in [Copies -> Sets] /\ EditsOnly(c) /\ mem'[c].chunks = mem[c].chunks
    <3>. DEFINE copy == [mem[c] EXCEPT !.set = set]
    <3>1. mem' = [mem EXCEPT ![c] = copy] /\ Stored([mem EXCEPT ![c] = copy])
      BY <2>3 DEF Persist, Save, Stored
    <3>2. SoundCopy(c, copy, OnChain(c), txs)
      BY <1>2, <1>4, <2>3, SoundPinned
    <3>3. copy.chunks = mem[c].chunks
      BY <1>2 DEF Copy
    <3>. HIDE DEF copy
    <3>4. EditsOnly(c)
      BY <1>2, <3>1, <3>2, Edited
    <3>5. mem'[c] = copy
      BY <1>2, <3>1, <3>2, Edited
    <3>. QED  BY <1>4, <2>0, <2>3, <3>3, <3>4, <3>5
  <2>. QED  BY <2>1, <2>2, <2>3 DEF BindCtx
<1>6. At(c)' = At(c)
  BY <1>1, <1>5 DEF At
<1>7. AtChunk(c)' /\ PostedInv(c)'
  <2>1. pc'[c] = "presign" /\ mem' # NoRecord
    BY <1>1, <1>2, <1>5, CopiesFacts DEF Goto, TypeOK, EditsOnly
  <2>. QED  BY <1>1, <1>3, <1>5, <1>6, <2>1, StillUnsent
<1>8. pc' \in [Copies -> PC] /\ \A d \in Copies \ {c} : pc'[d] = pc[d]
  BY <1>1, <1>2 DEF Goto, TypeOK, PC
<1>. QED  BY <1>1, <1>2, <1>5, <1>7, <1>8, ChainKept, CopyMoves, StepFacts

\* The chunk a copy is driven at is replaced, with the same pieces.
LEMMA Rechunked ==
    ASSUME IInv, NEW c \in Copies, Active(c), pc[c] \in Driven,
           NEW chunk \in Chunk, chunk.pieces = At(c).pieces, Backed(c, chunk, OnChain(c), txs),
           mem' = [mem EXCEPT ![c] = WithChunk(c, chunk)],
           Stored([mem EXCEPT ![c] = WithChunk(c, chunk)])
    PROVE  /\ EditsOnly(c) /\ mem' # NoRecord
           /\ cursor[c] \in DOMAIN mem'[c].chunks /\ mem'[c].chunks[cursor[c]] = chunk
<1>. DEFINE copy == WithChunk(c, chunk)
<1>1. /\ stage # "off" /\ SoundCopy(c, mem[c], OnChain(c), txs) /\ mem[c] \in Copy
      /\ cursor[c] \in DOMAIN mem[c].chunks /\ At(c) = mem[c].chunks[cursor[c]]
  BY StepFacts, ChunkAt DEF SoundCopy
<1>2. copy = [mem[c] EXCEPT !.chunks[cursor[c]] = chunk]
  BY DEF WithChunk
<1>3. SoundCopy(c, copy, OnChain(c), txs)
  <2>1. mem[c].set \in Sets
    BY <1>1, CopyFacts
  <2>2. SoundCopy(c, [mem[c] EXCEPT !.chunks[cursor[c]] = chunk], OnChain(c), txs)
    BY <1>1, <2>1, SoundReplaced
  <2>. QED  BY <1>2, <2>2
<1>4. copy.chunks[cursor[c]] = chunk /\ DOMAIN copy.chunks = DOMAIN mem[c].chunks
  BY <1>1, <1>2, ReplacedChunk
<1>. HIDE DEF copy
<1>5. mem' = [mem EXCEPT ![c] = copy] /\ Stored([mem EXCEPT ![c] = copy])
  BY DEF copy
<1>6. EditsOnly(c)
  BY <1>1, <1>3, <1>5, Edited
<1>7. mem'[c] = copy
  BY <1>1, <1>3, <1>5, Edited
<1>8. mem' # NoRecord
  BY <1>6, CopiesFacts DEF EditsOnly
<1>. QED  BY <1>1, <1>4, <1>6, <1>7, <1>8

\* A step that keeps the run's place but for one copy's program counter.
LEMMA PlaceKept ==
    ASSUME IInv, NEW c \in Copies, Active(c), EditsOnly(c), NEW place \in PC, Goto(c, place),
           stage' = stage, looked' = looked, cursor' = cursor, ctx' = ctx, posted' = posted,
           UNCHANGED <<txs, elsewhere>>,
           AtChunk(c)', PostedInv(c)'
    PROVE  IInv'
<1>1. /\ stage # "off" /\ txs' \in Seq(Tx) /\ Len(txs') <= MaxTx
      /\ cursor' \in [Copies -> Nat \ {0}] /\ ctx' \in [Copies -> Sets]
      /\ posted' \in [Copies -> {NoTx} \cup TxIds]
  BY StepFacts
<1>2. pc' \in [Copies -> PC] /\ \A d \in Copies \ {c} : pc'[d] = pc[d]
  BY StepFacts DEF Goto
<1>. QED  BY <1>1, <1>2, ChainKept, CopyMoves

LEMMA AtPlace ==
    ASSUME IInv, NEW c \in Copies, Active(c), NEW place, Goto(c, place)
    PROVE  pc'[c] = place
BY StepFacts DEF Goto

\* A copy that stops is driven no more.
LEMMA Stopped ==
    ASSUME NEW c \in Copies, pc'[c] \notin Driven
    PROVE  AtChunk(c)' /\ PostedInv(c)'
BY DEF AtChunk, PostedInv, Driven

LEMMA EnsurePresignedKeeps ==
    ASSUME IInv, NEW c \in Copies, EnsurePresigned(c)
    PROVE  IInv'
<1>1. /\ Active(c) /\ pc[c] = "presign" /\ Goto(c, "pull") /\ stage' = stage
      /\ cursor' = cursor /\ ctx' = ctx /\ posted' = posted /\ looked' = looked
      /\ UNCHANGED <<txs, elsewhere>>
  BY DEF EnsurePresigned, envVars
<1>2. pc[c] \in Driven /\ "pull" \in PC /\ stage # "off"
  BY <1>1, StepFacts DEF Driven, PC
<1>3. /\ At(c) \in Chunk /\ Unsent(At(c)) /\ mem # NoRecord /\ At(c) = mem[c].chunks[cursor[c]]
      /\ cursor[c] \in DOMAIN mem[c].chunks
  BY <1>1, <1>2, ChunkAt, RunFacts
<1>4. /\ EditsOnly(c) /\ mem' # NoRecord
      /\ cursor[c] \in DOMAIN mem'[c].chunks /\ Unsent(mem'[c].chunks[cursor[c]])
  <2>1. CASE At(c).signed /\ At(c).set = ctx[c]
    <3>1. UNCHANGED <<disk, mem, recorded>>
      BY <2>1 DEF EnsurePresigned
    <3>. QED  BY <1>2, <1>3, <3>1, Unedited
  <2>2. CASE ~ (At(c).signed /\ At(c).set = ctx[c])
    <3>. DEFINE chunk == [At(c) EXCEPT !.signed = TRUE, !.set = ctx[c],
                                       !.pulled = @ /\ ~ At(c).signed]
    <3>1. mem' = [mem EXCEPT ![c] = WithChunk(c, chunk)] /\ Stored([mem EXCEPT ![c] = WithChunk(c, chunk)])
      BY <2>2 DEF EnsurePresigned, Persist, Save, Stored
    <3>2. ctx[c] \in Sets
      BY <1>1, StepFacts
    <3>3. chunk \in Chunk /\ chunk.pieces = At(c).pieces /\ Unsent(chunk)
      BY <1>3, <3>2 DEF Chunk, Unsent
    <3>. HIDE DEF chunk
    <3>4. /\ EditsOnly(c) /\ mem' # NoRecord
          /\ cursor[c] \in DOMAIN mem'[c].chunks /\ mem'[c].chunks[cursor[c]] = chunk
      BY <1>1, <1>2, <3>1, <3>3, UnsentBacked, Rechunked
    <3>. QED  BY <3>3, <3>4
  <2>. QED  BY <2>1, <2>2
<1>5. pc'[c] = "pull"
  BY <1>1, AtPlace
<1>6. Unsent(At(c)')
  BY <1>1, <1>4 DEF At
<1>7. AtChunk(c)' /\ PostedInv(c)'
  BY <1>1, <1>4, <1>5, <1>6, StillUnsent
<1>. QED  BY <1>1, <1>2, <1>4, <1>7, PlaceKept

LEMMA SessionBlocksKeeps ==
    ASSUME IInv, NEW c \in Copies, SessionBlocks(c)
    PROVE  IInv'
<1>. DEFINE chunk == [At(c) EXCEPT !.signed = FALSE, !.set = NoSet,
                                   !.pulled = @ /\ ~ At(c).signed]
<1>1. /\ Active(c) /\ pc[c] = "presign" /\ Goto(c, "blocked") /\ stage' = stage
      /\ cursor' = cursor /\ ctx' = ctx /\ posted' = posted /\ looked' = looked
      /\ UNCHANGED <<txs, elsewhere>>
      /\ mem' = [mem EXCEPT ![c] = WithChunk(c, chunk)] /\ Stored([mem EXCEPT ![c] = WithChunk(c, chunk)])
  BY DEF SessionBlocks, envVars, Stored
<1>2. pc[c] \in Driven /\ "blocked" \in PC /\ "blocked" \notin Driven /\ stage # "off"
  BY <1>1, StepFacts DEF Driven, PC
<1>3. At(c) \in Chunk /\ Unsent(At(c))
  BY <1>1, <1>2, ChunkAt
<1>4. chunk \in Chunk /\ chunk.pieces = At(c).pieces /\ Unsent(chunk)
  <2>1. NoSet \in Sets
    BY CopiesFacts DEF Sets, NoSet
  <2>. QED  BY <1>3, <2>1 DEF Chunk, Unsent
<1>. HIDE DEF chunk
<1>5. EditsOnly(c)
  BY <1>1, <1>2, <1>4, UnsentBacked, Rechunked
<1>6. AtChunk(c)' /\ PostedInv(c)'
  BY <1>1, <1>2, AtPlace, Stopped
<1>. QED  BY <1>1, <1>2, <1>5, <1>6, PlaceKept

\* A copy that fails leaves the record alone.
LEMMA FailureKeeps ==
    ASSUME IInv, NEW c \in Copies,
           \/ PullThrows(c) \/ PostRefused(c) \/ ConfirmFails(c)
    PROVE  IInv'
<1>1. /\ Active(c) /\ CopyFails(c) /\ posted' = posted /\ looked' = looked
      /\ UNCHANGED <<disk, recorded, txs, elsewhere>>
  BY DEF PullThrows, PostRefused, ConfirmFails, envVars
<1>2. EditsOnly(c)
  BY <1>1, StepFacts, Unedited DEF CopyFails
<1>3. "failed" \in PC /\ "failed" \notin Driven
  BY DEF PC, Driven
<1>4. AtChunk(c)' /\ PostedInv(c)'
  BY <1>1, <1>3, AtPlace, Stopped DEF CopyFails
<1>. QED  BY <1>1, <1>2, <1>3, <1>4, PlaceKept DEF CopyFails

LEMMA AnswerLostKeeps ==
    ASSUME IInv, NEW c \in Copies, AnswerLost(c)
    PROVE  IInv'
<1>1. /\ Active(c) /\ CopyFails(c) /\ posted' = [posted EXCEPT ![c] = NoTx] /\ looked' = looked
      /\ UNCHANGED <<disk, recorded, txs, elsewhere>>
  BY DEF AnswerLost, envVars
<1>2. EditsOnly(c) /\ stage # "off"
  BY <1>1, StepFacts, Unedited DEF CopyFails
<1>3. "failed" \in PC /\ "failed" \notin Driven
  BY DEF PC, Driven
<1>4. AtChunk(c)' /\ PostedInv(c)'
  BY <1>1, <1>3, AtPlace, Stopped DEF CopyFails
<1>5. /\ pc' \in [Copies -> PC] /\ posted' \in [Copies -> {NoTx} \cup TxIds]
      /\ \A d \in Copies \ {c} : pc'[d] = pc[d] /\ posted'[d] = posted[d]
  BY <1>1, <1>3, StepFacts DEF CopyFails, Goto
<1>. QED  BY <1>1, <1>2, <1>4, <1>5, ChainKept, CopyMoves, StepFacts DEF CopyFails

\* The pieces F are carved off the chunk a copy is driven at.
LEMMA Carved ==
    ASSUME IInv, NEW c \in Copies, Active(c), pc[c] = "pull", NEW F \in SUBSET At(c).pieces,
           mem' = [mem EXCEPT ![c] = Carve(c, F)], Stored([mem EXCEPT ![c] = Carve(c, F)])
    PROVE  /\ EditsOnly(c) /\ mem' # NoRecord
           /\ cursor[c] \in DOMAIN mem'[c].chunks
           /\ F # At(c).pieces => Unsent(mem'[c].chunks[cursor[c]])
<1>. DEFINE left == At(c).pieces \ F
            chunk == [At(c) EXCEPT !.pieces = left, !.signed = FALSE, !.set = NoSet,
                                   !.pulled = left # {}, !.done = left = {}]
            copy == Carve(c, F)
<1>1. /\ stage # "off" /\ SoundCopy(c, mem[c], OnChain(c), txs) /\ mem[c] \in Copy
      /\ cursor[c] \in DOMAIN mem[c].chunks /\ At(c) = mem[c].chunks[cursor[c]]
      /\ At(c) \in Chunk /\ Unsent(At(c))
  BY StepFacts, ChunkAt DEF SoundCopy, Driven
<1>2. copy = [[mem[c] EXCEPT !.chunks[cursor[c]] = chunk] EXCEPT !.deferred = @ \cup F]
  BY DEF Carve, WithChunk
<1>3. /\ chunk \in Chunk /\ chunk.pieces = left /\ chunk.tx = NoTx
      /\ chunk.done = (left = {})
  <2>1. NoSet \in Sets /\ left \in SUBSET Pieces
    BY <1>1, CopiesFacts DEF Sets, NoSet, Chunk
  <2>. HIDE DEF left
  <2>2. At(c).tx = NoTx
    BY <1>1 DEF Unsent
  <2>. QED  BY <1>1, <2>1, <2>2 DEF Chunk
<1>4. Backed(c, chunk, OnChain(c), txs)
  BY <1>3 DEF Backed
<1>. HIDE DEF chunk
<1>5. SoundCopy(c, copy, OnChain(c), txs)
  <2>1. /\ F \in SUBSET mem[c].chunks[cursor[c]].pieces
        /\ chunk.pieces = mem[c].chunks[cursor[c]].pieces \ F
    BY <1>1, <1>3
  <2>2. SoundCopy(c, [[mem[c] EXCEPT !.chunks[cursor[c]] = chunk] EXCEPT !.deferred = @ \cup F],
                  OnChain(c), txs)
    BY <1>1, <1>3, <1>4, <2>1, SoundCarved
  <2>. QED  BY <1>2, <2>2
<1>6. copy.chunks[cursor[c]] = chunk /\ DOMAIN copy.chunks = DOMAIN mem[c].chunks
  <2>. DEFINE new == [mem[c] EXCEPT !.chunks[cursor[c]] = chunk]
  <2>1. new \in Copy
    BY <1>1, <1>3, ReplacedChunk
  <2>2. new.chunks[cursor[c]] = chunk /\ DOMAIN new.chunks = DOMAIN mem[c].chunks
    BY <1>1, <1>3, ReplacedChunk
  <2>. HIDE DEF new
  <2>3. copy.chunks = new.chunks
    BY <1>2, <2>1 DEF Copy, new
  <2>. QED  BY <2>2, <2>3
<1>. HIDE DEF copy
<1>7. mem' = [mem EXCEPT ![c] = copy] /\ Stored([mem EXCEPT ![c] = copy])
  BY DEF copy
<1>8. EditsOnly(c)
  BY <1>1, <1>5, <1>7, Edited
<1>9. mem'[c] = copy
  BY <1>1, <1>5, <1>7, Edited
<1>10. mem' # NoRecord
  BY <1>8, CopiesFacts DEF EditsOnly
<1>11. F # At(c).pieces => Unsent(chunk)
  BY <1>3 DEF Unsent
<1>. QED  BY <1>1, <1>6, <1>8, <1>9, <1>10, <1>11

LEMMA PullChunkKeeps ==
    ASSUME IInv, NEW c \in Copies, PullChunk(c)
    PROVE  IInv'
<1>1. /\ Active(c) /\ pc[c] = "pull" /\ stage' = stage /\ ctx' = ctx /\ posted' = posted
      /\ looked' = looked /\ UNCHANGED <<txs, elsewhere>>
  BY DEF PullChunk
<1>2. /\ pc[c] \in Driven /\ stage # "off"
      /\ "commit" \in PC /\ "presign" \in PC /\ "next" \in PC /\ "next" \notin Driven
  BY <1>1, StepFacts DEF Driven, PC
<1>3. /\ At(c) \in Chunk /\ Unsent(At(c)) /\ mem # NoRecord /\ At(c) = mem[c].chunks[cursor[c]]
      /\ cursor[c] \in DOMAIN mem[c].chunks
  BY <1>1, <1>2, ChunkAt, RunFacts
<1>4. ASSUME NEW place \in {"commit", "presign"}, Goto(c, place), cursor' = cursor,
             EditsOnly(c), mem' # NoRecord, cursor[c] \in DOMAIN mem'[c].chunks,
             Unsent(mem'[c].chunks[cursor[c]])
      PROVE  IInv'
  <2>1. pc'[c] = place /\ place \in PC
    BY <1>1, <1>2, <1>4, AtPlace
  <2>2. Unsent(At(c)')
    BY <1>4 DEF At
  <2>3. AtChunk(c)' /\ PostedInv(c)'
    BY <1>4, <2>1, <2>2, StillUnsent
  <2>. QED  BY <1>1, <1>4, <2>1, <2>3, PlaceKept
<1>5. CASE At(c).pulled
  <2>1. Goto(c, "commit") /\ UNCHANGED <<disk, mem, recorded, cursor>>
    BY <1>5 DEF PullChunk
  <2>2. EditsOnly(c)
    BY <1>2, <2>1, Unedited
  <2>. QED  BY <1>3, <1>4, <2>1, <2>2
<1>6. ASSUME NEW F \in SUBSET At(c).pieces, ~ At(c).pulled,
             IF F = {}
             THEN /\ mem' = [mem EXCEPT ![c] = WithChunk(c, [At(c) EXCEPT !.pulled = TRUE])]
                  /\ Goto(c, "commit") /\ UNCHANGED <<cursor, attempt>>
             ELSE IF attempt[c] = 1
             THEN /\ mem' = [mem EXCEPT ![c] = WithChunk(c,
                               [At(c) EXCEPT !.signed = FALSE, !.set = NoSet])]
                  /\ attempt' = [attempt EXCEPT ![c] = 2]
                  /\ Goto(c, "presign") /\ UNCHANGED cursor
             ELSE /\ mem' = [mem EXCEPT ![c] = Carve(c, F)]
                  /\ IF F = At(c).pieces
                     THEN Goto(c, "next") /\ cursor' = ToNext(c)
                     ELSE Goto(c, "presign") /\ UNCHANGED cursor
                  /\ UNCHANGED attempt,
             \/ UNCHANGED <<disk, recorded>>
             \/ disk' = mem' /\ recorded' = recorded \cup HashesIn(mem')
      PROVE  IInv'
  <2>1. ASSUME NEW record, mem' = record
        PROVE  Stored(record)
    BY <1>6, <2>1 DEF Stored
  <2>2. ASSUME NEW chunk \in Chunk, chunk.pieces = At(c).pieces, Unsent(chunk),
               mem' = [mem EXCEPT ![c] = WithChunk(c, chunk)]
        PROVE  /\ EditsOnly(c) /\ mem' # NoRecord
               /\ cursor[c] \in DOMAIN mem'[c].chunks /\ Unsent(mem'[c].chunks[cursor[c]])
    <3>1. Stored([mem EXCEPT ![c] = WithChunk(c, chunk)])
      BY <2>1, <2>2
    <3>. QED  BY <1>1, <1>2, <2>2, <3>1, UnsentBacked, Rechunked
  <2>3. CASE F = {}
    <3>. DEFINE chunk == [At(c) EXCEPT !.pulled = TRUE]
    <3>1. chunk \in Chunk /\ chunk.pieces = At(c).pieces /\ Unsent(chunk)
      BY <1>3 DEF Chunk, Unsent
    <3>2. /\ mem' = [mem EXCEPT ![c] = WithChunk(c, chunk)]
          /\ Goto(c, "commit") /\ cursor' = cursor
      BY <1>6, <2>3
    <3>. HIDE DEF chunk
    <3>3. /\ EditsOnly(c) /\ mem' # NoRecord
          /\ cursor[c] \in DOMAIN mem'[c].chunks /\ Unsent(mem'[c].chunks[cursor[c]])
      BY <2>2, <3>1, <3>2
    <3>. QED  BY <1>4, <3>2, <3>3
  <2>4. CASE F # {} /\ attempt[c] = 1
    <3>. DEFINE chunk == [At(c) EXCEPT !.signed = FALSE, !.set = NoSet]
    <3>0. NoSet \in Sets
      BY CopiesFacts DEF Sets, NoSet
    <3>1. chunk \in Chunk /\ chunk.pieces = At(c).pieces /\ Unsent(chunk)
      BY <1>3, <3>0 DEF Chunk, Unsent
    <3>2. /\ mem' = [mem EXCEPT ![c] = WithChunk(c, chunk)]
          /\ Goto(c, "presign") /\ cursor' = cursor
      BY <1>6, <2>4
    <3>. HIDE DEF chunk
    <3>3. /\ EditsOnly(c) /\ mem' # NoRecord
          /\ cursor[c] \in DOMAIN mem'[c].chunks /\ Unsent(mem'[c].chunks[cursor[c]])
      BY <2>2, <3>1, <3>2
    <3>. QED  BY <1>4, <3>2, <3>3
  <2>5. CASE F # {} /\ attempt[c] # 1
    <3>1. /\ mem' = [mem EXCEPT ![c] = Carve(c, F)]
          /\ IF F = At(c).pieces
             THEN Goto(c, "next") /\ cursor' = ToNext(c)
             ELSE Goto(c, "presign") /\ UNCHANGED cursor
      BY <1>6, <2>5
    <3>2. Stored([mem EXCEPT ![c] = Carve(c, F)])
      BY <2>1, <3>1
    <3>3. /\ EditsOnly(c) /\ mem' # NoRecord
          /\ cursor[c] \in DOMAIN mem'[c].chunks
          /\ F # At(c).pieces => Unsent(mem'[c].chunks[cursor[c]])
      BY <1>1, <3>1, <3>2, Carved
    <3>4. CASE F # At(c).pieces
      BY <1>4, <3>1, <3>3, <3>4
    <3>5. CASE F = At(c).pieces
      <4>1. Goto(c, "next") /\ cursor' = ToNext(c)
        BY <3>1, <3>5
      <4>2. AtChunk(c)' /\ PostedInv(c)'
        BY <1>1, <1>2, <4>1, AtPlace, Stopped
      <4>3. /\ pc' \in [Copies -> PC] /\ cursor' \in [Copies -> Nat \ {0}]
            /\ \A d \in Copies \ {c} : pc'[d] = pc[d] /\ cursor'[d] = cursor[d]
        BY <1>1, <1>2, <4>1, StepFacts DEF Goto, ToNext
      <4>4. /\ ctx' \in [Copies -> Sets] /\ posted' \in [Copies -> {NoTx} \cup TxIds]
            /\ txs' \in Seq(Tx) /\ Len(txs') <= MaxTx
        BY <1>1, StepFacts
      <4>. QED  BY <1>1, <1>2, <3>3, <4>2, <4>3, <4>4, ChainKept, CopyMoves
    <3>. QED  BY <3>4, <3>5
  <2>. QED  BY <2>3, <2>4, <2>5
<1>. QED  BY <1>5, <1>6 DEF PullChunk, Save

LEMMA PostKeeps ==
    ASSUME IInv, NEW c \in Copies, Post(c)
    PROVE  IInv'
<1>. DEFINE add == [copy |-> c, pieces |-> At(c).pieces, set |-> At(c).set, state |-> "pending"]
            n == Len(txs) + 1
<1>1. /\ Active(c) /\ pc[c] = "commit" /\ stage' = stage /\ ctx' = ctx /\ Goto(c, "posted")
      /\ cursor' = cursor /\ looked' = looked /\ UNCHANGED <<disk, mem, recorded, elsewhere>>
      /\ Len(txs) < MaxTx /\ txs' = Append(txs, add) /\ posted' = [posted EXCEPT ![c] = n]
  BY DEF Post
<1>2. /\ pc[c] \in Driven /\ stage # "off" /\ "posted" \in PC
  BY <1>1, StepFacts DEF Driven, PC
<1>3. /\ At(c) \in Chunk /\ Unsent(At(c)) /\ mem # NoRecord
      /\ cursor[c] \in DOMAIN mem[c].chunks
  BY <1>1, <1>2, ChunkAt, RunFacts
<1>4. add \in Tx /\ add.copy = c /\ add.pieces = At(c).pieces
  BY <1>3 DEF Tx, Chunk
<1>. HIDE DEF add
<1>5. txs \in Seq(Tx) /\ Len(txs) \in Nat /\ n \in TxIds
  BY <1>1, StepFacts, LenProperties, CopiesFacts DEF TxIds
<1>6. /\ txs' \in Seq(Tx) /\ Len(txs') = n /\ DOMAIN txs' = 1 .. n /\ DOMAIN txs = 1 .. Len(txs)
      /\ \A i \in 1 .. Len(txs) : txs'[i] = txs[i]
      /\ txs'[n] = add
  BY <1>1, <1>4, <1>5, AppendProperties, LenProperties
<1>. HIDE DEF n
<1>7. n \in DOMAIN txs' /\ \A t \in DOMAIN txs : t \in DOMAIN txs'
  <2>1. n = Len(txs) + 1
    BY DEF n
  <2>. QED  BY <1>5, <1>6, <2>1
<1>8. ChainGrows
  BY <1>1, <1>6, <1>7 DEF ChainGrows, Landed
<1>9. EditsOnly(c)
  BY <1>1, <1>2, Unedited
<1>10. /\ pc'[c] = "posted" /\ posted'[c] = n
       /\ pc' \in [Copies -> PC] /\ posted' \in [Copies -> {NoTx} \cup TxIds]
       /\ \A d \in Copies \ {c} : pc'[d] = pc[d] /\ posted'[d] = posted[d]
  BY <1>1, <1>2, <1>5, StepFacts DEF Goto
<1>11. At(c)' = At(c)
  BY <1>1 DEF At
<1>12. AtChunk(c)'
  BY <1>1, <1>3, <1>10, <1>11 DEF AtChunk
<1>13. PostedInv(c)'
  BY <1>4, <1>6, <1>7, <1>10, <1>11 DEF PostedInv
<1>14. Len(txs') <= MaxTx
  BY <1>1, <1>5, <1>6, CopiesFacts DEF n
<1>15. cursor' \in [Copies -> Nat \ {0}] /\ ctx' \in [Copies -> Sets]
  BY <1>1, StepFacts
<1>. QED  BY <1>1, <1>2, <1>6, <1>8, <1>9, <1>10, <1>12, <1>13, <1>14, <1>15, CopyMoves

LEMMA OnSubmittedKeeps ==
    ASSUME IInv, NEW c \in Copies, OnSubmitted(c)
    PROVE  IInv'
<1>. DEFINE chunk == [At(c) EXCEPT !.tx = posted[c]]
<1>1. /\ Active(c) /\ pc[c] = "posted" /\ stage' = stage /\ ctx' = ctx /\ Goto(c, "confirm")
      /\ cursor' = cursor /\ looked' = looked /\ UNCHANGED <<disk, recorded, txs, elsewhere>>
      /\ posted' = [posted EXCEPT ![c] = NoTx]
      /\ mem' = [mem EXCEPT ![c] = WithChunk(c, chunk)]
  BY DEF OnSubmitted, envVars
<1>2. /\ pc[c] \in Driven /\ stage # "off" /\ "confirm" \in PC
  BY <1>1, StepFacts DEF Driven, PC
<1>3. /\ At(c) \in Chunk /\ Unsent(At(c))
      /\ posted[c] \in DOMAIN txs /\ txs[posted[c]].copy = c /\ txs[posted[c]].pieces = At(c).pieces
  BY <1>1, <1>2, ChunkAt, StepFacts DEF PostedInv
<1>4. posted[c] \in TxIds /\ posted[c] # NoTx
  <2>1. DOMAIN txs \subseteq TxIds
    BY <1>1, StepFacts, TxsAreNumbered
  <2>. QED  BY <1>3, <2>1 DEF TxIds, NoTx
<1>5. chunk \in Chunk /\ chunk.pieces = At(c).pieces /\ chunk.tx = posted[c] /\ ~ chunk.done
  BY <1>3, <1>4 DEF Chunk, Unsent
<1>. HIDE DEF chunk
<1>6. Backed(c, chunk, OnChain(c), txs)
  BY <1>3, <1>5 DEF Backed
<1>7. Stored([mem EXCEPT ![c] = WithChunk(c, chunk)])
  BY <1>1 DEF Stored
<1>8. /\ EditsOnly(c) /\ mem' # NoRecord
      /\ cursor[c] \in DOMAIN mem'[c].chunks /\ mem'[c].chunks[cursor[c]] = chunk
  BY <1>1, <1>2, <1>5, <1>6, <1>7, Rechunked
<1>9. /\ pc'[c] = "confirm"
      /\ pc' \in [Copies -> PC] /\ posted' \in [Copies -> {NoTx} \cup TxIds]
      /\ \A d \in Copies \ {c} : pc'[d] = pc[d] /\ posted'[d] = posted[d]
  BY <1>1, <1>2, StepFacts DEF Goto
<1>10. AtChunk(c)'
  BY <1>1, <1>4, <1>5, <1>8, <1>9 DEF AtChunk, At
<1>11. PostedInv(c)'
  BY <1>9 DEF PostedInv
<1>. QED  BY <1>1, <1>2, <1>8, <1>9, <1>10, <1>11, ChainKept, CopyMoves, StepFacts

LEMMA FinishChunkKeeps ==
    ASSUME IInv, NEW c \in Copies, FinishChunk(c)
    PROVE  IInv'
<1>. DEFINE chunk == [At(c) EXCEPT !.done = TRUE]
            set == IF At(c).set = NoSet THEN At(c).tx ELSE At(c).set
            copy == [WithChunk(c, chunk) EXCEPT !.set = set]
<1>1. /\ Active(c) /\ pc[c] = "confirm" /\ Confirmed(c) /\ stage' = stage /\ ctx' = ctx
      /\ Goto(c, "next") /\ cursor' = ToNext(c) /\ looked' = looked /\ posted' = posted
      /\ UNCHANGED <<txs, elsewhere>>
      /\ mem' = [mem EXCEPT ![c] = copy] /\ Stored([mem EXCEPT ![c] = copy])
  BY DEF FinishChunk, envVars, Persist, Save, Stored
<1>2. /\ pc[c] \in Driven /\ stage # "off" /\ "next" \in PC /\ "next" \notin Driven
  BY <1>1, StepFacts DEF Driven, PC
<1>3. /\ At(c) \in Chunk /\ At(c).tx # NoTx /\ Backed(c, At(c), OnChain(c), txs)
      /\ cursor[c] \in DOMAIN mem[c].chunks /\ At(c) = mem[c].chunks[cursor[c]]
      /\ SoundCopy(c, mem[c], OnChain(c), txs)
  BY <1>1, <1>2, ChunkAt, StepFacts
<1>4. At(c).pieces \subseteq OnChain(c)
  BY <1>1, <1>3 DEF Backed, Confirmed, OnChain
<1>5. chunk \in Chunk /\ chunk.pieces = At(c).pieces /\ chunk.tx = At(c).tx
  BY <1>3 DEF Chunk
<1>6. set \in Sets
  <2>1. TxIds \subseteq Sets
    BY CopiesFacts DEF Sets, TxIds
  <2>2. At(c).tx \in TxIds /\ At(c).set \in Sets
    BY <1>3 DEF Chunk
  <2>. QED  BY <2>1, <2>2
<1>. HIDE DEF chunk, set
<1>7. Backed(c, chunk, OnChain(c), txs)
  BY <1>3, <1>4, <1>5 DEF Backed
<1>8. SoundCopy(c, copy, OnChain(c), txs)
  <2>1. SoundCopy(c, [[mem[c] EXCEPT !.chunks[cursor[c]] = chunk] EXCEPT !.set = set],
                  OnChain(c), txs)
    BY <1>3, <1>5, <1>6, <1>7, SoundReplaced
  <2>. QED  BY <2>1 DEF WithChunk
<1>. HIDE DEF copy
<1>9. EditsOnly(c)
  BY <1>1, <1>2, <1>8, Edited
<1>10. AtChunk(c)' /\ PostedInv(c)'
  BY <1>1, <1>2, AtPlace, Stopped
<1>11. /\ pc' \in [Copies -> PC] /\ cursor' \in [Copies -> Nat \ {0}]
       /\ \A d \in Copies \ {c} : pc'[d] = pc[d] /\ cursor'[d] = cursor[d]
  BY <1>1, <1>2, StepFacts DEF Goto, ToNext
<1>. QED  BY <1>1, <1>2, <1>9, <1>10, <1>11, ChainKept, CopyMoves, StepFacts

\* The run's record is stored, and nothing else of the run moves.
LEMMA HashWrittenKeeps ==
    ASSUME IInv, HashWritten
    PROVE  IInv'
<1>1. /\ stage # "off" /\ mem # NoRecord /\ mem \in Record /\ TypeOK /\ RecordsInv /\ RunInv
  BY RunFacts DEF IInv, RunInv, HashWritten
<1>2. /\ Save(mem) /\ UNCHANGED <<mem, stage, pc, cursor, ctx, posted, looked, txs, elsewhere>>
      /\ unsaved' = FALSE
  BY DEF HashWritten, envVars
<1>3. disk' \in {disk, mem} /\ recorded' \subseteq TxIds
  BY <1>1, <1>2, SaveFacts
<1>4. RecordsInv'
  BY <1>1, <1>2, <1>3, ChainKept, RecordsStep
<1>5. TypeOK'
  BY <1>1, <1>2, <1>3 DEF TypeOK
<1>6. RunInv'
  <2>1. \A c \in Copies : At(c)' = At(c)
    BY <1>2 DEF At
  <2>. QED  BY <1>1, <1>2, <2>1 DEF RunInv, AtChunk, PostedInv
<1>. QED  BY <1>4, <1>5, <1>6 DEF IInv

LEMMA PrimaryOverKeeps ==
    ASSUME IInv, PrimaryOver
    PROVE  IInv'
<1>1. /\ TypeOK /\ RecordsInv /\ RunInv /\ stage = "primary" /\ stage' = "secondaries"
      /\ UNCHANGED <<disk, mem, pc, cursor, ctx, unsaved, posted, looked, txs, elsewhere, recorded>>
  BY DEF IInv, PrimaryOver, envVars
<1>2. RecordsInv'
  BY <1>1, ChainKept, RecordsStep
<1>3. TypeOK'
  BY <1>1 DEF TypeOK
<1>4. RunInv'
  <2>1. \A c \in Copies : At(c)' = At(c)
    BY <1>1 DEF At
  <2>. QED  BY <1>1, <2>1 DEF RunInv, AtChunk, PostedInv
<1>. QED  BY <1>2, <1>3, <1>4 DEF IInv

LEMMA RunEnds ==
    ASSUME IInv, EndRun \/ CloseTab
    PROVE  IInv'
<1>1. TypeOK /\ Forget /\ UNCHANGED <<txs, elsewhere>> /\ looked' \in {looked, NoRecord}
  BY DEF EndRun, CloseTab, envVars, IInv
<1>2. disk' \in {disk, mem} /\ recorded' \subseteq TxIds
  <2>1. CASE EndRun
    <3>1. stage # "off" /\ Save(mem)
      BY <2>1 DEF EndRun
    <3>. QED  BY <1>1, <3>1, RunFacts, SaveFacts
  <2>2. CASE CloseTab
    BY <1>1, <2>2 DEF CloseTab, TypeOK
  <2>. QED  BY <2>1, <2>2
<1>. QED  BY <1>1, <1>2, Forgotten

\* The stored record is continued, or a fresh one is planned.
LEMMA StartRunKeeps ==
    ASSUME IInv, StartRun
    PROVE  IInv'
<1>1. /\ TypeOK /\ RecordsInv /\ RunInv /\ stage = "off"
      /\ UNCHANGED <<ctx, unsaved, posted, looked, txs, elsewhere>>
      /\ cursor' = [c \in Copies |-> 1]
  BY DEF IInv, StartRun, envVars
<1>2. mem = NoRecord /\ ~ unsaved
  BY <1>1 DEF RunInv
<1>. DEFINE plan(sets) == IF disk # NoRecord THEN disk
                          ELSE [c \in Copies |-> FreshCopy(sets[c])]
<1>3a. PICK sets \in [Copies -> Sets] :
         /\ mem' = plan(sets)
         /\ pc' = [c \in Copies |-> IF AllDone(plan(sets)[c]) THEN "done" ELSE "next"]
         /\ stage' = IF AllDone(plan(sets)[Primary]) THEN "secondaries" ELSE "primary"
         /\ disk' = plan(sets) \/ UNCHANGED disk
         /\ UNCHANGED recorded
  BY Zenon DEF StartRun, Fault
<1>. DEFINE record == plan(sets)
<1>3. /\ record = IF disk # NoRecord THEN disk ELSE [c \in Copies |-> FreshCopy(sets[c])]
      /\ mem' = record
      /\ pc' = [c \in Copies |-> IF AllDone(record[c]) THEN "done" ELSE "next"]
      /\ stage' = IF AllDone(record[Primary]) THEN "secondaries" ELSE "primary"
      /\ disk' \in {disk, record} /\ UNCHANGED recorded
  BY <1>3a
<1>. HIDE DEF record, plan
<1>4. SoundRecord(record, Chain, txs)
  <2>1. CASE disk # NoRecord
    BY <1>1, <1>3, <2>1 DEF RecordsInv
  <2>2. CASE disk = NoRecord
    <3>1. \A c \in Copies : SoundCopy(c, FreshCopy(sets[c]), Chain[c], txs)
      BY SoundFresh
    <3>2. record = [c \in Copies |-> FreshCopy(sets[c])]
      BY <1>3, <2>2
    <3>3. \A c \in Copies : SoundCopy(c, record[c], Chain[c], txs)
      BY <3>1, <3>2
    <3>4. \A c \in Copies : FreshCopy(sets[c]) \in Copy
      BY <3>1 DEF SoundCopy
    <3>. QED  BY <3>2, <3>3, <3>4 DEF SoundRecord, Record
  <2>. QED  BY <2>1, <2>2
<1>5. record \in Record /\ record # NoRecord
  BY <1>4, CopiesFacts DEF SoundRecord
<1>6. RecordsInv'
  BY <1>1, <1>3, <1>4, ChainKept, RecordsStep
<1>7. TypeOK'
  BY <1>1, <1>3, <1>5 DEF TypeOK, Record, PC
<1>8. RunInv'
  <2>1. \A c \in Copies : pc'[c] \notin Driven
    BY <1>3 DEF Driven
  <2>2. stage' # "off" /\ mem' # NoRecord /\ ~ unsaved'
    BY <1>1, <1>2, <1>3, <1>5
  <2>. QED  BY <2>1, <2>2, Stopped DEF RunInv
<1>. QED  BY <1>6, <1>7, <1>8 DEF IInv

LEMMA OperatorKeeps ==
    ASSUME IInv, RequeueDeferred \/ VerifyReads \/ \E c \in Copies : VerifyWrites(c)
    PROVE  IInv'
<1>1. /\ TypeOK /\ RecordsInv /\ UNCHANGED memVars /\ UNCHANGED <<txs, elsewhere, recorded>>
  BY DEF IInv, RequeueDeferred, VerifyReads, VerifyWrites, envVars
<1>2. CASE RequeueDeferred
  <2>1. /\ disk # NoRecord /\ looked' = looked
        /\ disk' = [c \in Copies |-> IF disk[c].deferred = {} THEN disk[c] ELSE Requeued(disk[c])]
    BY <1>2 DEF RequeueDeferred
  <2>2. \A c \in Copies : SoundCopy(c, disk[c], Chain[c], txs)
    BY <1>1, <2>1 DEF RecordsInv, SoundRecord
  <2>3. \A c \in Copies : SoundCopy(c, Requeued(disk[c]), Chain[c], txs)
    BY <2>2, SoundRequeued
  <2>4. \A c \in Copies : SoundCopy(c, disk'[c], Chain[c], txs)
    BY <2>1, <2>2, <2>3
  <2>5. \A c \in Copies : disk[c] \in Copy /\ Requeued(disk[c]) \in Copy
    BY <2>2, <2>3 DEF SoundCopy
  <2>6. SoundRecord(disk', Chain, txs)
    BY <2>1, <2>4, <2>5 DEF SoundRecord, Record
  <2>. QED  BY <1>1, <2>1, <2>6, ChainKept, RunsAside DEF TypeOK
<1>3. CASE VerifyReads
  <2>1. disk' = disk /\ looked' = disk
    BY <1>3 DEF VerifyReads
  <2>. QED  BY <1>1, <2>1, ChainKept, RunsAside DEF TypeOK
<1>4. ASSUME NEW c \in Copies, VerifyWrites(c)
      PROVE  IInv'
  <2>. DEFINE found == looked[c].deferred \cap OnChain(c)
              chunk == [NewChunk(found) EXCEPT !.pulled = TRUE, !.done = TRUE]
              copy == [looked[c] EXCEPT !.deferred = @ \ found, !.chunks = Append(@, chunk)]
              record == [looked EXCEPT ![c] = copy]
  <2>1. /\ looked # NoRecord /\ looked' = NoRecord
        /\ disk' = disk \/ disk' = record
    BY <1>4 DEF VerifyWrites
  <2>2. SoundRecord(looked, Chain, txs) /\ SoundCopy(c, looked[c], OnChain(c), txs)
    BY <1>1, <2>1 DEF RecordsInv, SoundRecord, Chain
  <2>3. SoundCopy(c, copy, OnChain(c), txs)
    BY <2>2, SoundVerified
  <2>. HIDE DEF copy
  <2>4. SoundRecord(record, Chain, txs)
    BY <2>2, <2>3, SoundEdit DEF Chain
  <2>. HIDE DEF record
  <2>. QED  BY <1>1, <2>1, <2>4, ChainKept, RunsAside DEF TypeOK
<1>. QED  BY <1>2, <1>3, <1>4

LEMMA ChainKeeps ==
    ASSUME IInv,
           \/ \E t \in DOMAIN txs : TxLands(t) \/ TxReverts(t)
           \/ \E c \in Copies, p \in Pieces : AddedElsewhere(c, p)
    PROVE  IInv'
<1>1. /\ TypeOK /\ RecordsInv /\ UNCHANGED memVars /\ UNCHANGED <<disk, looked, recorded>>
      /\ txs \in Seq(Tx) /\ Len(txs) <= MaxTx
  BY DEF IInv, TxLands, TxReverts, AddedElsewhere, TypeOK
<1>2. ASSUME NEW t \in DOMAIN txs, NEW state \in {"landed", "reverted"},
             txs[t].state = "pending", txs' = [txs EXCEPT ![t].state = state],
             elsewhere' = elsewhere
      PROVE  IInv'
  <2>1. DOMAIN txs = 1 .. Len(txs) /\ \A i \in DOMAIN txs : txs[i] \in Tx
    BY <1>1, LenProperties
  <2>. DEFINE add == [txs[t] EXCEPT !.state = state]
  <2>2. /\ add \in Tx /\ add.copy = txs[t].copy /\ add.pieces = txs[t].pieces
    BY <2>1 DEF Tx
  <2>3. txs' = [txs EXCEPT ![t] = add]
    BY <1>2
  <2>. HIDE DEF add
  <2>4. txs' \in Seq(Tx) /\ Len(txs') = Len(txs) /\ DOMAIN txs' = DOMAIN txs
    BY <1>1, <2>2, <2>3, ExceptSeq
  <2>5. txs'[t] = add /\ \A u \in DOMAIN txs : u # t => txs'[u] = txs[u]
    BY <2>3
  <2>6. ASSUME NEW u \in DOMAIN txs
        PROVE  /\ txs'[u].copy = txs[u].copy /\ txs'[u].pieces = txs[u].pieces
               /\ Landed(u) => Landed(u)'
    BY <1>2, <2>2, <2>5 DEF Landed
  <2>7. ChainGrows
    BY <1>2, <2>4, <2>6 DEF ChainGrows
  <2>. QED  BY <1>1, <2>4, <2>7, RunsAside DEF TypeOK
<1>3. ASSUME NEW c \in Copies, NEW p \in Pieces, AddedElsewhere(c, p)
      PROVE  IInv'
  <2>1. txs' = txs /\ elsewhere \subseteq elsewhere'
    BY <1>3 DEF AddedElsewhere
  <2>2. ChainGrows
    BY <2>1 DEF ChainGrows, Landed
  <2>. QED  BY <1>1, <2>1, <2>2, RunsAside DEF TypeOK
<1>4. ASSUME NEW t \in DOMAIN txs, TxLands(t) \/ TxReverts(t)
      PROVE  IInv'
  <2>1. CASE TxLands(t)
    BY <1>2, <2>1 DEF TxLands
  <2>2. CASE TxReverts(t)
    BY <1>2, <2>2 DEF TxReverts
  <2>. QED  BY <1>4, <2>1, <2>2
<1>. QED  BY <1>3, <1>4

LEMMA Keeps == IInv /\ [Next]_vars => IInv'
<1>. SUFFICES ASSUME IInv, [Next]_vars PROVE IInv'
  OBVIOUS
<1>1. CASE UNCHANGED vars
  <2>1. /\ UNCHANGED memVars /\ UNCHANGED <<disk, looked, recorded, txs, elsewhere>>
    BY <1>1 DEF vars, memVars
  <2>2. recorded \subseteq TxIds /\ txs \in Seq(Tx) /\ Len(txs) <= MaxTx
    BY DEF IInv, TypeOK
  <2>. QED  BY <2>1, <2>2, ChainKept, RunsAside
<1>2. ASSUME NEW c \in Copies, CopyStep(c) \/ CopyFault(c)
      PROVE  IInv'
  BY <1>2, NextChunkKeeps, BindCtxKeeps, EnsurePresignedKeeps, PullChunkKeeps, PostKeeps,
     OnSubmittedKeeps, FinishChunkKeeps, SessionBlocksKeeps, FailureKeeps, AnswerLostKeeps
     DEF CopyStep, CopyFault
<1>3. CASE StartRun \/ PrimaryOver \/ EndRun \/ CloseTab \/ HashWritten
  BY <1>3, StartRunKeeps, PrimaryOverKeeps, RunEnds, HashWrittenKeeps
<1>4. CASE RequeueDeferred \/ VerifyReads \/ \E c \in Copies : VerifyWrites(c)
  BY <1>4, OperatorKeeps
<1>5. CASE \/ \E t \in DOMAIN txs : TxLands(t) \/ TxReverts(t)
           \/ \E c \in Copies, p \in Pieces : AddedElsewhere(c, p)
  BY <1>5, ChainKeeps
<1>. QED  BY <1>1, <1>2, <1>3, <1>4, <1>5 DEF Next

(***************************************************************************)
(* The theorems.                                                           *)
(***************************************************************************)
\* Records, run state and adds keep their shape through every run, fault and
\* operator action (app/src/submit.ts, run-store.ts).
THEOREM TypeCorrect == Spec => []TypeOK
<1>1. IInv => TypeOK
  BY DEF IInv
<1>. QED  BY Starts, Keeps, <1>1, PTL DEF Spec

\* No piece of a copy is lost or held twice: runChunks, requeueDeferred,
\* verifyContext and migrateLegacySubmit keep each in one chunk or deferred.
THEOREM PiecesKept == Spec => []PiecesConserved
<1>1. IInv => PiecesConserved
  BY DEF IInv, RecordsInv, SoundRecord, SoundCopy, Conserved, PiecesConserved
<1>. QED  BY Starts, Keeps, <1>1, PTL DEF Spec

\* A chunk the stored record calls committed is on chain in its copy's data
\* set, also when a verify overwrites the record a run is writing.
THEOREM CommittedOnChain == Spec => []CommittedIsOnChain
<1>1. IInv => CommittedIsOnChain
  BY DEF IInv, RecordsInv, SoundRecord, SoundCopy, Backed, Chain, CommittedIsOnChain
<1>. QED  BY Starts, Keeps, <1>1, PTL DEF Spec

(***************************************************************************)
(* The hashes of a record.                                                 *)
(***************************************************************************)
NInv == IInv /\ HashInv /\ NewestInv

LEMMA InHashes ==
    ASSUME NEW r, NEW t
    PROVE  t \in HashesIn(r) <=> \E c \in Copies : t \in CopyHashes(r[c])
<1>1. \A c : t \in CopyHashes(r[c]) <=>
                t # NoTx /\ \E i \in DOMAIN r[c].chunks : t = r[c].chunks[i].tx
  BY DEF CopyHashes
<1>. QED  BY <1>1, HashNamed

\* The adds a sound copy names are its own, and have the pieces of their chunk.
LEMMA HashBacked ==
    ASSUME NEW c, NEW copy, NEW chain, NEW adds, SoundCopy(c, copy, chain, adds),
           NEW t \in CopyHashes(copy)
    PROVE  /\ t \in DOMAIN adds /\ adds[t].copy = c
           /\ \E i \in DOMAIN copy.chunks : copy.chunks[i].tx = t /\ copy.chunks[i].pieces = adds[t].pieces
<1>1. PICK i \in DOMAIN copy.chunks : copy.chunks[i].tx = t /\ t # NoTx
  BY DEF CopyHashes
<1>2. Backed(c, copy.chunks[i], chain, adds)
  BY DEF SoundCopy
<1>. QED  BY <1>1, <1>2 DEF Backed

\* New hashes of the run's record are of adds that no later one repeats.
Hashed ==
    \A c \in Copies : /\ CopyHashes(mem[c]) \subseteq CopyHashes(mem'[c])
                      /\ \A t \in CopyHashes(mem'[c]) : t \in CopyHashes(mem[c]) \/ Newest(t, txs)

LEMMA Rehashed ==
    ASSUME IInv, NEW c \in Copies, Active(c), pc[c] \in Driven, NEW copy, NEW chunk,
           mem' = [mem EXCEPT ![c] = copy],
           copy.chunks = [mem[c].chunks EXCEPT ![cursor[c]] = chunk],
           chunk.tx = At(c).tx \/ (At(c).tx = NoTx /\ Newest(chunk.tx, txs))
    PROVE  Hashed
<1>. DEFINE old == mem[c].chunks
            new == copy.chunks
            k == cursor[c]
<1>1. k \in DOMAIN old /\ At(c) = old[k] /\ mem \in Record
  BY StepFacts, ChunkAt
<1>2. mem'[c] = copy /\ \A d \in Copies \ {c} : mem'[d] = mem[d]
  BY <1>1 DEF Record
<1>3. DOMAIN new = DOMAIN old /\ new[k] = chunk /\ \A i \in DOMAIN old : i # k => new[i] = old[i]
  BY <1>1
<1>4. CopyHashes(mem[c]) = {old[i].tx : i \in DOMAIN old} \ {NoTx}
  BY DEF CopyHashes
<1>5. CopyHashes(mem'[c]) = {new[i].tx : i \in DOMAIN new} \ {NoTx}
  BY <1>2 DEF CopyHashes
<1>. HIDE DEF old, new, k
<1>6. ASSUME NEW t \in CopyHashes(mem[c])
      PROVE  t \in CopyHashes(mem'[c])
  <2>1. PICK i \in DOMAIN old : t = old[i].tx /\ t # NoTx
    BY <1>4
  <2>. QED  BY <1>1, <1>3, <1>5, <2>1
<1>7. ASSUME NEW t \in CopyHashes(mem'[c])
      PROVE  t \in CopyHashes(mem[c]) \/ Newest(t, txs)
  <2>1. PICK i \in DOMAIN new : t = new[i].tx /\ t # NoTx
    BY <1>5
  <2>. QED  BY <1>1, <1>3, <1>4, <2>1
<1>. QED  BY <1>2, <1>6, <1>7 DEF Hashed

\* A step in a run that posts nothing.
LEMMA HashesStep ==
    ASSUME NInv, stage # "off", stage' # "off", IInv', Hashed, UNCHANGED txs,
           \/ disk' = disk /\ recorded' = recorded
           \/ disk' = mem' /\ recorded' = recorded \cup HashesIn(mem'),
           \A c \in Copies : pc'[c] = "posted" => pc[c] = "posted" /\ posted'[c] = posted[c]
    PROVE  NInv'
<1>. DEFINE seen == HashesIn(mem')
<1>1. /\ mem # NoRecord /\ mem' # NoRecord
      /\ \A c \in Copies : SoundCopy(c, mem[c], Chain[c], txs)
  BY RunFacts DEF NInv, IInv, RunInv
<1>2. \A c \in Copies : SoundCopy(c, mem'[c], Chain'[c], txs')
  BY <1>1 DEF IInv, RecordsInv, SoundRecord
<1>3. ASSUME NEW c \in Copies, NEW t \in CopyHashes(mem'[c])
      PROVE  t \in DOMAIN txs /\ txs[t].copy = c
  BY <1>2, <1>3, HashBacked
<1>4. ASSUME NEW t \in seen
      PROVE  t \in DOMAIN txs /\ t \in CopyHashes(mem'[txs[t].copy]) /\ Newest(t, txs)
  <2>1. PICK c \in Copies : t \in CopyHashes(mem'[c])
    BY InHashes
  <2>2. t \in DOMAIN txs /\ txs[t].copy = c
    BY <1>3, <2>1
  <2>3. t \in CopyHashes(mem[c]) => t \in HashesIn(mem)
    BY InHashes
  <2>4. Newest(t, txs)
    BY <1>1, <2>1, <2>3 DEF Hashed, NInv, NewestInv
  <2>. QED  BY <2>1, <2>2, <2>4
<1>5. \/ disk' = disk /\ recorded' = recorded
      \/ disk' = mem' /\ recorded' = recorded \cup seen
  OBVIOUS
<1>. HIDE DEF seen
<1>6. \A t \in recorded : /\ t \in DOMAIN txs /\ Newest(t, txs)
                          /\ t \in CopyHashes(mem[txs[t].copy])
                          /\ disk # NoRecord => t \in CopyHashes(disk[txs[t].copy])
  BY <1>1 DEF NInv, HashInv, NewestInv
<1>7. \A t \in recorded : txs[t].copy \in Copies /\ t \in CopyHashes(mem'[txs[t].copy])
  <2>1. \A t \in DOMAIN txs : txs[t].copy \in Copies
    <3>1. \A t \in DOMAIN txs : txs[t] \in Tx
      BY LenProperties DEF NInv, IInv, TypeOK
    <3>. QED  BY <3>1 DEF Tx
  <2>. QED  BY <1>6, <2>1 DEF Hashed
<1>8. HashInv'
  <2>1. recorded' \subseteq DOMAIN txs /\ (disk' = NoRecord => recorded' = {})
    BY <1>1, <1>4, <1>5, <1>6 DEF NInv, HashInv
  <2>2. disk' # NoRecord => HashesIn(disk') \subseteq recorded'
    <3>1. CASE disk' = disk /\ recorded' = recorded
      BY <3>1 DEF NInv, HashInv
    <3>2. CASE disk' = mem' /\ recorded' = recorded \cup seen
      BY <3>2 DEF seen
    <3>. QED  BY <1>5, <3>1, <3>2
  <2>3. \A t \in recorded' : t \in CopyHashes(mem'[txs[t].copy])
    BY <1>4, <1>5, <1>7
  <2>4. disk' # NoRecord => \A t \in recorded' : t \in CopyHashes(disk'[txs[t].copy])
    BY <1>5, <1>6, <2>3
  <2>. QED  BY <2>1, <2>2, <2>3, <2>4 DEF HashInv
<1>9. NewestInv'
  <2>1. \A t \in recorded' : Newest(t, txs)
    BY <1>4, <1>5, <1>6
  <2>2. \A t \in HashesIn(mem') : Newest(t, txs)
    BY <1>4 DEF seen
  <2>. QED  BY <2>1, <2>2 DEF NewestInv, NInv
<1>. QED  BY <1>8, <1>9 DEF NInv

LEMMA HashesSame ==
    ASSUME \A c \in Copies : mem'[c].chunks = mem[c].chunks
    PROVE  Hashed
BY DEF Hashed, CopyHashes

LEMMA PostedKept ==
    ASSUME IInv, NEW c \in Copies, Active(c), NEW place, place # "posted", Goto(c, place),
           posted' = posted \/ posted' = [posted EXCEPT ![c] = NoTx]
    PROVE  \A d \in Copies : pc'[d] = "posted" => pc[d] = "posted" /\ posted'[d] = posted[d]
BY StepFacts DEF Goto

\* The steps of a copy that leave its chunks alone.
LEMMA QuietStepHashes ==
    ASSUME NInv, NEW c \in Copies,
           \/ NextChunk(c) \/ BindCtx(c) \/ PullThrows(c) \/ PostRefused(c)
           \/ ConfirmFails(c) \/ AnswerLost(c)
    PROVE  NInv'
<1>1. IInv /\ Active(c) /\ UNCHANGED <<txs, stage>>
  BY DEF NInv, NextChunk, BindCtx, PullThrows, PostRefused, ConfirmFails, AnswerLost,
         CopyFails, envVars
<1>2. IInv'
  BY <1>1, NextChunkKeeps, BindCtxKeeps, FailureKeeps, AnswerLostKeeps
<1>3. stage # "off" /\ mem \in Record /\ pc \in [Copies -> PC] /\ \A d \in Copies : mem[d] \in Copy
  BY <1>1, StepFacts, RunFacts
<1>4. /\ \A d \in Copies : mem'[d].chunks = mem[d].chunks
      /\ \/ disk' = disk /\ recorded' = recorded
         \/ disk' = mem' /\ recorded' = recorded \cup HashesIn(mem')
  <2>1. CASE NextChunk(c)
    BY <2>1 DEF NextChunk, Save
  <2>2. CASE BindCtx(c) /\ mem' = mem
    BY <2>2, <1>3, CopiesFacts DEF BindCtx, Persist, Save
  <2>3. CASE BindCtx(c) /\ mem' # mem
    <3>1. PICK set : Persist([mem EXCEPT ![c].set = set])
      BY <2>3 DEF BindCtx
    <3>2. mem' = [mem EXCEPT ![c] = [mem[c] EXCEPT !.set = set]]
      BY <3>1 DEF Persist
    <3>3. \A d \in Copies : mem'[d].chunks = mem[d].chunks
      BY <1>3, <3>2 DEF Record, Copy
    <3>. QED  BY <3>1, <3>3 DEF Persist, Save
  <2>4. CASE PullThrows(c) \/ PostRefused(c) \/ ConfirmFails(c) \/ AnswerLost(c)
    BY <2>4 DEF PullThrows, PostRefused, ConfirmFails, AnswerLost, CopyFails
  <2>. QED  BY <2>1, <2>2, <2>3, <2>4
<1>5. \A d \in Copies : pc'[d] = "posted" => pc[d] = "posted" /\ posted'[d] = posted[d]
  <2>1. CASE pc' = pc /\ posted' = posted
    BY <2>1
  <2>2. CASE \E place \in {"done", "confirm", "bind", "presign", "failed"} :
               Goto(c, place) /\ (posted' = posted \/ posted' = [posted EXCEPT ![c] = NoTx])
    BY <1>1, <2>2, PostedKept
  <2>. QED  BY <2>1, <2>2
            DEF NextChunk, BindCtx, PullThrows, PostRefused, ConfirmFails, AnswerLost, CopyFails
<1>6. Hashed
  BY <1>4, HashesSame
<1>7. stage' # "off" /\ UNCHANGED txs
  BY <1>1, <1>3
<1>. QED  BY <1>2, <1>3, <1>4, <1>5, <1>6, <1>7, HashesStep

\* The chunk a copy is driven at is replaced by one with the same hash.
LEMMA ReplacingHashes ==
    ASSUME NInv, NEW c \in Copies,
           EnsurePresigned(c) \/ SessionBlocks(c) \/ PullChunk(c) \/ FinishChunk(c)
    PROVE  NInv'
<1>1. IInv /\ Active(c) /\ pc[c] \in Driven /\ UNCHANGED <<txs, stage>>
  BY DEF NInv, EnsurePresigned, SessionBlocks, PullChunk, FinishChunk, envVars, Driven
<1>2. IInv'
  BY <1>1, EnsurePresignedKeeps, SessionBlocksKeeps, PullChunkKeeps, FinishChunkKeeps
<1>3. /\ stage # "off" /\ mem \in Record /\ mem[c] \in Copy
      /\ At(c) \in Chunk
  BY <1>1, StepFacts, ChunkAt, RunFacts DEF EnsurePresigned, SessionBlocks, PullChunk
<1>4. \/ disk' = disk /\ recorded' = recorded
      \/ disk' = mem' /\ recorded' = recorded \cup HashesIn(mem')
  <2>1. CASE EnsurePresigned(c)
    BY <2>1 DEF EnsurePresigned, Persist, Save
  <2>2. CASE SessionBlocks(c)
    BY <2>2 DEF SessionBlocks
  <2>3. CASE PullChunk(c)
    <3>1. \/ disk' = disk /\ recorded' = recorded
          \/ Save(mem')
          \/ disk' = mem' /\ recorded' = recorded \cup HashesIn(mem')
      BY <2>3, Zenon DEF PullChunk
    <3>. QED  BY <3>1 DEF Save
  <2>4. CASE FinishChunk(c)
    BY <2>4 DEF FinishChunk, Persist, Save
  <2>. QED  BY <2>1, <2>2, <2>3, <2>4
<1>5. \A d \in Copies : pc'[d] = "posted" => pc[d] = "posted" /\ posted'[d] = posted[d]
  <2>1. PICK place \in {"pull", "blocked", "commit", "presign", "next"} : Goto(c, place)
    BY DEF EnsurePresigned, SessionBlocks, PullChunk, FinishChunk
  <2>2. posted' = posted
    BY DEF EnsurePresigned, SessionBlocks, PullChunk, FinishChunk
  <2>. QED  BY <1>1, <2>1, <2>2, PostedKept
<1>6. At(c) \in Chunk /\ cursor[c] \in DOMAIN mem[c].chunks /\ At(c) = mem[c].chunks[cursor[c]]
  BY <1>1, <1>3, ChunkAt
<1>7. Hashed
  <2>1. CASE mem' = mem
    BY <2>1, HashesSame
  <2>2. ASSUME NEW chunk, chunk.tx = At(c).tx, NEW copy, mem' = [mem EXCEPT ![c] = copy],
               copy.chunks = WithChunk(c, chunk).chunks
        PROVE  Hashed
    <3>1. WithChunk(c, chunk).chunks = [mem[c].chunks EXCEPT ![cursor[c]] = chunk]
      BY <1>3 DEF WithChunk, Copy
    <3>2. copy.chunks = [mem[c].chunks EXCEPT ![cursor[c]] = chunk]
      BY <2>2, <3>1
    <3>3. chunk.tx = At(c).tx \/ (At(c).tx = NoTx /\ Newest(chunk.tx, txs))
      BY <2>2
    <3>. QED  BY <1>1, <2>2, <3>2, <3>3, Rehashed, Zenon
  <2>3. CASE EnsurePresigned(c) /\ mem' # mem
    <3>. DEFINE chunk == [At(c) EXCEPT !.signed = TRUE, !.set = ctx[c],
                                       !.pulled = @ /\ ~ At(c).signed]
    <3>1. mem' = [mem EXCEPT ![c] = WithChunk(c, chunk)]
      BY <2>3 DEF EnsurePresigned, Persist
    <3>2. chunk.tx = At(c).tx
      BY <1>6 DEF Chunk
    <3>. HIDE DEF chunk
    <3>. QED  BY <2>2, <3>1, <3>2
  <2>4. CASE SessionBlocks(c)
    <3>. DEFINE chunk == [At(c) EXCEPT !.signed = FALSE, !.set = NoSet,
                                       !.pulled = @ /\ ~ At(c).signed]
    <3>1. mem' = [mem EXCEPT ![c] = WithChunk(c, chunk)]
      BY <2>4 DEF SessionBlocks
    <3>2. chunk.tx = At(c).tx
      BY <1>6 DEF Chunk
    <3>. HIDE DEF chunk
    <3>. QED  BY <2>2, <3>1, <3>2
  <2>5. CASE FinishChunk(c)
    <3>. DEFINE chunk == [At(c) EXCEPT !.done = TRUE]
                set == IF At(c).set = NoSet THEN At(c).tx ELSE At(c).set
                copy == [WithChunk(c, chunk) EXCEPT !.set = set]
    <3>1. mem' = [mem EXCEPT ![c] = copy]
      BY <2>5 DEF FinishChunk, Persist
    <3>2. chunk.tx = At(c).tx
      BY <1>6 DEF Chunk
    <3>3. copy.chunks = WithChunk(c, chunk).chunks
      BY <1>3 DEF WithChunk, Copy
    <3>. HIDE DEF chunk, copy
    <3>. QED  BY <2>2, <3>1, <3>2, <3>3
  <2>6. CASE PullChunk(c) /\ mem' # mem
    <3>1. PICK F \in SUBSET At(c).pieces :
             \/ mem' = [mem EXCEPT ![c] = WithChunk(c, [At(c) EXCEPT !.pulled = TRUE])]
             \/ mem' = [mem EXCEPT ![c] = WithChunk(c, [At(c) EXCEPT !.signed = FALSE, !.set = NoSet])]
             \/ mem' = [mem EXCEPT ![c] = Carve(c, F)]
      BY <2>6 DEF PullChunk
    <3>2. /\ [At(c) EXCEPT !.pulled = TRUE].tx = At(c).tx
          /\ [At(c) EXCEPT !.signed = FALSE, !.set = NoSet].tx = At(c).tx
      BY <1>6 DEF Chunk
    <3>3. CASE mem' = [mem EXCEPT ![c] = Carve(c, F)]
      <4>. DEFINE left == At(c).pieces \ F
                  chunk == [At(c) EXCEPT !.pieces = left, !.signed = FALSE, !.set = NoSet,
                                         !.pulled = left # {}, !.done = left = {}]
      <4>1. chunk.tx = At(c).tx
        BY <1>6 DEF Chunk
      <4>2. Carve(c, F) = [WithChunk(c, chunk) EXCEPT !.deferred = @ \cup F]
        BY DEF Carve
      <4>. HIDE DEF chunk
      <4>3. Carve(c, F).chunks = WithChunk(c, chunk).chunks
        BY <1>3, <4>2 DEF WithChunk, Copy
      <4>. QED  BY <2>2, <3>3, <4>1, <4>3
    <3>. QED  BY <2>2, <3>1, <3>2, <3>3
  <2>. QED  BY <2>1, <2>3, <2>4, <2>5, <2>6
<1>8. stage' # "off" /\ UNCHANGED txs
  BY <1>1, <1>3
<1>. QED  BY <1>2, <1>3, <1>4, <1>5, <1>7, <1>8, HashesStep

\* The hash of the add just posted: no later one is of its pieces.
LEMMA SubmittedHash ==
    ASSUME NInv, NEW c \in Copies, OnSubmitted(c)
    PROVE  NInv'
<1>. DEFINE chunk == [At(c) EXCEPT !.tx = posted[c]]
<1>1. /\ IInv /\ Active(c) /\ pc[c] = "posted" /\ UNCHANGED <<txs, stage>> /\ Goto(c, "confirm")
      /\ disk' = disk /\ recorded' = recorded /\ posted' = [posted EXCEPT ![c] = NoTx]
      /\ mem' = [mem EXCEPT ![c] = WithChunk(c, chunk)]
  BY DEF NInv, OnSubmitted, envVars
<1>2. IInv'
  BY <1>1, OnSubmittedKeeps
<1>3. /\ stage # "off" /\ mem \in Record /\ mem[c] \in Copy /\ pc[c] \in Driven
      /\ At(c) \in Chunk /\ Unsent(At(c)) /\ PostedInv(c)
  BY <1>1, StepFacts, ChunkAt, RunFacts DEF Driven
<1>4. chunk.tx = posted[c] /\ At(c).tx = NoTx
  BY <1>3 DEF Chunk, Unsent
<1>. HIDE DEF chunk
<1>5. Newest(posted[c], txs)
  <2>1. /\ posted[c] \in DOMAIN txs /\ txs[posted[c]].copy = c
        /\ \A u \in DOMAIN txs : txs[u].copy = c => u <= posted[c]
    BY <1>1, <1>3 DEF PostedInv, NInv, NewestInv
  <2>2. DOMAIN txs \subseteq Nat
    BY <1>1, StepFacts, LenProperties
  <2>. QED  BY <2>1, <2>2 DEF Newest
<1>6. WithChunk(c, chunk).chunks = [mem[c].chunks EXCEPT ![cursor[c]] = chunk]
  BY <1>3 DEF WithChunk, Copy
<1>7. Hashed
  BY <1>1, <1>3, <1>4, <1>5, <1>6, Rehashed
<1>8. \A d \in Copies : pc'[d] = "posted" => pc[d] = "posted" /\ posted'[d] = posted[d]
  BY <1>1, PostedKept
<1>. QED  BY <1>1, <1>2, <1>3, <1>7, <1>8, HashesStep

\* The new add is of a chunk without a hash, so of no piece that is named already.
LEMMA PostedHash ==
    ASSUME NInv, NEW c \in Copies, Post(c)
    PROVE  NInv'
<1>. DEFINE add == [copy |-> c, pieces |-> At(c).pieces, set |-> At(c).set, state |-> "pending"]
            n == Len(txs) + 1
<1>1. /\ IInv /\ Active(c) /\ pc[c] = "commit" /\ Goto(c, "posted")
      /\ UNCHANGED <<disk, mem, recorded>>
      /\ txs' = Append(txs, add) /\ posted' = [posted EXCEPT ![c] = n]
  BY DEF NInv, Post
<1>2. IInv'
  BY <1>1, PostKeeps DEF NInv
<1>3. /\ mem # NoRecord /\ SoundCopy(c, mem[c], OnChain(c), txs)
      /\ At(c).pieces = mem[c].chunks[cursor[c]].pieces /\ Unsent(mem[c].chunks[cursor[c]])
      /\ cursor[c] \in DOMAIN mem[c].chunks
  BY <1>1, StepFacts, ChunkAt, RunFacts DEF Driven
<1>4. add.copy = c /\ add.pieces = At(c).pieces
  OBVIOUS
<1>5. /\ txs \in Seq(Tx) /\ Len(txs) \in Nat /\ DOMAIN txs = 1 .. Len(txs)
      /\ pc \in [Copies -> PC] /\ posted \in [Copies -> {NoTx} \cup TxIds]
  BY <1>1, StepFacts, LenProperties
<1>6. /\ DOMAIN txs' = 1 .. Len(txs) + 1
      /\ \A i \in 1 .. Len(txs) : txs'[i] = txs[i]
      /\ txs'[Len(txs) + 1] = add
  <2>1. add \in Tx
    <3>1. At(c) \in Chunk
      BY <1>1, ChunkAt, StepFacts DEF Driven
    <3>. QED  BY <3>1 DEF Tx, Chunk
  <2>. HIDE DEF add
  <2>. QED  BY <1>1, <1>5, <2>1, AppendProperties, LenProperties
<1>7. n \notin DOMAIN txs /\ DOMAIN txs' = DOMAIN txs \cup {n} /\ txs'[n] = add
      /\ \A t \in DOMAIN txs : txs'[t] = txs[t] /\ t < n
  BY <1>5, <1>6
<1>. HIDE DEF add, n
<1>8. ASSUME NEW t \in CopyHashes(mem[c])
      PROVE  txs[t].pieces \cap At(c).pieces = {}
  <2>1. t \in DOMAIN txs
    BY <1>3, HashBacked
  <2>2. PICK i \in DOMAIN mem[c].chunks :
           mem[c].chunks[i].tx = t /\ mem[c].chunks[i].pieces = txs[t].pieces
    BY <1>3, HashBacked
  <2>3. t # NoTx
    BY DEF CopyHashes
  <2>4. i # cursor[c]
    BY <1>3, <2>2, <2>3 DEF Unsent
  <2>. QED  BY <1>3, <2>2, <2>4 DEF SoundCopy, Conserved
<1>9. ASSUME NEW t \in DOMAIN txs, Newest(t, txs), txs[t].copy = c => t \in CopyHashes(mem[c])
      PROVE  Newest(t, txs')
  BY <1>4, <1>7, <1>8, <1>9 DEF Newest
<1>10. \A t \in recorded : t \in DOMAIN txs /\ t \in CopyHashes(mem[txs[t].copy]) /\ Newest(t, txs)
  BY <1>3 DEF NInv, HashInv, NewestInv
<1>11. ASSUME NEW t \in HashesIn(mem)
       PROVE  t \in DOMAIN txs /\ t \in CopyHashes(mem[txs[t].copy]) /\ Newest(t, txs)
  <2>1. PICK d \in Copies : t \in CopyHashes(mem[d])
    BY InHashes
  <2>2. SoundCopy(d, mem[d], Chain[d], txs)
    BY <1>1, StepFacts, RunFacts
  <2>3. t \in DOMAIN txs /\ txs[t].copy = d
    BY <2>1, <2>2, HashBacked
  <2>. QED  BY <1>3, <2>1, <2>3 DEF NInv, NewestInv
<1>12. HashInv'
  BY <1>1, <1>3, <1>7, <1>10 DEF HashInv, NInv
<1>13. NewestInv'
  <2>1. \A t \in recorded' : Newest(t, txs')
    BY <1>1, <1>9, <1>10
  <2>2. \A t \in HashesIn(mem) : Newest(t, txs')
    BY <1>9, <1>11
  <2>3. ASSUME NEW d \in Copies, pc'[d] = "posted", NEW u \in DOMAIN txs', txs'[u].copy = d
        PROVE  u <= posted'[d]
    <3>1. CASE d = c
      <4>1. posted'[d] = n
        BY <1>1, <1>5, <3>1
      <4>. QED  BY <1>5, <1>7, <4>1 DEF n
    <3>2. CASE d # c
      <4>1. pc[d] = "posted" /\ posted'[d] = posted[d]
        BY <1>1, <1>5, <2>3, <3>2 DEF Goto
      <4>2. u # n
        BY <1>4, <1>7, <2>3, <3>2
      <4>. QED  BY <1>7, <2>3, <4>1, <4>2 DEF NInv, NewestInv
    <3>. QED  BY <3>1, <3>2
  <2>. QED  BY <1>1, <2>1, <2>2, <2>3 DEF NewestInv
<1>. QED  BY <1>2, <1>12, <1>13 DEF NInv

\* A step outside the runs, that changes no hash of the stored record.
LEMMA HashesAside ==
    ASSUME NInv, IInv', UNCHANGED <<mem, recorded, pc, posted>>,
           DOMAIN txs' = DOMAIN txs,
           \A t \in DOMAIN txs : txs'[t].copy = txs[t].copy /\ txs'[t].pieces = txs[t].pieces,
           disk' = NoRecord <=> disk = NoRecord,
           disk # NoRecord => \A c \in Copies : CopyHashes(disk'[c]) = CopyHashes(disk[c])
    PROVE  NInv'
<1>1. \A t \in DOMAIN txs : txs[t].copy \in Copies /\ (Newest(t, txs) => Newest(t, txs'))
  <2>1. \A t \in DOMAIN txs : txs[t] \in Tx
    BY LenProperties DEF NInv, IInv, TypeOK
  <2>. QED  BY <2>1 DEF Tx, Newest
<1>2. disk # NoRecord => HashesIn(disk') = HashesIn(disk)
  <2>1. ASSUME disk # NoRecord, NEW t
        PROVE  t \in HashesIn(disk') <=> t \in HashesIn(disk)
    <3>1. t \in HashesIn(disk) <=> \E c \in Copies : t \in CopyHashes(disk[c])
      BY InHashes
    <3>2. t \in HashesIn(disk') <=> \E c \in Copies : t \in CopyHashes(disk'[c])
      BY InHashes
    <3>. QED  BY <2>1, <3>1, <3>2
  <2>. QED  BY <2>1
<1>3. HashInv'
  <2>1. recorded \subseteq DOMAIN txs
    BY DEF NInv, HashInv
  <2>2. recorded' \subseteq DOMAIN txs' /\ (disk' = NoRecord => recorded' = {})
        /\ (disk' # NoRecord => HashesIn(disk') \subseteq recorded')
    BY <1>2 DEF NInv, HashInv
  <2>3. disk' # NoRecord => \A t \in recorded' : t \in CopyHashes(disk'[txs'[t].copy])
    BY <1>1, <2>1 DEF NInv, HashInv
  <2>4. mem' # NoRecord => \A t \in recorded' : t \in CopyHashes(mem'[txs'[t].copy])
    BY <2>1 DEF NInv, HashInv
  <2>. QED  BY <2>2, <2>3, <2>4 DEF HashInv
<1>4. NewestInv'
  <2>1. \A t \in recorded : t \in DOMAIN txs /\ Newest(t, txs)
    BY DEF NInv, HashInv, NewestInv
  <2>2. ASSUME mem # NoRecord, NEW t \in HashesIn(mem)
        PROVE  t \in DOMAIN txs /\ Newest(t, txs)
    <3>1. PICK c \in Copies : t \in CopyHashes(mem[c])
      BY InHashes
    <3>2. SoundCopy(c, mem[c], Chain[c], txs)
      BY <2>2 DEF NInv, IInv, RecordsInv, SoundRecord
    <3>. QED  BY <2>2, <3>1, <3>2, HashBacked DEF NInv, NewestInv
  <2>3. \A t \in recorded' : Newest(t, txs')
    BY <1>1, <2>1
  <2>4. mem' # NoRecord => \A t \in HashesIn(mem') : Newest(t, txs')
    BY <1>1, <2>2
  <2>5. \A c \in Copies : pc'[c] = "posted" => \A u \in DOMAIN txs' : txs'[u].copy = c => u <= posted'[c]
    BY DEF NInv, NewestInv
  <2>. QED  BY <2>3, <2>4, <2>5 DEF NewestInv
<1>. QED  BY <1>3, <1>4 DEF NInv

LEMMA HashWrittenHashes ==
    ASSUME NInv, HashWritten
    PROVE  NInv'
<1>1. IInv /\ stage # "off" /\ UNCHANGED <<stage, mem, txs, pc, posted>> /\ Save(mem)
  BY DEF NInv, IInv, RunInv, HashWritten, envVars
<1>2. IInv'
  BY <1>1, HashWrittenKeeps
<1>3. Hashed
  BY <1>1, HashesSame
<1>4. \/ disk' = disk /\ recorded' = recorded
      \/ disk' = mem' /\ recorded' = recorded \cup HashesIn(mem')
  BY <1>1 DEF Save
<1>. QED  BY <1>1, <1>2, <1>3, <1>4, HashesStep

\* What the run had in memory is gone; what it stored is not.
LEMMA RunEndsHashes ==
    ASSUME NInv, EndRun \/ CloseTab
    PROVE  NInv'
<1>1. IInv /\ Forget /\ UNCHANGED txs
  BY DEF NInv, EndRun, CloseTab, envVars
<1>2. IInv'
  BY <1>1, RunEnds
<1>3. mem' = NoRecord /\ \A c \in Copies : pc'[c] # "posted"
  BY <1>1 DEF Forget
<1>4. CASE disk' = disk /\ recorded' = recorded
  BY <1>1, <1>2, <1>3, <1>4 DEF NInv, HashInv, NewestInv
<1>5. CASE EndRun /\ disk' = mem /\ recorded' = recorded \cup HashesIn(mem)
  <2>1. mem # NoRecord /\ \A c \in Copies : SoundCopy(c, mem[c], Chain[c], txs)
    BY <1>1, <1>5, RunFacts DEF EndRun
  <2>2. ASSUME NEW t \in HashesIn(mem)
        PROVE  t \in DOMAIN txs /\ t \in CopyHashes(mem[txs[t].copy]) /\ Newest(t, txs)
    <3>1. PICK c \in Copies : t \in CopyHashes(mem[c])
      BY InHashes
    <3>2. t \in DOMAIN txs /\ txs[t].copy = c
      BY <2>1, <3>1, HashBacked
    <3>. QED  BY <2>1, <3>1, <3>2 DEF NInv, NewestInv
  <2>3. \A t \in recorded : t \in DOMAIN txs /\ t \in CopyHashes(mem[txs[t].copy]) /\ Newest(t, txs)
    BY <2>1 DEF NInv, HashInv, NewestInv
  <2>4. HashInv'
    BY <1>1, <1>3, <1>5, <2>1, <2>2, <2>3 DEF HashInv
  <2>5. NewestInv'
    BY <1>1, <1>3, <1>5, <2>2, <2>3 DEF NewestInv
  <2>. QED  BY <1>2, <2>4, <2>5 DEF NInv
<1>. QED  BY <1>4, <1>5 DEF EndRun, CloseTab, Save

\* Chunks without a hash are put at the end.
LEMMA ExtendedHashes ==
    ASSUME NEW copy, NEW new, copy.chunks \in Seq(Chunk), NEW more \in Seq(Chunk),
           \A i \in DOMAIN more : more[i].tx = NoTx, new.chunks = copy.chunks \o more
    PROVE  CopyHashes(new) = CopyHashes(copy)
<1>. DEFINE old == copy.chunks
            all == new.chunks
<1>1. more \in Seq(Chunk) /\ \A i \in DOMAIN more : more[i].tx = NoTx
  OBVIOUS
<1>2. /\ DOMAIN old = 1 .. Len(old) /\ Len(old) \in Nat /\ DOMAIN more = 1 .. Len(more)
      /\ Len(more) \in Nat
  BY <1>1, LenProperties
<1>3. /\ DOMAIN all = 1 .. Len(old) + Len(more)
      /\ \A i \in 1 .. Len(old) + Len(more) :
            all[i] = IF i <= Len(old) THEN old[i] ELSE more[i - Len(old)]
  <2>1. all = old \o more
    OBVIOUS
  <2>. QED  BY <1>1, <2>1, ConcatProperties, LenProperties
<1>4. CopyHashes(copy) = {old[i].tx : i \in DOMAIN old} \ {NoTx}
  BY DEF CopyHashes
<1>5. CopyHashes(new) = {all[i].tx : i \in DOMAIN all} \ {NoTx}
  BY DEF CopyHashes
<1>. HIDE DEF old, all
<1>6. ASSUME NEW t \in CopyHashes(copy)
      PROVE  t \in CopyHashes(new)
  <2>1. PICK i \in DOMAIN old : t = old[i].tx /\ t # NoTx
    BY <1>4
  <2>2. i \in DOMAIN all /\ all[i] = old[i]
    BY <1>2, <1>3
  <2>. QED  BY <1>5, <2>1, <2>2
<1>7. ASSUME NEW t \in CopyHashes(new)
      PROVE  t \in CopyHashes(copy)
  <2>1. PICK i \in DOMAIN all : t = all[i].tx /\ t # NoTx
    BY <1>5
  <2>2. CASE i <= Len(old)
    <3>1. i \in DOMAIN old /\ all[i] = old[i]
      BY <1>2, <1>3, <2>2
    <3>. QED  BY <1>4, <2>1, <3>1
  <2>3. CASE ~ (i <= Len(old))
    <3>1. i - Len(old) \in DOMAIN more /\ all[i] = more[i - Len(old)]
      BY <1>2, <1>3, <2>3
    <3>. QED  BY <1>1, <2>1, <3>1
  <2>. QED  BY <2>2, <2>3
<1>. QED  BY <1>6, <1>7

LEMMA FreshHashes ==
    ASSUME NEW copy, copy.chunks = ChunksOf(Pieces)
    PROVE  CopyHashes(copy) = {}
<1>1. \A i \in DOMAIN copy.chunks : copy.chunks[i].tx = NoTx
  BY ChunksPartition DEF Unsent
<1>. QED  BY <1>1 DEF CopyHashes

LEMMA StartRunHashes ==
    ASSUME NInv, StartRun
    PROVE  NInv'
<1>1. /\ IInv /\ UNCHANGED <<txs, posted, recorded>> /\ stage = "off"
      /\ \A c \in Copies : pc'[c] # "posted"
  BY DEF NInv, StartRun, envVars, Fault
<1>2. IInv'
  BY <1>1, StartRunKeeps
<1>. DEFINE plan(sets) == IF disk # NoRecord THEN disk
                          ELSE [c \in Copies |-> FreshCopy(sets[c])]
<1>3. PICK sets \in [Copies -> Sets] : /\ mem' = plan(sets)
                                       /\ disk' = plan(sets) \/ UNCHANGED disk
  BY Zenon DEF StartRun, Fault
<1>4. CASE disk # NoRecord
  <2>1. mem' = disk /\ disk' = disk
    BY <1>3, <1>4
  <2>2. HashInv'
    BY <1>1, <1>4, <2>1 DEF NInv, HashInv
  <2>3. NewestInv'
    BY <1>1, <1>4, <2>1 DEF NInv, HashInv, NewestInv
  <2>. QED  BY <1>2, <2>2, <2>3 DEF NInv
<1>5. CASE disk = NoRecord
  <2>1. mem' = [c \in Copies |-> FreshCopy(sets[c])]
    BY <1>3, <1>5
  <2>2. \A c \in Copies : mem'[c].chunks = ChunksOf(Pieces)
    BY <2>1 DEF FreshCopy
  <2>3. \A c \in Copies : CopyHashes(mem'[c]) = {}
    BY <2>2, FreshHashes
  <2>4. HashesIn(mem') = {}
    BY <2>3, InHashes
  <2>5. disk' \in {NoRecord, mem'} /\ recorded' = {}
    BY <1>1, <1>3, <1>5 DEF NInv, HashInv
  <2>6. HashInv'
    BY <2>4, <2>5 DEF HashInv
  <2>7. NewestInv'
    BY <1>1, <2>4, <2>5 DEF NewestInv
  <2>. QED  BY <1>2, <2>6, <2>7 DEF NInv
<1>. QED  BY <1>4, <1>5

\* Requeued and verified pieces come in chunks without a hash.  A verify that
\* nothing overlaps writes back the record it has read.
LEMMA OperatorHashes ==
    ASSUME "overlap" \notin FaultKinds, NInv,
           RequeueDeferred \/ VerifyReads \/ \E c \in Copies : VerifyWrites(c)
    PROVE  NInv'
<1>1. IInv /\ IInv' /\ UNCHANGED <<mem, recorded, pc, posted, txs>>
  BY OperatorKeeps DEF NInv, RequeueDeferred, VerifyReads, VerifyWrites, envVars, memVars
<1>2. disk # NoRecord => disk \in Record /\ \A c \in Copies : disk[c] \in Copy
  BY <1>1 DEF IInv, TypeOK, Record
<1>3. ASSUME disk # NoRecord, disk' # NoRecord,
             \A c \in Copies : CopyHashes(disk'[c]) = CopyHashes(disk[c])
      PROVE  NInv'
  BY <1>1, <1>3, HashesAside
<1>4. CASE RequeueDeferred
  <2>1. /\ disk # NoRecord
        /\ disk' = [c \in Copies |-> IF disk[c].deferred = {} THEN disk[c] ELSE Requeued(disk[c])]
    BY <1>4 DEF RequeueDeferred
  <2>2. ASSUME NEW c \in Copies
        PROVE  CopyHashes(Requeued(disk[c])) = CopyHashes(disk[c])
    <3>1. disk[c].chunks \in Seq(Chunk) /\ disk[c].deferred \in SUBSET Pieces
      BY <1>2, <2>1, CopyFacts
    <3>2. Requeued(disk[c]).chunks = disk[c].chunks \o ChunksOf(disk[c].deferred)
      BY <1>2, <2>1 DEF Requeued, Copy
    <3>3. /\ ChunksOf(disk[c].deferred) \in Seq(Chunk)
          /\ \A i \in DOMAIN ChunksOf(disk[c].deferred) : ChunksOf(disk[c].deferred)[i].tx = NoTx
      BY <3>1, ChunksPartition DEF Unsent
    <3>. QED  BY <3>1, <3>2, <3>3, ExtendedHashes
  <2>3. \A c \in Copies : CopyHashes(disk'[c]) = CopyHashes(disk[c])
    BY <2>1, <2>2
  <2>4. disk' # NoRecord
    <3>1. DOMAIN disk' = Copies
      BY <2>1
    <3>. QED  BY <3>1, CopiesFacts DEF NoRecord
  <2>. QED  BY <1>3, <2>1, <2>3, <2>4
<1>5. CASE VerifyReads
  BY <1>3, <1>5 DEF VerifyReads
<1>6. ASSUME NEW c \in Copies, VerifyWrites(c)
      PROVE  NInv'
  <2>. DEFINE found == looked[c].deferred \cap OnChain(c)
              chunk == [NewChunk(found) EXCEPT !.pulled = TRUE, !.done = TRUE]
              copy == [disk[c] EXCEPT !.deferred = @ \ found, !.chunks = Append(@, chunk)]
  <2>1. looked # NoRecord /\ disk = looked
    BY <1>6 DEF VerifyWrites
  <2>2. disk' = disk \/ disk' = [disk EXCEPT ![c] = copy]
    <3>1. \/ disk' = disk
          \/ disk' = [looked EXCEPT ![c].deferred = @ \ found,
                                    ![c].chunks = Append(@, chunk)]
      BY <1>6 DEF VerifyWrites
    <3>2. [disk EXCEPT ![c].deferred = @ \ found, ![c].chunks = Append(@, chunk)]
              = [disk EXCEPT ![c] = copy]
      <4>. HIDE DEF found, chunk
      <4>. QED  OBVIOUS
    <3>. HIDE DEF found, chunk, copy
    <3>. QED  BY <2>1, <3>1, <3>2
  <2>3. CASE disk' = disk
    BY <1>3, <2>1, <2>3
  <2>4. CASE disk' = [disk EXCEPT ![c] = copy]
    <3>1. disk \in Record /\ disk[c] \in Copy /\ disk[c].chunks \in Seq(Chunk)
          /\ found \in SUBSET Pieces
      BY <1>2, <2>1, CopyFacts
    <3>2. chunk \in Chunk /\ chunk.tx = NoTx
      <4>1. NewChunk(found) \in Chunk /\ NewChunk(found).tx = NoTx
        BY <3>1, ChunkFacts DEF Unsent
      <4>. QED  BY <4>1 DEF Chunk
    <3>. HIDE DEF chunk, found
    <3>3. copy.chunks = Append(disk[c].chunks, chunk)
      BY <3>1 DEF Copy
    <3>4. Append(disk[c].chunks, chunk) = disk[c].chunks \o <<chunk>>
      BY <3>1, <3>2, AppendIsConcat
    <3>. HIDE DEF copy
    <3>5. <<chunk>> \in Seq(Chunk) /\ \A i \in DOMAIN <<chunk>> : <<chunk>>[i].tx = NoTx
      BY <3>2
    <3>5a. copy.chunks = disk[c].chunks \o <<chunk>>
      BY <3>3, <3>4
    <3>6. CopyHashes(copy) = CopyHashes(disk[c])
      BY <3>1, <3>5, <3>5a, ExtendedHashes
    <3>7. disk'[c] = copy /\ (\A d \in Copies : d # c => disk'[d] = disk[d]) /\ DOMAIN disk' = Copies
      BY <2>4, <3>1 DEF Record
    <3>8. disk' # NoRecord
      BY <3>7, CopiesFacts DEF NoRecord
    <3>9. \A d \in Copies : CopyHashes(disk'[d]) = CopyHashes(disk[d])
      BY <3>6, <3>7
    <3>. QED  BY <1>3, <2>1, <3>8, <3>9
  <2>. QED  BY <2>2, <2>3, <2>4
<1>. QED  BY <1>4, <1>5, <1>6

LEMMA ChainHashes ==
    ASSUME NInv,
           \/ \E t \in DOMAIN txs : TxLands(t) \/ TxReverts(t)
           \/ \E c \in Copies, p \in Pieces : AddedElsewhere(c, p)
    PROVE  NInv'
<1>1. IInv' /\ UNCHANGED <<mem, disk, recorded, pc, posted>>
  BY ChainKeeps DEF NInv, TxLands, TxReverts, AddedElsewhere, memVars
<1>2. /\ DOMAIN txs' = DOMAIN txs
      /\ \A t \in DOMAIN txs : txs'[t].copy = txs[t].copy /\ txs'[t].pieces = txs[t].pieces
  <2>1. ASSUME NEW t \in DOMAIN txs, NEW state, txs' = [txs EXCEPT ![t].state = state]
        PROVE  /\ DOMAIN txs' = DOMAIN txs
               /\ \A u \in DOMAIN txs : txs'[u].copy = txs[u].copy /\ txs'[u].pieces = txs[u].pieces
    <3>1. \A u \in DOMAIN txs : txs[u] \in Tx
      BY LenProperties DEF NInv, IInv, TypeOK
    <3>. QED  BY <2>1, <3>1 DEF Tx
  <2>. QED  BY <2>1 DEF TxLands, TxReverts, AddedElsewhere
<1>. QED  BY <1>1, <1>2, HashesAside

LEMMA StartsNewest == Init => NInv
<1>. SUFFICES ASSUME Init PROVE NInv
  OBVIOUS
<1>1. IInv /\ mem = NoRecord /\ recorded = DOMAIN txs /\ \A c \in Copies : pc[c] # "posted"
  BY Starts DEF Init
<1>2. ASSUME txs = <<>>, disk # NoRecord => \A c \in Copies : disk[c].chunks = ChunksOf(Pieces)
      PROVE  NInv
  <2>1. recorded = {}
    BY <1>1, <1>2
  <2>2. disk # NoRecord => HashesIn(disk) = {}
    BY <1>2, FreshHashes, InHashes
  <2>. QED  BY <1>1, <2>1, <2>2 DEF NInv, HashInv, NewestInv
<1>3. ASSUME NEW old, old # "unsubmitted", disk = MigrateLegacySubmit(old), txs = OldTxs(old)
      PROVE  NInv
  <2>1. DOMAIN txs = Copies /\ \A t \in Copies : txs[t].copy = t
    BY <1>3 DEF OldTxs
  <2>2. \A c \in Copies : CopyHashes(disk[c]) = {c}
    <3>1. ASSUME NEW c \in Copies
          PROVE  DOMAIN disk[c].chunks = {1} /\ disk[c].chunks[1].tx = c
      <4>. DEFINE chunk == [NewChunk(Pieces) EXCEPT !.signed = TRUE, !.set = OldSet,
                                 !.pulled = TRUE, !.tx = c, !.done = (old = "committed")]
      <4>1. disk[c].chunks = <<chunk>>
        BY <1>3 DEF MigrateLegacySubmit
      <4>2. chunk.tx = c
        BY ChunkFacts DEF Chunk
      <4>. HIDE DEF chunk
      <4>. QED  BY <4>1, <4>2
    <3>2. \A c \in Copies : c # NoTx
      BY CopiesFacts DEF TxIds, NoTx
    <3>. QED  BY <3>1, <3>2 DEF CopyHashes
  <2>3. HashesIn(disk) \subseteq Copies
    BY <2>2, InHashes
  <2>4. HashInv
    <3>1. disk # NoRecord
      <4>1. DOMAIN disk = Copies
        BY <1>3 DEF MigrateLegacySubmit
      <4>2. DOMAIN NoRecord = {}
        BY DEF NoRecord
      <4>3. Copies # {}
        BY CopiesFacts
      <4>. QED  BY <4>1, <4>2, <4>3
    <3>2. recorded = Copies /\ DOMAIN txs = Copies /\ mem = NoRecord
      BY <1>1, <2>1
    <3>3. ASSUME NEW t \in Copies PROVE t \in CopyHashes(disk[txs[t].copy])
      BY <2>1, <2>2
    <3>4. \A r \in {disk, mem} \ {NoRecord} :
             \A t \in recorded : t \in CopyHashes(r[txs[t].copy])
      BY <3>2, <3>3
    <3>. QED  BY <2>3, <3>1, <3>2, <3>4 DEF HashInv
  <2>5. NewestInv
    <3>1. \A t \in Copies : Newest(t, txs)
      <4>1. Copies \subseteq Nat
        BY CopiesFacts DEF TxIds
      <4>2. ASSUME NEW t \in Copies, NEW u \in Copies, t < u, txs[t].copy = txs[u].copy
            PROVE  FALSE
        BY <2>1, <4>1, <4>2
      <4>. QED  BY <2>1, <4>2 DEF Newest
    <3>. QED  BY <1>1, <2>1, <3>1 DEF NewestInv
  <2>. QED  BY <1>1, <2>4, <2>5 DEF NInv
<1>4. CASE disk = NoRecord /\ txs = <<>>
  BY <1>2, <1>4
<1>5. ASSUME NEW old \in OldRecords, disk = MigrateLegacySubmit(old), txs = OldTxs(old)
      PROVE  NInv
  <2>1. CASE old = "unsubmitted"
    BY <1>2, <1>5, <2>1 DEF MigrateLegacySubmit, OldTxs
  <2>. QED  BY <1>3, <1>5, <2>1
<1>. QED  BY <1>4, <1>5 DEF Init

LEMMA KeepsNewest ==
    ASSUME "overlap" \notin FaultKinds, NInv, [Next]_vars
    PROVE  NInv'
<1>1. CASE UNCHANGED vars \/ PrimaryOver
  <2>1. UNCHANGED <<mem, disk, recorded, pc, posted, txs>>
    BY <1>1 DEF vars, PrimaryOver, envVars
  <2>2. IInv'
    BY Keeps DEF NInv
  <2>. QED  BY <2>1, <2>2, HashesAside
<1>2. ASSUME NEW c \in Copies, CopyStep(c) \/ CopyFault(c)
      PROVE  NInv'
  BY <1>2, QuietStepHashes, ReplacingHashes, SubmittedHash, PostedHash DEF CopyStep,
     CopyFault
<1>3. CASE StartRun \/ EndRun \/ CloseTab \/ HashWritten
  BY <1>3, StartRunHashes, RunEndsHashes, HashWrittenHashes
<1>4. CASE RequeueDeferred \/ VerifyReads \/ \E c \in Copies : VerifyWrites(c)
  BY <1>4, OperatorHashes
<1>5. CASE \/ \E t \in DOMAIN txs : TxLands(t) \/ TxReverts(t)
           \/ \E c \in Copies, p \in Pieces : AddedElsewhere(c, p)
  BY <1>5, ChainHashes
<1>. QED  BY <1>1, <1>2, <1>3, <1>4, <1>5 DEF Next

\* While a verify overlaps no other action, an add whose hash was recorded is
\* never repeated: a resumed run confirms it, whatever was lost since
\* (runChunks, onSubmitted, requeueDeferred, verifyContext).
THEOREM NoRepost ==
    ASSUME "overlap" \notin FaultKinds
    PROVE  Spec => []RecordedIsNotReposted
<1>1. NInv => RecordedIsNotReposted
  BY DEF NInv, NewestInv, Newest, RecordedIsNotReposted
<1>2. NInv /\ [Next]_vars => NInv'
  BY KeepsNewest
<1>. QED  BY StartsNewest, <1>1, <1>2, PTL DEF Spec

(***************************************************************************)
(* Commits are final.                                                      *)
(***************************************************************************)
\* What a copy calls committed stays at its place, with its pieces.
KeepsDone(old, new) ==
    \A i \in DOMAIN old.chunks : old.chunks[i].done =>
        /\ i \in DOMAIN new.chunks /\ new.chunks[i].done
        /\ new.chunks[i].pieces = old.chunks[i].pieces

RecordKeepsDone(old, new) ==
    old # NoRecord => new # NoRecord /\ \A c \in Copies : KeepsDone(old[c], new[c])

\* The run's record never falls behind the stored one.
FInv == IInv /\ (stage # "off" => RecordKeepsDone(disk, mem))

LEMMA KeepsDoneChains ==
    ASSUME NEW a, NEW b, NEW d, KeepsDone(a, b), KeepsDone(b, d)
    PROVE  KeepsDone(a, d)
BY DEF KeepsDone

LEMMA RecordKeepsItself == \A r : RecordKeepsDone(r, r)
BY DEF RecordKeepsDone, KeepsDone

LEMMA StaysCommitted ==
    ASSUME RecordKeepsDone(disk, disk'), NEW c \in Copies
    PROVE  CommittedPieces(disk, c) \subseteq CommittedPieces(disk', c)
<1>1. CASE disk = NoRecord
  BY <1>1 DEF CommittedPieces
<1>2. CASE disk # NoRecord
  <2>1. disk' # NoRecord /\ KeepsDone(disk[c], disk'[c])
    BY <1>2 DEF RecordKeepsDone
  <2>2. ASSUME NEW p \in CommittedPieces(disk, c)
        PROVE  p \in CommittedPieces(disk', c)
    <3>1. PICK i \in DOMAIN disk[c].chunks : disk[c].chunks[i].done /\ p \in disk[c].chunks[i].pieces
      BY <1>2 DEF CommittedPieces
    <3>2. /\ i \in DOMAIN disk'[c].chunks /\ disk'[c].chunks[i].done
          /\ p \in disk'[c].chunks[i].pieces
      BY <2>1, <3>1 DEF KeepsDone
    <3>. QED  BY <2>1, <3>2 DEF CommittedPieces
  <2>. QED  BY <2>2
<1>. QED  BY <1>1, <1>2

\* A step of a run stores the record it has, or nothing.
LEMMA RunKeepsDone ==
    ASSUME FInv, stage # "off", stage' # "off", IInv',
           \A c \in Copies : KeepsDone(mem[c], mem'[c]), disk' \in {disk, mem'}
    PROVE  FInv' /\ RecordKeepsDone(disk, disk')
<1>1. mem' # NoRecord
  BY DEF IInv, RunInv
<1>2. RecordKeepsDone(disk, mem) /\ mem # NoRecord
  BY RunFacts DEF FInv
<1>3. RecordKeepsDone(disk, mem')
  <2>1. ASSUME disk # NoRecord, NEW c \in Copies
        PROVE  KeepsDone(disk[c], mem'[c])
    <3>1. KeepsDone(disk[c], mem[c]) /\ KeepsDone(mem[c], mem'[c])
      BY <1>2, <2>1 DEF RecordKeepsDone
    <3>. QED  BY <3>1, KeepsDoneChains
  <2>. QED  BY <1>1, <2>1 DEF RecordKeepsDone
<1>. QED  BY <1>3, RecordKeepsItself DEF FInv

\* The chunk a copy is driven at is not committed, or is so afterwards.
LEMMA Remarked ==
    ASSUME IInv, NEW c \in Copies, Active(c), pc[c] \in Driven, NEW copy, NEW chunk,
           mem' = [mem EXCEPT ![c] = copy],
           copy.chunks = [mem[c].chunks EXCEPT ![cursor[c]] = chunk],
           pc[c] # "confirm" \/ (chunk.done /\ chunk.pieces = At(c).pieces)
    PROVE  \A d \in Copies : KeepsDone(mem[d], mem'[d])
<1>. DEFINE old == mem[c].chunks
            new == copy.chunks
            k == cursor[c]
<1>1. /\ k \in DOMAIN old /\ At(c) = old[k] /\ mem \in Record
      /\ pc[c] # "confirm" => ~ old[k].done
  BY StepFacts, ChunkAt DEF Unsent
<1>2. mem'[c] = copy /\ \A d \in Copies \ {c} : mem'[d] = mem[d]
  BY <1>1 DEF Record
<1>3. DOMAIN new = DOMAIN old /\ new[k] = chunk /\ \A i \in DOMAIN old : i # k => new[i] = old[i]
  BY <1>1
<1>4. KeepsDone(mem[c], copy)
  BY <1>1, <1>3 DEF KeepsDone
<1>. QED  BY <1>2, <1>4 DEF KeepsDone

\* The steps of a copy that leave its chunks alone.
LEMMA QuietStepMarks ==
    ASSUME IInv, NEW c \in Copies,
           \/ NextChunk(c) \/ BindCtx(c) \/ PullThrows(c) \/ PostRefused(c)
           \/ ConfirmFails(c) \/ AnswerLost(c) \/ Post(c)
    PROVE  (\A d \in Copies : KeepsDone(mem[d], mem'[d])) /\ disk' \in {disk, mem'}
<1>1. Active(c)
  BY DEF NextChunk, BindCtx, PullThrows, PostRefused, ConfirmFails, AnswerLost, Post
<1>2. mem \in Record /\ \A d \in Copies : mem[d] \in Copy
  BY <1>1, StepFacts, RunFacts
<1>3. (\A d \in Copies : mem'[d].chunks = mem[d].chunks) /\ disk' \in {disk, mem'}
  <2>1. CASE NextChunk(c)
    BY <2>1 DEF NextChunk, Save
  <2>2. CASE BindCtx(c) /\ mem' = mem
    BY <2>2, <1>2, CopiesFacts DEF BindCtx, Persist, Save
  <2>3. CASE BindCtx(c) /\ mem' # mem
    <3>1. PICK set : Persist([mem EXCEPT ![c].set = set])
      BY <2>3 DEF BindCtx
    <3>2. mem' = [mem EXCEPT ![c] = [mem[c] EXCEPT !.set = set]]
      BY <3>1 DEF Persist
    <3>3. \A d \in Copies : mem'[d].chunks = mem[d].chunks
      BY <1>2, <3>2 DEF Record, Copy
    <3>. QED  BY <3>1, <3>3 DEF Persist, Save
  <2>4. CASE \/ PullThrows(c) \/ PostRefused(c) \/ ConfirmFails(c) \/ AnswerLost(c) \/ Post(c)
    BY <2>4 DEF PullThrows, PostRefused, ConfirmFails, AnswerLost, CopyFails, Post
  <2>. QED  BY <2>1, <2>2, <2>3, <2>4
<1>. QED  BY <1>3 DEF KeepsDone

\* The steps of a copy that replace its chunk.
LEMMA ReplacingMarks ==
    ASSUME IInv, NEW c \in Copies,
           \/ EnsurePresigned(c) \/ SessionBlocks(c) \/ PullChunk(c) \/ FinishChunk(c)
           \/ OnSubmitted(c)
    PROVE  (\A d \in Copies : KeepsDone(mem[d], mem'[d])) /\ disk' \in {disk, mem'}
<1>1. Active(c) /\ pc[c] \in Driven
  BY DEF EnsurePresigned, SessionBlocks, PullChunk, FinishChunk, OnSubmitted, Driven
<1>2. /\ mem \in Record /\ mem[c] \in Copy /\ At(c) \in Chunk
  BY <1>1, StepFacts, ChunkAt, RunFacts
<1>3. disk' \in {disk, mem'}
  <2>1. CASE EnsurePresigned(c)
    BY <2>1 DEF EnsurePresigned, Persist, Save
  <2>2. CASE SessionBlocks(c) \/ OnSubmitted(c)
    BY <2>2 DEF SessionBlocks, OnSubmitted
  <2>3. CASE PullChunk(c)
    <3>1. disk' = disk \/ Save(mem') \/ disk' = mem'
      BY <2>3, Zenon DEF PullChunk
    <3>. QED  BY <3>1 DEF Save
  <2>4. CASE FinishChunk(c)
    BY <2>4 DEF FinishChunk, Persist, Save
  <2>. QED  BY <2>1, <2>2, <2>3, <2>4
<1>4. \A d \in Copies : KeepsDone(mem[d], mem'[d])
  <2>1. CASE mem' = mem
    BY <2>1 DEF KeepsDone
  <2>2. ASSUME NEW chunk, pc[c] # "confirm" \/ (chunk.done /\ chunk.pieces = At(c).pieces),
               NEW copy, mem' = [mem EXCEPT ![c] = copy],
               copy.chunks = WithChunk(c, chunk).chunks
        PROVE  \A d \in Copies : KeepsDone(mem[d], mem'[d])
    <3>1. WithChunk(c, chunk).chunks = [mem[c].chunks EXCEPT ![cursor[c]] = chunk]
      BY <1>2 DEF WithChunk, Copy
    <3>2. copy.chunks = [mem[c].chunks EXCEPT ![cursor[c]] = chunk]
      BY <2>2, <3>1
    <3>. QED  BY <1>1, <2>2, <3>2, Remarked, Zenon
  <2>3. ASSUME NEW chunk, mem' = [mem EXCEPT ![c] = WithChunk(c, chunk)], pc[c] # "confirm"
        PROVE  \A d \in Copies : KeepsDone(mem[d], mem'[d])
    <3>. DEFINE copy == WithChunk(c, chunk)
    <3>1. mem' = [mem EXCEPT ![c] = copy] /\ copy.chunks = WithChunk(c, chunk).chunks
      BY <2>3
    <3>. HIDE DEF copy
    <3>. QED  BY <2>2, <2>3, <3>1, Zenon
  <2>4. CASE EnsurePresigned(c) /\ mem' # mem
    <3>1. PICK chunk : mem' = [mem EXCEPT ![c] = WithChunk(c, chunk)]
      BY <2>4 DEF EnsurePresigned, Persist
    <3>2. pc[c] # "confirm"
      BY <2>4 DEF EnsurePresigned
    <3>. QED  BY <2>3, <3>1, <3>2
  <2>5. CASE SessionBlocks(c) \/ OnSubmitted(c)
    <3>1. PICK chunk : mem' = [mem EXCEPT ![c] = WithChunk(c, chunk)]
      BY <2>5 DEF SessionBlocks, OnSubmitted
    <3>2. pc[c] # "confirm"
      BY <2>5 DEF SessionBlocks, OnSubmitted
    <3>. QED  BY <2>3, <3>1, <3>2
  <2>6. CASE PullChunk(c) /\ mem' # mem
    <3>0. pc[c] # "confirm"
      BY <2>6 DEF PullChunk
    <3>1. PICK F \in SUBSET At(c).pieces :
             \/ mem' = [mem EXCEPT ![c] = WithChunk(c, [At(c) EXCEPT !.pulled = TRUE])]
             \/ mem' = [mem EXCEPT ![c] = WithChunk(c, [At(c) EXCEPT !.signed = FALSE, !.set = NoSet])]
             \/ mem' = [mem EXCEPT ![c] = Carve(c, F)]
      BY <2>6 DEF PullChunk
    <3>2. CASE mem' = [mem EXCEPT ![c] = Carve(c, F)]
      <4>. DEFINE left == At(c).pieces \ F
                  chunk == [At(c) EXCEPT !.pieces = left, !.signed = FALSE, !.set = NoSet,
                                         !.pulled = left # {}, !.done = left = {}]
      <4>1. Carve(c, F) = [WithChunk(c, chunk) EXCEPT !.deferred = @ \cup F]
        BY DEF Carve
      <4>. HIDE DEF chunk
      <4>2. Carve(c, F).chunks = WithChunk(c, chunk).chunks
        BY <1>2, <4>1 DEF WithChunk, Copy
      <4>. DEFINE copy == Carve(c, F)
      <4>3. mem' = [mem EXCEPT ![c] = copy] /\ copy.chunks = WithChunk(c, chunk).chunks
        BY <3>2, <4>2
      <4>. HIDE DEF copy
      <4>. QED  BY <2>2, <3>0, <4>3, Zenon
    <3>. QED  BY <2>3, <3>0, <3>1, <3>2
  <2>7. CASE FinishChunk(c)
    <3>. DEFINE chunk == [At(c) EXCEPT !.done = TRUE]
                set == IF At(c).set = NoSet THEN At(c).tx ELSE At(c).set
                copy == [WithChunk(c, chunk) EXCEPT !.set = set]
    <3>1. mem' = [mem EXCEPT ![c] = copy]
      BY <2>7 DEF FinishChunk, Persist
    <3>2. chunk.done /\ chunk.pieces = At(c).pieces
      BY <1>2 DEF Chunk
    <3>3. copy.chunks = WithChunk(c, chunk).chunks
      BY <1>2 DEF WithChunk, Copy
    <3>. HIDE DEF chunk, copy
    <3>. QED  BY <2>2, <3>1, <3>2, <3>3
  <2>. QED  BY <2>1, <2>4, <2>5, <2>6, <2>7
<1>. QED  BY <1>3, <1>4

LEMMA CopyMarks ==
    ASSUME FInv, IInv', NEW c \in Copies, CopyStep(c) \/ CopyFault(c)
    PROVE  FInv' /\ RecordKeepsDone(disk, disk')
<1>1. IInv /\ stage' = stage /\ stage # "off"
  BY DEF FInv, CopyStep, CopyFault, NextChunk, BindCtx, EnsurePresigned, PullChunk, Post,
         OnSubmitted, FinishChunk, ConfirmFails, SessionBlocks, PullThrows, PostRefused,
         AnswerLost, CopyFails, Active
<1>2. (\A d \in Copies : KeepsDone(mem[d], mem'[d])) /\ disk' \in {disk, mem'}
  BY <1>1, QuietStepMarks, ReplacingMarks DEF CopyStep, CopyFault
<1>. QED  BY <1>1, <1>2, RunKeepsDone

\* The start and the end of a run, and the late write of a hash.
LEMMA RunMarks ==
    ASSUME FInv, IInv', StartRun \/ EndRun \/ CloseTab \/ HashWritten \/ PrimaryOver
    PROVE  FInv' /\ RecordKeepsDone(disk, disk')
<1>1. CASE StartRun
  <2>. DEFINE plan(sets) == IF disk # NoRecord THEN disk
                            ELSE [c \in Copies |-> FreshCopy(sets[c])]
  <2>1. PICK sets \in [Copies -> Sets] : /\ mem' = plan(sets)
                                         /\ disk' = plan(sets) \/ UNCHANGED disk
    BY <1>1, Zenon DEF StartRun, Fault
  <2>. DEFINE record == plan(sets)
  <2>2. disk # NoRecord => record = disk
    OBVIOUS
  <2>. HIDE DEF plan
  <2>3. RecordKeepsDone(disk, disk') /\ RecordKeepsDone(disk', mem')
    BY <2>1, <2>2, RecordKeepsItself DEF RecordKeepsDone
  <2>. QED  BY <2>3 DEF FInv
<1>2. CASE EndRun \/ CloseTab
  <2>1. stage' = "off"
    BY <1>2 DEF EndRun, CloseTab, Forget
  <2>2. disk' = disk \/ (stage # "off" /\ disk' = mem)
    BY <1>2 DEF EndRun, CloseTab, Save
  <2>. QED  BY <2>1, <2>2, RecordKeepsItself DEF FInv
<1>3. CASE HashWritten \/ PrimaryOver
  <2>1. /\ mem' = mem /\ disk' \in {disk, mem'}
        /\ stage # "off" /\ stage' # "off"
    BY <1>3 DEF HashWritten, PrimaryOver, Save, FInv, IInv, RunInv
  <2>2. \A c \in Copies : KeepsDone(mem[c], mem'[c])
    BY <2>1 DEF KeepsDone
  <2>. QED  BY <2>1, <2>2, RunKeepsDone
<1>. QED  BY <1>1, <1>2, <1>3

\* Chunks are put at the end.
LEMMA ExtendedMarks ==
    ASSUME NEW copy, NEW new, copy.chunks \in Seq(Chunk), NEW more \in Seq(Chunk),
           new.chunks = copy.chunks \o more
    PROVE  KeepsDone(copy, new)
<1>. DEFINE old == copy.chunks
            all == new.chunks
<1>1. more \in Seq(Chunk) /\ all = old \o more
  OBVIOUS
<1>2. DOMAIN old = 1 .. Len(old) /\ Len(old) \in Nat /\ Len(more) \in Nat
  BY <1>1, LenProperties
<1>3. /\ DOMAIN all = 1 .. Len(old) + Len(more)
      /\ \A i \in 1 .. Len(old) + Len(more) :
            all[i] = IF i <= Len(old) THEN old[i] ELSE more[i - Len(old)]
  BY <1>1, ConcatProperties, LenProperties
<1>. HIDE DEF old, all
<1>4. \A i \in DOMAIN old : i \in DOMAIN all /\ all[i] = old[i]
  BY <1>2, <1>3
<1>. QED  BY <1>4 DEF KeepsDone, old, all

LEMMA OperatorMarks ==
    ASSUME "overlap" \notin FaultKinds, FInv, IInv',
           RequeueDeferred \/ VerifyReads \/ \E c \in Copies : VerifyWrites(c)
    PROVE  FInv' /\ RecordKeepsDone(disk, disk')
<1>1. IInv /\ UNCHANGED <<mem, stage>>
  BY DEF FInv, RequeueDeferred, VerifyReads, VerifyWrites, envVars, memVars
<1>2. disk # NoRecord => disk \in Record /\ \A c \in Copies : disk[c] \in Copy
  BY <1>1 DEF IInv, TypeOK, Record
<1>3. ASSUME disk # NoRecord, disk' # NoRecord, stage = "off" \/ disk' = disk,
             \A c \in Copies : KeepsDone(disk[c], disk'[c])
      PROVE  FInv' /\ RecordKeepsDone(disk, disk')
  BY <1>1, <1>3 DEF FInv, RecordKeepsDone
<1>4. CASE RequeueDeferred
  <2>1. /\ disk # NoRecord /\ stage = "off"
        /\ disk' = [c \in Copies |-> IF disk[c].deferred = {} THEN disk[c] ELSE Requeued(disk[c])]
    BY <1>4 DEF RequeueDeferred
  <2>2. ASSUME NEW c \in Copies
        PROVE  KeepsDone(disk[c], Requeued(disk[c]))
    <3>1. disk[c].chunks \in Seq(Chunk) /\ disk[c].deferred \in SUBSET Pieces
      BY <1>2, <2>1, CopyFacts
    <3>2. Requeued(disk[c]).chunks = disk[c].chunks \o ChunksOf(disk[c].deferred)
      BY <1>2, <2>1 DEF Requeued, Copy
    <3>3. ChunksOf(disk[c].deferred) \in Seq(Chunk)
      BY <3>1, ChunksPartition
    <3>. QED  BY <3>1, <3>2, <3>3, ExtendedMarks
  <2>3. \A c \in Copies : KeepsDone(disk[c], disk'[c])
    <3>1. \A c \in Copies : KeepsDone(disk[c], disk[c])
      BY DEF KeepsDone
    <3>. QED  BY <2>1, <2>2, <3>1
  <2>4. disk' # NoRecord
    <3>1. DOMAIN disk' = Copies
      BY <2>1
    <3>. QED  BY <3>1, CopiesFacts DEF NoRecord
  <2>. QED  BY <1>3, <2>1, <2>3, <2>4
<1>5. CASE VerifyReads
  BY <1>1, <1>5, RecordKeepsItself DEF VerifyReads, FInv
<1>6. ASSUME NEW c \in Copies, VerifyWrites(c)
      PROVE  FInv' /\ RecordKeepsDone(disk, disk')
  <2>. DEFINE found == looked[c].deferred \cap OnChain(c)
              chunk == [NewChunk(found) EXCEPT !.pulled = TRUE, !.done = TRUE]
              copy == [disk[c] EXCEPT !.deferred = @ \ found, !.chunks = Append(@, chunk)]
  <2>1. looked # NoRecord /\ disk = looked /\ stage = "off"
    BY <1>6 DEF VerifyWrites
  <2>2. disk' = disk \/ disk' = [disk EXCEPT ![c] = copy]
    <3>1. \/ disk' = disk
          \/ disk' = [looked EXCEPT ![c].deferred = @ \ found,
                                    ![c].chunks = Append(@, chunk)]
      BY <1>6 DEF VerifyWrites
    <3>2. [disk EXCEPT ![c].deferred = @ \ found, ![c].chunks = Append(@, chunk)]
              = [disk EXCEPT ![c] = copy]
      <4>. HIDE DEF found, chunk
      <4>. QED  OBVIOUS
    <3>. HIDE DEF found, chunk, copy
    <3>. QED  BY <2>1, <3>1, <3>2
  <2>3. CASE disk' = disk
    BY <1>1, <2>1, <2>3, RecordKeepsItself DEF FInv
  <2>4. CASE disk' = [disk EXCEPT ![c] = copy]
    <3>1. disk \in Record /\ disk[c] \in Copy /\ disk[c].chunks \in Seq(Chunk)
          /\ found \in SUBSET Pieces
      BY <1>2, <2>1, CopyFacts
    <3>2. chunk \in Chunk
      <4>1. NewChunk(found) \in Chunk
        BY <3>1, ChunkFacts
      <4>. QED  BY <4>1 DEF Chunk
    <3>. HIDE DEF chunk, found
    <3>3. copy.chunks = disk[c].chunks \o <<chunk>>
      <4>1. copy.chunks = Append(disk[c].chunks, chunk)
        BY <3>1 DEF Copy
      <4>2. Append(disk[c].chunks, chunk) = disk[c].chunks \o <<chunk>>
        BY <3>1, <3>2, AppendIsConcat
      <4>. HIDE DEF copy
      <4>. QED  BY <4>1, <4>2
    <3>. HIDE DEF copy
    <3>4. <<chunk>> \in Seq(Chunk)
      BY <3>2
    <3>5. KeepsDone(disk[c], copy)
      BY <3>1, <3>3, <3>4, ExtendedMarks
    <3>6. disk'[c] = copy /\ (\A d \in Copies : d # c => disk'[d] = disk[d]) /\ DOMAIN disk' = Copies
      BY <2>4, <3>1 DEF Record
    <3>7. disk' # NoRecord
      BY <3>6, CopiesFacts DEF NoRecord
    <3>8. \A d \in Copies : KeepsDone(disk[d], disk'[d])
      BY <3>5, <3>6 DEF KeepsDone
    <3>. QED  BY <1>3, <2>1, <3>7, <3>8
  <2>. QED  BY <2>2, <2>3, <2>4
<1>. QED  BY <1>4, <1>5, <1>6

LEMMA MarksStep ==
    ASSUME "overlap" \notin FaultKinds, FInv, [Next]_vars
    PROVE  FInv' /\ RecordKeepsDone(disk, disk')
<1>1. IInv'
  BY Keeps DEF FInv
<1>2. ASSUME UNCHANGED <<disk, mem, stage>>
      PROVE  FInv' /\ RecordKeepsDone(disk, disk')
  BY <1>1, <1>2, RecordKeepsItself DEF FInv
<1>3. CASE \/ UNCHANGED vars
           \/ \E t \in DOMAIN txs : TxLands(t) \/ TxReverts(t)
           \/ \E c \in Copies, p \in Pieces : AddedElsewhere(c, p)
  BY <1>2, <1>3 DEF vars, TxLands, TxReverts, AddedElsewhere, memVars
<1>. QED  BY <1>1, <1>3, CopyMarks, RunMarks, OperatorMarks DEF Next

\* While a verify overlaps no other action, no write of the record takes a commit
\* back, for any number of copies, pieces and runs, and whichever writes fail or
\* come late (persist, onSubmitted, requeueDeferred, verifyContext).
THEOREM CommitsAreFinal ==
    ASSUME "overlap" \notin FaultKinds
    PROVE  Spec => CommittedIsFinal
<1>1. Init => FInv
  BY Starts DEF Init, FInv
<1>2. FInv /\ [Next]_vars => FInv'
  BY MarksStep
<1>3. FInv /\ [Next]_vars =>
         [\A c \in Copies : CommittedPieces(disk, c) \subseteq CommittedPieces(disk', c)]_vars
  BY MarksStep, StaysCommitted
<1>. QED  BY <1>1, <1>2, <1>3, PTL DEF Spec, CommittedIsFinal
================================================================================
