----------------------------- MODULE PieceAggregate -----------------------------
(***************************************************************************)
(* pieceAggregateCommP (core, piece-aggregate.ts): the root of an          *)
(* aggregate from the commitments of its sub-pieces, which pdp-submit adds *)
(* and the report looks up on chain.                                       *)
(*                                                                         *)
(* A commitment stands for what it commits to: the sequence of the units   *)
(* of its tree, <<i, k>> the k-th unit of sub-piece i and ZeroUnit a unit  *)
(* of zeros, so that combining two nodes is concatenation.  A node also    *)
(* carries the height the code believes it has: combining two nodes of     *)
(* different heights would show as a length that is not 2^height.          *)
(* Sub-pieces are given by their heights and raw sizes, in units.          *)
(***************************************************************************)
EXTENDS Naturals, Sequences, SequencesExt

ZeroUnit == <<0, 0>>

ComputeNode(left, right) == left \o right
ZeroComm(level) == [k \in 1 .. 2^level |-> ZeroUnit]
SubPieceNode(heights, i) == [h |-> heights[i], n |-> [k \in 1 .. 2^heights[i] |-> <<i, k>>]]

\* Array.sort is stable: largest first, equal heights in the order given
LargestFirst(heights) ==
    SetToSortSeq(DOMAIN heights,
        LAMBDA i, j : heights[i] > heights[j] \/ (heights[i] = heights[j] /\ i < j))

\* A node is placed: it is combined with its left neighbour while they are as high
RECURSIVE Placed(_, _)
Placed(stack, cur) ==
    IF stack # <<>> /\ Last(stack).h = cur.h
      THEN Placed(Front(stack), [h |-> cur.h + 1, n |-> ComputeNode(Last(stack).n, cur.n)])
      ELSE Append(stack, cur)

\* The right-most node is raised to the height of its neighbour with zeros
RECURSIVE Raised(_, _)
Raised(right, h) ==
    IF right.h < h
      THEN Raised([h |-> right.h + 1, n |-> ComputeNode(right.n, ZeroComm(right.h))], h)
      ELSE right

RECURSIVE Reduced(_)
Reduced(stack) ==
    IF Len(stack) = 1 THEN stack[1]
    ELSE LET left == stack[Len(stack) - 1]
             right == Raised(Last(stack), left.h)
         IN  Reduced(Append(SubSeq(stack, 1, Len(stack) - 2),
                            [h |-> left.h + 1, n |-> ComputeNode(left.n, right.n)]))

\* The least height whose tree holds so many units
HeightOf(units) == CHOOSE h \in 0 .. units : 2^h >= units /\ (h = 0 \/ 2^(h - 1) < units)

\* envelope: the height the v2 CID of the root carries
PieceAggregateCommP(heights, raw) ==
    LET order == LargestFirst(heights)
        stack == FoldLeft(LAMBDA st, i : Placed(st, SubPieceNode(heights, i)), <<>>, order)
        size  == FoldLeft(LAMBDA sum, r : sum + r, 0, raw)
    IN  [root |-> Reduced(stack), ordered |-> order, rawSize |-> size,
         envelope |-> HeightOf(size)]

--------------------------------------------------------------------------------
(* What it is to compute *)

\* The sub-pieces one after the other, then zeros up to a power of two
Layout(heights) ==
    LET units == FlattenSeq([p \in DOMAIN heights |->
                               SubPieceNode(heights, LargestFirst(heights)[p]).n])
    IN  units \o [k \in 1 .. 2^HeightOf(Len(units)) - Len(units) |-> ZeroUnit]

\* Each sub-piece is a whole subtree: it starts at a multiple of its own size
Aligned(heights, units) ==
    \A i \in DOMAIN heights : \E a \in 0 .. Len(units) \div 2^heights[i] :
        SubSeq(units, a * 2^heights[i] + 1, (a + 1) * 2^heights[i]) = SubPieceNode(heights, i).n

\* For any sub-pieces: the root is that of the layout, in a tree every node of which
\* has two children of one height; each sub-piece is a subtree of it; and the
\* envelope is at most as high as the tree (piece-aggregate.ts:5-8, 88-96)
RootIsLayout(heights, raw) ==
    LET aggregate == PieceAggregateCommP(heights, raw) IN
    /\ aggregate.root.n = Layout(heights)
    /\ Len(aggregate.root.n) = 2^aggregate.root.h
    /\ Aligned(heights, aggregate.root.n)
    /\ aggregate.envelope <= aggregate.root.h
================================================================================
