------------------------------ MODULE MCCarStream ------------------------------
(* A root with two files and a block shared between them, one of its links an   *)
(* identity block; every stream one fault away from the canonical one.          *)
(* Checked besides: Canonical is what the recursive definition of depth-first      *)
(* pre-order computes, for every graph of four blocks with two links each.        *)
EXTENDS CarStream

MCBlocks == {"r", "a", "b", "c", "d", "i", "e"}
MCLinks ==
    [x \in MCBlocks |->
        CASE x = "r" -> <<"a", "b">>
          [] x = "a" -> <<"c", "d">>
          [] x = "b" -> <<"c", "i">>
          [] x = "i" -> <<"e">>
          [] OTHER   -> <<>>]

LOCAL Order == <<"r", "a", "c", "d", "b", "e">>
LOCAL AsFrames(s) == [k \in DOMAIN s |-> [block |-> s[k], valid |-> TRUE]]
LOCAL Whole == AsFrames(Order)
LOCAL Positions == DOMAIN Whole

MCStreams ==
    {Whole}
    \cup {SubSeq(Whole, 1, n) : n \in 0 .. Len(Whole)}
    \cup {RemoveAt(Whole, n) : n \in Positions}
    \cup {[Whole EXCEPT ![n].valid = FALSE] : n \in Positions}
    \cup {[Whole EXCEPT ![n] = Whole[m], ![m] = Whole[n]] : n, m \in Positions}
    \cup {InsertAt(Whole, n, Whole[m]) : n, m \in Positions}
WholeOnly == {Whole}

RECURSIVE Visit(_, _, _)
Visit(links, order, b) ==
    IF Contains(order, b) THEN order
    ELSE FoldLeft(LAMBDA o, l : Visit(links, o, l), Append(order, b), links[b])

Nodes == 1 .. 4
Graphs == [Nodes -> {links \in UNION {[1 .. n -> Nodes] : n \in 0 .. 2} : IsInjective(links)}]
Graph(links, inlined) ==
    INSTANCE CarStream WITH Blocks <- Nodes, Root <- 1, Links <- links, Identity <- inlined

ASSUME PreorderAssumption ==
    \A links \in Graphs, inlined \in {{}, {2}} :
        Graph(links, inlined)!Canonical
            = SelectSeq(Visit(links, <<>>, 1), LAMBDA b : b \notin inlined)
================================================================================
