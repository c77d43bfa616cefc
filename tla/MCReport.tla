-------------------------------- MODULE MCReport --------------------------------
(* An aggregate and an upload over two CIDs: of one each, or both of the first.     *)
(* The root by which the report knows an aggregate on chain is checked here too:    *)
(* up to four sub-pieces of up to eight units, each of the least or the largest raw *)
(* size of its height.                                                              *)
EXTENDS Report, PieceAggregate

OneAggregate == <<"a">>
OneUpload == <<"u">>
DisjointOrSame == {[x \in {"a", "u"} |-> IF x = "a" THEN <<1>> ELSE cids] : cids \in {<<2>>, <<1>>}}

Heights == UNION {[1 .. n -> 0 .. 3] : n \in 1 .. 4}
LeastRaw(h) == IF h = 0 THEN 1 ELSE 2^(h - 1) + 1
ASSUME RootAssumption ==
    \A heights \in Heights : \A low \in SUBSET DOMAIN heights :
        RootIsLayout(heights, [i \in DOMAIN heights |->
            IF i \in low THEN LeastRaw(heights[i]) ELSE 2^heights[i]])
================================================================================
