----------------------------- MODULE MCFetchStack ------------------------------
(* Three roots of which two prefer the same origin, with the community gateway  *)
(* as the last source of each.  How the origins of a root are learned is checked *)
(* here too: every sequence of up to nine answers of two providers or none, with *)
(* an answer reused after two, a majority of 70 % and a tally halved at six.     *)
EXTENDS FetchStack, SourceDiscovery

MCRoute == [p \in Pieces |-> IF p = 3 THEN <<"g">> ELSE <<"o", "g">>]

ASSUME LearningAssumption ==
    /\ \A h \in BoundedSeq(Gateways \cup {NoGateway}, 9) : TallyIsSound(h) /\ ShiftIsNoticed(h)
    /\ \A n \in 0 .. 12 : LookupsAreSpared(n)
================================================================================
