------------------------------ MODULE AddLedger ------------------------------
(***************************************************************************)
(* What one storage provider's books promise about on-chain adds, whatever *)
(* the upload loop does: a piece is put on chain only under a durable      *)
(* "attempted" mark, it is declared confirmed only once an add of it has   *)
(* landed, and confirmed is final.  An attempt may be withdrawn (the       *)
(* provider rejected it, or its outcome could not be seen after a          *)
(* restart); an add already sent may still land after that.                *)
(***************************************************************************)
CONSTANT Pieces

VARIABLES
    stage,   \* what the local books say of each piece
    sent,    \* pieces some add transaction was broadcast for
    landed   \* pieces some add transaction landed for

vars == <<stage, sent, landed>>

Stage == {"unsent", "attempted", "confirmed"}

Init ==
    /\ stage = [p \in Pieces |-> "unsent"]
    /\ sent = {}
    /\ landed = {}

Attempt(S) ==
    /\ \A p \in S : stage[p] = "unsent"
    /\ stage' = [p \in Pieces |-> IF p \in S THEN "attempted" ELSE stage[p]]
    /\ UNCHANGED <<sent, landed>>

Broadcast(S) ==
    /\ \A p \in S : stage[p] = "attempted"
    /\ sent' = sent \cup S
    /\ UNCHANGED <<stage, landed>>

Land(S) ==
    /\ S \subseteq sent
    /\ landed' = landed \cup S
    /\ UNCHANGED <<stage, sent>>

Confirm(p) ==
    /\ stage[p] = "attempted"
    /\ p \in landed
    /\ stage' = [stage EXCEPT ![p] = "confirmed"]
    /\ UNCHANGED <<sent, landed>>

\* an add whose attempt was withdrawn is found to have landed after all
Discover(p) ==
    /\ stage[p] = "unsent"
    /\ p \in landed
    /\ stage' = [stage EXCEPT ![p] = "confirmed"]
    /\ UNCHANGED <<sent, landed>>

Withdraw(S) ==
    /\ \A p \in S : stage[p] = "attempted"
    /\ stage' = [p \in Pieces |-> IF p \in S THEN "unsent" ELSE stage[p]]
    /\ UNCHANGED <<sent, landed>>

Next ==
    \/ \E S \in SUBSET Pieces : Attempt(S) \/ Broadcast(S) \/ Land(S) \/ Withdraw(S)
    \/ \E p \in Pieces : Confirm(p) \/ Discover(p)

Spec == Init /\ [][Next]_vars
=============================================================================
