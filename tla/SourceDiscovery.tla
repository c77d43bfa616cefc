---------------------------- MODULE SourceDiscovery -----------------------------
(***************************************************************************)
(* Which origins a root is raced over (provider-discovery.ts): a lookup    *)
(* for it, or the answer learned from the lookups for other roots.  Route  *)
(* of FetchStack is what comes out of it, then the community gateway.      *)
(*                                                                         *)
(* A lookup is a record of the gateways it names (or NoGateway), the peers *)
(* (or NoPeers), and whether it answered at all.  Calls are served one     *)
(* after the other: the turn after a call's last await is atomic, and what *)
(* calls in flight share is only the state below.                          *)
(***************************************************************************)
EXTENDS Naturals, Sequences, SequencesExt, FiniteSetsExt, Functions

CONSTANTS
    Gateways,        \* the lists of gateways that lookups name
    NoGateway,       \* the empty list
    NoPeers,         \* no browser-dialable peer
    LearnAfter,      \* answers before one is reused
    MajorityPercent, \* share it must hold
    RevalidateEvery, \* while one is learned, every so-manieth call asks
    DecayAt          \* answers at which the tally is halved

ASSUME DiscoveryAssumption ==
    /\ NoGateway \notin Gateways
    /\ {LearnAfter, RevalidateEvery, DecayAt} \subseteq Nat \ {0}
    /\ MajorityPercent \in 51 .. 100

Nothing == [answers |-> 0, learned |-> NoGateway, uses |-> 0,
            count |-> [g \in Gateways |-> 0], peers |-> [g \in Gateways |-> NoPeers]]

\* A key that is no longer in the tally is as good as none
Learned(s) == s.learned # NoGateway /\ s.count[s.learned] > 0

Halved(s) ==
    LET half == [g \in Gateways |-> s.count[g] \div 2]
    IN  [s EXCEPT !.count = half,
                  !.answers = FoldFunction(LAMBDA n, sum : n + sum, 0, half),
                  !.peers = [g \in Gateways |-> IF half[g] = 0 THEN NoPeers ELSE @[g]]]

HasMajority(s, g) == s.count[g] * 100 >= MajorityPercent * s.answers

\* The most frequent answer is taken on, or the learned one given up
Chosen(s) ==
    LET best == {g \in Gateways : s.count[g] >= LearnAfter /\ HasMajority(s, g)} IN
    CASE best # {} -> [s EXCEPT !.learned = CHOOSE g \in best : TRUE]
      [] best = {} /\ s.learned # NoGateway /\ ~HasMajority(s, s.learned) ->
            [s EXCEPT !.learned = NoGateway]
      [] OTHER -> s

Learn(s, lookup) ==
    IF lookup.gateways = NoGateway THEN s
    ELSE LET g == lookup.gateways
             counted == [s EXCEPT !.count[g] = @ + 1, !.answers = @ + 1,
                            !.peers[g] = IF lookup.peers = NoPeers THEN @ ELSE lookup.peers]
         IN  Chosen(IF counted.answers >= DecayAt THEN Halved(counted) ELSE counted)

LearnedSources(s) == [gateways |-> s.learned, peers |-> s.peers[s.learned]]
Empty == [gateways |-> NoGateway, peers |-> NoPeers]

\* One call: the state after it, the sources it returns, and whether it asked
Discover(s, fresh, lookup) ==
    LET counts == ~fresh /\ Learned(s)
        s2     == IF counts THEN [s EXCEPT !.uses = @ + 1] ELSE s
        asks   == ~counts \/ s2.uses % RevalidateEvery = 0
        after  == IF asks /\ lookup.ok THEN Learn(s2, lookup) ELSE s2
    IN  [state |-> after,
         asked |-> asks,
         sources |-> CASE ~asks -> LearnedSources(s2)
                       [] asks /\ lookup.ok -> [gateways |-> lookup.gateways, peers |-> lookup.peers]
                       [] asks /\ ~lookup.ok -> IF counts THEN LearnedSources(s2) ELSE Empty]

--------------------------------------------------------------------------------
(* What it is to do *)

Answer(g) == [gateways |-> g, peers |-> NoPeers, ok |-> TRUE]
Answers(h) == FoldLeft(Learn, Nothing, [i \in DOMAIN h |-> Answer(h[i])])

\* After any answers, halvings included, the shares add up, and an answer is only
\* reused while it holds its majority among those still in the tally
TallyIsSound(h) ==
    LET s == Answers(h) IN
    /\ s.answers = FoldFunction(LAMBDA n, sum : n + sum, 0, s.count)
    /\ s.answers < DecayAt
    /\ Learned(s) => HasMajority(s, s.learned) /\ s.learned \in ToSet(h)

\* When the roots move from one provider to another the learned answer is dropped
\* after at most so many lookups as its majority has to be outvoted by, whatever
\* was answered before: the halving is what bounds it
\* (provider-discovery.ts:76-77, 91-95)
Outvoted == ((DecayAt - 1) * (100 - MajorityPercent)) \div MajorityPercent + 1
ShiftIsNoticed(h) ==
    \A g \in Gateways : Answers(h).learned \notin {g, NoGateway} =>
        Answers(h \o [i \in 1 .. Outvoted |-> g]).learned # Answers(h).learned

\* n calls of a run, each for a root whose lookup would name g
RECURSIVE Calls(_, _, _)
Calls(s, g, n) ==
    IF n = 0 THEN [state |-> s, lookups |-> 0]
    ELSE LET call == Discover(s, FALSE, Answer(g))
             rest == Calls(call.state, g, n - 1)
         IN  [rest EXCEPT !.lookups = @ + IF call.asked THEN 1 ELSE 0]

\* An inventory that lives on one provider is looked up LearnAfter times, then once
\* per RevalidateEvery calls (provider-discovery.ts:66-77)
LookupsAreSpared(n) ==
    \A g \in Gateways : Calls(Nothing, g, n).lookups <=
        LearnAfter + (IF n > LearnAfter THEN n - LearnAfter ELSE 0) \div RevalidateEvery

\* "so a provider shift mid-run drops the learned answer within one stripe"
\* (provider-discovery.ts:76-77): one lookup in RevalidateEvery calls does not outvote
\* a majority of more than a few answers
DroppedWithinStripe(h) ==
    \A g \in Gateways : Answers(h).learned \notin {g, NoGateway} =>
        Calls(Answers(h), g, RevalidateEvery).state.learned # Answers(h).learned
================================================================================
