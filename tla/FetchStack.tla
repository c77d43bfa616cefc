------------------------------- MODULE FetchStack ------------------------------
(***************************************************************************)
(* What the attempts to prepare pieces share in the browser: the slots of  *)
(* each origin (origin-limiter.ts), which the sources of a root race for   *)
(* (source-race.ts), and the hash workers (hash-pool.ts), one of which a   *)
(* piece claims once it has bytes to hash (commp.ts computePiece).         *)
(*                                                                         *)
(* A piece here is one attempt at it. Route gives the origins that serve   *)
(* its root, preferred first; the stream of blocks after the first one is  *)
(* CarStream's subject and shows here as "some time later".                *)
(***************************************************************************)
EXTENDS Integers, FiniteSets, SequencesExt

CONSTANTS Pieces, Origins, Route, Cap, StallTrip, PoolSize, HangsIn, MaxHangs

ASSUME StackAssumption ==
    /\ Cap \in Nat \ {0} /\ PoolSize \in Nat \ {0} /\ StallTrip \in Nat \ {0}
    /\ IsFiniteSet(Pieces)
    /\ \A p \in Pieces : Route[p] \in Seq(Origins) \ {<<>>} /\ IsInjective(Route[p])
    /\ HangsIn \subseteq {"begin", "job"}

VARIABLES
    phase,   \* the attempt: new, retrieve, claim, hash, done, failed
    race,    \* its race of sources: racing, won, over
    cand,    \* each of its sources
    held,    \* per origin: slots held
    queue,   \* per origin: the pieces that queue for a slot
    streak,  \* per origin: stalls with no progress between them
    cooling, \* per origin: its breaker has tripped
    job,     \* per piece: none, waiting for a worker, begin posted, job held
    idle,    \* idle hash workers
    live,    \* liveWorkers
    waiters, \* the pieces that wait for a worker
    hung     \* the pieces whose worker will never answer

limiterVars == <<held, queue>>
breakerVars == <<streak, cooling>>
poolVars == <<job, idle, live, waiters>>
vars == <<phase, race, cand, limiterVars, breakerVars, poolVars, hung>>

Live == {"queued", "opening", "yielded", "streaming", "closing"}
Holding == Live \ {"queued"}
Settled(p) == phase[p] \in {"done", "failed"}
Leased == {p \in Pieces : job[p] \in {"begin", "job"}}

TypeOK ==
    /\ phase \in [Pieces -> {"new", "retrieve", "claim", "hash", "done", "failed"}]
    /\ race \in [Pieces -> {"racing", "won", "over"}]
    /\ cand \in [Pieces -> [Origins -> Live \cup {"none", "over"}]]
    /\ held \in [Origins -> 0 .. Cap]
    /\ queue \in [Origins -> Seq(Pieces)]
    /\ streak \in [Origins -> 0 .. StallTrip - 1] /\ cooling \in [Origins -> BOOLEAN]
    /\ job \in [Pieces -> {"none", "waiting", "begin", "job"}]
    /\ {idle, live} \subseteq 0 .. PoolSize
    /\ waiters \in Seq(Pieces)
    /\ hung \subseteq Pieces

Init ==
    /\ phase = [p \in Pieces |-> "new"]
    /\ race = [p \in Pieces |-> "racing"]
    /\ cand = [p \in Pieces |-> [o \in Origins |-> "none"]]
    /\ held = [o \in Origins |-> 0] /\ queue = [o \in Origins |-> <<>>]
    /\ streak = [o \in Origins |-> 0] /\ cooling = [o \in Origins |-> FALSE]
    /\ job = [p \in Pieces |-> "none"]
    /\ idle = 0 /\ live = 0 /\ waiters = <<>>
    /\ hung = {}

--------------------------------------------------------------------------------
(* Origin slots *)

\* A source of p asks o for a slot: at once, or at the end of the queue
AcquireSlot(p, o) ==
    \/ /\ held[o] < Cap
       /\ held' = [held EXCEPT ![o] = @ + 1]
       /\ cand' = [cand EXCEPT ![p][o] = "opening"]
       /\ UNCHANGED queue
    \/ /\ held[o] >= Cap
       /\ queue' = [queue EXCEPT ![o] = Append(@, p)]
       /\ cand' = [cand EXCEPT ![p][o] = "queued"]
       /\ UNCHANGED held

\* A slot freed on o goes straight to the head of its queue; c: the sources with
\* the one that frees it already settled
FreeSlot(o, c) ==
    IF queue[o] = <<>>
      THEN /\ held' = [held EXCEPT ![o] = @ - 1]
           /\ cand' = c
           /\ UNCHANGED queue
      ELSE /\ cand' = [c EXCEPT ![Head(queue[o])][o] = "opening"]
           /\ queue' = [queue EXCEPT ![o] = Tail(@)]
           /\ UNCHANGED held

\* mutant: an aborted waiter rejects but stays in the queue
LeavesNoQueue(p, keep) == queue

\* The queues once p's waits are aborted, all but those at `keep`
LeavesQueues(p, keep) ==
    [o \in Origins |-> IF o \in keep THEN queue[o] ELSE RemoveFirst(queue[o], p)]

\* The sources of p once aborted: a wait ends at once, a held slot when the
\* fetch notices (or return() closes the generator suspended at its yield)
Aborted(p, keep) ==
    [o \in Origins |->
        CASE o \in keep \/ cand[p][o] \in {"none", "over", "closing"} -> cand[p][o]
          [] o \notin keep /\ cand[p][o] = "queued" -> "over"
          [] OTHER -> "closing"]

\* source.close(): the race is torn down with every source it started
CloseSource(p) ==
    /\ race' = [race EXCEPT ![p] = "over"]
    /\ cand' = [cand EXCEPT ![p] = Aborted(p, {})]
    /\ queue' = LeavesQueues(p, {})
    /\ UNCHANGED held

Unstarted(p) == {i \in DOMAIN Route[p] : cand[p][Route[p][i]] = "none"}
Silent(p) == {o \in Origins : cand[p][o] \in {"queued", "opening", "yielded"}}

Start(p) ==
    /\ phase[p] = "new"
    /\ phase' = [phase EXCEPT ![p] = "retrieve"]
    /\ UNCHANGED <<race, cand, limiterVars, breakerVars, poolVars, hung>>

\* The next source starts when its offset is due (any time) or all before it failed
StartNext(p) ==
    /\ phase[p] = "retrieve" /\ race[p] = "racing"
    /\ \E i \in Unstarted(p) :
        /\ \A j \in Unstarted(p) : i <= j
        /\ LET o == Route[p][i] IN
            \/ cooling[o] /\ cand' = [cand EXCEPT ![p][o] = "over"] /\ UNCHANGED limiterVars
            \/ ~cooling[o] /\ AcquireSlot(p, o)
    /\ UNCHANGED <<phase, race, breakerVars, poolVars, hung>>

FirstBlock(p, o) ==
    /\ cand[p][o] = "opening"
    /\ cand' = [cand EXCEPT ![p][o] = "yielded"]
    /\ streak' = [streak EXCEPT ![o] = 0]
    /\ UNCHANGED <<phase, race, limiterVars, cooling, poolVars, hung>>

\* The request failed, ended empty, or its teardown completed
SourceOver(p, o) ==
    /\ cand[p][o] \in {"opening", "closing"}
    /\ FreeSlot(o, [cand EXCEPT ![p][o] = "over"])
    /\ UNCHANGED <<phase, race, breakerVars, poolVars, hung>>

\* The first block wins the race, the other sources are aborted
Win(p, o) ==
    /\ race[p] = "racing" /\ cand[p][o] = "yielded"
    /\ race' = [race EXCEPT ![p] = "won"]
    /\ cand' = [cand EXCEPT ![p] = [Aborted(p, {o}) EXCEPT ![o] = "streaming"]]
    /\ queue' = LeavesQueues(p, {o})
    /\ UNCHANGED <<phase, held, breakerVars, poolVars, hung>>

\* Every source failed: the blocks are left to single fetches
RaceLost(p) ==
    /\ phase[p] = "retrieve" /\ race[p] = "racing"
    /\ Unstarted(p) = {} /\ Silent(p) = {}
    /\ race' = [race EXCEPT ![p] = "over"]
    /\ UNCHANGED <<phase, cand, limiterVars, breakerVars, poolVars, hung>>

\* The winner's stream ends, or breaks and leaves the rest to single fetches
StreamEnds(p, o) ==
    /\ cand[p][o] = "streaming"
    /\ FreeSlot(o, [cand EXCEPT ![p][o] = "over"])
    /\ race' = [race EXCEPT ![p] = "over"]
    /\ UNCHANGED <<phase, breakerVars, poolVars, hung>>

CoolDown(o) ==
    /\ cooling[o]
    /\ cooling' = [cooling EXCEPT ![o] = FALSE]
    /\ UNCHANGED <<phase, race, cand, limiterVars, streak, poolVars, hung>>

--------------------------------------------------------------------------------
(* Hash workers *)

\* acquire(), up to the posting of `begin`
Acquire(p) ==
    \/ /\ idle > 0
       /\ idle' = idle - 1 /\ job' = [job EXCEPT ![p] = "begin"]
       /\ UNCHANGED <<live, waiters>>
    \/ /\ idle = 0 /\ live < PoolSize
       /\ live' = live + 1 /\ job' = [job EXCEPT ![p] = "begin"]
       /\ UNCHANGED <<idle, waiters>>
    \/ /\ idle = 0 /\ live >= PoolSize
       /\ waiters' = Append(waiters, p) /\ job' = [job EXCEPT ![p] = "waiting"]
       /\ UNCHANGED <<idle, live>>

\* mutant: a broken worker is not replaced for the caller that waits
ReleaseBrokenOnly(p) ==
    /\ live' = live - 1
    /\ job' = [job EXCEPT ![p] = "none"]
    /\ UNCHANGED <<idle, waiters>>

\* release(w, true): the worker is terminated, a waiter gets a fresh one
ReleaseBroken(p) ==
    /\ UNCHANGED idle
    /\ IF waiters = <<>>
         THEN /\ live' = live - 1
              /\ job' = [job EXCEPT ![p] = "none"]
              /\ UNCHANGED waiters
         ELSE /\ job' = [job EXCEPT ![p] = "none", ![Head(waiters)] = "begin"]
              /\ waiters' = Tail(waiters)
              /\ UNCHANGED live

\* release(w, false): to the next waiter, else back to the pool
ReleaseWorker(p) ==
    /\ UNCHANGED live
    /\ IF waiters = <<>>
         THEN /\ idle' = idle + 1
              /\ job' = [job EXCEPT ![p] = "none"]
              /\ UNCHANGED waiters
         ELSE /\ job' = [job EXCEPT ![p] = "none", ![Head(waiters)] = "begin"]
              /\ waiters' = Tail(waiters)
              /\ UNCHANGED idle

--------------------------------------------------------------------------------
(* computePiece *)

\* Enough bytes are buffered, or the export is complete: the stream may go on
ClaimWorker(p) ==
    /\ phase[p] = "retrieve" /\ (race[p] = "over" \/ race[p] = "won")
    /\ phase' = [phase EXCEPT ![p] = "claim"]
    /\ Acquire(p)
    /\ UNCHANGED <<race, cand, limiterVars, breakerVars, hung>>

\* mutant: a claim that arrives after its piece has failed is kept
ReadyKept(p) ==
    /\ job[p] = "begin" /\ p \notin hung
    /\ phase' = [phase EXCEPT ![p] = IF @ = "claim" THEN "hash" ELSE @]
    /\ job' = [job EXCEPT ![p] = "job"]
    /\ UNCHANGED <<race, cand, limiterVars, breakerVars, idle, live, waiters, hung>>

\* The worker is ready: the claim hands it over, or cancels it on arrival
Ready(p) ==
    /\ job[p] = "begin" /\ p \notin hung
    /\ IF phase[p] = "claim"
         THEN /\ phase' = [phase EXCEPT ![p] = "hash"]
              /\ job' = [job EXCEPT ![p] = "job"]
              /\ UNCHANGED <<idle, live, waiters>>
         ELSE ReleaseBroken(p) /\ UNCHANGED phase
    /\ UNCHANGED <<race, cand, limiterVars, breakerVars, hung>>

\* `begin` is answered with an error: the slot is replaced, the claim rejects
BeginFails(p) ==
    /\ job[p] = "begin" /\ p \notin hung
    /\ ReleaseBroken(p)
    /\ IF Settled(p)
         THEN UNCHANGED <<phase, race, cand, limiterVars>>
         ELSE phase' = [phase EXCEPT ![p] = "failed"] /\ CloseSource(p)
    /\ UNCHANGED <<breakerVars, hung>>

Finish(p) ==
    /\ phase[p] = "hash" /\ p \notin hung
    /\ phase' = [phase EXCEPT ![p] = "done"]
    /\ ReleaseWorker(p) /\ CloseSource(p)
    /\ UNCHANGED <<breakerVars, hung>>

\* The catch and finally of computePiece: a job is cancelled, a claim still on its
\* way stays (Ready cancels it), the source is closed
Fail(p) ==
    /\ phase[p] \in {"retrieve", "claim", "hash"}
    /\ phase' = [phase EXCEPT ![p] = "failed"]
    /\ IF job[p] = "job" THEN ReleaseBroken(p) ELSE UNCHANGED poolVars
    /\ CloseSource(p)
    /\ UNCHANGED hung

\* A failed block or worker request, or the operator's cancel
Break(p) == Fail(p) /\ UNCHANGED breakerVars

\* The watchdog: a stall of the retrieval counts against the origin that won
Stall(p) ==
    /\ Fail(p)
    /\ LET winners == {o \in Origins : race[p] = "won" /\ cand[p][o] = "streaming"} IN
       IF phase[p] = "retrieve" /\ winners # {}
         THEN \E o \in winners :
                /\ streak' = [streak EXCEPT ![o] = (@ + 1) % StallTrip]
                /\ cooling' = [cooling EXCEPT ![o] = @ \/ streak[o] + 1 = StallTrip]
         ELSE UNCHANGED breakerVars

\* A worker dies without an error event, or its hasher never comes up
Hang(p) ==
    /\ job[p] \in HangsIn /\ p \notin hung /\ Cardinality(hung) < MaxHangs
    /\ hung' = hung \cup {p}
    /\ UNCHANGED <<phase, race, cand, limiterVars, breakerVars, poolVars>>

--------------------------------------------------------------------------------
RaceStep(p) ==
    \/ StartNext(p) \/ RaceLost(p)
    \/ \E o \in Origins : Win(p, o) \/ StreamEnds(p, o)
Network(p, o) == FirstBlock(p, o) \/ SourceOver(p, o)
Worker(p) == Ready(p) \/ BeginFails(p) \/ Finish(p)

Next ==
    \/ \E p \in Pieces :
        \/ Start(p) \/ RaceStep(p) \/ ClaimWorker(p) \/ Worker(p)
        \/ Break(p) \/ Stall(p) \/ Hang(p)
        \/ \E o \in Origins : Network(p, o)
    \/ \E o \in Origins : CoolDown(o)

Spec == Init /\ [][Next]_vars

\* Requests are answered, a stream goes on or ends, a worker that has not died
\* answers; the watchdog ends an attempt whose worker has died. No attempt is
\* otherwise ended from outside: nothing but its own progress settles it
FairSpec ==
    /\ Spec
    /\ \A p \in Pieces :
        /\ WF_vars(RaceStep(p)) /\ WF_vars(ClaimWorker(p)) /\ WF_vars(Worker(p))
        /\ WF_vars(Stall(p) /\ p \in hung)
        /\ \A o \in Origins : WF_vars(Network(p, o))

--------------------------------------------------------------------------------
(* Properties *)

\* The slots of an origin are never lost or handed out twice, through the direct
\* hand-over, the aborts of waiters and losers and the teardowns: what is held is
\* what sources hold, nobody queues while a slot is free, and nobody whose race is
\* over queues or opens a request (origin-limiter.ts:60, source-race.ts:131)
SlotsConserved ==
    /\ \A o \in Origins :
        /\ held[o] = Cardinality({p \in Pieces : cand[p][o] \in Holding})
        /\ held[o] <= Cap
        /\ queue[o] # <<>> => held[o] = Cap
        /\ IsInjective(queue[o])
        /\ ToSet(queue[o]) = {p \in Pieces : cand[p][o] = "queued"}
    /\ \A p \in Pieces : race[p] # "racing" => Silent(p) = {}

\* liveWorkers counts the workers there are, through breakage, replacement and
\* claims that outlive their piece; nobody waits while a worker could be had
WorkersConserved ==
    /\ live = idle + Cardinality(Leased)
    /\ live <= PoolSize
    /\ waiters # <<>> => (idle = 0 /\ live = PoolSize)
    /\ ToSet(waiters) = {p \in Pieces : job[p] = "waiting"} /\ IsInjective(waiters)

\* An attempt that has started settles, whatever the others hold (a piece keeps its
\* origin's slot while it waits for a worker, and its worker while it waits for
\* bytes: no circular wait), and in the end it holds no slot and no worker
EveryPieceSettles ==
    \A p \in Pieces :
        phase[p] = "retrieve" ~>
            /\ Settled(p)
            /\ job[p] = "none"
            /\ \A o \in Origins : cand[p][o] \notin Live

\* "cancel on arrival so the pool slot is replaced, not leaked"
\* (app/src/commp.ts:389-390): a worker that never answers `begin` never arrives
FailedClaimsComeBack ==
    \A p \in Pieces : phase[p] = "failed" ~> job[p] = "none"
================================================================================
