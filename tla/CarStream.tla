------------------------------- MODULE CarStream -------------------------------
(***************************************************************************)
(* One export of a root as a canonical CAR: the depth-first walk of        *)
(* core/car-export.ts, which prefetches blocks ahead of itself, over the   *)
(* block source of core/car-stream-source.ts, which reads one CAR stream   *)
(* of the root, keeps what arrives early in a bounded buffer and fetches   *)
(* singly (gap-fill) what the stream does not deliver.                     *)
(*                                                                         *)
(* A block stands for its multihash, the key of every map of the code.     *)
(* Streams is the set of frame sequences the gateway may send: complete,   *)
(* truncated, reordered, with a duplicate or a frame that fails its hash.  *)
(* The consumer of the CAR drains it at its own pace, or stops.            *)
(***************************************************************************)
EXTENDS Integers, FiniteSets, SequencesExt

CONSTANTS Blocks, Root, Links, Identity, Lookahead, MaxBuffered, Streams

ASSUME ExportAssumption ==
    /\ IsFiniteSet(Blocks) /\ Root \in Blocks \ Identity
    /\ Links \in [Blocks -> Seq(Blocks)]
    /\ Streams \subseteq Seq([block : Blocks, valid : BOOLEAN])
    /\ Lookahead \in Nat \ {0}
    /\ MaxBuffered \in Nat \ {0}

VARIABLES
    stack,    \* the DFS stack of CIDs, its top last
    seen,     \* the multihashes the walk has taken up
    got,      \* the block request of each multihash
    cur,      \* the block the walk is at
    walk,     \* where the walk is
    out,      \* the blocks put into the CAR
    aborted,  \* the export's own abort controller
    closed,   \* the source's abort controller
    sent,     \* the stream the gateway serves
    frames,   \* what is left of it
    pump,     \* the loop that reads it
    arrived,  \* the blocks buffered by the source
    gapFills  \* #gapFillCount

exportVars == <<stack, seen, cur, walk, out, aborted>>
sourceVars == <<closed, sent, frames>>
carVars == <<exportVars, sourceVars, got, pump, arrived, gapFills>>

Requests == {"none", "waiting", "filling", "ready", "failed", "taken"}

ExportTypeOK ==
    /\ stack \in Seq(Blocks)
    /\ seen \subseteq Blocks
    /\ got \in [Blocks -> Requests]
    /\ cur \in Blocks
    /\ walk \in {"walk", "await", "put", "expand", "ended", "failed"}
    /\ out \in Seq(Blocks)
    /\ {aborted, closed} \subseteq BOOLEAN
    /\ sent \in Streams
    /\ frames \in Seq([block : Blocks, valid : BOOLEAN])
    /\ pump \in {"off", "reading", "paused", "over"}
    /\ arrived \subseteq Blocks
    /\ gapFills \in Nat

ExportInit ==
    /\ stack = <<Root>> /\ seen = {} /\ cur = Root /\ walk = "walk" /\ out = <<>>
    /\ got = [b \in Blocks |-> "none"]
    /\ aborted = FALSE /\ closed = FALSE
    /\ sent \in Streams /\ frames = sent
    /\ pump = "off" /\ arrived = {} /\ gapFills = 0

--------------------------------------------------------------------------------
(* The source *)

In(g, state) == {b \in Blocks : g[b] = state}
Pending(g) == In(g, "waiting") \cup In(g, "filling")

\* The pump rests on a full buffer nobody waits beyond
ShouldPause(g, buffer) ==
    Cardinality(buffer) >= MaxBuffered /\ In(g, "waiting") = {} /\ ~closed

\* What a call of get comes to at once
GetState(b) ==
    CASE b \in arrived                            -> "ready"
      [] b \notin arrived /\ pump = "over"        -> "filling"
      [] b \notin arrived /\ pump # "over" /\ closed -> "failed"
      [] OTHER                                    -> "waiting"

\* mutant: a new waiter does not wake the pump
ResumeOnTakeOnly(g, buffer) ==
    CASE pump = "off" -> "reading"
      [] pump = "paused" /\ Cardinality(buffer) < MaxBuffered -> "reading"
      [] OTHER -> pump

\* #resumePump after the requests of one prefetch
Resume(g, buffer) ==
    CASE pump = "off" -> "reading"
      [] pump = "paused" /\ ~ShouldPause(g, buffer) -> "reading"
      [] OTHER -> pump

\* blocks.get of every block asked for
Request(asked) ==
    LET g == [b \in Blocks |-> IF b \in asked THEN GetState(b) ELSE got[b]] IN
    /\ got' = g
    /\ arrived' = arrived \ asked
    /\ gapFills' = gapFills + Cardinality(In(g, "filling") \ In(got, "filling"))
    /\ pump' = IF asked = {} THEN pump ELSE Resume(g, arrived \ asked)

\* mutant: a frame is indexed under the CID it claims, unverified
FrameUnverified ==
    /\ pump = "reading" /\ ~closed /\ frames # <<>>
    /\ LET b == Head(frames).block
           waited == got[b] = "waiting"
           g == IF waited THEN [got EXCEPT ![b] = "ready"] ELSE got
           buffer == IF waited \/ Cardinality(arrived) >= MaxBuffered
                       THEN arrived ELSE arrived \cup {b}
       IN  /\ got' = g
           /\ arrived' = buffer
           /\ pump' = IF ShouldPause(g, buffer) THEN "paused" ELSE "reading"
    /\ frames' = Tail(frames)
    /\ UNCHANGED <<exportVars, closed, sent, gapFills>>

\* One frame: it answers a waiter, is buffered, or (full, or invalid) dropped
Frame ==
    /\ pump = "reading" /\ ~closed /\ frames # <<>>
    /\ LET b == Head(frames).block
           valid == Head(frames).valid
           waited == valid /\ got[b] = "waiting"
           g == IF waited THEN [got EXCEPT ![b] = "ready"] ELSE got
           buffer == IF valid /\ ~waited /\ Cardinality(arrived) < MaxBuffered
                       THEN arrived \cup {b} ELSE arrived
       IN  /\ got' = g
           /\ arrived' = buffer
           /\ pump' = IF valid /\ ShouldPause(g, buffer) THEN "paused" ELSE "reading"
    /\ frames' = Tail(frames)
    /\ UNCHANGED <<exportVars, closed, sent, gapFills>>

\* The stream ends or breaks (after any of its frames: Streams has the prefixes),
\* or its fetch is torn down: whoever waits falls through to a gap-fill
StreamOver ==
    /\ pump = "reading" /\ (frames = <<>> \/ closed)
    /\ pump' = "over"
    /\ got' = [b \in Blocks |-> IF got[b] = "waiting" THEN "filling" ELSE got[b]]
    /\ gapFills' = gapFills + Cardinality(In(got, "waiting"))
    /\ UNCHANGED <<exportVars, sourceVars, arrived>>

FillOk(b) ==
    /\ got[b] = "filling" /\ ~aborted /\ ~closed
    /\ got' = [got EXCEPT ![b] = "ready"]
    /\ UNCHANGED <<exportVars, sourceVars, pump, arrived, gapFills>>

\* No retry is left, the bytes do not match, or one of the two signals aborted
FillFails(b) ==
    /\ got[b] = "filling"
    /\ got' = [got EXCEPT ![b] = "failed"]
    /\ UNCHANGED <<exportVars, sourceVars, pump, arrived, gapFills>>

--------------------------------------------------------------------------------
(* The walk *)

Inflight == {b \in Blocks : got[b] \in {"waiting", "filling", "ready", "failed"}}

\* The elements of s that are in S, in their order
Only(s, S) ==
    LET F[i \in 0 .. Len(s)] ==
            IF i = 0 THEN <<>> ELSE IF s[i] \in S THEN Append(F[i - 1], s[i]) ELSE F[i - 1]
    IN  F[Len(s)]

\* The blocks due next, from the top of the stack: at most Lookahead of them
Window ==
    LET due == Only(Reverse(stack), Blocks \ (seen \cup Identity))
    IN  {due[i] : i \in 1 .. (IF Len(due) < Lookahead THEN Len(due) ELSE Lookahead)}

\* Prefetch, then take the next block of the stack
Walk ==
    /\ walk = "walk" /\ stack # <<>> /\ ~aborted
    /\ Request(Window \ Inflight)
    /\ stack' = Front(stack)
    /\ LET b == Last(stack) IN
       IF b \in seen
         THEN UNCHANGED <<seen, cur, walk>>
         ELSE /\ seen' = seen \cup {b}
              /\ cur' = b
              /\ walk' = IF b \in Identity THEN "expand" ELSE "await"
    /\ UNCHANGED <<out, aborted, sourceVars>>

BlockReady ==
    /\ walk = "await" /\ got[cur] = "ready"
    /\ got' = [got EXCEPT ![cur] = "taken"]
    /\ walk' = "put"
    /\ UNCHANGED <<stack, seen, cur, out, aborted, sourceVars, pump, arrived, gapFills>>

\* The consumer takes the block
Put ==
    /\ walk = "put" /\ ~aborted
    /\ out' = Append(out, cur)
    /\ walk' = "expand"
    /\ UNCHANGED <<stack, seen, cur, aborted, sourceVars, got, pump, arrived, gapFills>>

\* mutant: the links are pushed in order, the last of them popped first
LinksInOrder(b) == Only(Links[b], Blocks \ seen)

LinksToPush(b) == Reverse(Only(Links[b], Blocks \ seen))

Expand ==
    /\ walk = "expand"
    /\ stack' = stack \o LinksToPush(cur)
    /\ walk' = "walk"
    /\ UNCHANGED <<seen, cur, out, aborted, sourceVars, got, pump, arrived, gapFills>>

WalkEnds ==
    /\ walk = "walk" /\ stack = <<>>
    /\ walk' = "ended"
    /\ UNCHANGED <<stack, seen, cur, out, aborted, sourceVars, got, pump, arrived, gapFills>>

\* A block that failed surfaces when the walk reaches it; an abort at once
WalkFails ==
    /\ \/ walk = "await" /\ got[cur] = "failed"
       \/ aborted /\ (walk = "put" \/ (walk = "walk" /\ stack # <<>>))
    /\ walk' = "failed"
    /\ UNCHANGED <<stack, seen, cur, out, aborted, sourceVars, got, pump, arrived, gapFills>>

--------------------------------------------------------------------------------
(* Teardown *)

\* The signal each get was called with releases it from its wait
ReleaseGets == got' = [b \in Blocks |-> IF got[b] = "waiting" THEN "failed" ELSE got[b]]

\* The export's `finally`: after the walk, or when the consumer stops reading
StopExport ==
    /\ ~aborted
    /\ aborted' = TRUE
    /\ ReleaseGets
    /\ UNCHANGED <<stack, seen, cur, walk, out, sourceVars, pump, arrived, gapFills>>

ConsumerStops == walk \in {"put", "await"} /\ StopExport
ExportOver == walk \in {"ended", "failed"} /\ StopExport

\* The caller's signal (cancel, stall watchdog) reaches the export and the source
CallerAborts ==
    /\ walk \notin {"ended", "failed"} /\ ~aborted
    /\ aborted' = TRUE /\ closed' = TRUE
    /\ ReleaseGets
    /\ pump' = IF pump = "paused" THEN "reading" ELSE pump
    /\ UNCHANGED <<stack, seen, cur, walk, out, sent, frames, arrived, gapFills>>

\* source.close(), once the export is over
Close ==
    /\ walk \in {"ended", "failed"} /\ aborted /\ ~closed
    /\ closed' = TRUE
    /\ ReleaseGets
    /\ pump' = IF pump = "paused" THEN "reading" ELSE pump
    /\ UNCHANGED <<exportVars, sent, frames, arrived, gapFills>>

--------------------------------------------------------------------------------
SourceStep == Frame \/ StreamOver
Fill(b) == FillOk(b) \/ FillFails(b)
WalkStep == Walk \/ BlockReady \/ Put \/ Expand \/ WalkEnds \/ WalkFails
Teardown == ExportOver \/ Close

ExportNext ==
    \/ SourceStep \/ WalkStep \/ Teardown
    \/ \E b \in Blocks : Fill(b)
    \/ ConsumerStops \/ CallerAborts

ExportSpec == ExportInit /\ [][ExportNext]_carVars

\* The gateway goes on sending or the connection ends, a single fetch returns
\* within its retries, the consumer goes on reading until it stops; nothing
\* makes a consumer stop or a caller abort
ExportFairSpec ==
    /\ ExportSpec
    /\ WF_carVars(SourceStep) /\ WF_carVars(WalkStep) /\ WF_carVars(Teardown)
    /\ \A b \in Blocks : WF_carVars(Fill(b))

--------------------------------------------------------------------------------
(* Properties *)

\* Links of the k-th block visited; the root is the link of nothing
LinksAt(order, k) == IF k = 0 THEN <<Root>> ELSE Links[order[k]]
LeftAt(order, k) == {j \in DOMAIN LinksAt(order, k) : ~Contains(order, LinksAt(order, k)[j])}
Branching(order) == {k \in 0 .. Len(order) : LeftAt(order, k) # {}}

\* The first link left at the last block visited that has one left
NextBlock(order) ==
    LET k == Max(Branching(order)) IN LinksAt(order, k)[Min(LeftAt(order, k))]

\* Depth-first pre-order, each block at its first occurrence: its first n blocks
Preorder[n \in 0 .. Cardinality(Blocks)] ==
    IF n = 0 THEN <<>>
    ELSE LET order == Preorder[n - 1]
         IN  IF Branching(order) = {} THEN order ELSE Append(order, NextBlock(order))

Canonical == Only(Preorder[Cardinality(Blocks)], Blocks \ Identity)

\* Whatever order the stream delivers in, whatever it omits, repeats or corrupts,
\* and however far the prefetch ran ahead: the CAR written is a prefix of the
\* canonical one, and all of it when the walk ends, so that the commitment
\* computed over it is the one a provider computes (car-export.ts:5-12)
CanonicalOrder ==
    /\ IsPrefix(out, Canonical)
    /\ walk = "ended" => out = Canonical

\* A root exported with no gap-fill had every block delivered by the stream and
\* verified: what lets the console submit it (app/src/submit.ts:88-99)
GapFreeMeansStreamed ==
    (walk = "ended" /\ gapFills = 0) =>
        \A b \in ToSet(out) : Contains(sent, [block |-> b, valid |-> TRUE])

\* Every export settles, without waiting for the stream to be read by anyone in
\* particular (no reorder deadlock), and leaves neither a parked request, nor a
\* single fetch, nor the stream's reader behind
ExportSettles ==
    <>[](/\ walk \in {"ended", "failed"} /\ closed
         /\ pump \in {"off", "over"}
         /\ Pending(got) = {})

\* "A non-zero count means the gateway's CAR [...] was incomplete or corrupt"
\* (core/car-stream-source.ts:270-271). A complete and ordered stream outruns the
\* walk while a later sibling is awaited: what overflows the buffer is dropped
\* and fetched again singly
GapFillMeansBrokenCar ==
    gapFills > 0 /\ ~aborted =>
        sent # [i \in 1 .. Len(Canonical) |-> [block |-> Canonical[i], valid |-> TRUE]]

\* "Prefetched block bodies [...] Bounded by `lookahead`" (core/car-export.ts:240):
\* the window bounds what one pump asks for, and the children of a block push
\* its prefetched siblings out of the window
InflightWithinLookahead == Cardinality(Inflight) <= Lookahead
================================================================================
