------------------------------- MODULE PrepareRun ------------------------------
(***************************************************************************)
(* The prepare run of the browser console: the store of row states         *)
(* (prepare-store.ts), the attempts and the pool that drive it and the     *)
(* saved run it is restored from (app.tsx, run-store.ts).                  *)
(*                                                                         *)
(* What computes one piece is the subject of FetchStack and CarStream: an  *)
(* attempt here ends with a result, of a stream with or without gaps, or   *)
(* with an error. Every piece weighs one against the byte cap.             *)
(***************************************************************************)
EXTENDS Integers, FiniteSets

CONSTANTS Cids, Concurrency, ByteCap, MaxAttempts, MaxReloads

ASSUME RunAssumption ==
    /\ IsFiniteSet(Cids)
    /\ Concurrency \in Nat \ {0} /\ ByteCap \in Nat /\ MaxAttempts \in Nat /\ MaxReloads \in Nat

VARIABLES
    cids,       \* the run's input
    results,    \* the CIDs with a result
    gaps,       \* those whose result needed a gap-fill
    rowLive,    \* per CID: none, working, error
    errorCids, workingCids, doneCount,
    attempts,   \* the calls of prepareOne in flight: [id, cid, pool, aborted]
    made,       \* attempts made so far
    controllers, \* prepareControllers: per CID an attempt, or 0
    running, pool, capped,
    text,       \* the CIDs in the input field
    dirty,      \* a debounced save of it is due
    timer,      \* a save of completions is due
    hydrated, ran,
    saved,      \* the run in IndexedDB
    reloads

rowVars == <<cids, results, gaps, rowLive, errorCids, workingCids, doneCount>>
runVars == <<attempts, made, controllers, running, pool, capped, ran>>
diskVars == <<text, dirty, timer, hydrated, saved, reloads>>
prepareVars == <<rowVars, runVars, diskVars>>

Runs == [cids : SUBSET Cids, results : SUBSET Cids, gaps : SUBSET Cids]
NoRun == [cids |-> {}, results |-> {}, gaps |-> {}]
Attempts == [id : 1 .. MaxAttempts, cid : Cids, pool : BOOLEAN, aborted : BOOLEAN]

RunTypeOK ==
    /\ cids \subseteq Cids /\ gaps \subseteq results /\ results \subseteq Cids
    /\ rowLive \in [Cids -> {"none", "working", "error"}]
    /\ errorCids \subseteq Cids /\ workingCids \subseteq Cids /\ doneCount \in Nat
    /\ attempts \subseteq Attempts /\ made \in 0 .. MaxAttempts
    /\ controllers \in [Cids -> 0 .. MaxAttempts]
    /\ pool \subseteq Cids /\ text \subseteq Cids
    /\ {running, capped, dirty, timer, hydrated, ran} \subseteq BOOLEAN
    /\ saved \in Runs /\ saved.gaps \subseteq saved.results
    /\ reloads \in 0 .. MaxReloads

None(x) == [c \in Cids |-> x]

RunInit ==
    /\ cids = {} /\ results = {} /\ gaps = {} /\ rowLive = None("none")
    /\ errorCids = {} /\ workingCids = {} /\ doneCount = 0
    /\ attempts = {} /\ made = 0 /\ controllers = None(0)
    /\ running = FALSE /\ pool = {} /\ capped = FALSE /\ ran = FALSE
    /\ text = {} /\ dirty = FALSE /\ timer = FALSE /\ hydrated = FALSE
    /\ saved = NoRun /\ reloads = 0

Row(c) == IF rowLive[c] # "none" THEN rowLive[c] ELSE IF c \in results THEN "done" ELSE "queued"

\* resultsList: the rows shown as done
ResultsList == {c \in cids : Row(c) = "done"}

--------------------------------------------------------------------------------
(* The store *)

\* mutant: the result is recorded and the live row left
MarkDoneKeepsLive(c, gap) ==
    /\ doneCount' = doneCount + (IF c \notin results /\ c \in cids THEN 1 ELSE 0)
    /\ results' = results \cup {c}
    /\ gaps' = IF gap THEN gaps \cup {c} ELSE gaps \ {c}
    /\ UNCHANGED <<cids, rowLive, errorCids, workingCids>>

MarkDone(c, gap) ==
    /\ rowLive' = [rowLive EXCEPT ![c] = "none"]
    /\ workingCids' = workingCids \ {c}
    /\ errorCids' = errorCids \ {c}
    /\ doneCount' = doneCount + (IF c \notin results /\ c \in cids THEN 1 ELSE 0)
    /\ results' = results \cup {c}
    /\ gaps' = IF gap THEN gaps \cup {c} ELSE gaps \ {c}
    /\ UNCHANGED cids

MarkWorking(c) ==
    /\ rowLive' = [rowLive EXCEPT ![c] = "working"]
    /\ workingCids' = workingCids \cup {c}
    /\ errorCids' = errorCids \ {c}
    /\ UNCHANGED <<cids, results, gaps, doneCount>>

\* dropLive takes the row out of errorCids; it is added again only when the row
\* was not already failed
MarkError(c) ==
    /\ rowLive' = [rowLive EXCEPT ![c] = "error"]
    /\ workingCids' = workingCids \ {c}
    /\ errorCids' = IF rowLive[c] = "error" THEN errorCids \ {c} ELSE errorCids \cup {c}
    /\ UNCHANGED <<cids, results, gaps, doneCount>>

\* setCids over the results r, of which g had gaps
SetCids(next, r, g) ==
    /\ cids' = next
    /\ results' = r \cap next /\ gaps' = g \cap next
    /\ rowLive' = [c \in Cids |-> "none"]
    /\ errorCids' = {} /\ workingCids' = {}
    /\ doneCount' = Cardinality(r \cap next)

--------------------------------------------------------------------------------
(* Saving and restoring *)

\* persist(): nothing is written before the saved run was read
Persist(t, r, g) ==
    saved' = IF hydrated THEN [cids |-> t, results |-> r, gaps |-> g] ELSE saved

SaveCompletions ==
    /\ timer
    /\ timer' = FALSE
    /\ Persist(text, results, gaps)
    /\ UNCHANGED <<rowVars, runVars, text, dirty, hydrated, reloads>>

SaveEdit ==
    /\ dirty
    /\ dirty' = FALSE
    /\ Persist(text, results, gaps)
    /\ UNCHANGED <<rowVars, runVars, text, timer, hydrated, reloads>>

\* The read of the saved run returns, possibly after a run has started
Restore ==
    /\ ~hydrated
    /\ hydrated' = TRUE
    /\ LET seeded == saved.results \ results
           r == results \cup saved.results
           g == gaps \cup (saved.gaps \ results)
       IN  \/ /\ ran
              /\ results' = r /\ gaps' = g
              /\ doneCount' = doneCount + Cardinality(seeded \cap cids)
              /\ UNCHANGED <<cids, rowLive, errorCids, workingCids, text, dirty>>
           \/ /\ ~ran
              /\ text' = saved.cids /\ dirty' = TRUE
              /\ \/ saved.cids \cap r # {} /\ SetCids(saved.cids, r, g)
                 \/ /\ saved.cids \cap r = {}
                    /\ results' = r /\ gaps' = g
                    /\ doneCount' = doneCount + Cardinality(seeded \cap cids)
                    /\ UNCHANGED <<cids, rowLive, errorCids, workingCids>>
    /\ UNCHANGED <<runVars, timer, saved, reloads>>

Edit(t) ==
    /\ t # text
    /\ text' = t /\ dirty' = TRUE
    /\ UNCHANGED <<rowVars, runVars, timer, hydrated, saved, reloads>>

\* The tab is closed or reloaded: only the saved run is left
Reload ==
    /\ reloads < MaxReloads /\ reloads' = reloads + 1
    /\ SetCids({}, {}, {})
    /\ attempts' = {} /\ controllers' = None(0)
    /\ running' = FALSE /\ pool' = {} /\ capped' = FALSE /\ ran' = FALSE
    /\ text' = {} /\ dirty' = FALSE /\ timer' = FALSE /\ hydrated' = FALSE
    /\ UNCHANGED <<made, saved>>

--------------------------------------------------------------------------------
(* Attempts *)

\* prepareOne up to its first await
StartAttempt(c, pooled) ==
    /\ made < MaxAttempts /\ made' = made + 1
    /\ attempts' = attempts \cup {[id |-> made + 1, cid |-> c, pool |-> pooled, aborted |-> FALSE]}
    /\ controllers' = [controllers EXCEPT ![c] = made + 1]
    /\ MarkWorking(c)

Progress(a) == MarkWorking(a.cid) /\ UNCHANGED <<runVars, diskVars>>

\* The finally of prepareOne deletes the CID's controller, whosever it is
EndAttempt(a) ==
    /\ attempts' = attempts \ {a}
    /\ controllers' = [controllers EXCEPT ![a.cid] = 0]
    /\ UNCHANGED <<made, running, pool, capped, ran>>

AttemptDone(a, gap) ==
    /\ ~a.aborted
    /\ MarkDone(a.cid, gap) /\ EndAttempt(a)
    /\ timer' = TRUE
    /\ UNCHANGED <<text, dirty, hydrated, saved, reloads>>

AttemptFails(a) == MarkError(a.cid) /\ EndAttempt(a) /\ UNCHANGED diskVars

Cancel(c) ==
    /\ rowLive[c] = "working"
    /\ \E a \in attempts :
        /\ a.id = controllers[c] /\ ~a.aborted
        /\ attempts' = (attempts \ {a}) \cup {[a EXCEPT !.aborted = TRUE]}
    /\ UNCHANGED <<rowVars, made, controllers, running, pool, capped, ran, diskVars>>

\* The retry button of one row: no run is started for it
RetryRow(c) ==
    /\ ~running /\ c \in cids
    /\ Row(c) = "error" \/ (Row(c) = "done" /\ c \in gaps)
    /\ StartAttempt(c, FALSE)
    /\ UNCHANGED <<running, pool, capped, ran, diskVars>>

--------------------------------------------------------------------------------
(* The pool *)

StartPool(pending) ==
    /\ made + Cardinality(pending) <= MaxAttempts
    /\ pool' = pending /\ running' = TRUE /\ capped' = FALSE /\ ran' = TRUE
    /\ UNCHANGED <<attempts, made, controllers>>

Prepare ==
    /\ ~running /\ text # {}
    /\ SetCids(text, results, gaps)
    /\ Persist(text, results \cap text, gaps \cap text)
    /\ StartPool(text \ results)
    /\ UNCHANGED <<text, dirty, timer, hydrated, reloads>>

RetryFailed ==
    /\ ~running /\ errorCids # {}
    /\ StartPool(errorCids)
    /\ UNCHANGED <<rowVars, diskVars>>

Pooled == {a \in attempts : a.pool}
FreeWorker == running /\ Cardinality(Pooled) < Concurrency

\* mutant: a worker whose attempt ends does not take the next row
TakeOnce(c) ==
    /\ FreeWorker /\ c \in pool /\ ~capped /\ Cardinality(ResultsList) <= ByteCap
    /\ pool' = {}
    /\ StartAttempt(c, TRUE)
    /\ UNCHANGED <<running, capped, ran, diskVars>>

Take(c) ==
    /\ FreeWorker /\ c \in pool /\ ~capped /\ Cardinality(ResultsList) <= ByteCap
    /\ pool' = pool \ {c}
    /\ StartAttempt(c, TRUE)
    /\ UNCHANGED <<running, capped, ran, diskVars>>

CapReached ==
    /\ FreeWorker /\ pool # {} /\ ~capped /\ Cardinality(ResultsList) > ByteCap
    /\ capped' = TRUE
    /\ UNCHANGED <<rowVars, attempts, made, controllers, running, pool, ran, diskVars>>

\* Every worker has returned; a save that is due is written now
RunEnds ==
    /\ running /\ Pooled = {} /\ (pool = {} \/ capped)
    /\ running' = FALSE
    /\ timer' = FALSE
    /\ IF timer THEN Persist(text, results, gaps) ELSE UNCHANGED saved
    /\ UNCHANGED <<rowVars, attempts, made, controllers, pool, capped, ran>>
    /\ UNCHANGED <<text, dirty, hydrated, reloads>>

\* The Clear button
Clear ==
    /\ ~running
    /\ SetCids({}, {}, {})
    /\ text' = {} /\ dirty' = TRUE
    /\ saved' = NoRun
    /\ UNCHANGED <<runVars, timer, hydrated, reloads>>

--------------------------------------------------------------------------------
AttemptEnds(a) == AttemptFails(a) \/ \E gap \in BOOLEAN : AttemptDone(a, gap)
PoolStep == CapReached \/ RunEnds \/ \E c \in Cids : Take(c)

RunNext ==
    \/ Restore \/ SaveCompletions \/ SaveEdit \/ Reload
    \/ Prepare \/ RetryFailed \/ PoolStep \/ Clear
    \/ \E t \in SUBSET Cids : Edit(t)
    \/ \E c \in Cids : RetryRow(c) \/ Cancel(c)
    \/ \E a \in attempts : Progress(a) \/ AttemptEnds(a)

RunSpec == RunInit /\ [][RunNext]_prepareVars

\* The pool's workers loop, and an attempt ends: with its piece, with an error, or
\* by the watchdog. Nothing makes the operator press a button
RunFairSpec ==
    /\ RunSpec
    /\ WF_prepareVars(PoolStep)
    /\ \A i \in 1 .. MaxAttempts : WF_prepareVars(\E a \in attempts : a.id = i /\ AttemptEnds(a))

--------------------------------------------------------------------------------
(* Properties *)

\* A row shown as working has an attempt in flight, whatever Prepare, Clear, a
\* late restore or a second attempt at the same row did to the store meanwhile:
\* no row is left working for ever with nobody at work on it
WorkingRowsAreWorkedOn ==
    \A c \in Cids : Row(c) = "working" => \E a \in attempts : a.cid = c

\* Every row a run sets out to compute ends done or failed, unless the byte cap
\* stops the run or the tab goes away: with fewer workers than rows, rows that fail
\* or are cancelled, and a restore or a second attempt in between
RunSettlesItsRows ==
    \A c \in Cids : c \in pool ~> Row(c) \in {"done", "error"} \/ capped \/ ~ran

\* "a CID with a stored result and no live state is done" (prepare-store.ts:8):
\* the count of done rows is of stored results, the rows at work again included
CountsMatchRows == doneCount = Cardinality(ResultsList)

\* "retryFailed() only the failures" (app.tsx:787): a second failure of a row that
\* is already failed takes it out of the list the button works from
FailedRowsAreListed == errorCids = {c \in Cids : rowLive[c] = "error"}

\* "the stall watchdog and the per-row cancel button abort through these"
\* (app.tsx:691): the first of two attempts at a row to end deletes the other's
WorkingRowsCanBeCancelled ==
    \A a \in attempts : a.aborted \/ \E b \in attempts : b.cid = a.cid /\ controllers[a.cid] = b.id
================================================================================
