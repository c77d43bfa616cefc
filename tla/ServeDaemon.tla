---------------------------- MODULE ServeDaemon ----------------------------
(***************************************************************************)
(* The chain jobs of `ipfs2foc serve`: the session, submit and data-set    *)
(* routes of packages/cli/src/server.ts, the session-key row of db.ts and  *)
(* the presign guard of session-submit.ts.                                 *)
(*                                                                         *)
(* Node runs one handler at a time, but a handler awaits the rest of its   *)
(* body, a chain read or the ingress probe, and others run meanwhile: one  *)
(* action per stretch between awaits.  The browser extends or revokes the  *)
(* grant of a key on chain at any time.  A job is reduced to what it does  *)
(* with its key: a submit run presigns and adds Presigns times (SubmitPdp  *)
(* has the rest of it), a creation posts one transaction.                  *)
(***************************************************************************)
EXTENDS Naturals, Sequences, FiniteSets

CONSTANTS
    Keys,         \* session keys
    NoKey,        \* the absent row
    Reqs,         \* the POST requests of a behaviour
    Margin,       \* PRESIGN_SAFETY_MARGIN_SECONDS
    MaxTime,      \* where the clock stops
    Presigns,     \* chunks of a submit run
    MaxRestarts   \* how often the daemon is restarted

ASSUME KeysAssumption  == NoKey \notin Keys
ASSUME BoundAssumption ==
    {Margin, MaxTime, MaxRestarts} \subseteq Nat /\ Presigns \in Nat \ {0}

VARIABLES
    now,        \* the clock
    grant,      \* on chain: expiry of each key's grant; 0 when absent
    revoked,    \* keys whose grant was taken back
    stored,     \* the session_keys row: key, cached expiry, and (history) the
                \* key that expiry was read for
    req,        \* where each request is, and what it has read so far
    reachable,  \* ingress.reachable: the last answer of the probe
    jobs,       \* every ChainJob of this process, oldest first
    shown,      \* which of them the `job` slot holds; 0 = null
    lastAdd,    \* history: the add the chain refused last, unless one was accepted since
    restarts

vars == <<now, grant, revoked, stored, req, reachable, jobs, shown, lastAdd, restarts>>

Time == 0 .. MaxTime
NoRow == [key |-> NoKey, expires |-> 0, of |-> NoKey]
Row == [key : Keys, expires : Time, of : Keys]

Idle == [pc |-> "idle", kind |-> "none", row |-> NoRow]
Answered == [Idle EXCEPT !.pc = "done"]
NoAdd == [row |-> NoRow, signed |-> 0, at |-> 0]

Kinds == {"submit", "create-data-set"}

(* A job: at "presign" it asks for a presign, at "reread" it waits for the
   chain's expiry, at "signed" for its add, at "created" for its data set. *)
Job == [kind : Kinds, row : Row, left : 0 .. Presigns, signed : Time,
        phase : {"presign", "reread", "signed", "create", "created", "ended"},
        running : BOOLEAN, dataSet : Nat,
        error : BOOLEAN]

TypeOK ==
    /\ now \in Time
    /\ grant \in [Keys -> Time]
    /\ revoked \subseteq Keys
    /\ stored \in Row \cup {NoRow}
    /\ req \in [Reqs -> [pc : {"idle", "validating", "body", "probe", "done"},
                         kind : Kinds \cup {"session", "none"},
                         row : Row \cup {NoRow}]]
    /\ reachable \in BOOLEAN
    /\ jobs \in Seq(Job)
    /\ shown \in 0 .. Len(jobs)
    /\ restarts \in 0 .. MaxRestarts

Running == {j \in DOMAIN jobs : jobs[j].running}

\* `job?.running === true`
SlotBusy == shown # 0 /\ jobs[shown].running

\* whether an expiry lies inside the presign margin
InMargin(expires) == expires <= now + Margin

---------------------------------------------------------------------------
(* The session-key row. *)

SaveSessionKey(k, expires) == stored' = [key |-> k, expires |-> expires, of |-> k]

\* mutant: the refresh writes the job's whole row back
UpdateWritesRow(k, expires) == SaveSessionKey(k, expires)

(* UPDATE ... WHERE id = 1: whichever key is in the row by now. *)
UpdateSessionExpiry(k, expires) ==
    stored' = IF stored = NoRow THEN NoRow
              ELSE [stored EXCEPT !.expires = expires, !.of = k]

---------------------------------------------------------------------------
(* Jobs. *)

NewJob(kind, row) ==
    [kind |-> kind, row |-> row, left |-> IF kind = "submit" THEN Presigns ELSE 0,
     signed |-> 0, phase |-> IF kind = "submit" THEN "presign" ELSE "create",
     running |-> TRUE, dataSet |-> 0, error |-> FALSE]

StartJob(kind, row) ==
    /\ jobs' = Append(jobs, NewJob(kind, row))
    /\ shown' = Len(jobs) + 1

\* mutant: `finally` became `then`, a job that throws keeps the slot
EndedOnlyWhenDone(job, failed) ==
    [job EXCEPT !.phase = "ended", !.running = failed, !.error = failed]

Ended(job, failed) ==
    [job EXCEPT !.phase = "ended", !.running = FALSE, !.signed = 0, !.error = failed]

---------------------------------------------------------------------------
(* The chain, the clock and the daemon's process. *)

Tick ==
    /\ now < MaxTime
    /\ now' = now + 1
    /\ UNCHANGED <<grant, revoked, stored, req, reachable, jobs, shown, lastAdd, restarts>>

(* The wallet grants the key, or extends its grant. *)
Extend(k, expires) ==
    /\ k \notin revoked
    /\ expires > now /\ expires > grant[k]
    /\ grant' = [grant EXCEPT ![k] = expires]
    /\ UNCHANGED <<now, revoked, stored, req, reachable, jobs, shown, lastAdd, restarts>>

Revoke(k) ==
    /\ grant[k] > 0
    /\ grant' = [grant EXCEPT ![k] = 0]
    /\ revoked' = revoked \cup {k}
    /\ UNCHANGED <<now, stored, req, reachable, jobs, shown, lastAdd, restarts>>

(* The job slot and the requests live in memory, the key in the database. *)
Restart ==
    /\ restarts < MaxRestarts
    /\ restarts' = restarts + 1
    /\ jobs' = <<>> /\ shown' = 0
    /\ reachable' = FALSE
    /\ req' = [r \in Reqs |-> IF req[r].pc = "idle" THEN Idle
                              ELSE Answered]
    /\ UNCHANGED <<now, grant, revoked, stored, lastAdd>>

---------------------------------------------------------------------------
(* POST and DELETE /api/session. *)

SessionPosted(r, k) ==
    /\ req[r].pc = "idle"
    /\ req' = [req EXCEPT ![r] = [pc |-> "validating", kind |-> "session",
                                  row |-> [key |-> k, expires |-> 0, of |-> k]]]
    /\ UNCHANGED <<now, grant, revoked, stored, reachable, jobs, shown, lastAdd, restarts>>

(* The chain read answers: a live grant is saved before the answer. *)
SessionValidated(r) ==
    /\ req[r].pc = "validating"
    /\ LET k == req[r].row.key
       IN IF grant[k] > now
          THEN SaveSessionKey(k, grant[k])
          ELSE UNCHANGED stored
    /\ req' = [req EXCEPT ![r] = Answered]
    /\ UNCHANGED <<now, grant, revoked, reachable, jobs, shown, lastAdd, restarts>>

SessionDeleted ==
    /\ stored # NoRow
    /\ stored' = NoRow
    /\ UNCHANGED <<now, grant, revoked, req, reachable, jobs, shown, lastAdd, restarts>>

---------------------------------------------------------------------------
(* POST /api/submit and POST /api/data-sets. *)

(* The checks run on arrival, before the body is awaited; a refusal answers
   409 and leaves nothing behind. *)
JobPosted(r, kind) ==
    /\ req[r].pc = "idle"
    /\ ~ SlotBusy
    /\ stored # NoRow
    /\ ~ InMargin(stored.expires)
    /\ req' = [req EXCEPT ![r] = [pc |-> "body", kind |-> kind, row |-> stored]]
    /\ UNCHANGED <<now, grant, revoked, stored, reachable, jobs, shown, lastAdd, restarts>>

DataSetBody(r) ==
    /\ req[r].pc = "body" /\ req[r].kind = "create-data-set"
    /\ StartJob("create-data-set", req[r].row)
    /\ req' = [req EXCEPT ![r] = Answered]
    /\ UNCHANGED <<now, grant, revoked, stored, reachable, lastAdd, restarts>>

SubmitBody(r) ==
    /\ req[r].pc = "body" /\ req[r].kind = "submit"
    /\ req' = [req EXCEPT ![r].pc = "probe"]
    /\ UNCHANGED <<now, grant, revoked, stored, reachable, jobs, shown, lastAdd, restarts>>

(* The probe answers; the job starts without a second look at the slot. *)
Probed(r, ok) ==
    /\ req[r].pc = "probe"
    /\ reachable' = ok
    /\ IF ok THEN StartJob("submit", req[r].row) ELSE UNCHANGED <<jobs, shown>>
    /\ req' = [req EXCEPT ![r] = Answered]
    /\ UNCHANGED <<now, grant, revoked, stored, lastAdd, restarts>>

---------------------------------------------------------------------------
(* A submit run: guardedPresignContext around each presign, then the add. *)

AtPhase(j, phase) == j \in Running /\ jobs[j].phase = phase

\* mutant: the cached expiry is only compared with the clock
PresignUntilExpiry(j) ==
    /\ AtPhase(j, "presign")
    /\ jobs' = [jobs EXCEPT ![j] =
                  IF @.row.expires <= now THEN [@ EXCEPT !.phase = "reread"]
                  ELSE [@ EXCEPT !.phase = "signed", !.signed = now]]
    /\ UNCHANGED <<now, grant, revoked, stored, req, reachable, shown, lastAdd, restarts>>

PresignFromCache(j) ==
    /\ AtPhase(j, "presign")
    /\ jobs' = [jobs EXCEPT ![j] =
                  IF InMargin(@.row.expires) THEN [@ EXCEPT !.phase = "reread"]
                  ELSE [@ EXCEPT !.phase = "signed", !.signed = now]]
    /\ UNCHANGED <<now, grant, revoked, stored, req, reachable, shown, lastAdd, restarts>>

(* The chain is re-read; its answer is cached in the run and in the row. *)
PresignReread(j) ==
    /\ AtPhase(j, "reread")
    /\ LET k       == jobs[j].row.key
           expires == grant[k]
           fresh   == [jobs[j] EXCEPT !.row.expires = expires, !.row.of = k]
       IN /\ UpdateSessionExpiry(k, expires)
          /\ jobs' = [jobs EXCEPT ![j] =
                        IF InMargin(expires) THEN Ended(fresh, TRUE)
                        ELSE [fresh EXCEPT !.phase = "signed", !.signed = now]]
    /\ UNCHANGED <<now, grant, revoked, req, reachable, shown, lastAdd, restarts>>

(* The provider sends the add; the chain checks the grant then. *)
AddSent(j) ==
    /\ AtPhase(j, "signed")
    /\ LET job == jobs[j]
           ok  == grant[job.row.key] > now
       IN /\ lastAdd' = IF ok THEN NoAdd
                        ELSE [row |-> job.row, signed |-> job.signed, at |-> now]
          /\ jobs' = [jobs EXCEPT ![j] =
                        IF ~ ok \/ job.left = 1 THEN Ended(job, ~ ok)
                        ELSE [job EXCEPT !.left = @ - 1, !.signed = 0, !.phase = "presign"]]
    /\ UNCHANGED <<now, grant, revoked, stored, req, reachable, shown, restarts>>

(* Anything else a job awaits may throw. *)
JobFails(j) ==
    /\ j \in Running
    /\ jobs' = [jobs EXCEPT ![j] = Ended(@, TRUE)]
    /\ UNCHANGED <<now, grant, revoked, stored, req, reachable, shown, lastAdd, restarts>>

---------------------------------------------------------------------------
(* A data-set creation. *)

CreatePosted(j) ==
    /\ AtPhase(j, "create")
    /\ jobs' = [jobs EXCEPT ![j] = IF grant[@.row.key] > now
                                   THEN [@ EXCEPT !.phase = "created"]
                                   ELSE Ended(@, TRUE)]
    /\ UNCHANGED <<now, grant, revoked, stored, req, reachable, shown, lastAdd, restarts>>

(* The new id (here the job's number) goes to the job the slot holds now. *)
CreateAnswered(j) ==
    /\ AtPhase(j, "created")
    /\ jobs' = [i \in DOMAIN jobs |->
                  LET job == IF i = j THEN Ended(jobs[i], FALSE) ELSE jobs[i]
                  IN IF i = shown THEN [job EXCEPT !.dataSet = j] ELSE job]
    /\ UNCHANGED <<now, grant, revoked, stored, req, reachable, shown, lastAdd, restarts>>

---------------------------------------------------------------------------
Init ==
    /\ now = 0
    /\ grant = [k \in Keys |-> 0]
    /\ revoked = {}
    /\ stored = NoRow
    /\ req = [r \in Reqs |-> Idle]
    /\ reachable = FALSE
    /\ jobs = <<>>
    /\ shown = 0
    /\ lastAdd = NoAdd
    /\ restarts = 0

RequestStep(r) ==
    \/ SessionValidated(r)
    \/ DataSetBody(r)
    \/ SubmitBody(r)
    \/ \E ok \in BOOLEAN : Probed(r, ok)

JobStep(j) ==
    \/ PresignFromCache(j)
    \/ PresignReread(j)
    \/ AddSent(j)
    \/ CreatePosted(j)
    \/ CreateAnswered(j)

Next ==
    \/ Tick
    \/ \E k \in Keys, e \in Time : Extend(k, e)
    \/ \E k \in Keys : Revoke(k)
    \/ Restart
    \/ SessionDeleted
    \/ \E r \in Reqs, k \in Keys : SessionPosted(r, k)
    \/ \E r \in Reqs, kind \in Kinds : JobPosted(r, kind)
    \/ \E r \in Reqs : RequestStep(r)
    \/ \E j \in DOMAIN jobs : JobStep(j) \/ JobFails(j)

Spec == Init /\ [][Next]_vars

(* A running job's awaits all end: they carry timeouts or bounded polls. *)
FairSpec == Spec /\ \A j \in 1 .. Cardinality(Reqs) :
                        WF_vars(j \in DOMAIN jobs /\ JobStep(j))

---------------------------------------------------------------------------
(* An add sent no later than the margin after its presign finds its grant
   alive, over extensions, re-reads and requests that waited on their body:
   unless the key was revoked, or the run was handed an expiry that was read
   for another key.  PRESIGN_SAFETY_MARGIN_SECONDS, session-submit.ts:42. *)
AddsInsideMarginAreAuthorized ==
    \/ lastAdd = NoAdd
    \/ lastAdd.at > lastAdd.signed + Margin
    \/ lastAdd.row.key \in revoked
    \/ lastAdd.row.of # lastAdd.row.key

(* A key only enters the row from a session POST for that key whose grant is
   alive on chain; no running job brings a deleted or replaced key back. *)
KeysEnterByValidatedPost ==
    [][stored'.key \notin {stored.key, NoKey} =>
          \E r \in Reqs : /\ req[r].pc = "validating" /\ req'[r].pc = "done"
                          /\ req[r].row.key = stored'.key
                          /\ grant[stored'.key] > now]_vars

(* The slot always comes free: each job, failed ones included, stops counting
   as running, so that later submits are admitted. *)
SlotComesFree ==
    \A j \in 1 .. Cardinality(Reqs) : (j \in Running) ~> (j \notin Running)

(* server.ts:165-166: one job slot, "The single in-flight chain job".  Two
   requests that both passed the check while awaiting break it. *)
OneRunningJob == Cardinality(Running) <= 1

(* session-submit.ts:18: "The chain is canonical for expiry".  The expiry in
   the row was read for the key in the row. *)
StoredExpiryIsItsKeys == stored.of = stored.key
=============================================================================
