----------------------------- MODULE BrowserSession -----------------------------
(***************************************************************************)
(* The session key of the console: granted, resumed, extended and revoked  *)
(* (app/src/session.ts), kept in IndexedDB (session-store.ts) and held by  *)
(* the page (app.tsx; local-signing.tsx, which hands it to the daemon),    *)
(* while the wallet changes its account or network when it likes           *)
(* (wallet.ts).                                                            *)
(*                                                                         *)
(* A scope is an account on a network: the record of a key is bound to it. *)
(* A wallet on another network than the console's counts as absent.  Each  *)
(* await is a point where anything else may happen.  A flow works on the   *)
(* wallet and session of the render its button was clicked in; the effect  *)
(* that resumes a session is torn down when the wallet changes.            *)
(***************************************************************************)
EXTENDS Integers, FiniteSets

CONSTANTS
    Scopes,      \* accounts, on the console's network
    Off,         \* no wallet, or one on another network
    Keys,        \* session keys to generate
    NoKey,
    Durations,   \* grants on offer
    Default,     \* DEFAULT_SESSION_DURATION_SECONDS, the shortest of them
    Margin,      \* PRESIGN_SAFETY_MARGIN_SECONDS
    MaxTime,     \* where the clock stops
    MaxChanges   \* bound: changes of the wallet and reloads of the page

ASSUME ScopeAssumption == Off \notin Scopes /\ NoKey \notin Keys
ASSUME BoundAssumption ==
    /\ Durations \subseteq Nat \ {0} /\ Default \in Durations
    /\ {Margin, MaxTime, MaxChanges} \subseteq Nat

VARIABLES
    console,  \* "hosted" runs submits itself, "local" hands its key to a daemon
    now,
    wallet,   \* the scope of the connected wallet
    grant,    \* on chain: per scope and key, the expiry of each permission
    stored,   \* per scope, the key of its record
    session,  \* the page's session
    resumed,  \* history: it came out of a resume
    op,       \* what sessionBusy stands for: the flow a button started
    resumes,  \* the resumes under way
    run,      \* the session a submit run was started with
    presign,  \* the last presign of a run, while it is within the margin
    used,     \* keys generated so far
    withdrawn, \* history: each <<scope, key, expiry>> the chain gave and then took back,
               \* by a revocation or a shorter grant, since it was last read or set
    slipped,  \* history: a step after which a key may be lost (AuthorizationIsHeld)
    changes

flowVars == <<session, resumed, op, resumes, run>>
vars == <<console, now, wallet, grant, stored, flowVars, presign, used, withdrawn,
          slipped, changes>>

Perms == {"createDataSet", "addPieces"}
Time == 0 .. MaxTime
Nobody == Scopes \cup {Off}
AnyKey == Keys \cup {NoKey}

NoSession == [key |-> NoKey, scope |-> Off, expires |-> 0]
NoOp == [kind |-> "none", scope |-> Off, key |-> NoKey, expires |-> 0, record |-> NoKey,
         phase |-> "none"]
NoRun == [scope |-> Off, session |-> NoSession]
NoPresign == [run |-> NoRun, at |-> 0]

\* scope: the one whose grant the expiry was read or set for
Session == [key : AnyKey, scope : Nobody, expires : Nat]

TypeOK ==
    /\ console \in {"hosted", "local"} /\ now \in Time /\ wallet \in Nobody
    /\ grant \in [Scopes -> [Keys -> [Perms -> Nat]]]
    /\ stored \in [Scopes -> AnyKey]
    /\ session \in Session /\ resumed \in BOOLEAN
    /\ op \in [kind : {"none", "grant", "extend", "revoke", "resend"}, scope : Nobody,
               key : AnyKey, expires : Nat, record : AnyKey,
               phase : {"none", "sent", "read", "store", "hand"}]
    /\ resumes \subseteq [scope : Scopes, key : AnyKey, stale : BOOLEAN,
                          phase : {"load", "read", "wipe"}]
    /\ run \in [scope : Nobody, session : Session]
    /\ presign \in [run : [scope : Nobody, session : Session], at : Time]
    /\ used \subseteq Keys
    /\ withdrawn \subseteq Scopes \X Keys \X Nat
    /\ slipped \in BOOLEAN /\ changes \in 0 .. MaxChanges

\* mutant: a key passes for authorized while one of its permissions is
LongestPermission(s, k) ==
    CHOOSE e \in {grant[s][k][p] : p \in Perms} : \A p \in Perms : grant[s][k][p] <= e

\* What getExpirations answers, reduced to the smaller of the two
Effective(s, k) ==
    CHOOSE e \in {grant[s][k][p] : p \in Perms} : \A p \in Perms : grant[s][k][p] >= e

Authorized(s, k) == \A p \in Perms : grant[s][k][p] > now

\* The expiries of a key, still to come, that no longer hold once a permission ends at e
Lost(s, k, e) == {<<s, k, x>> : x \in {y \in (now + 1) .. Effective(s, k) : y > e}}

\* A login replaces the expiry there is, a later one too
Login(s, k, expires) ==
    /\ grant' = [grant EXCEPT ![s][k] = [p \in Perms |-> expires]]
    /\ withdrawn' = (withdrawn \ {<<s, k, expires>>}) \cup Lost(s, k, expires)
RevokeOnChain(s, k) ==
    /\ grant' = [grant EXCEPT ![s][k] = [p \in Perms |-> 0]]
    /\ withdrawn' = withdrawn \cup Lost(s, k, 0)

CanPresign(s) == s.expires - now > Margin

--------------------------------------------------------------------------------
(* Buttons: disabled while sessionBusy *)

Begin(kind, key, expires, phase) ==
    /\ wallet # Off /\ op = NoOp
    /\ op' = [kind |-> kind, scope |-> wallet, key |-> key, expires |-> expires,
              record |-> NoKey, phase |-> phase]
    /\ UNCHANGED <<console, now, wallet, grant, stored, session, resumed, resumes, run,
                   presign, withdrawn, changes>>

\* Offered as soon as there is no session, so also while one is being resumed
Grant(k, d) ==
    /\ session = NoSession /\ k \notin used
    /\ Begin("grant", k, now + d, "sent")
    /\ used' = used \cup {k}
    /\ slipped' = (slipped \/ \E r \in resumes : ~ r.stale)

\* The hosted console always extends by the default, the local one by what is selected
Extend(d) ==
    /\ session # NoSession /\ (console = "local" \/ d = Default)
    /\ Begin("extend", session.key, now + d, "sent")
    /\ UNCHANGED <<used, slipped>>

\* mutant: the local key goes first, the chain afterwards
RevokeWipesFirst ==
    /\ session # NoSession /\ wallet # Off /\ op = NoOp
    /\ op' = [NoOp EXCEPT !.kind = "revoke", !.scope = wallet, !.key = session.key,
                          !.phase = "sent"]
    /\ stored' = [stored EXCEPT ![wallet] = NoKey]
    /\ session' = NoSession /\ resumed' = FALSE
    /\ UNCHANGED <<console, now, wallet, grant, resumes, run, presign, used, withdrawn,
                   slipped, changes>>

Revoke ==
    /\ session # NoSession
    /\ Begin("revoke", session.key, 0, "sent")
    /\ UNCHANGED <<used, slipped>>

Resend ==
    /\ console = "local" /\ session # NoSession
    /\ Begin("resend", session.key, session.expires, "hand")
    /\ UNCHANGED <<used, slipped>>

--------------------------------------------------------------------------------
(* The transaction of a flow *)

Sent == op.phase = "sent"
After(phase) == IF phase = "hand" /\ console = "hosted" THEN NoOp ELSE [op EXCEPT !.phase = phase]

\* What the transaction does on chain
Lands ==
    IF op.kind = "revoke"
      THEN RevokeOnChain(op.scope, op.key)
      ELSE Login(op.scope, op.key, op.expires)

Confirmed ==
    /\ Sent /\ Lands
    /\ op' = After(IF op.kind = "extend" THEN "read" ELSE "store")
    /\ UNCHANGED <<console, now, wallet, stored, session, resumed, resumes, run,
                   presign, used, slipped, changes>>

\* Declined, or failed: the flow throws and nothing local changes
Rejected ==
    /\ Sent
    /\ op' = NoOp
    /\ UNCHANGED <<console, now, wallet, grant, stored, session, resumed, resumes, run,
                   presign, used, withdrawn, slipped, changes>>

\* A failure nobody sees; bound: one, and none after another slip
Mishap == ~ slipped /\ slipped' = TRUE

\* It lands although the wait for its receipt throws
LandsUnseen ==
    /\ Sent /\ Lands
    /\ op' = NoOp
    /\ Mishap
    /\ UNCHANGED <<console, now, wallet, stored, session, resumed, resumes, run,
                   presign, used, changes>>

--------------------------------------------------------------------------------
(* The rest of a flow: the record, the page's session, the daemon *)

\* IndexedDB writes are best-effort: refused, they leave the record as it was
Put(s, k) ==
    \/ stored' = [stored EXCEPT ![s] = k] /\ slipped' = slipped
    \/ stored[s] # k /\ UNCHANGED stored /\ Mishap

\* updateSessionExpiry reads the record and, in a later transaction, writes it back
RecordRead ==
    /\ op.phase = "read"
    /\ op' = [op EXCEPT !.phase = "store", !.record = stored[op.scope]]
    /\ UNCHANGED <<console, now, wallet, grant, stored, session, resumed, resumes, run,
                   presign, used, withdrawn, slipped, changes>>

Store ==
    CASE op.kind = "grant" -> Put(op.scope, op.key)
      [] op.kind = "revoke" -> Put(op.scope, NoKey)
      [] op.kind = "extend" /\ op.record = NoKey -> UNCHANGED <<stored, slipped>>
      [] op.kind = "extend" /\ op.record # NoKey -> Put(op.scope, op.record)

\* The record is written and the page's session set, whatever the wallet is by now
Installed ==
    /\ op.phase = "store"
    /\ Store
    /\ session' = IF op.kind = "revoke" THEN NoSession
                  ELSE [key |-> op.key, scope |-> op.scope, expires |-> op.expires]
    /\ resumed' = FALSE
    /\ op' = After("hand")
    /\ UNCHANGED <<console, now, wallet, grant, resumes, run, presign, used, withdrawn,
                   changes>>

\* Posted to the daemon, or DELETEd there (ServeDaemon has its side).  Neither answer,
\* nor its absence, changes the page's session
Handed ==
    /\ op.phase = "hand"
    /\ op' = NoOp
    /\ UNCHANGED <<console, now, wallet, grant, stored, session, resumed, resumes, run,
                   presign, used, withdrawn, slipped, changes>>

--------------------------------------------------------------------------------
(* The wallet, and the effect that resumes *)

Leave(r) == [r EXCEPT !.stale = TRUE]

\* setWallet, with the same account or another: the effect forgets the session and
\* resumes the one stored for the new scope
WalletChanges(w) ==
    /\ changes < MaxChanges /\ changes' = changes + 1
    /\ wallet' = w
    /\ session' = NoSession /\ resumed' = FALSE
    /\ resumes' = {Leave(r) : r \in resumes} \cup
         {[scope |-> s, key |-> NoKey, stale |-> FALSE, phase |-> "load"] : s \in {w} \ {Off}}
    /\ slipped' = (slipped \/ op # NoOp)
    /\ UNCHANGED <<console, now, grant, stored, op, run, presign, used, withdrawn>>

\* The tab is closed; a transaction that is out may still land
Reload ==
    /\ changes < MaxChanges /\ changes' = changes + 1
    /\ wallet' = Off
    /\ session' = NoSession /\ resumed' = FALSE
    /\ op' = NoOp /\ resumes' = {} /\ run' = NoRun
    /\ \/ Sent /\ Lands
       \/ UNCHANGED <<grant, withdrawn>>
    /\ slipped' = (slipped \/ op # NoOp)
    /\ UNCHANGED <<console, now, stored, presign, used>>

\* null when there is no record, or storage is unavailable
ResumeLoads(r) ==
    /\ r.phase = "load"
    /\ \/ /\ stored[r.scope] # NoKey
          /\ resumes' = (resumes \ {r}) \cup
                {[r EXCEPT !.phase = "read", !.key = stored[r.scope]]}
          /\ UNCHANGED slipped
       \/ /\ resumes' = resumes \ {r}
          /\ IF stored[r.scope] = NoKey THEN UNCHANGED slipped ELSE Mishap
    /\ UNCHANGED <<console, now, wallet, grant, stored, session, resumed, op, run,
                   presign, used, withdrawn, changes>>

\* A failed resume is just "no session"
ResumeFails(r) ==
    /\ r.phase = "read"
    /\ resumes' = resumes \ {r}
    /\ Mishap
    /\ UNCHANGED <<console, now, wallet, grant, stored, session, resumed, op, run,
                   presign, used, withdrawn, changes>>

\* mutant: the answer is used whichever wallet is connected by now
ResumeReadsLate(r) ==
    /\ r.phase = "read"
    /\ LET expires == Effective(r.scope, r.key) IN
       IF expires <= now
         THEN /\ resumes' = (resumes \ {r}) \cup {[r EXCEPT !.phase = "wipe"]}
              /\ UNCHANGED <<session, resumed, withdrawn>>
         ELSE /\ resumes' = resumes \ {r}
              /\ withdrawn' = withdrawn \ {<<r.scope, r.key, expires>>}
              /\ session' = [key |-> r.key, scope |-> r.scope, expires |-> expires]
              /\ resumed' = TRUE
    /\ UNCHANGED <<console, now, wallet, grant, stored, op, run, presign, used,
                   slipped, changes>>

\* getExpirations answers
ResumeReads(r) ==
    /\ r.phase = "read"
    /\ LET expires == Effective(r.scope, r.key) IN
       IF expires <= now
         THEN /\ resumes' = (resumes \ {r}) \cup {[r EXCEPT !.phase = "wipe"]}
              /\ UNCHANGED <<session, resumed, withdrawn>>
         ELSE /\ resumes' = resumes \ {r}
              /\ withdrawn' = withdrawn \ {<<r.scope, r.key, expires>>}
              /\ IF r.stale
                   THEN UNCHANGED <<session, resumed>>
                   ELSE /\ session' = [key |-> r.key, scope |-> r.scope,
                                       expires |-> expires]
                        /\ resumed' = TRUE
    /\ UNCHANGED <<console, now, wallet, grant, stored, op, run, presign, used,
                   slipped, changes>>

\* Its authorization is alive, or the page can still extend it
InUse(s, k) == k # NoKey /\ (Authorized(s, k) \/ k \in {session.key, op.key})

\* The dead record is wiped, whichever key it holds by now
ResumeWipes(r) ==
    /\ r.phase = "wipe"
    /\ resumes' = resumes \ {r}
    /\ \/ /\ stored' = [stored EXCEPT ![r.scope] = NoKey]
          /\ slipped' = (slipped \/ InUse(r.scope, stored[r.scope]))
       \/ UNCHANGED <<stored, slipped>>
    /\ UNCHANGED <<console, now, wallet, grant, session, resumed, op, run, presign,
                   used, withdrawn, changes>>

--------------------------------------------------------------------------------
(* A submit run of the hosted console *)

RunStarts ==
    /\ console = "hosted" /\ run = NoRun
    /\ wallet # Off /\ session # NoSession
    /\ run' = [scope |-> wallet, session |-> session]
    /\ UNCHANGED <<console, now, wallet, grant, stored, session, resumed, op, resumes,
                   presign, used, withdrawn, slipped, changes>>

\* The run signs a chunk, or stops at the margin of the session it was given
RunPresigns ==
    /\ run # NoRun
    /\ \/ CanPresign(run.session) /\ presign' = [run |-> run, at |-> now] /\ UNCHANGED run
       \/ ~ CanPresign(run.session) /\ run' = NoRun /\ UNCHANGED presign
    /\ UNCHANGED <<console, now, wallet, grant, stored, session, resumed, op, resumes,
                   used, withdrawn, slipped, changes>>

RunEnds ==
    /\ run # NoRun
    /\ run' = NoRun
    /\ UNCHANGED <<console, now, wallet, grant, stored, session, resumed, op, resumes,
                   presign, used, withdrawn, slipped, changes>>

--------------------------------------------------------------------------------
(* Time, and what else holds the wallet *)

Tick ==
    /\ now < MaxTime
    /\ now' = now + 1
    /\ presign' = IF now' > presign.at + Margin THEN NoPresign ELSE presign
    /\ withdrawn' = {w \in withdrawn : w[3] > now'}
    /\ UNCHANGED <<console, wallet, grant, stored, flowVars, used, slipped, changes>>

\* One permission is taken back from elsewhere; bound: of one key at a time
PermissionRevoked(s, k, p) ==
    /\ Authorized(s, k) /\ withdrawn = {}
    /\ grant' = [grant EXCEPT ![s][k][p] = 0]
    /\ withdrawn' = withdrawn \cup Lost(s, k, 0)
    /\ UNCHANGED <<console, now, wallet, stored, flowVars, presign, used, slipped,
                   changes>>

Init ==
    /\ console \in {"hosted", "local"}
    /\ now = 0 /\ wallet = Off
    /\ grant = [s \in Scopes |-> [k \in Keys |-> [p \in Perms |-> 0]]]
    /\ stored = [s \in Scopes |-> NoKey]
    /\ session = NoSession /\ resumed = FALSE
    /\ op = NoOp /\ resumes = {} /\ run = NoRun
    /\ presign = NoPresign /\ used = {} /\ withdrawn = {}
    /\ slipped = FALSE /\ changes = 0

Button ==
    \/ \E k \in Keys, d \in Durations : Grant(k, d)
    \/ \E d \in Durations : Extend(d)
    \/ Revoke \/ Resend
Flow == Confirmed \/ Rejected \/ LandsUnseen \/ RecordRead \/ Installed \/ Handed
Resume(r) == ResumeLoads(r) \/ ResumeFails(r) \/ ResumeReads(r) \/ ResumeWipes(r)

Next ==
    \/ Button \/ Flow
    \/ \E w \in Nobody : WalletChanges(w)
    \/ Reload
    \/ \E r \in resumes : Resume(r)
    \/ RunStarts \/ RunPresigns \/ RunEnds
    \/ Tick
    \/ \E s \in Scopes, k \in Keys, p \in Perms : PermissionRevoked(s, k, p)

Spec == Init /\ [][Next]_vars

--------------------------------------------------------------------------------
(* Properties *)

\* A resumed session is the connected wallet's: whatever order the chain's answers
\* and the wallet's changes come in, a late answer is dropped (app.tsx:516-535)
ResumeFollowsWallet == resumed => session.scope = wallet

\* What a run signs outlives the margin: through extensions, resumes and reloads the
\* expiry a session carries is one the chain honours, unless it was taken back since
\* by a revocation or an extension that ends before it, or the run signs for an
\* account the session is not of (session.ts:19-21)
PresignsAreBacked ==
    LET s == presign.run.session IN
    \/ presign = NoPresign
    \/ s.scope # presign.run.scope
    \/ <<s.scope, s.key, s.expires>> \in withdrawn
    \/ Authorized(s.scope, s.key)

\* No authorization is left alive on chain with no key in the app to revoke it with
\* (session.ts:15-18): every key with a live grant is in its record, in the page or
\* in a flow.  It can be lost after a transaction that lands unseen, a wallet change
\* or a reload during a flow, a storage or chain read that fails (the next grant
\* overwrites the record), and a late resume that wipes the record of a key in use
AuthorizationIsHeld ==
    \A s \in Scopes, k \in Keys :
        Authorized(s, k) /\ ~ slipped =>
            \/ stored[s] = k
            \/ session.key = k /\ session.scope = s
            \/ op.key = k /\ op.scope = s

\* session.ts:19-21: "no new presign batch should be issued within
\* PRESIGN_SAFETY_MARGIN_SECONDS of expiry"
NoPresignNearExpiry ==
    LET s == presign.run.session IN
    presign # NoPresign /\ s.scope = presign.run.scope =>
        \A p \in Perms : grant[s.scope][s.key][p] \notin 1 .. now

\* app.tsx:479-481: "a stale address here would show one account's balances while a
\* session key signs for another"
SessionIsWallets == session # NoSession => session.scope = wallet
================================================================================
