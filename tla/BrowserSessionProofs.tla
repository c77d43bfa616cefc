-------------------------- MODULE BrowserSessionProofs --------------------------
(***************************************************************************)
(* Proofs about BrowserSession: types, that a late resume never speaks for *)
(* another wallet, that what a run signs is backed by the chain, and that  *)
(* no live authorization is without a key.                                 *)
(***************************************************************************)
EXTENDS BrowserSession, TLAPS

--------------------------------------------------------------------------------
(* The parts of the inductive invariants *)

\* A session, a run and a presign there are belong to an account
SomeSession(s) == s = NoSession \/ (s.key \in Keys /\ s.scope \in Scopes)

\* A flow under way works for an account, with a key; and which flows reach a phase
FlowShape ==
    /\ op.phase = "none" => op = NoOp
    /\ op.phase # "none" => op.scope \in Scopes /\ op.key \in Keys
    /\ op.phase \in {"sent", "store"} => op.kind \in {"grant", "extend", "revoke"}
    /\ op.phase = "read" => op.kind = "extend"

ShapeInv ==
    /\ SomeSession(session)
    /\ run = NoRun \/ (run.scope \in Scopes /\ run.session # NoSession)
    /\ SomeSession(run.session)
    /\ presign = NoPresign \/ (presign.run.scope \in Scopes /\ presign.run.session # NoSession)
    /\ SomeSession(presign.run.session)
    /\ FlowShape
    /\ \A r \in resumes : r.phase \in {"read", "wipe"} => r.key \in Keys

\* A resume whose effect was not torn down is for the wallet there is
ResumeInv ==
    /\ ResumeFollowsWallet
    /\ \A r \in resumes : ~ r.stale => r.scope = wallet

IInv == TypeOK /\ ShapeInv /\ ResumeInv

\* The chain honours expiry e of a key, or it is over, or it was taken back
Honoured(s, k, e, g, w, t) ==
    \/ e <= t
    \/ <<s, k, e>> \in w
    \/ \A p \in Perms : g[s][k][p] >= e

Backed(c, g, w, t) == c.key \in Keys /\ c.scope \in Scopes => Honoured(c.scope, c.key, c.expires, g, w, t)

\* A presign is kept no longer than the margin, and was made that long before the end
InMargin(t) ==
    presign # NoPresign =>
        presign.run.session.expires > presign.at + Margin /\ t <= presign.at + Margin

BackedInv ==
    /\ Backed(session, grant, withdrawn, now)
    /\ Backed(run.session, grant, withdrawn, now)
    /\ Backed(presign.run.session, grant, withdrawn, now)
    /\ op.phase \in {"read", "store"} /\ op.kind # "revoke" =>
          Honoured(op.scope, op.key, op.expires, grant, withdrawn, now)
    /\ InMargin(now)

\* A key nobody generated yet is nowhere
Known == used \cup {NoKey}
FreshInv ==
    /\ \A s \in Scopes : stored[s] \in Known
    /\ session.key \in Known /\ op.key \in Known /\ op.record \in Known
    /\ \A r \in resumes : r.key \in Known
    /\ \A s \in Scopes, k \in Keys \ used, p \in Perms : grant[s][k][p] = 0

Dead(s, k) == k = NoKey \/ ~ Authorized(s, k)

\* A live authorization is in its record, or in the flow that is about to write it
RecordedOrFlowing ==
    \A s \in Scopes, k \in Keys :
        Authorized(s, k) => \/ stored[s] = k
                            \/ op.phase \in {"read", "store"} /\ op.key = k /\ op.scope = s

\* The page's session is the one recorded for the wallet
SessionRecorded == session # NoSession => session.scope = wallet /\ stored[wallet] = session.key

\* A flow is for the wallet there is
FlowIsWallets == op.phase # "none" => op.scope = wallet

\* An extension or a revocation is of the page's key; a grant finds no session
FlowKey ==
    op.phase \in {"sent", "read", "store"} =>
        /\ op.kind \in {"extend", "revoke"} => session # NoSession /\ session.key = op.key
        /\ op.kind = "extend" /\ op.phase = "store" => op.record = op.key
        /\ op.kind = "revoke" /\ op.phase = "store" => Dead(op.scope, op.key)
        /\ op.kind = "grant" => session = NoSession /\ stored[op.scope] # op.key
        /\ op.kind = "grant" /\ op.phase = "sent" => Dead(op.scope, op.key)

Live == {r \in resumes : ~ r.stale}

\* The one live resume runs while there is neither session nor flow, and knows the
\* record unless that key is dead
LiveResume ==
    /\ \A r \in Live :
          /\ session = NoSession /\ op.phase = "none"
          /\ r.phase # "load" => stored[wallet] \in {r.key, NoKey}
          /\ r.phase # "load" /\ (stored[wallet] = NoKey \/ r.phase = "wipe") => Dead(wallet, r.key)
    /\ \A r, q \in Live : r = q

\* With no session and no resume that could bring one, the record is of no use
NothingToResume ==
    wallet # Off /\ session = NoSession /\ Live = {} => Dead(wallet, stored[wallet])

AllHeld == /\ RecordedOrFlowing /\ SessionRecorded /\ FlowIsWallets /\ FlowKey
           /\ LiveResume /\ NothingToResume
KeptInv == ~ slipped => AllHeld

HInv == IInv /\ FreshInv /\ KeptInv

--------------------------------------------------------------------------------
(* The chain *)

\* The smaller of a key's two expiries
LEMMA EffectiveIsLeast ==
    ASSUME TypeOK, NEW s \in Scopes, NEW k \in Keys
    PROVE  /\ Effective(s, k) \in Nat
           /\ \A p \in Perms : grant[s][k][p] >= Effective(s, k)
           /\ \E p \in Perms : grant[s][k][p] = Effective(s, k)
<1> DEFINE c == grant[s][k]["createDataSet"]
           a == grant[s][k]["addPieces"]
           S == {grant[s][k][p] : p \in Perms}
<1>1. c \in Nat /\ a \in Nat
  BY DEF TypeOK, Perms
<1>2. S = {c, a}
  BY Zenon DEF Perms
<1>3. \E e \in S : \A p \in Perms : grant[s][k][p] >= e
  <2>1. CASE c <= a
    <3>1. \A p \in Perms : grant[s][k][p] >= c
      BY <1>1, <2>1 DEF Perms
    <3> QED BY <3>1, <1>2
  <2>2. CASE a <= c
    <3>1. \A p \in Perms : grant[s][k][p] >= a
      BY <1>1, <2>2 DEF Perms
    <3> QED BY <3>1, <1>2
  <2> QED BY <1>1, <2>1, <2>2
<1> HIDE DEF c, a
<1>4. Effective(s, k) \in S /\ \A p \in Perms : grant[s][k][p] >= Effective(s, k)
  BY <1>3, Zenon DEF Effective
<1>5. \E p \in Perms : grant[s][k][p] = Effective(s, k)
  BY <1>4
<1> QED BY <1>1, <1>2, <1>4, <1>5

\* A key is authorized as long as the smaller expiry is to come
LEMMA AuthorizedIsEffective ==
    ASSUME TypeOK, NEW s \in Scopes, NEW k \in Keys
    PROVE  Authorized(s, k) <=> Effective(s, k) > now
<1>1. \A p \in Perms : grant[s][k][p] \in Nat
  BY DEF TypeOK
<1>2. now \in Nat
  BY BoundAssumption DEF TypeOK, Time
<1> QED BY <1>1, <1>2, EffectiveIsLeast DEF Authorized

\* What a login does to the registry
LEMMA LoginGrants ==
    ASSUME TypeOK, NEW s \in Scopes, NEW k \in Keys, NEW e \in Nat, Login(s, k, e)
    PROVE  /\ grant' \in [Scopes -> [Keys -> [Perms -> Nat]]]
           /\ withdrawn' \subseteq Scopes \X Keys \X Nat
           /\ \A p \in Perms : grant'[s][k][p] = e
           /\ \A x \in Scopes, y \in Keys : <<x, y>> # <<s, k>> => grant'[x][y] = grant[x][y]
<1>1. grant' \in [Scopes -> [Keys -> [Perms -> Nat]]]
  BY DEF TypeOK, Login
<1>2. Lost(s, k, e) \subseteq Scopes \X Keys \X Nat
  <2>1. Effective(s, k) \in Nat /\ now \in Nat
    BY EffectiveIsLeast, BoundAssumption DEF TypeOK, Time
  <2>2. {y \in (now + 1) .. Effective(s, k) : y > e} \subseteq Nat
    BY <2>1
  <2> QED BY <2>2 DEF Lost
<1>3. withdrawn' \subseteq Scopes \X Keys \X Nat
  BY <1>2 DEF TypeOK, Login
<1>4. \A p \in Perms : grant'[s][k][p] = e
  BY DEF TypeOK, Login
<1>5. \A x \in Scopes, y \in Keys : <<x, y>> # <<s, k>> => grant'[x][y] = grant[x][y]
  BY DEF TypeOK, Login
<1> QED BY <1>1, <1>3, <1>4, <1>5

\* What a revocation does to it
LEMMA RevokeGrants ==
    ASSUME TypeOK, NEW s \in Scopes, NEW k \in Keys, RevokeOnChain(s, k)
    PROVE  /\ grant' \in [Scopes -> [Keys -> [Perms -> Nat]]]
           /\ withdrawn' \subseteq Scopes \X Keys \X Nat
           /\ \A p \in Perms : grant'[s][k][p] = 0
           /\ \A x \in Scopes, y \in Keys : <<x, y>> # <<s, k>> => grant'[x][y] = grant[x][y]
<1>1. grant' \in [Scopes -> [Keys -> [Perms -> Nat]]]
  BY DEF TypeOK, RevokeOnChain
<1>2. Lost(s, k, 0) \subseteq Scopes \X Keys \X Nat
  <2>1. Effective(s, k) \in Nat /\ now \in Nat
    BY EffectiveIsLeast, BoundAssumption DEF TypeOK, Time
  <2>2. {y \in (now + 1) .. Effective(s, k) : y > 0} \subseteq Nat
    BY <2>1
  <2> QED BY <2>2 DEF Lost
<1>3. withdrawn' \subseteq Scopes \X Keys \X Nat
  BY <1>2 DEF TypeOK, RevokeOnChain
<1>4. \A p \in Perms : grant'[s][k][p] = 0
  BY DEF TypeOK, RevokeOnChain
<1>5. \A x \in Scopes, y \in Keys : <<x, y>> # <<s, k>> => grant'[x][y] = grant[x][y]
  BY DEF TypeOK, RevokeOnChain
<1> QED BY <1>1, <1>3, <1>4, <1>5

\* What the transaction of a flow does: it ends at the expiry of the flow, at 0 for a
\* revocation
LandsAt == IF op.kind = "revoke" THEN 0 ELSE op.expires
LEMMA LandsGrants ==
    ASSUME IInv, Sent, Lands
    PROVE  /\ op.scope \in Scopes /\ op.key \in Keys
           /\ grant' \in [Scopes -> [Keys -> [Perms -> Nat]]]
           /\ withdrawn' \subseteq Scopes \X Keys \X Nat
           /\ \A p \in Perms : grant'[op.scope][op.key][p] = LandsAt
           /\ \A x \in Scopes, y \in Keys :
                 <<x, y>> # <<op.scope, op.key>> => grant'[x][y] = grant[x][y]
<1>1. op.scope \in Scopes /\ op.key \in Keys
  BY DEF IInv, ShapeInv, FlowShape, Sent
<1>2. TypeOK /\ op.expires \in Nat
  BY DEF IInv, TypeOK
<1>3. CASE op.kind = "revoke"
  <2>1. RevokeOnChain(op.scope, op.key) /\ LandsAt = 0
    BY <1>3 DEF Lands, LandsAt
  <2> QED BY <1>1, <1>2, <2>1, RevokeGrants
<1>4. CASE op.kind # "revoke"
  <2>1. Login(op.scope, op.key, op.expires) /\ LandsAt = op.expires
    BY <1>4 DEF Lands, LandsAt
  <2> QED BY <1>1, <1>2, <2>1, LoginGrants
<1> QED BY <1>3, <1>4

--------------------------------------------------------------------------------
(* Types, and who a flow, a session and a resume belong to *)

LEMMA InitIInv == Init => IInv
<1> SUFFICES ASSUME Init
             PROVE  IInv
  OBVIOUS
<1> USE ScopeAssumption, BoundAssumption
<1>1. NoSession \in Session /\ NoSession.key = NoKey
  BY DEF NoSession, Session, AnyKey, Nobody
<1>2. TypeOK
  <2>1. run \in [scope : Nobody, session : Session]
    BY <1>1 DEF Init, NoRun, Nobody
  <2>2. presign \in [run : [scope : Nobody, session : Session], at : Time]
    BY <1>1 DEF Init, NoPresign, NoRun, Nobody, Time
  <2>3. op \in [kind : {"none", "grant", "extend", "revoke", "resend"}, scope : Nobody,
                key : AnyKey, expires : Nat, record : AnyKey,
                phase : {"none", "sent", "read", "store", "hand"}]
    BY DEF Init, NoOp, Nobody, AnyKey
  <2>4. grant \in [Scopes -> [Keys -> [Perms -> Nat]]] /\ stored \in [Scopes -> AnyKey]
    BY DEF Init, AnyKey
  <2>5. now \in Time /\ changes \in 0 .. MaxChanges /\ wallet \in Nobody
    BY DEF Init, Time, Nobody
  <2> QED BY <1>1, <2>1, <2>2, <2>3, <2>4, <2>5 DEF Init, TypeOK
<1>3. ShapeInv
  <2>1. FlowShape
    BY DEF Init, FlowShape, NoOp
  <2>2. run = NoRun /\ presign = NoPresign /\ run.session = NoSession
        /\ presign.run.session = NoSession
    BY DEF Init, NoRun, NoPresign
  <2> QED BY <2>1, <2>2 DEF Init, ShapeInv, SomeSession
<1>4. ResumeInv
  BY DEF Init, ResumeInv, ResumeFollowsWallet
<1> QED BY <1>2, <1>3, <1>4 DEF IInv

\* A button starts a flow for the wallet there is, with the key it is about
LEMMA BeginIInv ==
    ASSUME IInv, NEW kind \in {"grant", "extend", "revoke", "resend"}, NEW key \in Keys,
           NEW expires \in Nat, NEW phase \in {"sent", "hand"},
           phase = "sent" => kind # "resend",
           Begin(kind, key, expires, phase), used' \subseteq Keys, slipped' \in BOOLEAN
    PROVE  IInv'
<1>1. wallet \in Scopes
  BY DEF IInv, TypeOK, Nobody, Begin
<1>2. op' = [kind |-> kind, scope |-> wallet, key |-> key, expires |-> expires,
             record |-> NoKey, phase |-> phase]
  BY DEF Begin
<1>3. FlowShape'
  BY <1>1, <1>2 DEF FlowShape
<1>4. op' \in [kind : {"none", "grant", "extend", "revoke", "resend"}, scope : Nobody,
               key : AnyKey, expires : Nat, record : AnyKey,
               phase : {"none", "sent", "read", "store", "hand"}]
  BY <1>1, <1>2 DEF Nobody, AnyKey
<1>5. TypeOK'
  BY <1>4 DEF IInv, TypeOK, Begin
<1>6. ShapeInv'
  BY <1>3 DEF IInv, ShapeInv, Begin
<1>7. ResumeInv'
  BY DEF IInv, ResumeInv, ResumeFollowsWallet, Begin
<1> QED BY <1>5, <1>6, <1>7 DEF IInv

LEMMA ButtonIInv == ASSUME IInv, Button PROVE IInv'
<1> USE ScopeAssumption, BoundAssumption
<1>1. now \in Nat /\ used \subseteq Keys /\ slipped \in BOOLEAN
  BY DEF IInv, TypeOK, Time
<1>2. session # NoSession => session.key \in Keys
  BY DEF IInv, ShapeInv, SomeSession
<1>3. session.expires \in Nat
  BY DEF IInv, TypeOK, Session
<1>4. ASSUME NEW k \in Keys, NEW d \in Durations, Grant(k, d) PROVE IInv'
  <2>1. now + d \in Nat
    BY <1>1
  <2>2. Begin("grant", k, now + d, "sent") /\ used' \subseteq Keys /\ slipped' \in BOOLEAN
    BY <1>1, <1>4 DEF Grant
  <2> QED BY <2>1, <2>2, BeginIInv
<1>5. ASSUME NEW d \in Durations, Extend(d) PROVE IInv'
  <2>1. now + d \in Nat
    BY <1>1
  <2>2. Begin("extend", session.key, now + d, "sent") /\ used' \subseteq Keys
        /\ slipped' \in BOOLEAN /\ session.key \in Keys
    BY <1>1, <1>2, <1>5 DEF Extend
  <2> QED BY <2>1, <2>2, BeginIInv
<1>6. CASE Revoke
  <2>1. Begin("revoke", session.key, 0, "sent") /\ used' \subseteq Keys
        /\ slipped' \in BOOLEAN /\ session.key \in Keys
    BY <1>1, <1>2, <1>6 DEF Revoke
  <2> QED BY <2>1, BeginIInv
<1>7. CASE Resend
  <2>1. Begin("resend", session.key, session.expires, "hand") /\ used' \subseteq Keys
        /\ slipped' \in BOOLEAN /\ session.key \in Keys
    BY <1>1, <1>2, <1>7 DEF Resend
  <2> QED BY <1>3, <2>1, BeginIInv
<1> QED BY <1>4, <1>5, <1>6, <1>7 DEF Button

LEMMA FlowIInv == ASSUME IInv, Flow PROVE IInv'
<1> USE ScopeAssumption, BoundAssumption
<1> DEFINE OpType == [kind : {"none", "grant", "extend", "revoke", "resend"},
                      scope : Nobody, key : AnyKey, expires : Nat, record : AnyKey,
                      phase : {"none", "sent", "read", "store", "hand"}]
<1>1. op \in OpType /\ TypeOK
  BY DEF IInv, TypeOK
<1>2. NoOp \in OpType /\ NoOp.phase = "none"
  BY DEF NoOp, Nobody, AnyKey
<1>3. \A phase \in {"read", "store", "hand"} :
         /\ op.phase # "none" => After(phase) \in OpType
         /\ After(phase) = NoOp \/ After(phase) = [op EXCEPT !.phase = phase]
  BY <1>1, <1>2 DEF After
<1> HIDE DEF OpType
\* Nothing but the flow moves
<1>4. ASSUME FlowShape', op' \in OpType,
             grant' \in [Scopes -> [Keys -> [Perms -> Nat]]],
             withdrawn' \subseteq Scopes \X Keys \X Nat,
             slipped' \in BOOLEAN,
             UNCHANGED <<console, now, wallet, stored, session, resumed, resumes, run, presign,
                         used, changes>>
      PROVE  IInv'
  <2>1. TypeOK'
    BY <1>4 DEF IInv, TypeOK, OpType
  <2>2. ShapeInv'
    BY <1>4 DEF IInv, ShapeInv
  <2>3. ResumeInv'
    BY <1>4 DEF IInv, ResumeInv, ResumeFollowsWallet
  <2> QED BY <2>1, <2>2, <2>3 DEF IInv
<1>5. grant \in [Scopes -> [Keys -> [Perms -> Nat]]] /\ withdrawn \subseteq Scopes \X Keys \X Nat
      /\ slipped \in BOOLEAN
  BY DEF IInv, TypeOK
<1>6. op' = NoOp => FlowShape' /\ op' \in OpType
  BY <1>2 DEF FlowShape, NoOp
<1>7. op.phase # "none" => op.scope \in Scopes /\ op.key \in Keys
  BY DEF IInv, ShapeInv, FlowShape
<1>8. CASE Confirmed
  <2>1. Sent /\ Lands
    BY <1>8 DEF Confirmed
  <2>2. op.kind \in {"grant", "extend", "revoke"} /\ op.phase = "sent"
    BY <2>1 DEF IInv, ShapeInv, FlowShape, Sent
  <2>3. op' = [op EXCEPT !.phase = IF op.kind = "extend" THEN "read" ELSE "store"]
    BY <1>8 DEF Confirmed, After
  <2>4. FlowShape'
    BY <1>1, <1>7, <2>2, <2>3 DEF FlowShape, OpType
  <2>5. op' \in OpType
    BY <1>1, <2>3 DEF OpType
  <2> QED BY <1>4, <1>5, <1>8, <2>1, <2>4, <2>5, LandsGrants DEF Confirmed
<1>9. CASE Rejected
  BY <1>4, <1>5, <1>6, <1>9 DEF Rejected
<1>10. CASE LandsUnseen
  <2>1. Sent /\ Lands /\ slipped' \in BOOLEAN
    BY <1>10 DEF LandsUnseen, Mishap
  <2> QED BY <1>4, <1>5, <1>6, <1>10, <2>1, LandsGrants DEF LandsUnseen
<1>11. CASE RecordRead
  <2>1. op' = [op EXCEPT !.phase = "store", !.record = stored[op.scope]] /\ op.kind = "extend"
        /\ op.phase = "read"
    BY <1>11 DEF RecordRead, IInv, ShapeInv, FlowShape
  <2>2. stored[op.scope] \in AnyKey
    BY <1>7, <2>1 DEF IInv, TypeOK
  <2>3. FlowShape'
    BY <1>1, <1>7, <2>1 DEF FlowShape, OpType
  <2>4. op' \in OpType
    BY <1>1, <2>1, <2>2 DEF OpType
  <2> QED BY <1>4, <1>5, <1>11, <2>3, <2>4 DEF RecordRead
<1>12. CASE Installed
  <2>1. op.phase = "store" /\ op.kind \in {"grant", "extend", "revoke"} /\ op.scope \in Scopes
        /\ op.key \in Keys /\ op.record \in AnyKey /\ op.expires \in Nat
    BY <1>1, <1>7, <1>12 DEF Installed, IInv, ShapeInv, FlowShape, OpType
  <2>2. FlowShape' /\ op' \in OpType
    <3>1. CASE op' = NoOp
      BY <3>1, <1>6
    <3>2. CASE op' = [op EXCEPT !.phase = "hand"]
      <4>1. FlowShape'
        BY <1>1, <2>1, <3>2 DEF FlowShape, OpType
      <4> QED BY <1>1, <3>2, <4>1 DEF OpType
    <3> QED BY <1>3, <1>12, <3>1, <3>2 DEF Installed
  <2>3. stored' \in [Scopes -> AnyKey] /\ slipped' \in BOOLEAN
    <3>1. ASSUME NEW k \in AnyKey, Put(op.scope, k)
          PROVE  stored' \in [Scopes -> AnyKey] /\ slipped' \in BOOLEAN
      <4>1. stored \in [Scopes -> AnyKey]
        BY DEF IInv, TypeOK
      <4>2. CASE stored' = [stored EXCEPT ![op.scope] = k] /\ slipped' = slipped
        BY <1>5, <2>1, <3>1, <4>1, <4>2
      <4>3. CASE stored' = stored /\ slipped' = TRUE
        BY <4>1, <4>3
      <4> QED BY <3>1, <4>2, <4>3, Zenon DEF Put, Mishap
    <3>2. op.key \in AnyKey /\ NoKey \in AnyKey /\ Store
      BY <1>12, <2>1 DEF AnyKey, Installed
    <3>3. \/ Put(op.scope, op.key) \/ Put(op.scope, NoKey) \/ Put(op.scope, op.record)
          \/ UNCHANGED <<stored, slipped>>
      <4>1. CASE op.kind = "grant"
        BY <3>2, <4>1 DEF Store
      <4>2. CASE op.kind = "revoke"
        BY <3>2, <4>2 DEF Store
      <4>3. CASE op.kind = "extend"
        BY <3>2, <4>3 DEF Store
      <4> QED BY <2>1, <4>1, <4>2, <4>3
    <3> QED BY <2>1, <3>1, <3>2, <3>3 DEF IInv, TypeOK
  <2>4. session' \in Session /\ SomeSession(session')
    <3>1. NoSession \in Session
      BY DEF NoSession, Session, AnyKey, Nobody
    <3>2. CASE op.kind = "revoke"
      BY <1>12, <3>1, <3>2 DEF Installed, SomeSession
    <3>3. CASE op.kind # "revoke"
      <4>1. session' = [key |-> op.key, scope |-> op.scope, expires |-> op.expires]
        BY <1>12, <3>3 DEF Installed
      <4> QED BY <2>1, <4>1 DEF SomeSession, Session, AnyKey, Nobody
    <3> QED BY <3>2, <3>3
  <2>5. TypeOK'
    BY <1>12, <2>2, <2>3, <2>4 DEF IInv, TypeOK, Installed, OpType
  <2>6. ShapeInv'
    BY <1>12, <2>2, <2>4 DEF IInv, ShapeInv, SomeSession, Installed
  <2>7. ResumeInv'
    BY <1>12 DEF IInv, ResumeInv, ResumeFollowsWallet, Installed
  <2> QED BY <2>5, <2>6, <2>7 DEF IInv
<1>13. CASE Handed
  BY <1>4, <1>5, <1>6, <1>13 DEF Handed
<1> QED BY <1>8, <1>9, <1>10, <1>11, <1>12, <1>13 DEF Flow

LEMMA WalletIInv == ASSUME IInv, (\E w \in Nobody : WalletChanges(w)) \/ Reload PROVE IInv'
<1> USE ScopeAssumption, BoundAssumption
<1>1. NoSession \in Session /\ SomeSession(NoSession)
  BY DEF NoSession, Session, AnyKey, Nobody, SomeSession
<1>2. changes' \in 0 .. MaxChanges
  BY DEF IInv, TypeOK, WalletChanges, Reload
<1>3. ASSUME NEW w \in Nobody, WalletChanges(w) PROVE IInv'
  <2> DEFINE New == {[scope |-> s, key |-> NoKey, stale |-> FALSE, phase |-> "load"] :
                        s \in {w} \ {Off}}
  <2>1. \A r \in resumes : Leave(r) = [r EXCEPT !.stale = TRUE]
    BY DEF Leave
  <2>2. resumes' = {Leave(r) : r \in resumes} \cup New
    BY <1>3 DEF WalletChanges
  <2>3. \A r \in resumes : r \in [scope : Scopes, key : AnyKey, stale : BOOLEAN,
                                  phase : {"load", "read", "wipe"}]
    BY DEF IInv, TypeOK
  <2>4. resumes' \subseteq [scope : Scopes, key : AnyKey, stale : BOOLEAN,
                            phase : {"load", "read", "wipe"}]
    <3>1. New \subseteq [scope : Scopes, key : AnyKey, stale : BOOLEAN,
                         phase : {"load", "read", "wipe"}]
      <4>1. ASSUME NEW s \in {w} \ {Off}
            PROVE  [scope |-> s, key |-> NoKey, stale |-> FALSE, phase |-> "load"]
                     \in [scope : Scopes, key : AnyKey, stale : BOOLEAN,
                          phase : {"load", "read", "wipe"}]
        BY DEF Nobody, AnyKey
      <4> QED BY <4>1, Zenon
    <3>2. \A r \in resumes : Leave(r) \in [scope : Scopes, key : AnyKey, stale : BOOLEAN,
                                          phase : {"load", "read", "wipe"}]
      BY <2>1, <2>3
    <3> QED BY <2>2, <3>1, <3>2
  <2>5. \A r \in resumes' : r.phase \in {"read", "wipe"} => r.key \in Keys
    BY <2>1, <2>2, <2>3 DEF IInv, ShapeInv
  <2>6. \A r \in resumes' : ~ r.stale => r.scope = w
    BY <2>1, <2>2, <2>3
  <2> HIDE DEF New
  <2>7. slipped' \in BOOLEAN
    BY <1>3 DEF IInv, TypeOK, WalletChanges
  <2>8. TypeOK'
    BY <1>1, <1>2, <1>3, <2>4, <2>7 DEF IInv, TypeOK, WalletChanges
  <2>9. ShapeInv'
    <3>1. SomeSession(session)' /\ FlowShape'
      BY <1>1, <1>3 DEF IInv, ShapeInv, WalletChanges, FlowShape, SomeSession
    <3> QED BY <1>3, <2>5, <3>1 DEF IInv, ShapeInv, WalletChanges, SomeSession
  <2>10. ResumeInv'
    BY <1>3, <2>6 DEF ResumeInv, ResumeFollowsWallet, WalletChanges
  <2> QED BY <2>8, <2>9, <2>10 DEF IInv
<1>4. CASE Reload
  <2>1. NoRun \in [scope : Nobody, session : Session] /\ NoRun.session = NoSession
    BY <1>1 DEF NoRun, Nobody
  <2>2. NoOp \in [kind : {"none", "grant", "extend", "revoke", "resend"}, scope : Nobody,
                  key : AnyKey, expires : Nat, record : AnyKey,
                  phase : {"none", "sent", "read", "store", "hand"}]
    BY DEF NoOp, Nobody, AnyKey
  <2>3. grant' \in [Scopes -> [Keys -> [Perms -> Nat]]]
        /\ withdrawn' \subseteq Scopes \X Keys \X Nat
    BY <1>4, LandsGrants DEF Reload, IInv, TypeOK
  <2>4. slipped' \in BOOLEAN /\ Off \in Nobody
    BY <1>4 DEF IInv, TypeOK, Reload, Nobody
  <2>5. TypeOK'
    BY <1>1, <1>2, <1>4, <2>1, <2>2, <2>3, <2>4 DEF IInv, TypeOK, Reload
  <2>6. ShapeInv'
    <3>1. FlowShape'
      BY <1>4 DEF Reload, FlowShape, NoOp
    <3>2. SomeSession(session)' /\ SomeSession(run.session)'
      BY <1>1, <1>4, <2>1 DEF Reload, SomeSession
    <3> QED BY <1>4, <3>1, <3>2 DEF IInv, ShapeInv, Reload, SomeSession
  <2>7. ResumeInv'
    BY <1>4 DEF ResumeInv, ResumeFollowsWallet, Reload
  <2> QED BY <2>5, <2>6, <2>7 DEF IInv
<1> QED BY <1>3, <1>4

LEMMA ResumeIInv == ASSUME IInv, NEW r \in resumes, Resume(r) PROVE IInv'
<1> USE ScopeAssumption, BoundAssumption
<1> DEFINE RType == [scope : Scopes, key : AnyKey, stale : BOOLEAN,
                     phase : {"load", "read", "wipe"}]
<1>1. r \in RType /\ resumes \subseteq RType
  BY DEF IInv, TypeOK
<1>2. r.scope \in Scopes /\ stored[r.scope] \in AnyKey
  BY <1>1 DEF IInv, TypeOK
<1>3. ~ r.stale => r.scope = wallet
  BY DEF IInv, ResumeInv
<1>4. r.phase \in {"read", "wipe"} => r.key \in Keys
  BY DEF IInv, ShapeInv
\* A resume goes, or goes on for the same wallet as before
<1>5. ASSUME NEW key \in Keys, NEW phase \in {"read", "wipe"},
             \/ resumes' = resumes \ {r}
             \/ resumes' = (resumes \ {r}) \cup {[r EXCEPT !.phase = phase, !.key = key]}
      PROVE  /\ resumes' \subseteq RType
             /\ \A q \in resumes' : q.phase \in {"read", "wipe"} => q.key \in Keys
             /\ \A q \in resumes' : ~ q.stale => q.scope = wallet
  <2> DEFINE q == [r EXCEPT !.phase = phase, !.key = key]
  <2>1. q \in RType /\ q.key \in Keys /\ (~ q.stale => q.scope = wallet)
    BY <1>1, <1>3 DEF AnyKey
  <2> HIDE DEF q, RType
  <2>2. resumes' \subseteq resumes \cup {q}
    BY <1>5 DEF q
  <2>3. \A x \in resumes : /\ x.phase \in {"read", "wipe"} => x.key \in Keys
                           /\ ~ x.stale => x.scope = wallet
    BY DEF IInv, ShapeInv, ResumeInv
  <2> QED BY <1>1, <2>1, <2>2, <2>3, Zenon
<1> HIDE DEF RType
<1>6. ASSUME resumes' \subseteq RType,
             \A q \in resumes' : q.phase \in {"read", "wipe"} => q.key \in Keys,
             \A q \in resumes' : ~ q.stale => q.scope = wallet,
             stored' \in [Scopes -> AnyKey], session' \in Session, SomeSession(session'),
             resumed' \in BOOLEAN, resumed' => session'.scope = wallet,
             withdrawn' \subseteq withdrawn, slipped' \in BOOLEAN,
             UNCHANGED <<console, now, wallet, grant, op, run, presign, used, changes>>
      PROVE  IInv'
  <2>1. TypeOK'
    BY <1>6 DEF IInv, TypeOK, RType
  <2>2. ShapeInv'
    BY <1>6 DEF IInv, ShapeInv, FlowShape, SomeSession
  <2>3. ResumeInv'
    BY <1>6 DEF ResumeInv, ResumeFollowsWallet
  <2> QED BY <2>1, <2>2, <2>3 DEF IInv
<1>7. /\ stored \in [Scopes -> AnyKey] /\ session \in Session /\ SomeSession(session)
      /\ resumed \in BOOLEAN /\ (resumed => session.scope = wallet) /\ slipped \in BOOLEAN
  BY DEF IInv, TypeOK, ShapeInv, ResumeInv, ResumeFollowsWallet
<1>8. CASE ResumeLoads(r)
  <2>1. CASE stored[r.scope] # NoKey
             /\ resumes' = (resumes \ {r}) \cup
                  {[r EXCEPT !.phase = "read", !.key = stored[r.scope]]}
    <3>1. stored[r.scope] \in Keys
      BY <1>2, <2>1 DEF AnyKey
    <3> QED BY <1>5, <1>6, <1>7, <1>8, <2>1, <3>1 DEF ResumeLoads, Mishap
  <2>2. CASE resumes' = resumes \ {r}
    <3>1. resumes' \subseteq RType /\ resumes' \subseteq resumes
      BY <1>1, <2>2
    <3>2. /\ \A q \in resumes' : q.phase \in {"read", "wipe"} => q.key \in Keys
          /\ \A q \in resumes' : ~ q.stale => q.scope = wallet
      BY <3>1 DEF IInv, ShapeInv, ResumeInv
    <3>3. slipped' \in BOOLEAN
      BY <1>7, <1>8 DEF ResumeLoads, Mishap
    <3> QED BY <1>6, <1>7, <1>8, <3>1, <3>2, <3>3 DEF ResumeLoads
  <2> QED BY <1>8, <2>1, <2>2 DEF ResumeLoads
<1>9. CASE ResumeFails(r)
  BY <1>4, <1>5, <1>6, <1>7, <1>9 DEF ResumeFails, Mishap
<1>10. CASE ResumeReads(r)
  <2> DEFINE expires == Effective(r.scope, r.key)
  <2>1. r.phase = "read" /\ r.key \in Keys
    BY <1>4, <1>10 DEF ResumeReads
  <2>2. expires \in Nat
    BY <1>2, <2>1, EffectiveIsLeast DEF IInv
  <2> HIDE DEF expires
  <2>3. CASE expires <= now
    <3>1. resumes' = (resumes \ {r}) \cup {[r EXCEPT !.phase = "wipe"]}
          /\ UNCHANGED <<session, resumed, withdrawn>>
      BY <1>10, <2>3 DEF ResumeReads, expires
    <3>2. [r EXCEPT !.phase = "wipe"] = [r EXCEPT !.phase = "wipe", !.key = r.key]
      BY <1>1 DEF RType
    <3> QED BY <1>5, <1>6, <1>7, <1>10, <2>1, <3>1, <3>2 DEF ResumeReads
  <2>4. CASE ~ (expires <= now)
    <3>1. resumes' = resumes \ {r} /\ withdrawn' \subseteq withdrawn
      BY <1>10, <2>4 DEF ResumeReads, expires
    <3>2. CASE r.stale
      <4>1. UNCHANGED <<session, resumed>>
        BY <1>10, <2>4, <3>2 DEF ResumeReads, expires
      <4> QED BY <1>5, <1>6, <1>7, <1>10, <2>1, <3>1, <4>1 DEF ResumeReads
    <3>3. CASE ~ r.stale
      <4>1. session' = [key |-> r.key, scope |-> r.scope, expires |-> expires]
            /\ resumed' = TRUE
        BY <1>10, <2>4, <3>3 DEF ResumeReads, expires
      <4>2. session' \in Session /\ SomeSession(session') /\ session'.scope = wallet
        BY <1>2, <1>3, <2>1, <2>2, <3>3, <4>1 DEF Session, SomeSession, AnyKey, Nobody
      <4> QED BY <1>5, <1>6, <1>7, <1>10, <2>1, <3>1, <4>1, <4>2 DEF ResumeReads
    <3> QED BY <3>2, <3>3
  <2> QED BY <2>3, <2>4
<1>11. CASE ResumeWipes(r)
  <2>1. stored' \in [Scopes -> AnyKey] /\ slipped' \in BOOLEAN
    BY <1>7, <1>11 DEF ResumeWipes, AnyKey
  <2>2. resumes' = resumes \ {r} /\ r.key \in Keys
    BY <1>4, <1>11 DEF ResumeWipes
  <2> QED BY <1>5, <1>6, <1>7, <1>11, <2>1, <2>2 DEF ResumeWipes
<1> QED BY <1>8, <1>9, <1>10, <1>11 DEF Resume

LEMMA RunIInv ==
    ASSUME IInv,
           RunStarts \/ RunPresigns \/ RunEnds \/ Tick
           \/ \E s \in Scopes, k \in Keys, p \in Perms : PermissionRevoked(s, k, p)
    PROVE  IInv'
<1> USE ScopeAssumption, BoundAssumption
<1>1. NoSession \in Session /\ SomeSession(NoSession)
  BY DEF NoSession, Session, AnyKey, Nobody, SomeSession
<1>2. NoRun \in [scope : Nobody, session : Session] /\ NoRun.session = NoSession
  BY <1>1 DEF NoRun, Nobody
<1>3. NoPresign \in [run : [scope : Nobody, session : Session], at : Time]
      /\ NoPresign.run.session = NoSession
  BY <1>2 DEF NoPresign, Time
<1>4. SomeSession(session) /\ FlowShape
  BY DEF IInv, ShapeInv
<1>5. CASE RunStarts
  <2>1. run' = [scope |-> wallet, session |-> session] /\ wallet \in Scopes
        /\ session # NoSession
    BY <1>5 DEF RunStarts, IInv, TypeOK, Nobody
  <2>2. run' \in [scope : Nobody, session : Session]
    BY <2>1 DEF IInv, TypeOK, Nobody
  <2>3. TypeOK'
    BY <1>5, <2>2 DEF IInv, TypeOK, RunStarts
  <2>4. ShapeInv'
    BY <1>4, <1>5, <2>1 DEF IInv, ShapeInv, RunStarts, FlowShape, SomeSession
  <2>5. ResumeInv'
    BY <1>5 DEF IInv, ResumeInv, ResumeFollowsWallet, RunStarts
  <2> QED BY <2>3, <2>4, <2>5 DEF IInv
<1>6. CASE RunPresigns
  <2>1. \/ presign' = [run |-> run, at |-> now] /\ run' = run
        \/ run' = NoRun /\ presign' = presign
    BY <1>6 DEF RunPresigns
  <2>2. TypeOK'
    BY <1>2, <1>6, <2>1 DEF IInv, TypeOK, RunPresigns
  <2>3. ShapeInv'
    <3>1. run # NoRun /\ run.scope \in Scopes /\ run.session # NoSession
      BY <1>6 DEF RunPresigns, IInv, ShapeInv
    <3>2. CASE presign' = [run |-> run, at |-> now] /\ run' = run
      BY <1>4, <1>6, <3>1, <3>2 DEF IInv, ShapeInv, RunPresigns, FlowShape, SomeSession
    <3>3. CASE run' = NoRun /\ presign' = presign
      BY <1>1, <1>2, <1>4, <1>6, <3>3 DEF IInv, ShapeInv, RunPresigns, FlowShape,
         SomeSession
    <3> QED BY <2>1, <3>2, <3>3
  <2>4. ResumeInv'
    BY <1>6 DEF IInv, ResumeInv, ResumeFollowsWallet, RunPresigns
  <2> QED BY <2>2, <2>3, <2>4 DEF IInv
<1>7. CASE RunEnds
  <2>1. TypeOK'
    BY <1>2, <1>7 DEF IInv, TypeOK, RunEnds
  <2>2. ShapeInv'
    BY <1>1, <1>2, <1>4, <1>7 DEF IInv, ShapeInv, RunEnds, FlowShape, SomeSession
  <2>3. ResumeInv'
    BY <1>7 DEF IInv, ResumeInv, ResumeFollowsWallet, RunEnds
  <2> QED BY <2>1, <2>2, <2>3 DEF IInv
<1>8. CASE Tick
  <2>1. now' \in Time
    BY <1>8 DEF Tick, IInv, TypeOK, Time
  <2>2. presign' = NoPresign \/ presign' = presign
    BY <1>8, Zenon DEF Tick
  <2>3. TypeOK'
    BY <1>3, <1>8, <2>1, <2>2 DEF IInv, TypeOK, Tick, flowVars
  <2>4. ShapeInv'
    BY <1>1, <1>3, <1>4, <1>8, <2>2 DEF IInv, ShapeInv, Tick, flowVars, FlowShape,
       SomeSession
  <2>5. ResumeInv'
    BY <1>8 DEF IInv, ResumeInv, ResumeFollowsWallet, Tick, flowVars
  <2> QED BY <2>3, <2>4, <2>5 DEF IInv
<1>9. ASSUME NEW s \in Scopes, NEW k \in Keys, NEW p \in Perms, PermissionRevoked(s, k, p)
      PROVE  IInv'
  <2>1. Effective(s, k) \in Nat /\ now \in Nat
    BY EffectiveIsLeast DEF IInv, TypeOK, Time
  <2>2. {y \in (now + 1) .. Effective(s, k) : y > 0} \subseteq Nat
    BY <2>1
  <2>3. Lost(s, k, 0) \subseteq Scopes \X Keys \X Nat
    BY <2>2 DEF Lost
  <2>4. TypeOK'
    BY <1>9, <2>3 DEF IInv, TypeOK, PermissionRevoked, flowVars
  <2>5. ShapeInv'
    BY <1>4, <1>9 DEF IInv, ShapeInv, PermissionRevoked, flowVars, FlowShape, SomeSession
  <2>6. ResumeInv'
    BY <1>9 DEF IInv, ResumeInv, ResumeFollowsWallet, PermissionRevoked, flowVars
  <2> QED BY <2>4, <2>5, <2>6 DEF IInv
<1> QED BY <1>5, <1>6, <1>7, <1>8, <1>9

LEMMA NextIInv == IInv /\ [Next]_vars => IInv'
<1> SUFFICES ASSUME IInv, [Next]_vars
             PROVE  IInv'
  OBVIOUS
<1>1. CASE UNCHANGED vars
  <2>1. UNCHANGED TypeOK
    BY <1>1 DEF vars, flowVars, TypeOK
  <2>2. UNCHANGED ShapeInv
    BY <1>1 DEF vars, flowVars, ShapeInv, FlowShape
  <2>3. UNCHANGED ResumeInv
    BY <1>1 DEF vars, flowVars, ResumeInv, ResumeFollowsWallet
  <2> QED BY <2>1, <2>2, <2>3 DEF IInv
<1> QED BY <1>1, ButtonIInv, FlowIInv, WalletIInv, ResumeIInv, RunIInv DEF Next

\* Every variable stays within its type
THEOREM TypeCorrect == Spec => []TypeOK
<1>1. IInv => TypeOK
  BY DEF IInv
<1> QED BY InitIInv, NextIInv, <1>1, PTL DEF Spec

\* A late answer of the chain never becomes the session of another wallet
THEOREM ResumedForWallet == Spec => []ResumeFollowsWallet
<1>1. IInv => ResumeFollowsWallet
  BY DEF IInv, ResumeInv
<1> QED BY InitIInv, NextIInv, <1>1, PTL DEF Spec

--------------------------------------------------------------------------------
(* What a session's expiry is worth *)

\* A permission ends at e: what was honoured and is not any more counts as taken back
LEMMA CutHonours ==
    ASSUME TypeOK, NEW s \in Scopes, NEW k \in Keys, NEW e \in Nat,
           NEW g, NEW w, withdrawn \ {<<s, k, e>>} \subseteq w, Lost(s, k, e) \subseteq w,
           \A p \in Perms : g[s][k][p] \in Nat /\ g[s][k][p] >= e,
           \A x \in Scopes, y \in Keys : <<x, y>> # <<s, k>> => g[x][y] = grant[x][y],
           NEW x \in Scopes, NEW y \in Keys, NEW v \in Nat,
           Honoured(x, y, v, grant, withdrawn, now)
    PROVE  Honoured(x, y, v, g, w, now)
<1>1. now \in Nat /\ \A p \in Perms : grant[x][y][p] \in Nat
  BY BoundAssumption DEF TypeOK, Time
<1>2. CASE v <= now
  BY <1>2 DEF Honoured
<1>3. CASE <<x, y, v>> \in withdrawn
  <2>1. CASE <<x, y, v>> = <<s, k, e>>
    BY <2>1 DEF Honoured
  <2>2. CASE <<x, y, v>> # <<s, k, e>>
    BY <1>3, <2>2 DEF Honoured
  <2> QED BY <2>1, <2>2
<1>4. CASE v > now /\ \A p \in Perms : grant[x][y][p] >= v
  <2>1. CASE <<x, y>> # <<s, k>>
    BY <1>4, <2>1 DEF Honoured
  <2>2. CASE x = s /\ y = k /\ v <= e
    BY <1>4, <2>2 DEF Honoured
  <2>3. CASE x = s /\ y = k /\ v > e
    <3>1. Effective(s, k) \in Nat /\ Effective(s, k) >= v
      BY <1>4, <2>3, EffectiveIsLeast
    <3>2. v \in {n \in (now + 1) .. Effective(s, k) : n > e}
      BY <1>1, <1>4, <2>3, <3>1
    <3>3. <<x, y, v>> \in Lost(s, k, e)
      BY <2>3, <3>2 DEF Lost
    <3> QED BY <3>3 DEF Honoured
  <2> QED BY <2>1, <2>2, <2>3
<1> QED BY <1>1, <1>2, <1>3, <1>4 DEF Honoured

LEMMA LandsBacks ==
    ASSUME IInv, Sent, Lands,
           NEW x \in Scopes, NEW y \in Keys, NEW v \in Nat,
           Honoured(x, y, v, grant, withdrawn, now)
    PROVE  Honoured(x, y, v, grant', withdrawn', now)
<1>1. op.scope \in Scopes /\ op.key \in Keys /\ LandsAt \in Nat /\ TypeOK
  BY LandsGrants DEF IInv, TypeOK, LandsAt
<1>2. Lost(op.scope, op.key, LandsAt) \subseteq withdrawn'
      /\ withdrawn \ {<<op.scope, op.key, LandsAt>>} \subseteq withdrawn'
  <2>1. CASE op.kind = "revoke"
    BY <2>1 DEF Lands, LandsAt, RevokeOnChain
  <2>2. CASE op.kind # "revoke"
    BY <2>2 DEF Lands, LandsAt, Login
  <2> QED BY <2>1, <2>2
<1>3. \A p \in Perms : grant'[op.scope][op.key][p] = LandsAt
  BY LandsGrants
<1>4. \A p \in Perms : grant'[op.scope][op.key][p] \in Nat
                       /\ grant'[op.scope][op.key][p] >= LandsAt
  BY <1>1, <1>3
<1>5. \A a \in Scopes, b \in Keys :
         <<a, b>> # <<op.scope, op.key>> => grant'[a][b] = grant[a][b]
  BY LandsGrants
<1> QED BY <1>1, <1>2, <1>4, <1>5, CutHonours

LEMMA RevokedBacks ==
    ASSUME TypeOK, NEW s \in Scopes, NEW k \in Keys, NEW p \in Perms, PermissionRevoked(s, k, p),
           NEW x \in Scopes, NEW y \in Keys, NEW v \in Nat,
           Honoured(x, y, v, grant, withdrawn, now)
    PROVE  Honoured(x, y, v, grant', withdrawn', now)
<1>1. Lost(s, k, 0) \subseteq withdrawn' /\ withdrawn \ {<<s, k, 0>>} \subseteq withdrawn'
  BY DEF PermissionRevoked
<1>2. \A q \in Perms : grant'[s][k][q] \in Nat /\ grant'[s][k][q] >= 0
  BY DEF PermissionRevoked, TypeOK
<1>3. \A a \in Scopes, b \in Keys : <<a, b>> # <<s, k>> => grant'[a][b] = grant[a][b]
  BY DEF PermissionRevoked, TypeOK
<1> QED BY <1>1, <1>2, <1>3, CutHonours

LEMMA TickBacks ==
    ASSUME TypeOK, Tick,
           NEW x \in Scopes, NEW y \in Keys, NEW v \in Nat,
           Honoured(x, y, v, grant, withdrawn, now)
    PROVE  Honoured(x, y, v, grant', withdrawn', now')
<1>1. now \in Nat /\ now' = now + 1 /\ grant' = grant
      /\ withdrawn' = {w \in withdrawn : w[3] > now'}
  BY BoundAssumption DEF TypeOK, Time, Tick
<1>2. CASE <<x, y, v>> \in withdrawn /\ v > now'
  <2>1. <<x, y, v>>[3] = v
    OBVIOUS
  <2> QED BY <1>1, <1>2, <2>1 DEF Honoured
<1> QED BY <1>1, <1>2 DEF Honoured

\* The expiry a resume read is the smaller of the two, which both reach
LEMMA ReadBacks ==
    ASSUME TypeOK, NEW s \in Scopes, NEW k \in Keys,
           NEW x \in Scopes, NEW y \in Keys, NEW v \in Nat,
           Honoured(x, y, v, grant, withdrawn, now)
    PROVE  Honoured(x, y, v, grant, withdrawn \ {<<s, k, Effective(s, k)>>}, now)
<1>1. CASE <<x, y, v>> = <<s, k, Effective(s, k)>>
  <2>1. \A p \in Perms : grant[x][y][p] >= v
    BY <1>1, EffectiveIsLeast
  <2> QED BY <2>1 DEF Honoured
<1>2. CASE <<x, y, v>> # <<s, k, Effective(s, k)>>
  BY <1>2 DEF Honoured
<1> QED BY <1>1, <1>2

\* What a login set, the chain honours
LEMMA LandsHonours ==
    ASSUME IInv, Sent, Lands, op.kind # "revoke"
    PROVE  Honoured(op.scope, op.key, op.expires, grant', withdrawn', now)
<1>1. \A p \in Perms : grant'[op.scope][op.key][p] = op.expires /\ op.expires \in Nat
  BY LandsGrants DEF LandsAt, IInv, TypeOK
<1> QED BY <1>1 DEF Honoured

LEMMA InitBacked == Init => BackedInv
<1> SUFFICES ASSUME Init
             PROVE  BackedInv
  OBVIOUS
<1>1. NoSession.key \notin Keys
  BY ScopeAssumption DEF NoSession
<1>2. session = NoSession /\ run.session = NoSession /\ presign.run.session = NoSession
      /\ presign = NoPresign /\ op.phase = "none"
  BY DEF Init, NoRun, NoPresign, NoOp
<1> QED BY <1>1, <1>2 DEF BackedInv, Backed, InMargin

\* A step that keeps what is honoured, and the sessions with it, keeps them backed
LEMMA KeptBacked ==
    ASSUME IInv, BackedInv,
           \A x \in Scopes, y \in Keys, v \in Nat :
              Honoured(x, y, v, grant, withdrawn, now) =>
                  Honoured(x, y, v, grant', withdrawn', now'),
           session' \in {session, NoSession},
           run' \in {run, NoRun}, presign' \in {presign, NoPresign},
           op'.phase \in {"read", "store"} /\ op'.kind # "revoke" =>
              Honoured(op'.scope, op'.key, op'.expires, grant', withdrawn', now'),
           presign' = presign => InMargin(now')
    PROVE  BackedInv'
<1>1. NoSession.key \notin Keys /\ NoRun.session = NoSession
      /\ NoPresign.run.session = NoSession
  BY ScopeAssumption DEF NoSession, NoRun, NoPresign
<1>2. session.expires \in Nat /\ run.session.expires \in Nat
      /\ presign.run.session.expires \in Nat
  BY DEF IInv, TypeOK, Session
<1>3. Backed(session', grant', withdrawn', now')
  BY <1>1, <1>2 DEF BackedInv, Backed
<1>4. Backed(run'.session, grant', withdrawn', now')
  BY <1>1, <1>2 DEF BackedInv, Backed
<1>5. Backed(presign'.run.session, grant', withdrawn', now')
  BY <1>1, <1>2 DEF BackedInv, Backed
<1>6. InMargin(now)'
  BY DEF InMargin
<1> QED BY <1>3, <1>4, <1>5, <1>6 DEF BackedInv

LEMMA NextBacked ==
    ASSUME IInv, BackedInv, [Next]_vars
    PROVE  BackedInv'
<1> USE BoundAssumption
<1>1. InMargin(now) /\ TypeOK
  BY DEF BackedInv, IInv
<1>2. \A x \in Scopes, y \in Keys, v \in Nat :
         UNCHANGED <<grant, withdrawn, now>> /\ Honoured(x, y, v, grant, withdrawn, now) =>
             Honoured(x, y, v, grant', withdrawn', now')
  OBVIOUS
<1>3. /\ op.phase \in {"read", "store"} /\ op.kind # "revoke" =>
             Honoured(op.scope, op.key, op.expires, grant, withdrawn, now)
      /\ op.phase # "none" => op.scope \in Scopes /\ op.key \in Keys
      /\ op.expires \in Nat
  BY DEF BackedInv, IInv, ShapeInv, FlowShape, TypeOK
<1>4. NoOp.phase = "none"
  BY DEF NoOp
<1>5. CASE UNCHANGED vars
  <2>1. UNCHANGED <<grant, withdrawn, now, session, run, presign, op>>
    BY <1>5 DEF vars, flowVars
  <2> QED BY <1>1, <1>2, <1>3, <2>1, KeptBacked
<1>6. CASE Button
  <2>1. ASSUME NEW kind, NEW key, NEW e, NEW phase \in {"sent", "hand"}, Begin(kind, key, e, phase)
        PROVE  BackedInv'
    <3>1. op'.phase = phase
      BY <2>1 DEF Begin
    <3> QED BY <1>1, <1>2, <2>1, <3>1, KeptBacked DEF Begin
  <2> QED BY <1>6, <2>1 DEF Button, Grant, Extend, Revoke, Resend
<1>7. CASE Confirmed
  <2>1. Sent /\ Lands /\ UNCHANGED <<now, session, run, presign>>
    BY <1>7 DEF Confirmed
  <2>2. op' = [op EXCEPT !.phase = IF op.kind = "extend" THEN "read" ELSE "store"]
    BY <1>7 DEF Confirmed, After
  <2>3. op'.kind = op.kind /\ op'.scope = op.scope /\ op'.key = op.key
        /\ op'.expires = op.expires
    BY <2>2 DEF IInv, TypeOK
  <2>4. \A x \in Scopes, y \in Keys, v \in Nat :
           Honoured(x, y, v, grant, withdrawn, now) =>
               Honoured(x, y, v, grant', withdrawn', now')
    BY <2>1, LandsBacks
  <2> QED BY <1>1, <2>1, <2>3, <2>4, LandsHonours, KeptBacked
<1>8. CASE LandsUnseen \/ (Reload /\ Sent /\ Lands)
  <2>1. Sent /\ Lands /\ now' = now /\ op' = NoOp /\ session' \in {session, NoSession}
        /\ run' \in {run, NoRun} /\ presign' = presign
    BY <1>8 DEF LandsUnseen, Reload
  <2>2. \A x \in Scopes, y \in Keys, v \in Nat :
           Honoured(x, y, v, grant, withdrawn, now) =>
               Honoured(x, y, v, grant', withdrawn', now')
    BY <2>1, LandsBacks
  <2> QED BY <1>1, <1>4, <2>1, <2>2, KeptBacked
<1>9. CASE Rejected \/ Handed \/ (Reload /\ UNCHANGED <<grant, withdrawn>>)
  <2>1. op' = NoOp /\ session' \in {session, NoSession} /\ run' \in {run, NoRun}
        /\ UNCHANGED <<now, grant, withdrawn, presign>>
    BY <1>9 DEF Rejected, Handed, Reload
  <2> QED BY <1>1, <1>2, <1>4, <2>1, KeptBacked
<1>10. CASE RecordRead
  <2>1. op' = [op EXCEPT !.phase = "store", !.record = stored[op.scope]] /\ op.phase = "read"
        /\ UNCHANGED <<now, grant, withdrawn, session, run, presign>>
    BY <1>10 DEF RecordRead
  <2>2. op'.kind = op.kind /\ op'.scope = op.scope /\ op'.key = op.key
        /\ op'.expires = op.expires
    BY <2>1 DEF IInv, TypeOK
  <2> QED BY <1>1, <1>2, <1>3, <2>1, <2>2, KeptBacked
<1>11. CASE Installed
  <2>1. op.phase = "store" /\ UNCHANGED <<now, grant, withdrawn, run, presign>>
        /\ op' = After("hand")
    BY <1>11 DEF Installed
  <2>2. op'.phase \in {"none", "hand"}
    BY <1>4, <2>1 DEF After, IInv, TypeOK
  <2>3. CASE op.kind = "revoke"
    BY <1>1, <1>2, <1>11, <2>1, <2>2, <2>3, KeptBacked DEF Installed
  <2>4. CASE op.kind # "revoke"
    <3>1. session' = [key |-> op.key, scope |-> op.scope, expires |-> op.expires]
      BY <1>11, <2>4 DEF Installed
    <3>2. Backed(session', grant, withdrawn, now)
      BY <1>3, <2>1, <2>4, <3>1 DEF Backed
    <3> QED BY <2>1, <2>2, <3>2 DEF BackedInv, InMargin
  <2> QED BY <2>3, <2>4
<1>12. CASE \E w \in Nobody : WalletChanges(w)
  <2>1. session' = NoSession /\ UNCHANGED <<now, grant, withdrawn, op, run, presign>>
    BY <1>12 DEF WalletChanges
  <2> QED BY <1>1, <1>2, <1>3, <2>1, KeptBacked
<1>13. ASSUME NEW r \in resumes, Resume(r) PROVE BackedInv'
  <2>1. UNCHANGED <<now, grant, op, run, presign>>
    BY <1>13 DEF Resume, ResumeLoads, ResumeFails, ResumeReads, ResumeWipes
  <2>2. CASE UNCHANGED <<withdrawn, session>>
    BY <1>1, <1>2, <1>3, <2>1, <2>2, KeptBacked
  <2>3. CASE ~ UNCHANGED <<withdrawn, session>>
    <3>1. ResumeReads(r)
      BY <1>13, <2>3 DEF Resume, ResumeLoads, ResumeFails, ResumeWipes
    <3>2. r.scope \in Scopes /\ r.key \in Keys
      BY <3>1 DEF ResumeReads, IInv, TypeOK, ShapeInv
    <3> DEFINE e == Effective(r.scope, r.key)
    <3>3. withdrawn' = withdrawn \ {<<r.scope, r.key, e>>}
          /\ session' \in {session, [key |-> r.key, scope |-> r.scope, expires |-> e]}
      BY <2>3, <3>1 DEF ResumeReads
    <3>4. \A x \in Scopes, y \in Keys, v \in Nat :
             Honoured(x, y, v, grant, withdrawn, now) =>
                 Honoured(x, y, v, grant', withdrawn', now')
      BY <1>1, <2>1, <3>2, <3>3, ReadBacks
    <3>5. Honoured(r.scope, r.key, e, grant, withdrawn', now)
      BY <1>1, <3>2, EffectiveIsLeast DEF Honoured
    <3> HIDE DEF e
    <3>6. Backed(session', grant', withdrawn', now')
      <4>1. CASE session' = session
        BY <3>4, <4>1 DEF Backed, BackedInv, IInv, TypeOK, Session
      <4>2. CASE session' = [key |-> r.key, scope |-> r.scope, expires |-> e]
        BY <2>1, <3>5, <4>2 DEF Backed
      <4> QED BY <3>3, <4>1, <4>2
    <3>7. Backed(run.session, grant', withdrawn', now')
          /\ Backed(presign.run.session, grant', withdrawn', now')
      BY <3>4 DEF Backed, BackedInv, IInv, TypeOK, Session
    <3>8. op.phase \in {"read", "store"} /\ op.kind # "revoke" =>
             Honoured(op.scope, op.key, op.expires, grant', withdrawn', now')
      BY <1>3, <3>4
    <3> QED BY <1>1, <2>1, <3>6, <3>7, <3>8 DEF BackedInv, InMargin
  <2> QED BY <2>2, <2>3
<1>14. CASE RunStarts
  <2>1. run'.session = session /\ UNCHANGED <<now, grant, withdrawn, op, session, presign>>
    BY <1>14 DEF RunStarts
  <2> QED BY <2>1 DEF BackedInv, InMargin
<1>15. CASE RunPresigns
  <2>1. UNCHANGED <<now, grant, withdrawn, op, session>>
    BY <1>15 DEF RunPresigns
  <2>2. CASE run' = NoRun /\ presign' = presign
    BY <1>1, <1>2, <1>3, <2>1, <2>2, KeptBacked
  <2>3. CASE CanPresign(run.session) /\ presign' = [run |-> run, at |-> now] /\ run' = run
    <3>1. run.session.expires \in Nat /\ now \in Nat /\ Margin \in Nat
      BY DEF IInv, TypeOK, Session, Time
    <3>2. InMargin(now)'
      BY <2>1, <2>3, <3>1 DEF InMargin, CanPresign
    <3> QED BY <2>1, <2>3, <3>2 DEF BackedInv
  <2> QED BY <1>15, <2>2, <2>3 DEF RunPresigns
<1>16. CASE RunEnds
  <2>1. run' = NoRun /\ UNCHANGED <<now, grant, withdrawn, op, session, presign>>
    BY <1>16 DEF RunEnds
  <2> QED BY <1>1, <1>2, <1>3, <2>1, KeptBacked
<1>17. CASE Tick
  <2>1. UNCHANGED <<op, session, run>>
    BY <1>17 DEF Tick, flowVars
  <2>2. \A x \in Scopes, y \in Keys, v \in Nat :
           Honoured(x, y, v, grant, withdrawn, now) =>
               Honoured(x, y, v, grant', withdrawn', now')
    BY <1>1, <1>17, TickBacks
  <2>3. CASE now' > presign.at + Margin
    <3>1. presign' = NoPresign
      BY <1>17, <2>3 DEF Tick
    <3>2. presign' = presign => InMargin(now')
      BY <3>1 DEF InMargin
    <3> QED BY <1>3, <2>1, <2>2, <3>1, <3>2, KeptBacked
  <2>4. CASE ~ (now' > presign.at + Margin)
    <3>1. presign' = presign /\ now' \in Nat /\ presign.at \in Nat /\ Margin \in Nat
      BY <1>17, <2>4 DEF Tick, IInv, TypeOK, Time
    <3>2. InMargin(now')
      BY <1>1, <2>4, <3>1 DEF InMargin
    <3> QED BY <1>3, <2>1, <2>2, <3>1, <3>2, KeptBacked
  <2> QED BY <2>3, <2>4
<1>18. ASSUME NEW s \in Scopes, NEW k \in Keys, NEW p \in Perms, PermissionRevoked(s, k, p)
       PROVE  BackedInv'
  <2>1. UNCHANGED <<now, op, session, run, presign>>
    BY <1>18 DEF PermissionRevoked, flowVars
  <2>2. \A x \in Scopes, y \in Keys, v \in Nat :
           Honoured(x, y, v, grant, withdrawn, now) =>
               Honoured(x, y, v, grant', withdrawn', now')
    BY <1>1, <1>18, <2>1, RevokedBacks
  <2> QED BY <1>1, <1>3, <2>1, <2>2, KeptBacked
<1>19. CASE Reload
  BY <1>8, <1>9, <1>19 DEF Reload
<1> QED BY <1>5, <1>6, <1>7, <1>8, <1>9, <1>10, <1>11, <1>12, <1>13, <1>14, <1>15, <1>16,
           <1>17, <1>18, <1>19 DEF Next, Flow

\* What a run signs is backed by a live authorization for as long as the margin, unless
\* it was taken back after the run was given its session
THEOREM BackedPresigns == Spec => []PresignsAreBacked
<1>1. IInv /\ BackedInv => PresignsAreBacked
  <2> SUFFICES ASSUME IInv, BackedInv, presign # NoPresign,
                      presign.run.session.scope = presign.run.scope
               PROVE  LET s == presign.run.session IN
                      \/ <<s.scope, s.key, s.expires>> \in withdrawn
                      \/ Authorized(s.scope, s.key)
    BY Zenon DEF PresignsAreBacked
  <2> DEFINE s == presign.run.session
  <2>1. s.scope \in Scopes /\ s.key \in Keys
    <3>1. s # NoSession /\ SomeSession(s)
      BY DEF IInv, ShapeInv
    <3> QED BY <3>1 DEF SomeSession
  <2>2. s.expires \in Nat /\ now \in Nat /\ presign.at \in Nat /\ Margin \in Nat
        /\ grant \in [Scopes -> [Keys -> [Perms -> Nat]]]
    BY BoundAssumption DEF IInv, TypeOK, Session, Time
  <2>3. s.expires > now
    BY <2>2 DEF BackedInv, InMargin
  <2>4. Honoured(s.scope, s.key, s.expires, grant, withdrawn, now)
    BY <2>1 DEF BackedInv, Backed
  <2> HIDE DEF s
  <2>5. CASE \A p \in Perms : grant[s.scope][s.key][p] >= s.expires
    BY <2>1, <2>2, <2>3, <2>5 DEF Authorized, s
  <2>6. CASE <<s.scope, s.key, s.expires>> \in withdrawn
    BY <2>6 DEF s
  <2> QED BY <2>2, <2>3, <2>4, <2>5, <2>6 DEF Honoured
<1>2. IInv /\ BackedInv /\ [Next]_vars => (IInv /\ BackedInv)'
  BY NextIInv, NextBacked
<1> QED BY InitIInv, InitBacked, <1>1, <1>2, PTL DEF Spec

--------------------------------------------------------------------------------
(* Where a key may be *)

LEMMA NextFresh ==
    ASSUME IInv, FreshInv, [Next]_vars
    PROVE  FreshInv'
<1> USE DEF Known
\* A step that hands on keys there are, and gives no grant to a new one
<1>1. ASSUME \A k \in used : k \in used',
             \A s \in Scopes : stored'[s] \in Known',
             session'.key \in Known', op'.key \in Known', op'.record \in Known',
             \A r \in resumes' : r.key \in Known',
             \A s \in Scopes, k \in Keys \ used', p \in Perms : grant'[s][k][p] \in {0, grant[s][k][p]}
      PROVE  FreshInv'
  BY <1>1 DEF FreshInv
<1>2. NoSession.key = NoKey /\ NoOp.key = NoKey /\ NoOp.record = NoKey
  BY DEF NoSession, NoOp
<1>3. \A k \in Known : used' = used => k \in Known'
  OBVIOUS
<1>4. ASSUME UNCHANGED <<used, grant, stored, op, resumes>>, session' \in {session, NoSession}
      PROVE  FreshInv'
  BY <1>2, <1>4 DEF FreshInv
<1>5. CASE UNCHANGED vars
  BY <1>4, <1>5 DEF vars, flowVars
<1>6. ASSUME NEW kind, NEW key \in Known', NEW e, NEW phase, Begin(kind, key, e, phase),
             used \subseteq used'
      PROVE  FreshInv'
  <2>1. op'.key = key /\ op'.record = NoKey /\ UNCHANGED <<stored, session, resumes, grant>>
    BY <1>6 DEF Begin
  <2> QED BY <1>6, <2>1 DEF FreshInv
<1>7. CASE Button
  <2>1. ASSUME NEW k \in Keys, NEW d \in Durations, Grant(k, d) PROVE FreshInv'
    BY <1>6, <2>1 DEF Grant
  <2>2. ASSUME NEW d \in Durations, Extend(d) PROVE FreshInv'
    BY <1>6, <2>2 DEF Extend, FreshInv
  <2>3. CASE Revoke
    BY <1>6, <2>3 DEF Revoke, FreshInv
  <2>4. CASE Resend
    BY <1>6, <2>4 DEF Resend, FreshInv
  <2> QED BY <1>7, <2>1, <2>2, <2>3, <2>4 DEF Button
<1>8. ASSUME Sent, Lands, used' = used
      PROVE  \A s \in Scopes, k \in Keys \ used', p \in Perms :
                grant'[s][k][p] \in {0, grant[s][k][p]}
  <2>1. op.key \in used
    BY <1>8, LandsGrants, ScopeAssumption DEF FreshInv
  <2> QED BY <1>8, <2>1, LandsGrants
<1>9. CASE Confirmed
  <2>1. op'.key = op.key /\ op'.record = op.record
    BY <1>9 DEF Confirmed, After, IInv, TypeOK
  <2> QED BY <1>1, <1>8, <1>9, <2>1 DEF Confirmed, FreshInv
<1>10. CASE LandsUnseen
  BY <1>1, <1>2, <1>8, <1>10 DEF LandsUnseen, FreshInv
<1>11. CASE Rejected \/ Handed
  BY <1>1, <1>2, <1>11 DEF Rejected, Handed, FreshInv
<1>12. CASE RecordRead
  <2>1. op.scope \in Scopes
    BY <1>12 DEF RecordRead, IInv, ShapeInv, FlowShape
  <2>2. op'.key = op.key /\ op'.record \in Known
    BY <1>12, <2>1 DEF RecordRead, IInv, TypeOK, FreshInv
  <2> QED BY <1>1, <1>12, <2>2 DEF RecordRead, FreshInv
<1>13. CASE Installed
  <2>1. op'.key \in Known /\ op'.record \in Known /\ op.scope \in Scopes /\ op.kind \in {"grant", "extend", "revoke"}
    BY <1>2, <1>13 DEF Installed, After, IInv, TypeOK, ShapeInv, FlowShape, FreshInv
  <2>2. \A s \in Scopes : stored'[s] \in Known
    <3>1. ASSUME NEW k \in Known, Put(op.scope, k)
          PROVE  \A s \in Scopes : stored'[s] \in Known
      BY <2>1, <3>1 DEF Put, FreshInv, IInv, TypeOK
    <3>2. \/ Put(op.scope, op.key) \/ Put(op.scope, NoKey)
          \/ Put(op.scope, op.record) \/ UNCHANGED stored
      <4>1. CASE op.kind = "grant"
        BY <1>13, <4>1 DEF Installed, Store
      <4>2. CASE op.kind = "revoke"
        BY <1>13, <4>2 DEF Installed, Store
      <4>3. CASE op.kind = "extend"
        BY <1>13, <4>3 DEF Installed, Store
      <4> QED BY <2>1, <4>1, <4>2, <4>3
    <3> QED BY <3>1, <3>2 DEF FreshInv
  <2>3. session'.key \in Known
    BY <1>2, <1>13 DEF Installed, FreshInv
  <2> QED BY <1>1, <1>13, <2>1, <2>2, <2>3 DEF Installed, FreshInv
<1>14. ASSUME NEW w \in Nobody, WalletChanges(w) PROVE FreshInv'
  <2>1. \A r \in resumes' : r.key \in Known
    <3>1. \A r \in resumes : Leave(r).key = r.key
      BY DEF Leave, IInv, TypeOK
    <3>2. \A r \in resumes' : r.key = NoKey \/ \E q \in resumes : r = Leave(q)
      BY <1>14 DEF WalletChanges
    <3> QED BY <3>1, <3>2 DEF FreshInv
  <2> QED BY <1>1, <1>2, <1>14, <2>1 DEF WalletChanges, FreshInv
<1>15. CASE Reload
  <2>1. \A s \in Scopes, k \in Keys \ used', p \in Perms : grant'[s][k][p] \in {0, grant[s][k][p]}
    BY <1>8, <1>15 DEF Reload
  <2> QED BY <1>1, <1>2, <1>15, <2>1 DEF Reload, FreshInv
<1>16. ASSUME NEW r \in resumes, Resume(r) PROVE FreshInv'
  <2>1. r.scope \in Scopes /\ r.key \in Known /\ UNCHANGED <<used, op, grant>>
    BY <1>16 DEF IInv, TypeOK, FreshInv, Resume, ResumeLoads, ResumeFails, ResumeReads,
                 ResumeWipes
  <2>2. \A s \in Scopes : stored'[s] \in Known
    BY <1>16 DEF IInv, TypeOK, FreshInv, Resume, ResumeLoads, ResumeFails, ResumeReads,
                 ResumeWipes
  <2>3. \A q \in resumes' : q.key \in Known
    <3>1. CASE ResumeLoads(r)
      <4>1. ASSUME NEW q \in resumes' PROVE q.key \in Known
        <5>1. q \in resumes \/ q = [r EXCEPT !.phase = "read", !.key = stored[r.scope]]
          BY <3>1, <4>1 DEF ResumeLoads
        <5> QED BY <2>1, <5>1 DEF IInv, TypeOK, FreshInv
      <4> QED BY <4>1
    <3>2. CASE ResumeFails(r) \/ ResumeWipes(r)
      BY <3>2 DEF ResumeFails, ResumeWipes, FreshInv
    <3>3. CASE ResumeReads(r)
      <4>1. ASSUME NEW q \in resumes' PROVE q.key \in Known
        <5>1. q \in resumes \/ q = [r EXCEPT !.phase = "wipe"]
          BY <3>3, <4>1 DEF ResumeReads
        <5> QED BY <2>1, <5>1 DEF IInv, TypeOK, FreshInv
      <4> QED BY <4>1
    <3> QED BY <1>16, <3>1, <3>2, <3>3 DEF Resume
  <2>4. session'.key \in Known
    <3>1. session' = session \/ session'.key = r.key
      BY <1>16 DEF Resume, ResumeLoads, ResumeFails, ResumeReads, ResumeWipes
    <3> QED BY <2>1, <3>1 DEF FreshInv
  <2> QED BY <1>1, <2>1, <2>2, <2>3, <2>4 DEF FreshInv
<1>17. CASE RunStarts \/ RunPresigns \/ RunEnds \/ Tick
  BY <1>4, <1>17 DEF RunStarts, RunPresigns, RunEnds, Tick, flowVars
<1>18. ASSUME NEW s \in Scopes, NEW k \in Keys, NEW p \in Perms, PermissionRevoked(s, k, p)
       PROVE  FreshInv'
  <2>1. \A x \in Scopes, y \in Keys \ used', q \in Perms : grant'[x][y][q] \in {0, grant[x][y][q]}
    BY <1>18 DEF PermissionRevoked, IInv, TypeOK
  <2> QED BY <1>1, <1>18, <2>1 DEF PermissionRevoked, flowVars, FreshInv
<1> QED BY <1>5, <1>7, <1>9, <1>10, <1>11, <1>12, <1>13, <1>14, <1>15, <1>16, <1>17, <1>18
        DEF Next, Flow

--------------------------------------------------------------------------------
(* No live authorization is without a key *)

\* No step but a login brings an authorization to life
NoRevival == \A s \in Scopes, k \in Keys : Authorized(s, k)' => Authorized(s, k)

LEMMA SameChain == ASSUME UNCHANGED <<grant, now>> PROVE NoRevival
  BY DEF NoRevival, Authorized

LEMMA PassingTime ==
    ASSUME TypeOK,
           \/ Tick
           \/ \E s \in Scopes, k \in Keys, p \in Perms : PermissionRevoked(s, k, p)
    PROVE  NoRevival
<1>1. now \in Nat /\ \A s \in Scopes, k \in Keys, p \in Perms : grant[s][k][p] \in Nat
  BY BoundAssumption DEF TypeOK, Time
<1>2. CASE Tick
  BY <1>1, <1>2 DEF Tick, NoRevival, Authorized
<1>3. ASSUME NEW s \in Scopes, NEW k \in Keys, NEW p \in Perms, PermissionRevoked(s, k, p)
      PROVE  NoRevival
  <2>1. now' = now /\ \A x \in Scopes, y \in Keys, q \in Perms :
                         grant'[x][y][q] \in {0, grant[x][y][q]}
    BY <1>3 DEF PermissionRevoked, TypeOK
  <2> QED BY <1>1, <2>1 DEF NoRevival, Authorized
<1> QED BY <1>2, <1>3

\* Dead stays dead
LEMMA DeadStays ==
    ASSUME NoRevival, NEW s \in Scopes, NEW k \in AnyKey, Dead(s, k)
    PROVE  Dead(s, k)'
  BY ScopeAssumption DEF NoRevival, Dead, AnyKey

\* Only the key of the flow comes to life when its transaction lands, and no key by a
\* revocation, which takes its own
LEMMA LandsRevives ==
    ASSUME IInv, Sent, Lands, now' = now
    PROVE  /\ \A s \in Scopes, k \in Keys :
                 Authorized(s, k)' => Authorized(s, k) \/ (s = op.scope /\ k = op.key)
           /\ op.kind = "revoke" =>
                 /\ NoRevival
                 /\ \A s \in Scopes, k \in Keys :
                       s = op.scope /\ k = op.key => ~ Authorized(s, k)'
<1>1. now \in Nat
  BY BoundAssumption DEF IInv, TypeOK, Time
<1>2. \A s \in Scopes, k \in Keys :
         Authorized(s, k)' => Authorized(s, k) \/ (s = op.scope /\ k = op.key)
  BY LandsGrants DEF Authorized
<1>3. ASSUME op.kind = "revoke",
             NEW s \in Scopes, NEW k \in Keys, s = op.scope, k = op.key
      PROVE  ~ Authorized(s, k)'
  <2>1. \A p \in Perms : grant'[s][k][p] = 0
    BY <1>3, LandsGrants DEF LandsAt
  <2>2. "addPieces" \in Perms
    BY DEF Perms
  <2>3. ~ (grant'[s][k]["addPieces"] > now')
    BY <1>1, <2>1, <2>2
  <2> QED BY <2>2, <2>3 DEF Authorized
<1>4. op.kind = "revoke" => NoRevival
  BY <1>2, <1>3 DEF NoRevival
<1> QED BY <1>2, <1>3, <1>4

LEMMA SlipStays == ASSUME [Next]_vars, IInv, slipped PROVE slipped'
<1>1. CASE Button
  BY <1>1 DEF Button, Grant, Extend, Revoke, Resend
<1>2. CASE Flow
  <2>1. CASE Installed
    <3>1. op.kind \in {"grant", "extend", "revoke"}
      BY <2>1 DEF Installed, IInv, ShapeInv, FlowShape
    <3>2. CASE op.kind = "grant"
      BY <2>1, <3>2 DEF Installed, Store, Put, Mishap
    <3>3. CASE op.kind = "revoke"
      BY <2>1, <3>3 DEF Installed, Store, Put, Mishap
    <3>4. CASE op.kind = "extend"
      BY <2>1, <3>4 DEF Installed, Store, Put, Mishap
    <3> QED BY <3>1, <3>2, <3>3, <3>4
  <2> QED BY <1>2, <2>1 DEF Flow, Confirmed, Rejected, LandsUnseen, RecordRead, Handed,
     Mishap
<1>3. CASE Reload \/ \E w \in Nobody : WalletChanges(w)
  BY <1>3 DEF Reload, WalletChanges
<1>4. ASSUME NEW r \in resumes, Resume(r) PROVE slipped'
  BY <1>4 DEF Resume, ResumeLoads, ResumeFails, ResumeReads, ResumeWipes, Mishap
<1>5. CASE RunStarts \/ RunPresigns \/ RunEnds \/ Tick
  BY <1>5 DEF RunStarts, RunPresigns, RunEnds, Tick
<1>6. ASSUME NEW s \in Scopes, NEW k \in Keys, NEW p \in Perms, PermissionRevoked(s, k, p)
      PROVE  slipped'
  BY <1>6 DEF PermissionRevoked
<1>7. CASE UNCHANGED vars
  BY <1>7 DEF vars
<1> QED BY <1>1, <1>2, <1>3, <1>4, <1>5, <1>6, <1>7 DEF Next

\* What holds of the types, for the steps below
LEMMA Shapes ==
    ASSUME IInv
    PROVE  /\ wallet \in Nobody /\ \A s \in Scopes : stored[s] \in AnyKey
           /\ session # NoSession => session.key \in Keys /\ session.scope \in Scopes
           /\ op.phase = "none" <=> op = NoOp
           /\ op.phase # "none" => op.scope \in Scopes /\ op.key \in Keys
           /\ op.phase \in {"sent", "store"} => op.kind \in {"grant", "extend", "revoke"}
           /\ op.phase = "read" => op.kind = "extend"
           /\ \A r \in resumes : r.scope \in Scopes /\ r.key \in AnyKey
           /\ \A r \in Live : r.scope = wallet
           /\ op.phase \in {"none", "sent", "read", "store", "hand"}
           /\ \A r \in resumes : r.phase \in {"load", "read", "wipe"}
<1>1. op.phase = "none" <=> op = NoOp
  BY DEF IInv, ShapeInv, FlowShape, NoOp
<1> QED BY <1>1 DEF IInv, TypeOK, ShapeInv, FlowShape, SomeSession, ResumeInv, Live

\* Steps that leave records, page and flow alone
LEMMA QuietHeld ==
    ASSUME IInv, AllHeld, NoRevival, UNCHANGED <<wallet, stored, session, op, resumes>>
    PROVE  AllHeld'
<1>1. RecordedOrFlowing'
  BY DEF AllHeld, RecordedOrFlowing, NoRevival
<1>2. SessionRecorded' /\ FlowIsWallets'
  BY DEF AllHeld, SessionRecorded, FlowIsWallets
<1>3. FlowKey'
  BY Shapes, DeadStays DEF AllHeld, FlowKey, AnyKey
<1>4. LiveResume'
  <2>1. Live' = Live /\ \A r \in Live : r.key \in AnyKey /\ wallet \in Scopes
    BY Shapes DEF Live
  <2> QED BY <2>1, DeadStays DEF AllHeld, LiveResume
<1>5. NothingToResume'
  <2>1. Live' = Live /\ (wallet # Off => wallet \in Scopes /\ stored[wallet] \in AnyKey)
    BY Shapes DEF Live, Nobody
  <2> QED BY <2>1, DeadStays DEF AllHeld, NothingToResume
<1> QED BY <1>1, <1>2, <1>3, <1>4, <1>5 DEF AllHeld

\* Buttons: a grant begins when there is nothing to resume
LEMMA ButtonHeld ==
    ASSUME IInv, FreshInv, AllHeld, ~ slipped, ~ slipped', Button
    PROVE  AllHeld'
<1>1. ASSUME NEW kind \in {"grant", "extend", "revoke", "resend"}, NEW key \in Keys, NEW e,
             NEW phase \in {"sent", "hand"}, Begin(kind, key, e, phase),
             kind = "resend" <=> phase = "hand",
             kind = "grant" => session = NoSession /\ key \notin used,
             kind # "grant" => session # NoSession /\ session.key = key,
             Live = {}
      PROVE  AllHeld'
  <2>1. UNCHANGED <<grant, now, stored, session, wallet, resumes>> /\ op = NoOp
        /\ op'.kind = kind /\ op'.scope = wallet /\ op'.key = key /\ op'.phase = phase
    BY <1>1 DEF Begin
  <2>2. wallet \in Scopes
    BY <1>1, Shapes DEF Begin, Nobody
  <2>3. NoRevival /\ op.phase = "none"
    BY <2>1, SameChain, Shapes
  <2>4. RecordedOrFlowing'
    BY <2>1, <2>3 DEF AllHeld, RecordedOrFlowing, NoRevival
  <2>5. SessionRecorded' /\ FlowIsWallets'
    BY <2>1 DEF AllHeld, SessionRecorded, FlowIsWallets
  <2>6. FlowKey'
    <3>1. CASE kind = "grant"
      <4>1. stored[wallet] # key /\ \A p \in Perms : grant[wallet][key][p] = 0
        BY <1>1, <2>2, <3>1, ScopeAssumption DEF FreshInv, Known
      <4>2. now \in Nat /\ \E p \in Perms : TRUE
        BY BoundAssumption DEF IInv, TypeOK, Time, Perms
      <4>3. ~ Authorized(wallet, key)
        BY <4>1, <4>2 DEF Authorized
      <4>4. Dead(wallet, key)'
        BY <2>1, <4>3 DEF Dead, Authorized
      <4> QED BY <1>1, <2>1, <3>1, <4>1, <4>4 DEF FlowKey
    <3>2. CASE kind # "grant"
      BY <1>1, <2>1, <3>2 DEF FlowKey
    <3> QED BY <3>1, <3>2
  <2>7. Live' = {}
    BY <1>1, <2>1 DEF Live
  <2>8. LiveResume'
    BY <2>7 DEF LiveResume
  <2>9. NothingToResume'
    <3>1. session = NoSession => Dead(wallet, stored[wallet])
      BY <1>1, <2>2, ScopeAssumption DEF AllHeld, NothingToResume
    <3> QED BY <2>1, <3>1 DEF NothingToResume, Dead, Authorized
  <2> QED BY <2>4, <2>5, <2>6, <2>8, <2>9 DEF AllHeld
<1>2. session # NoSession => Live = {} /\ session.key \in Keys
  BY Shapes DEF AllHeld, LiveResume
<1>3. ASSUME NEW k \in Keys, NEW d \in Durations, Grant(k, d) PROVE AllHeld'
  <2>1. Live = {}
    BY <1>3 DEF Grant, Live
  <2> QED BY <1>1, <1>3, <2>1 DEF Grant
<1>4. ASSUME NEW d \in Durations, Extend(d) PROVE AllHeld'
  BY <1>1, <1>2, <1>4 DEF Extend
<1>5. CASE Revoke
  BY <1>1, <1>2, <1>5 DEF Revoke
<1>6. CASE Resend
  BY <1>1, <1>2, <1>6 DEF Resend
<1> QED BY <1>3, <1>4, <1>5, <1>6 DEF Button

\* While a flow runs there is no live resume
LEMMA NoLiveInFlow == ASSUME AllHeld, op.phase # "none" PROVE Live = {}
  BY DEF AllHeld, LiveResume

LEMMA ConfirmedHeld ==
    ASSUME IInv, AllHeld, Confirmed
    PROVE  AllHeld'
<1>1. Sent /\ Lands /\ UNCHANGED <<now, wallet, stored, session, resumes>>
  BY DEF Confirmed
<1>2. op.phase = "sent" /\ op.kind \in {"grant", "extend", "revoke"} /\ op.scope \in Scopes
      /\ op.key \in Keys /\ op.scope = wallet
  BY <1>1, Shapes DEF Sent, AllHeld, FlowIsWallets
<1>3. op' = [op EXCEPT !.phase = IF op.kind = "extend" THEN "read" ELSE "store"]
  BY DEF Confirmed, After
<1>4. op'.kind = op.kind /\ op'.scope = op.scope /\ op'.key = op.key
      /\ op'.phase = IF op.kind = "extend" THEN "read" ELSE "store"
  BY <1>3 DEF IInv, TypeOK
<1>5. \A s \in Scopes, k \in Keys :
         Authorized(s, k)' => Authorized(s, k) \/ (s = op.scope /\ k = op.key)
  BY <1>1, LandsRevives
<1>6. op.kind = "revoke" => NoRevival /\ \A s \in Scopes, k \in Keys :
                               s = op.scope /\ k = op.key => ~ Authorized(s, k)'
  BY <1>1, LandsRevives
<1>7. Live' = {} /\ op'.phase # "none"
  BY <1>1, <1>2, <1>4, NoLiveInFlow DEF Live
<1>8. RecordedOrFlowing'
  BY <1>1, <1>2, <1>4, <1>5 DEF AllHeld, RecordedOrFlowing
<1>9. SessionRecorded' /\ FlowIsWallets'
  BY <1>1, <1>2, <1>4 DEF AllHeld, SessionRecorded, FlowIsWallets
<1>10. FlowKey'
  <2>1. op.kind = "revoke" => Dead(op.scope, op.key)'
    BY <1>2, <1>4, <1>6 DEF Dead
  <2> QED BY <1>1, <1>2, <1>4, <2>1 DEF AllHeld, FlowKey
<1>11. LiveResume'
  BY <1>7 DEF LiveResume
<1>12. NothingToResume'
  <2>1. session = NoSession => op.kind = "grant" /\ stored[wallet] # op.key
    BY <1>2 DEF AllHeld, FlowKey
  <2>2. session = NoSession => Dead(wallet, stored[wallet])
    BY <1>2, <1>7, ScopeAssumption, NoLiveInFlow DEF AllHeld, NothingToResume
  <2>3. session = NoSession => Dead(wallet, stored[wallet])'
    <3>1. stored[wallet] \in AnyKey
      BY <1>2, Shapes
    <3> QED BY <1>1, <1>2, <1>5, <2>1, <2>2, <3>1, ScopeAssumption DEF Dead, AnyKey
  <2> QED BY <1>1, <2>3 DEF NothingToResume
<1> QED BY <1>8, <1>9, <1>10, <1>11, <1>12 DEF AllHeld

\* A flow that ends with nothing on chain to record, or everything recorded
LEMMA FlowEndsHeld ==
    ASSUME IInv, AllHeld, Rejected \/ Handed
    PROVE  AllHeld'
<1>1. UNCHANGED <<grant, now, wallet, stored, session, resumes>> /\ op' = NoOp
      /\ op.phase \in {"sent", "hand"}
  BY DEF Rejected, Handed, Sent
<1>2. op'.phase = "none" /\ op.phase # "none" /\ Live' = {}
  BY <1>1, NoLiveInFlow DEF NoOp, Live
<1>3. NoRevival
  BY <1>1, SameChain
<1>4. RecordedOrFlowing'
  BY <1>1, <1>3 DEF AllHeld, RecordedOrFlowing, NoRevival
<1>5. SessionRecorded' /\ FlowIsWallets'
  BY <1>1, <1>2 DEF AllHeld, SessionRecorded, FlowIsWallets
<1>6. FlowKey' /\ LiveResume'
  BY <1>2 DEF FlowKey, LiveResume
<1>7. NothingToResume'
  BY <1>1, <1>2, NoLiveInFlow DEF AllHeld, NothingToResume, Dead, Authorized
<1> QED BY <1>4, <1>5, <1>6, <1>7 DEF AllHeld

LEMMA RecordReadHeld ==
    ASSUME IInv, AllHeld, RecordRead
    PROVE  AllHeld'
<1>1. UNCHANGED <<grant, now, wallet, stored, session, resumes>> /\ op.phase = "read"
      /\ op' = [op EXCEPT !.phase = "store", !.record = stored[op.scope]]
  BY DEF RecordRead
<1>2. op.kind = "extend" /\ op.scope = wallet /\ session # NoSession /\ session.key = op.key
      /\ stored[wallet] = op.key
  BY <1>1, Shapes DEF AllHeld, FlowIsWallets, FlowKey, SessionRecorded
<1>3. op'.kind = op.kind /\ op'.scope = op.scope /\ op'.key = op.key /\ op'.phase = "store"
      /\ op'.record = op.key
  BY <1>1, <1>2 DEF IInv, TypeOK
<1>4. NoRevival /\ Live' = {}
  BY <1>1, SameChain, NoLiveInFlow DEF Live
<1>5. RecordedOrFlowing'
  BY <1>1, <1>3, <1>4 DEF AllHeld, RecordedOrFlowing, NoRevival
<1>6. SessionRecorded' /\ FlowIsWallets'
  BY <1>1, <1>2, <1>3 DEF AllHeld, SessionRecorded, FlowIsWallets
<1>7. FlowKey' /\ LiveResume'
  BY <1>1, <1>2, <1>3, <1>4 DEF FlowKey, LiveResume
<1>8. NothingToResume'
  BY <1>1, <1>2 DEF NothingToResume
<1> QED BY <1>5, <1>6, <1>7, <1>8 DEF AllHeld

\* The record of a grant replaces one that is dead, that of an extension is the page's
\* own, and what a revocation removes it has ended
LEMMA InstalledHeld ==
    ASSUME IInv, AllHeld, ~ slipped', Installed
    PROVE  AllHeld'
<1>1. UNCHANGED <<grant, now, wallet, resumes>> /\ op.phase = "store" /\ op' = After("hand")
  BY DEF Installed
<1>2. op.kind \in {"grant", "extend", "revoke"} /\ op.scope \in Scopes /\ op.key \in Keys
      /\ op.scope = wallet
  BY <1>1, Shapes DEF AllHeld, FlowIsWallets
<1>3. op'.phase \in {"none", "hand"} /\ (op'.phase # "none" => op'.scope = op.scope)
  BY <1>1 DEF After, NoOp, IInv, TypeOK
<1>4. NoRevival /\ Live = {} /\ Live' = {}
  BY <1>1, SameChain, NoLiveInFlow DEF Live
<1> DEFINE k == IF op.kind = "revoke" THEN NoKey ELSE op.key
<1>5. stored' = [stored EXCEPT ![wallet] = k]
  <2>1. op.kind = "extend" => op.record = op.key
    BY <1>1 DEF AllHeld, FlowKey
  <2>2. Put(wallet, k)
    <3>1. CASE op.kind = "grant"
      <4>1. Put(op.scope, op.key)
        BY <3>1 DEF Installed, Store
      <4> QED BY <1>2, <3>1, <4>1
    <3>2. CASE op.kind = "revoke"
      <4>1. Put(op.scope, NoKey)
        BY <3>2 DEF Installed, Store
      <4> QED BY <1>2, <3>2, <4>1
    <3>3. CASE op.kind = "extend"
      BY <1>2, <2>1, <3>3, ScopeAssumption DEF Installed, Store
    <3> QED BY <1>2, <3>1, <3>2, <3>3
  <2> QED BY <2>2 DEF Put, Mishap
<1> HIDE DEF k
<1>6. stored'[wallet] = k /\ \A s \in Scopes : s # wallet => stored'[s] = stored[s]
  BY <1>2, <1>5 DEF IInv, TypeOK
<1>7. RecordedOrFlowing'
  <2> SUFFICES ASSUME NEW s \in Scopes, NEW y \in Keys, Authorized(s, y)'
               PROVE  stored'[s] = y
    BY DEF RecordedOrFlowing
  <2>1. Authorized(s, y)
    BY <1>4 DEF NoRevival
  <2>2. CASE s # wallet
    BY <1>2, <1>6, <2>1, <2>2 DEF AllHeld, RecordedOrFlowing
  <2>3. CASE s = wallet /\ y = op.key
    BY <1>1, <1>2, <1>6, <2>1, <2>3, ScopeAssumption DEF AllHeld, FlowKey, Dead, k
  <2>4. CASE s = wallet /\ y # op.key
    <3>1. stored[wallet] = y
      BY <2>1, <2>4 DEF AllHeld, RecordedOrFlowing
    <3>2. op.kind = "grant"
      BY <1>1, <1>2, <2>4, <3>1 DEF AllHeld, FlowKey, SessionRecorded
    <3>3. session = NoSession /\ wallet # Off
      BY <1>1, <1>2, <3>2, ScopeAssumption DEF AllHeld, FlowKey
    <3>4. Dead(wallet, y)
      BY <1>4, <3>1, <3>3 DEF AllHeld, NothingToResume
    <3> QED BY <2>1, <2>4, <3>4, ScopeAssumption DEF Dead
  <2> QED BY <2>2, <2>3, <2>4
<1>8. SessionRecorded'
  BY <1>1, <1>2, <1>6 DEF SessionRecorded, Installed, k
<1>9. FlowIsWallets' /\ FlowKey' /\ LiveResume'
  BY <1>1, <1>2, <1>3, <1>4 DEF FlowIsWallets, FlowKey, LiveResume
<1>10. NothingToResume'
  <2>1. CASE op.kind = "revoke"
    BY <1>1, <1>6, <2>1 DEF NothingToResume, Dead, k
  <2>2. CASE op.kind # "revoke"
    <3>1. session'.key = op.key
      BY <2>2 DEF Installed
    <3>2. session' # NoSession
      BY <1>2, <3>1, ScopeAssumption DEF NoSession
    <3> QED BY <3>2 DEF NothingToResume
  <2> QED BY <2>1, <2>2
<1> QED BY <1>7, <1>8, <1>9, <1>10 DEF AllHeld

\* The wallet changes, or the page goes, while there is no flow: the record has it all
LEMMA WalletHeld ==
    ASSUME IInv, AllHeld, ~ slipped', Reload \/ \E w \in Nobody : WalletChanges(w)
    PROVE  AllHeld'
<1>1. op = NoOp /\ UNCHANGED <<now, stored, op>> /\ session' = NoSession
  BY DEF Reload, WalletChanges
<1>2. op.phase = "none" /\ op'.phase = "none"
  BY <1>1, Shapes
<1>3. UNCHANGED grant
  BY <1>2 DEF Reload, WalletChanges, Sent
<1>4. RecordedOrFlowing'
  BY <1>1, <1>3, SameChain DEF AllHeld, RecordedOrFlowing, NoRevival
<1>5. SessionRecorded' /\ FlowIsWallets' /\ FlowKey'
  BY <1>1, <1>2 DEF SessionRecorded, FlowIsWallets, FlowKey
<1>6. CASE Reload
  <2>1. Live' = {} /\ wallet' = Off
    BY <1>6 DEF Reload, Live
  <2> QED BY <1>4, <1>5, <2>1 DEF AllHeld, LiveResume, NothingToResume
<1>7. ASSUME NEW w \in Nobody, WalletChanges(w)
      PROVE  AllHeld'
  <2> DEFINE new == [scope |-> w, key |-> NoKey, stale |-> FALSE, phase |-> "load"]
  <2>1. \A r \in resumes : Leave(r).stale = TRUE
    BY DEF Leave, IInv, TypeOK
  <2>2. Live' = IF w = Off THEN {} ELSE {new}
    BY <1>7, <2>1 DEF WalletChanges, Live
  <2>3. LiveResume'
    <3>1. \A r \in Live' : r = new
      BY <2>2
    <3>2. \A r \in Live' : r.phase = "load"
      BY <3>1
    <3> HIDE DEF new
    <3> QED BY <1>1, <1>2, <3>1, <3>2 DEF LiveResume
  <2>4. NothingToResume'
    BY <1>7, <2>2 DEF NothingToResume, WalletChanges
  <2> QED BY <1>4, <1>5, <2>3, <2>4 DEF AllHeld
<1> QED BY <1>6, <1>7

\* A resume brings back the recorded key, unless it is dead; a late wipe of a key in use
\* is a slip
LEMMA ResumeHeld ==
    ASSUME IInv, AllHeld, ~ slipped', NEW r \in resumes, Resume(r)
    PROVE  AllHeld'
<1>1. UNCHANGED <<grant, now, wallet, op>> /\ r.scope \in Scopes /\ r.key \in AnyKey
      /\ r \in [scope : Scopes, key : AnyKey, stale : BOOLEAN, phase : {"load", "read", "wipe"}]
  BY DEF Resume, ResumeLoads, ResumeFails, ResumeReads, ResumeWipes, IInv, TypeOK
<1>2. NoRevival
  BY <1>1, SameChain
<1>3. r \in Live => /\ r.scope = wallet /\ session = NoSession /\ op.phase = "none"
                    /\ \A q \in Live : q = r
  BY Shapes DEF AllHeld, LiveResume
<1>4. r.phase \in {"read", "wipe"} => r.key \in Keys
  BY DEF IInv, ShapeInv
\* While records and page are as they were: what is left is about the resumes
<1>5. ASSUME UNCHANGED <<stored, session>>, LiveResume', NothingToResume'
      PROVE  AllHeld'
  <2>1. RecordedOrFlowing'
    BY <1>1, <1>2, <1>5 DEF AllHeld, RecordedOrFlowing, NoRevival
  <2>2. SessionRecorded' /\ FlowIsWallets'
    BY <1>1, <1>5 DEF AllHeld, SessionRecorded, FlowIsWallets
  <2>3. FlowKey'
    BY <1>1, <1>2, <1>5, Shapes, DeadStays DEF AllHeld, FlowKey, AnyKey
  <2> QED BY <1>5, <2>1, <2>2, <2>3 DEF AllHeld
<1>6. ASSUME UNCHANGED <<stored, session>>, Live' = Live
      PROVE  AllHeld'
  <2>1. LiveResume' /\ NothingToResume'
    BY <1>1, <1>6 DEF AllHeld, LiveResume, NothingToResume, Dead, Authorized
  <2> QED BY <1>5, <1>6, <2>1
<1>7. CASE ResumeLoads(r) /\ r.stale
  <2>1. UNCHANGED <<stored, session>>
    BY <1>7 DEF ResumeLoads
  <2>2. [r EXCEPT !.phase = "read", !.key = stored[r.scope]].stale = r.stale
    BY <1>1
  <2>3. Live' = Live
    BY <1>7, <2>2 DEF ResumeLoads, Live
  <2> QED BY <1>6, <2>1, <2>3
<1>8. CASE ResumeLoads(r) /\ ~ r.stale
  <2> DEFINE q == [r EXCEPT !.phase = "read", !.key = stored[r.scope]]
  <2>1. UNCHANGED <<stored, session>> /\ r \in Live /\ r.scope = wallet
    BY <1>3, <1>8 DEF ResumeLoads, Live
  <2>2. q.stale = FALSE /\ q.phase = "read" /\ q.key = stored[wallet]
    BY <1>1, <1>8, <2>1
  <2> HIDE DEF q
  <2>3. CASE stored[wallet] # NoKey /\ resumes' = (resumes \ {r}) \cup {q}
    <3>1. Live' = {q}
      BY <1>3, <2>1, <2>2, <2>3 DEF Live
    <3>2. LiveResume'
      BY <1>1, <1>3, <2>1, <2>2, <2>3, <3>1 DEF LiveResume
    <3>3. NothingToResume'
      BY <3>1 DEF NothingToResume
    <3> QED BY <1>5, <2>1, <3>2, <3>3
  <2>4. CASE stored[wallet] = NoKey /\ resumes' = resumes \ {r}
    <3>1. Live' = {}
      BY <1>3, <2>1, <2>4 DEF Live
    <3>2. LiveResume' /\ NothingToResume'
      BY <1>1, <2>1, <2>4, <3>1 DEF LiveResume, NothingToResume, Dead
    <3> QED BY <1>5, <2>1, <3>2
  <2> QED BY <1>8, <2>1, <2>3, <2>4 DEF ResumeLoads, Mishap, q
<1>9. CASE ResumeFails(r)
  BY <1>9 DEF ResumeFails, Mishap
<1> DEFINE e == Effective(r.scope, r.key)
<1>10. ResumeReads(r) => (Authorized(r.scope, r.key) <=> e > now) /\ e \in Nat /\ now \in Nat
  BY <1>1, <1>4, AuthorizedIsEffective, EffectiveIsLeast, BoundAssumption
     DEF ResumeReads, IInv, TypeOK, Time
<1> HIDE DEF e
<1>11. CASE ResumeReads(r) /\ e <= now
  <2> DEFINE q == [r EXCEPT !.phase = "wipe"]
  <2>1. UNCHANGED <<stored, session>> /\ resumes' = (resumes \ {r}) \cup {q}
    BY <1>11 DEF ResumeReads, e
  <2>2. q.stale = r.stale /\ q.phase = "wipe" /\ q.key = r.key /\ q.scope = r.scope
    BY <1>1
  <2> HIDE DEF q
  <2>3. CASE r.stale
    <3>1. Live' = Live
      BY <2>1, <2>2, <2>3 DEF Live
    <3> QED BY <1>6, <2>1, <3>1
  <2>4. CASE ~ r.stale
    <3>1. r \in Live /\ r.scope = wallet /\ r.phase = "read"
      BY <1>3, <1>11, <2>4 DEF Live, ResumeReads
    <3>2. Live' = {q}
      BY <1>3, <2>1, <2>2, <2>4, <3>1 DEF Live
    <3>3. ~ Authorized(wallet, r.key)
      BY <1>10, <1>11, <3>1
    <3>4. Dead(wallet, r.key)'
      <4>1. ~ Authorized(wallet, r.key)'
        BY <1>1, <3>3 DEF Authorized
      <4> QED BY <4>1 DEF Dead
    <3>5. stored[wallet] \in {r.key, NoKey}
      BY <3>1 DEF AllHeld, LiveResume
    <3>6. LiveResume'
      <4>1. \A x \in Live' : x.key = r.key
        BY <2>2, <3>2
      <4>2. \A x \in Live' : Dead(wallet, x.key)'
        BY <1>1, <3>3, <4>1 DEF Dead, Authorized
      <4> QED BY <1>1, <1>3, <2>1, <3>1, <3>2, <3>5, <4>1, <4>2 DEF LiveResume
    <3>7. NothingToResume'
      BY <3>2 DEF NothingToResume
    <3> QED BY <1>5, <2>1, <3>6, <3>7
  <2> QED BY <2>3, <2>4
<1>12. CASE ResumeReads(r) /\ ~ (e <= now)
  <2>1. stored' = stored /\ resumes' = resumes \ {r}
    BY <1>12 DEF ResumeReads, e
  <2>2. CASE r.stale
    <3>1. Live' = Live /\ session' = session
      BY <1>12, <2>1, <2>2 DEF Live, ResumeReads, e
    <3> QED BY <1>6, <2>1, <3>1
  <2>3. CASE ~ r.stale
    <3>1. session' = [key |-> r.key, scope |-> r.scope, expires |-> e]
      BY <1>12, <2>3 DEF ResumeReads, e
    <3>2. r \in Live /\ r.scope = wallet /\ r.phase = "read" /\ op.phase = "none"
      BY <1>3, <1>12, <2>3 DEF Live, ResumeReads
    <3>3. stored[wallet] = r.key
      BY <1>4, <1>10, <1>12, <3>2, ScopeAssumption DEF AllHeld, LiveResume, Dead
    <3>4. Live' = {}
      BY <1>3, <2>1, <3>2 DEF Live
    <3>5. RecordedOrFlowing'
      BY <1>1, <1>2, <2>1 DEF AllHeld, RecordedOrFlowing, NoRevival
    <3>6. SessionRecorded'
      BY <1>1, <2>1, <3>1, <3>2, <3>3 DEF SessionRecorded
    <3>7. FlowIsWallets' /\ FlowKey' /\ LiveResume'
      BY <1>1, <3>2, <3>4 DEF FlowIsWallets, FlowKey, LiveResume
    <3>8. NothingToResume'
      <4>1. session'.key # NoKey
        BY <1>4, <3>1, <3>2, ScopeAssumption
      <4> QED BY <4>1 DEF NothingToResume, NoSession
    <3> QED BY <3>5, <3>6, <3>7, <3>8 DEF AllHeld
  <2> QED BY <2>2, <2>3
<1>13. CASE ResumeWipes(r) /\ UNCHANGED stored
  <2>1. session' = session /\ resumes' = resumes \ {r}
    BY <1>13 DEF ResumeWipes
  <2>2. CASE r.stale
    <3>1. Live' = Live
      BY <2>1, <2>2 DEF Live
    <3> QED BY <1>6, <1>13, <2>1, <3>1
  <2>3. CASE ~ r.stale
    <3>1. r \in Live /\ r.scope = wallet /\ r.phase = "wipe"
      BY <1>3, <1>13, <2>3 DEF Live, ResumeWipes
    <3>2. Live' = {}
      BY <1>3, <2>1, <3>1 DEF Live
    <3>3. Dead(wallet, stored[wallet])
      BY <3>1 DEF AllHeld, LiveResume, Dead
    <3>4. LiveResume' /\ NothingToResume'
      BY <1>1, <1>13, <3>2, <3>3 DEF LiveResume, NothingToResume, Dead, Authorized
    <3> QED BY <1>5, <1>13, <2>1, <3>4
  <2> QED BY <2>2, <2>3
<1>14. CASE ResumeWipes(r) /\ ~ UNCHANGED stored
  <2>1. stored' = [stored EXCEPT ![r.scope] = NoKey] /\ session' = session
        /\ resumes' = resumes \ {r} /\ ~ InUse(r.scope, stored[r.scope])
    BY <1>14 DEF ResumeWipes
  <2>2. stored'[r.scope] = NoKey /\ \A s \in Scopes : s # r.scope => stored'[s] = stored[s]
    BY <1>1, <2>1 DEF IInv, TypeOK
  <2> DEFINE k == stored[r.scope]
  <2>3. k \in Keys /\ ~ Authorized(r.scope, k) /\ k # session.key /\ k # op.key
    <3>1. k # NoKey
      BY <1>14, <2>1 DEF IInv, TypeOK
    <3> QED BY <1>1, <2>1, <3>1, Shapes DEF InUse, AnyKey
  <2> HIDE DEF k
  <2>4. RecordedOrFlowing'
    <3> SUFFICES ASSUME NEW s \in Scopes, NEW y \in Keys, Authorized(s, y)'
                 PROVE  \/ stored'[s] = y
                        \/ op'.phase \in {"read", "store"} /\ op'.key = y /\ op'.scope = s
      BY DEF RecordedOrFlowing
    <3>1. Authorized(s, y)
      BY <1>2 DEF NoRevival
    <3>2. stored[s] = y => s # r.scope
      BY <2>3, <3>1 DEF k
    <3> QED BY <1>1, <2>2, <3>1, <3>2 DEF AllHeld, RecordedOrFlowing
  <2>5. SessionRecorded'
    BY <1>1, <2>1, <2>2, <2>3, Shapes DEF AllHeld, SessionRecorded, k
  <2>6. FlowIsWallets'
    BY <1>1 DEF AllHeld, FlowIsWallets
  <2>7. FlowKey'
    <3>1. \A s \in Scopes : stored'[s] \in {stored[s], NoKey}
      BY <2>2
    <3>2. op.phase # "none" => stored'[op.scope] # op.key \/ stored'[op.scope] = stored[op.scope]
      BY <3>1, Shapes, ScopeAssumption
    <3> QED BY <1>1, <1>2, <2>1, <3>1, <3>2, Shapes, DeadStays, ScopeAssumption
            DEF AllHeld, FlowKey, AnyKey
  <2>8. LiveResume'
    <3>1. Live' \subseteq Live
      BY <2>1 DEF Live
    <3> SUFFICES ASSUME NEW q \in Live'
                 PROVE  /\ session' = NoSession /\ op'.phase = "none"
                        /\ q.phase # "load" => stored'[wallet'] \in {q.key, NoKey}
                        /\ q.phase # "load" /\ (stored'[wallet'] = NoKey \/ q.phase = "wipe") =>
                             Dead(wallet, q.key)'
      BY <3>1 DEF AllHeld, LiveResume
    <3>2. q \in Live /\ q.scope = wallet /\ wallet \in Scopes /\ q.key \in AnyKey
      BY <3>1, Shapes DEF Live
    <3>3. session' = NoSession /\ op'.phase = "none"
      BY <1>1, <2>1, <3>2 DEF AllHeld, LiveResume
    <3>4. q.phase # "load" => stored'[wallet'] \in {q.key, NoKey}
      BY <1>1, <2>2, <3>2 DEF AllHeld, LiveResume
    <3>5. ASSUME q.phase # "load", stored'[wallet'] = NoKey \/ q.phase = "wipe"
          PROVE  Dead(wallet, q.key)'
      <4>1. Dead(wallet, q.key)
        <5>1. CASE stored[wallet] = NoKey \/ q.phase = "wipe"
          BY <3>2, <3>5, <5>1 DEF AllHeld, LiveResume
        <5>2. CASE stored[wallet] # NoKey /\ q.phase # "wipe"
          <6>1. wallet = r.scope /\ stored[wallet] = q.key
            BY <1>1, <2>2, <3>2, <3>5, <5>2 DEF AllHeld, LiveResume
          <6> QED BY <2>3, <6>1 DEF Dead, k
        <5> QED BY <5>1, <5>2
      <4> QED BY <1>1, <4>1 DEF Dead, Authorized
    <3> QED BY <3>3, <3>4, <3>5
  <2>9. NothingToResume'
    <3>1. CASE r.scope = wallet
      BY <1>1, <2>2, <3>1 DEF NothingToResume, Dead
    <3>2. CASE r.scope # wallet
      <4>1. r \notin Live
        BY <1>3, <3>2
      <4>2. Live' = Live
        BY <2>1, <4>1 DEF Live
      <4>3. wallet # Off => stored'[wallet] = stored[wallet]
        BY <2>2, <3>2, Shapes DEF Nobody
      <4> QED BY <1>1, <2>1, <4>2, <4>3 DEF AllHeld, NothingToResume, Dead, Authorized
    <3> QED BY <3>1, <3>2
  <2> QED BY <2>4, <2>5, <2>6, <2>7, <2>8, <2>9 DEF AllHeld
<1> QED BY <1>7, <1>8, <1>9, <1>11, <1>12, <1>13, <1>14 DEF Resume

LEMMA NextKept ==
    ASSUME IInv, FreshInv, KeptInv, [Next]_vars
    PROVE  KeptInv'
<1> SUFFICES ASSUME ~ slipped'
             PROVE  AllHeld'
  BY DEF KeptInv
<1>1. ~ slipped /\ AllHeld
  BY SlipStays DEF KeptInv, IInv, TypeOK
<1>2. CASE Button
  BY <1>1, <1>2, ButtonHeld
<1>3. CASE Flow
  BY <1>1, <1>3, ConfirmedHeld, FlowEndsHeld, RecordReadHeld, InstalledHeld
     DEF Flow, LandsUnseen, Mishap
<1>4. CASE Reload \/ \E w \in Nobody : WalletChanges(w)
  BY <1>1, <1>4, WalletHeld
<1>5. ASSUME NEW r \in resumes, Resume(r) PROVE AllHeld'
  BY <1>1, <1>5, ResumeHeld
<1>6. CASE RunStarts \/ RunPresigns \/ RunEnds \/ UNCHANGED vars
  <2>1. UNCHANGED <<grant, now, wallet, stored, session, op, resumes>>
    BY <1>6 DEF RunStarts, RunPresigns, RunEnds, vars, flowVars
  <2> QED BY <1>1, <2>1, SameChain, QuietHeld
<1>7. CASE Tick \/ \E s \in Scopes, k \in Keys, p \in Perms : PermissionRevoked(s, k, p)
  <2>1. NoRevival
    BY <1>7, PassingTime DEF IInv
  <2>2. UNCHANGED <<wallet, stored, session, op, resumes>>
    BY <1>7 DEF Tick, PermissionRevoked, flowVars
  <2> QED BY <1>1, <2>1, <2>2, QuietHeld
<1> QED BY <1>2, <1>3, <1>4, <1>5, <1>6, <1>7 DEF Next

LEMMA InitHeld == Init => FreshInv /\ KeptInv
<1> SUFFICES ASSUME Init
             PROVE  FreshInv /\ KeptInv
  OBVIOUS
<1>1. NoSession.key = NoKey /\ NoOp.key = NoKey /\ NoOp.record = NoKey /\ NoOp.phase = "none"
  BY DEF NoSession, NoOp
<1>2. FreshInv
  BY <1>1 DEF Init, FreshInv, Known
<1>3. \A s \in Scopes, k \in Keys : ~ Authorized(s, k)
  BY DEF Init, Authorized, Perms
<1>4. Live = {}
  BY DEF Init, Live
<1> QED BY <1>1, <1>2, <1>3, <1>4 DEF Init, KeptInv, AllHeld, RecordedOrFlowing,
   SessionRecorded,
           FlowIsWallets, FlowKey, LiveResume, NothingToResume

\* No authorization is left alive on chain with no key in the app to revoke it with,
\* unless one of the slips happened that AuthorizationIsHeld names
THEOREM HeldAuthorizations == Spec => []AuthorizationIsHeld
<1>1. HInv => AuthorizationIsHeld
  BY DEF HInv, KeptInv, AllHeld, RecordedOrFlowing, AuthorizationIsHeld
<1>2. Init => HInv
  BY InitIInv, InitHeld DEF HInv
<1>3. HInv /\ [Next]_vars => HInv'
  BY NextIInv, NextFresh, NextKept DEF HInv
<1> QED BY <1>1, <1>2, <1>3, PTL DEF Spec
================================================================================
