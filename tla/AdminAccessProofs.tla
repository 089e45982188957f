------------------------- MODULE AdminAccessProofs -------------------------
(***************************************************************************)
(* How long a revoked role lives on, and what can never be regained, for   *)
(* any number of accounts, organizations and requests and without a bound  *)
(* on time or tokens.                                                      *)
(***************************************************************************)
EXTENDS AdminAccess, TLAPS

(* The inductive invariant.  That claims fade rests on what a request that is
   about to sign has read: an administrator's role is still the account's, or
   the request is marked late. *)
LossesArePast == \A u \in Users : lost[u] <= now

ClaimsGrounded ==
  \A t \in tokens :
    /\ t.expires <= now + AccessTTL
    /\ ~CanAdminister(role[t.user]) => (t.late \/ t.expires <= lost[t.user] + AccessTTL)

RequestsGrounded ==
  \A p \in Reqs :
    /\ req[p].stage # "idle" => req[p].user \in Users
    /\ req[p].stage = "member" => req[p].org \in Orgs
    /\ req[p].stage = "issue" =>
         (CanAdminister(req[p].role) => (req[p].late \/ CanAdminister(role[req[p].user])))

IInv == TypeOK /\ LossesArePast /\ ClaimsGrounded /\ RequestsGrounded

----------------------------------------------------------------------------
LEMMA InitHolds == Init => IInv
<1> SUFFICES ASSUME Init PROVE IInv
  OBVIOUS
<1>1. Idle \in Request
  BY DEF Idle, Request, Stages
<1>2. TypeOK
  BY <1>1, SeedExists DEF Init, TypeOK, Roles, Statuses
<1>3. LossesArePast /\ ClaimsGrounded
  BY DEF Init, LossesArePast, ClaimsGrounded
<1>4. RequestsGrounded
  BY DEF Init, RequestsGrounded, Idle
<1> QED BY <1>2, <1>3, <1>4 DEF IInv

\* A request that moves on, the tables and tokens as they are.
LEMMA MoveKeeps ==
  ASSUME IInv, NEW p \in Reqs, NEW r \in Request, Becomes(p, r),
         UNCHANGED <<role, tokens, now, lost>>,
         orgs' \subseteq Orgs, member' \in [Orgs -> [Users -> Statuses \cup {"none"}]],
         r.stage # "idle" => r.user \in Users,
         r.stage = "member" => r.org \in Orgs,
         r.stage = "issue" => (CanAdminister(r.role) => CanAdminister(role[r.user]))
  PROVE  IInv'
<1>1. /\ req' \in [Reqs -> Request] /\ req'[p] = r
      /\ \A q \in Reqs \ {p} : req'[q] = req[q]
  BY DEF IInv, TypeOK, Becomes
<1>2. TypeOK'
  BY <1>1 DEF IInv, TypeOK
<1>3. LossesArePast' /\ ClaimsGrounded'
  BY DEF IInv, LossesArePast, ClaimsGrounded
<1>4. RequestsGrounded'
  BY <1>1 DEF IInv, RequestsGrounded
<1> QED BY <1>2, <1>3, <1>4 DEF IInv

LEMMA IdleIsRequest == Idle \in Request /\ Idle.stage = "idle" /\ ~Idle.late
BY DEF Idle, Request, Stages

LEMMA RequestTyped ==
  ASSUME IInv, NEW p \in Reqs
  PROVE  /\ req[p] \in Request
         /\ req[p].stage # "idle" => req[p].user \in Users
         /\ req[p].stage = "member" => req[p].org \in Orgs
BY DEF IInv, TypeOK, RequestsGrounded

LEMMA RegisterKeeps ==
  ASSUME IInv, NEW p \in Reqs, NEW u \in Users, Register(p, u)
  PROVE  IInv'
<1> DEFINE r == [Idle EXCEPT !.stage = "issue", !.user = u, !.role = "user"]
<1>1. /\ r \in Request /\ r.stage = "issue" /\ r.user = u /\ ~CanAdminister(r.role)
  BY DEF Idle, Request, Stages, Roles, CanAdminister
<1>2. /\ role' = [role EXCEPT ![u] = "user"] /\ ~CanAdminister(role[u])
      /\ req' = [req EXCEPT ![p] = r]
      /\ orgs' = orgs /\ member' = member /\ tokens' = tokens /\ now' = now /\ lost' = lost
  BY DEF Register, Becomes, CanAdminister
<1> HIDE DEF r
<1>3. TypeOK'
  BY <1>1, <1>2 DEF IInv, TypeOK, Roles
<1>4. LossesArePast'
  BY <1>2 DEF IInv, LossesArePast
<1>5. \A v \in Users : CanAdminister(role'[v]) <=> CanAdminister(role[v])
  BY <1>2 DEF IInv, TypeOK, CanAdminister
<1>6. ClaimsGrounded'
  BY <1>2, <1>5 DEF IInv, TypeOK, Token, ClaimsGrounded
<1>7. RequestsGrounded'
  <2>1. ASSUME NEW q \in Reqs, q # p
        PROVE  req'[q] = req[q]
    BY <1>2, <2>1 DEF IInv, TypeOK
  <2>2. req'[p] = r
    BY <1>2 DEF IInv, TypeOK
  <2> QED BY <1>1, <1>5, <2>1, <2>2 DEF IInv, RequestsGrounded
<1> QED BY <1>3, <1>4, <1>6, <1>7 DEF IInv

LEMMA ReadAccountKeeps ==
  ASSUME IInv, NEW p \in Reqs, NEW u \in Users, ReadAccount(p, u)
  PROVE  IInv'
<1> DEFINE r == [Idle EXCEPT !.stage = "issue", !.user = u, !.role = role[u]]
<1>1. r \in Request /\ r.stage = "issue" /\ r.user = u /\ r.role = role[u]
  BY DEF Idle, Request, Stages, IInv, TypeOK
<1>2. Becomes(p, r) /\ UNCHANGED <<role, orgs, member, tokens, now, lost>>
  BY DEF ReadAccount
<1> HIDE DEF r
<1> QED BY <1>1, <1>2, MoveKeeps DEF IInv, TypeOK

LEMMA IssuePairKeeps ==
  ASSUME IInv, NEW p \in Reqs, IssuePair(p)
  PROVE  IInv'
<1> DEFINE token == [user |-> req[p].user, expires |-> now + AccessTTL, late |-> req[p].late]
<1>1. /\ req' = [req EXCEPT ![p] = Idle]
      /\ tokens' = IF CanAdminister(req[p].role) THEN tokens \cup {token} ELSE tokens
      /\ role' = role /\ orgs' = orgs /\ member' = member /\ now' = now /\ lost' = lost
      /\ req[p].stage = "issue"
  BY DEF IssuePair, Done, Becomes
<1>2. /\ token \in Token /\ token.expires = now + AccessTTL
      /\ token.user = req[p].user /\ token.late = req[p].late
  BY <1>1, RequestTyped, TimesAreNat DEF Token, Request, IInv, TypeOK
<1> HIDE DEF token
<1>3. TypeOK'
  BY <1>1, <1>2, IdleIsRequest DEF IInv, TypeOK
<1>4. LossesArePast'
  BY <1>1 DEF IInv, LossesArePast
<1>5. ClaimsGrounded'
  <2> SUFFICES ASSUME NEW t \in tokens'
               PROVE  /\ t.expires <= now + AccessTTL
                      /\ ~CanAdminister(role[t.user]) =>
                           (t.late \/ t.expires <= lost[t.user] + AccessTTL)
    BY <1>1 DEF ClaimsGrounded
  <2>1. CASE t \in tokens
    BY <2>1 DEF IInv, ClaimsGrounded
  <2>2. CASE t \notin tokens
    <3>1. t = token /\ CanAdminister(req[p].role)
      BY <1>1, <2>2
    <3>2. token.late \/ CanAdminister(role[token.user])
      BY <1>1, <1>2, <3>1 DEF IInv, RequestsGrounded
    <3>3. now + AccessTTL <= now + AccessTTL
      BY TimesAreNat DEF IInv, TypeOK
    <3> QED BY <1>2, <3>1, <3>2, <3>3
  <2> QED BY <2>1, <2>2
<1>6. RequestsGrounded'
  BY <1>1, IdleIsRequest DEF IInv, TypeOK, RequestsGrounded
<1> QED BY <1>3, <1>4, <1>5, <1>6 DEF IInv

LEMMA TickKeeps ==
  ASSUME IInv, Tick
  PROVE  IInv'
<1>1. now \in Nat /\ now' = now + 1 /\ AccessTTL \in Nat /\ tokens' \subseteq tokens
      /\ role' = role /\ orgs' = orgs /\ member' = member /\ req' = req /\ lost' = lost
  BY TimesAreNat DEF IInv, TypeOK, Tick
<1>2. TypeOK'
  BY <1>1 DEF IInv, TypeOK
<1>3. LossesArePast'
  BY <1>1 DEF IInv, TypeOK, LossesArePast
<1>4. ClaimsGrounded'
  <2> SUFFICES ASSUME NEW t \in tokens
               PROVE  /\ t.expires <= now' + AccessTTL
                      /\ ~CanAdminister(role[t.user]) =>
                           (t.late \/ t.expires <= lost[t.user] + AccessTTL)
    BY <1>1 DEF ClaimsGrounded
  <2>1. t.expires \in Nat /\ t.expires <= now + AccessTTL
    BY DEF IInv, TypeOK, Token, ClaimsGrounded
  <2>2. t.expires <= now' + AccessTTL
    BY <1>1, <2>1
  <2> QED BY <2>2 DEF IInv, ClaimsGrounded
<1>5. RequestsGrounded'
  BY <1>1 DEF IInv, RequestsGrounded
<1> QED BY <1>2, <1>3, <1>4, <1>5 DEF IInv

LEMMA SetUserRoleKeeps ==
  ASSUME IInv, NEW p \in Reqs, NEW u \in Users, NEW r \in Roles, SetUserRole(p, u, r)
  PROVE  IInv'
<1>0. role \in [Users -> Roles \cup {"none"}] /\ req \in [Reqs -> Request]
      /\ lost \in [Users -> Nat] /\ now \in Nat /\ AccessTTL \in Nat
  BY TimesAreNat DEF IInv, TypeOK
<1>1. /\ role' = [role EXCEPT ![u] = r]
      /\ lost' = [lost EXCEPT ![u] =
           IF CanAdminister(role[u]) /\ ~CanAdminister(r) THEN now ELSE @]
      /\ req' = [q \in Reqs |-> IF q = p THEN Idle
                                ELSE [req[q] EXCEPT !.late = @ \/ Overtaken(q, u, r)]]
      /\ orgs' = orgs /\ member' = member /\ tokens' = tokens /\ now' = now
  BY DEF SetUserRole
<1>2. /\ role'[u] = r /\ \A v \in Users \ {u} : role'[v] = role[v] /\ lost'[v] = lost[v]
      /\ lost'[u] = IF CanAdminister(role[u]) /\ ~CanAdminister(r) THEN now ELSE lost[u]
  BY <1>0, <1>1
<1>3. ASSUME NEW q \in Reqs, q # p
      PROVE  /\ req'[q] \in Request /\ req'[q].stage = req[q].stage
             /\ req'[q].user = req[q].user /\ req'[q].org = req[q].org
             /\ req'[q].role = req[q].role
             /\ req'[q].late = (req[q].late \/ Overtaken(q, u, r))
  <2>1. req'[q] = [req[q] EXCEPT !.late = @ \/ Overtaken(q, u, r)]
    BY <1>1, <1>3
  <2>2. req[q] \in Request /\ req[q].late \in BOOLEAN
    BY <1>0 DEF Request
  <2>3. (req[q].late \/ Overtaken(q, u, r)) \in BOOLEAN
    BY DEF Overtaken
  <2> QED BY <2>1, <2>2, <2>3 DEF Request
<1>4. TypeOK'
  <2>1. req' \in [Reqs -> Request]
    BY <1>1, <1>3, IdleIsRequest
  <2>2. role' \in [Users -> Roles \cup {"none"}] /\ lost' \in [Users -> Nat]
    BY <1>0, <1>1
  <2> QED BY <1>1, <2>1, <2>2 DEF IInv, TypeOK
<1>5. LossesArePast'
  BY <1>0, <1>1, <1>2 DEF IInv, LossesArePast
<1>6. ClaimsGrounded'
  <2> SUFFICES ASSUME NEW t \in tokens
               PROVE  /\ t.expires <= now + AccessTTL
                      /\ ~CanAdminister(role'[t.user]) =>
                           (t.late \/ t.expires <= lost'[t.user] + AccessTTL)
    BY <1>1 DEF ClaimsGrounded
  <2>1. t.user \in Users /\ t.expires <= now + AccessTTL
        /\ (~CanAdminister(role[t.user]) =>
              (t.late \/ t.expires <= lost[t.user] + AccessTTL))
    BY DEF IInv, TypeOK, Token, ClaimsGrounded
  <2>2. CASE t.user = u
    BY <1>2, <2>1, <2>2
  <2>3. CASE t.user # u
    BY <1>2, <2>1, <2>3
  <2> QED BY <2>1, <2>2, <2>3
<1>7. RequestsGrounded'
  <2> SUFFICES ASSUME NEW q \in Reqs
               PROVE  /\ req'[q].stage # "idle" => req'[q].user \in Users
                      /\ req'[q].stage = "member" => req'[q].org \in Orgs
                      /\ req'[q].stage = "issue" =>
                           (CanAdminister(req'[q].role) =>
                              (req'[q].late \/ CanAdminister(role'[req'[q].user])))
    BY DEF RequestsGrounded
  <2>1. CASE q = p
    BY <1>1, <2>1, IdleIsRequest
  <2>2. CASE q # p
    <3>1. /\ req[q].stage # "idle" => req[q].user \in Users
          /\ req[q].stage = "member" => req[q].org \in Orgs
          /\ req[q].stage = "issue" =>
               (CanAdminister(req[q].role) => (req[q].late \/ CanAdminister(role[req[q].user])))
      BY DEF IInv, RequestsGrounded
    <3>2. ASSUME req[q].stage = "issue", CanAdminister(req[q].role)
          PROVE  req[q].late \/ Overtaken(q, u, r) \/ CanAdminister(role'[req[q].user])
      BY <1>2, <3>1, <3>2 DEF Overtaken
    <3> QED BY <1>3, <2>2, <3>1, <3>2
  <2> QED BY <2>1, <2>2
<1> QED BY <1>4, <1>5, <1>6, <1>7 DEF IInv

LEMMA CheckKeeps ==
  ASSUME IInv, NEW p \in Reqs, Check(p)
  PROVE  IInv'
<1>1. ASSUME NEW t \in tokens, Authenticate(p, t)
      PROVE  IInv'
  <2> DEFINE r == [Idle EXCEPT !.stage = "admin", !.user = t.user]
  <2>1. t.user \in Users
    BY DEF IInv, TypeOK, Token
  <2>2. r \in Request /\ r.stage = "admin" /\ r.user = t.user
    BY <2>1 DEF Idle, Request, Stages
  <2>3. Becomes(p, r) /\ UNCHANGED <<role, orgs, member, tokens, now, lost>>
    BY <1>1 DEF Authenticate
  <2> HIDE DEF r
  <2> QED BY <2>1, <2>2, <2>3, MoveKeeps DEF IInv, TypeOK
<1>2. ASSUME NEW o \in Orgs, RequireMembership(p, o)
      PROVE  IInv'
  <2> DEFINE r == [req[p] EXCEPT !.stage = "member", !.org = o]
  <2>1. req[p] \in Request /\ req[p].user \in Users
    BY <1>2, RequestTyped DEF RequireMembership
  <2>2. r \in Request /\ r.stage = "member" /\ r.user \in Users /\ r.org = o
    BY <2>1 DEF Request, Stages
  <2>3. Becomes(p, r) /\ UNCHANGED <<role, orgs, member, tokens, now, lost>>
    BY <1>2 DEF RequireMembership
  <2> HIDE DEF r
  <2> QED BY <2>2, <2>3, MoveKeeps DEF IInv, TypeOK
<1> QED BY <1>1, <1>2 DEF Check

\* A request that ends after a change of the organizations or memberships.
LEMMA DoneKeeps ==
  ASSUME IInv, NEW p \in Reqs, Done(p), UNCHANGED <<role, tokens, now, lost>>,
         orgs' \subseteq Orgs, member' \in [Orgs -> [Users -> Statuses \cup {"none"}]]
  PROVE  IInv'
BY IdleIsRequest, MoveKeeps DEF Done

LEMMA AdministerKeeps ==
  ASSUME IInv, NEW p \in Reqs, Administer(p)
  PROVE  IInv'
<1>1. ASSUME NEW u \in Users, PromoteUserToAdmin(p, u) \/ DemoteUserFromAdmin(p, u)
      PROVE  IInv'
  BY <1>1, SetUserRoleKeeps DEF PromoteUserToAdmin, DemoteUserFromAdmin, Roles
<1>2. ASSUME NEW o \in Orgs, CreateOrganization(p, o)
      PROVE  IInv'
  BY <1>2, DoneKeeps DEF CreateOrganization, IInv, TypeOK
<1> QED BY <1>1, <1>2 DEF Administer

LEMMA ManageKeeps ==
  ASSUME IInv, NEW p \in Reqs, Manage(p)
  PROVE  IInv'
<1>0. member \in [Orgs -> [Users -> Statuses \cup {"none"}]] /\ orgs \subseteq Orgs
  BY DEF IInv, TypeOK
<1>1. CASE UpdateOrganization(p)
  BY <1>0, <1>1, DoneKeeps DEF UpdateOrganization
<1>2. ASSUME NEW invited \in SUBSET Users, NEW s \in Statuses,
             CreateMembership(p, invited, s)
      PROVE  IInv'
  <2>1. req[p].org \in Orgs
    BY <1>2, RequestTyped DEF CreateMembership
  <2>2. [u \in Users |-> IF u \in invited THEN s ELSE member[req[p].org][u]]
          \in [Users -> Statuses \cup {"none"}]
    BY <1>0, <2>1
  <2>3. member' \in [Orgs -> [Users -> Statuses \cup {"none"}]]
    BY <1>0, <1>2, <2>2 DEF CreateMembership
  <2> QED BY <1>0, <1>2, <2>3, DoneKeeps DEF CreateMembership
<1>3. ASSUME NEW u \in Users, NEW s \in Statuses, UpdateMembership(p, u, s)
      PROVE  IInv'
  <2>1. member' \in [Orgs -> [Users -> Statuses \cup {"none"}]]
    BY <1>0, <1>3 DEF UpdateMembership
  <2> QED BY <1>0, <1>3, <2>1, DoneKeeps DEF UpdateMembership
<1>4. ASSUME NEW u \in Users, DeleteMembership(p, u)
      PROVE  IInv'
  <2>1. member' \in [Orgs -> [Users -> Statuses \cup {"none"}]]
    BY <1>0, <1>4 DEF DeleteMembership
  <2> QED BY <1>0, <1>4, <2>1, DoneKeeps DEF DeleteMembership
<1> QED BY <1>1, <1>2, <1>3, <1>4 DEF Manage

LEMMA NextKeeps ==
  ASSUME IInv, Next
  PROVE  IInv'
<1>1. ASSUME NEW p \in Reqs, Sign(p) PROVE IInv'
  BY <1>1, IssuePairKeeps, RegisterKeeps, ReadAccountKeeps DEF Sign
<1>2. ASSUME NEW p \in Reqs, Fail(p) PROVE IInv'
  BY <1>2, DoneKeeps DEF Fail, IInv, TypeOK
<1> QED BY <1>1, <1>2, TickKeeps, CheckKeeps, AdministerKeeps, ManageKeeps DEF Next

LEMMA StutterKeeps ==
  ASSUME IInv, UNCHANGED vars
  PROVE  IInv'
BY DEF vars, IInv, TypeOK, LossesArePast, ClaimsGrounded, RequestsGrounded

THEOREM Invariance == Spec => []IInv
<1>1. IInv /\ [Next]_vars => IInv'
  BY NextKeeps, StutterKeeps
<1> QED BY <1>1, InitHolds, PTL DEF Spec

(* TypeOK: the handlers leave accounts, memberships, tokens and requests well
   typed. *)
THEOREM TypeCorrect == Spec => []TypeOK
<1>1. IInv => TypeOK
  BY DEF IInv
<1> QED BY <1>1, Invariance, PTL

(* AdminClaimsFade: a revoked role is believed for one token lifetime, late
   signatures aside. *)
THEOREM ClaimsFade == Spec => []AdminClaimsFade
<1>1. IInv => AdminClaimsFade
  BY DEF IInv, ClaimsGrounded, AdminClaimsFade
<1> QED BY <1>1, Invariance, PTL

----------------------------------------------------------------------------
(* What cannot be regained.                                                *)

LEMMA StaysDeserted ==
  ASSUME IInv, Next, NEW o \in Orgs, Deserted(o)
  PROVE  Deserted(o)'
<1>0. member \in [Orgs -> [Users -> Statuses \cup {"none"}]] /\ req \in [Reqs -> Request]
  BY DEF IInv, TypeOK
<1>1. ASSUME member' = member, \A q \in Reqs : req'[q].stage = "member" => req'[q].org = req[q].org
                                                /\ req[q].stage = "member"
      PROVE  Deserted(o)'
  BY <1>1 DEF Deserted
<1>2. ASSUME NEW p \in Reqs, Sign(p) PROVE Deserted(o)'
  <2>1. PICK r : req' = [req EXCEPT ![p] = r] /\ r.stage # "member" /\ member' = member
    <3>1. CASE IssuePair(p)
      BY <3>1, IdleIsRequest DEF IssuePair, Done, Becomes
    <3>2. ASSUME NEW u \in Users, Register(p, u) \/ ReadAccount(p, u)
          PROVE  \E r : req' = [req EXCEPT ![p] = r] /\ r.stage # "member" /\ member' = member
      <4>1. \A x : [Idle EXCEPT !.stage = "issue", !.user = u, !.role = x].stage = "issue"
        BY DEF Idle
      <4> QED BY <3>2, <4>1 DEF Register, ReadAccount, Becomes
    <3> QED BY <1>2, <3>1, <3>2 DEF Sign
  <2> QED BY <1>0, <1>1, <2>1
<1>3. ASSUME Tick PROVE Deserted(o)'
  BY <1>1, <1>3 DEF Tick
<1>4. ASSUME NEW p \in Reqs, NEW t \in tokens, Authenticate(p, t) PROVE Deserted(o)'
  BY <1>0, <1>1, <1>4 DEF Authenticate, Becomes, Idle
<1>5. ASSUME NEW p \in Reqs, NEW w \in Orgs, RequireMembership(p, w) PROVE Deserted(o)'
  <2> DEFINE r == [req[p] EXCEPT !.stage = "member", !.org = w]
  <2>1. req[p] \in Request /\ req[p].user \in Users /\ member[w][req[p].user] = "active"
    BY <1>5, RequestTyped DEF RequireMembership
  <2>2. w # o
    BY <2>1 DEF Deserted
  <2>3. r.org = w
    BY <2>1 DEF Request
  <2>4. req' = [req EXCEPT ![p] = r] /\ member' = member
    BY <1>5 DEF RequireMembership, Becomes
  <2> HIDE DEF r
  <2> QED BY <1>0, <2>2, <2>3, <2>4 DEF Deserted
<1>6. ASSUME NEW p \in Reqs, NEW u \in Users, NEW r \in Roles, SetUserRole(p, u, r)
      PROVE  Deserted(o)'
  <2>1. ASSUME NEW q \in Reqs
        PROVE  req'[q].stage = "member" => req'[q].org = req[q].org /\ req[q].stage = "member"
    <3>1. req'[q] = IF q = p THEN Idle ELSE [req[q] EXCEPT !.late = @ \/ Overtaken(q, u, r)]
      BY <1>6 DEF SetUserRole
    <3>2. req[q] \in Request
      BY <1>0
    <3> QED BY <3>1, <3>2, IdleIsRequest DEF Request
  <2> QED BY <1>1, <1>6, <2>1 DEF SetUserRole
<1>7. ASSUME NEW p \in Reqs, NEW w \in Orgs, CreateOrganization(p, w) PROVE Deserted(o)'
  BY <1>0, <1>1, <1>7 DEF CreateOrganization, Done, Becomes, Idle
<1>8. ASSUME NEW p \in Reqs, Manage(p) PROVE Deserted(o)'
  <2>1. req' = [req EXCEPT ![p] = Idle] /\ req[p].stage = "member" /\ req[p].org \in Orgs
    BY <1>8, RequestTyped
       DEF Manage, UpdateOrganization, CreateMembership, UpdateMembership, DeleteMembership,
           Done, Becomes
  <2>2. req[p].org # o
    BY <2>1 DEF Deserted
  <2>3. member'[o] = member[o]
    BY <1>0, <1>8, <2>1, <2>2
       DEF Manage, UpdateOrganization, CreateMembership, UpdateMembership, DeleteMembership
  <2> QED BY <1>0, <2>1, <2>3 DEF Deserted, Idle
<1>9. ASSUME NEW p \in Reqs, Fail(p) PROVE Deserted(o)'
  BY <1>0, <1>1, <1>9 DEF Fail, Done, Becomes, Idle
<1>10. ASSUME NEW p \in Reqs, Administer(p) PROVE Deserted(o)'
  BY <1>6, <1>7, <1>10 DEF Administer, PromoteUserToAdmin, DemoteUserFromAdmin, Roles
<1> QED BY <1>2, <1>3, <1>4, <1>5, <1>8, <1>9, <1>10 DEF Next, Check

(* DesertedForGood: an organization without an active member, and without a
   request of one, never has a member again. *)
THEOREM DesertedStays == Spec => DesertedForGood
<1> DEFINE A == \A o \in Orgs : Deserted(o) => Deserted(o)'
<1>1. ASSUME IInv, Next PROVE A
  BY <1>1, StaysDeserted
<1>2. IInv /\ [Next]_vars => [A]_vars
  BY <1>1
<1> QED BY <1>2, Invariance, PTL DEF Spec, DesertedForGood

LEMMA StaysLeaderless ==
  ASSUME IInv, Next, Leaderless
  PROVE  Leaderless'
<1>0. role \in [Users -> Roles \cup {"none"}] /\ req \in [Reqs -> Request]
  BY DEF IInv, TypeOK
<1>1. ~CanAdminister("user") /\ ~CanAdminister("none") /\ ~CanAdminister(Idle.role)
  BY DEF CanAdminister, Idle
<1>2. ASSUME NEW p \in Reqs, NEW r, Becomes(p, r), r.stage \in {"idle", "issue"},
             ~CanAdminister(r.role), role' = role, tokens' = tokens
      PROVE  Leaderless'
  BY <1>0, <1>2 DEF Leaderless, Becomes
<1>3. ASSUME NEW p \in Reqs, NEW u \in Users, Register(p, u) PROVE Leaderless'
  <2> DEFINE r == [Idle EXCEPT !.stage = "issue", !.user = u, !.role = "user"]
  <2>1. r.stage = "issue" /\ r.role = "user"
    BY DEF Idle
  <2>2. req' = [req EXCEPT ![p] = r] /\ role' = [role EXCEPT ![u] = "user"] /\ tokens' = tokens
    BY <1>3 DEF Register, Becomes
  <2> HIDE DEF r
  <2> QED BY <1>0, <1>1, <2>1, <2>2 DEF Leaderless
<1>4. ASSUME NEW p \in Reqs, NEW u \in Users, ReadAccount(p, u) PROVE Leaderless'
  <2> DEFINE r == [Idle EXCEPT !.stage = "issue", !.user = u, !.role = role[u]]
  <2>1. r.stage = "issue" /\ ~CanAdminister(r.role)
    BY DEF Idle, Leaderless
  <2>2. Becomes(p, r) /\ role' = role /\ tokens' = tokens
    BY <1>4 DEF ReadAccount
  <2> HIDE DEF r
  <2> QED BY <1>2, <2>1, <2>2
<1>5. ASSUME NEW p \in Reqs, IssuePair(p) PROVE Leaderless'
  <2>1. ~CanAdminister(req[p].role)
    BY DEF Leaderless
  <2>2. tokens' = tokens /\ role' = role /\ Becomes(p, Idle)
    BY <1>5, <2>1 DEF IssuePair, Done
  <2> QED BY <1>1, <1>2, <2>2, IdleIsRequest
<1>6. ASSUME NEW p \in Reqs, Fail(p) PROVE Leaderless'
  BY <1>1, <1>2, <1>6, IdleIsRequest DEF Fail, Done
<1>7. ASSUME Tick PROVE Leaderless'
  BY <1>7 DEF Tick, Leaderless
<1>8. ASSUME NEW p \in Reqs PROVE ~Check(p) /\ ~Administer(p) /\ ~Manage(p)
  <2>1. tokens = {} /\ req[p].stage # "admin" /\ req[p].stage # "member"
    BY DEF Leaderless
  <2>2. ~Check(p)
    BY <2>1 DEF Check, RequireMembership
  <2>3. ~Administer(p)
    BY <2>1 DEF Administer, PromoteUserToAdmin, DemoteUserFromAdmin, SetUserRole,
                CreateOrganization
  <2>4. ~Manage(p)
    BY <2>1 DEF Manage, UpdateOrganization, CreateMembership, UpdateMembership,
                DeleteMembership
  <2> QED BY <2>2, <2>3, <2>4
<1> QED BY <1>3, <1>4, <1>5, <1>6, <1>7, <1>8 DEF Next, Sign

(* LeaderlessForGood: once no account administers and no token or request
   remembers that one did, nobody administers ever again. *)
THEOREM LeaderlessStays == Spec => LeaderlessForGood
<1> DEFINE A == Leaderless => Leaderless'
<1>1. IInv /\ [Next]_vars => [A]_vars
  BY StaysLeaderless
<1> QED BY <1>1, Invariance, PTL DEF Spec, LeaderlessForGood
=============================================================================
