---------------------------- MODULE AdminAccess ----------------------------
(***************************************************************************)
(* Who may administer what.  A role belongs to the account and is copied   *)
(* into the access token when one is issued; a membership belongs to an    *)
(* organization and a user.  An admin request believes the role of its     *)
(* token (Authenticate, AuthorizeAdmin), then reads the membership once    *)
(* (RequireMembership), and then writes with a statement of its own that   *)
(* looks at neither again; between two of these steps others come in.      *)
(*                                                                         *)
(* Left out: the role of a membership, which nothing reads; names and      *)
(* slugs; tokens whose role does not let their bearer pass AuthorizeAdmin. *)
(***************************************************************************)
EXTENDS Naturals, FiniteSets

CONSTANTS Users, Orgs, Reqs,
          Owner, Home, \* the seeded account and its organization
          AccessTTL,   \* lifetime of an access token, in ticks
          MaxTime, MaxTokens, \* bounds of the model: no tick or token beyond
          NoUser, NoOrg

ASSUME TimesAreNat == AccessTTL \in Nat /\ MaxTime \in Nat
ASSUME SeedExists == Owner \in Users /\ Home \in Orgs
ASSUME NoneIsNone == NoUser \notin Users /\ NoOrg \notin Orgs

Roles == {"owner", "admin", "user"}
Statuses == {"active", "inactive"}
CanAdminister(r) == r \in {"owner", "admin"}

VARIABLES
  role,   \* users.role, "none" before the registration
  orgs,   \* organizations
  member, \* memberships.status by organization and user, "none" without a row
  tokens, \* access tokens that carry an administrator's role
  req,    \* the requests in progress
  now,    \* the clock
  lost    \* history: when the user ceased to be an administrator

vars == <<role, orgs, member, tokens, req, now, lost>>

\* late is history, of tokens and of the requests that issue them: the role
\* was taken away after it was read.
Token == [user : Users, expires : Nat, late : BOOLEAN]

Stages == {"idle",
           "issue",  \* login or refresh: the account was read
           "admin",  \* past AuthorizeAdmin
           "member"} \* past RequireMembership

Request == [stage : Stages, user : Users \cup {NoUser}, org : Orgs \cup {NoOrg},
            role : Roles \cup {"none"}, late : BOOLEAN]

Idle == [stage |-> "idle", user |-> NoUser, org |-> NoOrg, role |-> "none",
         late |-> FALSE]

\* The review data of sqldb: one owner, one organization, one membership.
Init ==
  /\ role = [u \in Users |-> IF u = Owner THEN "owner" ELSE "none"]
  /\ orgs = {Home}
  /\ member = [o \in Orgs |-> [u \in Users |->
                 IF o = Home /\ u = Owner THEN "active" ELSE "none"]]
  /\ tokens = {}
  /\ req = [p \in Reqs |-> Idle]
  /\ now = 0
  /\ lost = [u \in Users |-> 0]

Becomes(p, r) == req' = [req EXCEPT ![p] = r]
Done(p) == Becomes(p, Idle)

----------------------------------------------------------------------------
(* Tokens.                                                                 *)

\* CreateUser.
Register(p, u) ==
  /\ req[p].stage = "idle"
  /\ role[u] = "none"
  /\ role' = [role EXCEPT ![u] = "user"]
  /\ Becomes(p, [Idle EXCEPT !.stage = "issue", !.user = u, !.role = "user"])
  /\ UNCHANGED <<orgs, member, tokens, now, lost>>

\* Faulty: a refresh keeps the role of the token it replaces.
KeepClaims(p, u) ==
  /\ req[p].stage = "idle"
  /\ role[u] # "none"
  /\ Becomes(p, [Idle EXCEPT !.stage = "issue", !.user = u,
       !.role = IF \E t \in tokens : t.user = u THEN "admin" ELSE role[u]])
  /\ UNCHANGED <<role, orgs, member, tokens, now, lost>>

\* Login and refresh: GetUserByEmail, GetUserByID.
ReadAccount(p, u) ==
  /\ req[p].stage = "idle"
  /\ role[u] # "none"
  /\ Becomes(p, [Idle EXCEPT !.stage = "issue", !.user = u, !.role = role[u]])
  /\ UNCHANGED <<role, orgs, member, tokens, now, lost>>

\* IssuePair copies the role that was read into the token.
IssuePair(p) ==
  /\ req[p].stage = "issue"
  /\ LET u == req[p].user
         token == [user |-> u, expires |-> now + AccessTTL, late |-> req[p].late]
     IN tokens' = IF CanAdminister(req[p].role) THEN tokens \cup {token} ELSE tokens
  /\ Cardinality(tokens') <= MaxTokens
  /\ Done(p)
  /\ UNCHANGED <<role, orgs, member, now, lost>>

\* An expired token is refused from then on, and so forgotten.
Tick ==
  /\ now < MaxTime
  /\ now' = now + 1
  /\ tokens' = {t \in tokens : now' < t.expires}
  /\ UNCHANGED <<role, orgs, member, req, lost>>

----------------------------------------------------------------------------
(* The middleware of the admin routes.                                     *)

\* Authenticate, ParseAccessToken and AuthorizeAdmin look at the token only.
Authenticate(p, t) ==
  /\ req[p].stage = "idle"
  /\ now < t.expires
  /\ Becomes(p, [Idle EXCEPT !.stage = "admin", !.user = t.user])
  /\ UNCHANGED <<role, orgs, member, tokens, now, lost>>

\* Faulty: a membership of any status will do.
RequireAnyMembership(p, o) ==
  /\ req[p].stage = "admin"
  /\ member[o][req[p].user] # "none"
  /\ Becomes(p, [req[p] EXCEPT !.stage = "member", !.org = o])
  /\ UNCHANGED <<role, orgs, member, tokens, now, lost>>

\* ResolveMembership reads an active membership of the path's organization.
RequireMembership(p, o) ==
  /\ req[p].stage = "admin"
  /\ member[o][req[p].user] = "active"
  /\ Becomes(p, [req[p] EXCEPT !.stage = "member", !.org = o])
  /\ UNCHANGED <<role, orgs, member, tokens, now, lost>>

----------------------------------------------------------------------------
(* Handlers of administrators.                                             *)

\* Request q is about to sign a role that r takes away.
Overtaken(q, u, r) ==
  req[q].stage = "issue" /\ req[q].user = u /\ ~CanAdminister(r)

\* setUserRole writes the role whatever it was.
SetUserRole(p, u, r) ==
  /\ req[p].stage = "admin"
  /\ role[u] # "none"
  /\ role' = [role EXCEPT ![u] = r]
  /\ lost' = [lost EXCEPT ![u] =
       IF CanAdminister(role[u]) /\ ~CanAdminister(r) THEN now ELSE @]
  /\ req' = [q \in Reqs |-> IF q = p THEN Idle
                             ELSE [req[q] EXCEPT !.late = @ \/ Overtaken(q, u, r)]]
  /\ UNCHANGED <<orgs, member, tokens, now>>

\* Faulty: the administrator's role is not asked for.
PromoteAnyway(p, u) ==
  /\ role[u] # "none"
  /\ role' = [role EXCEPT ![u] = "admin"]
  /\ UNCHANGED <<orgs, member, tokens, req, now, lost>>

PromoteUserToAdmin(p, u) == SetUserRole(p, u, "admin")
DemoteUserFromAdmin(p, u) == SetUserRole(p, u, "user")

\* Only the row of the organization: its creator is no member of it.
CreateOrganization(p, o) ==
  /\ req[p].stage = "admin"
  /\ o \notin orgs
  /\ orgs' = orgs \cup {o}
  /\ Done(p)
  /\ UNCHANGED <<role, member, tokens, now, lost>>

----------------------------------------------------------------------------
(* Handlers of members.                                                    *)

\* UpdateOrganization, and every other write of this organization's rows.
UpdateOrganization(p) ==
  /\ req[p].stage = "member"
  /\ req[p].org \in orgs
  /\ Done(p)
  /\ UNCHANGED <<role, orgs, member, tokens, now, lost>>

\* The user of the id and the user of the e-mail: two rows if they are two
\* users, none if one of them has a row already.
CreateMembership(p, invited, status) ==
  /\ req[p].stage = "member"
  /\ invited # {} /\ Cardinality(invited) <= 2
  /\ \A u \in invited : role[u] # "none" /\ member[req[p].org][u] = "none"
  /\ member' = [member EXCEPT ![req[p].org] =
       [u \in Users |-> IF u \in invited THEN status ELSE @[u]]]
  /\ Done(p)
  /\ UNCHANGED <<role, orgs, tokens, now, lost>>

UpdateMembership(p, u, status) ==
  /\ req[p].stage = "member"
  /\ member[req[p].org][u] # "none"
  /\ member' = [member EXCEPT ![req[p].org][u] = status]
  /\ Done(p)
  /\ UNCHANGED <<role, orgs, tokens, now, lost>>

\* Faulty: the row stays, with a status of its own.
MarkDeleted(p, u) ==
  /\ req[p].stage = "member"
  /\ member[req[p].org][u] # "none"
  /\ member' = [member EXCEPT ![req[p].org][u] = "deleted"]
  /\ Done(p)
  /\ UNCHANGED <<role, orgs, tokens, now, lost>>

DeleteMembership(p, u) ==
  /\ req[p].stage = "member"
  /\ member[req[p].org][u] # "none"
  /\ member' = [member EXCEPT ![req[p].org][u] = "none"]
  /\ Done(p)
  /\ UNCHANGED <<role, orgs, tokens, now, lost>>

\* A refusal, a statement that fails or a client that is gone.
Fail(p) ==
  /\ req[p].stage # "idle"
  /\ Done(p)
  /\ UNCHANGED <<role, orgs, member, tokens, now, lost>>

----------------------------------------------------------------------------
Sign(p) == IssuePair(p) \/ \E u \in Users : Register(p, u) \/ ReadAccount(p, u)

Check(p) ==
  \/ \E t \in tokens : Authenticate(p, t)
  \/ \E o \in Orgs : RequireMembership(p, o)

Administer(p) ==
  \/ \E u \in Users : PromoteUserToAdmin(p, u) \/ DemoteUserFromAdmin(p, u)
  \/ \E o \in Orgs : CreateOrganization(p, o)

Manage(p) ==
  \/ UpdateOrganization(p)
  \/ \E invited \in SUBSET Users, s \in Statuses : CreateMembership(p, invited, s)
  \/ \E u \in Users, s \in Statuses : UpdateMembership(p, u, s)
  \/ \E u \in Users : DeleteMembership(p, u)

Next == Tick \/ \E p \in Reqs : Sign(p) \/ Check(p) \/ Administer(p) \/ Manage(p) \/ Fail(p)

Spec == Init /\ [][Next]_vars

----------------------------------------------------------------------------
(* Properties.                                                             *)

(* Rows, tokens and requests keep their types. *)
TypeOK ==
  /\ role \in [Users -> Roles \cup {"none"}]
  /\ orgs \subseteq Orgs
  /\ member \in [Orgs -> [Users -> Statuses \cup {"none"}]]
  /\ tokens \subseteq Token
  /\ req \in [Reqs -> Request]
  /\ now \in Nat
  /\ lost \in [Users -> Nat]

(* A role that was taken away is believed for one token lifetime at most: a
   token that still carries it expires by then, however often the account
   refreshes meanwhile.  The exception is a token whose login or refresh read
   the account before the change and signed after it. *)
AdminClaimsFade ==
  \A t \in tokens :
    ~CanAdminister(role[t.user]) => t.late \/ t.expires <= lost[t.user] + AccessTTL

\* No member is active, and nobody is past the check of membership.
Deserted(o) ==
  /\ \A u \in Users : member[o][u] # "active"
  /\ \A p \in Reqs : req[p].stage = "member" => req[p].org # o

(* An organization nobody is an active member of has none ever again: not
   after its last member was removed, nor after CreateOrganization, which
   makes no member.  A request past the check is the only way back. *)
DesertedForGood == [][\A o \in Orgs : Deserted(o) => Deserted(o)']_vars

\* No account administers, no token says so, and no request relies on either.
Leaderless ==
  /\ \A u \in Users : ~CanAdminister(role[u])
  /\ tokens = {}
  /\ \A p \in Reqs : /\ req[p].stage \in {"idle", "issue"}
                     /\ ~CanAdminister(req[p].role)

(* Once the last administrator's role is revoked (anybody may revoke his own)
   and the tokens that remember it have expired, there is no administrator
   ever again. *)
LeaderlessForGood == [][Leaderless => Leaderless']_vars
=============================================================================
