------------------------------ MODULE Sessions ------------------------------
(***************************************************************************)
(* Accounts, refresh tokens and password reset tokens, as the handlers of  *)
(* internal/server and the statements of sqldb change them when requests   *)
(* overlap.  A request is a sequence of steps; between two of them the     *)
(* steps of the other requests happen.  The database runs at READ          *)
(* COMMITTED: an UPDATE waits for the transaction that wrote the row and   *)
(* then looks at the row again; a DELETE deletes, of the rows that were    *)
(* committed when it started, those that are left, and waits for the       *)
(* transactions that wrote them.                                           *)
(*                                                                         *)
(* A password is the number of the changes that led to it, so that proving *)
(* a password is knowing this number.  The tokens that descend from one    *)
(* login by rotation are a session, named by the first of them.            *)
(***************************************************************************)
EXTENDS Naturals, FiniteSets

CONSTANTS Users, Tokens, Resets, Reqs,
          RefreshTTL, ResetTTL, \* lifetimes, in ticks
          MaxTime, MaxChanges,  \* bounds of the model: no tick or change begins beyond
          NoUser, NoToken, NoReset

ASSUME TimesAreNat ==
  /\ RefreshTTL \in Nat /\ ResetTTL \in Nat /\ MaxTime \in Nat /\ MaxChanges \in Nat

VARIABLES users,  \* users.password by user, NoUser before the registration
          tokens, \* refresh_tokens; a row that was deleted stays, as history
          resets, \* password_reset_tokens
          req,    \* the requests in progress
          now,    \* the clock
          burned  \* history: sessions of which a replay was answered

vars == <<users, tokens, resets, req, now, burned>>

\* state, user and expires are the columns; session, proved (the password of
\* the login) and overlap (the session may outlive a deletion, for a token of
\* it was stored while one ran or after a change its login did not see) are
\* history.
TokenRow == [state : {"live", "revoked", "deleted"}, user : Users, expires : Nat,
             session : Tokens, proved : Nat, overlap : BOOLEAN]

ResetRow == [user : Users, expires : Nat, used : BOOLEAN, uses : Nat]

ASSUME NoneIsNone ==
  /\ NoUser \notin Users \cup Nat
  /\ NoToken \notin Tokens \cup TokenRow
  /\ NoReset \notin Resets \cup ResetRow

\* What a request has done so far, and what it has read.
Stages == {"idle",
           "issue",     \* login, registration: the pair is to be stored
           "rotate",    \* refresh: the token was found live
           "retired",   \* the rotation holds the row of the token
           "burn",      \* refresh: the token was found revoked
           "burning",   \* the deletion has started
           "reset",     \* the reset transaction has begun
           "password",  \* the new password is to be written
           "revoke",    \* the transaction holds the user's row
           "revoking"}  \* its deletion of the tokens has started

Request == [stage : Stages, user : Users \cup {NoUser}, token : Tokens \cup {NoToken},
            reset : Resets \cup {NoReset}, proved : Nat, at : Nat,
            seen : SUBSET Tokens]

Idle == [stage |-> "idle", user |-> NoUser, token |-> NoToken, reset |-> NoReset,
         proved |-> 0, at |-> 0, seen |-> {}]

Init ==
  /\ users = [u \in Users |-> NoUser]
  /\ tokens = [t \in Tokens |-> NoToken]
  /\ resets = [r \in Resets |-> NoReset]
  /\ req = [p \in Reqs |-> Idle]
  /\ now = 0
  /\ burned = {}

----------------------------------------------------------------------------
Issued(t)  == tokens[t] # NoToken
Stored(t)  == Issued(t) /\ tokens[t].state # "deleted"
Alive(t)   == Issued(t) /\ tokens[t].state = "live"
TokensOf(u) == {t \in Tokens : Stored(t) /\ tokens[t].user = u}

\* The rows an open transaction has written, which others wait for.
RetiredBy(p, t)  == req[p].stage = "retired" /\ req[p].token = t
ConsumedBy(p, r) == req[p].stage \in {"password", "revoke", "revoking"} /\ req[p].reset = r
WrittenBy(p, u)  == req[p].stage \in {"revoke", "revoking"} /\ req[p].user = u

\* A deletion of u's tokens is in progress.
DeletionOpen(u) ==
  \E p \in Reqs : req[p].stage \in {"burning", "revoking"} /\ req[p].user = u

\* Bound: tokens are left for every request that may need one.
Room ==
  Cardinality({t \in Tokens : ~Issued(t)})
    > Cardinality({p \in Reqs : req[p].stage \in {"issue", "rotate", "retired"}})

Becomes(p, r) == req' = [req EXCEPT ![p] = r]
Done(p) == Becomes(p, Idle)

\* The deletion of the tokens it saw can end: nobody holds one of them.
SeenFree(p) == \A t \in req[p].seen : \A q \in Reqs \ {p} : ~RetiredBy(q, t)

Deleted(seen) ==
  [t \in Tokens |-> IF t \in seen /\ Stored(t)
                    THEN [tokens[t] EXCEPT !.state = "deleted"] ELSE tokens[t]]

----------------------------------------------------------------------------
(* Registration and login: the account is read or created first, the token *)
(* is stored by a statement of its own.                                    *)

\* CreateUser; of two registrations of one e-mail the second is refused.
Register(p, u) ==
  /\ req[p].stage = "idle" /\ Room
  /\ users[u] = NoUser
  /\ users' = [users EXCEPT ![u] = 0]
  /\ Becomes(p, [Idle EXCEPT !.stage = "issue", !.user = u])
  /\ UNCHANGED <<tokens, resets, now, burned>>

\* Faulty: an e-mail nobody has registered logs in.
LoginAnyway(p, u) ==
  /\ req[p].stage = "idle" /\ Room
  /\ Becomes(p, [Idle EXCEPT !.stage = "issue", !.user = u, !.proved = users[u]])
  /\ UNCHANGED <<users, tokens, resets, now, burned>>

\* GetUserByEmail, and the password given is the one read.
Login(p, u) ==
  /\ req[p].stage = "idle" /\ Room
  /\ users[u] # NoUser
  /\ Becomes(p, [Idle EXCEPT !.stage = "issue", !.user = u, !.proved = users[u]])
  /\ UNCHANGED <<users, tokens, resets, now, burned>>

\* CreateRefreshToken: a session starts.
StoreRefreshToken(p, t) ==
  /\ req[p].stage = "issue"
  /\ ~Issued(t)
  /\ LET u == req[p].user
     IN tokens' = [tokens EXCEPT ![t] =
          [state |-> "live", user |-> u, expires |-> now + RefreshTTL,
           session |-> t, proved |-> req[p].proved,
           overlap |-> DeletionOpen(u) \/ req[p].proved # users[u]]]
  /\ Done(p)
  /\ UNCHANGED <<users, resets, now, burned>>

----------------------------------------------------------------------------
(* Refresh.                                                                *)

\* GetRefreshTokenByToken; an expired or unknown token ends the request.
Refresh(p, t) ==
  /\ req[p].stage = "idle"
  /\ Stored(t)
  /\ \/ /\ tokens[t].state = "revoked"
        /\ Becomes(p, [Idle EXCEPT !.stage = "burn", !.user = tokens[t].user])
     \/ /\ tokens[t].state = "live" /\ now <= tokens[t].expires /\ Room
        /\ Becomes(p, [Idle EXCEPT !.stage = "rotate", !.user = tokens[t].user,
                                   !.token = t, !.at = now])
  /\ UNCHANGED <<users, tokens, resets, now, burned>>

\* Faulty: the token is not looked at again.
RetireAgain(p) ==
  /\ req[p].stage = "rotate"
  /\ LET t == req[p].token
     IN /\ \A q \in Reqs : ~RetiredBy(q, t)
        /\ IF Stored(t) THEN Becomes(p, [req[p] EXCEPT !.stage = "retired", !.at = 0]) ELSE Done(p)
  /\ UNCHANGED <<users, tokens, resets, now, burned>>

\* RotateRefreshToken's UPDATE, in a transaction that began between the
\* lookup and now; if it finds no row the request is refused.
Retire(p) ==
  /\ req[p].stage = "rotate"
  /\ LET t == req[p].token
     IN /\ \A q \in Reqs : ~RetiredBy(q, t)
        /\ \E began \in req[p].at .. now :
             IF Alive(t) /\ tokens[t].expires > began
             THEN Becomes(p, [req[p] EXCEPT !.stage = "retired", !.at = 0])
             ELSE Done(p)
  /\ UNCHANGED <<users, tokens, resets, now, burned>>

\* Faulty: the INSERT waits for the user's row.
CommitRotationAfterUser(p, new) ==
  /\ req[p].stage = "retired"
  /\ ~Issued(new)
  /\ \A q \in Reqs : ~WrittenBy(q, req[p].user)
  /\ tokens' = [tokens EXCEPT
                  ![req[p].token].state = "revoked",
                  ![new] = [tokens[req[p].token] EXCEPT !.expires = now + RefreshTTL]]
  /\ Done(p)
  /\ UNCHANGED <<users, resets, now, burned>>

\* Its INSERT and COMMIT: the new token takes the place of the old one.
CommitRotation(p, new) ==
  /\ req[p].stage = "retired"
  /\ ~Issued(new)
  /\ LET old == tokens[req[p].token]
     IN tokens' = [tokens EXCEPT
          ![req[p].token].state = "revoked",
          ![new] = [old EXCEPT !.state = "live", !.expires = now + RefreshTTL,
                               !.overlap = @ \/ DeletionOpen(old.user)]]
  /\ Done(p)
  /\ UNCHANGED <<users, resets, now, burned>>

\* DeleteRefreshTokensByUserID: the rows it will delete are those committed
\* when it starts.
StartBurn(p) ==
  /\ req[p].stage = "burn"
  /\ Becomes(p, [req[p] EXCEPT !.stage = "burning", !.seen = TokensOf(req[p].user)])
  /\ UNCHANGED <<users, tokens, resets, now, burned>>

\* Faulty: only the tokens that are revoked go.
EndBurnOfRevoked(p) ==
  /\ req[p].stage = "burning"
  /\ SeenFree(p)
  /\ tokens' = Deleted({t \in req[p].seen : ~Alive(t)})
  /\ burned' = burned \cup {tokens[t].session : t \in req[p].seen}
  /\ Done(p)
  /\ UNCHANGED <<users, resets, now>>

EndBurn(p) ==
  /\ req[p].stage = "burning"
  /\ SeenFree(p)
  /\ tokens' = Deleted(req[p].seen)
  /\ burned' = burned \cup {tokens[t].session : t \in req[p].seen}
  /\ Done(p)
  /\ UNCHANGED <<users, resets, now>>

----------------------------------------------------------------------------
(* Forgotten and changed passwords.                                        *)

\* CreatePasswordResetToken.
ForgotPassword(u, r) ==
  /\ users[u] # NoUser
  /\ resets[r] = NoReset
  /\ resets' = [resets EXCEPT ![r] = [user |-> u, expires |-> now + ResetTTL,
                                      used |-> FALSE, uses |-> 0]]
  /\ UNCHANGED <<users, tokens, req, now, burned>>

\* ResetPassword begins its transaction.
BeginReset(p, r) ==
  /\ req[p].stage = "idle"
  /\ resets[r] # NoReset
  /\ users[resets[r].user] < MaxChanges
  /\ Becomes(p, [Idle EXCEPT !.stage = "reset", !.user = resets[r].user,
                             !.reset = r, !.at = now])
  /\ UNCHANGED <<users, tokens, resets, now, burned>>

\* Faulty: a token that was used will do.
ConsumeAgain(p) ==
  /\ req[p].stage = "reset"
  /\ LET r == req[p].reset
     IN /\ \A q \in Reqs : ~ConsumedBy(q, r)
        /\ IF resets[r].expires > req[p].at
           THEN Becomes(p, [req[p] EXCEPT !.stage = "password", !.at = 0]) ELSE Done(p)
  /\ UNCHANGED <<users, tokens, resets, now, burned>>

\* Its UPDATE of the reset token; if it finds no row the request is refused.
ConsumeReset(p) ==
  /\ req[p].stage = "reset"
  /\ LET r == req[p].reset
     IN /\ \A q \in Reqs : ~ConsumedBy(q, r)
        /\ IF ~resets[r].used /\ resets[r].expires > req[p].at
           THEN Becomes(p, [req[p] EXCEPT !.stage = "password", !.at = 0]) ELSE Done(p)
  /\ UNCHANGED <<users, tokens, resets, now, burned>>

\* HandlePasswordChange: the current password given is the one read.
ChangePassword(p, u) ==
  /\ req[p].stage = "idle"
  /\ users[u] # NoUser /\ users[u] < MaxChanges
  /\ Becomes(p, [Idle EXCEPT !.stage = "password", !.user = u])
  /\ UNCHANGED <<users, tokens, resets, now, burned>>

\* UPDATE users SET password, in both transactions.
WritePassword(p) ==
  /\ req[p].stage = "password"
  /\ \A q \in Reqs : ~WrittenBy(q, req[p].user)
  /\ Becomes(p, [req[p] EXCEPT !.stage = "revoke"])
  /\ UNCHANGED <<users, tokens, resets, now, burned>>

\* DELETE FROM refresh_tokens starts.
StartRevocation(p) ==
  /\ req[p].stage = "revoke"
  /\ Becomes(p, [req[p] EXCEPT !.stage = "revoking", !.seen = TokensOf(req[p].user)])
  /\ UNCHANGED <<users, tokens, resets, now, burned>>

\* The deletion ends and the transaction commits.
CommitPassword(p) ==
  /\ req[p].stage = "revoking"
  /\ SeenFree(p)
  /\ users' = [users EXCEPT ![req[p].user] = @ + 1]
  /\ tokens' = Deleted(req[p].seen)
  /\ resets' = IF req[p].reset = NoReset THEN resets
               ELSE [resets EXCEPT ![req[p].reset].used = TRUE,
                                   ![req[p].reset].uses = @ + 1]
  /\ Done(p)
  /\ UNCHANGED <<now, burned>>

----------------------------------------------------------------------------
\* A statement fails, or the client is gone: the request ends and what its
\* transaction wrote is rolled back.
Fail(p) ==
  /\ req[p].stage # "idle"
  /\ Done(p)
  /\ UNCHANGED <<users, tokens, resets, now, burned>>

Tick ==
  /\ now < MaxTime
  /\ now' = now + 1
  /\ UNCHANGED <<users, tokens, resets, req, burned>>

\* A request arrives.
Arrive(p) ==
  \/ \E u \in Users : Register(p, u) \/ Login(p, u) \/ ChangePassword(p, u)
  \/ \E t \in Tokens : Refresh(p, t)
  \/ \E r \in Resets : BeginReset(p, r)

\* A request takes its next step.
Proceed(p) ==
  \/ \E t \in Tokens : StoreRefreshToken(p, t) \/ CommitRotation(p, t)
  \/ Retire(p) \/ StartBurn(p) \/ EndBurn(p)
  \/ ConsumeReset(p) \/ WritePassword(p) \/ StartRevocation(p) \/ CommitPassword(p)

Next ==
  \/ \E p \in Reqs : Arrive(p) \/ Proceed(p) \/ Fail(p)
  \/ \E u \in Users, r \in Resets : ForgotPassword(u, r)
  \/ Tick

Spec == Init /\ [][Next]_vars

\* A request takes its next step when it can; one that waits for a row gets
\* it in its turn, as the database queues those who wait.
FairSpec == Spec /\ \A p \in Reqs : SF_vars(Proceed(p))

----------------------------------------------------------------------------
(* Properties.                                                             *)

(* The rows and the requests keep their types. *)
TypeOK ==
  /\ users \in [Users -> Nat \cup {NoUser}]
  /\ tokens \in [Tokens -> TokenRow \cup {NoToken}]
  /\ resets \in [Resets -> ResetRow \cup {NoReset}]
  /\ req \in [Reqs -> Request]
  /\ now \in Nat
  /\ burned \subseteq Tokens

(* A session never forks: of all the refreshes that present its token, at
   whatever moment, one rotates it, so that at most one token of a session
   is live. *)
OneLiveTokenPerSession ==
  \A t1, t2 \in Tokens :
    Alive(t1) /\ Alive(t2) /\ tokens[t1].session = tokens[t2].session => t1 = t2

\* The session of t was to end: the password of its login was changed, or a
\* replay was answered by deleting the user's tokens.
Ended(t) ==
  tokens[t].session \in burned \/ tokens[t].proved < users[tokens[t].user]

(* A live token of a session that a password change, a reset or a replay was
   to end was stored while the deletion ran, or by a login that read the
   account before the change, or descends from such a token: every session
   that nobody is rotating ends for good. *)
SurvivesOnlyByOverlap == \A t \in Tokens : Alive(t) /\ Ended(t) => tokens[t].overlap

(* A reset token changes the password once, however many requests present it
   at a time. *)
ResetUsedOnce == \A r \in Resets : resets[r] # NoReset => resets[r].uses <= 1

(* After a replayed token was answered, none of the sessions the user had
   goes on: what the comment of HandleRefresh says the deletion is for. *)
ReplayEndsEverySession == \A t \in Tokens : Alive(t) => tokens[t].session \notin burned

(* SessionLife, as the rows show it: the token of a session is its live one,
   and the rows that are kept as history tell which tokens were given out. *)
Life == INSTANCE SessionLife WITH
  holder <- [s \in Tokens |-> {t \in Tokens : Alive(t) /\ tokens[t].session = s}],
  owner <- [s \in Tokens |-> IF Issued(s) /\ tokens[s].session = s
                             THEN tokens[s].user ELSE NoUser],
  used <- {t \in Tokens : Issued(t)}

(* The handlers implement it, whatever they overlap with: a session has one
   token and passes it on to a fresh one, starts once, and never comes back
   after a deletion, which ends sessions of one user only. *)
LifeSpec == Life!Spec

(* Every request is answered: no two of the transactions wait for each
   other, whatever rows they hold. *)
EveryRequestEnds == \A p \in Reqs : req[p].stage # "idle" ~> req[p].stage = "idle"
=============================================================================
