--------------------------- MODULE SessionsProofs ---------------------------
(***************************************************************************)
(* Theorems of Sessions, for any number of accounts, tokens, reset tokens  *)
(* and requests, and any lifetimes.                                        *)
(*                                                                         *)
(* The argument is one inductive invariant.  The safety properties speak   *)
(* of the rows; what keeps them is what the requests in progress have read *)
(* and which rows their transactions hold, so the invariant adds to them:  *)
(* what a request refers to exists, the first token of a session has its   *)
(* user, a row has one holder, a held token is live and a held reset token *)
(* unused, and a running deletion has seen every live token of its user    *)
(* but those stored while it ran.                                          *)
(***************************************************************************)
EXTENDS Sessions, TLAPS

Deleting(x) == x.stage \in {"burning", "revoking"}

\* What request x refers to exists.
Grounded(x) ==
  /\ x.stage # "idle" => x.user \in Users /\ users[x.user] \in Nat
  /\ x.stage \in {"rotate", "retired"} => x.token \in Tokens /\ Issued(x.token)
  /\ x.stage = "reset" => x.reset \in Resets
  /\ x.reset \in Resets => resets[x.reset] # NoReset
  /\ \A t \in x.seen : Issued(t) /\ tokens[t].user = x.user

RequestsGrounded == \A p \in Reqs : Grounded(req[p])

\* Tokens and reset tokens belong to an account, sessions to the user of
\* their first token.
TokensSound ==
  /\ \A t \in Tokens : Issued(t) =>
       /\ users[tokens[t].user] \in Nat
       /\ Issued(tokens[t].session) /\ tokens[tokens[t].session].user = tokens[t].user
  /\ \A t \in burned : Issued(t)

OneRetirer ==
  \A p, q \in Reqs, t \in Tokens : RetiredBy(p, t) /\ RetiredBy(q, t) => p = q

HeldIsAlive == \A p \in Reqs, t \in Tokens : RetiredBy(p, t) => Alive(t)

OneConsumer ==
  \A p, q \in Reqs, r \in Resets : ConsumedBy(p, r) /\ ConsumedBy(q, r) => p = q

ResetsSound ==
  /\ \A r \in Resets : resets[r] # NoReset =>
       /\ users[resets[r].user] \in Nat
       /\ resets[r].uses = IF resets[r].used THEN 1 ELSE 0
  /\ \A p \in Reqs, r \in Resets : ConsumedBy(p, r) => ~resets[r].used

\* x, if it deletes, has seen every live token of its user that was not
\* stored while it deleted.
SeesAll(x) ==
  Deleting(x) => \A t \in Tokens : Alive(t) /\ tokens[t].user = x.user /\ t \notin x.seen
                                     => tokens[t].overlap

DeletionsSeeAll == \A p \in Reqs : SeesAll(req[p])

IInv ==
  /\ TypeOK /\ RequestsGrounded /\ TokensSound
  /\ OneRetirer /\ HeldIsAlive /\ OneConsumer /\ ResetsSound
  /\ DeletionsSeeAll
  /\ OneLiveTokenPerSession /\ SurvivesOnlyByOverlap

----------------------------------------------------------------------------
(* Steps that change no row but the requests.                              *)

\* No other request holds the rows that x holds.
HoldsAlone(p, x) ==
  /\ x.stage = "retired" =>
       Alive(x.token) /\ \A q \in Reqs \ {p} : ~RetiredBy(q, x.token)
  /\ x.stage \in {"password", "revoke", "revoking"} /\ x.reset \in Resets =>
       ~resets[x.reset].used /\ \A q \in Reqs \ {p} : ~ConsumedBy(q, x.reset)

\* A request may become anything that fits what the others hold.
LEMMA RequestStep ==
  ASSUME IInv, NEW p \in Reqs, NEW x \in Request, Becomes(p, x),
         UNCHANGED <<users, tokens, resets, burned>>, now' \in Nat,
         Grounded(x), HoldsAlone(p, x), SeesAll(x)
  PROVE  IInv'
<1>1. req' \in [Reqs -> Request] /\ req'[p] = x /\ \A q \in Reqs \ {p} : req'[q] = req[q]
  BY DEF IInv, TypeOK, Becomes
<1>2. TypeOK'
  BY <1>1 DEF IInv, TypeOK
<1>3. RequestsGrounded'
  BY <1>1 DEF IInv, RequestsGrounded, Grounded, Issued
<1>4. TokensSound' /\ OneLiveTokenPerSession' /\ SurvivesOnlyByOverlap'
  BY DEF IInv, TokensSound, OneLiveTokenPerSession, SurvivesOnlyByOverlap,
         Issued, Alive, Ended
<1>5. OneRetirer' /\ HeldIsAlive'
  BY <1>1 DEF IInv, OneRetirer, HeldIsAlive, HoldsAlone, RetiredBy, Alive, Issued
<1>6. OneConsumer' /\ ResetsSound'
  BY <1>1 DEF IInv, OneConsumer, ResetsSound, HoldsAlone, ConsumedBy
<1>7. DeletionsSeeAll'
  BY <1>1 DEF IInv, DeletionsSeeAll, SeesAll, Deleting, Alive, Issued
<1>8. QED
  BY <1>2, <1>3, <1>4, <1>5, <1>6, <1>7 DEF IInv

LEMMA IdleFits ==
  ASSUME IInv, NEW p \in Reqs
  PROVE  Idle \in Request /\ Grounded(Idle) /\ HoldsAlone(p, Idle) /\ SeesAll(Idle)
BY NoneIsNone DEF Idle, Request, Stages, Grounded, HoldsAlone, SeesAll, Deleting

\* A request ends without having changed anything: a refusal or a failure.
LEMMA EndKeeps ==
  ASSUME IInv, NEW p \in Reqs, Done(p), UNCHANGED <<users, tokens, resets, now, burned>>
  PROVE  IInv'
BY IdleFits, RequestStep DEF Done, IInv, TypeOK

LEMMA LoginKeeps ==
  ASSUME IInv, NEW p \in Reqs, NEW u \in Users, Login(p, u)
  PROVE  IInv'
<1> DEFINE x == [Idle EXCEPT !.stage = "issue", !.user = u, !.proved = users[u]]
<1>1. users[u] \in Nat
  BY DEF IInv, TypeOK, Login
<1>2. x \in Request /\ Grounded(x) /\ HoldsAlone(p, x) /\ SeesAll(x)
  BY <1>1, NoneIsNone
     DEF Idle, Request, Stages, Grounded, HoldsAlone, SeesAll, Deleting
<1>3. QED
  BY <1>2, RequestStep DEF Login, IInv, TypeOK

LEMMA RefreshKeeps ==
  ASSUME IInv, NEW p \in Reqs, NEW t \in Tokens, Refresh(p, t)
  PROVE  IInv'
<1>1. tokens[t] \in TokenRow /\ Issued(t) /\ users[tokens[t].user] \in Nat
  BY DEF IInv, TypeOK, Refresh, Stored, Issued, TokensSound
<1>2. CASE Becomes(p, [Idle EXCEPT !.stage = "burn", !.user = tokens[t].user])
  <2> DEFINE x == [Idle EXCEPT !.stage = "burn", !.user = tokens[t].user]
  <2>1. x \in Request /\ Grounded(x) /\ HoldsAlone(p, x) /\ SeesAll(x)
    BY <1>1, NoneIsNone
       DEF TokenRow, Idle, Request, Stages, Grounded, HoldsAlone, SeesAll, Deleting
  <2>2. QED
    BY <1>2, <2>1, RequestStep DEF Refresh, IInv, TypeOK
<1>3. CASE Becomes(p, [Idle EXCEPT !.stage = "rotate", !.user = tokens[t].user,
                                   !.token = t, !.at = now])
  <2> DEFINE x == [Idle EXCEPT !.stage = "rotate", !.user = tokens[t].user,
                               !.token = t, !.at = now]
  <2>1. now \in Nat
    BY DEF IInv, TypeOK
  <2>2. x \in Request /\ Grounded(x) /\ HoldsAlone(p, x) /\ SeesAll(x)
    BY <1>1, <2>1, NoneIsNone
       DEF TokenRow, Idle, Request, Stages, Grounded, HoldsAlone, SeesAll, Deleting
  <2>3. QED
    BY <1>3, <2>1, <2>2, RequestStep DEF Refresh
<1>4. QED
  BY <1>2, <1>3 DEF Refresh

LEMMA RetireKeeps ==
  ASSUME IInv, NEW p \in Reqs, Retire(p)
  PROVE  IInv'
<1> DEFINE x == [req[p] EXCEPT !.stage = "retired", !.at = 0]
<1>1. req[p] \in Request /\ Grounded(req[p]) /\ req[p].stage = "rotate"
  BY DEF IInv, TypeOK, RequestsGrounded, Retire
<1>2. CASE Alive(req[p].token) /\ Becomes(p, x)
  <2>1. x \in Request
    BY <1>1 DEF Request, Stages
  <2>2. Grounded(x)
    BY <1>1, NoneIsNone DEF Grounded, Request
  <2>3. HoldsAlone(p, x) /\ SeesAll(x)
    BY <1>1, <1>2 DEF Retire, Request, HoldsAlone, SeesAll, Deleting
  <2>4. QED
    BY <1>2, <2>1, <2>2, <2>3, RequestStep DEF Retire, IInv, TypeOK
<1>3. CASE Done(p)
  BY <1>3, EndKeeps DEF Retire
<1>4. QED
  BY <1>2, <1>3 DEF Retire

LEMMA StartBurnKeeps ==
  ASSUME IInv, NEW p \in Reqs, StartBurn(p)
  PROVE  IInv'
<1> DEFINE x == [req[p] EXCEPT !.stage = "burning", !.seen = TokensOf(req[p].user)]
<1>1. req[p] \in Request /\ Grounded(req[p]) /\ req[p].stage = "burn"
  BY DEF IInv, TypeOK, RequestsGrounded, StartBurn
<1>2. x \in Request /\ Grounded(x)
  BY <1>1 DEF Request, Stages, Grounded, TokensOf, Stored, Issued
<1>3. HoldsAlone(p, x) /\ SeesAll(x)
  BY <1>1 DEF Request, HoldsAlone, SeesAll, Deleting, TokensOf, Stored, Alive
<1>4. QED
  BY <1>2, <1>3, RequestStep DEF StartBurn, IInv, TypeOK

LEMMA BeginResetKeeps ==
  ASSUME IInv, NEW p \in Reqs, NEW r \in Resets, BeginReset(p, r)
  PROVE  IInv'
<1> DEFINE x == [Idle EXCEPT !.stage = "reset", !.user = resets[r].user,
                             !.reset = r, !.at = now]
<1>1. resets[r] \in ResetRow /\ users[resets[r].user] \in Nat /\ now \in Nat
  BY DEF IInv, TypeOK, ResetsSound, BeginReset
<1>2. x \in Request /\ Grounded(x) /\ HoldsAlone(p, x) /\ SeesAll(x)
  BY <1>1, NoneIsNone
     DEF BeginReset, ResetRow, Idle, Request, Stages, Grounded, HoldsAlone, SeesAll, Deleting
<1>3. QED
  BY <1>1, <1>2, RequestStep DEF BeginReset

LEMMA ConsumeResetKeeps ==
  ASSUME IInv, NEW p \in Reqs, ConsumeReset(p)
  PROVE  IInv'
<1> DEFINE x == [req[p] EXCEPT !.stage = "password", !.at = 0]
<1>1. req[p] \in Request /\ Grounded(req[p]) /\ req[p].stage = "reset"
  BY DEF IInv, TypeOK, RequestsGrounded, ConsumeReset
<1>2. CASE ~resets[req[p].reset].used /\ Becomes(p, x)
  <2>1. x \in Request /\ Grounded(x) /\ SeesAll(x)
    BY <1>1 DEF Request, Stages, Grounded, SeesAll, Deleting
  <2>2. HoldsAlone(p, x)
    BY <1>1, <1>2 DEF ConsumeReset, Request, HoldsAlone
  <2>3. QED
    BY <1>2, <2>1, <2>2, RequestStep DEF ConsumeReset, IInv, TypeOK
<1>3. CASE Done(p)
  BY <1>3, EndKeeps DEF ConsumeReset
<1>4. QED
  BY <1>2, <1>3 DEF ConsumeReset

LEMMA ChangePasswordKeeps ==
  ASSUME IInv, NEW p \in Reqs, NEW u \in Users, ChangePassword(p, u)
  PROVE  IInv'
<1> DEFINE x == [Idle EXCEPT !.stage = "password", !.user = u]
<1>1. users[u] \in Nat
  BY DEF IInv, TypeOK, ChangePassword
<1>2. x \in Request /\ Grounded(x) /\ HoldsAlone(p, x) /\ SeesAll(x)
  BY <1>1, NoneIsNone
     DEF Idle, Request, Stages, Grounded, HoldsAlone, SeesAll, Deleting
<1>3. QED
  BY <1>2, RequestStep DEF ChangePassword, IInv, TypeOK

\* A request that goes on with the reset token it holds.
LEMMA HoldsOn ==
  ASSUME IInv, NEW p \in Reqs, req[p].stage \in {"password", "revoke", "revoking"},
         NEW x \in Request, x.reset = req[p].reset,
         x.stage \in {"password", "revoke", "revoking"}
  PROVE  HoldsAlone(p, x)
<1>1. CASE x.reset \in Resets
  <2>1. ConsumedBy(p, x.reset)
    BY DEF ConsumedBy
  <2>2. ~resets[x.reset].used
    BY <1>1, <2>1 DEF IInv, ResetsSound
  <2>3. \A q \in Reqs \ {p} : ~ConsumedBy(q, x.reset)
    BY <1>1, <2>1 DEF IInv, OneConsumer
  <2>4. QED
    BY <2>2, <2>3 DEF HoldsAlone
<1>2. QED
  BY <1>1 DEF HoldsAlone

LEMMA WritePasswordKeeps ==
  ASSUME IInv, NEW p \in Reqs, WritePassword(p)
  PROVE  IInv'
<1> DEFINE x == [req[p] EXCEPT !.stage = "revoke"]
<1>1. req[p] \in Request /\ Grounded(req[p]) /\ req[p].stage = "password"
  BY DEF IInv, TypeOK, RequestsGrounded, WritePassword
<1>2. x \in Request /\ Grounded(x) /\ SeesAll(x)
  BY <1>1 DEF Request, Stages, Grounded, SeesAll, Deleting
<1>3. HoldsAlone(p, x)
  <2>1. x.stage = "revoke" /\ x.reset = req[p].reset
    BY <1>1 DEF Request
  <2> HIDE DEF x
  <2>2. QED
    BY <1>1, <1>2, <2>1, HoldsOn
<1>4. QED
  BY <1>2, <1>3, RequestStep DEF WritePassword, IInv, TypeOK

LEMMA StartRevocationKeeps ==
  ASSUME IInv, NEW p \in Reqs, StartRevocation(p)
  PROVE  IInv'
<1> DEFINE x == [req[p] EXCEPT !.stage = "revoking", !.seen = TokensOf(req[p].user)]
<1>1. req[p] \in Request /\ Grounded(req[p]) /\ req[p].stage = "revoke"
  BY DEF IInv, TypeOK, RequestsGrounded, StartRevocation
<1>2. x \in Request /\ Grounded(x)
  BY <1>1 DEF Request, Stages, Grounded, TokensOf, Stored, Issued
<1>3. SeesAll(x)
  BY <1>1 DEF Request, SeesAll, Deleting, TokensOf, Stored, Alive
<1>4. HoldsAlone(p, x)
  <2>1. x.stage = "revoking" /\ x.reset = req[p].reset
    BY <1>1 DEF Request
  <2> HIDE DEF x
  <2>2. QED
    BY <1>1, <1>2, <2>1, HoldsOn
<1>5. QED
  BY <1>2, <1>3, <1>4, RequestStep DEF StartRevocation, IInv, TypeOK
----------------------------------------------------------------------------
(* Steps that change rows.  Rows are never taken back, and an account, a   *)
(* token's user and session stay.                                          *)

Lasting ==
  /\ \A u \in Users : users[u] \in Nat => users'[u] \in Nat
  /\ \A t \in Tokens : Issued(t) =>
       /\ Issued(t)'
       /\ tokens'[t].user = tokens[t].user
       /\ tokens'[t].session = tokens[t].session
  /\ \A r \in Resets : resets[r] # NoReset =>
       resets'[r] # NoReset /\ resets'[r].user = resets[r].user

\* The requests that are left stay grounded and hold their rows alone.
LEMMA OthersKeep ==
  ASSUME IInv, NEW p \in Reqs, Done(p), Lasting
  PROVE  /\ req' \in [Reqs -> Request] /\ req'[p] = Idle
         /\ \A q \in Reqs \ {p} : req'[q] = req[q]
         /\ RequestsGrounded' /\ OneRetirer' /\ OneConsumer'
<1>1. req' \in [Reqs -> Request] /\ req'[p] = Idle /\ \A q \in Reqs \ {p} : req'[q] = req[q]
  BY IdleFits DEF IInv, TypeOK, Done, Becomes
<1>2. RequestsGrounded'
  <2> SUFFICES ASSUME NEW q \in Reqs PROVE Grounded(req[q])'
    BY DEF RequestsGrounded
  <2>1. CASE q = p
    BY <1>1, <2>1, NoneIsNone DEF Grounded, Idle
  <2>2. CASE q # p
    <3>1. req'[q] = req[q] /\ req[q] \in Request /\ Grounded(req[q])
      BY <1>1, <2>2 DEF IInv, TypeOK, RequestsGrounded
    <3>2. QED
      BY <3>1 DEF Grounded, Lasting, Request, Issued
  <2>3. QED
    BY <2>1, <2>2
<1>3. OneRetirer' /\ OneConsumer'
  BY <1>1 DEF IInv, OneRetirer, OneConsumer, RetiredBy, ConsumedBy, Idle
<1>4. QED
  BY <1>1, <1>2, <1>3

LEMMA RegisterKeeps ==
  ASSUME IInv, NEW p \in Reqs, NEW u \in Users, Register(p, u)
  PROVE  IInv'
<1> DEFINE x == [Idle EXCEPT !.stage = "issue", !.user = u]
<1>1. /\ x \in Request /\ Becomes(p, x)
      /\ x.stage = "issue" /\ x.user = u /\ x.reset = NoReset /\ x.seen = {}
  BY DEF Register, Idle, Request, Stages
<1> HIDE DEF x
<1>2. req' \in [Reqs -> Request] /\ req'[p] = x /\ \A q \in Reqs \ {p} : req'[q] = req[q]
  BY <1>1 DEF IInv, TypeOK, Becomes
<1>3. users' \in [Users -> Nat \cup {NoUser}] /\ users'[u] = 0
      /\ \A v \in Users \ {u} : users'[v] = users[v]
  BY DEF IInv, TypeOK, Register
<1>4. TypeOK'
  BY <1>2, <1>3 DEF IInv, TypeOK, Register
<1>5. RequestsGrounded'
  BY <1>1, <1>2, <1>3, NoneIsNone DEF Register, IInv, RequestsGrounded, Grounded, Issued
<1>6. TokensSound'
  BY <1>3 DEF Register, IInv, TypeOK, TokenRow, TokensSound, Issued
<1>7. ResetsSound'
  BY <1>1, <1>2, <1>3 DEF Register, IInv, TypeOK, ResetRow, ResetsSound, ConsumedBy
<1>8. OneRetirer' /\ HeldIsAlive' /\ OneConsumer'
  BY <1>1, <1>2 DEF Register, IInv, OneRetirer, HeldIsAlive, OneConsumer, RetiredBy,
                    ConsumedBy, Alive, Issued
<1>9. DeletionsSeeAll'
  BY <1>1, <1>2 DEF Register, IInv, DeletionsSeeAll, SeesAll, Deleting, Alive, Issued
<1>10. OneLiveTokenPerSession'
  BY DEF Register, IInv, OneLiveTokenPerSession, Alive, Issued
<1>11. SurvivesOnlyByOverlap'
  <2> SUFFICES ASSUME NEW t \in Tokens, Alive(t), Ended(t)' PROVE tokens[t].overlap
    BY DEF Register, SurvivesOnlyByOverlap, Alive, Issued
  <2>1. tokens[t] \in TokenRow
    BY DEF IInv, TypeOK, Alive, Issued
  <2>2. tokens[t].proved < users'[tokens[t].user] => tokens[t].user # u
    BY <2>1, <1>3 DEF TokenRow
  <2>3. Ended(t)
    BY <2>1, <2>2, <1>3 DEF Ended, Register, TokenRow
  <2>4. QED
    BY <2>3 DEF IInv, SurvivesOnlyByOverlap
<1>12. QED
  BY <1>4, <1>5, <1>6, <1>7, <1>8, <1>9, <1>10, <1>11 DEF IInv

LEMMA StoreRefreshTokenKeeps ==
  ASSUME IInv, NEW p \in Reqs, NEW t \in Tokens, StoreRefreshToken(p, t)
  PROVE  IInv'
<1> DEFINE u == req[p].user
           row == [state |-> "live", user |-> u, expires |-> now + RefreshTTL,
                   session |-> t, proved |-> req[p].proved,
                   overlap |-> DeletionOpen(u) \/ req[p].proved # users[u]]
<1>1. req[p] \in Request /\ u \in Users /\ users[u] \in Nat /\ ~Issued(t)
  BY DEF IInv, TypeOK, RequestsGrounded, Grounded, StoreRefreshToken
<1>2. row \in TokenRow
  BY <1>1, TimesAreNat DEF IInv, TypeOK, TokenRow, Request, DeletionOpen
<1>3. /\ tokens' \in [Tokens -> TokenRow \cup {NoToken}] /\ tokens'[t] = row
      /\ \A s \in Tokens \ {t} : tokens'[s] = tokens[s]
  BY <1>2 DEF IInv, TypeOK, StoreRefreshToken
<1>4. /\ Issued(t)' /\ Alive(t)'
      /\ \A s \in Tokens \ {t} : (Issued(s)' <=> Issued(s)) /\ (Alive(s)' <=> Alive(s))
  BY <1>2, <1>3, NoneIsNone DEF Issued, Alive
<1>5. Lasting
  BY <1>1, <1>3, <1>4 DEF StoreRefreshToken, Lasting
<1>6. /\ req' \in [Reqs -> Request] /\ req'[p] = Idle
      /\ \A q \in Reqs \ {p} : req'[q] = req[q]
      /\ RequestsGrounded' /\ OneRetirer' /\ OneConsumer'
  BY <1>5, OthersKeep DEF StoreRefreshToken
<1>7. TypeOK'
  BY <1>3, <1>6 DEF StoreRefreshToken, IInv, TypeOK
<1>8. TokensSound'
  BY <1>1, <1>3, <1>4
     DEF StoreRefreshToken, IInv, TypeOK, TokenRow, TokensSound, Issued
<1>9. HeldIsAlive'
  BY <1>1, <1>4, <1>6 DEF IInv, HeldIsAlive, RetiredBy, Alive, Issued, Idle
<1>10. ResetsSound'
  BY <1>6 DEF StoreRefreshToken, IInv, ResetsSound, ConsumedBy, Idle
<1>11. DeletionsSeeAll'
  <2> SUFFICES ASSUME NEW q \in Reqs PROVE SeesAll(req[q])'
    BY DEF DeletionsSeeAll
  <2>1. CASE q = p
    BY <1>6, <2>1 DEF SeesAll, Deleting, Idle
  <2>2. CASE q # p
    <3>1. req'[q] = req[q] /\ SeesAll(req[q])
      BY <1>6, <2>2 DEF IInv, DeletionsSeeAll
    <3>2. Deleting(req[q]) /\ req[q].user = u => row.overlap
      BY DEF DeletionOpen, Deleting
    <3>3. QED
      BY <1>3, <1>4, <3>1, <3>2 DEF SeesAll, Deleting
  <2>3. QED
    BY <2>1, <2>2
<1>12. OneLiveTokenPerSession'
  <2>1. \A s \in Tokens : Alive(s) => tokens[s].session # t
    BY <1>1 DEF IInv, TokensSound, Alive
  <2>2. QED
    BY <1>3, <1>4, <2>1 DEF IInv, OneLiveTokenPerSession
<1>13. SurvivesOnlyByOverlap'
  <2>1. t \notin burned
    BY <1>1 DEF IInv, TokensSound
  <2>2. Ended(t)' => row.overlap
    <3>1. /\ tokens'[t].session = t /\ tokens'[t].user = u
          /\ tokens'[t].proved = req[p].proved /\ users' = users /\ burned' = burned
      BY <1>3 DEF StoreRefreshToken
    <3>2. req[p].proved < users[u] => req[p].proved # users[u]
      BY <1>1 DEF Request
    <3>3. QED
      BY <2>1, <3>1, <3>2 DEF Ended
  <2>3. \A s \in Tokens \ {t} : Ended(s)' <=> Ended(s)
    BY <1>3 DEF Ended, StoreRefreshToken
  <2>4. QED
    BY <1>3, <1>4, <2>2, <2>3 DEF IInv, SurvivesOnlyByOverlap
<1>14. QED
  BY <1>6, <1>7, <1>8, <1>9, <1>10, <1>11, <1>12, <1>13 DEF IInv

LEMMA CommitRotationKeeps ==
  ASSUME IInv, NEW p \in Reqs, NEW new \in Tokens, CommitRotation(p, new)
  PROVE  IInv'
<1>0. PICK t \in Tokens : t = req[p].token
  BY DEF IInv, TypeOK, RequestsGrounded, Grounded, CommitRotation
<1> DEFINE u   == tokens[t].user
           row == [tokens[t] EXCEPT !.state = "live", !.expires = now + RefreshTTL,
                                    !.overlap = @ \/ DeletionOpen(u)]
<1>1. /\ req[p] \in Request /\ req[p].stage = "retired" /\ RetiredBy(p, t)
      /\ tokens[t] \in TokenRow /\ Alive(t) /\ Issued(t)
      /\ ~Issued(new) /\ new # t
  BY <1>0 DEF IInv, TypeOK, RequestsGrounded, Grounded, HeldIsAlive, RetiredBy,
              CommitRotation, Issued, Alive
<1>2. /\ row \in TokenRow /\ row.state = "live" /\ row.user = u
      /\ row.session = tokens[t].session /\ row.proved = tokens[t].proved
      /\ row.overlap <=> tokens[t].overlap \/ DeletionOpen(u)
  <2>1. now + RefreshTTL \in Nat
    BY TimesAreNat DEF IInv, TypeOK
  <2>2. (tokens[t].overlap \/ DeletionOpen(u)) \in BOOLEAN
    BY DEF DeletionOpen
  <2>3. QED
    BY <1>1, <2>1, <2>2 DEF TokenRow
<1> HIDE DEF row
<1>3. /\ tokens' \in [Tokens -> TokenRow \cup {NoToken}] /\ tokens'[new] = row
      /\ tokens'[t] = [tokens[t] EXCEPT !.state = "revoked"]
      /\ \A s \in Tokens \ {t, new} : tokens'[s] = tokens[s]
  <2> DEFINE old == [tokens[t] EXCEPT !.state = "revoked"]
  <2>1. old \in TokenRow
    BY <1>1 DEF TokenRow
  <2>2. tokens' = [tokens EXCEPT ![t] = old, ![new] = row]
    BY <1>0, <1>1 DEF CommitRotation, row
  <2>3. tokens \in [Tokens -> TokenRow \cup {NoToken}]
    BY DEF IInv, TypeOK
  <2>4. QED
    BY <1>1, <1>2, <2>1, <2>2, <2>3
<1>4. /\ tokens'[t] \in TokenRow /\ tokens'[t].user = u /\ tokens'[t].state = "revoked"
      /\ tokens'[t].session = tokens[t].session
  BY <1>1, <1>3 DEF TokenRow
<1>5. /\ Issued(new)' /\ Alive(new)' /\ Issued(t)' /\ ~Alive(t)'
      /\ \A s \in Tokens \ {t, new} : (Issued(s)' <=> Issued(s)) /\ (Alive(s)' <=> Alive(s))
  BY <1>2, <1>3, <1>4, NoneIsNone DEF Issued, Alive
<1>6. Lasting
  BY <1>1, <1>3, <1>4, <1>5 DEF CommitRotation, Lasting
<1>7. /\ req' \in [Reqs -> Request] /\ req'[p] = Idle
      /\ \A q \in Reqs \ {p} : req'[q] = req[q]
      /\ RequestsGrounded' /\ OneRetirer' /\ OneConsumer'
  BY <1>6, OthersKeep DEF CommitRotation
<1>8. TypeOK'
  BY <1>3, <1>7 DEF CommitRotation, IInv, TypeOK
<1>9. TokensSound'
  <2>1. burned' = burned /\ users' = users
    BY DEF CommitRotation
  <2>2. \A s \in Tokens : Issued(s)' =>
          \E old \in Tokens : /\ Issued(old) /\ tokens'[s].user = tokens[old].user
                              /\ tokens'[s].session = tokens[old].session
    BY <1>1, <1>2, <1>3, <1>4, <1>5
  <2>3. \A s \in Tokens : Issued(s) => tokens[s] \in TokenRow
    BY DEF IInv, TypeOK, Issued
  <2>4. \A s \in burned : s \in Tokens
    BY DEF IInv, TypeOK
  <2>5. QED
    BY <1>6, <2>1, <2>2, <2>3, <2>4 DEF IInv, TokensSound, Lasting, TokenRow
<1>10. HeldIsAlive'
  <2> SUFFICES ASSUME NEW q \in Reqs, NEW s \in Tokens, RetiredBy(q, s)' PROVE Alive(s)'
    BY DEF HeldIsAlive
  <2>1. q # p /\ RetiredBy(q, s)
    BY <1>7 DEF RetiredBy, Idle
  <2>2. s # t /\ Alive(s)
    BY <1>1, <2>1 DEF IInv, OneRetirer, HeldIsAlive, RetiredBy
  <2>3. QED
    BY <1>5, <2>2
<1>11. ResetsSound'
  BY <1>7 DEF CommitRotation, IInv, ResetsSound, ConsumedBy, Idle
<1>12. DeletionsSeeAll'
  <2> SUFFICES ASSUME NEW q \in Reqs PROVE SeesAll(req[q])'
    BY DEF DeletionsSeeAll
  <2>1. CASE q = p
    BY <1>7, <2>1 DEF SeesAll, Deleting, Idle
  <2>2. CASE q # p
    <3>1. req'[q] = req[q] /\ SeesAll(req[q])
      BY <1>7, <2>2 DEF IInv, DeletionsSeeAll
    <3>2. Deleting(req[q]) /\ req[q].user = u => row.overlap
      BY <1>2 DEF DeletionOpen, Deleting
    <3>3. QED
      BY <1>2, <1>3, <1>5, <3>1, <3>2 DEF SeesAll, Deleting
  <2>3. QED
    BY <2>1, <2>2
<1>13. OneLiveTokenPerSession'
  BY <1>1, <1>2, <1>3, <1>5 DEF IInv, OneLiveTokenPerSession
<1>14. SurvivesOnlyByOverlap'
  <2>1. Ended(new)' => Ended(t)
    <3>1. /\ tokens'[new].session = tokens[t].session /\ tokens'[new].user = tokens[t].user
          /\ tokens'[new].proved = tokens[t].proved /\ users' = users /\ burned' = burned
      BY <1>2, <1>3 DEF CommitRotation
    <3>2. QED
      BY <3>1 DEF Ended
  <2>2. \A s \in Tokens \ {t, new} : Ended(s)' <=> Ended(s)
    BY <1>3 DEF Ended, CommitRotation
  <2> SUFFICES ASSUME NEW s \in Tokens, Alive(s)', Ended(s)' PROVE tokens'[s].overlap
    BY DEF SurvivesOnlyByOverlap
  <2>0. \A x \in Tokens : Alive(x) /\ Ended(x) => tokens[x].overlap
    BY DEF IInv, SurvivesOnlyByOverlap
  <2>3. CASE s = new
    BY <1>1, <1>2, <1>3, <2>0, <2>1, <2>3
  <2>4. CASE s \in Tokens \ {t, new}
    BY <1>3, <1>5, <2>0, <2>2, <2>4
  <2>5. QED
    BY <1>5, <2>3, <2>4
<1>15. QED
  BY <1>7, <1>8, <1>9, <1>10, <1>11, <1>12, <1>13, <1>14 DEF IInv

LEMMA ForgotPasswordKeeps ==
  ASSUME IInv, NEW u \in Users, NEW r \in Resets, ForgotPassword(u, r)
  PROVE  IInv'
<1> DEFINE row == [user |-> u, expires |-> now + ResetTTL, used |-> FALSE, uses |-> 0]
<1>1. row \in ResetRow /\ users[u] \in Nat
  BY TimesAreNat DEF IInv, TypeOK, ResetRow, ForgotPassword
<1>2. /\ resets' \in [Resets -> ResetRow \cup {NoReset}] /\ resets'[r] = row
      /\ \A x \in Resets \ {r} : resets'[x] = resets[x]
  BY <1>1 DEF IInv, TypeOK, ForgotPassword
<1>3. TypeOK'
  BY <1>2 DEF ForgotPassword, IInv, TypeOK
<1>4. RequestsGrounded'
  BY <1>1, <1>2, NoneIsNone DEF ForgotPassword, IInv, RequestsGrounded, Grounded, Issued
<1>5. ResetsSound'
  BY <1>1, <1>2 DEF ForgotPassword, IInv, ResetsSound, ConsumedBy
<1>6. /\ TokensSound' /\ OneRetirer' /\ HeldIsAlive' /\ OneConsumer' /\ DeletionsSeeAll'
      /\ OneLiveTokenPerSession' /\ SurvivesOnlyByOverlap'
  BY DEF ForgotPassword, IInv, TokensSound, OneRetirer, HeldIsAlive, OneConsumer,
         DeletionsSeeAll, SeesAll, Deleting, OneLiveTokenPerSession, SurvivesOnlyByOverlap,
         RetiredBy, ConsumedBy, Ended, Alive, Issued
<1>7. QED
  BY <1>3, <1>4, <1>5, <1>6 DEF IInv

\* The clock concerns no part of the invariant but its type.
LEMMA TickKeeps ==
  ASSUME IInv, Tick
  PROVE  IInv'
<1>1. TypeOK'
  BY DEF Tick, IInv, TypeOK
<1>2. /\ RequestsGrounded' /\ TokensSound' /\ OneRetirer' /\ HeldIsAlive' /\ OneConsumer'
      /\ ResetsSound' /\ DeletionsSeeAll' /\ OneLiveTokenPerSession' /\ SurvivesOnlyByOverlap'
  BY DEF Tick, IInv, RequestsGrounded, Grounded, TokensSound, OneRetirer, HeldIsAlive,
         OneConsumer, ResetsSound, DeletionsSeeAll, SeesAll, Deleting,
         OneLiveTokenPerSession, SurvivesOnlyByOverlap,
         RetiredBy, ConsumedBy, Ended, Alive, Issued
<1>3. QED
  BY <1>1, <1>2 DEF IInv

----------------------------------------------------------------------------
(* The two deletions.                                                      *)

\* What a deletion leaves: no row is changed but those it saw, and of those
\* only the state.
LEMMA DeletedRows ==
  ASSUME IInv, NEW p \in Reqs, Deleting(req[p]), SeenFree(p),
         tokens' = Deleted(req[p].seen)
  PROVE  /\ tokens' \in [Tokens -> TokenRow \cup {NoToken}]
         /\ \A t \in Tokens :
              /\ Issued(t)' <=> Issued(t)
              /\ Issued(t) => /\ tokens'[t].user = tokens[t].user
                              /\ tokens'[t].session = tokens[t].session
                              /\ tokens'[t].proved = tokens[t].proved
                              /\ tokens'[t].overlap = tokens[t].overlap
              /\ Alive(t)' <=> Alive(t) /\ t \notin req[p].seen
<1>1. tokens' = [t \in Tokens |-> tokens'[t]]
  BY DEF Deleted
<1>2. ASSUME NEW t \in Tokens
      PROVE  /\ tokens'[t] \in TokenRow \cup {NoToken}
             /\ Issued(t)' <=> Issued(t)
             /\ Issued(t) => /\ tokens'[t].user = tokens[t].user
                             /\ tokens'[t].session = tokens[t].session
                             /\ tokens'[t].proved = tokens[t].proved
                             /\ tokens'[t].overlap = tokens[t].overlap
             /\ Alive(t)' <=> Alive(t) /\ t \notin req[p].seen
  <2>1. tokens[t] \in TokenRow \cup {NoToken}
    BY DEF IInv, TypeOK
  <2>2. CASE t \in req[p].seen /\ Stored(t)
    <3>1. tokens'[t] = [tokens[t] EXCEPT !.state = "deleted"] /\ tokens[t] \in TokenRow
      BY <2>1, <2>2 DEF Deleted, Stored, Issued
    <3>2. QED
      BY <2>2, <3>1, NoneIsNone DEF TokenRow, Stored, Issued, Alive
  <2>3. CASE ~(t \in req[p].seen /\ Stored(t))
    <3>1. tokens'[t] = tokens[t]
      BY <2>3 DEF Deleted
    <3>2. QED
      BY <2>1, <2>3, <3>1 DEF Stored, Issued, Alive
  <2>4. QED
    BY <2>2, <2>3
<1>3. QED
  BY <1>1, <1>2

\* What the two deletions have in common.
LEMMA DeletionKeeps ==
  ASSUME IInv, NEW p \in Reqs, Deleting(req[p]), SeenFree(p),
         tokens' = Deleted(req[p].seen), Done(p), Lasting,
         \A t \in burned' : t \in burned \/ \E s \in req[p].seen : t = tokens[s].session
  PROVE  /\ RequestsGrounded' /\ TokensSound' /\ OneRetirer' /\ HeldIsAlive'
         /\ OneConsumer' /\ DeletionsSeeAll' /\ OneLiveTokenPerSession'
<1>1. /\ tokens' \in [Tokens -> TokenRow \cup {NoToken}]
      /\ \A t \in Tokens :
           /\ Issued(t)' <=> Issued(t)
           /\ Issued(t) => /\ tokens'[t].user = tokens[t].user
                           /\ tokens'[t].session = tokens[t].session
                           /\ tokens'[t].proved = tokens[t].proved
                           /\ tokens'[t].overlap = tokens[t].overlap
           /\ Alive(t)' <=> Alive(t) /\ t \notin req[p].seen
  BY DeletedRows
<1>2. /\ req' \in [Reqs -> Request] /\ req'[p] = Idle
      /\ \A q \in Reqs \ {p} : req'[q] = req[q]
      /\ RequestsGrounded' /\ OneRetirer' /\ OneConsumer'
  BY OthersKeep
<1>3. \A t \in req[p].seen : t \in Tokens /\ Issued(t)
  BY DEF IInv, TypeOK, Request, RequestsGrounded, Grounded
<1>4. TokensSound'
  <2>1. \A t \in Tokens : Issued(t) => tokens[t].user \in Users /\ tokens[t].session \in Tokens
    BY DEF IInv, TypeOK, Issued, TokenRow
  <2>2. \A t \in burned : t \in Tokens
    BY DEF IInv, TypeOK
  <2>3. QED
    BY <1>1, <1>3, <2>1, <2>2 DEF IInv, TokensSound, Lasting
<1>5. HeldIsAlive'
  <2> SUFFICES ASSUME NEW q \in Reqs, NEW t \in Tokens, RetiredBy(q, t)' PROVE Alive(t)'
    BY DEF HeldIsAlive
  <2>1. q # p /\ RetiredBy(q, t)
    BY <1>2 DEF RetiredBy, Idle
  <2>2. Alive(t) /\ t \notin req[p].seen
    BY <2>1 DEF IInv, HeldIsAlive, SeenFree
  <2>3. QED
    BY <1>1, <2>2
<1>6. DeletionsSeeAll'
  <2> SUFFICES ASSUME NEW q \in Reqs PROVE SeesAll(req[q])'
    BY DEF DeletionsSeeAll
  <2>1. CASE q = p
    BY <1>2, <2>1 DEF SeesAll, Deleting, Idle
  <2>2. CASE q # p
    <3>1. req'[q] = req[q] /\ SeesAll(req[q])
      BY <1>2, <2>2 DEF IInv, DeletionsSeeAll
    <3>2. \A t \in Tokens : Alive(t)' => Alive(t) /\ Issued(t)
      BY <1>1 DEF Alive
    <3>3. QED
      BY <1>1, <3>1, <3>2 DEF SeesAll, Deleting
  <2>3. QED
    BY <2>1, <2>2
<1>7. OneLiveTokenPerSession'
  <2>1. \A t \in Tokens : Alive(t)' => Alive(t) /\ Issued(t)
    BY <1>1 DEF Alive
  <2>2. QED
    BY <1>1, <2>1 DEF IInv, OneLiveTokenPerSession
<1>8. QED
  BY <1>2, <1>4, <1>5, <1>6, <1>7

LEMMA EndBurnKeeps ==
  ASSUME IInv, NEW p \in Reqs, EndBurn(p)
  PROVE  IInv'
<1>1. Deleting(req[p]) /\ SeenFree(p) /\ tokens' = Deleted(req[p].seen) /\ Done(p)
  BY DEF EndBurn, Deleting
<1>2. /\ tokens' \in [Tokens -> TokenRow \cup {NoToken}]
      /\ \A t \in Tokens :
           /\ Issued(t)' <=> Issued(t)
           /\ Issued(t) => /\ tokens'[t].user = tokens[t].user
                           /\ tokens'[t].session = tokens[t].session
                           /\ tokens'[t].proved = tokens[t].proved
                           /\ tokens'[t].overlap = tokens[t].overlap
           /\ Alive(t)' <=> Alive(t) /\ t \notin req[p].seen
  BY <1>1, DeletedRows
<1>3. Lasting
  BY <1>2 DEF Lasting, EndBurn
<1>4. \A t \in burned' : t \in burned \/ \E s \in req[p].seen : t = tokens[s].session
  BY DEF EndBurn
<1>5. /\ RequestsGrounded' /\ TokensSound' /\ OneRetirer' /\ HeldIsAlive'
      /\ OneConsumer' /\ DeletionsSeeAll' /\ OneLiveTokenPerSession'
  BY <1>1, <1>3, <1>4, DeletionKeeps
<1>6. /\ req' \in [Reqs -> Request] /\ req'[p] = Idle
      /\ \A q \in Reqs \ {p} : req'[q] = req[q]
  BY <1>1, <1>3, OthersKeep
<1>7. \A s \in req[p].seen : s \in Tokens /\ Issued(s) /\ tokens[s].user = req[p].user
                              /\ tokens[s] \in TokenRow
  BY DEF IInv, TypeOK, Request, RequestsGrounded, Grounded, Issued
<1>8. TypeOK'
  BY <1>2, <1>4, <1>6, <1>7 DEF EndBurn, IInv, TypeOK, TokenRow
<1>9. ResetsSound'
  BY <1>6 DEF EndBurn, IInv, ResetsSound, ConsumedBy, Idle
<1>10. SurvivesOnlyByOverlap'
  <2> SUFFICES ASSUME NEW t \in Tokens, Alive(t)', Ended(t)' PROVE tokens'[t].overlap
    BY DEF SurvivesOnlyByOverlap
  <2>1. Alive(t) /\ Issued(t) /\ t \notin req[p].seen
    BY <1>2 DEF Alive
  <2>2. CASE Ended(t)
    BY <1>2, <2>1, <2>2 DEF IInv, SurvivesOnlyByOverlap
  <2>3. CASE ~Ended(t)
    \* The session was burned now: the deletion saw another token of it.
    <3>1. tokens[t].session \in burned' /\ tokens[t].session \notin burned
      BY <1>2, <2>1, <2>3 DEF Ended, EndBurn
    <3>2. PICK s \in req[p].seen : tokens[t].session = tokens[s].session
      BY <1>4, <3>1
    <3>3. tokens[t].user = req[p].user
      BY <1>7, <2>1, <3>2 DEF IInv, TokensSound
    <3>4. tokens[t].overlap
      BY <1>1, <2>1, <3>3 DEF IInv, DeletionsSeeAll, SeesAll
    <3>5. QED
      BY <1>2, <2>1, <3>4
  <2>4. QED
    BY <2>2, <2>3
<1>11. QED
  BY <1>5, <1>8, <1>9, <1>10 DEF IInv

LEMMA CommitPasswordKeeps ==
  ASSUME IInv, NEW p \in Reqs, CommitPassword(p)
  PROVE  IInv'
<1>1. /\ Deleting(req[p]) /\ SeenFree(p) /\ tokens' = Deleted(req[p].seen) /\ Done(p)
      /\ req[p].stage = "revoking"
  BY DEF CommitPassword, Deleting
<1>2. req[p] \in Request /\ Grounded(req[p])
  BY DEF IInv, TypeOK, RequestsGrounded
<1>3. PICK u \in Users : u = req[p].user /\ users[u] \in Nat
  BY <1>1, <1>2 DEF Grounded
<1>4. /\ users' \in [Users -> Nat \cup {NoUser}] /\ users'[u] = users[u] + 1
      /\ \A v \in Users \ {u} : users'[v] = users[v]
  BY <1>3 DEF IInv, TypeOK, CommitPassword
<1>5. /\ tokens' \in [Tokens -> TokenRow \cup {NoToken}]
      /\ \A t \in Tokens :
           /\ Issued(t)' <=> Issued(t)
           /\ Issued(t) => /\ tokens'[t].user = tokens[t].user
                           /\ tokens'[t].session = tokens[t].session
                           /\ tokens'[t].proved = tokens[t].proved
                           /\ tokens'[t].overlap = tokens[t].overlap
           /\ Alive(t)' <=> Alive(t) /\ t \notin req[p].seen
  BY <1>1, DeletedRows
<1>6. /\ resets' \in [Resets -> ResetRow \cup {NoReset}]
      /\ \A r \in Resets \ {req[p].reset} : resets'[r] = resets[r]
      /\ req[p].reset \in Resets =>
           /\ resets[req[p].reset] # NoReset
           /\ resets'[req[p].reset].user = resets[req[p].reset].user
           /\ resets'[req[p].reset].used /\ resets'[req[p].reset].uses = 1
           /\ resets'[req[p].reset] # NoReset
  <2>1. resets \in [Resets -> ResetRow \cup {NoReset}]
    BY DEF IInv, TypeOK
  <2>2. CASE req[p].reset \notin Resets
    BY <1>2, <2>1, <2>2 DEF CommitPassword, Request
  <2>3. CASE req[p].reset \in Resets
    <3>1. PICK r \in Resets : r = req[p].reset
      BY <2>3
    <3>2. /\ resets[r] \in ResetRow /\ resets[r] # NoReset
          /\ ~resets[r].used /\ resets[r].uses = 0
      BY <1>1, <1>2, <2>1, <3>1 DEF Grounded, IInv, ResetsSound, ConsumedBy
    <3> DEFINE row == [resets[r] EXCEPT !.used = TRUE, !.uses = @ + 1]
    <3>3. row \in ResetRow /\ row.used /\ row.uses = 1 /\ row.user = resets[r].user
      <4>1. resets[r].uses + 1 = 1
        BY <3>2
      <4>2. row = [resets[r] EXCEPT !.used = TRUE, !.uses = 1]
        BY <4>1
      <4> HIDE DEF row
      <4>3. QED
        BY <3>2, <4>2 DEF ResetRow
    <3>4. resets' = [resets EXCEPT ![r] = row]
      BY <3>1, <3>2, NoneIsNone DEF CommitPassword
    <3> HIDE DEF row
    <3>5. QED
      BY <2>1, <3>1, <3>2, <3>3, <3>4, NoneIsNone
  <2>4. QED
    BY <2>2, <2>3
<1>7. Lasting
  BY <1>3, <1>4, <1>5, <1>6 DEF Lasting
<1>8. /\ RequestsGrounded' /\ TokensSound' /\ OneRetirer' /\ HeldIsAlive'
      /\ OneConsumer' /\ DeletionsSeeAll' /\ OneLiveTokenPerSession'
  BY <1>1, <1>7, DeletionKeeps DEF CommitPassword
<1>9. /\ req' \in [Reqs -> Request] /\ req'[p] = Idle
      /\ \A q \in Reqs \ {p} : req'[q] = req[q]
  BY <1>1, <1>7, OthersKeep
<1>10. TypeOK'
  BY <1>4, <1>5, <1>6, <1>9 DEF CommitPassword, IInv, TypeOK
<1>11. ResetsSound'
  <2>1. ASSUME NEW r \in Resets, resets'[r] # NoReset
        PROVE  users'[resets'[r].user] \in Nat
               /\ resets'[r].uses = IF resets'[r].used THEN 1 ELSE 0
    <3>1. resets[r] # NoReset /\ resets'[r].user = resets[r].user
      BY <1>6, <2>1
    <3>2. users[resets[r].user] \in Nat /\ resets[r].user \in Users
      BY <3>1 DEF IInv, TypeOK, ResetsSound, ResetRow
    <3>3. QED
      BY <1>6, <1>7, <2>1, <3>1, <3>2 DEF Lasting, IInv, ResetsSound
  <2>2. ASSUME NEW q \in Reqs, NEW r \in Resets, ConsumedBy(q, r)'
        PROVE  ~resets'[r].used
    <3>1. q # p /\ ConsumedBy(q, r)
      BY <1>9, <2>2 DEF ConsumedBy, Idle
    <3>2. r # req[p].reset
      BY <1>1, <3>1 DEF IInv, OneConsumer, ConsumedBy
    <3>3. QED
      BY <1>6, <3>1, <3>2 DEF IInv, ResetsSound
  <2>3. QED
    BY <2>1, <2>2 DEF ResetsSound
<1>12. SurvivesOnlyByOverlap'
  <2> SUFFICES ASSUME NEW t \in Tokens, Alive(t)', Ended(t)' PROVE tokens'[t].overlap
    BY DEF SurvivesOnlyByOverlap
  <2>1. Alive(t) /\ Issued(t) /\ t \notin req[p].seen
    BY <1>5 DEF Alive
  <2>2. CASE Ended(t)
    BY <1>5, <2>1, <2>2 DEF IInv, SurvivesOnlyByOverlap
  <2>3. CASE ~Ended(t)
    \* The password of the token's user is the one that changes.
    <3>1. tokens[t] \in TokenRow
      BY <2>1 DEF IInv, TypeOK, Issued
    <3>2. tokens[t].proved < users'[tokens[t].user]
      BY <1>5, <2>1, <2>3 DEF Ended, CommitPassword
    <3>3. tokens[t].user = u
      BY <1>4, <2>3, <3>1, <3>2 DEF Ended, TokenRow
    <3>4. tokens[t].overlap
      BY <1>1, <1>3, <2>1, <3>3 DEF IInv, DeletionsSeeAll, SeesAll
    <3>5. QED
      BY <1>5, <2>1, <3>4
  <2>4. QED
    BY <2>2, <2>3
<1>13. QED
  BY <1>8, <1>10, <1>11, <1>12 DEF IInv

----------------------------------------------------------------------------
(* The theorems.                                                           *)

LEMMA InitHolds == Init => IInv
<1> SUFFICES ASSUME Init PROVE IInv
  OBVIOUS
<1>1. TypeOK
  BY NoneIsNone DEF Init, TypeOK, Idle, Request, Stages
<1>2. /\ RequestsGrounded /\ TokensSound /\ OneRetirer /\ HeldIsAlive /\ OneConsumer
      /\ ResetsSound /\ DeletionsSeeAll /\ OneLiveTokenPerSession /\ SurvivesOnlyByOverlap
  BY NoneIsNone DEF Init, Idle, RequestsGrounded, Grounded, TokensSound, OneRetirer,
       HeldIsAlive, OneConsumer, ResetsSound, DeletionsSeeAll, SeesAll, Deleting,
       OneLiveTokenPerSession, SurvivesOnlyByOverlap, RetiredBy, ConsumedBy, Alive, Issued
<1>3. QED
  BY <1>1, <1>2 DEF IInv

LEMMA NextKeeps == IInv /\ [Next]_vars => IInv'
<1> SUFFICES ASSUME IInv, [Next]_vars PROVE IInv'
  OBVIOUS
<1>1. CASE UNCHANGED vars
  BY <1>1 DEF vars, IInv, TypeOK, RequestsGrounded, Grounded, TokensSound, OneRetirer,
       HeldIsAlive, OneConsumer, ResetsSound, DeletionsSeeAll, SeesAll, Deleting,
       OneLiveTokenPerSession, SurvivesOnlyByOverlap, RetiredBy, ConsumedBy, Ended,
       Alive, Issued
<1>2. ASSUME NEW p \in Reqs, Arrive(p) PROVE IInv'
  BY <1>2, RegisterKeeps, LoginKeeps, ChangePasswordKeeps, RefreshKeeps, BeginResetKeeps
     DEF Arrive
<1>3. ASSUME NEW p \in Reqs, Proceed(p) PROVE IInv'
  BY <1>3, StoreRefreshTokenKeeps, CommitRotationKeeps, RetireKeeps, StartBurnKeeps,
     EndBurnKeeps, ConsumeResetKeeps, WritePasswordKeeps, StartRevocationKeeps,
     CommitPasswordKeeps
     DEF Proceed
<1>4. ASSUME NEW p \in Reqs, Fail(p) PROVE IInv'
  BY <1>4, EndKeeps DEF Fail
<1>5. ASSUME NEW u \in Users, NEW r \in Resets, ForgotPassword(u, r) PROVE IInv'
  BY <1>5, ForgotPasswordKeeps
<1>6. CASE Tick
  BY <1>6, TickKeeps
<1>7. QED
  BY <1>1, <1>2, <1>3, <1>4, <1>5, <1>6 DEF Next

(* The invariant holds in every state, whatever the requests do and in
   whatever order. *)
THEOREM Invariance == Spec => []IInv
BY InitHolds, NextKeeps, PTL DEF Spec

(* The rows and the requests keep their types. *)
THEOREM TypeCorrect == Spec => []TypeOK
<1>1. IInv => TypeOK
  BY DEF IInv
<1>2. QED
  BY <1>1, Invariance, PTL

(* RotateRefreshToken never forks a session: at any time at most one of the
   tokens that descend from one login is live. *)
THEOREM SessionsNeverFork == Spec => []OneLiveTokenPerSession
<1>1. IInv => OneLiveTokenPerSession
  BY DEF IInv
<1>2. QED
  BY <1>1, Invariance, PTL

(* ResetPassword changes the password at most once for each reset token. *)
THEOREM ResetsWorkOnce == Spec => []ResetUsedOnce
<1>1. IInv => ResetUsedOnce
  BY DEF IInv, TypeOK, ResetRow, ResetsSound, ResetUsedOnce
<1>2. QED
  BY <1>1, Invariance, PTL

(* A session that a password change, a reset or a replay was to end is live
   only if one of its tokens was stored while the deletion ran or by a login
   that had read the account before: what outlives DeleteRefreshTokensByUserID
   and the two password transactions is bounded by the requests they overlap. *)
THEOREM DeletionsAreThorough == Spec => []SurvivesOnlyByOverlap
<1>1. IInv => SurvivesOnlyByOverlap
  BY DEF IInv
<1>2. QED
  BY <1>1, Invariance, PTL

----------------------------------------------------------------------------
(* Sessions implements SessionLife.  Beside the invariant the refinement   *)
(* needs that the name of a session is a token of that session.  A stored  *)
(* token starts a session, a committed rotation passes it on, a deletion   *)
(* that ends ends sessions, and every other step changes no row of         *)
(* refresh_tokens.                                                         *)


\* A session is named by a token of its own.
Rooted == \A t \in Tokens : Issued(t) =>
            tokens[tokens[t].session].session = tokens[t].session

LInv == IInv /\ Rooted

\* The abstract variables.
Holder(s) == {t \in Tokens : Alive(t) /\ tokens[t].session = s}
OwnerOf(s) == IF Issued(s) /\ tokens[s].session = s THEN tokens[s].user ELSE NoUser

LEMMA RowsTyped ==
  ASSUME LInv, NEW t \in Tokens, Issued(t)
  PROVE  /\ tokens[t] \in TokenRow /\ tokens[t].user \in Users /\ tokens[t].session \in Tokens
         /\ Issued(tokens[t].session) /\ tokens[tokens[t].session].user = tokens[t].user
BY DEF LInv, IInv, TypeOK, TokensSound, Issued, TokenRow

\* Steps that leave the tokens alone stutter.
LEMMA SameTokens ==
  ASSUME LInv, UNCHANGED tokens
  PROVE  Rooted' /\ UNCHANGED Life!life
BY DEF LInv, Rooted, Issued, Alive, Life!life

LEMMA StoreStarts ==
  ASSUME LInv, NEW p \in Reqs, NEW t \in Tokens, StoreRefreshToken(p, t)
  PROVE  Rooted' /\ Life!Next
<1>0. PICK u \in Users : u = req[p].user
  BY DEF LInv, IInv, RequestsGrounded, Grounded, StoreRefreshToken
<1> DEFINE row == [state |-> "live", user |-> u, expires |-> now + RefreshTTL,
                   session |-> t, proved |-> req[p].proved,
                   overlap |-> DeletionOpen(u) \/ req[p].proved # users[u]]
<1>1. ~Issued(t) /\ req[p] \in Request
  BY DEF LInv, IInv, TypeOK, StoreRefreshToken
<1>2. tokens' = [tokens EXCEPT ![t] = row] /\ row.session = t /\ row.user = u
      /\ row.state = "live" /\ row \in TokenRow
  BY <1>0, <1>1, TimesAreNat
     DEF StoreRefreshToken, LInv, IInv, TypeOK, TokenRow, Request, DeletionOpen
<1> HIDE DEF row
<1>3. tokens \in [Tokens -> TokenRow \cup {NoToken}]
  BY DEF LInv, IInv, TypeOK
<1>4. /\ tokens'[t] = row /\ Issued(t)' /\ Alive(t)'
      /\ \A s \in Tokens \ {t} : tokens'[s] = tokens[s]
  BY <1>2, <1>3, NoneIsNone DEF Issued, Alive
<1>5. \A s \in Tokens \ {t} : (Issued(s)' <=> Issued(s)) /\ (Alive(s)' <=> Alive(s))
  BY <1>4 DEF Issued, Alive
<1>6. \A s \in Tokens : Issued(s) => s # t /\ tokens[s].session # t /\ tokens[s].session \in Tokens
  BY <1>1, RowsTyped
<1>7. Rooted'
  BY <1>2, <1>4, <1>5, <1>6 DEF LInv, Rooted
<1>8. Life!Start(u, t)
  <2>1. t \notin {s \in Tokens : Issued(s)}
    BY <1>1
  <2>2. {s \in Tokens : Issued(s)'} = {s \in Tokens : Issued(s)} \cup {t}
    BY <1>4, <1>5
  <2>3. \A s \in Tokens : Holder(s)' = IF s = t THEN {t} ELSE Holder(s)
    BY <1>2, <1>4, <1>5, <1>6 DEF Holder, Alive
  <2>4. \A s \in Tokens : OwnerOf(s)' = IF s = t THEN u ELSE OwnerOf(s)
    BY <1>2, <1>4, <1>5 DEF OwnerOf
  <2>5. QED
    BY <2>1, <2>2, <2>3, <2>4 DEF Life!Start, Holder, OwnerOf
<1>9. QED
  BY <1>7, <1>8 DEF Life!Next

LEMMA RotationRotates ==
  ASSUME LInv, NEW p \in Reqs, NEW new \in Tokens, CommitRotation(p, new)
  PROVE  Rooted' /\ Life!Next
<1>0. PICK t \in Tokens : t = req[p].token
  BY DEF LInv, IInv, TypeOK, RequestsGrounded, Grounded, CommitRotation
<1>1. Alive(t) /\ Issued(t) /\ ~Issued(new) /\ new # t
  BY <1>0 DEF LInv, IInv, HeldIsAlive, RetiredBy, CommitRotation, Issued, Alive
<1>2. PICK root \in Tokens : root = tokens[t].session
  BY <1>1, RowsTyped
<1> DEFINE old == [tokens[t] EXCEPT !.state = "revoked"]
           row == [tokens[t] EXCEPT !.state = "live", !.expires = now + RefreshTTL,
                     !.overlap = @ \/ DeletionOpen(tokens[t].user)]
<1>3. /\ tokens' = [tokens EXCEPT ![t] = old, ![new] = row]
      /\ old.state = "revoked" /\ old.session = root /\ old.user = tokens[t].user
      /\ row.state = "live" /\ row.session = root
      /\ old \in TokenRow /\ row \in TokenRow
  <2>1. tokens[t] \in TokenRow
    BY <1>1, RowsTyped
  <2>2. now + RefreshTTL \in Nat
    BY TimesAreNat DEF LInv, IInv, TypeOK
  <2>3. (tokens[t].overlap \/ DeletionOpen(tokens[t].user)) \in BOOLEAN
    BY DEF DeletionOpen
  <2>4. QED
    BY <1>0, <1>1, <1>2, <2>1, <2>2, <2>3 DEF CommitRotation, TokenRow
<1> HIDE DEF old, row
<1>4. tokens \in [Tokens -> TokenRow \cup {NoToken}]
  BY DEF LInv, IInv, TypeOK
<1>5. /\ tokens'[t] = old /\ tokens'[new] = row
      /\ \A s \in Tokens \ {t, new} : tokens'[s] = tokens[s]
  BY <1>1, <1>3, <1>4
<1>6. /\ Issued(t)' /\ ~Alive(t)' /\ Issued(new)' /\ Alive(new)'
      /\ \A s \in Tokens \ {t, new} : (Issued(s)' <=> Issued(s)) /\ (Alive(s)' <=> Alive(s))
  BY <1>3, <1>5, NoneIsNone DEF Issued, Alive
<1>7. /\ Issued(root) /\ tokens[root].session = root /\ root # new
      /\ \A s \in Tokens : Issued(s) =>
           tokens'[s].session = tokens[s].session /\ tokens'[s].user = tokens[s].user
  BY <1>1, <1>2, <1>3, <1>5, RowsTyped DEF LInv, Rooted
<1>8. Rooted'
  <2>1. \A s \in Tokens : Issued(s) => tokens[s].session \in Tokens /\ Issued(tokens[s].session)
    BY RowsTyped
  <2>2. \A s \in Tokens \ {new} : Issued(s)' <=> Issued(s)
    BY <1>1, <1>6
  <2> SUFFICES ASSUME NEW s \in Tokens, Issued(s)'
               PROVE  tokens'[tokens'[s].session].session = tokens'[s].session
    BY DEF Rooted
  <2>3. CASE s = new
    <3>1. tokens'[s].session = root
      BY <1>3, <1>5, <2>3
    <3>2. root \in Tokens
      BY <1>1, <1>2, RowsTyped
    <3>3. tokens'[root].session = root
      BY <1>7, <3>2
    <3>4. QED
      BY <3>1, <3>3
  <2>4. CASE s # new
    <3>1. Issued(s) /\ tokens[tokens[s].session].session = tokens[s].session
      BY <2>2, <2>4 DEF LInv, Rooted
    <3>2. QED
      BY <1>7, <2>1, <3>1
  <2>5. QED
    BY <2>3, <2>4
<1>9. Life!Rotate(root, new)
  <2>1. t \in Holder(root)
    BY <1>1, <1>2 DEF Holder
  <2>2. {s \in Tokens : Issued(s)'} = {s \in Tokens : Issued(s)} \cup {new}
    BY <1>1, <1>6
  <2>3. Holder(root)' = {new}
    \* t was the only live token of its session.
    <3>1. \A s \in Tokens : Alive(s) /\ tokens[s].session = root => s = t
      BY <1>1, <1>2 DEF LInv, IInv, OneLiveTokenPerSession
    <3>2. \A s \in Tokens : Alive(s)' /\ tokens'[s].session = root => s = new
      <4> SUFFICES ASSUME NEW s \in Tokens, Alive(s)', tokens'[s].session = root, s # new
                   PROVE  FALSE
        OBVIOUS
      <4>1. s # t /\ tokens'[s] = tokens[s] /\ Alive(s)
        BY <1>5, <1>6
      <4>2. QED
        BY <3>1, <4>1
    <3>3. new \in Tokens /\ Alive(new)' /\ tokens'[new].session = root
      BY <1>3, <1>5, <1>6
    <3>4. QED
      BY <3>2, <3>3 DEF Holder
  <2>4. \A s \in Tokens \ {root} : Holder(s)' = Holder(s)
    <3> SUFFICES ASSUME NEW s \in Tokens \ {root}, NEW x \in Tokens
                 PROVE  (Alive(x) /\ tokens[x].session = s)' <=> Alive(x) /\ tokens[x].session = s
      BY DEF Holder
    <3>1. CASE x \in {t, new}
      BY <1>1, <1>2, <1>3, <1>5, <1>6, <3>1 DEF Alive
    <3>2. CASE x \notin {t, new}
      BY <1>5, <1>6, <3>2
    <3>3. QED
      BY <3>1, <3>2
  <2>5. \A s \in Tokens : OwnerOf(s)' = OwnerOf(s)
    <3>1. OwnerOf(new)' = NoUser /\ OwnerOf(new) = NoUser
      BY <1>1, <1>3, <1>5, <1>7 DEF OwnerOf
    <3>2. \A s \in Tokens \ {new} : OwnerOf(s)' = OwnerOf(s)
      BY <1>1, <1>6, <1>7 DEF OwnerOf
    <3>3. QED
      BY <3>1, <3>2
  <2>6. [s \in Tokens |-> Holder(s)'] = [[s \in Tokens |-> Holder(s)] EXCEPT ![root] = {new}]
    BY <2>3, <2>4
  <2>7. QED
    BY <1>1, <2>1, <2>2, <2>5, <2>6 DEF Life!Rotate, Holder, OwnerOf
<1>10. QED
  BY <1>8, <1>9 DEF Life!Next

\* A deletion ends the sessions whose live token it has seen.
LEMMA DeletionEnds ==
  ASSUME LInv, NEW p \in Reqs, Deleting(req[p]), SeenFree(p),
         tokens' = Deleted(req[p].seen)
  PROVE  Rooted' /\ Life!Next
<1>1. \A t \in Tokens :
        /\ Issued(t)' <=> Issued(t)
        /\ Issued(t) => /\ tokens'[t].user = tokens[t].user
                        /\ tokens'[t].session = tokens[t].session
        /\ Alive(t)' <=> Alive(t) /\ t \notin req[p].seen
  BY DeletedRows DEF LInv
<1>2. PICK u \in Users : u = req[p].user
  BY DEF LInv, IInv, RequestsGrounded, Grounded, Deleting
<1>3. PICK seen \in SUBSET Tokens : seen = req[p].seen
  BY DEF LInv, IInv, TypeOK, Request
<1>4. \A t \in seen : Issued(t) /\ tokens[t].user = u
  BY <1>2, <1>3 DEF LInv, IInv, RequestsGrounded, Grounded
<1>5. Rooted'
  BY <1>1, RowsTyped DEF LInv, Rooted
<1>6. PICK S \in SUBSET Tokens : S = {s \in Tokens : Holder(s) \cap seen # {}}
  OBVIOUS
<1>7. Life!EndSessions(u, S)
  <2>1. {s \in Tokens : Issued(s)'} = {s \in Tokens : Issued(s)}
    BY <1>1
  <2>2. \A s \in Tokens : OwnerOf(s)' = OwnerOf(s)
    BY <1>1 DEF OwnerOf
  <2>3. \A s \in S : OwnerOf(s) = u
    <3> SUFFICES ASSUME NEW s \in S PROVE OwnerOf(s) = u
      OBVIOUS
    <3>1. PICK t \in seen : Alive(t) /\ tokens[t].session = s
      BY <1>6 DEF Holder
    <3>2. t \in Tokens /\ Issued(t)
      BY <3>1 DEF Alive
    <3>3. Issued(s) /\ tokens[s].session = s /\ tokens[s].user = u
      BY <1>4, <3>1, <3>2, RowsTyped DEF LInv, Rooted
    <3>4. QED
      BY <3>3 DEF OwnerOf
  <2>4. \A s \in Tokens : Holder(s)' = Holder(s) \ seen
    BY <1>1, <1>3 DEF Holder, Alive
  <2>5. \A s \in S : Holder(s)' = {}
    <3> SUFFICES ASSUME NEW s \in S PROVE Holder(s)' = {}
      OBVIOUS
    <3>1. PICK t \in seen : t \in Holder(s)
      BY <1>6
    <3>2. \A x \in Holder(s) : x = t
      BY <3>1 DEF Holder, LInv, IInv, OneLiveTokenPerSession
    <3>3. QED
      BY <2>4, <3>1, <3>2
  <2>6. \A s \in Tokens \ S : Holder(s)' = Holder(s)
    BY <1>6, <2>4
  <2>7. QED
    BY <2>1, <2>2, <2>3, <2>5, <2>6 DEF Life!EndSessions, Holder, OwnerOf
<1>8. QED
  BY <1>5, <1>7 DEF Life!Next

----------------------------------------------------------------------------
LEMMA LifeBegins == Init => LInv /\ Life!Init
<1> SUFFICES ASSUME Init PROVE LInv /\ Life!Init
  OBVIOUS
<1>1. \A t \in Tokens : ~Issued(t)
  BY DEF Init, Issued
<1>2. QED
  BY <1>1, InitHolds DEF LInv, Rooted, Life!Init, Alive

LEMMA LifeGoesOn == LInv /\ [Next]_vars => LInv' /\ [Life!Next]_(Life!life)
<1> SUFFICES ASSUME LInv, [Next]_vars PROVE Rooted' /\ [Life!Next]_(Life!life)
  BY NextKeeps DEF LInv
<1>1. CASE UNCHANGED tokens
  BY <1>1, SameTokens
<1>2. ASSUME NEW p \in Reqs, Arrive(p) PROVE UNCHANGED tokens
  BY <1>2 DEF Arrive, Register, Login, ChangePassword, Refresh, BeginReset
<1>3. ASSUME NEW p \in Reqs, Proceed(p) PROVE UNCHANGED tokens \/ (Rooted' /\ Life!Next)
  <2>1. ASSUME NEW t \in Tokens, StoreRefreshToken(p, t) PROVE Rooted' /\ Life!Next
    BY <2>1, StoreStarts
  <2>2. ASSUME NEW t \in Tokens, CommitRotation(p, t) PROVE Rooted' /\ Life!Next
    BY <2>2, RotationRotates
  <2>3. CASE EndBurn(p) \/ CommitPassword(p)
    BY <2>3, DeletionEnds DEF EndBurn, CommitPassword, Deleting
  <2>4. ASSUME \/ Retire(p) \/ StartBurn(p) \/ ConsumeReset(p) \/ WritePassword(p)
               \/ StartRevocation(p)
        PROVE  UNCHANGED tokens
    BY <2>4 DEF Retire, StartBurn, ConsumeReset, WritePassword, StartRevocation
  <2>5. QED
    BY <1>3, <2>1, <2>2, <2>3, <2>4 DEF Proceed
<1>4. ASSUME \/ \E p \in Reqs : Fail(p)
             \/ \E u \in Users, r \in Resets : ForgotPassword(u, r)
             \/ Tick \/ UNCHANGED vars
      PROVE  UNCHANGED tokens
  BY <1>4 DEF Fail, ForgotPassword, Tick, vars
<1>5. QED
  BY <1>1, <1>2, <1>3, <1>4 DEF Next

(* The handlers implement SessionLife, whatever their requests overlap with:
   a session has one token at a time, which a refresh exchanges for one that
   was never given out; the deletions of a replay, a reset and a password
   change end sessions of the request's user and of nobody else; and no step
   of any handler brings a session back that has ended. *)
THEOREM ImplementsSessionLife == Spec => LifeSpec
<1>1. Spec => []LInv
  BY LifeBegins, LifeGoesOn, PTL DEF Spec
<1>2. QED
  BY <1>1, LifeBegins, LifeGoesOn, PTL DEF Spec, LifeSpec, Life!Spec
=============================================================================
