---------------------------- MODULE SessionLife ----------------------------
(***************************************************************************)
(* What the sessions of users promise.  A session is named by its first    *)
(* token and has one token at a time: it starts, its token is exchanged    *)
(* for one that was never used, and it ends, with others of its user but   *)
(* of nobody else, and for good.                                           *)
(***************************************************************************)
CONSTANTS Tokens, Users, NoUser

VARIABLES holder, \* of a session: its token, as a set
          owner,  \* its user
          used    \* tokens that were ever given out

life == <<holder, owner, used>>

Init ==
  /\ holder = [s \in Tokens |-> {}]
  /\ owner = [s \in Tokens |-> NoUser]
  /\ used = {}

Start(u, t) ==
  /\ t \notin used
  /\ used' = used \cup {t}
  /\ holder' = [holder EXCEPT ![t] = {t}]
  /\ owner' = [owner EXCEPT ![t] = u]

Rotate(s, new) ==
  /\ holder[s] # {} /\ new \notin used
  /\ used' = used \cup {new}
  /\ holder' = [holder EXCEPT ![s] = {new}]
  /\ UNCHANGED owner

EndSessions(u, S) ==
  /\ UNCHANGED <<owner, used>>
  /\ \A s \in S : owner[s] = u
  /\ holder' = [s \in Tokens |-> IF s \in S THEN {} ELSE holder[s]]

Next ==
  \/ \E u \in Users, t \in Tokens : Start(u, t)
  \/ \E s, new \in Tokens : Rotate(s, new)
  \/ \E u \in Users, S \in SUBSET Tokens : EndSessions(u, S)

Spec == Init /\ [][Next]_life
=============================================================================
