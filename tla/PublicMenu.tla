----------------------------- MODULE PublicMenu -----------------------------
(***************************************************************************)
(* What the admin API promises about public menus: a request authorized    *)
(* for an organization changes what its own restaurants have to show, of   *)
(* nobody else, and what customers are shown changes with it, in one step. *)
(***************************************************************************)
CONSTANTS Orgs, Restaurants,
          NoOrg \* the restaurant does not exist, or no request was made yet

VARIABLES caller, \* the organization of the last request
          owner,  \* the organization of a restaurant
          truth,  \* what its tables say is to be shown
          shown   \* what customers are shown

public == <<caller, owner, truth, shown>>

Init ==
  /\ caller = NoOrg
  /\ owner = [r \in Restaurants |-> NoOrg]
  /\ shown = truth

Edit(o) ==
  /\ caller' = o
  /\ \A r \in Restaurants :
       \/ owner[r] \in {o, NoOrg} /\ owner'[r] \in {o, NoOrg}
       \/ owner'[r] = owner[r] /\ truth'[r] = truth[r]
  /\ shown' = truth'

Next == \E o \in Orgs : Edit(o)

Spec == Init /\ [][Next]_public
=============================================================================
