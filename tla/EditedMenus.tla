---------------------------- MODULE EditedMenus ----------------------------
(***************************************************************************)
(* What the edits of menus promise when they overlap: an edit concerns one *)
(* restaurant, or something all restaurants share, and changes nothing of  *)
(* the others.  When it is finished customers are shown its restaurants as *)
(* they are, except those another finished edit concerned since it began;  *)
(* and an edit that is given up changes nothing at all.                    *)
(***************************************************************************)
CONSTANTS Restaurants, Edits

VARIABLES truth,    \* what the tables say is to be shown of a restaurant
          shown,    \* what customers are shown
          concerns, \* the restaurants an edit in progress concerns
          crossed   \* restaurants concerned by edits that finished since it began

edited == <<truth, shown, concerns, crossed>>

InProgress(e) == concerns[e] # {}

Init ==
  /\ shown = truth
  /\ concerns = [e \in Edits |-> {}]
  /\ crossed = [e \in Edits |-> {}]

Start(e) ==
  /\ ~InProgress(e)
  /\ \E R \in {{r} : r \in Restaurants} \cup {Restaurants} :
       concerns' = [concerns EXCEPT ![e] = R]
  /\ crossed' = [crossed EXCEPT ![e] = {}]
  /\ UNCHANGED <<truth, shown>>

Unchanged(r) == truth'[r] = truth[r] /\ shown'[r] = shown[r]

Finish(e) ==
  /\ InProgress(e)
  /\ \A r \in Restaurants \ concerns[e] : Unchanged(r)
  /\ \A r \in concerns[e] \ crossed[e] : shown'[r] = truth'[r] \/ Unchanged(r)
  /\ concerns' = [concerns EXCEPT ![e] = {}]
  /\ crossed' = [f \in Edits |-> IF f # e /\ InProgress(f)
                                 THEN crossed[f] \cup concerns[e] ELSE crossed[f]]

GiveUp(e) ==
  /\ InProgress(e)
  /\ concerns' = [concerns EXCEPT ![e] = {}]
  /\ UNCHANGED <<truth, shown, crossed>>

Next == \E e \in Edits : Start(e) \/ Finish(e) \/ GiveUp(e)

Spec == Init /\ [][Next]_edited
=============================================================================
