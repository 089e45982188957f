------------------------- MODULE EditedMenusProofs -------------------------
(***************************************************************************)
(* How the transactions of SnapshotRefresh lock, and that they implement   *)
(* EditedMenus, for any number of restaurants, allergens and requests.     *)
(* The invariant says which locks go together, and that a transaction of   *)
(* one statement has all its rows when it takes a snapshot row.            *)
(***************************************************************************)
EXTENDS SnapshotRefreshProofs

\* What makes no trigger run.
Unseen == {d \in Demands : \/ d.mode \in {"share", "check"}
                           \/ d.mode = "delete" /\ d.row[1] = "allergens"}

\* A transaction of one statement, about one restaurant.
OneStatement(t) ==
  /\ op[t].scope \in {{r} : r \in Restaurants}
  /\ Len(todo[t]) <= 1
  /\ (\E r \in Restaurants : SnapshotLockedBy(t, r)) => todo[t] = <<>> \/ Head(todo[t]) = <<>>

\* A transaction that refreshes nothing.
Silent(t) ==
  /\ fired[t] = {} /\ loop[t] = {} /\ cur[t] = NoRestaurant
  /\ \A r \in Restaurants : ~SnapshotLockedBy(t, r)
  /\ todo[t] \in Seq(Seq(Unseen))

\* A trigger runs between two batches, and an ended transaction has none left.
Paced(t) ==
  /\ ~Active(t) => op[t] = NoOp /\ todo[t] = <<>>
  /\ Active(t) => op[t].scope \in {{r} : r \in Restaurants} \cup {Restaurants}
  /\ Active(t) /\ op[t].name \notin LocksOn => OneStatement(t) \/ Silent(t)
  /\ pc[t] \in {"menus", "upsert"} => Head(todo[t]) = <<>>

\* Which locks two transactions never hold together.
OneHolder ==
  \A t, u \in Txs : t # u =>
    /\ wrote[t] \cap wrote[u] = {}
    /\ keys[t] \cap shares[u] = {}
    /\ \A r \in Restaurants : ~SnapshotLockedBy(t, r) \/ ~SnapshotLockedBy(u, r)

LockInv ==
  /\ \A t \in Txs : Paced(t)
  /\ OneHolder
  /\ snap = [r \in Restaurants |-> snap[r]]

----------------------------------------------------------------------------
(* The steps of a transaction.                                             *)

\* What is left of a statement that goes on with the demands s.
LEMMA RestOfStatement ==
  ASSUME IInv, NEW t \in Txs, Writing(t), NEW U, todo[t] \in Seq(Seq(U))
  PROVE  /\ NextDemand(t) \in U
         /\ \A s \in Seq(U) :
              GoOn(t, s) => /\ todo'[t] \in Seq(Seq(U)) /\ Len(todo'[t]) = Len(todo[t])
                            /\ todo' = [todo EXCEPT ![t] = todo'[t]]
<1>1. /\ Head(todo[t]) \in Seq(U) /\ Tail(todo[t]) \in Seq(Seq(U)) /\ Head(todo[t]) # <<>>
      /\ Len(Tail(todo[t])) = Len(todo[t]) - 1 /\ Len(todo[t]) \in Nat
  BY DEF Writing
<1>2. NextDemand(t) \in U /\ Tail(Head(todo[t])) \in Seq(U)
  BY <1>1, RestOf DEF NextDemand
<1>3. ASSUME NEW b \in Seq(U), NEW q \in Seq(Seq(U))
      PROVE  <<b>> \o q \in Seq(Seq(U)) /\ Len(<<b>> \o q) = 1 + Len(q)
  OBVIOUS
<1>4. ASSUME NEW s \in Seq(U), GoOn(t, s)
      PROVE  /\ todo'[t] \in Seq(Seq(U)) /\ Len(todo'[t]) = Len(todo[t])
             /\ todo' = [todo EXCEPT ![t] = todo'[t]]
  <2>1. todo'[t] = <<s \o Tail(Head(todo[t]))>> \o Tail(todo[t])
    BY <1>4, Domains DEF GoOn
  <2>2. s \o Tail(Head(todo[t])) \in Seq(U)
    BY <1>2
  <2>3. todo'[t] \in Seq(Seq(U)) /\ Len(todo'[t]) = Len(todo[t])
    BY <1>1, <1>3, <2>1, <2>2
  <2>4. todo' = [todo EXCEPT ![t] = todo'[t]]
    BY <1>4, <2>1 DEF GoOn
  <2> QED BY <2>3, <2>4
<1> QED BY <1>2, <1>4

\* What a step that writes or locks leaves as it is, and which locks it adds.
WriteFrame(t) ==
  /\ Active(t) /\ Active(t)' /\ Only(t) /\ UNCHANGED <<db, snap, op, pc, mine, overtaken>>
  /\ todo[t] # <<>> /\ Head(todo[t]) # <<>> /\ Len(todo'[t]) = Len(todo[t])
  /\ \A u \in Txs \ {t} : /\ wrote'[t] \cap wrote[u] \subseteq wrote[t]
                          /\ keys'[t] \cap shares[u] \subseteq keys[t]
                          /\ shares'[t] \cap keys[u] \subseteq shares[t]
  /\ Silent(t) => Silent(t)'

LEMMA WritesRow ==
  ASSUME IInv, NEW t \in Txs, WriteRow(t)
  PROVE  WriteFrame(t)
<1>0. PICK d, touch, tail :
        /\ d = NextDemand(t)
        /\ touch = IF d.mode = "delete" /\ NothingToDelete(t, d.row) THEN {} ELSE {d.row}
        /\ tail = Checks(d)
        /\ wrote' = [wrote EXCEPT ![t] = wrote[t] \cup touch]
        /\ keys' = [keys EXCEPT ![t] = IF d.mode = "update" THEN keys[t] ELSE keys[t] \cup touch]
        /\ fired' = [fired EXCEPT ![t] = IF HasTrigger(d) THEN fired[t] \cup touch ELSE fired[t]]
        /\ uses' = [uses EXCEPT ![t] = uses[t] \cup d.gives]
        /\ GoOn(t, tail)
  BY DEF WriteRow
<1>1. /\ pc[t] = "open" /\ Writing(t) /\ Free(t) /\ d.mode \in {"update", "rekey", "delete"}
      /\ todo[t] # <<>> /\ Head(todo[t]) # <<>>
      /\ db' = db /\ snap' = snap /\ pc' = pc /\ op' = op /\ shares' = shares /\ loop' = loop
      /\ cur' = cur /\ head' = head /\ menus' = menus /\ mine' = mine /\ overtaken' = overtaken
  BY <1>0 DEF WriteRow, Free, Writing, ghosts
<1>2. /\ wrote'[t] = wrote[t] \cup touch /\ uses'[t] = uses[t] \cup d.gives
      /\ fired'[t] = IF HasTrigger(d) THEN fired[t] \cup touch ELSE fired[t]
      /\ keys'[t] = IF d.mode = "update" THEN keys[t] ELSE keys[t] \cup touch
  BY <1>0, Domains
<1>3. \A U : Demand("check", d.row) \in U => tail \in Seq(U)
  BY <1>0 DEF Checks
<1>4. todo[t] \in Seq(Seq(Demands))
  BY DEF IInv, TypeOK
<1>5. d \in Demands /\ Demand("check", d.row) \in Demands
  <2>1. d \in Demands
    BY <1>0, <1>1, <1>4, RestOfStatement
  <2> QED BY <2>1 DEF Demands, Demand
<1>6. Len(todo'[t]) = Len(todo[t]) /\ todo' = [todo EXCEPT ![t] = todo'[t]]
  BY <1>0, <1>1, <1>3, <1>4, <1>5, RestOfStatement
<1>7. Only(t)
  BY <1>0, <1>1, <1>2, <1>6, Unchanged, Zenon DEF Only
<1>8. ASSUME NEW u \in Txs \ {t}
      PROVE  /\ wrote'[t] \cap wrote[u] \subseteq wrote[t]
             /\ keys'[t] \cap shares[u] \subseteq keys[t]
             /\ shares'[t] \cap keys[u] \subseteq shares[t]
  <2>1. ~Blocks(u, t)
    BY <1>1 DEF Free
  <2>2. d.mode = "update" => d.row \notin wrote[u]
    BY <1>0, <2>1 DEF Blocks
  <2>3. d.mode \in {"rekey", "delete"} => d.row \notin wrote[u] \cup shares[u]
    BY <1>0, <2>1 DEF Blocks
  <2>4. touch \subseteq {d.row}
    BY <1>0
  <2> QED BY <1>1, <1>2, <2>2, <2>3, <2>4
<1>9. ASSUME Silent(t) PROVE Silent(t)'
  <2>1. todo[t] \in Seq(Seq(Unseen))
    BY <1>9 DEF Silent
  <2>2. d \in Unseen
    BY <1>0, <1>1, <2>1, RestOfStatement
  <2>3. d.mode = "delete" /\ d.row[1] = "allergens" /\ ~HasTrigger(d)
    BY <1>1, <2>2 DEF Unseen, HasTrigger
  <2>4. Demand("check", d.row) \in Unseen
    BY <1>5 DEF Unseen, Demand
  <2>5. todo'[t] \in Seq(Seq(Unseen))
    BY <1>0, <1>1, <1>3, <2>1, <2>4, RestOfStatement
  <2> QED BY <1>1, <1>2, <1>9, <2>3, <2>5 DEF Silent, SnapshotLockedBy
<1> QED BY <1>1, <1>6, <1>7, <1>8, <1>9 DEF WriteFrame, Active

LEMMA Locks ==
  ASSUME IInv, NEW t \in Txs, ShareKey(t) \/ PassCheck(t)
  PROVE  WriteFrame(t)
<1>1. /\ pc[t] = "open" /\ Writing(t) /\ Free(t) /\ GoOn(t, <<>>)
      /\ todo[t] # <<>> /\ Head(todo[t]) # <<>>
      /\ db' = db /\ snap' = snap /\ pc' = pc /\ op' = op /\ uses' = uses /\ wrote' = wrote
      /\ keys' = keys /\ fired' = fired /\ loop' = loop
      /\ cur' = cur /\ head' = head /\ menus' = menus /\ mine' = mine /\ overtaken' = overtaken
  BY DEF ShareKey, PassCheck, Free, Writing, ghosts, locks
<1>2. \/ shares' = shares
      \/ /\ shares' = [shares EXCEPT ![t] = shares[t] \cup {NextDemand(t).row}]
         /\ NextDemand(t).mode = "share"
  BY DEF ShareKey, PassCheck, locks
<1>3. \/ shares' = shares
      \/ shares'[t] = shares[t] \cup {NextDemand(t).row} /\ NextDemand(t).mode = "share"
  BY <1>2, Domains
<1>4. shares' = [shares EXCEPT ![t] = shares'[t]]
  BY <1>2, <1>3, Unchanged
<1>5. \A U : <<>> \in Seq(U)
  OBVIOUS
<1>6. todo[t] \in Seq(Seq(Demands))
  BY DEF IInv, TypeOK
<1>7. Len(todo'[t]) = Len(todo[t]) /\ todo' = [todo EXCEPT ![t] = todo'[t]]
  BY <1>1, <1>5, <1>6, RestOfStatement
<1>8. Only(t)
  BY <1>1, <1>4, <1>7, Unchanged, Zenon DEF Only
<1>9. ASSUME NEW u \in Txs \ {t}
      PROVE  shares'[t] \cap keys[u] \subseteq shares[t]
  BY <1>1, <1>3 DEF Free, Blocks
<1>10. ASSUME Silent(t) PROVE Silent(t)'
  <2>1. todo[t] \in Seq(Seq(Unseen))
    BY <1>10 DEF Silent
  <2>2. todo'[t] \in Seq(Seq(Unseen))
    BY <1>1, <1>5, <2>1, RestOfStatement
  <2> QED BY <1>1, <1>10, <2>2 DEF Silent, SnapshotLockedBy
<1> QED BY <1>1, <1>7, <1>8, <1>9, <1>10 DEF WriteFrame, Active

\* The steps between two batches.
LEMMA EndsStatement ==
  ASSUME IInv, NEW t \in Txs, EndStatement(t)
  PROVE  /\ Active(t) /\ Active(t)' /\ Only(t)
         /\ UNCHANGED <<db, snap, op, pc, wrote, keys, shares, fired, loop, cur, mine, overtaken>>
         /\ todo[t] # <<>> /\ todo'[t] = Tail(todo[t]) /\ Head(todo[t]) = <<>>
         /\ pc[t] = "open"
<1>1. /\ Triggering(t) /\ todo' = [todo EXCEPT ![t] = Tail(todo[t])]
      /\ pc' = pc /\ uses' = uses /\ wrote' = wrote /\ fired' = fired /\ loop' = loop
      /\ op' = op /\ keys' = keys /\ shares' = shares
      /\ cur' = cur /\ head' = head /\ menus' = menus /\ mine' = mine
      /\ UNCHANGED <<db, snap, overtaken>>
  BY DEF EndStatement, ghosts, locks
<1>2. todo'[t] = Tail(todo[t])
  BY <1>1, Domains
<1>3. Only(t)
  BY <1>1, <1>2, Unchanged, Zenon DEF Only
<1> QED BY <1>1, <1>2, <1>3 DEF Triggering, Active

LEMMA TriggerSteps ==
  ASSUME IInv, LockInv, NEW t \in Txs,
         FireTrigger(t) \/ BuildHead(t) \/ BuildMenus(t) \/ Upsert(t)
  PROVE  /\ Active(t) /\ Active(t)' /\ Only(t)
         /\ UNCHANGED <<db, snap, op, todo, wrote, keys, shares, overtaken>>
         /\ mine' = mine \/ Upsert(t)
         /\ Head(todo[t]) = <<>> /\ todo[t] # <<>> /\ ~Silent(t)
<1>1. CASE FireTrigger(t)
  <2>1. PICK x \in fired[t] :
          /\ fired' = [fired EXCEPT ![t] = fired[t] \ {x}]
          /\ loop' = [loop EXCEPT ![t] = Refreshes(t, x)]
    BY <1>1 DEF FireTrigger
  <2>2. /\ Triggering(t) /\ pc' = pc /\ todo' = todo /\ uses' = uses /\ wrote' = wrote
        /\ op' = op /\ keys' = keys /\ shares' = shares
        /\ cur' = cur /\ head' = head /\ menus' = menus /\ mine' = mine
        /\ db' = db /\ snap' = snap /\ overtaken' = overtaken
    BY <1>1 DEF FireTrigger, ghosts, locks
  <2>3. fired'[t] = fired[t] \ {x} /\ loop'[t] = Refreshes(t, x)
    BY <2>1, Domains
  <2>4. Only(t)
    BY <2>1, <2>2, <2>3, Unchanged, Zenon DEF Only
  <2> QED BY <2>1, <2>2, <2>4 DEF Triggering, Active, Silent
<1>2. CASE BuildHead(t)
  <2>1. PICK r \in loop[t] :
          /\ loop' = [loop EXCEPT ![t] = loop[t] \ {r}]
          /\ cur' = [cur EXCEPT ![t] = r]
          /\ head' = [head EXCEPT ![t] = HeadOf(View(t), r)]
    BY <1>2 DEF BuildHead
  <2>2. /\ Triggering(t) /\ pc' = [pc EXCEPT ![t] = "menus"] /\ todo' = todo /\ uses' = uses
        /\ op' = op /\ keys' = keys /\ shares' = shares
        /\ wrote' = wrote /\ fired' = fired /\ menus' = menus /\ mine' = mine
        /\ db' = db /\ snap' = snap /\ overtaken' = overtaken
    BY <1>2 DEF BuildHead, ghosts, locks
  <2>3. /\ pc'[t] = "menus" /\ loop'[t] = loop[t] \ {r} /\ cur'[t] = r
        /\ head'[t] = HeadOf(View(t), r)
    BY <2>1, <2>2, Domains
  <2>4. Only(t)
    BY <2>1, <2>2, <2>3, Unchanged, Zenon DEF Only
  <2> QED BY <2>1, <2>2, <2>3, <2>4 DEF Triggering, Active, Silent
<1>a. pc[t] \in {"menus", "upsert"} => Head(todo[t]) = <<>> /\ todo[t] # <<>> /\ ~Silent(t)
  BY DEF LockInv, Paced, IInv, OK, Staged, Silent
<1>3. CASE BuildMenus(t)
  <2>1. /\ pc[t] = "menus" /\ pc' = [pc EXCEPT ![t] = "upsert"]
        /\ menus' = [menus EXCEPT ![t] = MenusOf(View(t), cur[t])]
        /\ todo' = todo /\ uses' = uses /\ wrote' = wrote /\ fired' = fired /\ loop' = loop
        /\ op' = op /\ keys' = keys /\ shares' = shares
        /\ cur' = cur /\ head' = head /\ mine' = mine
        /\ db' = db /\ snap' = snap /\ overtaken' = overtaken
    BY <1>3 DEF BuildMenus, ghosts, locks
  <2>2. pc'[t] = "upsert" /\ menus'[t] = MenusOf(View(t), cur[t])
    BY <2>1, Domains
  <2>3. Only(t)
    BY <2>1, <2>2, Unchanged, Zenon DEF Only
  <2> QED BY <1>a, <2>1, <2>2, <2>3 DEF Active
<1>4. CASE Upsert(t)
  <2>1. /\ pc[t] = "upsert" /\ pc' = [pc EXCEPT ![t] = "open"]
        /\ mine' = [mine EXCEPT ![t] = mine'[t]]
        /\ cur' = [cur EXCEPT ![t] = NoRestaurant]
        /\ head' = [head EXCEPT ![t] = <<>>] /\ menus' = [menus EXCEPT ![t] = <<>>]
        /\ todo' = todo /\ uses' = uses /\ wrote' = wrote /\ fired' = fired /\ loop' = loop
        /\ op' = op /\ keys' = keys /\ shares' = shares
        /\ db' = db /\ snap' = snap /\ overtaken' = overtaken
    BY <1>4, Domains DEF Upsert, ghosts, locks
  <2>2. pc'[t] = "open" /\ cur'[t] = NoRestaurant /\ head'[t] = <<>> /\ menus'[t] = <<>>
    BY <2>1, Domains
  <2>3. Only(t)
    BY <2>1, <2>2, Unchanged, Zenon DEF Only
  <2> QED BY <1>4, <1>a, <2>1, <2>2, <2>3 DEF Active
<1> QED BY <1>1, <1>2, <1>3, <1>4

LEMMA RolledBack ==
  ASSUME IInv, NEW t \in Txs, Rollback(t)
  PROVE  /\ pc'[t] = "aborted" /\ op'[t] = NoOp /\ wrote'[t] = {} /\ keys'[t] = {}
         /\ shares'[t] = {} /\ todo'[t] = <<>> /\ mine'[t] = NoRows
         /\ Only(t) /\ Active(t) /\ UNCHANGED <<db, snap, overtaken>>
<1>1. /\ pc' = [pc EXCEPT ![t] = "aborted"] /\ op' = [op EXCEPT ![t] = NoOp]
      /\ wrote' = [wrote EXCEPT ![t] = {}] /\ mine' = [mine EXCEPT ![t] = NoRows]
      /\ keys' = [keys EXCEPT ![t] = {}] /\ shares' = [shares EXCEPT ![t] = {}]
      /\ todo' = [todo EXCEPT ![t] = <<>>] /\ uses' = [uses EXCEPT ![t] = {}]
      /\ fired' = [fired EXCEPT ![t] = {}] /\ loop' = [loop EXCEPT ![t] = {}]
      /\ cur' = [cur EXCEPT ![t] = NoRestaurant]
      /\ head' = [head EXCEPT ![t] = <<>>] /\ menus' = [menus EXCEPT ![t] = <<>>]
      /\ Active(t) /\ UNCHANGED <<db, snap, overtaken>>
  BY DEF Rollback, Release, ghosts
<1>2. /\ pc'[t] = "aborted" /\ wrote'[t] = {} /\ mine'[t] = NoRows /\ todo'[t] = <<>>
      /\ uses'[t] = {} /\ fired'[t] = {} /\ loop'[t] = {} /\ cur'[t] = NoRestaurant
      /\ head'[t] = <<>> /\ menus'[t] = <<>> /\ op'[t] = NoOp /\ keys'[t] = {} /\ shares'[t] = {}
  BY <1>1, Domains
<1> QED BY <1>1, <1>2, Zenon DEF Only

LEMMA Begun ==
  ASSUME IInv, NEW t \in Txs, Begin(t)
  PROVE  /\ Only(t) /\ ~Active(t) /\ pc'[t] = "open" /\ UNCHANGED <<db, snap>>
         /\ wrote' = wrote /\ keys' = keys /\ shares' = shares /\ mine' = mine
         /\ fired'[t] = {} /\ loop'[t] = {} /\ cur'[t] = NoRestaurant
         /\ \A r \in Restaurants : mine[t][r] = NoPayload
         /\ overtaken' = [overtaken EXCEPT ![t] = {}]
         /\ \E o \in Ops : /\ op'[t] = [name |-> o.name, scope |-> o.scope]
                           /\ todo'[t] = o.batches
<1>0. PICK o \in Ops : /\ op' = [op EXCEPT ![t] = [name |-> o.name, scope |-> o.scope]]
                       /\ todo' = [todo EXCEPT ![t] = o.batches]
  BY DEF Begin
<1>1. /\ pc[t] = "idle" /\ pc' = [pc EXCEPT ![t] = "open"]
      /\ overtaken' = [overtaken EXCEPT ![t] = {}]
      /\ db' = db /\ snap' = snap /\ uses' = uses /\ wrote' = wrote /\ keys' = keys
      /\ shares' = shares /\ fired' = fired /\ loop' = loop
      /\ cur' = cur /\ head' = head /\ menus' = menus /\ mine' = mine
  BY DEF Begin, locks
<1>2. /\ op'[t] = [name |-> o.name, scope |-> o.scope] /\ todo'[t] = o.batches /\ pc'[t] = "open"
  BY <1>0, <1>1, Domains
<1>3. Only(t)
  BY <1>0, <1>1, <1>2, Unchanged, Zenon DEF Only
<1>4. ~Active(t)
  BY <1>1 DEF Active
<1>5. /\ fired[t] = {} /\ loop[t] = {} /\ cur[t] = NoRestaurant
      /\ \A r \in Restaurants : mine[t][r] = NoPayload
  BY <1>1, <1>4 DEF IInv, OK, Staged
<1> QED BY <1>1, <1>2, <1>3, <1>4, <1>5

----------------------------------------------------------------------------
(* The invariant of the locks.                                             *)

\* How an operation begins.
LEMMA OpsArePaced ==
  ASSUME NEW o \in Ops
  PROVE  /\ o.scope \in {{r} : r \in Restaurants} \cup {Restaurants}
         /\ o.name \notin LocksOn =>
              \/ o.scope \in {{r} : r \in Restaurants} /\ Len(o.batches) <= 1
              \/ o.batches \in Seq(Seq(Unseen))
<1>1. CASE \E r \in Restaurants : o \in RestaurantOps(r)
  <2>1. PICK r \in Restaurants : o \in RestaurantOps(r)
    BY <1>1
  <2>2. o.scope = {r} /\ (o.name \in LocksOn \/ Len(o.batches) = 1)
    BY <2>1, EditFacts
  <2>3. o.scope \in {{q} : q \in Restaurants}
    BY <2>2
  <2>4. ASSUME o.name \notin LocksOn PROVE Len(o.batches) <= 1
    <3>1. Len(o.batches) = 1
      BY <2>2, <2>4
    <3> QED BY <3>1
  <2> QED BY <2>3, <2>4
<1>2. CASE \E a \in Allergens : o \in UpdateAllergen(a) \cup DeleteAllergen(a)
  <2>1. PICK a \in Allergens : o \in UpdateAllergen(a) \cup DeleteAllergen(a)
    BY <1>2
  <2>2. o.scope = Restaurants
    BY <2>1, AllergenFacts
  <2>3. ASSUME o.name \notin LocksOn PROVE o.batches \in Seq(Seq(Unseen))
    <3>1. o.batches = << <<Delete(<<"allergens", a>>)>> >>
      BY <2>1, <2>3, AllergenFacts DEF LocksOn
    <3>2. <<"allergens", a>> \in Rows
      BY RowFacts
    <3>3. PICK d : d = Delete(<<"allergens", a>>)
      OBVIOUS
    <3>4. d \in Unseen
      BY <3>2, <3>3 DEF Unseen, Delete, Demand, Demands
    <3>5. << <<d>> >> \in Seq(Seq(Unseen))
      BY <3>4
    <3> QED BY <3>1, <3>3, <3>5
  <2> QED BY <2>2, <2>3
<1> QED BY <1>1, <1>2, OpKinds

\* What follows for all transactions from what one of them did.
LEMMA LockStep ==
  ASSUME IInv, LockInv, NEW t \in Txs, Only(t), Paced(t)',
         snap' = [r \in Restaurants |-> snap'[r]],
         \A u \in Txs \ {t} :
           /\ wrote'[t] \cap wrote[u] \subseteq wrote[t]
           /\ keys'[t] \cap shares[u] \subseteq keys[t]
           /\ shares'[t] \cap keys[u] \subseteq shares[t]
           /\ \A r \in Restaurants : mine'[t][r] = NoPayload \/ mine[u][r] = NoPayload
  PROVE  LockInv'
<1>1. \A u \in Txs \ {t} : /\ pc'[u] = pc[u] /\ op'[u] = op[u] /\ todo'[u] = todo[u]
                           /\ wrote'[u] = wrote[u] /\ keys'[u] = keys[u] /\ shares'[u] = shares[u]
                           /\ fired'[u] = fired[u] /\ loop'[u] = loop[u] /\ cur'[u] = cur[u]
                           /\ mine'[u] = mine[u]
  BY OthersStay
<1>2. ASSUME NEW u \in Txs \ {t} PROVE Paced(u)'
  <2>1. Paced(u)
    BY DEF LockInv
  <2>2. Active(u)' <=> Active(u)
    BY <1>1 DEF Active
  <2>3. (OneStatement(u) => OneStatement(u)') /\ (Silent(u) => Silent(u)')
    BY <1>1 DEF OneStatement, Silent, SnapshotLockedBy
  <2> QED BY <1>1, <2>1, <2>2, <2>3 DEF Paced
<1>3. OneHolder'
  <2>1. \A u, w \in Txs : u # w => wrote[u] \cap wrote[w] = {} /\ keys[u] \cap shares[w] = {}
    BY DEF LockInv, OneHolder
  <2>2. \A u, w \in Txs : u # w => wrote'[u] \cap wrote'[w] = {}
    BY <1>1, <2>1
  <2>3. \A u, w \in Txs : u # w => keys'[u] \cap shares'[w] = {}
    BY <1>1, <2>1
  <2>4. \A u, w \in Txs, r \in Restaurants :
          u # w => mine'[u][r] = NoPayload \/ mine'[w][r] = NoPayload
    BY <1>1 DEF LockInv, OneHolder, SnapshotLockedBy
  <2> QED BY <2>2, <2>3, <2>4 DEF OneHolder, SnapshotLockedBy
<1> QED BY <1>2, <1>3 DEF LockInv

LEMMA LocksKept ==
  ASSUME IInv, LockInv, Next
  PROVE  LockInv'
<1>0. PICK t \in Txs : Begin(t) \/ Step(t) \/ Rollback(t)
  BY DEF Next
<1>a. /\ \A u \in Txs \ {t}, r \in Restaurants : mine[t][r] = NoPayload \/ mine[u][r] = NoPayload
      /\ Paced(t)
      /\ snap = [r \in Restaurants |-> snap[r]]
  BY DEF LockInv, OneHolder, SnapshotLockedBy
<1>1. CASE Begin(t)
  <2>0. PICK o \in Ops : op'[t] = [name |-> o.name, scope |-> o.scope] /\ todo'[t] = o.batches
    BY <1>1, Begun
  <2>1. /\ Only(t) /\ pc'[t] = "open" /\ UNCHANGED <<snap, wrote, keys, shares, mine>>
        /\ fired'[t] = {} /\ loop'[t] = {} /\ cur'[t] = NoRestaurant
        /\ \A r \in Restaurants : mine[t][r] = NoPayload
    BY <1>1, Begun
  <2>2. Active(t)'
    BY <2>1 DEF Active
  <2>3. op'[t].name = o.name /\ op'[t].scope = o.scope
    BY <2>0
  <2>4. ASSUME o.name \notin LocksOn PROVE OneStatement(t)' \/ Silent(t)'
    BY <2>0, <2>1, <2>3, <2>4, OpsArePaced DEF OneStatement, Silent, SnapshotLockedBy
  <2>5. Paced(t)'
    BY <2>1, <2>2, <2>3, <2>4, OpsArePaced DEF Paced
  <2> QED BY <1>a, <2>1, <2>5, LockStep
<1>2. CASE WriteRow(t) \/ ShareKey(t) \/ PassCheck(t)
  <2>1. WriteFrame(t)
    BY <1>2, WritesRow, Locks
  <2>2. OneStatement(t) => OneStatement(t)'
    BY <2>1 DEF WriteFrame, OneStatement, SnapshotLockedBy
  <2>3. pc[t] \notin {"menus", "upsert"}
    BY <1>2 DEF WriteRow, ShareKey, PassCheck, Free, Writing
  <2>4. Paced(t)'
    BY <1>a, <2>1, <2>2, <2>3 DEF Paced, WriteFrame
  <2> QED BY <1>a, <2>1, <2>4, LockStep DEF WriteFrame
<1>3. CASE EndStatement(t)
  <2>1. todo[t] \in Seq(Seq(Demands))
    BY DEF IInv, TypeOK
  <2>2. Len(todo'[t]) = Len(todo[t]) - 1 /\ Len(todo[t]) \in Nat /\ todo'[t] \in Seq(Seq(Demands))
    BY <1>3, <2>1, EndsStatement, RestOf
  <2>3. ASSUME OneStatement(t) PROVE OneStatement(t)'
    <3>1. Len(todo'[t]) <= 1 /\ todo'[t] = <<>>
      BY <2>2, <2>3 DEF OneStatement
    <3> QED BY <1>3, <2>3, <3>1, EndsStatement DEF OneStatement
  <2>4. ASSUME Silent(t) PROVE Silent(t)'
    <3>1. todo[t] \in Seq(Seq(Unseen))
      BY <2>4 DEF Silent
    <3>2. todo'[t] \in Seq(Seq(Unseen))
      BY <1>3, <3>1, EndsStatement, RestOf
    <3> QED BY <1>3, <2>4, <3>2, EndsStatement DEF Silent, SnapshotLockedBy
  <2>5. Paced(t)'
    BY <1>3, <1>a, <2>3, <2>4, EndsStatement DEF Paced
  <2> QED BY <1>3, <1>a, <2>5, EndsStatement, LockStep
<1>4. CASE FireTrigger(t) \/ BuildHead(t) \/ BuildMenus(t) \/ Upsert(t)
  <2>1. OneStatement(t) => OneStatement(t)'
    BY <1>4, TriggerSteps DEF OneStatement
  <2>2. Paced(t)'
    BY <1>4, <1>a, <2>1, TriggerSteps DEF Paced
  <2>3. \A u \in Txs \ {t}, r \in Restaurants :
          mine'[t][r] = NoPayload \/ mine[u][r] = NoPayload
    <3>1. CASE Upsert(t)
      <4>1. \A r \in Restaurants \ {cur[t]} : mine'[t][r] = mine[t][r]
        BY <3>1, Domains DEF Upsert
      <4>2. \A u \in Txs \ {t} : mine[u][cur[t]] = NoPayload
        BY <3>1 DEF Upsert, SnapshotLockedBy
      <4> QED BY <1>a, <4>1, <4>2
    <3>2. CASE ~Upsert(t)
      BY <1>4, <1>a, <3>2, TriggerSteps
    <3> QED BY <3>1, <3>2
  <2> QED BY <1>4, <1>a, <2>2, <2>3, TriggerSteps, LockStep
<1>5. CASE Commit(t)
  <2>1. /\ mine'[t] = NoRows /\ wrote'[t] = {} /\ keys'[t] = {} /\ shares'[t] = {}
        /\ pc'[t] = "committed" /\ Only(t) /\ todo'[t] = <<>> /\ op'[t] = NoOp
        /\ snap' = [r \in Restaurants |-> snap'[r]]
    BY <1>5, CommitFacts
  <2>2. \A r \in Restaurants : mine'[t][r] = NoPayload
    BY <2>1 DEF NoRows
  <2>3. Paced(t)'
    BY <2>1 DEF Paced, Active
  <2> QED BY <2>1, <2>2, <2>3, LockStep
<1>6. CASE Rollback(t)
  <2>1. \A r \in Restaurants : mine'[t][r] = NoPayload
    BY <1>6, RolledBack DEF NoRows
  <2>2. Paced(t)'
    BY <1>6, RolledBack DEF Paced, Active
  <2> QED BY <1>6, <1>a, <2>1, <2>2, RolledBack, LockStep
<1> QED BY <1>0, <1>1, <1>2, <1>3, <1>4, <1>5, <1>6 DEF Step, DeadlockVictim, Refuse

LEMMA LocksInit == Init => LockInv
<1> SUFFICES ASSUME Init PROVE LockInv
  OBVIOUS
<1>1. /\ pc = [t \in Txs |-> "idle"] /\ op = [t \in Txs |-> NoOp] /\ todo = [t \in Txs |-> <<>>]
      /\ wrote = [t \in Txs |-> {}] /\ keys = [t \in Txs |-> {}]
      /\ mine = [t \in Txs |-> NoRows] /\ snap = [r \in Restaurants |-> Payload(db, r)]
  BY DEF Init
<1>2. \A t \in Txs : Paced(t)
  BY <1>1 DEF Paced, Active
<1>3. OneHolder
  BY <1>1 DEF OneHolder, SnapshotLockedBy, NoRows
<1> QED BY <1>1, <1>2, <1>3 DEF LockInv

LEMMA LocksStutter ==
  ASSUME LockInv, UNCHANGED vars
  PROVE  LockInv'
<1>1. /\ pc' = pc /\ op' = op /\ todo' = todo /\ wrote' = wrote /\ keys' = keys
      /\ shares' = shares /\ fired' = fired /\ loop' = loop /\ cur' = cur
      /\ mine' = mine /\ snap' = snap
  BY DEF vars, locks
<1>2. \A u \in Txs : Paced(u)'
  BY <1>1 DEF LockInv, Paced, Active, OneStatement, Silent, SnapshotLockedBy
<1>3. OneHolder'
  BY <1>1 DEF LockInv, OneHolder, SnapshotLockedBy
<1> QED BY <1>1, <1>2, <1>3 DEF LockInv

LEMMA LocksHold == Spec => [](IInv /\ LockInv)
<1>1. IInv /\ LockInv /\ [Next]_vars => IInv' /\ LockInv'
  BY NextKeeps, StutterKeeps, LocksKept, LocksStutter
<1> QED BY <1>1, InitHolds, LocksInit, PTL DEF Spec

----------------------------------------------------------------------------
(* Who waits with a snapshot row in hand.                                  *)

\* Who waits and holds a snapshot row writes an item, deletes a menu or edits
\* an allergen.
LEMMA HoldersWait ==
  ASSUME IInv, LockInv, NEW t \in Txs, NEW u \in Txs, Waits(t, u),
         NEW r \in Restaurants, SnapshotLockedBy(t, r)
  PROVE  op[t].name \in LocksOn
<1> SUFFICES ASSUME op[t].name \notin LocksOn PROVE FALSE
  OBVIOUS
<1>1. Active(t) /\ todo[t] # <<>>
  BY DEF Waits, Writing, Active, IInv, OK, Staged
<1>2. OneStatement(t)
  BY <1>1 DEF LockInv, Paced, Silent
<1>3. CASE Writing(t)
  BY <1>2, <1>3 DEF OneStatement, Writing
<1>4. CASE pc[t] = "upsert" /\ SnapshotLockedBy(u, cur[t]) /\ u # t
  <2>1. cur[t] # NoRestaurant /\ cur[t] \in Restaurants
    BY <1>4 DEF IInv, TypeOK, OK, Staged
  <2>2. cur[t] \in Touched(wrote[t]) /\ r \in Touched(wrote[t])
    BY <2>1 DEF IInv, OK, Bounded, SnapshotLockedBy
  <2>3. cur[t] \in op[t].scope /\ r \in op[t].scope
    BY <2>2 DEF IInv, OK, Scoped
  <2>4. r = cur[t]
    BY <1>2, <2>3 DEF OneStatement
  <2> QED BY <1>4, <2>1, <2>4 DEF LockInv, OneHolder
<1> QED BY <1>3, <1>4 DEF Waits

(* SnapshotRowLast: a request that waits for another one while it holds a
   snapshot row is writing an item, deleting a menu or editing an allergen. *)
THEOREM SnapshotRowComesLast == Spec => []SnapshotRowLast
<1>1. IInv /\ LockInv => SnapshotRowLast
  BY HoldersWait DEF SnapshotRowLast, Waiting
<1> QED BY <1>1, LocksHold, PTL

----------------------------------------------------------------------------
(* Every step of a transaction is a step of an edit, or none.              *)

LEMMA OnlyConcern ==
  ASSUME IInv, NEW t \in Txs, Only(t)
  PROVE  [u \in Txs |-> op'[u].scope] = [[u \in Txs |-> op[u].scope] EXCEPT ![t] = op'[t].scope]
<1>1. \A u \in Txs : u # t => op'[u] = op[u]
  BY OthersStay
<1> QED BY <1>1

\* An edit in progress concerns a restaurant, if there is any.
LEMMA ConcernFacts ==
  ASSUME LockInv, Restaurants # {}, NEW t \in Txs
  PROVE  /\ Active(t) <=> op[t].scope # {}
         /\ Active(t) => op[t].scope \in {{r} : r \in Restaurants} \cup {Restaurants}
<1>1. /\ ~Active(t) => op[t] = NoOp
      /\ Active(t) => op[t].scope \in {{r} : r \in Restaurants} \cup {Restaurants}
  BY DEF LockInv, Paced
<1>2. ~Active(t) => op[t].scope = {}
  BY <1>1 DEF NoOp
<1>3. Active(t) => op[t].scope # {}
  BY <1>1
<1> QED BY <1>1, <1>2, <1>3

\* The steps between its beginning and its end.
LEMMA StepFrame ==
  ASSUME IInv, LockInv, NEW t \in Txs,
         \/ WriteRow(t) \/ ShareKey(t) \/ PassCheck(t) \/ EndStatement(t)
         \/ FireTrigger(t) \/ BuildHead(t) \/ BuildMenus(t) \/ Upsert(t)
  PROVE  UNCHANGED <<db, snap, op, overtaken>>
<1>1. CASE WriteRow(t) \/ ShareKey(t) \/ PassCheck(t)
  BY <1>1, WritesRow, Locks DEF WriteFrame
<1>2. CASE EndStatement(t)
  BY <1>2, EndsStatement
<1>3. CASE FireTrigger(t) \/ BuildHead(t) \/ BuildMenus(t) \/ Upsert(t)
  BY <1>3, TriggerSteps
<1> QED BY <1>1, <1>2, <1>3

LEMMA BeginStarts ==
  ASSUME IInv, LockInv, LockInv', Restaurants # {}, NEW t \in Txs, Begin(t)
  PROVE  Edited!Start(t)
<1>1. /\ Only(t) /\ ~Active(t) /\ pc'[t] = "open" /\ UNCHANGED <<db, snap>>
      /\ overtaken' = [overtaken EXCEPT ![t] = {}]
  BY Begun
<1>2. op[t].scope = {}
  BY <1>1, ConcernFacts
<1>3. op'[t].scope \in {{r} : r \in Restaurants} \cup {Restaurants}
  BY <1>1 DEF LockInv, Paced, Active
<1>4. [u \in Txs |-> op'[u].scope] = [[u \in Txs |-> op[u].scope] EXCEPT ![t] = op'[t].scope]
  BY <1>1, OnlyConcern
<1> QED BY <1>1, <1>2, <1>3, <1>4 DEF Edited!Start, Edited!InProgress

LEMMA RollbackGivesUp ==
  ASSUME IInv, LockInv, Restaurants # {}, NEW t \in Txs, Rollback(t)
  PROVE  Edited!GiveUp(t)
<1>1. Active(t) /\ Only(t) /\ UNCHANGED <<db, snap, overtaken>> /\ op'[t].scope = {}
  BY RolledBack DEF NoOp
<1>2. op[t].scope # {}
  BY <1>1, ConcernFacts
<1>3. [u \in Txs |-> op'[u].scope] = [[u \in Txs |-> op[u].scope] EXCEPT ![t] = {}]
  BY <1>1, OnlyConcern
<1> QED BY <1>1, <1>2, <1>3 DEF Edited!GiveUp, Edited!InProgress

\* What a commit does to a restaurant's tables and to its menu.
LEMMA CommitPublishes ==
  ASSUME IInv, NEW t \in Txs, Commit(t), NEW r \in Restaurants
  PROVE  /\ r \notin op[t].scope
              => Payload(db', r) = Payload(db, r) /\ snap'[r] = snap[r]
         /\ r \notin overtaken[t]
              => \/ snap'[r] = Payload(db', r)
                 \/ Payload(db', r) = Payload(db, r) /\ snap'[r] = snap[r]
<1>1. /\ db' = View(t)
      /\ snap'[r] = IF mine[t][r] # NoPayload THEN mine[t][r] ELSE snap[r]
      /\ r \notin overtaken[t] => UpToDate(t, r)
  BY CommitFacts
<1>2. ASSUME r \notin op[t].scope
      PROVE  Payload(db', r) = Payload(db, r) /\ snap'[r] = snap[r]
  <2>0. r \notin Touched(wrote[t])
    BY <1>2 DEF IInv, OK, Scoped
  <2>1. mine[t][r] = NoPayload
    BY <2>0 DEF IInv, OK, Bounded
  <2>2. Assigned(db, r) \in SUBSET Allergens
    BY DocumentOfView DEF IInv, TypeOK, PastOnly
  <2>3. \A y \in Scope(db, r) : db[y] = View(t)[y]
    BY <2>0, <2>2, UntouchedFacts
  <2> QED BY <1>1, <2>1, <2>3, SameDocument
<1>3. ASSUME r \notin overtaken[t]
      PROVE  \/ snap'[r] = Payload(db', r)
             \/ Payload(db', r) = Payload(db, r) /\ snap'[r] = snap[r]
  <2>1. Payload(View(t), r) # NoPayload
    <3>1. IsDocument(Payload(View(t), r), r, Known(t))
      BY ViewFacts, DocumentOfView
    <3>2. ~IsDocument(NoPayload, r, Known(t))
      BY KnownFacts, NoPayloadIsNone
    <3> QED BY <3>1, <3>2, Zenon
  <2> QED BY <1>1, <1>3, <2>1 DEF UpToDate
<1> QED BY <1>2, <1>3

LEMMA CommitFinishes ==
  ASSUME IInv, LockInv, Restaurants # {}, NEW t \in Txs, Commit(t)
  PROVE  Edited!Finish(t)
<1>1. /\ Active(t) /\ Only(t) /\ op'[t].scope = {}
      /\ overtaken' = [u \in Txs |-> IF u # t /\ Active(u)
                                     THEN overtaken[u] \cup op[t].scope
                                     ELSE overtaken[u]]
  <2>1. pc[t] = "open" /\ Only(t) /\ op'[t] = NoOp
    BY CommitFacts
  <2>2. overtaken' = [u \in Txs |-> IF u # t /\ Active(u)
                                    THEN overtaken[u] \cup op[t].scope
                                    ELSE overtaken[u]]
    BY DEF Commit
  <2> QED BY <2>1, <2>2 DEF NoOp, Active
<1>2. op[t].scope # {} /\ op[t].scope \subseteq Restaurants
  BY <1>1, ConcernFacts
<1>3. [u \in Txs |-> op'[u].scope] = [[u \in Txs |-> op[u].scope] EXCEPT ![t] = {}]
  BY <1>1, OnlyConcern
<1>4. \A r \in Restaurants \ op[t].scope : Payload(db', r) = Payload(db, r) /\ snap'[r] = snap[r]
  BY CommitPublishes
<1>5. \A r \in op[t].scope \ overtaken[t] :
        /\ r \in Restaurants
        /\ \/ snap'[r] = Payload(db', r)
           \/ Payload(db', r) = Payload(db, r) /\ snap'[r] = snap[r]
  BY <1>2, CommitPublishes
<1>6. \A u \in Txs : Active(u) <=> op[u].scope # {}
  BY ConcernFacts
<1>7. overtaken' = [u \in Txs |-> IF u # t /\ op[u].scope # {}
                                  THEN overtaken[u] \cup op[t].scope ELSE overtaken[u]]
  BY <1>1, <1>6
<1>8. Edited!InProgress(t)
  BY <1>2 DEF Edited!InProgress
<1>9. \A r \in Restaurants :
        Edited!Unchanged(r) <=> Payload(db', r) = Payload(db, r) /\ snap'[r] = snap[r]
  BY DEF Edited!Unchanged, Payload, HeadOf, MenusOf, Assigned
<1> QED BY <1>2, <1>3, <1>4, <1>5, <1>7, <1>8, <1>9 DEF Edited!Finish, Edited!InProgress

\* Where there is no restaurant there is nothing to see.
LEMMA NothingToEdit ==
  ASSUME IInv, LockInv, IInv', LockInv', Restaurants = {}
  PROVE  UNCHANGED Edited!edited
<1>1. snap' = snap
  BY DEF LockInv
<1>2. overtaken' = overtaken
  <2>1. overtaken \in [Txs -> SUBSET Restaurants] /\ overtaken' \in [Txs -> SUBSET Restaurants]
    BY DEF IInv, TypeOK
  <2>2. \A u \in Txs : overtaken'[u] = overtaken[u]
    BY <2>1
  <2> QED BY <2>1, <2>2
<1>3. \A u \in Txs : op[u].scope = {} /\ op'[u].scope = {}
  BY DEF IInv, TypeOK
<1> QED BY <1>1, <1>2, <1>3 DEF Edited!edited

LEMMA EditsStutter ==
  ASSUME UNCHANGED <<db, snap, op, overtaken>>
  PROVE  UNCHANGED Edited!edited
BY DEF Edited!edited, Payload, HeadOf, MenusOf, Assigned

LEMMA EditsGoOn ==
  ASSUME IInv, LockInv, IInv', LockInv', [Next]_vars
  PROVE  [Edited!Next]_(Edited!edited)
<1>1. CASE UNCHANGED vars
  BY <1>1, EditsStutter DEF vars
<1>2. CASE Restaurants = {}
  BY <1>2, NothingToEdit
<1>3. ASSUME Restaurants # {}, NEW t \in Txs, Begin(t) \/ Step(t) \/ Rollback(t)
      PROVE  UNCHANGED Edited!edited \/ Edited!Start(t) \/ Edited!Finish(t) \/ Edited!GiveUp(t)
  BY <1>3, StepFrame, EditsStutter, BeginStarts, RollbackGivesUp, CommitFinishes
     DEF Step, DeadlockVictim, Refuse
<1> QED BY <1>1, <1>2, <1>3 DEF Next, Edited!Next

LEMMA EditsBegin ==
  ASSUME Init
  PROVE  Edited!Init
<1>1. /\ snap = [r \in Restaurants |-> Payload(db, r)] /\ overtaken = [t \in Txs |-> {}]
      /\ op = [t \in Txs |-> NoOp]
  BY DEF Init
<1>2. \A t \in Txs : op[t].scope = {}
  BY <1>1 DEF NoOp
<1> QED BY <1>1, <1>2 DEF Edited!Init

(* EditedSpec: the transactions implement EditedMenus.  Locks, cascades,
   triggers and rollbacks in between, an edit leaves the menus of other
   restaurants alone and publishes its own as they are, unless another edit
   of the same restaurant, or of an allergen, finished since it began. *)
THEOREM ImplementsEditedMenus == Spec => EditedSpec
<1>1. IInv /\ LockInv /\ IInv' /\ LockInv' /\ [Next]_vars => [Edited!Next]_(Edited!edited)
  BY EditsGoOn
<1> QED BY <1>1, EditsBegin, LocksHold, PTL DEF Spec, EditedSpec, Edited!Spec

----------------------------------------------------------------------------
\* No edit of a restaurant, or of an allergen, finishes during another one's
\* life that concerns the same restaurant.
NeverCrossed == [][\A t \in Txs : Commits(t) => op[t].scope \cap overtaken[t] = {}]_vars

(* What src/README.md promises, the full, up-to-date menu, holds at every
   moment and not only when all is quiet, as long as no two edits cross: the
   behaviours that break it are those of StaleOnlyByOverlap and no others. *)
THEOREM UncrossedIsUpToDate ==
  Spec /\ NeverCrossed => [](QuietMenuUpToDate /\ \A r \in Restaurants : snap[r] = Payload(db, r))
<1> DEFINE Current == \A r \in Restaurants : snap[r] = Payload(db, r)
           Uncrossed == \A t \in Txs : Commits(t) => op[t].scope \cap overtaken[t] = {}
<1>1. Init => Current
  BY DEF Init
<1>2. ASSUME IInv, LockInv, IInv', LockInv', [Next]_vars, [Uncrossed]_vars, Current
      PROVE  Current'
  <2>1. CASE UNCHANGED <<db, snap>>
    BY <1>2, <2>1 DEF Payload, HeadOf, MenusOf, Assigned
  <2>2. ASSUME NEW t \in Txs, Commit(t) PROVE Current'
    <3>1. Commits(t) /\ ~UNCHANGED vars
      BY <1>2, <2>2, CommitFacts DEF Commits, vars
    <3>2. op[t].scope \cap overtaken[t] = {}
      BY <1>2, <3>1
    <3>3. ASSUME NEW r \in Restaurants PROVE snap'[r] = Payload(db', r)
      BY <1>2, <2>2, <3>2, CommitPublishes
    <3>4. \A r \in Restaurants : Payload(db, r)' = Payload(db', r)
      BY DEF Payload, HeadOf, MenusOf, Assigned
    <3> QED BY <3>3, <3>4
  <2>3. UNCHANGED vars => UNCHANGED <<db, snap>>
    BY DEF vars
  <2>4. ASSUME NEW t \in Txs, Begin(t) \/ Step(t) \/ Rollback(t), ~Commit(t)
        PROVE  UNCHANGED <<db, snap>>
    BY <1>2, <2>4, Begun, RolledBack, StepFrame DEF Step, DeadlockVictim, Refuse
  <2> QED BY <1>2, <2>1, <2>2, <2>3, <2>4 DEF Next
<1>3. Current => QuietMenuUpToDate
  BY DEF QuietMenuUpToDate
<1> HIDE DEF Current, Uncrossed
<1>4. Spec /\ [][Uncrossed]_vars => [](QuietMenuUpToDate /\ Current)
  BY <1>1, <1>2, <1>3, LocksHold, PTL DEF Spec
<1> QED BY <1>4 DEF Current, Uncrossed, NeverCrossed
=============================================================================
