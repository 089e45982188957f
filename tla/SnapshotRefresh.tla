-------------------------- MODULE SnapshotRefresh --------------------------
(***************************************************************************)
(* How the public menu is kept: every admin edit is a PostgreSQL           *)
(* transaction at READ COMMITTED, whose AFTER row triggers rebuild the     *)
(* restaurant's row of public_menu_snapshots inside the same transaction.  *)
(* The rebuild is not one step: it reads the restaurant, its hours and its *)
(* specials (one query), then the menus with everything under them (a      *)
(* second query, with a newer snapshot of the database), and then writes   *)
(* the document, which waits for the row lock of the snapshot row and      *)
(* overwrites whatever it finds there.                                     *)
(*                                                                         *)
(* A row stands for one slot of a table; its value is the transaction that *)
(* last wrote it (an insertion, an update and a deletion are all writes;   *)
(* the next insertion may use the slot of a deleted row), and the row of   *)
(* assignments also holds the allergens of the item.  Each transaction of  *)
(* Txs runs at most once, which bounds the versions.                       *)
(*                                                                         *)
(* Transactions wait for each other's row locks, for the KEY SHARE locks   *)
(* an inserted or re-pointed row takes on the rows its foreign keys name,  *)
(* and in the check an ON DELETE RESTRICT key makes of a deletion.         *)
(***************************************************************************)
EXTENDS Naturals, Sequences, FiniteSets

CONSTANTS Restaurants,  \* restaurants, all of one organization
          Allergens,    \* allergens of the organization
          Txs,          \* admin requests that write
          OpNames,      \* the operations the requests may choose
          Indexed,      \* tables with a unique index on what an edit may change
          NoTx,         \* the writer of the initial rows
          NoRestaurant, \* no refresh is being computed
          NoPayload     \* no snapshot row written by the transaction

----------------------------------------------------------------------------
(* Rows, and what a restaurant's document is made of.                      *)

HeadTables  == {"restaurants", "hours"}
MenuTables  == {"menus", "sections", "entries", "items", "assignments"}
HeadRows(r) == HeadTables \X {r}
MenuRows(r) == MenuTables \X {r}
Rows == ((HeadTables \cup MenuTables) \X Restaurants) \cup ({"allergens"} \X Allergens)
Writers == Txs \cup {NoTx}
Cells == [by : Writers, allergens : SUBSET Allergens]

\* What refresh_public_menu_snapshot can build for restaurant r out of what the
\* requests in W wrote.
IsDocument(p, r, W) ==
  \E A \in SUBSET Allergens :
    p \in [head : [HeadRows(r) -> W], menus : [MenuRows(r) \cup ({"allergens"} \X A) -> W]]

ASSUME AllergensFinite == IsFiniteSet(Allergens)
ASSUME FreshNames ==
  /\ NoTx \notin Txs
  /\ NoRestaurant \notin Restaurants
  /\ \A r \in Restaurants : ~IsDocument(NoPayload, r, Writers)

\* The allergens assigned to the item of restaurant r in view v.
Assigned(v, r) == v[<<"assignments", r>>].allergens

\* Faulty: the list of items build_public_menu_payload also makes stays in.
HeadKeepsItems(v, r) == [x \in HeadRows(r) \cup {<<"items", r>>} |-> v[x].by]

\* build_public_menu_payload: the restaurant, its hours and its specials.
HeadOf(v, r) == [x \in HeadRows(r) |-> v[x].by]

\* The second query of the refresh: menus, sections, entries, items and the
\* allergens joined through the assignments.
MenusOf(v, r) ==
  [x \in MenuRows(r) \cup ({"allergens"} \X Assigned(v, r)) |-> v[x].by]

Payload(v, r) == [head |-> HeadOf(v, r), menus |-> MenusOf(v, r)]

----------------------------------------------------------------------------
(* The operations.  An operation is a sequence of batches: what one SQL    *)
(* statement writes and locks, in order, before its AFTER triggers refresh *)
(* anything.                                                               *)

\* "update" locks a row FOR NO KEY UPDATE, "rekey" (an update of a column of a
\* unique index) and "delete" FOR UPDATE, "share" FOR KEY SHARE.  "check" is the
\* look for rows that still name a deleted one.  Rows of assignments are
\* inserted with the allergen given.
Demands == [mode : {"update", "rekey", "delete", "share", "check"}, row : Rows,
            gives : SUBSET Allergens]

Demand(mode, x) == [mode |-> mode, row |-> x, gives |-> {}]
Update(x)    == Demand("update", x)
Rekey(x)     == Demand("rekey", x)
Delete(x)    == Demand("delete", x)
Share(x)     == Demand("share", x)
Assign(r, a) == [mode |-> "update", row |-> <<"assignments", r>>, gives |-> {a}]

\* Edits of restaurant r by one statement, one for each batch of B.
Statements(name, r, B) == {[name |-> name, scope |-> {r}, batches |-> <<b>>] : b \in B}

\* An edit of a row in place.  The indexes of the tables the migrations find
\* in place are not in the repository.
Changes(x) == IF x[1] \in Indexed THEN {<<Update(x)>>, <<Rekey(x)>>} ELSE {<<Update(x)>>}

UpdateRestaurant(r) == Statements("UpdateRestaurant", r, Changes(<<"restaurants", r>>))

\* Created rows name the restaurant; nothing names an hour.
WriteHours(r) ==
  Statements("WriteHours", r,
    {<<Update(<<"hours", r>>)>>, <<Update(<<"hours", r>>), Share(<<"restaurants", r>>)>>})

\* Faulty: a second statement then touches the restaurant of the menu.
WriteMenuAndRestaurant(r) ==
  {[name |-> "WriteMenu", scope |-> {r},
    batches |-> << <<Update(<<"menus", r>>)>>, <<Update(<<"restaurants", r>>)>> >>]}

WriteMenu(r) ==
  Statements("WriteMenu", r,
    Changes(<<"menus", r>>) \cup {<<Update(<<"menus", r>>), Share(<<"restaurants", r>>)>>})

WriteMenuSection(r) ==
  Statements("WriteMenuSection", r,
    {<<Update(<<"sections", r>>)>>, <<Update(<<"sections", r>>), Share(<<"menus", r>>)>>})

\* An entry is edited in place, pointed at another item, created or deleted.
WriteMenuEntry(r) ==
  Statements("WriteMenuEntry", r,
    {<<Update(<<"entries", r>>)>>,
     <<Rekey(<<"entries", r>>), Share(<<"items", r>>)>>,
     <<Update(<<"entries", r>>), Share(<<"sections", r>>), Share(<<"items", r>>)>>,
     <<Delete(<<"entries", r>>)>>})

\* The cascade deletes the sections before the menu's own trigger refreshes,
\* and the entries only after it: the constraint triggers of the sections are
\* queued behind the refresh of the menu.
DeleteMenu(r) ==
  {[name |-> "DeleteMenu", scope |-> {r},
    batches |-> << <<Delete(<<"menus", r>>), Delete(<<"sections", r>>)>>,
                   <<Delete(<<"entries", r>>)>> >>]}

\* Faulty: the entries go only after the section's own refresh.
DeleteSectionLate(r) ==
  {[name |-> "DeleteMenuSection", scope |-> {r},
    batches |-> << <<Delete(<<"sections", r>>)>>, <<Delete(<<"entries", r>>)>> >>]}

DeleteMenuSection(r) ==
  Statements("DeleteMenuSection", r, {<<Delete(<<"sections", r>>), Delete(<<"entries", r>>)>>})

\* The allergens a request gives to an item, in its order and each once.
Lists == {s \in UNION {[1..n -> Allergens] : n \in 0..Cardinality(Allergens)} :
            \A i, j \in DOMAIN s : s[i] = s[j] => i = j}

\* The assignments of an item are all deleted, then inserted one by one.
ReplaceAssignments(r, s) ==
  << <<Delete(<<"assignments", r>>)>> >>
    \o [i \in DOMAIN s |-> <<Assign(r, s[i]), Share(<<"restaurants", r>>),
                             Share(<<"allergens", s[i]>>)>>]

\* The item is updated or created first, then its assignments are replaced.
WriteCatalogItem(r) ==
  LET first == Changes(<<"items", r>>)
                 \cup {<<Update(<<"items", r>>), Share(<<"restaurants", r>>)>>}
  IN {[name |-> "WriteCatalogItem", scope |-> {r},
       batches |-> <<w[1]>> \o ReplaceAssignments(r, w[2])] : w \in first \X Lists}

DeleteCatalogItem(r) ==
  Statements("DeleteCatalogItem", r, {<<Delete(<<"items", r>>), Delete(<<"assignments", r>>)>>})

UpdateAllergen(a) ==
  {[name |-> "UpdateAllergen", scope |-> Restaurants, batches |-> <<b>>] :
     b \in Changes(<<"allergens", a>>)}

DeleteAllergen(a) ==
  {[name |-> "DeleteAllergen", scope |-> Restaurants, batches |-> << <<Delete(<<"allergens", a>>)>> >>]}

RestaurantOps(r) ==
  UpdateRestaurant(r) \cup WriteHours(r) \cup WriteMenu(r) \cup WriteMenuSection(r)
    \cup WriteMenuEntry(r) \cup DeleteMenu(r) \cup DeleteMenuSection(r)
    \cup WriteCatalogItem(r) \cup DeleteCatalogItem(r)

AllOps == (UNION {RestaurantOps(r) : r \in Restaurants})
            \cup (UNION {UpdateAllergen(a) \cup DeleteAllergen(a) : a \in Allergens})

Ops == {o \in AllOps : o.name \in OpNames}

\* No request is served.
NoOp == [name |-> "none", scope |-> {}]

----------------------------------------------------------------------------
VARIABLES
  db,        \* committed rows
  snap,      \* committed rows of public_menu_snapshots, by restaurant
  pc,        \* "idle", "open", "menus", "upsert", "committed" or "aborted"
  op,        \* the operation served, and the restaurants it concerns
  todo,      \* batches the transaction has still to write
  uses,      \* the allergens it has given so far to the item it writes
  wrote,     \* rows it has written, and so locked
  keys,      \* those it has deleted or re-keyed
  shares,    \* rows it has locked FOR KEY SHARE
  fired,     \* rows whose trigger is queued
  loop,      \* restaurants the running trigger has still to refresh
  cur,       \* restaurant whose document it is computing
  head,      \* first part of that document, as read
  menus,     \* second part
  mine,      \* snapshot rows it has written, and so locked
  overtaken, \* history: restaurants concerned by others' commits since it began
  raced      \* history: the last edit of the restaurant was overtaken

vars == <<db, snap, pc, op, todo, uses, wrote, keys, shares, fired, loop, cur, head,
          menus, mine, overtaken, raced>>
locks  == <<wrote, keys, shares>>
ghosts == <<overtaken, raced>>

Active(t) == pc[t] \in {"open", "menus", "upsert"}

\* What transaction t sees: the committed rows under its own writes.
View(t) ==
  [x \in Rows |->
     IF x \in wrote[t]
     THEN [by |-> t, allergens |-> IF x[1] = "assignments" THEN uses[t] ELSE {}]
     ELSE db[x]]

NoRows == [r \in Restaurants |-> NoPayload]

Init ==
  /\ \E given \in [Restaurants -> SUBSET Allergens] :
       db = [x \in Rows |->
               [by |-> NoTx,
                allergens |-> IF x[1] = "assignments" THEN given[x[2]] ELSE {}]]
  /\ snap = [r \in Restaurants |-> Payload(db, r)]
  /\ pc = [t \in Txs |-> "idle"]
  /\ op = [t \in Txs |-> NoOp]
  /\ todo = [t \in Txs |-> <<>>]
  /\ uses = [t \in Txs |-> {}]
  /\ wrote = [t \in Txs |-> {}]
  /\ keys = [t \in Txs |-> {}]
  /\ shares = [t \in Txs |-> {}]
  /\ fired = [t \in Txs |-> {}]
  /\ loop = [t \in Txs |-> {}]
  /\ cur = [t \in Txs |-> NoRestaurant]
  /\ head = [t \in Txs |-> <<>>]
  /\ menus = [t \in Txs |-> <<>>]
  /\ mine = [t \in Txs |-> NoRows]
  /\ overtaken = [t \in Txs |-> {}]
  /\ raced = [r \in Restaurants |-> FALSE]

----------------------------------------------------------------------------
(* Steps of a transaction.                                                 *)

\* A request arrives and opens its transaction.
Begin(t) ==
  /\ pc[t] = "idle"
  /\ \E o \in Ops :
       /\ op' = [op EXCEPT ![t] = [name |-> o.name, scope |-> o.scope]]
       /\ todo' = [todo EXCEPT ![t] = o.batches]
  /\ pc' = [pc EXCEPT ![t] = "open"]
  /\ overtaken' = [overtaken EXCEPT ![t] = {}]
  /\ UNCHANGED <<db, snap, uses, locks, fired, loop, cur, head, menus, mine, raced>>

\* The statement under way has rows left to write or to lock.
Writing(t)  == pc[t] = "open" /\ todo[t] # <<>> /\ Head(todo[t]) # <<>>
NextDemand(t) == Head(Head(todo[t]))

\* The statement goes on with the demands s, then with what was queued.
GoOn(t, s) == todo' = [todo EXCEPT ![t] = <<s \o Tail(Head(@))>> \o Tail(@)]

\* The rows that name x by a RESTRICT key and that u is deleting or pointing
\* elsewhere: whether they still name x is known when u ends.
ReferenceIn(t, u, x) ==
  \/ x[1] = "items" /\ <<"entries", x[2]>> \in keys[u]
  \/ /\ x[1] = "allergens"
     /\ \E r \in Restaurants : x[2] \in Assigned(View(t), r) /\ <<"assignments", r>> \in keys[u]

\* What t has to do next meets a lock of u.
Blocks(u, t) ==
  LET d == NextDemand(t) IN
  \/ d.mode = "update" /\ d.row \in wrote[u]
  \/ d.mode \in {"rekey", "delete"} /\ d.row \in wrote[u] \cup shares[u]
  \/ d.mode = "share" /\ d.row \in keys[u]
  \/ d.mode = "check" /\ ReferenceIn(t, u, d.row)

\* The statement is under way and not held up.
Free(t) == Writing(t) /\ \A u \in Txs \ {t} : ~Blocks(u, t)

\* Deleting the assignments of an item without any writes no row.
NothingToDelete(t, x) == x[1] = "assignments" /\ Assigned(View(t), x[2]) = {}

\* The deletion of a row that a RESTRICT key may name is checked at once.
Checks(d) ==
  IF d.mode = "delete" /\ d.row[1] \in {"items", "allergens"}
  THEN <<Demand("check", d.row)>> ELSE <<>>

\* Rows of allergens have no DELETE trigger.
HasTrigger(d) == ~(d.mode = "delete" /\ d.row[1] = "allergens")

\* Write one row once its lock is free, and queue the row's trigger.
WriteRow(t) ==
  /\ Free(t)
  /\ LET d == NextDemand(t)
         touch == IF d.mode = "delete" /\ NothingToDelete(t, d.row) THEN {} ELSE {d.row}
     IN /\ d.mode \in {"update", "rekey", "delete"}
        /\ wrote' = [wrote EXCEPT ![t] = @ \cup touch]
        /\ keys' = [keys EXCEPT ![t] = IF d.mode = "update" THEN @ ELSE @ \cup touch]
        /\ fired' = [fired EXCEPT ![t] = IF HasTrigger(d) THEN @ \cup touch ELSE @]
        /\ uses' = [uses EXCEPT ![t] = @ \cup d.gives]
        /\ GoOn(t, Checks(d))
  /\ UNCHANGED <<db, snap, pc, op, shares, loop, cur, head, menus, mine, ghosts>>

\* A foreign key is checked: the row it names is there to stay.
ShareKey(t) ==
  /\ Free(t)
  /\ NextDemand(t).mode = "share"
  /\ shares' = [shares EXCEPT ![t] = @ \cup {NextDemand(t).row}]
  /\ GoOn(t, <<>>)
  /\ UNCHANGED <<db, snap, pc, op, uses, wrote, keys, fired, loop, cur, head, menus, mine, ghosts>>

\* An assignment still names the allergen.  Which entries name an item is not
\* modelled: the deletion of an item may be refused (Rollback) or go on.
Named(t, x) == x[1] = "allergens" /\ \E r \in Restaurants : x[2] \in Assigned(View(t), r)

PassCheck(t) ==
  /\ Free(t)
  /\ NextDemand(t).mode = "check"
  /\ ~Named(t, NextDemand(t).row)
  /\ GoOn(t, <<>>)
  /\ UNCHANGED <<db, snap, pc, op, uses, locks, fired, loop, cur, head, menus, mine, ghosts>>

\* The statement is done writing and its triggers run, one row at a time.
Triggering(t) == pc[t] = "open" /\ todo[t] # <<>> /\ Head(todo[t]) = <<>>

\* Faulty: menu_entries has no trigger.
RefreshesNotEntries(t, x) == IF x[1] = "entries" THEN {} ELSE {x[2]} \cap Restaurants

\* Faulty: allergens has no trigger.
RefreshesNotAllergens(t, x) == IF x[1] = "allergens" THEN {} ELSE {x[2]}

\* The restaurants a row's trigger refreshes.  A child row names its
\* restaurant; an allergen's trigger looks up those with an assignment of it.
Refreshes(t, x) ==
  IF x[1] = "allergens"
  THEN {r \in Restaurants : x[2] \in Assigned(View(t), r)}
  ELSE {x[2]}

\* A row's trigger starts.
FireTrigger(t) ==
  /\ Triggering(t)
  /\ loop[t] = {}
  /\ \E x \in fired[t] :
       /\ fired' = [fired EXCEPT ![t] = @ \ {x}]
       /\ loop' = [loop EXCEPT ![t] = Refreshes(t, x)]
  /\ UNCHANGED <<db, snap, pc, op, todo, uses, locks, cur, head, menus, mine, ghosts>>

\* refresh_public_menu_snapshot(r), first query.
BuildHead(t) ==
  /\ Triggering(t)
  /\ \E r \in loop[t] :
       /\ loop' = [loop EXCEPT ![t] = @ \ {r}]
       /\ cur' = [cur EXCEPT ![t] = r]
       /\ head' = [head EXCEPT ![t] = HeadOf(View(t), r)]
  /\ pc' = [pc EXCEPT ![t] = "menus"]
  /\ UNCHANGED <<db, snap, op, todo, uses, locks, fired, menus, mine, ghosts>>

\* Second query.
BuildMenus(t) ==
  /\ pc[t] = "menus"
  /\ menus' = [menus EXCEPT ![t] = MenusOf(View(t), cur[t])]
  /\ pc' = [pc EXCEPT ![t] = "upsert"]
  /\ UNCHANGED <<db, snap, op, todo, uses, locks, fired, loop, cur, head, mine, ghosts>>

SnapshotLockedBy(u, r) == mine[u][r] # NoPayload

\* Faulty: the document is written outside the edit's transaction.
UpsertPublished(t) ==
  /\ pc[t] = "upsert"
  /\ \A u \in Txs \ {t} : ~SnapshotLockedBy(u, cur[t])
  /\ snap' = [snap EXCEPT ![cur[t]] = [head |-> head[t], menus |-> menus[t]]]
  /\ cur' = [cur EXCEPT ![t] = NoRestaurant]
  /\ pc' = [pc EXCEPT ![t] = "open"]
  /\ head' = [head EXCEPT ![t] = <<>>]
  /\ menus' = [menus EXCEPT ![t] = <<>>]
  /\ UNCHANGED <<db, op, todo, uses, locks, fired, loop, mine, ghosts>>

\* INSERT ... ON CONFLICT DO UPDATE waits for the snapshot row, then writes
\* the document it brought along.
Upsert(t) ==
  /\ pc[t] = "upsert"
  /\ \A u \in Txs \ {t} : ~SnapshotLockedBy(u, cur[t])
  /\ mine' = [mine EXCEPT ![t][cur[t]] = [head |-> head[t], menus |-> menus[t]]]
  /\ cur' = [cur EXCEPT ![t] = NoRestaurant]
  /\ pc' = [pc EXCEPT ![t] = "open"]
  /\ head' = [head EXCEPT ![t] = <<>>]
  /\ menus' = [menus EXCEPT ![t] = <<>>]
  /\ UNCHANGED <<db, snap, op, todo, uses, locks, fired, loop, ghosts>>

\* All triggers of the statement have run.
EndStatement(t) ==
  /\ Triggering(t)
  /\ fired[t] = {} /\ loop[t] = {}
  /\ todo' = [todo EXCEPT ![t] = Tail(@)]
  /\ UNCHANGED <<db, snap, pc, op, uses, locks, fired, loop, cur, head, menus, mine, ghosts>>

\* Faulty: the handler returns without ending its transaction.
LeftOpen(t, outcome) ==
  /\ pc' = [pc EXCEPT ![t] = outcome]
  /\ UNCHANGED <<op, locks, mine, todo, uses, fired, loop, cur, head, menus>>

\* Locks go, and what the transaction kept to itself is forgotten.
Release(t, outcome) ==
  /\ pc' = [pc EXCEPT ![t] = outcome]
  /\ op' = [op EXCEPT ![t] = NoOp]
  /\ wrote' = [wrote EXCEPT ![t] = {}]
  /\ keys' = [keys EXCEPT ![t] = {}]
  /\ shares' = [shares EXCEPT ![t] = {}]
  /\ mine' = [mine EXCEPT ![t] = NoRows]
  /\ todo' = [todo EXCEPT ![t] = <<>>]
  /\ uses' = [uses EXCEPT ![t] = {}]
  /\ fired' = [fired EXCEPT ![t] = {}]
  /\ loop' = [loop EXCEPT ![t] = {}]
  /\ cur' = [cur EXCEPT ![t] = NoRestaurant]
  /\ head' = [head EXCEPT ![t] = <<>>]
  /\ menus' = [menus EXCEPT ![t] = <<>>]

Commit(t) ==
  /\ pc[t] = "open"
  /\ todo[t] = <<>>
  /\ db' = View(t)
  /\ snap' = [r \in Restaurants |-> IF SnapshotLockedBy(t, r) THEN mine[t][r] ELSE snap[r]]
  /\ Release(t, "committed")
  /\ overtaken' = [u \in Txs |-> IF u # t /\ Active(u)
                                 THEN overtaken[u] \cup op[t].scope
                                 ELSE overtaken[u]]
  /\ raced' = [r \in Restaurants |->
                 \/ r \in op[t].scope \cap overtaken[t]
                 \/ raced[r] /\ ~SnapshotLockedBy(t, r)]

\* Faulty: the statements ran on the pool instead of the transaction.
KeepsStatements(t) ==
  /\ Active(t)
  /\ db' = View(t)
  /\ snap' = [r \in Restaurants |-> IF SnapshotLockedBy(t, r) THEN mine[t][r] ELSE snap[r]]
  /\ Release(t, "aborted")
  /\ UNCHANGED ghosts

\* An error, a cancelled request or a lost connection undoes everything.
Rollback(t) ==
  /\ Active(t)
  /\ Release(t, "aborted")
  /\ UNCHANGED <<db, snap, ghosts>>

\* The deletion of an allergen that is in use is refused.
Refuse(t) ==
  /\ Free(t)
  /\ NextDemand(t).mode = "check"
  /\ Named(t, NextDemand(t).row)
  /\ Rollback(t)

----------------------------------------------------------------------------
(* Deadlocks: the server's detector aborts a transaction of a wait cycle.  *)

Waits(t, u) ==
  /\ u # t
  /\ \/ Writing(t) /\ Blocks(u, t)
     \/ pc[t] = "upsert" /\ SnapshotLockedBy(u, cur[t])

Waiting == {t \in Txs : \E u \in Txs : Waits(t, u)}

Circle(C) ==
  C # {} /\ \A u \in C : (\E w \in C : Waits(u, w)) /\ (\E w \in C : Waits(w, u))

Deadlocked(t) == \E C \in SUBSET Waiting : t \in C /\ Circle(C)

DeadlockVictim(t) == Deadlocked(t) /\ Rollback(t)

\* What the database does by itself once the request has begun.
Step(t) ==
  \/ WriteRow(t) \/ ShareKey(t) \/ PassCheck(t) \/ Refuse(t)
  \/ FireTrigger(t) \/ BuildHead(t) \/ BuildMenus(t) \/ Upsert(t)
  \/ EndStatement(t) \/ Commit(t) \/ DeadlockVictim(t)

Next == \E t \in Txs : Begin(t) \/ Step(t) \/ Rollback(t)

Spec == Init /\ [][Next]_vars

\* Requests need not come, and nobody has to cancel them; what has begun runs.
FairSpec == Spec /\ \A t \in Txs : WF_vars(Step(t))

----------------------------------------------------------------------------
(* Properties.                                                             *)

(* Every variable keeps its type: in particular a transaction only computes
   and holds documents of the shape refresh_public_menu_snapshot builds. *)
TypeOK ==
  /\ db \in [Rows -> Cells]
  /\ DOMAIN snap = Restaurants
  /\ \A r \in Restaurants : IsDocument(snap[r], r, Writers)
  /\ pc \in [Txs -> {"idle", "open", "menus", "upsert", "committed", "aborted"}]
  /\ op \in [Txs -> [name : OpNames \cup {"none"}, scope : SUBSET Restaurants]]
  /\ todo \in [Txs -> Seq(Seq(Demands))]
  /\ uses \in [Txs -> SUBSET Allergens]
  /\ wrote \in [Txs -> SUBSET Rows]
  /\ keys \in [Txs -> SUBSET Rows]
  /\ shares \in [Txs -> SUBSET Rows]
  /\ fired \in [Txs -> SUBSET Rows]
  /\ loop \in [Txs -> SUBSET Restaurants]
  /\ cur \in [Txs -> Restaurants \cup {NoRestaurant}]
  /\ \A t \in Txs, r \in Restaurants :
       mine[t][r] = NoPayload \/ IsDocument(mine[t][r], r, Writers)
  /\ overtaken \in [Txs -> SUBSET Restaurants]
  /\ raced \in [Restaurants -> BOOLEAN]

PublishedRows(p) == {<<x, p.head[x]>> : x \in DOMAIN p.head}
                      \cup {<<x, p.menus[x]>> : x \in DOMAIN p.menus}

(* Customers never see a version written by a request that has not
   committed or that was rolled back: the refresh runs inside the
   transaction, and what it writes is visible with the edit or not at all. *)
OnlyCommittedPublished ==
  \A r \in Restaurants : \A v \in PublishedRows(snap[r]) :
    v[2] = NoTx \/ pc[v[2]] = "committed"

Commits(t) == pc[t] # "committed" /\ pc'[t] = "committed"

(* When an edit of a restaurant commits, the document that becomes public in
   the same instant shows every row the edit wrote, whatever other requests
   did meanwhile.  Of an allergen's edit this holds for the restaurants that
   nobody else edited since it began: the assignment may go before the
   refresh reads it and be back when the edit commits. *)
EditPublishesItself ==
  [][\A t \in Txs : Commits(t) =>
       \A x \in wrote[t], r \in Restaurants :
         (IF x[1] = "allergens" THEN r \notin overtaken[t] /\ x[2] \in Assigned(View(t), r)
                                ELSE x[2] = r)
           => <<x, t>> \in PublishedRows(snap'[r])]_vars

(* A published menu that differs from the tables was made by an edit during
   whose life another edit of that restaurant, or of an allergen, committed:
   an edit that runs alone always leaves the exact menu behind and repairs an
   earlier stale one. *)
StaleOnlyByOverlap ==
  \A r \in Restaurants : snap[r] # Payload(db, r) => raced[r]

(* No request waits for ever: the row locks and snapshot locks are taken in
   no common order, so this rests on the deadlock detector. *)
EveryEditEnds == \A t \in Txs : Active(t) ~> pc[t] \in {"committed", "aborted"}

\* Operations that take locks after a refresh: the cascade of a menu locks the
\* entries, an item's write its assignments and their allergens, and the loop
\* of an allergen's trigger the next restaurant's snapshot row.
LocksOn == {"DeleteMenu", "WriteCatalogItem", "UpdateAllergen"}

(* Requests wait for each other, also in circles and over foreign keys:
   entries pointed at each other's items while both items are deleted, an
   item's new assignments against the deletion of an allergen.  But a request
   that waits while it holds the row customers' menus are served from, where
   the other edits of the restaurant queue up behind it, is writing an item,
   deleting a menu or editing an allergen: every other edit takes that row when
   it has all its other locks, whatever its foreign keys and cascades lock. *)
SnapshotRowLast ==
  \A t \in Waiting :
    (\E r \in Restaurants : SnapshotLockedBy(t, r)) => op[t].name \in LocksOn

(* The README's promise: once no edit is under way, what customers see is the
   full, up-to-date menu. *)
QuietMenuUpToDate ==
  (\A t \in Txs : ~Active(t)) => \A r \in Restaurants : snap[r] = Payload(db, r)

(* The README's allergen disclosures: once no edit is under way, every
   allergen assigned to a restaurant's item is disclosed in its current
   wording. *)
QuietDisclosuresCurrent ==
  (\A t \in Txs : ~Active(t)) =>
    \A r \in Restaurants : \A a \in Assigned(db, r) :
      <<<<"allergens", a>>, db[<<"allergens", a>>].by>> \in PublishedRows(snap[r])

\* EditedMenus, as the tables show it.
Edited == INSTANCE EditedMenus WITH
  Edits <- Txs,
  truth <- [r \in Restaurants |-> Payload(db, r)],
  shown <- snap,
  concerns <- [t \in Txs |-> op[t].scope],
  crossed <- overtaken

(* The transactions implement it: whatever locks, cascades, triggers and
   rollbacks do in between, an edit leaves the menus of other restaurants
   alone and publishes its own as they are, unless another edit of the same
   restaurant, or of an allergen, finished since it began. *)
EditedSpec == Edited!Spec
=============================================================================
