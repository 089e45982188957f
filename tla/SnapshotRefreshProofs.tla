----------------------- MODULE SnapshotRefreshProofs -----------------------
(***************************************************************************)
(* What an edit publishes and what it may leave stale, for any number of   *)
(* restaurants, allergens and requests.                                    *)
(***************************************************************************)
EXTENDS SnapshotRefresh, FiniteSetTheorems, TLAPS

\* The versions everybody may see, and those t sees.
Past     == {NoTx} \cup {u \in Txs : pc[u] = "committed"}
Known(t) == Past \cup {t}

\* Restaurants whose document a set of rows may be part of.
Touched(W) == {r \in Restaurants : \E x \in W : x[2] = r \/ x[1] = "allergens"}

\* What an operation that concerns the restaurants S may write.
Within(S) ==
  {d \in Demands :
     /\ d.mode \in {"update", "rekey", "delete"} => Touched({d.row}) \subseteq S
     /\ d.gives # {} => d.mode = "update" /\ d.row[1] = "assignments" /\ S = {d.row[2]}}

\* A transaction writes what its operation concerns.
Scoped(t) ==
  Touched(wrote[t]) \subseteq op[t].scope /\ todo[t] \in Seq(Seq(Within(op[t].scope)))

\* A transaction refreshes only restaurants it has touched.
Bounded(t) ==
  /\ fired[t] \subseteq wrote[t]
  /\ loop[t] \subseteq Touched(wrote[t])
  /\ cur[t] # NoRestaurant => cur[t] \in Touched(wrote[t])
  /\ \A r \in Restaurants : mine[t][r] # NoPayload => r \in Touched(wrote[t])

\* How far a transaction is.
Staged(t) ==
  /\ ~Active(t) => /\ wrote[t] = {} /\ fired[t] = {} /\ loop[t] = {}
                   /\ \A r \in Restaurants : mine[t][r] = NoPayload
  /\ pc[t] \in {"menus", "upsert"} <=> cur[t] # NoRestaurant
  /\ pc[t] \in {"menus", "upsert"} => todo[t] # <<>>
  /\ pc[t] = "open" /\ todo[t] = <<>> => fired[t] = {} /\ loop[t] = {}

\* One half of a document as t reads it: its own writes are all in it.
Half(f, D, t) == f \in [D -> Known(t)] /\ \A x \in D : x \in wrote[t] => f[x] = t

Reads(t) ==
  /\ cur[t] # NoRestaurant =>
       /\ Half(head[t], HeadRows(cur[t]), t)
       /\ cur[t] \notin overtaken[t] => head[t] = HeadOf(View(t), cur[t])
  /\ pc[t] = "upsert" =>
       /\ \E A \in SUBSET Allergens :
            Half(menus[t], MenuRows(cur[t]) \cup ({"allergens"} \X A), t)
       /\ cur[t] \notin overtaken[t] => menus[t] = MenusOf(View(t), cur[t])

Holds(t) ==
  \A r \in Restaurants : mine[t][r] # NoPayload => IsDocument(mine[t][r], r, Known(t))

\* t has still to refresh restaurant r.
Pending(t, r) ==
  r \in loop[t] \/ cur[t] = r \/ \E x \in fired[t] : r \in Refreshes(t, x)

\* What t will publish of r is what t sees.
UpToDate(t, r) ==
  \/ mine[t][r] = Payload(View(t), r)
  \/ mine[t][r] = NoPayload /\ Payload(View(t), r) = Payload(db, r)

\* t has deleted an allergen assigned in r, and has still to look.
Doomed(t, r) ==
  /\ Writing(t) /\ NextDemand(t).mode = "check" /\ NextDemand(t).row[1] = "allergens"
  /\ NextDemand(t).row[2] \in Assigned(View(t), r)

Owes(t) ==
  \A r \in Restaurants :
    Active(t) /\ r \notin overtaken[t] => Pending(t, r) \/ UpToDate(t, r) \/ Doomed(t, r)

\* A row that t wrote is in its document, or will be.
Shows(t) ==
  \A x \in wrote[t] : x[1] # "allergens" =>
    \/ x \in fired[t] \/ x[2] \in loop[t] \/ cur[t] = x[2]
    \/ mine[t][x[2]] # NoPayload /\ <<x, t>> \in PublishedRows(mine[t][x[2]])

OK(t) == Scoped(t) /\ Bounded(t) /\ Staged(t) /\ Reads(t) /\ Holds(t) /\ Owes(t) /\ Shows(t)

Shapes == /\ head = [t \in Txs |-> head[t]] /\ menus = [t \in Txs |-> menus[t]]
          /\ mine = [t \in Txs |-> mine[t]]
          /\ \A t \in Txs : DOMAIN mine[t] = Restaurants

PastOnly == /\ \A x \in Rows : db[x].by \in Past
            /\ \A r \in Restaurants : IsDocument(snap[r], r, Past)

IInv == TypeOK /\ Shapes /\ PastOnly /\ StaleOnlyByOverlap /\ \A t \in Txs : OK(t)

----------------------------------------------------------------------------
(* Rows and documents.                                                     *)

LEMMA RowFacts ==
  /\ \A x \in Rows : /\ x = <<x[1], x[2]>>
                     /\ x[1] = "allergens" => x[2] \in Allergens
                     /\ x[1] # "allergens" => x[2] \in Restaurants
                                              /\ x \in HeadRows(x[2]) \cup MenuRows(x[2])
  /\ \A r \in Restaurants : HeadRows(r) \subseteq Rows /\ MenuRows(r) \subseteq Rows
  /\ \A r \in Restaurants : \A x \in HeadRows(r) \cup MenuRows(r) :
       x[1] # "allergens" /\ x[2] = r
  /\ \A r \in Restaurants : <<"assignments", r>> \in MenuRows(r)
  /\ \A a \in Allergens : <<"allergens", a>> \in Rows
BY DEF Rows, HeadRows, MenuRows, HeadTables, MenuTables

LEMMA ColsFacts ==
  \A A \in SUBSET Allergens : {"allergens"} \X A \subseteq Rows
BY DEF Rows

LEMMA MoreWriters ==
  ASSUME NEW r, NEW W, NEW V, W \subseteq V, NEW p, IsDocument(p, r, W)
  PROVE  IsDocument(p, r, V)
<1>1. PICK A \in SUBSET Allergens :
        p \in [head : [HeadRows(r) -> W], menus : [MenuRows(r) \cup ({"allergens"} \X A) -> W]]
  BY DEF IsDocument
<1>2. p \in [head : [HeadRows(r) -> V], menus : [MenuRows(r) \cup ({"allergens"} \X A) -> V]]
  BY <1>1
<1> QED BY <1>2 DEF IsDocument

\* What of a view the document of r depends on.
Scope(v, r) == HeadRows(r) \cup MenuRows(r) \cup ({"allergens"} \X Assigned(v, r))

LEMMA SameDocument ==
  ASSUME NEW v, NEW w, NEW r \in Restaurants, \A x \in Scope(v, r) : v[x] = w[x]
  PROVE  /\ Assigned(v, r) = Assigned(w, r) /\ HeadOf(v, r) = HeadOf(w, r)
         /\ MenusOf(v, r) = MenusOf(w, r) /\ Payload(v, r) = Payload(w, r)
<1>1. Assigned(v, r) = Assigned(w, r)
  BY RowFacts DEF Assigned, Scope
<1>2. HeadOf(v, r) = HeadOf(w, r)
  BY DEF HeadOf, Scope
<1>3. MenusOf(v, r) = MenusOf(w, r)
  BY <1>1 DEF MenusOf, Scope
<1> QED BY <1>1, <1>2, <1>3 DEF Payload

LEMMA DocumentOfView ==
  ASSUME NEW v, NEW W, NEW r \in Restaurants, v \in [Rows -> Cells],
         \A x \in Rows : v[x].by \in W
  PROVE  /\ Assigned(v, r) \in SUBSET Allergens
         /\ HeadOf(v, r) \in [HeadRows(r) -> W]
         /\ MenusOf(v, r) \in [MenuRows(r) \cup ({"allergens"} \X Assigned(v, r)) -> W]
         /\ IsDocument(Payload(v, r), r, W)
<1>1. Assigned(v, r) \in SUBSET Allergens
  BY RowFacts DEF Assigned, Cells
<1>2. HeadOf(v, r) \in [HeadRows(r) -> W]
  BY RowFacts DEF HeadOf
<1>3. MenusOf(v, r) \in [MenuRows(r) \cup ({"allergens"} \X Assigned(v, r)) -> W]
  BY <1>1, RowFacts, ColsFacts DEF MenusOf
<1>4. IsDocument(Payload(v, r), r, W)
  BY <1>1, <1>2, <1>3 DEF Payload, IsDocument
<1> QED BY <1>1, <1>2, <1>3, <1>4

LEMMA NoPayloadIsNone ==
  ASSUME NEW r \in Restaurants, NEW W, W \subseteq Writers
  PROVE  ~IsDocument(NoPayload, r, W)
BY FreshNames, MoreWriters

\* What a document shows.
LEMMA PublishedFacts ==
  ASSUME NEW r, NEW W, NEW p, IsDocument(p, r, W)
  PROVE  \A v \in PublishedRows(p) : v[2] \in W
<1> SUFFICES ASSUME NEW v \in PublishedRows(p) PROVE v[2] \in W
  OBVIOUS
<1>1. PICK A \in SUBSET Allergens :
        p \in [head : [HeadRows(r) -> W], menus : [MenuRows(r) \cup ({"allergens"} \X A) -> W]]
  BY DEF IsDocument
<1>2. /\ p.head \in [HeadRows(r) -> W]
      /\ p.menus \in [MenuRows(r) \cup ({"allergens"} \X A) -> W]
  BY <1>1
<1>3. \/ \E x \in HeadRows(r) : v = <<x, p.head[x]>>
      \/ \E x \in MenuRows(r) \cup ({"allergens"} \X A) : v = <<x, p.menus[x]>>
  BY <1>1, <1>2 DEF PublishedRows
<1> QED BY <1>1, <1>2, <1>3

----------------------------------------------------------------------------
(* What a transaction sees.                                                *)

LEMMA ViewFacts ==
  ASSUME IInv, NEW t \in Txs
  PROVE  /\ View(t) \in [Rows -> Cells]
         /\ \A x \in Rows : View(t)[x].by \in Known(t)
         /\ \A x \in Rows : x \in wrote[t] => View(t)[x].by = t
         /\ \A x \in Rows : x \notin wrote[t] => View(t)[x] = db[x]
<1>1. uses[t] \in SUBSET Allergens /\ db \in [Rows -> Cells] /\ \A x \in Rows : db[x].by \in Past
  BY DEF IInv, TypeOK, PastOnly
<1>2. View(t) = [x \in Rows |-> View(t)[x]]
  BY Zenon DEF View
<1>3. ASSUME NEW x \in Rows, x \in wrote[t]
      PROVE  View(t)[x] \in Cells /\ View(t)[x].by = t
  <2> DEFINE given == IF x[1] = "assignments" THEN uses[t] ELSE {}
  <2>1. View(t)[x] = [by |-> t, allergens |-> given]
    BY <1>3 DEF View
  <2>2. given \in SUBSET Allergens
    BY <1>1
  <2> QED BY <2>1, <2>2 DEF Cells, Writers
<1>4. ASSUME NEW x \in Rows, x \notin wrote[t]
      PROVE  View(t)[x] = db[x]
  BY <1>4, Zenon DEF View
<1>5. \A x \in Rows : View(t)[x] \in Cells
  BY <1>1, <1>3, <1>4
<1>6. View(t) \in [Rows -> Cells]
  BY <1>2, <1>5
<1> QED BY <1>1, <1>3, <1>4, <1>6 DEF Known

LEMMA KnownFacts ==
  ASSUME NEW t \in Txs
  PROVE  Known(t) \subseteq Writers /\ Past \subseteq Known(t)
BY DEF Known, Past, Writers

\* The variables of other transactions stay as they are.
Only(t) ==
  /\ op' = [op EXCEPT ![t] = op'[t]] /\ keys' = [keys EXCEPT ![t] = keys'[t]]
  /\ shares' = [shares EXCEPT ![t] = shares'[t]]
  /\ pc' = [pc EXCEPT ![t] = pc'[t]] /\ todo' = [todo EXCEPT ![t] = todo'[t]]
  /\ uses' = [uses EXCEPT ![t] = uses'[t]] /\ wrote' = [wrote EXCEPT ![t] = wrote'[t]]
  /\ fired' = [fired EXCEPT ![t] = fired'[t]] /\ loop' = [loop EXCEPT ![t] = loop'[t]]
  /\ cur' = [cur EXCEPT ![t] = cur'[t]] /\ head' = [head EXCEPT ![t] = head'[t]]
  /\ menus' = [menus EXCEPT ![t] = menus'[t]] /\ mine' = [mine EXCEPT ![t] = mine'[t]]

LEMMA Domains ==
  ASSUME IInv
  PROVE  /\ DOMAIN pc = Txs /\ DOMAIN todo = Txs /\ DOMAIN uses = Txs /\ DOMAIN wrote = Txs
         /\ DOMAIN fired = Txs /\ DOMAIN loop = Txs /\ DOMAIN cur = Txs
         /\ DOMAIN head = Txs /\ DOMAIN menus = Txs /\ DOMAIN mine = Txs
         /\ DOMAIN op = Txs /\ DOMAIN keys = Txs /\ DOMAIN shares = Txs
BY DEF IInv, TypeOK, Shapes

LEMMA SelfUpdate ==
  ASSUME NEW S, NEW f, f = [u \in S |-> f[u]], NEW t
  PROVE  f = [f EXCEPT ![t] = f[t]]
OBVIOUS

LEMMA Unchanged ==
  ASSUME IInv, NEW t \in Txs
  PROVE  /\ pc = [pc EXCEPT ![t] = pc[t]] /\ todo = [todo EXCEPT ![t] = todo[t]]
         /\ uses = [uses EXCEPT ![t] = uses[t]] /\ wrote = [wrote EXCEPT ![t] = wrote[t]]
         /\ fired = [fired EXCEPT ![t] = fired[t]] /\ loop = [loop EXCEPT ![t] = loop[t]]
         /\ cur = [cur EXCEPT ![t] = cur[t]] /\ head = [head EXCEPT ![t] = head[t]]
         /\ menus = [menus EXCEPT ![t] = menus[t]] /\ mine = [mine EXCEPT ![t] = mine[t]]
         /\ overtaken = [overtaken EXCEPT ![t] = overtaken[t]]
         /\ op = [op EXCEPT ![t] = op[t]] /\ keys = [keys EXCEPT ![t] = keys[t]]
         /\ shares = [shares EXCEPT ![t] = shares[t]]
<1>1. /\ pc = [u \in Txs |-> pc[u]] /\ todo = [u \in Txs |-> todo[u]]
      /\ uses = [u \in Txs |-> uses[u]] /\ wrote = [u \in Txs |-> wrote[u]]
      /\ fired = [u \in Txs |-> fired[u]] /\ loop = [u \in Txs |-> loop[u]]
      /\ cur = [u \in Txs |-> cur[u]] /\ overtaken = [u \in Txs |-> overtaken[u]]
      /\ op = [u \in Txs |-> op[u]] /\ keys = [u \in Txs |-> keys[u]]
      /\ shares = [u \in Txs |-> shares[u]]
  BY DEF IInv, TypeOK
<1>2. head = [u \in Txs |-> head[u]] /\ menus = [u \in Txs |-> menus[u]]
      /\ mine = [u \in Txs |-> mine[u]]
  BY DEF IInv, Shapes
<1> QED BY <1>1, <1>2, SelfUpdate

LEMMA OthersStay ==
  ASSUME IInv, NEW t \in Txs, NEW u \in Txs, u # t, Only(t)
  PROVE  /\ pc'[u] = pc[u] /\ todo'[u] = todo[u] /\ uses'[u] = uses[u]
         /\ wrote'[u] = wrote[u] /\ fired'[u] = fired[u] /\ loop'[u] = loop[u]
         /\ cur'[u] = cur[u] /\ head'[u] = head[u] /\ menus'[u] = menus[u]
         /\ mine'[u] = mine[u] /\ op'[u] = op[u] /\ keys'[u] = keys[u] /\ shares'[u] = shares[u]
BY Domains DEF Only

\* The view of a transaction changes with its writes and the committed rows.
LEMMA SameView ==
  ASSUME NEW t \in Txs, db' = db, wrote'[t] = wrote[t],
         uses'[t] = uses[t] \/ wrote[t] = {}
  PROVE  View(t)' = View(t)
<1> SUFFICES ASSUME NEW x \in Rows PROVE View(t)'[x] = View(t)[x]
  BY DEF View
<1> QED BY DEF View

\* Where nothing of a transaction changed, nothing about it did.
LEMMA KeepsOK ==
  ASSUME IInv, NEW t \in Txs, NEW u \in Txs, u # t, Only(t), OK(u), db' = db, Past' = Past,
         overtaken' [u] = overtaken[u]
  PROVE  OK(u)'
<1>0. /\ pc'[u] = pc[u] /\ todo'[u] = todo[u] /\ uses'[u] = uses[u]
      /\ wrote'[u] = wrote[u] /\ fired'[u] = fired[u] /\ loop'[u] = loop[u]
      /\ cur'[u] = cur[u] /\ head'[u] = head[u] /\ menus'[u] = menus[u]
      /\ mine'[u] = mine[u] /\ op'[u] = op[u]
  BY OthersStay
<1>1. View(u)' = View(u)
  BY <1>0, SameView
<1>2. Active(u)' <=> Active(u)
  BY <1>0 DEF Active
<1>3. Known(u)' = Known(u)
  BY DEF Known
<1>4. Bounded(u)' /\ Staged(u)' /\ Scoped(u)'
  BY <1>0, <1>2 DEF OK, Bounded, Staged, Scoped, Within, Touched
<1>5. Reads(u)'
  <2>1. /\ \A f, D : Half(f, D, u) => Half(f, D, u)'
        /\ \A r : HeadOf(View(u), r)' = HeadOf(View(u), r)
        /\ \A r : MenusOf(View(u), r)' = MenusOf(View(u), r)
    BY <1>0, <1>1, <1>3, Zenon DEF Half, HeadOf, MenusOf, Assigned
  <2>2. Reads(u)
    BY DEF OK
  <2>3. (cur[u] # NoRestaurant =>
           /\ Half(head[u], HeadRows(cur[u]), u)
           /\ cur[u] \notin overtaken[u] => head[u] = HeadOf(View(u), cur[u]))'
    BY <1>0, <1>1, <2>1, <2>2 DEF Reads
  <2>4. (pc[u] = "upsert" =>
           /\ \E A \in SUBSET Allergens :
                Half(menus[u], MenuRows(cur[u]) \cup ({"allergens"} \X A), u)
           /\ cur[u] \notin overtaken[u] => menus[u] = MenusOf(View(u), cur[u]))'
    BY <1>0, <1>1, <2>1, <2>2 DEF Reads
  <2> QED BY <2>3, <2>4 DEF Reads
<1>6. Holds(u)'
  BY <1>0, <1>3 DEF OK, Holds
<1>7. \A x : Refreshes(u, x)' = Refreshes(u, x)
  BY <1>1 DEF Refreshes
<1>8. \A r \in Restaurants : /\ (Pending(u, r)' <=> Pending(u, r))
                            /\ (UpToDate(u, r)' <=> UpToDate(u, r))
                            /\ (Doomed(u, r)' <=> Doomed(u, r))
  BY <1>0, <1>1, <1>7 DEF Pending, UpToDate, Doomed, Writing, NextDemand, Assigned
<1>9. Owes(u)'
  BY <1>0, <1>2, <1>8 DEF OK, Owes
<1>10. Shows(u)'
  BY <1>0 DEF OK, Shows
<1> QED BY <1>4, <1>5, <1>6, <1>9, <1>10 DEF OK

LEMMA SamePast ==
  ASSUME IInv, NEW t \in Txs, Only(t), pc[t] # "committed", pc'[t] # "committed"
  PROVE  Past' = Past
<1>1. \A u \in Txs : pc'[u] = "committed" <=> pc[u] = "committed"
  BY OthersStay
<1> QED BY <1>1 DEF Past

----------------------------------------------------------------------------
(* Steps that only concern their own transaction.                          *)

LEMMA SeqMono ==
  ASSUME NEW A, NEW B, A \subseteq B
  PROVE  Seq(A) \subseteq Seq(B)
<1> SUFFICES ASSUME NEW s \in Seq(A) PROVE s \in Seq(B)
  OBVIOUS
<1>1. s \in [1..Len(s) -> A] /\ Len(s) \in Nat
  OBVIOUS
<1>2. s \in [1..Len(s) -> B]
  BY <1>1
<1> QED BY <1>1, <1>2

LEMMA RestOf ==
  ASSUME NEW W, NEW s \in Seq(W), s # <<>>
  PROVE  Head(s) \in W /\ Tail(s) \in Seq(W) /\ Len(Tail(s)) = Len(s) - 1 /\ Len(s) \in Nat
OBVIOUS

LEMMA Prepended ==
  ASSUME NEW W, NEW a \in W, NEW s \in Seq(W)
  PROVE  /\ <<a>> \o s \in Seq(W) /\ <<a>> \o s # <<>>
         /\ Head(<<a>> \o s) = a /\ Len(<<a>> \o s) = 1 + Len(s)
OBVIOUS

LEMMA SeqsWithin ==
  ASSUME NEW S
  PROVE  Seq(Seq(Within(S))) \subseteq Seq(Seq(Demands))
<1>1. Within(S) \subseteq Demands
  BY DEF Within
<1> QED BY <1>1, SeqMono

LEMMA LocalStep ==
  ASSUME IInv, NEW t \in Txs, Only(t), UNCHANGED <<db, snap, raced>>,
         overtaken' = [overtaken EXCEPT ![t] = overtaken'[t]],
         overtaken'[t] \in SUBSET Restaurants,
         pc[t] # "committed", pc'[t] \in {"idle", "open", "menus", "upsert", "aborted"},
         op'[t] \in [name : OpNames \cup {"none"}, scope : SUBSET Restaurants],
         uses'[t] \in SUBSET Allergens, wrote'[t] \in SUBSET Rows, keys'[t] \in SUBSET Rows,
         shares'[t] \in SUBSET Rows, DOMAIN mine'[t] = Restaurants, OK(t)'
  PROVE  IInv'
<1>1. Past' = Past
  BY SamePast
<1>2. \A u \in Txs : OK(u)'
  <2>1. DOMAIN overtaken = Txs
    BY DEF IInv, TypeOK
  <2> QED BY <1>1, <2>1, KeepsOK DEF IInv
<1>3. \A u \in Txs : \A r \in Restaurants :
        mine'[u][r] = NoPayload \/ IsDocument(mine'[u][r], r, Writers)
  <2> SUFFICES ASSUME NEW u \in Txs, NEW r \in Restaurants, mine'[u][r] # NoPayload
               PROVE  IsDocument(mine'[u][r], r, Writers)
    OBVIOUS
  <2>1. IsDocument(mine'[u][r], r, Known(u)')
    BY <1>2 DEF OK, Holds
  <2>2. Known(u)' \subseteq Writers
    BY DEF Known, Past, Writers
  <2> QED BY <2>1, <2>2, MoreWriters
<1>4. fired'[t] \in SUBSET Rows /\ loop'[t] \in SUBSET Restaurants
      /\ cur'[t] \in Restaurants \cup {NoRestaurant}
  BY DEF OK, Bounded, Touched
<1>b. todo'[t] \in Seq(Seq(Demands))
  BY SeqsWithin DEF OK, Scoped
<1>5. TypeOK'
  <2>1. /\ pc' \in [Txs -> {"idle", "open", "menus", "upsert", "committed", "aborted"}]
        /\ todo' \in [Txs -> Seq(Seq(Demands))] /\ uses' \in [Txs -> SUBSET Allergens]
        /\ wrote' \in [Txs -> SUBSET Rows] /\ fired' \in [Txs -> SUBSET Rows]
        /\ loop' \in [Txs -> SUBSET Restaurants]
        /\ cur' \in [Txs -> Restaurants \cup {NoRestaurant}]
        /\ overtaken' \in [Txs -> SUBSET Restaurants]
        /\ op' \in [Txs -> [name : OpNames \cup {"none"}, scope : SUBSET Restaurants]]
        /\ keys' \in [Txs -> SUBSET Rows] /\ shares' \in [Txs -> SUBSET Rows]
    <3>1. /\ pc \in [Txs -> {"idle", "open", "menus", "upsert", "committed", "aborted"}]
          /\ todo \in [Txs -> Seq(Seq(Demands))] /\ uses \in [Txs -> SUBSET Allergens]
          /\ wrote \in [Txs -> SUBSET Rows] /\ fired \in [Txs -> SUBSET Rows]
          /\ loop \in [Txs -> SUBSET Restaurants]
          /\ cur \in [Txs -> Restaurants \cup {NoRestaurant}]
          /\ overtaken \in [Txs -> SUBSET Restaurants]
          /\ op \in [Txs -> [name : OpNames \cup {"none"}, scope : SUBSET Restaurants]]
          /\ keys \in [Txs -> SUBSET Rows] /\ shares \in [Txs -> SUBSET Rows]
      BY DEF IInv, TypeOK
    <3>0. pc'[t] \in {"idle", "open", "menus", "upsert", "committed", "aborted"}
      OBVIOUS
    <3>1a. pc' \in [Txs -> {"idle", "open", "menus", "upsert", "committed", "aborted"}]
      BY <3>0, <3>1 DEF Only
    <3>2. cur' \in [Txs -> Restaurants \cup {NoRestaurant}]
      BY <1>4, <3>1 DEF Only
    <3>3. todo' \in [Txs -> Seq(Seq(Demands))] /\ uses' \in [Txs -> SUBSET Allergens]
      BY <1>b, <3>1 DEF Only
    <3>6. op' \in [Txs -> [name : OpNames \cup {"none"}, scope : SUBSET Restaurants]]
      BY <3>1 DEF Only
    <3>7. keys' \in [Txs -> SUBSET Rows] /\ shares' \in [Txs -> SUBSET Rows]
      BY <3>1 DEF Only
    <3>4. wrote' \in [Txs -> SUBSET Rows] /\ fired' \in [Txs -> SUBSET Rows]
      BY <1>4, <3>1 DEF Only
    <3>5. loop' \in [Txs -> SUBSET Restaurants] /\ overtaken' \in [Txs -> SUBSET Restaurants]
      BY <1>4, <3>1 DEF Only
    <3> QED BY <3>1a, <3>2, <3>3, <3>4, <3>5, <3>6, <3>7
  <2>2. /\ db' \in [Rows -> Cells] /\ raced' \in [Restaurants -> BOOLEAN]
        /\ DOMAIN snap' = Restaurants
        /\ \A r \in Restaurants : IsDocument(snap'[r], r, Writers)
    BY DEF IInv, TypeOK
  <2> QED BY <1>3, <2>1, <2>2 DEF TypeOK
<1>6. Shapes'
  BY DEF Only, IInv, Shapes
<1>7. PastOnly' /\ StaleOnlyByOverlap'
  BY <1>1 DEF IInv, PastOnly, StaleOnlyByOverlap
<1> QED BY <1>2, <1>5, <1>6, <1>7 DEF IInv

\* A step that writes no row changes neither the view nor what is due.
LEMMA QuietStep ==
  ASSUME IInv, NEW t \in Txs, Only(t), db' = db, uses' = uses, wrote' = wrote,
         pc[t] # "committed", pc'[t] # "committed"
  PROVE  /\ View(t)' = View(t) /\ Known(t)' = Known(t)
         /\ \A x : Refreshes(t, x)' = Refreshes(t, x)
<1>1. View(t)' = View(t)
  BY SameView
<1> QED BY <1>1, SamePast DEF Known, Refreshes

LEMMA DueFacts ==
  ASSUME IInv, NEW t \in Txs, NEW x \in Rows
  PROVE  Refreshes(t, x) \subseteq Touched({x})
BY RowFacts DEF Refreshes, Touched

LEMMA FireTriggerKeeps ==
  ASSUME IInv, NEW t \in Txs, FireTrigger(t)
  PROVE  IInv'
<1>0. PICK x \in fired[t] :
        /\ fired' = [fired EXCEPT ![t] = fired[t] \ {x}]
        /\ loop' = [loop EXCEPT ![t] = Refreshes(t, x)]
  BY DEF FireTrigger
<1>1. /\ pc[t] = "open" /\ todo[t] # <<>> /\ loop[t] = {} /\ ~Writing(t)
      /\ db' = db /\ snap' = snap /\ pc' = pc /\ todo' = todo /\ uses' = uses /\ wrote' = wrote
      /\ op' = op /\ keys' = keys /\ shares' = shares
      /\ cur' = cur /\ head' = head /\ menus' = menus /\ mine' = mine
      /\ overtaken' = overtaken /\ raced' = raced
  BY DEF FireTrigger, Triggering, Writing, ghosts, locks
<1>2. /\ fired'[t] = fired[t] \ {x} /\ loop'[t] = Refreshes(t, x)
      /\ Only(t) /\ wrote[t] \in SUBSET Rows /\ fired[t] \subseteq wrote[t]
  <2>1. fired'[t] = fired[t] \ {x} /\ loop'[t] = Refreshes(t, x)
    BY <1>0, Domains
  <2>2. Only(t)
    BY <1>0, <1>1, <2>1, Unchanged, Zenon DEF Only
  <2>3. wrote[t] \in SUBSET Rows /\ fired[t] \subseteq wrote[t]
    BY DEF IInv, TypeOK, OK, Bounded
  <2> QED BY <2>1, <2>2, <2>3
<1>3. View(t)' = View(t) /\ Known(t)' = Known(t) /\ \A y : Refreshes(t, y)' = Refreshes(t, y)
  BY <1>1, <1>2, QuietStep
<1>4. Active(t)' <=> Active(t)
  BY <1>1 DEF Active
<1>5. Bounded(t)'
  <2>1. Refreshes(t, x) \subseteq Touched(wrote[t])
    BY <1>2, DueFacts DEF Touched
  <2> QED BY <1>1, <1>2, <2>1 DEF IInv, OK, Bounded
<1>6. Staged(t)'
  BY <1>1, <1>2, <1>4 DEF IInv, OK, Staged, Active
<1>7. Reads(t)' /\ Holds(t)'
  BY <1>1, <1>3 DEF IInv, OK, Reads, Holds, Half
<1>8. Owes(t)'
  <2> SUFFICES ASSUME NEW r \in Restaurants, Active(t), r \notin overtaken[t]
               PROVE  Pending(t, r)' \/ UpToDate(t, r)'
    BY <1>1, <1>4 DEF Owes
  <2>1. CASE UpToDate(t, r)
    BY <1>1, <1>3, <2>1 DEF UpToDate
  <2>2. CASE Pending(t, r)
    BY <1>1, <1>2, <1>3, <2>2 DEF Pending
  <2> QED BY <1>1, <2>1, <2>2 DEF IInv, OK, Owes, Doomed
<1>9. Shows(t)'
  <2>1. x[1] # "allergens" => x[2] \in Refreshes(t, x)
    BY DEF Refreshes
  <2> QED BY <1>1, <1>2, <2>1 DEF IInv, OK, Shows
<1>10. Scoped(t)'
  BY <1>1 DEF IInv, OK, Scoped
<1> QED BY <1>1, <1>2, <1>10, <1>5, <1>6, <1>7, <1>8, <1>9,
           Unchanged, LocalStep
        DEF OK, IInv, TypeOK, Shapes

LEMMA BuildHeadKeeps ==
  ASSUME IInv, NEW t \in Txs, BuildHead(t)
  PROVE  IInv'
<1>0. PICK r \in loop[t] :
        /\ loop' = [loop EXCEPT ![t] = loop[t] \ {r}]
        /\ cur' = [cur EXCEPT ![t] = r]
        /\ head' = [head EXCEPT ![t] = HeadOf(View(t), r)]
  BY DEF BuildHead
<1>1. /\ pc[t] = "open" /\ todo[t] # <<>> /\ ~Writing(t) /\ pc' = [pc EXCEPT ![t] = "menus"]
      /\ db' = db /\ snap' = snap /\ todo' = todo /\ uses' = uses /\ wrote' = wrote
      /\ op' = op /\ keys' = keys /\ shares' = shares
      /\ fired' = fired /\ menus' = menus /\ mine' = mine
      /\ overtaken' = overtaken /\ raced' = raced
  BY DEF BuildHead, Triggering, Writing, ghosts, locks
<1>2. /\ pc'[t] = "menus" /\ loop'[t] = loop[t] \ {r} /\ cur'[t] = r
      /\ head'[t] = HeadOf(View(t), r)
      /\ Only(t) /\ loop[t] \subseteq Touched(wrote[t]) /\ loop[t] \in SUBSET Restaurants
  <2>1. /\ pc'[t] = "menus" /\ loop'[t] = loop[t] \ {r} /\ cur'[t] = r
        /\ head'[t] = HeadOf(View(t), r)
    BY <1>0, <1>1, Domains
  <2>2. Only(t)
    BY <1>0, <1>1, <2>1, Unchanged, Zenon DEF Only
  <2>3. loop[t] \subseteq Touched(wrote[t]) /\ loop[t] \in SUBSET Restaurants
    BY DEF IInv, TypeOK, OK, Bounded
  <2> QED BY <2>1, <2>2, <2>3
<1>3. View(t)' = View(t) /\ Known(t)' = Known(t) /\ \A y : Refreshes(t, y)' = Refreshes(t, y)
  BY <1>1, <1>2, QuietStep
<1>4. Active(t)' /\ Active(t) /\ r \in Restaurants /\ r # NoRestaurant /\ cur[t] = NoRestaurant
  BY <1>1, <1>2, FreshNames DEF Active, IInv, OK, Staged
<1>5. Bounded(t)'
  BY <1>1, <1>2 DEF IInv, OK, Bounded
<1>6. Staged(t)'
  BY <1>1, <1>2, <1>4 DEF Staged
<1>7. Reads(t)'
  <2>1. Half(HeadOf(View(t), r), HeadRows(r), t)
    BY <1>4, ViewFacts, DocumentOfView, RowFacts DEF Half, HeadOf
  <2> QED BY <1>1, <1>2, <1>3, <2>1 DEF Reads, Half
<1>8. Holds(t)'
  BY <1>1, <1>3 DEF IInv, OK, Holds
<1>9. Owes(t)'
  <2> SUFFICES ASSUME NEW q \in Restaurants, q \notin overtaken[t]
               PROVE  Pending(t, q)' \/ UpToDate(t, q)'
    BY <1>1 DEF Owes
  <2>1. CASE UpToDate(t, q)
    BY <1>1, <1>3, <2>1 DEF UpToDate
  <2>2. CASE Pending(t, q)
    BY <1>1, <1>2, <1>3, <1>4, <2>2, FreshNames DEF Pending
  <2> QED BY <1>1, <1>4, <2>1, <2>2 DEF IInv, OK, Owes, Doomed
<1>10. Shows(t)'
  <2> SUFFICES ASSUME NEW x \in wrote[t], x[1] # "allergens"
               PROVE  \/ x \in fired[t] \/ x[2] \in loop'[t] \/ r = x[2]
                      \/ mine[t][x[2]] # NoPayload /\ <<x, t>> \in PublishedRows(mine[t][x[2]])
    BY <1>1, <1>2 DEF Shows
  <2>1. x[2] \in Restaurants
    BY RowFacts DEF IInv, TypeOK
  <2> QED BY <1>2, <1>4, <2>1, FreshNames DEF IInv, OK, Shows
<1>11. Scoped(t)'
  BY <1>1 DEF IInv, OK, Scoped
<1> QED BY <1>1, <1>2, <1>11, <1>5, <1>6, <1>7, <1>8, <1>9, <1>10,
           Unchanged, LocalStep
        DEF OK, IInv, TypeOK, Shapes

LEMMA BuildMenusKeeps ==
  ASSUME IInv, NEW t \in Txs, BuildMenus(t)
  PROVE  IInv'
<1> DEFINE r == cur[t]
<1>1. /\ pc[t] = "menus" /\ pc' = [pc EXCEPT ![t] = "upsert"]
      /\ menus' = [menus EXCEPT ![t] = MenusOf(View(t), r)]
      /\ db' = db /\ snap' = snap /\ todo' = todo /\ uses' = uses /\ wrote' = wrote
      /\ op' = op /\ keys' = keys /\ shares' = shares
      /\ fired' = fired /\ loop' = loop /\ cur' = cur /\ head' = head /\ mine' = mine
      /\ overtaken' = overtaken /\ raced' = raced
  BY DEF BuildMenus, ghosts, locks
<1>2. /\ pc'[t] = "upsert" /\ menus'[t] = MenusOf(View(t), r) /\ Only(t)
      /\ r \in Restaurants /\ r # NoRestaurant
  <2>1. pc'[t] = "upsert" /\ menus'[t] = MenusOf(View(t), r)
    BY <1>1, Domains
  <2>2. Only(t)
    BY <1>1, <2>1, Unchanged, Zenon DEF Only
  <2>3. r # NoRestaurant
    BY <1>1 DEF IInv, OK, Staged
  <2>4. r \in Restaurants
    BY <2>3 DEF IInv, TypeOK
  <2> QED BY <2>1, <2>2, <2>3, <2>4
<1>3. View(t)' = View(t) /\ Known(t)' = Known(t) /\ \A y : Refreshes(t, y)' = Refreshes(t, y)
  BY <1>1, <1>2, QuietStep
<1>4. Active(t)' /\ Active(t)
  BY <1>1, <1>2 DEF Active
<1>5. Bounded(t)' /\ Staged(t)'
  BY <1>1, <1>2, <1>4 DEF IInv, OK, Bounded, Staged
<1>6. Reads(t)'
  <2>1. Assigned(View(t), r) \in SUBSET Allergens
        /\ Half(MenusOf(View(t), r),
                MenuRows(r) \cup ({"allergens"} \X Assigned(View(t), r)), t)
    BY <1>2, ViewFacts, DocumentOfView, RowFacts, ColsFacts DEF Half, MenusOf
  <2>2. /\ Half(head[t], HeadRows(r), t)
        /\ r \notin overtaken[t] => head[t] = HeadOf(View(t), r)
    BY <1>2 DEF IInv, OK, Reads
  <2>4. Half(head[t], HeadRows(r), t)'
    BY <1>1, <1>3, <2>2 DEF Half
  <2>5. \E A \in SUBSET Allergens :
          Half(menus'[t], MenuRows(r) \cup ({"allergens"} \X A), t)
    BY <1>2, <2>1
  <2>6. (\E A \in SUBSET Allergens :
           Half(menus[t], MenuRows(r) \cup ({"allergens"} \X A), t))'
    BY <1>1, <1>3, <2>5 DEF Half
  <2> QED BY <1>1, <1>2, <1>3, <2>2, <2>4, <2>6 DEF Reads
<1>7. Holds(t)'
  BY <1>1, <1>3 DEF IInv, OK, Holds
<1>8. Owes(t)'
  <2>1. \A q \in Restaurants : /\ Pending(t, q) => Pending(t, q)'
                               /\ UpToDate(t, q) => UpToDate(t, q)'
    BY <1>1, <1>3 DEF Pending, UpToDate
  <2>2. ~Writing(t)
    BY <1>1 DEF Writing
  <2> QED BY <1>1, <1>4, <2>1, <2>2 DEF IInv, OK, Owes, Doomed
<1>9. Shows(t)'
  BY <1>1 DEF IInv, OK, Shows
<1>10. Scoped(t)'
  BY <1>1 DEF IInv, OK, Scoped
<1> QED BY <1>1, <1>2, <1>10, <1>5, <1>6, <1>7, <1>8, <1>9,
           Unchanged, LocalStep
        DEF OK, IInv, TypeOK, Shapes

LEMMA UpsertKeeps ==
  ASSUME IInv, NEW t \in Txs, Upsert(t)
  PROVE  IInv'
<1>0. PICK r : r = cur[t]
  OBVIOUS
<1> DEFINE p == [head |-> head[t], menus |-> menus[t]]
<1>1. /\ pc[t] = "upsert" /\ pc' = [pc EXCEPT ![t] = "open"]
      /\ mine' = [mine EXCEPT ![t] = [mine[t] EXCEPT ![r] = p]]
      /\ cur' = [cur EXCEPT ![t] = NoRestaurant]
      /\ head' = [head EXCEPT ![t] = <<>>] /\ menus' = [menus EXCEPT ![t] = <<>>]
      /\ db' = db /\ snap' = snap /\ todo' = todo /\ uses' = uses /\ wrote' = wrote
      /\ op' = op /\ keys' = keys /\ shares' = shares
      /\ fired' = fired /\ loop' = loop /\ overtaken' = overtaken /\ raced' = raced
  BY <1>0 DEF Upsert, ghosts, locks
<1>a. r # NoRestaurant /\ r \in Restaurants /\ todo[t] # <<>>
  BY <1>0, <1>1 DEF IInv, TypeOK, OK, Staged
<1>b. DOMAIN mine[t] = Restaurants
  BY DEF IInv, Shapes
<1>2. /\ pc'[t] = "open" /\ cur'[t] = NoRestaurant /\ head'[t] = <<>> /\ menus'[t] = <<>>
      /\ mine'[t] = [mine[t] EXCEPT ![r] = p]
  BY <1>1, Domains
<1>c. Only(t)
  BY <1>1, <1>2, Unchanged, Zenon DEF Only
<1>d. /\ mine'[t][r] = p /\ DOMAIN mine'[t] = Restaurants
      /\ \A q \in Restaurants \ {r} : mine'[t][q] = mine[t][q]
  BY <1>2, <1>a, <1>b
<1>3. View(t)' = View(t) /\ Known(t)' = Known(t) /\ \A y : Refreshes(t, y)' = Refreshes(t, y)
  BY <1>1, <1>2, <1>c, QuietStep
<1>4. Active(t)' /\ Active(t)
  BY <1>1, <1>2 DEF Active
<1>e. PICK A \in SUBSET Allergens : Half(menus[t], MenuRows(r) \cup ({"allergens"} \X A), t)
  BY <1>0, <1>1 DEF IInv, OK, Reads
<1>f. Half(head[t], HeadRows(r), t)
  BY <1>0, <1>a DEF IInv, OK, Reads
<1>g. IsDocument(p, r, Known(t))
  BY <1>e, <1>f DEF Half, IsDocument
<1>h. p # NoPayload
  BY <1>a, <1>g, KnownFacts, NoPayloadIsNone
<1>i. r \notin overtaken[t] => p = Payload(View(t), r)
  BY <1>0, <1>1, <1>a DEF IInv, OK, Reads, Payload
<1>j. \A x \in HeadRows(r) \cup MenuRows(r) : x \in wrote[t] => <<x, t>> \in PublishedRows(p)
  <2> SUFFICES ASSUME NEW x \in HeadRows(r) \cup MenuRows(r), x \in wrote[t]
               PROVE  <<x, t>> \in PublishedRows(p)
    OBVIOUS
  <2>1. CASE x \in HeadRows(r)
    <3>1. x \in DOMAIN p.head /\ p.head[x] = t
      BY <1>f, <2>1 DEF Half
    <3> QED BY <3>1 DEF PublishedRows
  <2>2. CASE x \in MenuRows(r)
    <3>1. x \in DOMAIN p.menus /\ p.menus[x] = t
      BY <1>e, <2>2 DEF Half
    <3> QED BY <3>1 DEF PublishedRows
  <2> QED BY <2>1, <2>2
<1> HIDE DEF p
<1>5. Bounded(t)'
  <2>1. r \in Touched(wrote[t])
    BY <1>0, <1>a DEF IInv, OK, Bounded
  <2> QED BY <1>1, <1>2, <1>d, <2>1 DEF IInv, OK, Bounded
<1>6. Staged(t)'
  BY <1>1, <1>2, <1>4, <1>a DEF Staged
<1>7. Reads(t)'
  BY <1>2 DEF Reads
<1>8. Holds(t)'
  <2> SUFFICES ASSUME NEW q \in Restaurants, mine'[t][q] # NoPayload
               PROVE  IsDocument(mine'[t][q], q, Known(t))
    BY <1>3 DEF Holds
  <2> QED BY <1>d, <1>g DEF IInv, OK, Holds
<1>9. Owes(t)'
  <2> SUFFICES ASSUME NEW q \in Restaurants, q \notin overtaken[t]
               PROVE  Pending(t, q)' \/ UpToDate(t, q)'
    BY <1>1 DEF Owes
  <2>1. CASE q = r
    BY <1>3, <1>d, <1>i, <2>1 DEF UpToDate
  <2>2. CASE q # r
    <3>1. CASE UpToDate(t, q)
      BY <1>1, <1>3, <1>d, <2>2, <3>1 DEF UpToDate
    <3>2. CASE Pending(t, q)
      BY <1>0, <1>1, <1>3, <2>2, <3>2 DEF Pending
    <3>3. ~Writing(t)
      BY <1>1 DEF Writing
    <3> QED BY <1>4, <3>1, <3>2, <3>3 DEF IInv, OK, Owes, Doomed
  <2> QED BY <2>1, <2>2
<1>10. Shows(t)'
  <2> SUFFICES ASSUME NEW x \in wrote[t], x[1] # "allergens"
               PROVE  \/ x \in fired[t] \/ x[2] \in loop[t]
                      \/ /\ mine'[t][x[2]] # NoPayload
                         /\ <<x, t>> \in PublishedRows(mine'[t][x[2]])
    BY <1>1 DEF Shows
  <2>1. x[2] \in Restaurants /\ x \in HeadRows(x[2]) \cup MenuRows(x[2])
    BY RowFacts DEF IInv, TypeOK
  <2>2. CASE x[2] = r
    BY <1>d, <1>h, <1>j, <2>1, <2>2
  <2>3. CASE x[2] # r
    BY <1>0, <1>d, <2>1, <2>3 DEF IInv, OK, Shows
  <2> QED BY <2>2, <2>3
<1>11. Scoped(t)'
  BY <1>1 DEF IInv, OK, Scoped
<1> QED BY <1>1, <1>2, <1>11, <1>c, <1>d, <1>5, <1>6, <1>7, <1>8, <1>9, <1>10, 
           Unchanged, LocalStep DEF OK, IInv, TypeOK

LEMMA EndStatementKeeps ==
  ASSUME IInv, NEW t \in Txs, EndStatement(t)
  PROVE  IInv'
<1>1. /\ pc[t] = "open" /\ todo[t] # <<>> /\ ~Writing(t) /\ fired[t] = {} /\ loop[t] = {}
      /\ todo' = [todo EXCEPT ![t] = Tail(todo[t])]
      /\ db' = db /\ snap' = snap /\ pc' = pc /\ uses' = uses /\ wrote' = wrote
      /\ op' = op /\ keys' = keys /\ shares' = shares
      /\ fired' = fired /\ loop' = loop /\ cur' = cur /\ head' = head /\ menus' = menus
      /\ mine' = mine /\ overtaken' = overtaken /\ raced' = raced
  BY DEF EndStatement, Triggering, Writing, ghosts, locks
<1>2. todo'[t] = Tail(todo[t])
  BY <1>1, Domains
<1>3. Scoped(t)'
  <2>1. todo[t] \in Seq(Seq(Within(op[t].scope)))
    BY DEF IInv, OK, Scoped
  <2>2. todo'[t] \in Seq(Seq(Within(op[t].scope)))
    BY <1>1, <1>2, <2>1, RestOf
  <2> QED BY <1>1, <2>2 DEF IInv, OK, Scoped
<1>4. Only(t)
  BY <1>1, <1>2, Unchanged, Zenon DEF Only
<1>5. View(t)' = View(t) /\ Known(t)' = Known(t) /\ \A y : Refreshes(t, y)' = Refreshes(t, y)
  BY <1>1, <1>4, QuietStep
<1>6. Active(t)' <=> Active(t)
  BY <1>1 DEF Active
<1>7. Bounded(t)' /\ Staged(t)' /\ Shows(t)'
  BY <1>1, <1>6 DEF IInv, OK, Bounded, Staged, Shows
<1>8. Reads(t)' /\ Holds(t)'
  BY <1>1, <1>5 DEF IInv, OK, Reads, Holds, Half
<1>9. Owes(t)'
  <2>1. \A q \in Restaurants : /\ Pending(t, q) => Pending(t, q)'
                               /\ UpToDate(t, q) => UpToDate(t, q)'
    BY <1>1, <1>5 DEF Pending, UpToDate
  <2> QED BY <1>1, <1>6, <2>1 DEF IInv, OK, Owes, Doomed
<1> QED BY <1>1, <1>3, <1>4, <1>7, <1>8, <1>9, Unchanged, LocalStep
        DEF OK, IInv, TypeOK, Shapes

\* A transaction that has written nothing owes nothing.
LEMMA BlankIsOK ==
  ASSUME NEW t \in Txs, db' \in [Rows -> Cells], wrote'[t] = {}, fired'[t] = {}, loop'[t] = {},
         cur'[t] = NoRestaurant, pc'[t] \notin {"menus", "upsert"},
         todo'[t] \in Seq(Seq(Within(op'[t].scope))),
         \A r \in Restaurants : mine'[t][r] = NoPayload
  PROVE  OK(t)'
<1>1. Scoped(t)' /\ Bounded(t)' /\ Staged(t)' /\ Reads(t)' /\ Holds(t)' /\ Shows(t)'
  BY DEF Scoped, Touched, Bounded, Staged, Reads, Holds, Shows
<1>2. Owes(t)'
  <2> SUFFICES ASSUME NEW r \in Restaurants PROVE Payload(View(t)', r) = Payload(db', r)
    BY DEF Owes, UpToDate
  <2>1. \A x \in Rows : View(t)'[x] = db'[x]
    BY DEF View
  <2>2. Assigned(db', r) \in SUBSET Allergens
    BY RowFacts DEF Assigned, Cells
  <2>3. Scope(db', r) \subseteq Rows
    BY <2>2, RowFacts, ColsFacts DEF Scope
  <2>4. \A x \in Scope(db', r) : db'[x] = View(t)'[x]
    BY <2>1, <2>3
  <2> QED BY <2>4, SameDocument
<1> QED BY <1>1, <1>2 DEF OK

LEMMA MayDemand ==
  ASSUME NEW S, NEW d \in Demands, Touched({d.row}) \subseteq S, d.gives = {}
  PROVE  d \in Within(S)
BY Zenon DEF Within

LEMMA DemandFacts ==
  /\ \A x \in Rows : \A S : Share(x) \in Within(S)
  /\ \A r \in Restaurants : \A T \in HeadTables \cup MenuTables :
       /\ <<T, r>> \in Rows
       /\ {Update(<<T, r>>), Rekey(<<T, r>>), Delete(<<T, r>>)} \subseteq Within({r})
  /\ \A r \in Restaurants, a \in Allergens :
       <<"allergens", a>> \in Rows /\ Assign(r, a) \in Within({r})
  /\ \A a \in Allergens :
       {Update(<<"allergens", a>>), Rekey(<<"allergens", a>>), Delete(<<"allergens", a>>)}
         \subseteq Within(Restaurants)
<1>1. ASSUME NEW x \in Rows, NEW m \in {"update", "rekey", "delete", "share"}
      PROVE  /\ Demand(m, x) \in Demands /\ Demand(m, x).mode = m /\ Demand(m, x).row = x
             /\ Demand(m, x).gives = {}
  BY DEF Demand, Demands
<1>2. ASSUME NEW x \in Rows, NEW S PROVE Share(x) \in Within(S)
  BY <1>1 DEF Share, Within
<1>3. ASSUME NEW r \in Restaurants, NEW T \in HeadTables \cup MenuTables
      PROVE  /\ <<T, r>> \in Rows
             /\ {Update(<<T, r>>), Rekey(<<T, r>>), Delete(<<T, r>>)} \subseteq Within({r})
  <2>1. <<T, r>> \in Rows /\ T # "allergens"
    BY DEF Rows, HeadTables, MenuTables
  <2>2. Touched({<<T, r>>}) \subseteq {r}
    BY <2>1 DEF Touched
  <2>3. \A m \in {"update", "rekey", "delete"} : Demand(m, <<T, r>>) \in Within({r})
    BY <1>1, <2>1, <2>2 DEF Within
  <2> QED BY <2>1, <2>3 DEF Update, Rekey, Delete
<1>4. ASSUME NEW r \in Restaurants, NEW a \in Allergens
      PROVE  <<"allergens", a>> \in Rows /\ Assign(r, a) \in Within({r})
  <2> DEFINE x == <<"assignments", r>>
             d == [mode |-> "update", row |-> x, gives |-> {a}]
  <2>1. x \in Rows /\ Touched({x}) \subseteq {r}
    <3>1. Touched({x}) \subseteq {r}
      BY DEF Touched
    <3>2. x \in Rows
      BY <1>3 DEF MenuTables
    <3> QED BY <3>1, <3>2
  <2>2. x[1] = "assignments" /\ x[2] = r
    OBVIOUS
  <2> HIDE DEF x
  <2>3. d \in Demands /\ d.mode = "update" /\ d.row = x
    BY <2>1 DEF Demands
  <2> HIDE DEF d
  <2>4. d \in Within({r})
    BY <2>1, <2>2, <2>3 DEF Within
  <2> QED BY <2>4, RowFacts DEF Assign, d, x
<1>5. ASSUME NEW a \in Allergens
      PROVE  {Update(<<"allergens", a>>), Rekey(<<"allergens", a>>), Delete(<<"allergens", a>>)}
               \subseteq Within(Restaurants)
  <2>1. <<"allergens", a>> \in Rows /\ Touched({<<"allergens", a>>}) \subseteq Restaurants
    BY RowFacts DEF Touched
  <2>2. \A m \in {"update", "rekey", "delete"} : Demand(m, <<"allergens", a>>) \in Within(Restaurants)
    <3>1. PICK x : x = <<"allergens", a>>
      OBVIOUS
    <3>2. ASSUME NEW m \in {"update", "rekey", "delete"} PROVE Demand(m, x) \in Within(Restaurants)
      <4>1. PICK d : d = Demand(m, x)
        OBVIOUS
      <4>2. x \in Rows /\ m \in {"update", "rekey", "delete", "share"}
        BY <2>1, <3>1
      <4>3. d \in Demands /\ d.row = x /\ d.gives = {}
        BY <1>1, <4>1, <4>2
      <4>4. Touched({d.row}) \subseteq Restaurants
        BY <2>1, <3>1, <4>3
      <4>5. d \in Within(Restaurants)
        BY <4>3, <4>4, MayDemand
      <4> QED BY <4>1, <4>5
    <3> QED BY <3>1, <3>2
  <2> QED BY <2>2 DEF Update, Rekey, Delete
<1> QED BY <1>2, <1>3, <1>4, <1>5

LEMMA ListFacts == Lists \subseteq Seq(Allergens)
<1>1. Cardinality(Allergens) \in Nat
  BY AllergensFinite, FS_CardinalityType
<1> SUFFICES ASSUME NEW s \in Lists PROVE s \in Seq(Allergens)
  OBVIOUS
<1>2. PICK n \in 0..Cardinality(Allergens) : s \in [1..n -> Allergens]
  BY DEF Lists
<1> QED BY <1>1, <1>2

LEMMA ChangesFacts ==
  ASSUME NEW W, NEW x, Update(x) \in W, Rekey(x) \in W
  PROVE  Changes(x) \subseteq Seq(W)
<1>1. <<Update(x)>> \in Seq(W) /\ <<Rekey(x)>> \in Seq(W)
  OBVIOUS
<1> QED BY <1>1 DEF Changes

\* An edit of one restaurant locks rows of it, and most by one statement.
LEMMA EditFacts ==
  ASSUME NEW r \in Restaurants, NEW o \in RestaurantOps(r)
  PROVE  /\ o.scope = {r} /\ o.batches \in Seq(Seq(Within({r}))) /\ o.name # "DeleteAllergen"
         /\ o.name \in LocksOn \/ Len(o.batches) = 1
<1> DEFINE Fits(W) == /\ o.scope = {r} /\ o.batches \in Seq(Seq(W)) /\ o.name # "DeleteAllergen"
                      /\ o.name \in LocksOn \/ Len(o.batches) = 1
<1>0. PICK W : W = Within({r})
  OBVIOUS
<1> SUFFICES Fits(W)
  BY <1>0
<1>1. \A T \in HeadTables \cup MenuTables :
        Update(<<T, r>>) \in W /\ Rekey(<<T, r>>) \in W /\ Delete(<<T, r>>) \in W
        /\ Share(<<T, r>>) \in W
  BY <1>0, DemandFacts
<1>2. \A a \in Allergens : Assign(r, a) \in W /\ Share(<<"allergens", a>>) \in W
  BY <1>0, DemandFacts
<1>3. ASSUME NEW name, NEW B, name \notin LocksOn \cup {"DeleteAllergen"}, B \subseteq Seq(W),
             o \in Statements(name, r, B)
      PROVE  Fits(W)
  <2>1. PICK b \in B : o = [name |-> name, scope |-> {r}, batches |-> <<b>>]
    BY <1>3 DEF Statements
  <2>2. b \in Seq(W)
    BY <1>3
  <2>3. <<b>> \in Seq(Seq(W)) /\ Len(<<b>>) = 1
    BY <2>2
  <2>4. o.name = name /\ o.scope = {r} /\ o.batches = <<b>>
    BY <2>1
  <2> QED BY <1>3, <2>3, <2>4
<1>4. "restaurants" \in HeadTables /\ "hours" \in HeadTables
      /\ {"menus", "sections", "entries", "items", "assignments"} \subseteq MenuTables
  BY DEF HeadTables, MenuTables
<1> HIDE DEF Fits
<1>5. \A T \in HeadTables \cup MenuTables : Changes(<<T, r>>) \subseteq Seq(W)
  BY <1>1, ChangesFacts
<1>6. CASE o \in UpdateRestaurant(r)
  <2>1. Changes(<<"restaurants", r>>) \subseteq Seq(W)
    BY <1>4, <1>5
  <2>2. "UpdateRestaurant" \notin LocksOn \cup {"DeleteAllergen"}
    BY DEF LocksOn
  <2> QED BY <1>3, <1>6, <2>1, <2>2, Zenon DEF UpdateRestaurant
<1>7. CASE o \in WriteHours(r)
  <2>1. Update(<<"hours", r>>) \in W /\ Share(<<"restaurants", r>>) \in W
    BY <1>1, <1>4
  <2>2. {<<Update(<<"hours", r>>)>>, <<Update(<<"hours", r>>), Share(<<"restaurants", r>>)>>}
          \subseteq Seq(W)
    BY <2>1
  <2>3. "WriteHours" \notin LocksOn \cup {"DeleteAllergen"}
    BY DEF LocksOn
  <2> QED BY <1>3, <1>7, <2>2, <2>3, Zenon DEF WriteHours
<1>8. CASE o \in WriteMenu(r)
  <2>1. Update(<<"menus", r>>) \in W /\ Share(<<"restaurants", r>>) \in W
    BY <1>1, <1>4
  <2>2. {<<Update(<<"menus", r>>), Share(<<"restaurants", r>>)>>} \subseteq Seq(W)
    BY <2>1
  <2>3. Changes(<<"menus", r>>) \cup {<<Update(<<"menus", r>>), Share(<<"restaurants", r>>)>>}
          \subseteq Seq(W)
    BY <1>4, <1>5, <2>2
  <2>4. "WriteMenu" \notin LocksOn \cup {"DeleteAllergen"}
    BY DEF LocksOn
  <2> QED BY <1>3, <1>8, <2>3, <2>4, Zenon DEF WriteMenu
<1>9. CASE o \in WriteMenuSection(r)
  <2>1. Update(<<"sections", r>>) \in W /\ Share(<<"menus", r>>) \in W
    BY <1>1, <1>4
  <2>2. {<<Update(<<"sections", r>>)>>, <<Update(<<"sections", r>>), Share(<<"menus", r>>)>>}
          \subseteq Seq(W)
    BY <2>1
  <2>3. "WriteMenuSection" \notin LocksOn \cup {"DeleteAllergen"}
    BY DEF LocksOn
  <2> QED BY <1>3, <1>9, <2>2, <2>3, Zenon DEF WriteMenuSection
<1>10. CASE o \in WriteMenuEntry(r)
  <2>1. /\ Update(<<"entries", r>>) \in W /\ Rekey(<<"entries", r>>) \in W
        /\ Delete(<<"entries", r>>) \in W /\ Share(<<"items", r>>) \in W
        /\ Share(<<"sections", r>>) \in W
    BY <1>1, <1>4
  <2>2. {<<Update(<<"entries", r>>)>>,
         <<Rekey(<<"entries", r>>), Share(<<"items", r>>)>>,
         <<Update(<<"entries", r>>), Share(<<"sections", r>>), Share(<<"items", r>>)>>,
         <<Delete(<<"entries", r>>)>>} \subseteq Seq(W)
    BY <2>1
  <2>3. "WriteMenuEntry" \notin LocksOn \cup {"DeleteAllergen"}
    BY DEF LocksOn
  <2> QED BY <1>3, <1>10, <2>2, <2>3, Zenon DEF WriteMenuEntry
<1>11. CASE o \in DeleteMenu(r)
  <2>1. /\ Delete(<<"menus", r>>) \in W /\ Delete(<<"sections", r>>) \in W
        /\ Delete(<<"entries", r>>) \in W
    BY <1>1, <1>4
  <2>2. << <<Delete(<<"menus", r>>), Delete(<<"sections", r>>)>>,
           <<Delete(<<"entries", r>>)>> >> \in Seq(Seq(W))
    BY <2>1
  <2>3. o = [name |-> "DeleteMenu", scope |-> {r},
             batches |-> << <<Delete(<<"menus", r>>), Delete(<<"sections", r>>)>>,
                            <<Delete(<<"entries", r>>)>> >>]
    BY <1>11 DEF DeleteMenu
  <2> QED BY <2>2, <2>3 DEF LocksOn, Fits
<1>12. CASE o \in DeleteMenuSection(r)
  <2>1. Delete(<<"sections", r>>) \in W /\ Delete(<<"entries", r>>) \in W
    BY <1>1, <1>4
  <2>2. {<<Delete(<<"sections", r>>), Delete(<<"entries", r>>)>>} \subseteq Seq(W)
    BY <2>1
  <2>3. "DeleteMenuSection" \notin LocksOn \cup {"DeleteAllergen"}
    BY DEF LocksOn
  <2> QED BY <1>3, <1>12, <2>2, <2>3, Zenon DEF DeleteMenuSection
<1>13. CASE o \in DeleteCatalogItem(r)
  <2>1. Delete(<<"items", r>>) \in W /\ Delete(<<"assignments", r>>) \in W
    BY <1>1, <1>4
  <2>2. {<<Delete(<<"items", r>>), Delete(<<"assignments", r>>)>>} \subseteq Seq(W)
    BY <2>1
  <2>3. "DeleteCatalogItem" \notin LocksOn \cup {"DeleteAllergen"}
    BY DEF LocksOn
  <2> QED BY <1>3, <1>13, <2>2, <2>3, Zenon DEF DeleteCatalogItem
<1>14. CASE o \in WriteCatalogItem(r)
  <2>1. PICK b \in Changes(<<"items", r>>)
                     \cup {<<Update(<<"items", r>>), Share(<<"restaurants", r>>)>>},
             s \in Lists :
          o = [name |-> "WriteCatalogItem", scope |-> {r}, batches |-> <<b>> \o ReplaceAssignments(r, s)]
    BY <1>14, Zenon DEF WriteCatalogItem
  <2>2. /\ Update(<<"items", r>>) \in W /\ Share(<<"restaurants", r>>) \in W
        /\ Delete(<<"assignments", r>>) \in W
    BY <1>1, <1>4
  <2>3. b \in Seq(W)
    <3>1. <<Update(<<"items", r>>), Share(<<"restaurants", r>>)>> \in Seq(W)
      BY <2>2
    <3> QED BY <1>4, <1>5, <3>1
  <2>4. s \in Seq(Allergens)
    BY ListFacts
  <2> DEFINE inserts == [i \in DOMAIN s |-> <<Assign(r, s[i]), Share(<<"restaurants", r>>),
                                             Share(<<"allergens", s[i]>>)>>]
  <2>5. inserts \in Seq(Seq(W))
    <3>1. ASSUME NEW a \in Allergens
          PROVE  <<Assign(r, a), Share(<<"restaurants", r>>), Share(<<"allergens", a>>)>> \in Seq(W)
      BY <1>2, <2>2
    <3>2. DOMAIN s = 1..Len(s) /\ Len(s) \in Nat /\ \A i \in 1..Len(s) : s[i] \in Allergens
      BY <2>4
    <3>3. inserts \in [1..Len(s) -> Seq(W)]
      BY <3>1, <3>2
    <3> HIDE DEF inserts
    <3> QED BY <3>2, <3>3
  <2>6. << <<Delete(<<"assignments", r>>)>> >> \in Seq(Seq(W)) /\ <<b>> \in Seq(Seq(W))
    BY <2>2, <2>3
  <2> HIDE DEF inserts
  <2>7. ASSUME NEW p \in Seq(Seq(W)), NEW q \in Seq(Seq(W)) PROVE p \o q \in Seq(Seq(W))
    OBVIOUS
  <2>8. ReplaceAssignments(r, s) \in Seq(Seq(W))
    BY <2>5, <2>6, <2>7, Zenon DEF ReplaceAssignments, inserts
  <2>9. <<b>> \o ReplaceAssignments(r, s) \in Seq(Seq(W))
    BY <2>6, <2>7, <2>8
  <2> QED BY <2>1, <2>9 DEF LocksOn, Fits
<1> QED BY <1>6, <1>7, <1>8, <1>9, <1>10, <1>11, <1>12, <1>13, <1>14, Zenon DEF RestaurantOps

\* An edit of an allergen concerns every restaurant.
LEMMA AllergenFacts ==
  ASSUME NEW a \in Allergens, NEW o \in UpdateAllergen(a) \cup DeleteAllergen(a)
  PROVE  /\ o.scope = Restaurants /\ o.batches \in Seq(Seq(Within(Restaurants)))
         /\ \/ o.name = "UpdateAllergen"
            \/ /\ o.name = "DeleteAllergen"
               /\ o.batches = << <<Delete(<<"allergens", a>>)>> >>
<1>0. PICK W : W = Within(Restaurants)
  OBVIOUS
<1>1. /\ Update(<<"allergens", a>>) \in W /\ Rekey(<<"allergens", a>>) \in W
      /\ Delete(<<"allergens", a>>) \in W
  <2>1. {Update(<<"allergens", a>>), Rekey(<<"allergens", a>>), Delete(<<"allergens", a>>)}
          \subseteq Within(Restaurants)
    BY DemandFacts, Zenon
  <2> QED BY <1>0, <2>1
<1>2. CASE o \in UpdateAllergen(a)
  <2>1. PICK b \in Changes(<<"allergens", a>>) :
          o = [name |-> "UpdateAllergen", scope |-> Restaurants, batches |-> <<b>>]
    BY <1>2 DEF UpdateAllergen
  <2>2. b \in Seq(W)
    BY <1>1, ChangesFacts
  <2>3. <<b>> \in Seq(Seq(W))
    BY <2>2
  <2> QED BY <1>0, <2>1, <2>3
<1>3. CASE o \in DeleteAllergen(a)
  <2>1. << <<Delete(<<"allergens", a>>)>> >> \in Seq(Seq(W))
    BY <1>1
  <2>2. o = [name |-> "DeleteAllergen", scope |-> Restaurants,
             batches |-> << <<Delete(<<"allergens", a>>)>> >>]
    BY <1>3 DEF DeleteAllergen
  <2> QED BY <1>0, <2>1, <2>2
<1> QED BY <1>2, <1>3

LEMMA OpKinds ==
  ASSUME NEW o \in Ops
  PROVE  /\ o.name \in OpNames
         /\ \/ \E r \in Restaurants : o \in RestaurantOps(r)
            \/ \E a \in Allergens : o \in UpdateAllergen(a) \cup DeleteAllergen(a)
<1> DEFINE A == UNION {RestaurantOps(r) : r \in Restaurants}
           B == UNION {UpdateAllergen(a) \cup DeleteAllergen(a) : a \in Allergens}
<1>1. o \in A \cup B /\ o.name \in OpNames
  BY Zenon DEF Ops, AllOps
<1>2. ASSUME o \in A PROVE \E r \in Restaurants : o \in RestaurantOps(r)
  BY <1>2, Zenon
<1>3. ASSUME o \in B PROVE \E a \in Allergens : o \in UpdateAllergen(a) \cup DeleteAllergen(a)
  BY <1>3, Zenon
<1> HIDE DEF A, B
<1> QED BY <1>1, <1>2, <1>3, Zenon

LEMMA OpFacts ==
  ASSUME NEW o \in Ops
  PROVE  o.name \in OpNames /\ o.scope \in SUBSET Restaurants
         /\ o.batches \in Seq(Seq(Within(o.scope)))
<1>1. CASE \E r \in Restaurants : o \in RestaurantOps(r)
  <2>1. PICK r \in Restaurants : o \in RestaurantOps(r)
    BY <1>1
  <2>2. o.scope = {r} /\ o.batches \in Seq(Seq(Within({r})))
    BY <2>1, EditFacts
  <2> QED BY <2>2, OpKinds
<1>2. CASE \E a \in Allergens : o \in UpdateAllergen(a) \cup DeleteAllergen(a)
  <2>1. o.scope = Restaurants /\ o.batches \in Seq(Seq(Within(Restaurants)))
    BY <1>2, AllergenFacts
  <2> QED BY <2>1, OpKinds
<1> QED BY <1>1, <1>2, OpKinds

LEMMA BeginKeeps ==
  ASSUME IInv, NEW t \in Txs, Begin(t)
  PROVE  IInv'
<1>0. PICK o \in Ops : /\ op' = [op EXCEPT ![t] = [name |-> o.name, scope |-> o.scope]]
                       /\ todo' = [todo EXCEPT ![t] = o.batches]
  BY DEF Begin
<1>1. /\ pc[t] = "idle" /\ pc' = [pc EXCEPT ![t] = "open"]
      /\ overtaken' = [overtaken EXCEPT ![t] = {}]
      /\ db' = db /\ snap' = snap /\ uses' = uses /\ wrote' = wrote /\ keys' = keys
      /\ shares' = shares /\ fired' = fired /\ loop' = loop
      /\ cur' = cur /\ head' = head /\ menus' = menus /\ mine' = mine /\ raced' = raced
  BY DEF Begin, locks
<1>2. /\ op'[t] = [name |-> o.name, scope |-> o.scope] /\ todo'[t] = o.batches /\ pc'[t] = "open"
  BY <1>0, <1>1, Domains
<1>3. Only(t)
  BY <1>0, <1>1, <1>2, Unchanged, Zenon DEF Only
<1>4. overtaken'[t] = {}
  BY <1>1 DEF IInv, TypeOK
<1>5. /\ wrote[t] = {} /\ fired[t] = {} /\ loop[t] = {} /\ cur[t] = NoRestaurant
      /\ \A r \in Restaurants : mine[t][r] = NoPayload
  BY <1>1 DEF IInv, OK, Staged, Active
<1>6. OK(t)'
  <2>1. db' \in [Rows -> Cells] /\ todo'[t] \in Seq(Seq(Within(op'[t].scope)))
    BY <1>1, <1>2, OpFacts DEF IInv, TypeOK
  <2> QED BY <1>1, <1>2, <1>5, <2>1, BlankIsOK
<1>7. /\ pc'[t] \in {"idle", "open", "menus", "upsert", "aborted"} /\ pc[t] # "committed"
      /\ op'[t] \in [name : OpNames \cup {"none"}, scope : SUBSET Restaurants]
      /\ uses'[t] \in SUBSET Allergens /\ wrote'[t] \in SUBSET Rows
      /\ keys'[t] \in SUBSET Rows /\ shares'[t] \in SUBSET Rows
      /\ DOMAIN mine'[t] = Restaurants /\ overtaken'[t] \in SUBSET Restaurants
  BY <1>1, <1>2, <1>4, OpFacts DEF IInv, TypeOK, Shapes
<1> QED BY <1>1, <1>3, <1>4, <1>6, <1>7, LocalStep

LEMMA RollbackKeeps ==
  ASSUME IInv, NEW t \in Txs, Rollback(t)
  PROVE  IInv'
<1>1. /\ Active(t) /\ pc' = [pc EXCEPT ![t] = "aborted"] /\ op' = [op EXCEPT ![t] = NoOp]
      /\ wrote' = [wrote EXCEPT ![t] = {}] /\ mine' = [mine EXCEPT ![t] = NoRows]
      /\ keys' = [keys EXCEPT ![t] = {}] /\ shares' = [shares EXCEPT ![t] = {}]
      /\ todo' = [todo EXCEPT ![t] = <<>>] /\ uses' = [uses EXCEPT ![t] = {}]
      /\ fired' = [fired EXCEPT ![t] = {}] /\ loop' = [loop EXCEPT ![t] = {}]
      /\ cur' = [cur EXCEPT ![t] = NoRestaurant]
      /\ head' = [head EXCEPT ![t] = <<>>] /\ menus' = [menus EXCEPT ![t] = <<>>]
      /\ db' = db /\ snap' = snap /\ overtaken' = overtaken /\ raced' = raced
  BY DEF Rollback, Release, ghosts
<1>2. /\ pc'[t] = "aborted" /\ wrote'[t] = {} /\ mine'[t] = NoRows /\ todo'[t] = <<>>
      /\ uses'[t] = {} /\ fired'[t] = {} /\ loop'[t] = {} /\ cur'[t] = NoRestaurant
      /\ head'[t] = <<>> /\ menus'[t] = <<>> /\ op'[t] = NoOp /\ keys'[t] = {} /\ shares'[t] = {}
  BY <1>1, Domains
<1>3. Only(t)
  BY <1>1, <1>2, Zenon DEF Only
<1>4. OK(t)'
  <2>1. db' \in [Rows -> Cells]
    BY <1>1 DEF IInv, TypeOK
  <2>2. \A r \in Restaurants : mine'[t][r] = NoPayload
    BY <1>2 DEF NoRows
  <2>3. todo'[t] \in Seq(Seq(Within(op'[t].scope)))
    BY <1>2
  <2> QED BY <1>2, <2>1, <2>2, <2>3, BlankIsOK
<1>5. /\ pc'[t] \in {"idle", "open", "menus", "upsert", "aborted"} /\ pc[t] # "committed"
      /\ op'[t] \in [name : OpNames \cup {"none"}, scope : SUBSET Restaurants]
      /\ uses'[t] \in SUBSET Allergens /\ wrote'[t] \in SUBSET Rows
      /\ keys'[t] \in SUBSET Rows /\ shares'[t] \in SUBSET Rows
      /\ DOMAIN mine'[t] = Restaurants /\ overtaken'[t] \in SUBSET Restaurants
  BY <1>1, <1>2 DEF IInv, TypeOK, NoRows, NoOp, Active
<1> QED BY <1>1, <1>3, <1>4, <1>5, Unchanged, LocalStep

\* What is left of a statement that goes on with the demands s.
LEMMA GoOnFacts ==
  ASSUME IInv, NEW t \in Txs, Writing(t), NEW s \in Seq(Within(op[t].scope)), GoOn(t, s),
         op' = op, wrote'[t] = wrote[t] \/ Touched(wrote'[t]) \subseteq op[t].scope
  PROVE  /\ todo'[t] = <<s \o Tail(Head(todo[t]))>> \o Tail(todo[t])
         /\ todo' = [todo EXCEPT ![t] = todo'[t]]
         /\ Scoped(t)' /\ todo'[t] # <<>> /\ Len(todo'[t]) = Len(todo[t])
         /\ Head(todo'[t]) = s \o Tail(Head(todo[t]))
         /\ NextDemand(t) \in Within(op[t].scope)
<1> DEFINE W == Within(op[t].scope)
<1>1. todo[t] \in Seq(Seq(W)) /\ todo[t] # <<>> /\ Head(todo[t]) # <<>>
  BY DEF IInv, OK, Scoped, Writing
<1>2. todo'[t] = <<s \o Tail(Head(todo[t]))>> \o Tail(todo[t])
  BY Domains DEF GoOn
<1>3. todo' = [todo EXCEPT ![t] = todo'[t]]
  BY <1>2 DEF GoOn
<1> HIDE DEF W
<1>4. Head(todo[t]) \in Seq(W) /\ Tail(todo[t]) \in Seq(Seq(W))
      /\ Len(Tail(todo[t])) = Len(todo[t]) - 1 /\ Len(todo[t]) \in Nat
  BY <1>1
<1>5. Tail(Head(todo[t])) \in Seq(W) /\ Head(Head(todo[t])) \in W
  BY <1>1, <1>4
<1>6. s \o Tail(Head(todo[t])) \in Seq(W)
  BY <1>5 DEF W
<1>7. ASSUME NEW b \in Seq(W), NEW q \in Seq(Seq(W))
      PROVE  /\ <<b>> \o q \in Seq(Seq(W)) /\ <<b>> \o q # <<>> /\ Head(<<b>> \o q) = b
             /\ Len(<<b>> \o q) = 1 + Len(q)
  OBVIOUS
<1>8. /\ todo'[t] \in Seq(Seq(W)) /\ todo'[t] # <<>> /\ Len(todo'[t]) = Len(todo[t])
      /\ Head(todo'[t]) = s \o Tail(Head(todo[t]))
  BY <1>2, <1>4, <1>6, <1>7
<1>9. Touched(wrote'[t]) \subseteq op[t].scope
  BY DEF IInv, OK, Scoped
<1> QED BY <1>2, <1>3, <1>5, <1>8, <1>9 DEF Scoped, NextDemand, W

LEMMA WriteRowKeeps ==
  ASSUME IInv, NEW t \in Txs, WriteRow(t)
  PROVE  IInv'
<1>0. PICK d, x, touch, tail :
        /\ d = NextDemand(t) /\ x = d.row
        /\ touch = IF d.mode = "delete" /\ NothingToDelete(t, x) THEN {} ELSE {x}
        /\ tail = Checks(d)
        /\ wrote' = [wrote EXCEPT ![t] = wrote[t] \cup touch]
        /\ keys' = [keys EXCEPT ![t] = IF d.mode = "update" THEN keys[t] ELSE keys[t] \cup touch]
        /\ fired' = [fired EXCEPT ![t] = IF HasTrigger(d) THEN fired[t] \cup touch ELSE fired[t]]
        /\ uses' = [uses EXCEPT ![t] = uses[t] \cup d.gives]
        /\ GoOn(t, tail)
  BY DEF WriteRow
<1>1. /\ pc[t] = "open" /\ Writing(t) /\ NextDemand(t) = d /\ d.mode \in {"update", "rekey", "delete"}
      /\ db' = db /\ snap' = snap /\ pc' = pc /\ op' = op /\ shares' = shares /\ loop' = loop
      /\ cur' = cur /\ head' = head /\ menus' = menus
      /\ mine' = mine /\ overtaken' = overtaken /\ raced' = raced
  BY <1>0 DEF WriteRow, Free, Writing, ghosts
<1>2. /\ d \in Within(op[t].scope) /\ d \in Demands /\ x \in Rows /\ touch \in SUBSET {x}
      /\ Touched({x}) \subseteq op[t].scope
  <2>1. todo[t] \in Seq(Seq(Within(op[t].scope))) /\ todo[t] # <<>> /\ Head(todo[t]) # <<>>
    BY <1>1 DEF IInv, OK, Scoped, Writing
  <2>2. Head(todo[t]) \in Seq(Within(op[t].scope))
    BY <2>1
  <2>3. Head(Head(todo[t])) \in Within(op[t].scope)
    BY <2>1, <2>2
  <2>4. d \in Within(op[t].scope)
    BY <1>1, <2>3 DEF NextDemand
  <2> QED BY <1>0, <1>1, <2>4 DEF Within, Demands
<1>3. /\ wrote'[t] = wrote[t] \cup touch /\ uses'[t] = uses[t] \cup d.gives
      /\ fired'[t] = IF HasTrigger(d) THEN fired[t] \cup touch ELSE fired[t]
      /\ keys'[t] = IF d.mode = "update" THEN keys[t] ELSE keys[t] \cup touch
  BY <1>0, Domains
<1>4. tail \in Seq(Within(op[t].scope))
  <2>1. CASE d.mode = "delete" /\ x[1] \in {"items", "allergens"}
    <3>1. Demand("check", x) \in Within(op[t].scope)
      BY <1>2 DEF Demand, Demands, Within
    <3> QED BY <1>0, <2>1, <3>1 DEF Checks
  <2>2. CASE ~(d.mode = "delete" /\ x[1] \in {"items", "allergens"})
    <3>1. tail = <<>>
      BY <1>0, <2>2 DEF Checks
    <3> QED BY <3>1
  <2> QED BY <2>1, <2>2
<1>w. Touched(wrote'[t]) \subseteq op[t].scope
  BY <1>2, <1>3 DEF IInv, OK, Scoped, Touched
<1>5. /\ todo' = [todo EXCEPT ![t] = todo'[t]] /\ Scoped(t)' /\ todo'[t] # <<>>
      /\ Head(todo'[t]) = tail \o Tail(Head(todo[t]))
  BY <1>0, <1>1, <1>4, <1>w, GoOnFacts
<1>6. Only(t)
  BY <1>0, <1>1, <1>3, <1>5, Unchanged, Zenon DEF Only
<1>7. Active(t)' /\ Active(t) /\ cur[t] = NoRestaurant /\ Known(t)' = Known(t)
      /\ \A r : ~Doomed(t, r)
  BY <1>1, <1>6, SamePast DEF Active, IInv, OK, Staged, Known, Doomed
<1>8. Bounded(t)'
  <2>1. Touched(wrote[t]) \subseteq Touched(wrote'[t])
    BY <1>3 DEF Touched
  <2> QED BY <1>1, <1>3, <2>1 DEF IInv, OK, Bounded
<1>9. Staged(t)'
  BY <1>1, <1>5, <1>7 DEF Staged
<1>10. Reads(t)'
  BY <1>1, <1>7 DEF Reads
<1>11. Holds(t)'
  BY <1>1, <1>7 DEF IInv, OK, Holds
<1>12. \A y \in Rows \ touch :
         View(t)'[y] = View(t)[y] \/ (y[1] = "assignments" /\ d.gives # {})
  BY <1>1, <1>3 DEF View
<1>13. Owes(t)'
  <2> SUFFICES ASSUME NEW r \in Restaurants, r \notin overtaken[t]
               PROVE  Pending(t, r)' \/ UpToDate(t, r)' \/ Doomed(t, r)'
    BY <1>1 DEF Owes
  <2>1. CASE touch # {} /\ r \in Refreshes(t, x)' /\ HasTrigger(d)
    BY <1>0, <1>3, <2>1 DEF Pending
  <2>2. CASE touch # {} /\ r \in Refreshes(t, x)' /\ ~HasTrigger(d)
    <3>1. d.mode = "delete" /\ x[1] = "allergens" /\ tail = <<Demand("check", x)>>
      BY <1>0, <2>2 DEF HasTrigger, Checks
    <3>2. Head(todo[t]) \in Seq(Demands)
      BY <1>1, RestOf DEF Writing, IInv, TypeOK
    <3>3. Tail(Head(todo[t])) \in Seq(Demands)
      BY <1>1, <3>2, RestOf DEF Writing
    <3>4. Demand("check", x) \in Demands
      BY <1>2 DEF Demand, Demands
    <3>5. Head(todo'[t]) # <<>> /\ Head(Head(todo'[t])) = Demand("check", x)
      BY <1>5, <3>1, <3>3, <3>4, Prepended
    <3>6. x[2] \in Assigned(View(t)', r)
      BY <2>2, <3>1 DEF Refreshes
    <3>7. Doomed(t, r)'
      BY <1>1, <1>5, <3>1, <3>5, <3>6 DEF Doomed, Writing, NextDemand, Demand
    <3> QED BY <3>7
  <2>3. CASE touch = {} \/ r \notin Refreshes(t, x)'
    <3>1. ASSUME NEW y \in HeadRows(r) \cup MenuRows(r)
          PROVE  View(t)'[y] = View(t)[y]
      <4>1. y \in Rows /\ y[1] # "allergens" /\ y[2] = r
        BY RowFacts
      <4>2. y = x => r \in Refreshes(t, x)'
        BY <4>1 DEF Refreshes
      <4>3. CASE y \notin touch /\ d.gives = {}
        BY <1>12, <4>1, <4>3
      <4>4. CASE y \in touch
        BY <1>2, <2>3, <4>2, <4>4
      <4>5. CASE y \notin touch /\ d.gives # {}
        <5>1. x[1] = "assignments" /\ op[t].scope = {x[2]} /\ touch = {x}
          BY <1>0, <1>2, <4>5 DEF Within
        <5>2. y[1] = "assignments" => y \notin wrote'[t]
          <6> SUFFICES ASSUME y[1] = "assignments", y \in wrote'[t] PROVE FALSE
            OBVIOUS
          <6>1. r = x[2]
            BY <1>w, <4>1, <5>1 DEF Touched
          <6>2. y = <<y[1], y[2]>> /\ x = <<x[1], x[2]>>
            BY <1>2, <4>1, RowFacts
          <6> QED BY <4>1, <4>5, <5>1, <6>1, <6>2
        <5> QED BY <1>1, <1>3, <1>12, <4>1, <4>5, <5>1, <5>2 DEF View
      <4> QED BY <4>3, <4>4, <4>5
    <3>2. Assigned(View(t)', r) = Assigned(View(t), r)
      BY <3>1, RowFacts DEF Assigned
    <3>3. Assigned(View(t), r) \in SUBSET Allergens
      BY ViewFacts, DocumentOfView
    <3>4. ASSUME NEW a \in Assigned(View(t), r)
          PROVE  View(t)'[<<"allergens", a>>] = View(t)[<<"allergens", a>>]
      <4>1. <<"allergens", a>> \in Rows
        BY <3>3, RowFacts
      <4>2. <<"allergens", a>> = x => r \in Refreshes(t, x)'
        BY <3>2 DEF Refreshes
      <4> QED BY <1>2, <1>12, <2>3, <4>1, <4>2
    <3>5. Payload(View(t)', r) = Payload(View(t), r)
      <4>1. \A y \in Scope(View(t), r) : View(t)[y] = View(t)'[y]
        BY <3>1, <3>4 DEF Scope
      <4> QED BY <4>1, SameDocument
    <3>6. CASE UpToDate(t, r)
      BY <1>1, <3>5, <3>6 DEF UpToDate
    <3>7. CASE Pending(t, r)
      <4>1. \A y : r \in Refreshes(t, y) => r \in Refreshes(t, y)'
        BY <3>2 DEF Refreshes
      <4> QED BY <1>1, <1>3, <3>7, <4>1 DEF Pending
    <3> QED BY <1>7, <3>6, <3>7 DEF IInv, OK, Owes
  <2> QED BY <2>1, <2>2, <2>3
<1>14. Shows(t)'
  <2>1. \A y \in wrote'[t] : y[1] # "allergens" => y \in wrote[t] \/ y \in fired'[t]
    BY <1>0, <1>2, <1>3 DEF HasTrigger
  <2> QED BY <1>1, <1>3, <2>1 DEF IInv, OK, Shows
<1>15. /\ wrote'[t] \in SUBSET Rows /\ keys'[t] \in SUBSET Rows /\ uses'[t] \in SUBSET Allergens
  BY <1>2, <1>3 DEF IInv, TypeOK, Demands
<1> QED BY <1>1, <1>5, <1>6, <1>8, <1>9, <1>10, <1>11, <1>13, <1>14, <1>15, Unchanged, LocalStep
        DEF OK, IInv, TypeOK, Shapes

\* A statement that locks a key, or finds that a row may go, goes on.
LEMMA GoesOn ==
  ASSUME IInv, NEW t \in Txs, Writing(t), GoOn(t, <<>>),
         NextDemand(t).mode = "share" \/ ~Named(t, NextDemand(t).row),
         UNCHANGED <<db, snap, pc, op, uses, wrote, keys, fired, loop, cur, head, menus, mine, ghosts>>,
         shares' = [shares EXCEPT ![t] = shares'[t]], shares'[t] \in SUBSET Rows
  PROVE  IInv'
<1>1. /\ pc[t] = "open" /\ todo[t] # <<>> /\ pc' = pc /\ op' = op /\ db' = db /\ snap' = snap
      /\ uses' = uses /\ wrote' = wrote /\ keys' = keys /\ fired' = fired /\ loop' = loop
      /\ cur' = cur /\ head' = head /\ menus' = menus /\ mine' = mine
      /\ overtaken' = overtaken /\ raced' = raced
  BY DEF Writing, ghosts
<1>2. todo' = [todo EXCEPT ![t] = todo'[t]] /\ Scoped(t)' /\ todo'[t] # <<>>
  <2>1. <<>> \in Seq(Within(op[t].scope))
    OBVIOUS
  <2> QED BY <1>1, <2>1, GoOnFacts
<1>3. Only(t)
  BY <1>1, <1>2, Unchanged, Zenon DEF Only
<1>4. View(t)' = View(t) /\ Known(t)' = Known(t) /\ \A y : Refreshes(t, y)' = Refreshes(t, y)
  BY <1>1, <1>3, QuietStep
<1>5. Active(t)' /\ Active(t)
  BY <1>1 DEF Active
<1>6. Bounded(t)' /\ Staged(t)' /\ Shows(t)'
  BY <1>1, <1>2, <1>5 DEF IInv, OK, Bounded, Staged, Shows
<1>7. Reads(t)' /\ Holds(t)'
  BY <1>1, <1>4 DEF IInv, OK, Reads, Holds, Half
<1>8. Owes(t)'
  <2>1. \A q \in Restaurants : /\ Pending(t, q) => Pending(t, q)'
                               /\ UpToDate(t, q) => UpToDate(t, q)'
    BY <1>1, <1>4 DEF Pending, UpToDate
  <2>2. \A q \in Restaurants : ~Doomed(t, q)
    BY DEF Doomed, Named
  <2> QED BY <1>1, <1>5, <2>1, <2>2 DEF IInv, OK, Owes
<1> QED BY <1>1, <1>2, <1>3, <1>6, <1>7, <1>8, Unchanged, LocalStep DEF OK, IInv, TypeOK, Shapes

LEMMA ShareKeyKeeps ==
  ASSUME IInv, NEW t \in Txs, ShareKey(t)
  PROVE  IInv'
<1>1. /\ Writing(t) /\ GoOn(t, <<>>) /\ NextDemand(t).mode = "share"
      /\ UNCHANGED <<db, snap, pc, op, uses, wrote, keys, fired, loop, cur, head, menus, mine, ghosts>>
      /\ shares' = [shares EXCEPT ![t] = shares[t] \cup {NextDemand(t).row}]
  BY DEF ShareKey, Free
<1>2. Head(todo[t]) \in Seq(Demands) /\ Head(todo[t]) # <<>>
  BY <1>1, RestOf DEF Writing, IInv, TypeOK
<1>3. NextDemand(t) \in Demands
  BY <1>2, RestOf DEF NextDemand
<1>4. shares'[t] = shares[t] \cup {NextDemand(t).row}
  BY <1>1, Domains
<1>5. shares' = [shares EXCEPT ![t] = shares'[t]] /\ shares'[t] \in SUBSET Rows
  BY <1>1, <1>3, <1>4 DEF Demands, IInv, TypeOK
<1> QED BY <1>1, <1>5, GoesOn

LEMMA PassCheckKeeps ==
  ASSUME IInv, NEW t \in Txs, PassCheck(t)
  PROVE  IInv'
<1>1. /\ Writing(t) /\ GoOn(t, <<>>) /\ ~Named(t, NextDemand(t).row) /\ shares' = shares
      /\ UNCHANGED <<db, snap, pc, op, uses, wrote, keys, fired, loop, cur, head, menus, mine, ghosts>>
  BY DEF PassCheck, Free, locks
<1>2. shares' = [shares EXCEPT ![t] = shares'[t]] /\ shares'[t] \in SUBSET Rows
  BY <1>1, Unchanged DEF IInv, TypeOK
<1> QED BY <1>1, <1>2, GoesOn

----------------------------------------------------------------------------
(* The commit, which the others see.                                       *)

\* A transaction leaves the documents of restaurants it has not touched.
LEMMA UntouchedFacts ==
  ASSUME IInv, NEW t \in Txs, NEW r \in Restaurants, r \notin Touched(wrote[t]), NEW v,
         Assigned(v, r) \in SUBSET Allergens
  PROVE  \A y \in Scope(v, r) : y \in Rows /\ View(t)[y] = db[y]
<1> SUFFICES ASSUME NEW y \in Scope(v, r) PROVE y \in Rows /\ View(t)[y] = db[y]
  OBVIOUS
<1>1. y \in Rows /\ (y[2] = r \/ y[1] = "allergens")
  BY RowFacts, ColsFacts DEF Scope
<1>2. y \notin wrote[t]
  BY <1>1 DEF Touched
<1> QED BY <1>1, <1>2, ViewFacts

LEMMA CommitFacts ==
  ASSUME IInv, NEW t \in Txs, Commit(t)
  PROVE  /\ pc[t] = "open" /\ fired[t] = {} /\ loop[t] = {} /\ cur[t] = NoRestaurant
         /\ db' = View(t) /\ Past' = Known(t) /\ Only(t)
         /\ pc'[t] = "committed" /\ wrote'[t] = {} /\ fired'[t] = {} /\ loop'[t] = {}
         /\ cur'[t] = NoRestaurant /\ todo'[t] = <<>> /\ uses'[t] = {}
         /\ op'[t] = NoOp /\ keys'[t] = {} /\ shares'[t] = {} /\ mine'[t] = NoRows
         /\ snap' = [r \in Restaurants |-> IF mine[t][r] # NoPayload THEN mine[t][r] ELSE snap[r]]
         /\ \A u \in Txs : u # t /\ Active(u) => overtaken'[u] = overtaken[u] \cup op[t].scope
         /\ \A r \in Restaurants : r \notin overtaken[t] => UpToDate(t, r)
<1>1. /\ pc[t] = "open" /\ todo[t] = <<>> /\ pc' = [pc EXCEPT ![t] = "committed"]
      /\ op' = [op EXCEPT ![t] = NoOp] /\ keys' = [keys EXCEPT ![t] = {}]
      /\ shares' = [shares EXCEPT ![t] = {}]
      /\ wrote' = [wrote EXCEPT ![t] = {}] /\ mine' = [mine EXCEPT ![t] = NoRows]
      /\ todo' = [todo EXCEPT ![t] = <<>>] /\ uses' = [uses EXCEPT ![t] = {}]
      /\ fired' = [fired EXCEPT ![t] = {}] /\ loop' = [loop EXCEPT ![t] = {}]
      /\ cur' = [cur EXCEPT ![t] = NoRestaurant]
      /\ head' = [head EXCEPT ![t] = <<>>] /\ menus' = [menus EXCEPT ![t] = <<>>]
      /\ db' = View(t)
      /\ snap' = [r \in Restaurants |-> IF mine[t][r] # NoPayload THEN mine[t][r] ELSE snap[r]]
  BY DEF Commit, Release, SnapshotLockedBy
<1>2. /\ pc'[t] = "committed" /\ wrote'[t] = {} /\ mine'[t] = NoRows /\ todo'[t] = <<>>
      /\ uses'[t] = {} /\ fired'[t] = {} /\ loop'[t] = {} /\ cur'[t] = NoRestaurant
      /\ head'[t] = <<>> /\ menus'[t] = <<>> /\ op'[t] = NoOp /\ keys'[t] = {} /\ shares'[t] = {}
  BY <1>1, Domains
<1>3. Only(t)
  BY <1>1, <1>2, Zenon DEF Only
<1>4. fired[t] = {} /\ loop[t] = {} /\ cur[t] = NoRestaurant
  BY <1>1 DEF IInv, OK, Staged
<1>5. Past' = Known(t)
  <2>1. \A u \in Txs : pc'[u] = "committed" <=> pc[u] = "committed" \/ u = t
    BY <1>2, <1>3, OthersStay
  <2> QED BY <2>1 DEF Past, Known
<1>6. \A u \in Txs : u # t /\ Active(u) => overtaken'[u] = overtaken[u] \cup op[t].scope
  BY DEF Commit
<1>7. \A r \in Restaurants : r \notin overtaken[t] => UpToDate(t, r)
  <2> SUFFICES ASSUME NEW r \in Restaurants, r \notin overtaken[t] PROVE UpToDate(t, r)
    OBVIOUS
  <2>1. ~Pending(t, r) /\ Active(t)
    BY <1>1, <1>4, FreshNames DEF Pending, Active
  <2>2. ~Doomed(t, r)
    BY <1>1 DEF Doomed, Writing
  <2> QED BY <2>1, <2>2 DEF IInv, OK, Owes
<1> QED BY <1>1, <1>2, <1>3, <1>4, <1>5, <1>6, <1>7

LEMMA CommitKeepsOthers ==
  ASSUME IInv, NEW t \in Txs, Commit(t), NEW u \in Txs, u # t
  PROVE  OK(u)'
<1>0. /\ pc'[u] = pc[u] /\ todo'[u] = todo[u] /\ uses'[u] = uses[u]
      /\ wrote'[u] = wrote[u] /\ fired'[u] = fired[u] /\ loop'[u] = loop[u]
      /\ cur'[u] = cur[u] /\ head'[u] = head[u] /\ menus'[u] = menus[u]
      /\ mine'[u] = mine[u] /\ op'[u] = op[u]
  BY CommitFacts, OthersStay
<1>1. db' = View(t) /\ db' \in [Rows -> Cells] /\ Known(u) \subseteq Known(u)'
      /\ Known(u)' \subseteq Writers
  BY CommitFacts, ViewFacts DEF Known, Past, Writers
<1>2. CASE ~Active(u)
  <2>1. /\ wrote[u] = {} /\ fired[u] = {} /\ loop[u] = {} /\ cur[u] = NoRestaurant
        /\ \A r \in Restaurants : mine[u][r] = NoPayload
        /\ pc[u] \notin {"menus", "upsert"}
    BY <1>2 DEF IInv, OK, Staged, Active
  <2>2. todo'[u] \in Seq(Seq(Within(op'[u].scope)))
    BY <1>0 DEF IInv, OK, Scoped
  <2> QED BY <1>0, <1>1, <2>1, <2>2, BlankIsOK
<1>3. CASE Active(u)
  <2>1. Active(u)' /\ overtaken'[u] = overtaken[u] \cup op[t].scope
          /\ Touched(wrote[t]) \subseteq op[t].scope
    BY <1>0, <1>3, CommitFacts DEF Active, IInv, OK, Scoped
  <2>2. ASSUME NEW r \in Restaurants, r \notin overtaken'[u]
        PROVE  /\ Assigned(View(u)', r) = Assigned(View(u), r)
               /\ HeadOf(View(u)', r) = HeadOf(View(u), r)
               /\ MenusOf(View(u)', r) = MenusOf(View(u), r)
               /\ Payload(View(u)', r) = Payload(View(u), r)
               /\ Payload(db', r) = Payload(db, r)
    <3>1. r \notin Touched(wrote[t])
      BY <2>1, <2>2
    <3>2. Assigned(View(u), r) \in SUBSET Allergens /\ Assigned(db, r) \in SUBSET Allergens
      BY ViewFacts, DocumentOfView DEF IInv, TypeOK, PastOnly
    <3>3. \A y \in Scope(db, r) : db[y] = db'[y]
      BY <1>1, <3>1, <3>2, UntouchedFacts
    <3>4. \A y \in Scope(View(u), r) : View(u)[y] = View(u)'[y]
      <4> SUFFICES ASSUME NEW y \in Scope(View(u), r) PROVE View(u)[y] = View(u)'[y]
        OBVIOUS
      <4>1. y \in Rows /\ db'[y] = db[y]
        BY <1>1, <3>1, <3>2, UntouchedFacts
      <4> QED BY <1>0, <4>1 DEF View
    <3> QED BY <3>3, <3>4, SameDocument
  <2>3. Scoped(u)' /\ Bounded(u)' /\ Staged(u)'
    BY <1>0, <1>3, <2>1 DEF IInv, OK, Scoped, Bounded, Staged
  <2>4. \A f, D : Half(f, D, u) => f \in [D -> Known(u)'] /\ \A x \in D : x \in wrote'[u] => f[x] = u
    BY <1>0, <1>1 DEF Half
  <2>5. cur[u] # NoRestaurant => cur[u] \in Restaurants
    BY DEF IInv, TypeOK
  <2>6. Reads(u)'
    <3>1. ASSUME cur[u] # NoRestaurant
          PROVE  /\ Half(head[u], HeadRows(cur[u]), u)'
                 /\ cur[u] \notin overtaken'[u] => head[u] = HeadOf(View(u)', cur[u])
      <4>1. /\ Half(head[u], HeadRows(cur[u]), u)
            /\ cur[u] \notin overtaken[u] => head[u] = HeadOf(View(u), cur[u])
        BY <3>1 DEF IInv, OK, Reads
      <4>2. Half(head[u], HeadRows(cur[u]), u)'
        BY <1>0, <2>4, <4>1 DEF Half
      <4> QED BY <2>1, <2>2, <2>5, <3>1, <4>1, <4>2
    <3>2. ASSUME pc[u] = "upsert"
          PROVE  /\ (\E A \in SUBSET Allergens :
                       Half(menus[u], MenuRows(cur[u]) \cup ({"allergens"} \X A), u))'
                 /\ cur[u] \notin overtaken'[u] => menus[u] = MenusOf(View(u)', cur[u])
      <4>1. /\ \E A \in SUBSET Allergens :
                 Half(menus[u], MenuRows(cur[u]) \cup ({"allergens"} \X A), u)
            /\ cur[u] \notin overtaken[u] => menus[u] = MenusOf(View(u), cur[u])
            /\ cur[u] # NoRestaurant
        BY <3>2 DEF IInv, OK, Reads, Staged
      <4>2. (\E A \in SUBSET Allergens :
               Half(menus[u], MenuRows(cur[u]) \cup ({"allergens"} \X A), u))'
        <5>1. PICK A \in SUBSET Allergens :
                Half(menus[u], MenuRows(cur[u]) \cup ({"allergens"} \X A), u)
          BY <4>1
        <5>2. Half(menus[u], MenuRows(cur[u]) \cup ({"allergens"} \X A), u)'
          BY <1>0, <2>4, <5>1 DEF Half
        <5> QED BY <5>2
      <4> QED BY <2>1, <2>2, <2>5, <4>1, <4>2
    <3> QED BY <1>0, <3>1, <3>2 DEF Reads
  <2>7. Holds(u)'
    <3> SUFFICES ASSUME NEW r \in Restaurants, mine[u][r] # NoPayload
                 PROVE  IsDocument(mine[u][r], r, Known(u)')
      BY <1>0 DEF Holds
    <3>1. IsDocument(mine[u][r], r, Known(u))
      BY DEF IInv, OK, Holds
    <3> QED BY <1>1, <3>1, MoreWriters
  <2>8. Owes(u)'
    <3> SUFFICES ASSUME NEW r \in Restaurants, r \notin overtaken'[u]
                 PROVE  Pending(u, r)' \/ UpToDate(u, r)' \/ Doomed(u, r)'
      BY DEF Owes
    <3>1. CASE UpToDate(u, r)
      BY <1>0, <2>2, <3>1 DEF UpToDate
    <3>2. CASE Pending(u, r)
      <4>1. \A y : r \in Refreshes(u, y) => r \in Refreshes(u, y)'
        BY <2>2 DEF Refreshes
      <4> QED BY <1>0, <3>2, <4>1 DEF Pending
    <3>3. CASE Doomed(u, r)
      BY <1>0, <2>2, <3>3 DEF Doomed, Writing, NextDemand
    <3> QED BY <1>3, <2>1, <3>1, <3>2, <3>3 DEF IInv, OK, Owes
  <2>9. Shows(u)'
    BY <1>0 DEF IInv, OK, Shows
  <2> QED BY <2>3, <2>6, <2>7, <2>8, <2>9 DEF OK
<1> QED BY <1>2, <1>3

LEMMA CommitKeeps ==
  ASSUME IInv, NEW t \in Txs, Commit(t)
  PROVE  IInv'
<1>1. \A u \in Txs : OK(u)'
  <2>1. \A r \in Restaurants : mine'[t][r] = NoPayload
    BY CommitFacts DEF NoRows
  <2>2. db' \in [Rows -> Cells] /\ pc'[t] \notin {"menus", "upsert"}
    BY CommitFacts, ViewFacts
  <2>a. todo'[t] \in Seq(Seq(Within(op'[t].scope)))
    <3>1. <<>> \in Seq(Seq(Within(op'[t].scope)))
      OBVIOUS
    <3>2. todo'[t] = <<>>
      BY CommitFacts
    <3> QED BY <3>1, <3>2
  <2>3. OK(t)'
    BY <2>1, <2>2, <2>a, CommitFacts, BlankIsOK
  <2> QED BY <2>3, CommitKeepsOthers
<1>2. /\ db' = View(t) /\ Past' = Known(t) /\ Past \subseteq Known(t) /\ Known(t) \subseteq Writers
      /\ \A r \in Restaurants :
           snap'[r] = IF mine[t][r] # NoPayload THEN mine[t][r] ELSE snap[r]
  BY CommitFacts, KnownFacts
<1>3. PastOnly'
  <2>1. \A x \in Rows : db'[x].by \in Past'
    BY <1>2, ViewFacts
  <2>2. ASSUME NEW r \in Restaurants PROVE IsDocument(snap'[r], r, Past')
    <3>1. CASE mine[t][r] # NoPayload
      BY <1>2, <3>1 DEF IInv, OK, Holds
    <3>2. CASE mine[t][r] = NoPayload
      BY <1>2, <3>2, MoreWriters DEF IInv, PastOnly
    <3> QED BY <3>1, <3>2
  <2> QED BY <2>1, <2>2 DEF PastOnly
<1>4. StaleOnlyByOverlap'
  <2> SUFFICES ASSUME NEW r \in Restaurants, snap'[r] # Payload(db', r)
               PROVE  raced'[r]
    BY DEF StaleOnlyByOverlap
  <2>1. raced'[r] <=> \/ r \in op[t].scope \cap overtaken[t]
                      \/ raced[r] /\ mine[t][r] = NoPayload
    BY DEF Commit, SnapshotLockedBy
  <2>2. snap[r] # Payload(db, r) => raced[r]
    BY DEF IInv, StaleOnlyByOverlap
  <2>3. CASE r \in overtaken[t] /\ r \notin op[t].scope
    <3>0. r \notin Touched(wrote[t])
      BY <2>3 DEF IInv, OK, Scoped
    <3>1. mine[t][r] = NoPayload
      BY <3>0 DEF IInv, OK, Bounded
    <3>2. Assigned(db, r) \in SUBSET Allergens
      BY DocumentOfView DEF IInv, TypeOK, PastOnly
    <3>3. Payload(db', r) = Payload(db, r)
      <4>1. \A y \in Scope(db, r) : db[y] = db'[y]
        BY <1>2, <3>0, <3>2, UntouchedFacts
      <4> QED BY <4>1, SameDocument
    <3> QED BY <1>2, <2>1, <2>2, <3>1, <3>3
  <2>4. CASE r \notin overtaken[t]
    <3>1. UpToDate(t, r)
      BY <2>4, CommitFacts
    <3>2. Payload(View(t), r) # NoPayload
      <4>1. IsDocument(Payload(View(t), r), r, Known(t))
        BY ViewFacts, DocumentOfView
      <4>2. ~IsDocument(NoPayload, r, Known(t))
        BY <1>2, NoPayloadIsNone
      <4> QED BY <4>1, <4>2, Zenon
    <3>3. mine[t][r] = NoPayload /\ Payload(db', r) = Payload(db, r)
      BY <1>2, <3>1, <3>2 DEF UpToDate
    <3> QED BY <1>2, <2>1, <2>2, <3>3
  <2> QED BY <2>1, <2>3, <2>4
<1>5. TypeOK'
  <2>1. /\ pc \in [Txs -> {"idle", "open", "menus", "upsert", "committed", "aborted"}]
        /\ todo \in [Txs -> Seq(Seq(Demands))] /\ uses \in [Txs -> SUBSET Allergens]
        /\ wrote \in [Txs -> SUBSET Rows] /\ fired \in [Txs -> SUBSET Rows]
        /\ loop \in [Txs -> SUBSET Restaurants]
        /\ cur \in [Txs -> Restaurants \cup {NoRestaurant}]
        /\ overtaken \in [Txs -> SUBSET Restaurants] /\ raced \in [Restaurants -> BOOLEAN]
        /\ op \in [Txs -> [name : OpNames \cup {"none"}, scope : SUBSET Restaurants]]
        /\ keys \in [Txs -> SUBSET Rows] /\ shares \in [Txs -> SUBSET Rows]
    BY DEF IInv, TypeOK
  <2>2. /\ pc'[t] = "committed" /\ wrote'[t] = {} /\ fired'[t] = {} /\ loop'[t] = {}
        /\ cur'[t] = NoRestaurant /\ todo'[t] = <<>> /\ uses'[t] = {} /\ Only(t)
        /\ op'[t] = NoOp /\ keys'[t] = {} /\ shares'[t] = {}
    BY CommitFacts
  <2>3. pc' \in [Txs -> {"idle", "open", "menus", "upsert", "committed", "aborted"}]
    BY <2>1, <2>2 DEF Only
  <2>4. todo' \in [Txs -> Seq(Seq(Demands))] /\ uses' \in [Txs -> SUBSET Allergens]
    <3>1. <<>> \in Seq(Seq(Demands))
      OBVIOUS
    <3>2. todo'[t] \in Seq(Seq(Demands)) /\ uses'[t] \in SUBSET Allergens
      BY <2>2, <3>1
    <3>3. todo' \in [Txs -> Seq(Seq(Demands))]
      BY <2>1, <2>2, <3>2 DEF Only
    <3>4. uses' \in [Txs -> SUBSET Allergens]
      BY <2>1, <2>2, <3>2 DEF Only
    <3> QED BY <3>3, <3>4
  <2>5. wrote' \in [Txs -> SUBSET Rows] /\ fired' \in [Txs -> SUBSET Rows]
    BY <2>1, <2>2 DEF Only
  <2>6. loop' \in [Txs -> SUBSET Restaurants] /\ cur' \in [Txs -> Restaurants \cup {NoRestaurant}]
    BY <2>1, <2>2 DEF Only
  <2>7. overtaken' \in [Txs -> SUBSET Restaurants]
    <3>1. op[t].scope \in SUBSET Restaurants
      BY <2>1
    <3> QED BY <2>1, <3>1 DEF Commit
  <2>8. raced' \in [Restaurants -> BOOLEAN]
    BY Zenon DEF Commit
  <2>9. db' \in [Rows -> Cells] /\ DOMAIN snap' = Restaurants
    BY CommitFacts, ViewFacts
  <2>10. \A r \in Restaurants : IsDocument(snap'[r], r, Writers)
    BY <1>2, <1>3, MoreWriters DEF PastOnly
  <2>11. \A u \in Txs, r \in Restaurants :
           mine'[u][r] = NoPayload \/ IsDocument(mine'[u][r], r, Writers)
    <3> SUFFICES ASSUME NEW u \in Txs, NEW r \in Restaurants, mine'[u][r] # NoPayload
                 PROVE  IsDocument(mine'[u][r], r, Writers)
      OBVIOUS
    <3>1. IsDocument(mine'[u][r], r, Known(u)')
      BY <1>1 DEF OK, Holds
    <3>2. Known(u)' \subseteq Writers
      BY DEF Known, Past, Writers
    <3> QED BY <3>1, <3>2, MoreWriters
  <2>12. op' \in [Txs -> [name : OpNames \cup {"none"}, scope : SUBSET Restaurants]]
    <3>1. op'[t] \in [name : OpNames \cup {"none"}, scope : SUBSET Restaurants]
      BY <2>2 DEF NoOp
    <3> QED BY <2>1, <2>2, <3>1 DEF Only
  <2>13. keys' \in [Txs -> SUBSET Rows] /\ shares' \in [Txs -> SUBSET Rows]
    BY <2>1, <2>2 DEF Only
  <2> QED BY <2>3, <2>4, <2>5, <2>6, <2>7, <2>8, <2>9, <2>10, <2>11, <2>12, <2>13 DEF TypeOK
<1>6. Shapes'
  <2>1. DOMAIN mine'[t] = Restaurants /\ \A u \in Txs : u # t => mine'[u] = mine[u]
    BY CommitFacts, OthersStay DEF NoRows
  <2> QED BY <2>1, CommitFacts DEF IInv, Shapes, Only
<1> QED BY <1>1, <1>3, <1>4, <1>5, <1>6 DEF IInv

----------------------------------------------------------------------------
LEMMA InitHolds == Init => IInv
<1> SUFFICES ASSUME Init PROVE IInv
  OBVIOUS
<1>1. PICK given \in [Restaurants -> SUBSET Allergens] :
        db = [x \in Rows |->
                [by |-> NoTx,
                 allergens |-> IF x[1] = "assignments" THEN given[x[2]] ELSE {}]]
  BY DEF Init
<1>2. db \in [Rows -> Cells] /\ \A x \in Rows : db[x].by = NoTx
  <2> SUFFICES ASSUME NEW x \in Rows PROVE db[x] \in Cells /\ db[x].by = NoTx
    BY <1>1
  <2> DEFINE al == IF x[1] = "assignments" THEN given[x[2]] ELSE {}
  <2>1. al \in SUBSET Allergens
    BY RowFacts
  <2>2. db[x] = [by |-> NoTx, allergens |-> al]
    BY <1>1
  <2> QED BY <2>1, <2>2 DEF Cells, Writers
<1>3. \A x \in Rows : db[x].by \in Past
  BY <1>2 DEF Past
<1>4. /\ snap = [r \in Restaurants |-> Payload(db, r)] /\ op = [t \in Txs |-> NoOp]
      /\ keys = [t \in Txs |-> {}] /\ shares = [t \in Txs |-> {}]
      /\ pc = [t \in Txs |-> "idle"] /\ todo = [t \in Txs |-> <<>>]
      /\ uses = [t \in Txs |-> {}] /\ wrote = [t \in Txs |-> {}]
      /\ fired = [t \in Txs |-> {}] /\ loop = [t \in Txs |-> {}]
      /\ cur = [t \in Txs |-> NoRestaurant]
      /\ head = [t \in Txs |-> <<>>] /\ menus = [t \in Txs |-> <<>>]
      /\ mine = [t \in Txs |-> NoRows] /\ overtaken = [t \in Txs |-> {}]
      /\ raced = [r \in Restaurants |-> FALSE]
  BY DEF Init
<1>5. PastOnly /\ StaleOnlyByOverlap
  BY <1>2, <1>3, <1>4, DocumentOfView DEF PastOnly, StaleOnlyByOverlap
<1>6. Shapes
  BY <1>4 DEF Shapes, NoRows
<1>7. \A t \in Txs, r \in Restaurants : mine[t][r] = NoPayload
  BY <1>4 DEF NoRows
<1>8. TypeOK
  <2>1. pc \in [Txs -> {"idle", "open", "menus", "upsert", "committed", "aborted"}]
    BY <1>4
  <2>2. todo \in [Txs -> Seq(Seq(Demands))]
    <3>1. <<>> \in Seq(Seq(Demands))
      OBVIOUS
    <3> QED BY <1>4, <3>1
  <2>3. /\ uses \in [Txs -> SUBSET Allergens] /\ wrote \in [Txs -> SUBSET Rows]
        /\ fired \in [Txs -> SUBSET Rows]
    BY <1>4
  <2>4. /\ loop \in [Txs -> SUBSET Restaurants] /\ overtaken \in [Txs -> SUBSET Restaurants]
        /\ cur \in [Txs -> Restaurants \cup {NoRestaurant}]
    BY <1>4
  <2>5. raced \in [Restaurants -> BOOLEAN] /\ DOMAIN snap = Restaurants
    BY <1>4
  <2>6. \A r \in Restaurants : IsDocument(snap[r], r, Writers)
    BY <1>5, MoreWriters DEF PastOnly, Past, Writers
  <2>7. op \in [Txs -> [name : OpNames \cup {"none"}, scope : SUBSET Restaurants]]
    BY <1>4 DEF NoOp
  <2>8. keys \in [Txs -> SUBSET Rows] /\ shares \in [Txs -> SUBSET Rows]
    BY <1>4
  <2> QED BY <1>2, <1>7, <2>7, <2>8, <2>1, <2>2, <2>3, <2>4, <2>5, <2>6 DEF TypeOK
<1>9. ASSUME NEW t \in Txs PROVE OK(t)
  <2>1. /\ wrote[t] = {} /\ fired[t] = {} /\ loop[t] = {} /\ cur[t] = NoRestaurant
        /\ pc[t] = "idle" /\ todo[t] = <<>>
    BY <1>4
  <2>3. <<>> \in Seq(Seq(Within(op[t].scope)))
    OBVIOUS
  <2>4. Scoped(t)
    BY <2>1, <2>3 DEF Scoped, Touched
  <2>2. Bounded(t) /\ Staged(t) /\ Reads(t) /\ Holds(t) /\ Owes(t) /\ Shows(t)
    BY <1>7, <2>1 DEF Bounded, Staged, Reads, Holds, Owes, Shows, Active
  <2> QED BY <2>2, <2>4 DEF OK
<1> QED BY <1>5, <1>6, <1>8, <1>9 DEF IInv

LEMMA NextKeeps ==
  ASSUME IInv, Next
  PROVE  IInv'
<1>1. PICK t \in Txs : Begin(t) \/ Step(t) \/ Rollback(t)
  BY DEF Next
<1> QED BY <1>1, BeginKeeps, RollbackKeeps, WriteRowKeeps, FireTriggerKeeps, BuildHeadKeeps,
           BuildMenusKeeps, UpsertKeeps, EndStatementKeeps, CommitKeeps, ShareKeyKeeps, PassCheckKeeps
        DEF Step, DeadlockVictim, Refuse

LEMMA StutterKeeps ==
  ASSUME IInv, UNCHANGED vars
  PROVE  IInv'
<1>1. /\ db' = db /\ snap' = snap /\ pc' = pc /\ todo' = todo /\ uses' = uses
      /\ wrote' = wrote /\ fired' = fired /\ loop' = loop /\ cur' = cur /\ head' = head
      /\ menus' = menus /\ mine' = mine /\ overtaken' = overtaken /\ raced' = raced
      /\ op' = op /\ keys' = keys /\ shares' = shares
  BY DEF vars, locks
<1>2. \A t \in Txs : View(t)' = View(t)
  BY <1>1 DEF View
<1>3. \A t \in Txs : /\ Known(t)' = Known(t) /\ (Active(t)' <=> Active(t))
                     /\ \A x : Refreshes(t, x)' = Refreshes(t, x)
  BY <1>1, <1>2 DEF Known, Past, Active, Refreshes
<1>4. \A t \in Txs : Scoped(t)' /\ Bounded(t)' /\ Staged(t)' /\ Holds(t)' /\ Shows(t)'
  BY <1>1, <1>3 DEF IInv, OK, Scoped, Bounded, Staged, Holds, Shows
<1>5. ASSUME NEW t \in Txs PROVE Reads(t)'
  <2>1. Reads(t)
    BY DEF IInv, OK
  <2>2. View(t)' = View(t) /\ Known(t)' = Known(t)
    BY <1>2, <1>3
  <2> QED BY <1>1, <2>1, <2>2 DEF Reads, Half
<1>6. \A t \in Txs, r \in Restaurants :
        /\ (Pending(t, r)' <=> Pending(t, r)) /\ (UpToDate(t, r)' <=> UpToDate(t, r))
        /\ (Doomed(t, r)' <=> Doomed(t, r))
  BY <1>1, <1>2, <1>3 DEF Pending, UpToDate, Doomed, Writing, NextDemand
<1>7. ASSUME NEW t \in Txs PROVE Owes(t)'
  <2>1. Owes(t) /\ (Active(t)' <=> Active(t)) /\ overtaken' = overtaken
    BY <1>1, <1>3 DEF IInv, OK
  <2> QED BY <1>6, <2>1 DEF Owes
<1>8. TypeOK' /\ Shapes' /\ PastOnly' /\ StaleOnlyByOverlap'
  BY <1>1 DEF IInv, TypeOK, Shapes, PastOnly, Past, StaleOnlyByOverlap
<1> QED BY <1>4, <1>5, <1>7, <1>8 DEF IInv, OK

THEOREM Invariance == Spec => []IInv
<1>1. IInv /\ [Next]_vars => IInv'
  BY NextKeeps, StutterKeeps
<1> QED BY <1>1, InitHolds, PTL DEF Spec

(* TypeOK: in particular a transaction computes and holds only documents of
   the shape refresh_public_menu_snapshot builds. *)
THEOREM TypeCorrect == Spec => []TypeOK
<1>1. IInv => TypeOK
  BY DEF IInv
<1> QED BY <1>1, Invariance, PTL

(* OnlyCommittedPublished: customers never see what a request wrote that has
   not committed. *)
THEOREM PublishedIsCommitted == Spec => []OnlyCommittedPublished
<1>1. IInv => OnlyCommittedPublished
  <2> SUFFICES ASSUME IInv, NEW r \in Restaurants, NEW v \in PublishedRows(snap[r])
               PROVE  v[2] = NoTx \/ pc[v[2]] = "committed"
    BY DEF OnlyCommittedPublished
  <2>1. IsDocument(snap[r], r, Past)
    BY DEF IInv, PastOnly
  <2>2. v[2] \in Past
    BY <2>1, PublishedFacts
  <2> QED BY <2>2 DEF Past
<1> QED BY <1>1, Invariance, PTL

(* StaleOnlyByOverlap: a stale menu was left by an edit that another one
   overtook. *)
THEOREM StaleWasOvertaken == Spec => []StaleOnlyByOverlap
<1>1. IInv => StaleOnlyByOverlap
  BY DEF IInv
<1> QED BY <1>1, Invariance, PTL

----------------------------------------------------------------------------
(* Only its commit makes a transaction committed. *)
LEMMA OnlyCommitCommits ==
  ASSUME IInv, Next, NEW t \in Txs, Commits(t)
  PROVE  Commit(t)
<1>1. PICK u \in Txs : Begin(u) \/ Step(u) \/ Rollback(u)
  BY DEF Next
<1>2. pc \in [Txs -> {"idle", "open", "menus", "upsert", "committed", "aborted"}]
  BY DEF IInv, TypeOK
<1>3. CASE Commit(u)
  <2>1. pc' = [pc EXCEPT ![u] = "committed"]
    BY <1>3 DEF Commit, Release
  <2>2. u = t
    BY <1>2, <2>1 DEF Commits
  <2> QED BY <1>3, <2>2
<1>4. CASE ~Commit(u)
  <2>1. \E s \in {"open", "menus", "upsert", "aborted"} : pc' = pc \/ pc' = [pc EXCEPT ![u] = s]
    BY <1>1, <1>4 DEF Begin, Step, DeadlockVictim, Rollback, Release, WriteRow, FireTrigger,
                      BuildHead, BuildMenus, Upsert, EndStatement, ShareKey, PassCheck, Refuse
  <2> QED BY <1>2, <2>1 DEF Commits
<1> QED BY <1>3, <1>4

(* What a transaction wrote is in what it commits. *)
LEMMA CommitShows ==
  ASSUME IInv, NEW t \in Txs, Commit(t), NEW x \in wrote[t], NEW r \in Restaurants,
         IF x[1] = "allergens" THEN r \notin overtaken[t] /\ x[2] \in Assigned(View(t), r)
                               ELSE x[2] = r
  PROVE  <<x, t>> \in PublishedRows(snap'[r])
<1>0. x \in Rows
  BY DEF IInv, TypeOK
<1>1. snap'[r] = IF mine[t][r] # NoPayload THEN mine[t][r] ELSE snap[r]
  BY CommitFacts
<1>2. CASE x[1] # "allergens"
  <2>1. x[2] = r /\ x \notin fired[t] /\ x[2] \notin loop[t] /\ cur[t] # x[2]
    BY <1>2, CommitFacts, FreshNames
  <2>2. mine[t][r] # NoPayload /\ <<x, t>> \in PublishedRows(mine[t][r])
    BY <1>2, <2>1 DEF IInv, OK, Shows
  <2> QED BY <1>1, <2>2
<1>3. CASE x[1] = "allergens"
  <2> DEFINE row == <<"allergens", x[2]>>
  <2>1. x = row
    BY <1>0, <1>3, RowFacts
  <2>2. /\ row \in DOMAIN MenusOf(View(t), r)
        /\ MenusOf(View(t), r)[row] = t
    <3>1. row \in {"allergens"} \X Assigned(View(t), r)
      BY <1>3
    <3>2. View(t)[x].by = t
      BY <1>0, ViewFacts
    <3> QED BY <2>1, <3>1, <3>2 DEF MenusOf
  <2>3. Payload(View(t), r) # NoPayload
    <3>1. IsDocument(Payload(View(t), r), r, Known(t))
      BY ViewFacts, DocumentOfView
    <3>2. ~IsDocument(NoPayload, r, Known(t))
      BY KnownFacts, NoPayloadIsNone
    <3> QED BY <3>1, <3>2, Zenon
  <2>4. Payload(View(t), r) # Payload(db, r)
    <3>1. ASSUME MenusOf(View(t), r) = MenusOf(db, r) PROVE FALSE
      <4>1. row \in DOMAIN MenusOf(db, r) /\ MenusOf(db, r)[row] = t
        BY <2>2, <3>1
      <4>2. MenusOf(db, r)[row] = db[row].by
        BY <4>1 DEF MenusOf
      <4>3. db[row].by \in Past
        BY <1>0, <2>1 DEF IInv, PastOnly
      <4>4. t \notin Past
        BY CommitFacts, FreshNames DEF Past
      <4> QED BY <4>1, <4>2, <4>3, <4>4
    <3> QED BY <3>1 DEF Payload
  <2>5. mine[t][r] = Payload(View(t), r)
    BY <1>3, <2>4, CommitFacts DEF UpToDate
  <2>6. snap'[r] = Payload(View(t), r)
    BY <1>1, <2>3, <2>5
  <2> HIDE DEF row
  <2>7. <<row, t>> \in PublishedRows(Payload(View(t), r))
    BY <2>2 DEF PublishedRows, Payload
  <2> QED BY <2>1, <2>6, <2>7
<1> QED BY <1>2, <1>3

(* EditPublishesItself: the document that becomes public with an edit shows
   every row the edit wrote, whatever other requests did meanwhile. *)
THEOREM EditsPublish == Spec => EditPublishesItself
<1>1. IInv /\ [Next]_vars =>
        [\A t \in Txs : Commits(t) =>
           \A x \in wrote[t], r \in Restaurants :
             (IF x[1] = "allergens" THEN r \notin overtaken[t] /\ x[2] \in Assigned(View(t), r)
                                    ELSE x[2] = r)
               => <<x, t>> \in PublishedRows(snap'[r])]_vars
  BY OnlyCommitCommits, CommitShows
<1> QED BY <1>1, Invariance, PTL DEF Spec, EditPublishesItself
=============================================================================
