-------------------------- MODULE PublicMenuProofs --------------------------
(***************************************************************************)
(* MenuContent implements PublicMenu and keeps tenants apart, for any      *)
(* number of organizations, restaurants and rows.  Both rest on the same   *)
(* fact about every request: the rows it writes, the restaurants its       *)
(* triggers refresh and everything its cascades take belong to the         *)
(* organization it is authorized for.                                      *)
(***************************************************************************)
EXTENDS MenuContentProofs

\* Restaurant r is the caller's, or nobody's.
Mine(o, r) == OrgOf(r) \in {o, NoCaller}

\* There is no row, or it is of a restaurant of the caller's.
MineOrNone(o, row) == row = NoRow \/ Mine(o, row.rest)

\* The rows of other organizations' restaurants are the same in both tables.
RowsStay(o, t1, t2) ==
  /\ DOMAIN t2 = DOMAIN t1
  /\ \A x \in DOMAIN t1 : t2[x] = t1[x] \/ (MineOrNone(o, t1[x]) /\ MineOrNone(o, t2[x]))

\* The restaurants of other organizations, and their allergens, are the same.
RestaurantsStay(o, d) ==
  \A r \in Restaurants :
    \/ d.restaurants[r] = db.restaurants[r]
    \/ Mine(o, r) /\ (d.restaurants[r] = NoRow \/ d.restaurants[r].org = o)

AllergensStay(o, d) ==
  \A a \in AllergenIds :
    \/ d.allergens[a] = db.allergens[a]
    \/ /\ db.allergens[a] = NoRow \/ db.allergens[a].org = o
       /\ d.allergens[a] = NoRow \/ d.allergens[a].org = o

ContentStays(o, d) ==
  /\ RowsStay(o, db.hours, d.hours)       /\ RowsStay(o, db.specials, d.specials)
  /\ RowsStay(o, db.menus, d.menus)       /\ RowsStay(o, db.sections, d.sections)
  /\ RowsStay(o, db.entries, d.entries)   /\ RowsStay(o, db.items, d.items)
  /\ RowsStay(o, db.assignments, d.assignments)
  /\ RowsStay(o, db.schedules, d.schedules)

\* A request of o that turns the tables into d and refreshes R keeps to itself.
Contained(o, d, R) ==
  /\ \A r \in R : Mine(o, r)
  /\ RestaurantsStay(o, d)
  /\ AllergensStay(o, d)
  /\ ContentStays(o, d)

Keeps(o) == \E d \in Tables, R \in SUBSET Restaurants : Apply(o, d, R) /\ Contained(o, d, R)

----------------------------------------------------------------------------
(* A request that keeps to itself. *)

\* The rows under restaurants of others.
LEMMA RowsUnderStay ==
  ASSUME NEW o, NEW t1, NEW t2, RowsStay(o, t1, t2),
         NEW R, \A r \in R : ~Mine(o, r)
  PROVE  RowsUnder(t2, R) = RowsUnder(t1, R)
<1>1. ASSUME NEW x \in DOMAIN t1
      PROVE  /\ (t2[x] # NoRow /\ t2[x].rest \in R) <=> (t1[x] # NoRow /\ t1[x].rest \in R)
             /\ (t1[x] # NoRow /\ t1[x].rest \in R) => t2[x] = t1[x]
  BY DEF RowsStay, MineOrNone
<1>2. {y \in DOMAIN t2 : t2[y] # NoRow /\ t2[y].rest \in R}
        = {y \in DOMAIN t1 : t1[y] # NoRow /\ t1[y].rest \in R}
  BY <1>1 DEF RowsStay
<1> QED BY <1>1, <1>2 DEF RowsUnder

LEMMA ContainedIsolates ==
  ASSUME IInv, IInv', NEW o \in Orgs, NEW d \in Tables, NEW R \in SUBSET Restaurants,
         Apply(o, d, R), Contained(o, d, R), NEW p \in Orgs, p # o
  PROVE  Estate(p)' = Estate(p)
<1>0. p # NoCaller /\ db' = d
  BY NoCallerIsNoOrg DEF Apply
<1>1. ASSUME NEW r \in RestaurantsOf(p) PROVE ~Mine(o, r)
  BY <1>0, <1>1 DEF RestaurantsOf, Mine
<1>2. RestaurantsOf(p)' = RestaurantsOf(p)
  <2>1. ASSUME NEW r \in Restaurants PROVE OrgOf(r)' = p <=> OrgOf(r) = p
    BY <1>0, <2>1 DEF Contained, RestaurantsStay, Mine, OrgOf
  <2> QED BY <2>1 DEF RestaurantsOf
<1>3. \A r \in RestaurantsOf(p) : db'.restaurants[r] = db.restaurants[r]
  BY <1>0, <1>1 DEF Contained, RestaurantsStay, RestaurantsOf
<1>4. \A r \in RestaurantsOf(p) : snap'[r] = snap[r]
  BY <1>1 DEF Apply, Contained, RestaurantsOf
<1>5. /\ AllergensOf(p)' = AllergensOf(p)
      /\ \A a \in AllergensOf(p) : db'.allergens[a] = db.allergens[a]
  BY <1>0 DEF Contained, AllergensStay, AllergensOf
<1>6. ASSUME NEW t1, NEW t2, RowsStay(o, t1, t2)
      PROVE  RowsUnder(t2, RestaurantsOf(p)) = RowsUnder(t1, RestaurantsOf(p))
  BY <1>1, <1>6, RowsUnderStay
<1> DEFINE Q == RestaurantsOf(p)
<1>7. /\ RowsUnder(d.hours, Q) = RowsUnder(db.hours, Q)
      /\ RowsUnder(d.specials, Q) = RowsUnder(db.specials, Q)
      /\ RowsUnder(d.menus, Q) = RowsUnder(db.menus, Q)
      /\ RowsUnder(d.sections, Q) = RowsUnder(db.sections, Q)
      /\ RowsUnder(d.entries, Q) = RowsUnder(db.entries, Q)
      /\ RowsUnder(d.items, Q) = RowsUnder(db.items, Q)
      /\ RowsUnder(d.assignments, Q) = RowsUnder(db.assignments, Q)
      /\ RowsUnder(d.schedules, Q) = RowsUnder(db.schedules, Q)
  BY <1>6 DEF Contained, ContentStays
<1>8. /\ [r \in Q |-> db'.restaurants[r]] = [r \in Q |-> db.restaurants[r]]
      /\ [r \in Q |-> snap'[r]] = [r \in Q |-> snap[r]]
      /\ [a \in AllergensOf(p) |-> db'.allergens[a]] = [a \in AllergensOf(p) |-> db.allergens[a]]
  BY <1>3, <1>4, <1>5
<1> HIDE DEF RestaurantsOf, AllergensOf, RowsUnder
<1> QED BY <1>0, <1>2, <1>5, <1>7, <1>8 DEF Estate

LEMMA ContainedEdits ==
  ASSUME IInv, IInv', NEW o \in Orgs, NEW d \in Tables, NEW R \in SUBSET Restaurants,
         Apply(o, d, R), Contained(o, d, R)
  PROVE  Public!Edit(o)
<1>1. db' = d /\ caller' = o
  BY DEF Apply
<1>2. \A r \in Restaurants : snap'[r] = Snapshot(db', r) /\ snap[r] = Snapshot(db, r)
  BY DEF IInv, SnapshotFresh
<1>3. snap' = [r \in Restaurants |-> Snapshot(db', r)]
  BY <1>2 DEF Apply
<1>4. ASSUME NEW r \in Restaurants
      PROVE  \/ OrgOf(r) \in {o, NoCaller} /\ OrgOf(r)' \in {o, NoCaller}
             \/ OrgOf(r)' = OrgOf(r) /\ Snapshot(db', r) = Snapshot(db, r)
  <2>1. CASE Mine(o, r)
    BY <1>1, <2>1 DEF Contained, RestaurantsStay, Mine, OrgOf
  <2>2. CASE ~Mine(o, r)
    <3>1. snap'[r] = snap[r] /\ db'.restaurants[r] = db.restaurants[r]
      BY <1>1, <2>2 DEF Apply, Contained, RestaurantsStay
    <3>2. Snapshot(db', r) = Snapshot(db, r)
      BY <1>2, <3>1
    <3> QED BY <3>1, <3>2 DEF OrgOf
  <2> QED BY <2>1, <2>2
<1> QED BY <1>1, <1>3, <1>4 DEF Public!Edit

----------------------------------------------------------------------------
(* Every request keeps to itself. *)

\* The restaurant of the path is the caller's.
LEMMA OwnedIsMine ==
  ASSUME NEW o \in Orgs, NEW r \in Restaurants, Owned(o, r)
  PROVE  OrgOf(r) = o /\ Mine(o, r)
BY DEF Owned, OrgOf, Mine

\* A request that leaves the restaurants' own rows and the allergens alone
\* and refreshes {r} or nothing: it is enough to look at the other tables.
LEMMA OwnedKeeps ==
  ASSUME IInv, NEW o \in Orgs, NEW r \in Restaurants, Owned(o, r),
         NEW d \in Tables, NEW R \in SUBSET {r}, Apply(o, d, R),
         d.restaurants = db.restaurants, d.allergens = db.allergens,
         ContentStays(o, d)
  PROVE  Keeps(o)
<1>1. Contained(o, d, R)
  BY OwnedIsMine DEF Contained, RestaurantsStay, AllergensStay
<1> QED BY <1>1 DEF Keeps

\* A table that does not change.
LEMMA SameRowsStay == \A o, t : RowsStay(o, t, t)
BY DEF RowsStay

\* One row of r, or an identifier without a row, gets new contents.
LEMMA OneRowStays ==
  ASSUME NEW o \in Orgs, NEW r \in Restaurants, Owned(o, r), NEW t, NEW x, NEW row,
         (t[x] = NoRow) \/ In(t[x], r), (row = NoRow) \/ row.rest = r
  PROVE  RowsStay(o, t, [t EXCEPT ![x] = row])
<1>1. MineOrNone(o, t[x]) /\ MineOrNone(o, row)
  BY OwnedIsMine DEF MineOrNone, In
<1> QED BY <1>1 DEF RowsStay

LEMMA RestaurantStepKeeps ==
  ASSUME IInv, NEW o \in Orgs, NEW r \in Restaurants, RestaurantStep(o, r)
  PROVE  Keeps(o)
<1>0. db \in Tables
  BY DEF IInv, TypeOK
<1>1. ASSUME NEW title \in Titles, NEW status \in Statuses,
             CreateRestaurant(o, r, title, status)
      PROVE  Keeps(o)
  <2> DEFINE row == [org |-> o, title |-> title, status |-> status]
             d == [db EXCEPT !.restaurants[r] = row]
  <2>1. row \in RestaurantRow /\ row.org = o
    BY DEF RestaurantRow
  <2> HIDE DEF row
  <2>2. d \in Tables /\ Apply(o, d, {r}) /\ Mine(o, r)
    BY <1>0, <1>1, <2>1 DEF Tables, CreateRestaurant, Mine, OrgOf, row
  <2>3. Contained(o, d, {r})
    BY <1>0, <2>1, <2>2, SameRowsStay
       DEF Tables, Contained, RestaurantsStay, AllergensStay, ContentStays
  <2> QED BY <2>2, <2>3 DEF Keeps
<1>2. ASSUME NEW title \in Titles, NEW status \in Statuses,
             UpdateRestaurant(o, r, title, status)
      PROVE  Keeps(o)
  <2> DEFINE row == [db.restaurants[r] EXCEPT !.title = title, !.status = status]
             d == [db EXCEPT !.restaurants[r] = row]
  <2>1. row \in RestaurantRow /\ row.org = o
    <3>1. db.restaurants[r] \in RestaurantRow /\ db.restaurants[r].org = o
      BY <1>0, <1>2 DEF UpdateRestaurant, Owned, Tables
    <3> QED BY <3>1 DEF RestaurantRow
  <2>2. Apply(o, d, {r})
    <3>1. d = [db EXCEPT !.restaurants[r].title = title,
                         !.restaurants[r].status = status]
      BY <1>0 DEF Tables
    <3> QED BY <1>2, <3>1 DEF UpdateRestaurant
  <2> HIDE DEF row
  <2>3. d \in Tables /\ Mine(o, r)
    BY <1>0, <1>2, <2>1, OwnedIsMine DEF Tables, UpdateRestaurant
  <2>4. Contained(o, d, {r})
    BY <1>0, <2>1, <2>3, SameRowsStay
       DEF Tables, Contained, RestaurantsStay, AllergensStay, ContentStays
  <2> QED BY <2>2, <2>3, <2>4 DEF Keeps
<1>3. CASE DeleteRestaurant(o, r)
  <2> DEFINE d == [db EXCEPT !.restaurants[r] = NoRow,
                             !.hours = Without(@, r), !.specials = Without(@, r),
                             !.menus = Without(@, r), !.sections = Without(@, r),
                             !.entries = Without(@, r), !.items = Without(@, r),
                             !.assignments = Without(@, r)]
  <2>1. Mine(o, r)
    BY <1>3, OwnedIsMine DEF DeleteRestaurant
  <2>2. Apply(o, d, {r})
    BY <1>3 DEF DeleteRestaurant
  <2>3. /\ d.hours = Without(db.hours, r) /\ d.specials = Without(db.specials, r)
        /\ d.menus = Without(db.menus, r) /\ d.sections = Without(db.sections, r)
        /\ d.entries = Without(db.entries, r) /\ d.items = Without(db.items, r)
        /\ d.assignments = Without(db.assignments, r)
        /\ d.schedules = db.schedules /\ d.allergens = db.allergens
        /\ \A q \in Restaurants : d.restaurants[q] = IF q = r THEN NoRow ELSE db.restaurants[q]
    BY <1>0 DEF Tables
  <2>4. d \in Tables
    BY <1>0 DEF Tables, Without
  <2> HIDE DEF d
  <2>5. ASSUME NEW t PROVE RowsStay(o, t, Without(t, r))
    BY <2>1 DEF RowsStay, MineOrNone, Without, In
  <2>6. Contained(o, d, {r})
    BY <2>1, <2>3, <2>5, SameRowsStay
       DEF Contained, RestaurantsStay, AllergensStay, ContentStays
  <2> QED BY <2>2, <2>4, <2>6 DEF Keeps
<1> QED BY <1>1, <1>2, <1>3 DEF RestaurantStep

LEMMA HourStepKeeps ==
  ASSUME IInv, NEW o \in Orgs, NEW r \in Restaurants, HourStep(o, r)
  PROVE  Keeps(o)
<1>0. db \in Tables
  BY DEF IInv, TypeOK
<1>1. ASSUME NEW h \in HourIds, NEW row \in HourRow \cup {NoRow}, Owned(o, r),
             (db.hours[h] = NoRow) \/ In(db.hours[h], r), (row = NoRow) \/ row.rest = r,
             Apply(o, [db EXCEPT !.hours[h] = row], {r})
      PROVE  Keeps(o)
  <2> DEFINE d == [db EXCEPT !.hours[h] = row]
  <2>1. /\ d \in Tables /\ d.restaurants = db.restaurants /\ d.allergens = db.allergens
        /\ d.hours = [db.hours EXCEPT ![h] = row]
        /\ d.specials = db.specials /\ d.menus = db.menus /\ d.sections = db.sections
        /\ d.entries = db.entries /\ d.items = db.items /\ d.assignments = db.assignments
        /\ d.schedules = db.schedules
    BY <1>0 DEF Tables
  <2>2. RowsStay(o, db.hours, d.hours)
    <3>1. RowsStay(o, db.hours, [db.hours EXCEPT ![h] = row])
      BY <1>1, OneRowStays
    <3> QED BY <2>1, <3>1
  <2>3. ContentStays(o, d)
    BY <2>1, <2>2, SameRowsStay DEF ContentStays
  <2> QED BY <1>1, <2>1, <2>3, OwnedKeeps
<1>2. \A title \in Titles : [rest |-> r, title |-> title] \in HourRow
  BY DEF HourRow
<1> QED BY <1>1, <1>2
        DEF HourStep, CreateBusinessHour, UpdateBusinessHour, DeleteBusinessHour

LEMMA SpecialStepKeeps ==
  ASSUME IInv, NEW o \in Orgs, NEW r \in Restaurants, SpecialStep(o, r)
  PROVE  Keeps(o)
<1>0. db \in Tables
  BY DEF IInv, TypeOK
<1>1. ASSUME NEW p \in SpecialIds, NEW row \in SpecialRow \cup {NoRow}, Owned(o, r),
             (db.specials[p] = NoRow) \/ In(db.specials[p], r), (row = NoRow) \/ row.rest = r,
             Apply(o, [db EXCEPT !.specials[p] = row], {r})
      PROVE  Keeps(o)
  <2> DEFINE d == [db EXCEPT !.specials[p] = row]
  <2>1. /\ d \in Tables /\ d.restaurants = db.restaurants /\ d.allergens = db.allergens
        /\ d.specials = [db.specials EXCEPT ![p] = row]
        /\ d.hours = db.hours /\ d.menus = db.menus /\ d.sections = db.sections
        /\ d.entries = db.entries /\ d.items = db.items /\ d.assignments = db.assignments
        /\ d.schedules = db.schedules
    BY <1>0 DEF Tables
  <2>2. RowsStay(o, db.specials, d.specials)
    <3>1. RowsStay(o, db.specials, [db.specials EXCEPT ![p] = row])
      BY <1>1, OneRowStays
    <3> QED BY <2>1, <3>1
  <2>3. ContentStays(o, d)
    BY <2>1, <2>2, SameRowsStay DEF ContentStays
  <2> QED BY <1>1, <2>1, <2>3, OwnedKeeps
<1>2. \A title \in Titles, status \in Statuses :
        [rest |-> r, title |-> title, status |-> status] \in SpecialRow
  BY DEF SpecialRow
<1> QED BY <1>1, <1>2
        DEF SpecialStep, CreateDailySpecial, UpdateDailySpecial, DeleteDailySpecial

\* Sections go with their entries: all of them are of the restaurant.
LEMMA WithoutSectionsStays ==
  ASSUME IInv, NEW o \in Orgs, NEW r \in Restaurants, Owned(o, r),
         NEW gone \in SUBSET SectionIds,
         \A s \in gone : db.sections[s] # NoRow => In(db.sections[s], r)
  PROVE  LET d == WithoutSections(db, gone)
         IN /\ d \in Tables
            /\ RowsStay(o, db.sections, d.sections)
            /\ RowsStay(o, db.entries, d.entries)
            /\ d.restaurants = db.restaurants /\ d.allergens = db.allergens
            /\ d.hours = db.hours /\ d.specials = db.specials /\ d.menus = db.menus
            /\ d.items = db.items /\ d.assignments = db.assignments /\ d.schedules = db.schedules
<1> DEFINE d == WithoutSections(db, gone)
<1>0. db \in Tables /\ References(db)
  BY DEF IInv, TypeOK, ReferencesHold
<1>1. d \in Tables
  BY <1>0 DEF Tables, WithoutSections
<1>2. /\ d.sections = [s \in SectionIds |-> IF s \in gone THEN NoRow ELSE db.sections[s]]
      /\ d.entries = [e \in EntryIds |->
                       IF db.entries[e] # NoRow /\ db.entries[e].section \in gone
                       THEN NoRow ELSE db.entries[e]]
      /\ d.restaurants = db.restaurants /\ d.allergens = db.allergens
      /\ d.hours = db.hours /\ d.specials = db.specials /\ d.menus = db.menus
      /\ d.items = db.items /\ d.assignments = db.assignments /\ d.schedules = db.schedules
      /\ DOMAIN db.sections = SectionIds /\ DOMAIN db.entries = EntryIds
  BY <1>0 DEF Tables, WithoutSections
<1> HIDE DEF d
<1>3. RowsStay(o, db.sections, d.sections)
  BY <1>2, OwnedIsMine DEF RowsStay, MineOrNone, In
<1>4. ASSUME NEW e \in EntryIds, db.entries[e] # NoRow, db.entries[e].section \in gone
      PROVE  Mine(o, db.entries[e].rest)
  <2>1. In(db.sections[db.entries[e].section], db.entries[e].rest)
    BY <1>0, <1>4 DEF References, EntriesUnderSections
  <2> QED BY <1>4, <2>1, OwnedIsMine DEF In
<1>5. RowsStay(o, db.entries, d.entries)
  BY <1>2, <1>4 DEF RowsStay, MineOrNone
<1> QED BY <1>1, <1>2, <1>3, <1>5 DEF d

LEMMA MenuStepKeeps ==
  ASSUME IInv, NEW o \in Orgs, NEW r \in Restaurants, MenuStep(o, r)
  PROVE  Keeps(o)
<1>0. db \in Tables /\ References(db)
  BY DEF IInv, TypeOK, ReferencesHold
<1>1. ASSUME NEW m \in MenuIds, NEW row \in MenuRow \cup {NoRow}, Owned(o, r),
             (db.menus[m] = NoRow) \/ In(db.menus[m], r), (row = NoRow) \/ row.rest = r,
             Apply(o, [db EXCEPT !.menus[m] = row], {r})
      PROVE  Keeps(o)
  <2> DEFINE d == [db EXCEPT !.menus[m] = row]
  <2>1. /\ d \in Tables /\ d.restaurants = db.restaurants /\ d.allergens = db.allergens
        /\ d.menus = [db.menus EXCEPT ![m] = row]
        /\ d.hours = db.hours /\ d.specials = db.specials /\ d.sections = db.sections
        /\ d.entries = db.entries /\ d.items = db.items /\ d.assignments = db.assignments
        /\ d.schedules = db.schedules
    BY <1>0 DEF Tables
  <2>2. RowsStay(o, db.menus, d.menus)
    <3>1. RowsStay(o, db.menus, [db.menus EXCEPT ![m] = row])
      BY <1>1, OneRowStays
    <3> QED BY <2>1, <3>1
  <2>3. ContentStays(o, d)
    BY <2>1, <2>2, SameRowsStay DEF ContentStays
  <2> QED BY <1>1, <2>1, <2>3, OwnedKeeps
<1>2. \A title \in Titles, status \in Statuses :
        [rest |-> r, title |-> title, status |-> status] \in MenuRow
  BY DEF MenuRow
<1>3. ASSUME NEW m \in MenuIds, DeleteMenu(o, r, m)
      PROVE  Keeps(o)
  <2> DEFINE w == WithoutSections(db, SectionsOf(m))
             d == [w EXCEPT !.menus[m] = NoRow]
  <2>1. Owned(o, r) /\ In(db.menus[m], r) /\ Apply(o, d, {r})
    BY <1>3 DEF DeleteMenu
  <2>2. SectionsOf(m) \in SUBSET SectionIds
    BY DEF SectionsOf
  <2>3. \A s \in SectionsOf(m) : In(db.sections[s], r)
    BY <1>0, <2>1 DEF SectionsOf, References, SectionsUnderMenus, In
  <2>4. /\ w \in Tables
        /\ RowsStay(o, db.sections, w.sections) /\ RowsStay(o, db.entries, w.entries)
        /\ w.restaurants = db.restaurants /\ w.allergens = db.allergens
        /\ w.hours = db.hours /\ w.specials = db.specials /\ w.menus = db.menus
        /\ w.items = db.items /\ w.assignments = db.assignments /\ w.schedules = db.schedules
    BY <2>1, <2>2, <2>3, WithoutSectionsStays
  <2> HIDE DEF w
  <2>5. /\ d \in Tables /\ d.restaurants = db.restaurants /\ d.allergens = db.allergens
        /\ d.menus = [db.menus EXCEPT ![m] = NoRow]
        /\ d.sections = w.sections /\ d.entries = w.entries
        /\ d.hours = db.hours /\ d.specials = db.specials /\ d.items = db.items
        /\ d.assignments = db.assignments /\ d.schedules = db.schedules
    BY <2>4 DEF Tables
  <2>6. RowsStay(o, db.menus, d.menus)
    <3>1. RowsStay(o, db.menus, [db.menus EXCEPT ![m] = NoRow])
      BY <2>1, OneRowStays
    <3> QED BY <2>5, <3>1
  <2>7. ContentStays(o, d)
    BY <2>4, <2>5, <2>6, SameRowsStay DEF ContentStays
  <2> QED BY <2>1, <2>5, <2>7, OwnedKeeps
<1> QED BY <1>1, <1>2, <1>3 DEF MenuStep, CreateMenu, UpdateMenu

LEMMA SectionStepKeeps ==
  ASSUME IInv, NEW o \in Orgs, NEW r \in Restaurants, SectionStep(o, r)
  PROVE  Keeps(o)
<1>0. db \in Tables
  BY DEF IInv, TypeOK
<1>1. ASSUME NEW s \in SectionIds, NEW row \in SectionRow \cup {NoRow}, Owned(o, r),
             (db.sections[s] = NoRow) \/ In(db.sections[s], r),
             (row = NoRow) \/ row.rest = r,
             Apply(o, [db EXCEPT !.sections[s] = row], {r})
      PROVE  Keeps(o)
  <2> DEFINE d == [db EXCEPT !.sections[s] = row]
  <2>1. /\ d \in Tables /\ d.restaurants = db.restaurants /\ d.allergens = db.allergens
        /\ d.sections = [db.sections EXCEPT ![s] = row]
        /\ d.hours = db.hours /\ d.specials = db.specials /\ d.menus = db.menus
        /\ d.entries = db.entries /\ d.items = db.items /\ d.assignments = db.assignments
        /\ d.schedules = db.schedules
    BY <1>0 DEF Tables
  <2>2. RowsStay(o, db.sections, d.sections)
    <3>1. RowsStay(o, db.sections, [db.sections EXCEPT ![s] = row])
      BY <1>1, OneRowStays
    <3> QED BY <2>1, <3>1
  <2>3. ContentStays(o, d)
    BY <2>1, <2>2, SameRowsStay DEF ContentStays
  <2> QED BY <1>1, <2>1, <2>3, OwnedKeeps
<1>2. \A m \in MenuIds, title \in Titles, status \in Statuses :
        [rest |-> r, menu |-> m, title |-> title, status |-> status] \in SectionRow
  BY DEF SectionRow
<1>3. ASSUME NEW m \in MenuIds, NEW s \in SectionIds, DeleteMenuSection(o, r, m, s)
      PROVE  Keeps(o)
  <2> DEFINE d == WithoutSections(db, {s})
  <2>1. Owned(o, r) /\ In(db.sections[s], r) /\ Apply(o, d, {r})
    BY <1>3 DEF DeleteMenuSection
  <2>2. /\ d \in Tables
        /\ RowsStay(o, db.sections, d.sections) /\ RowsStay(o, db.entries, d.entries)
        /\ d.restaurants = db.restaurants /\ d.allergens = db.allergens
        /\ d.hours = db.hours /\ d.specials = db.specials /\ d.menus = db.menus
        /\ d.items = db.items /\ d.assignments = db.assignments /\ d.schedules = db.schedules
    BY <2>1, WithoutSectionsStays
  <2> HIDE DEF d
  <2>3. ContentStays(o, d)
    BY <2>2, SameRowsStay DEF ContentStays
  <2> QED BY <2>1, <2>2, <2>3, OwnedKeeps
<1>4. ASSUME NEW m \in MenuIds, NEW s \in SectionIds, NEW title \in Titles,
             NEW status \in Statuses,
             CreateMenuSection(o, r, m, s, title, status)
             \/ UpdateMenuSection(o, r, m, s, title, status)
      PROVE  Keeps(o)
  <2> DEFINE row == [rest |-> r, menu |-> m, title |-> title, status |-> status]
  <2>1. row \in SectionRow /\ row.rest = r
    BY <1>2
  <2>2. /\ Owned(o, r) /\ ((db.sections[s] = NoRow) \/ In(db.sections[s], r))
        /\ Apply(o, [db EXCEPT !.sections[s] = row], {r})
    BY <1>4 DEF CreateMenuSection, UpdateMenuSection
  <2> HIDE DEF row
  <2> QED BY <1>1, <2>1, <2>2
<1> QED BY <1>3, <1>4 DEF SectionStep

LEMMA EntryStepKeeps ==
  ASSUME IInv, NEW o \in Orgs, NEW r \in Restaurants, EntryStep(o, r)
  PROVE  Keeps(o)
<1>0. db \in Tables
  BY DEF IInv, TypeOK
<1>1. ASSUME NEW e \in EntryIds, NEW row \in EntryRow \cup {NoRow}, Owned(o, r),
             (db.entries[e] = NoRow) \/ In(db.entries[e], r),
             (row = NoRow) \/ row.rest = r,
             Apply(o, [db EXCEPT !.entries[e] = row], {r})
      PROVE  Keeps(o)
  <2> DEFINE d == [db EXCEPT !.entries[e] = row]
  <2>1. /\ d \in Tables /\ d.restaurants = db.restaurants /\ d.allergens = db.allergens
        /\ d.entries = [db.entries EXCEPT ![e] = row]
        /\ d.hours = db.hours /\ d.specials = db.specials /\ d.menus = db.menus
        /\ d.sections = db.sections /\ d.items = db.items /\ d.assignments = db.assignments
        /\ d.schedules = db.schedules
    BY <1>0 DEF Tables
  <2>2. RowsStay(o, db.entries, d.entries)
    <3>1. RowsStay(o, db.entries, [db.entries EXCEPT ![e] = row])
      BY <1>1, OneRowStays
    <3> QED BY <2>1, <3>1
  <2>3. ContentStays(o, d)
    BY <2>1, <2>2, SameRowsStay DEF ContentStays
  <2> QED BY <1>1, <2>1, <2>3, OwnedKeeps
<1>2. \A s \in SectionIds, i \in ItemIds, title \in Titles, status \in Statuses :
        [rest |-> r, section |-> s, item |-> i, title |-> title, status |-> status]
          \in EntryRow
  BY DEF EntryRow
<1>3. PICK m \in MenuIds, s \in SectionIds, e \in EntryIds :
        \/ \E i \in ItemIds, title \in Titles, status \in Statuses :
             CreateMenuEntry(o, r, m, s, e, i, title, status)
             \/ UpdateMenuEntry(o, r, m, s, e, i, title, status)
        \/ DeleteMenuEntry(o, r, m, s, e)
  BY DEF EntryStep
<1>4. CASE DeleteMenuEntry(o, r, m, s, e)
  BY <1>1, <1>4 DEF DeleteMenuEntry, SectionPath
<1>5. ASSUME NEW i \in ItemIds, NEW title \in Titles, NEW status \in Statuses,
             CreateMenuEntry(o, r, m, s, e, i, title, status)
             \/ UpdateMenuEntry(o, r, m, s, e, i, title, status)
      PROVE  Keeps(o)
  <2> DEFINE row == [rest |-> r, section |-> s, item |-> i,
                     title |-> title, status |-> status]
  <2>1. row \in EntryRow /\ row.rest = r
    BY <1>2
  <2>2. /\ Owned(o, r) /\ ((db.entries[e] = NoRow) \/ In(db.entries[e], r))
        /\ Apply(o, [db EXCEPT !.entries[e] = row], {r})
    BY <1>5 DEF CreateMenuEntry, UpdateMenuEntry, SectionPath
  <2> HIDE DEF row
  <2> QED BY <1>1, <2>1, <2>2
<1> QED BY <1>3, <1>4, <1>5

\* A new table of assignments, which differs in those of item i of r only.
ItemAssignments(r, i, table) ==
  /\ DOMAIN table = ItemIds \X AllergenIds
  /\ \A p \in ItemIds \X AllergenIds :
       \/ table[p] = db.assignments[p]
       \/ p[1] = i /\ (table[p] = NoRow \/ table[p].rest = r)

LEMMA ItemStepKeeps ==
  ASSUME IInv, IInv', NEW o \in Orgs, NEW r \in Restaurants, ItemStep(o, r)
  PROVE  Keeps(o)
<1>0. db \in Tables /\ db' \in Tables /\ AssignmentsJoin(db)
  BY DEF IInv, TypeOK, ReferencesHold, References
\* The assignments of an item, old and new, are of the item's restaurant.
<1>1. ASSUME NEW i \in ItemIds, NEW row, NEW table, Owned(o, r),
             (db.items[i] = NoRow) \/ In(db.items[i], r), (row = NoRow) \/ row.rest = r,
             ItemAssignments(r, i, table),
             Apply(o, [db EXCEPT !.items[i] = row, !.assignments = table], {r})
      PROVE  Keeps(o)
  <2> DEFINE d == [db EXCEPT !.items[i] = row, !.assignments = table]
  <2>1. d \in Tables
    BY <1>0, <1>1 DEF Apply
  <2>2. /\ d.restaurants = db.restaurants /\ d.allergens = db.allergens
        /\ d.items = [db.items EXCEPT ![i] = row] /\ d.assignments = table
        /\ d.hours = db.hours /\ d.specials = db.specials /\ d.menus = db.menus
        /\ d.sections = db.sections /\ d.entries = db.entries /\ d.schedules = db.schedules
    BY <1>0 DEF Tables
  <2>3. RowsStay(o, db.items, d.items)
    <3>1. RowsStay(o, db.items, [db.items EXCEPT ![i] = row])
      BY <1>1, OneRowStays
    <3> QED BY <2>2, <3>1
  <2>4. ASSUME NEW p \in ItemIds \X AllergenIds, p[1] = i
        PROVE  MineOrNone(o, db.assignments[p])
    <3>1. PICK a \in AllergenIds : p = <<i, a>>
      BY <2>4
    <3>2. db.assignments[p] # NoRow => In(db.items[i], db.assignments[p].rest)
      BY <1>0, <3>1 DEF AssignmentsJoin
    <3> QED BY <1>1, <3>2, OwnedIsMine DEF In, MineOrNone
  <2>5. RowsStay(o, db.assignments, table)
    <3>1. DOMAIN db.assignments = ItemIds \X AllergenIds
      BY <1>0 DEF Tables
    <3>2. \A p \in ItemIds \X AllergenIds :
            table[p] = NoRow \/ table[p].rest = r => MineOrNone(o, table[p])
      BY <1>1, OwnedIsMine DEF MineOrNone
    <3> QED BY <1>1, <2>4, <3>1, <3>2 DEF RowsStay, ItemAssignments
  <2>6. ContentStays(o, d)
    BY <2>2, <2>3, <2>5, SameRowsStay DEF ContentStays
  <2>7. {r} \in SUBSET {r} /\ Owned(o, r) /\ Apply(o, d, {r})
    BY <1>1
  <2> HIDE DEF d
  <2> QED BY <2>1, <2>2, <2>6, <2>7, OwnedKeeps
<1>2. ASSUME NEW i \in ItemIds, DeleteCatalogItem(o, r, i)
      PROVE  Keeps(o)
  <2> DEFINE table == [p \in ItemIds \X AllergenIds |->
                         IF p[1] = i THEN NoRow ELSE db.assignments[p]]
  <2>1. Apply(o, [db EXCEPT !.items[i] = NoRow, !.assignments = table], {r})
    <3>1. [db EXCEPT !.items[i] = NoRow, !.assignments = table]
            = [db EXCEPT !.items[i] = NoRow,
                         !.assignments = [p \in ItemIds \X AllergenIds |->
                                            IF p[1] = i THEN NoRow ELSE @[p]]]
      BY <1>0 DEF Tables
    <3> QED BY <1>2, <3>1 DEF DeleteCatalogItem
  <2>2. ItemAssignments(r, i, table)
    BY DEF ItemAssignments
  <2> HIDE DEF table
  <2> QED BY <1>1, <1>2, <2>1, <2>2 DEF DeleteCatalogItem
<1>3. ASSUME NEW i \in ItemIds, NEW title \in Titles, NEW status \in Statuses,
             NEW given \in [AllergenIds -> Relationships \cup {NoRow}],
             CreateCatalogItem(o, r, i, title, status, given)
             \/ UpdateCatalogItem(o, r, i, title, status, given)
      PROVE  Keeps(o)
  <2> DEFINE row == [rest |-> r, title |-> title, status |-> status]
             table == Reassigned(o, r, i, given)
  <2>1. /\ Owned(o, r) /\ ((db.items[i] = NoRow) \/ In(db.items[i], r))
        /\ Apply(o, [db EXCEPT !.items[i] = row, !.assignments = table], {r})
    BY <1>3 DEF CreateCatalogItem, UpdateCatalogItem, WriteItem
  <2>2. ItemAssignments(r, i, table)
    BY DEF Reassigned, ItemAssignments
  <2>3. row.rest = r
    OBVIOUS
  <2> HIDE DEF row, table
  <2> QED BY <1>1, <2>1, <2>2, <2>3
<1> QED BY <1>2, <1>3 DEF ItemStep

\* The restaurants an allergen's trigger finds are its organization's: an
\* assignment joins an item of a restaurant with an allergen of its owner.
LEMMA AllergenStepKeeps ==
  ASSUME IInv, NEW o \in Orgs, AllergenStep(o)
  PROVE  Keeps(o)
<1>0. db \in Tables /\ References(db)
  BY DEF IInv, TypeOK, ReferencesHold
<1>1. ASSUME NEW a \in AllergenIds, NEW row \in AllergenRow \cup {NoRow},
             (db.allergens[a] = NoRow) \/ db.allergens[a].org = o,
             (row = NoRow) \/ row.org = o,
             NEW R \in SUBSET Restaurants, \A r \in R : Mine(o, r),
             Apply(o, [db EXCEPT !.allergens[a] = row], R)
      PROVE  Keeps(o)
  <2> DEFINE d == [db EXCEPT !.allergens[a] = row]
  <2>1. /\ d \in Tables /\ d.restaurants = db.restaurants
        /\ d.allergens = [db.allergens EXCEPT ![a] = row]
        /\ d.hours = db.hours /\ d.specials = db.specials /\ d.menus = db.menus
        /\ d.sections = db.sections /\ d.entries = db.entries /\ d.items = db.items
        /\ d.assignments = db.assignments /\ d.schedules = db.schedules
    BY <1>0 DEF Tables
  <2>2. AllergensStay(o, d) /\ RestaurantsStay(o, d)
    BY <1>0, <1>1, <2>1 DEF AllergensStay, RestaurantsStay, Tables
  <2>3. ContentStays(o, d)
    BY <2>1, SameRowsStay DEF ContentStays
  <2> QED BY <1>1, <2>1, <2>2, <2>3 DEF Keeps, Contained
<1>2. \A title \in Titles : [org |-> o, title |-> title] \in AllergenRow
  BY DEF AllergenRow
<1>3. ASSUME NEW a \in AllergenIds, db.allergens[a].org = o
      PROVE  /\ RestaurantsUsing(a) \in SUBSET Restaurants
             /\ \A r \in RestaurantsUsing(a) : Mine(o, r)
  <2>1. RestaurantsUsing(a) \in SUBSET Restaurants
    BY DEF RestaurantsUsing
  <2>2. AssignmentsJoin(db)
    BY <1>0 DEF References
  <2>3. ASSUME NEW r \in RestaurantsUsing(a) PROVE Mine(o, r)
    <3>1. PICK i \in ItemIds : In(db.assignments[i, a], r)
      BY <2>3 DEF RestaurantsUsing
    <3>2. /\ db.assignments[i, a] # NoRow /\ db.assignments[i, a].rest = r
      BY <3>1 DEF In
    <3>3. /\ db.restaurants[r].org = db.assignments[i, a].org
          /\ db.allergens[a].org = db.assignments[i, a].org
      BY <2>2, <3>2 DEF AssignmentsJoin
    <3> QED BY <1>3, <3>3 DEF Mine, OrgOf
  <2> QED BY <2>1, <2>3
<1>4. PICK a \in AllergenIds :
        \/ \E title \in Titles : CreateAllergen(o, a, title) \/ UpdateAllergen(o, a, title)
        \/ DeleteAllergen(o, a)
  BY DEF AllergenStep
<1>5. CASE DeleteAllergen(o, a)
  <2>1. /\ {} \in SUBSET Restaurants /\ \A r \in {} : Mine(o, r)
        /\ NoRow \in AllergenRow \cup {NoRow}
        /\ Apply(o, [db EXCEPT !.allergens[a] = NoRow], {})
        /\ db.allergens[a].org = o
    BY <1>5 DEF DeleteAllergen
  <2> QED BY <1>1, <2>1, Zenon
<1>6. ASSUME NEW title \in Titles, CreateAllergen(o, a, title)
      PROVE  Keeps(o)
  <2> DEFINE row == [org |-> o, title |-> title]
  <2>1. /\ {} \in SUBSET Restaurants /\ \A r \in {} : Mine(o, r)
        /\ row \in AllergenRow \cup {NoRow} /\ row.org = o
        /\ db.allergens[a] = NoRow
        /\ Apply(o, [db EXCEPT !.allergens[a] = row], {})
    BY <1>2, <1>6 DEF CreateAllergen
  <2> HIDE DEF row
  <2> QED BY <1>1, <2>1, Zenon
<1>7. ASSUME NEW title \in Titles, UpdateAllergen(o, a, title)
      PROVE  Keeps(o)
  <2> DEFINE row == [org |-> o, title |-> title]
  <2>1. /\ Apply(o, [db EXCEPT !.allergens[a] = row], RestaurantsUsing(a))
        /\ row \in AllergenRow \cup {NoRow} /\ row.org = o /\ db.allergens[a].org = o
    BY <1>2, <1>7 DEF UpdateAllergen
  <2> HIDE DEF row
  <2>2. RestaurantsUsing(a) \in SUBSET Restaurants
        /\ \A r \in RestaurantsUsing(a) : Mine(o, r)
    BY <1>3, <2>1
  <2> QED BY <1>1, <2>1, <2>2, Zenon
<1> QED BY <1>4, <1>5, <1>6, <1>7

LEMMA ScheduleStepKeeps ==
  ASSUME IInv, IInv', NEW o \in Orgs, NEW r \in Restaurants, ScheduleStep(o, r)
  PROVE  Keeps(o)
<1>0. db \in Tables /\ db' \in Tables
  BY DEF IInv, TypeOK
<1>1. ASSUME NEW c \in ScheduleIds, NEW row, Owned(o, r),
             (db.schedules[c] = NoRow) \/ In(db.schedules[c], r),
             (row = NoRow) \/ row.rest = r,
             Apply(o, [db EXCEPT !.schedules[c] = row], {})
      PROVE  Keeps(o)
  <2> DEFINE d == [db EXCEPT !.schedules[c] = row]
  <2>1. d \in Tables
    BY <1>0, <1>1 DEF Apply
  <2>2. /\ d.restaurants = db.restaurants /\ d.allergens = db.allergens
        /\ d.schedules = [db.schedules EXCEPT ![c] = row]
        /\ d.hours = db.hours /\ d.specials = db.specials /\ d.menus = db.menus
        /\ d.sections = db.sections /\ d.entries = db.entries /\ d.items = db.items
        /\ d.assignments = db.assignments
    BY <1>0 DEF Tables
  <2>3. RowsStay(o, db.schedules, d.schedules)
    <3>1. RowsStay(o, db.schedules, [db.schedules EXCEPT ![c] = row])
      BY <1>1, OneRowStays
    <3> QED BY <2>2, <3>1
  <2>4. {} \in SUBSET {r} /\ Owned(o, r) /\ Apply(o, d, {})
    BY <1>1
  <2>5. ContentStays(o, d)
    BY <2>2, <2>3, SameRowsStay DEF ContentStays
  <2> HIDE DEF d
  <2> QED BY <2>1, <2>2, <2>4, <2>5, OwnedKeeps
<1>2. ASSUME NEW c \in ScheduleIds, NEW title \in Titles, UpdateMenuSchedule(o, r, c, title)
      PROVE  Keeps(o)
  <2> DEFINE row == [db.schedules[c] EXCEPT !.title = title]
  <2>1. [db EXCEPT !.schedules[c].title = title] = [db EXCEPT !.schedules[c] = row]
    BY <1>0 DEF Tables
  <2>2. /\ Owned(o, r) /\ In(db.schedules[c], r)
        /\ Apply(o, [db EXCEPT !.schedules[c] = row], {})
    BY <1>2, <2>1 DEF UpdateMenuSchedule
  <2>3. row.rest = r
    <3>1. db.schedules[c] \in ScheduleRow /\ db.schedules[c].rest = r
      BY <1>0, <2>2 DEF In, Tables
    <3> QED BY <3>1 DEF ScheduleRow
  <2> HIDE DEF row
  <2> QED BY <1>1, <2>2, <2>3, Zenon
<1>3. ASSUME NEW c \in ScheduleIds, NEW m \in MenuIds, NEW title \in Titles,
             CreateMenuSchedule(o, r, m, c, title)
      PROVE  Keeps(o)
  BY <1>1, <1>3 DEF CreateMenuSchedule
<1>4. ASSUME NEW c \in ScheduleIds, DeleteMenuSchedule(o, r, c)
      PROVE  Keeps(o)
  BY <1>1, <1>4 DEF DeleteMenuSchedule
<1> QED BY <1>2, <1>3, <1>4 DEF ScheduleStep

LEMMA NextContained ==
  ASSUME IInv, IInv', Next
  PROVE  \E o \in Orgs : Keeps(o)
BY AllergenStepKeeps, RestaurantStepKeeps, HourStepKeeps, SpecialStepKeeps, MenuStepKeeps,
   SectionStepKeeps, EntryStepKeeps, ItemStepKeeps, ScheduleStepKeeps DEF Next

----------------------------------------------------------------------------
(* The theorems.                                                           *)

LEMMA PublicBegins == Init => Public!Init
<1> SUFFICES ASSUME Init PROVE Public!Init
  OBVIOUS
<1>1. \A r \in Restaurants : db.restaurants[r] = NoRow
  BY DEF Init, NoRows
<1>2. snap = [r \in Restaurants |-> Snapshot(db, r)]
  BY <1>1 DEF Init, NoRows, Snapshot
<1>3. [r \in Restaurants |-> OrgOf(r)] = [r \in Restaurants |-> NoCaller]
  BY <1>1 DEF OrgOf
<1> QED BY <1>2, <1>3 DEF Init, Public!Init

(* PublicSpec: whatever a request of an organization changes, customers are
   shown in the same step, and the menus of all others stay as they were. *)
THEOREM ImplementsPublicMenu == Spec => PublicSpec
<1>1. ASSUME IInv, IInv', [Next]_vars
      PROVE  Public!Next \/ UNCHANGED Public!public
  <2>1. CASE Next
    <3>1. PICK o \in Orgs : Keeps(o)
      BY <1>1, <2>1, NextContained
    <3>2. Public!Edit(o)
      BY <1>1, <3>1, ContainedEdits DEF Keeps
    <3> QED BY <3>2 DEF Public!Next
  <2>2. CASE UNCHANGED vars
    <3>1. db' = db /\ snap' = snap /\ caller' = caller
      BY <2>2 DEF vars
    <3>2. [r \in Restaurants |-> OrgOf(r)]' = [r \in Restaurants |-> OrgOf(r)]
      BY <3>1 DEF OrgOf
    <3> QED BY <3>1, <3>2 DEF Public!public
  <2> QED BY <1>1, <2>1, <2>2
<1>2. IInv /\ IInv' /\ [Next]_vars => [Public!Next]_(Public!public)
  BY <1>1
<1> QED BY <1>2, PublicBegins, Invariance, PTL DEF Spec, PublicSpec, Public!Spec

(* TenantIsolation: a request authorized for one organization adds, changes
   and removes no row of another, in any table, and changes none of its
   snapshots. *)
THEOREM TenantsIsolated == Spec => TenantIsolation
<1> DEFINE A == \A o \in Orgs \ {caller'} : Estate(o)' = Estate(o)
<1>1. ASSUME IInv, IInv', Next PROVE A
  <2>1. PICK o \in Orgs : Keeps(o)
    BY <1>1, NextContained
  <2>2. PICK d \in Tables, R \in SUBSET Restaurants : Apply(o, d, R) /\ Contained(o, d, R)
    BY <2>1 DEF Keeps
  <2>3. caller' = o
    BY <2>2 DEF Apply
  <2> QED BY <1>1, <2>2, <2>3, ContainedIsolates
<1>2. IInv /\ IInv' /\ [Next]_vars => [A]_vars
  BY <1>1
<1> QED BY <1>2, Invariance, PTL DEF Spec, TenantIsolation
=============================================================================
