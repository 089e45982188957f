------------------------- MODULE MenuContentProofs -------------------------
(***************************************************************************)
(* What MenuContent's triggers and foreign keys guarantee for every number *)
(* of organizations, restaurants and rows.                                 *)
(***************************************************************************)
EXTENDS MenuContent, TLAPS

\* Two states of the tables look the same from restaurant r.
SameRows(t1, t2, r) ==
  \A x \in DOMAIN t1 : In(t1[x], r) \/ In(t2[x], r) => t1[x] = t2[x]

SameFor(d1, d2, r) ==
  /\ d1.restaurants[r] = d2.restaurants[r]
  /\ SameRows(d1.hours, d2.hours, r)
  /\ SameRows(d1.specials, d2.specials, r)
  /\ SameRows(d1.menus, d2.menus, r)
  /\ SameRows(d1.sections, d2.sections, r)
  /\ SameRows(d1.entries, d2.entries, r)
  /\ SameRows(d1.items, d2.items, r)
  /\ \A i \in ItemIds, a \in AllergenIds :
       In(d1.items[i], r) =>
         /\ d1.assignments[i, a] = d2.assignments[i, a]
         /\ d1.assignments[i, a] # NoRow => d1.allergens[a] = d2.allergens[a]

----------------------------------------------------------------------------
(* What the joins of the refresh keep depends on the rows of r only. *)
LEMMA ShownFrame ==
  ASSUME NEW d1 \in Tables, NEW d2 \in Tables, NEW r \in Restaurants,
         SameFor(d1, d2, r)
  PROVE  /\ \A s \in SectionIds : ShownSection(d1, s, r) <=> ShownSection(d2, s, r)
         /\ \A e \in EntryIds : ShownEntry(d1, e, r) <=> ShownEntry(d2, e, r)
<1>0. /\ \A m \in MenuIds : In(d1.menus[m], r) \/ In(d2.menus[m], r)
                            => d1.menus[m] = d2.menus[m]
      /\ \A i \in ItemIds : In(d1.items[i], r) \/ In(d2.items[i], r)
                            => d1.items[i] = d2.items[i]
  BY DEF SameFor, SameRows, Tables
<1>1. ASSUME NEW s \in SectionIds
      PROVE  ShownSection(d1, s, r) <=> ShownSection(d2, s, r)
  <2>1. CASE In(d1.sections[s], r) \/ In(d2.sections[s], r)
    <3>1. d1.sections[s] = d2.sections[s]
      BY <2>1 DEF SameFor, SameRows, Tables
    <3>2. d1.sections[s] \in SectionRow
      BY <2>1, <3>1 DEF Tables, In
    <3>3. d1.sections[s].menu \in MenuIds
      BY <3>2 DEF SectionRow
    <3>4. Live(d1.menus[d1.sections[s].menu], r) <=> Live(d2.menus[d1.sections[s].menu], r)
      BY <1>0, <3>3 DEF Live
    <3> QED BY <3>1, <3>4 DEF ShownSection
  <2>2. CASE ~(In(d1.sections[s], r) \/ In(d2.sections[s], r))
    BY <2>2 DEF ShownSection, Live
  <2> QED BY <2>1, <2>2
<1>2. ASSUME NEW e \in EntryIds
      PROVE  ShownEntry(d1, e, r) <=> ShownEntry(d2, e, r)
  <2>1. CASE In(d1.entries[e], r) \/ In(d2.entries[e], r)
    <3>1. d1.entries[e] = d2.entries[e]
      BY <2>1 DEF SameFor, SameRows, Tables
    <3>2. d1.entries[e] \in EntryRow
      BY <2>1, <3>1 DEF Tables, In
    <3>3. d1.entries[e].section \in SectionIds /\ d1.entries[e].item \in ItemIds
      BY <3>2 DEF EntryRow
    <3>4. Live(d1.items[d1.entries[e].item], r) <=> Live(d2.items[d1.entries[e].item], r)
      BY <1>0, <3>3 DEF Live
    <3>5. ShownSection(d1, d1.entries[e].section, r)
            <=> ShownSection(d2, d1.entries[e].section, r)
      BY <1>1, <3>3
    <3>6. Live(d1.entries[e], r) <=> Live(d2.entries[e], r)
      BY <3>1
    <3> QED BY <3>1, <3>4, <3>5, <3>6 DEF ShownEntry
  <2>2. CASE ~(In(d1.entries[e], r) \/ In(d2.entries[e], r))
    BY <2>2 DEF ShownEntry, Live
  <2> QED BY <2>1, <2>2
<1> QED BY <1>1, <1>2

(* A restaurant's document is made of its own rows, and of the allergens of
   its items, only: what looks the same from it has the same snapshot. *)
LEMMA DocumentFrame ==
  ASSUME NEW d1 \in Tables, NEW d2 \in Tables, NEW r \in Restaurants,
         SameFor(d1, d2, r)
  PROVE  Snapshot(d1, r) = Snapshot(d2, r)
<1>1. [h \in HourIds |-> IF In(d1.hours[h], r) THEN d1.hours[h].title ELSE NoRow]
      = [h \in HourIds |-> IF In(d2.hours[h], r) THEN d2.hours[h].title ELSE NoRow]
  BY DEF SameFor, SameRows, Tables
<1>2. [p \in SpecialIds |-> IF Live(d1.specials[p], r) THEN d1.specials[p].title ELSE NoRow]
      = [p \in SpecialIds |-> IF Live(d2.specials[p], r) THEN d2.specials[p].title ELSE NoRow]
  BY DEF SameFor, SameRows, Tables, Live
<1>3. [m \in MenuIds |-> IF Live(d1.menus[m], r) THEN d1.menus[m].title ELSE NoRow]
      = [m \in MenuIds |-> IF Live(d2.menus[m], r) THEN d2.menus[m].title ELSE NoRow]
  BY DEF SameFor, SameRows, Tables, Live
<1>4. ASSUME NEW s \in SectionIds, ShownSection(d1, s, r)
      PROVE  d1.sections[s] = d2.sections[s]
  BY <1>4 DEF SameFor, SameRows, Tables, ShownSection, Live
<1>5. [s \in SectionIds |-> IF ShownSection(d1, s, r)
                            THEN <<d1.sections[s].menu, d1.sections[s].title>> ELSE NoRow]
      = [s \in SectionIds |-> IF ShownSection(d2, s, r)
                              THEN <<d2.sections[s].menu, d2.sections[s].title>> ELSE NoRow]
  BY <1>4, ShownFrame
<1>6. ASSUME NEW e \in EntryIds, ShownEntry(d1, e, r)
      PROVE  /\ d1.entries[e] = d2.entries[e]
             /\ d1.entries[e].item \in ItemIds
             /\ d1.items[d1.entries[e].item] = d2.items[d1.entries[e].item]
             /\ In(d1.items[d1.entries[e].item], r)
  <2>1. In(d1.entries[e], r) /\ In(d1.items[d1.entries[e].item], r)
    BY <1>6 DEF ShownEntry, Live
  <2>2. d1.entries[e] = d2.entries[e]
    BY <2>1 DEF SameFor, SameRows, Tables
  <2>3. d1.entries[e] \in EntryRow
    BY <2>1 DEF Tables, In
  <2>4. d1.entries[e].item \in ItemIds
    BY <2>3 DEF EntryRow
  <2>5. d1.items[d1.entries[e].item] = d2.items[d1.entries[e].item]
    BY <2>1, <2>4 DEF SameFor, SameRows, Tables
  <2> QED BY <2>1, <2>2, <2>4, <2>5
<1>7. [e \in EntryIds |->
         IF ShownEntry(d1, e, r)
         THEN <<d1.entries[e].section, d1.entries[e].title,
                d1.entries[e].item, d1.items[d1.entries[e].item].title>> ELSE NoRow]
      = [e \in EntryIds |->
           IF ShownEntry(d2, e, r)
           THEN <<d2.entries[e].section, d2.entries[e].title,
                  d2.entries[e].item, d2.items[d2.entries[e].item].title>> ELSE NoRow]
  BY <1>6, ShownFrame
<1>8. ASSUME NEW e \in EntryIds, NEW a \in AllergenIds, ShownEntry(d1, e, r)
      PROVE  LET i == d1.entries[e].item
             IN /\ d1.assignments[i, a] = d2.assignments[i, a]
                /\ Disclosed(d1, i, a) <=> Disclosed(d2, i, a)
                /\ Disclosed(d1, i, a) => d1.allergens[a] = d2.allergens[a]
  <2> DEFINE i == d1.entries[e].item
  <2>1. i \in ItemIds /\ In(d1.items[i], r)
    BY <1>6, <1>8
  <2> HIDE DEF i
  <2>2. /\ d1.assignments[i, a] = d2.assignments[i, a]
        /\ d1.assignments[i, a] # NoRow => d1.allergens[a] = d2.allergens[a]
    BY <2>1 DEF SameFor
  <2>3. Disclosed(d1, i, a) <=> Disclosed(d2, i, a)
    BY <2>2 DEF Disclosed
  <2> QED BY <2>2, <2>3 DEF Disclosed, i
<1>9. Disclosures(d1, r) = Disclosures(d2, r)
  <2>1. ASSUME NEW p \in EntryIds \X AllergenIds
        PROVE  (IF ShownEntry(d1, p[1], r) /\ Disclosed(d1, d1.entries[p[1]].item, p[2])
                THEN <<d1.assignments[d1.entries[p[1]].item, p[2]].rel,
                       d1.allergens[p[2]].title>>
                ELSE NoRow)
               = (IF ShownEntry(d2, p[1], r) /\ Disclosed(d2, d2.entries[p[1]].item, p[2])
                  THEN <<d2.assignments[d2.entries[p[1]].item, p[2]].rel,
                         d2.allergens[p[2]].title>>
                  ELSE NoRow)
    <3>1. p[1] \in EntryIds /\ p[2] \in AllergenIds
      BY <2>1
    <3>2. CASE ShownEntry(d1, p[1], r)
      <4>1. ShownEntry(d2, p[1], r)
        BY <3>1, <3>2, ShownFrame
      <4>2. d1.entries[p[1]] = d2.entries[p[1]]
        BY <1>6, <3>1, <3>2
      <4>3. /\ d1.assignments[d1.entries[p[1]].item, p[2]]
               = d2.assignments[d1.entries[p[1]].item, p[2]]
            /\ Disclosed(d1, d1.entries[p[1]].item, p[2])
               <=> Disclosed(d2, d1.entries[p[1]].item, p[2])
            /\ Disclosed(d1, d1.entries[p[1]].item, p[2])
               => d1.allergens[p[2]] = d2.allergens[p[2]]
        BY <1>8, <3>1, <3>2
      <4>4. CASE Disclosed(d1, d1.entries[p[1]].item, p[2])
        BY <3>2, <4>1, <4>2, <4>3, <4>4
      <4>5. CASE ~Disclosed(d1, d1.entries[p[1]].item, p[2])
        BY <3>2, <4>1, <4>2, <4>3, <4>5
      <4> QED BY <4>4, <4>5
    <3>3. CASE ~ShownEntry(d1, p[1], r)
      BY <3>1, <3>3, ShownFrame
    <3> QED BY <3>2, <3>3
  <2> QED BY <2>1 DEF Disclosures
<1> QED BY <1>1, <1>2, <1>3, <1>5, <1>7, <1>9 DEF Snapshot, Document, SameFor

----------------------------------------------------------------------------
(* The inductive invariant.  SnapshotFresh alone is not inductive: that the
   edits of one restaurant leave the documents of the others alone, and that
   an allergen's trigger finds every restaurant whose document shows it, rests
   on the references. *)
IInv == TypeOK /\ ReferencesHold /\ SnapshotFresh

(* A request that leaves the references in order, and refreshes every
   restaurant it does not leave alone, keeps the invariant. *)
LEMMA ApplyKeeps ==
  ASSUME NEW o \in Orgs, NEW d \in Tables, NEW R \in SUBSET Restaurants,
         IInv, Apply(o, d, R), References(d),
         \A r \in Restaurants \ R : SameFor(db, d, r)
  PROVE  IInv'
<1>1. db' = d /\ caller' = o
  BY DEF Apply
<1>2. TypeOK'
  BY <1>1 DEF IInv, TypeOK, Apply
<1>3. ReferencesHold'
  BY <1>1 DEF ReferencesHold
<1>4. ASSUME NEW r \in Restaurants PROVE snap'[r] = Snapshot(d, r)
  <2>1. CASE r \in R
    BY <2>1 DEF Apply
  <2>2. CASE r \notin R
    <3>1. snap'[r] = snap[r]
      BY <2>2 DEF Apply
    <3>2. Snapshot(db, r) = Snapshot(d, r)
      BY <2>2, DocumentFrame DEF IInv, TypeOK
    <3> QED BY <3>1, <3>2 DEF IInv, SnapshotFresh
  <2> QED BY <2>1, <2>2
<1>5. SnapshotFresh'
  BY <1>1, <1>4 DEF SnapshotFresh
<1> QED BY <1>2, <1>3, <1>5 DEF IInv

(* Hours and specials. *)
LEMMA CreateBusinessHourKeeps ==
  ASSUME IInv, NEW o \in Orgs, NEW r \in Restaurants, NEW h \in HourIds,
         NEW title \in Titles, CreateBusinessHour(o, r, h, title)
  PROVE  IInv'
<1> DEFINE row == [rest |-> r, title |-> title]
           d == [db EXCEPT !.hours[h] = row]
<1>1. db \in Tables /\ References(db)
  BY DEF IInv, TypeOK, ReferencesHold
<1>2. row \in HourRow /\ row # NoRow /\ row.rest = r
  BY NoRowIsNoRow DEF HourRow
<1>3. d \in Tables
  BY <1>1, <1>2 DEF Tables
<1> HIDE DEF row
<1>4. References(d)
  <2>1. RowsOfARestaurant(d)
    BY <1>1, <1>2 DEF References, RowsOfARestaurant, Tables, In, CreateBusinessHour, Owned
  <2>2. SectionsUnderMenus(d) /\ EntriesUnderSections(d)
       /\ AssignmentsJoin(d) /\ SchedulesUnderMenus(d)
    BY <1>1 DEF References, Tables,
      SectionsUnderMenus, EntriesUnderSections, AssignmentsJoin, SchedulesUnderMenus
  <2> QED BY <2>1, <2>2 DEF References
<1>5. ASSUME NEW q \in Restaurants \ {r} PROVE SameFor(db, d, q)
  BY <1>1, <1>2 DEF SameFor, SameRows, Tables, CreateBusinessHour, Owned, In
<1>6. Apply(o, d, {r})
  BY DEF CreateBusinessHour, row
<1> QED BY <1>3, <1>4, <1>5, <1>6, ApplyKeeps

LEMMA UpdateBusinessHourKeeps ==
  ASSUME IInv, NEW o \in Orgs, NEW r \in Restaurants, NEW h \in HourIds,
         NEW title \in Titles, UpdateBusinessHour(o, r, h, title)
  PROVE  IInv'
<1> DEFINE row == [rest |-> r, title |-> title]
           d == [db EXCEPT !.hours[h] = row]
<1>1. db \in Tables /\ References(db)
  BY DEF IInv, TypeOK, ReferencesHold
<1>2. row \in HourRow /\ row # NoRow /\ row.rest = r
  BY NoRowIsNoRow DEF HourRow
<1>3. d \in Tables
  BY <1>1, <1>2 DEF Tables
<1> HIDE DEF row
<1>4. References(d)
  <2>1. RowsOfARestaurant(d)
    BY <1>1, <1>2 DEF References, RowsOfARestaurant, Tables, In, UpdateBusinessHour, Owned
  <2>2. SectionsUnderMenus(d) /\ EntriesUnderSections(d)
       /\ AssignmentsJoin(d) /\ SchedulesUnderMenus(d)
    BY <1>1 DEF References, Tables,
      SectionsUnderMenus, EntriesUnderSections, AssignmentsJoin, SchedulesUnderMenus
  <2> QED BY <2>1, <2>2 DEF References
<1>5. ASSUME NEW q \in Restaurants \ {r} PROVE SameFor(db, d, q)
  BY <1>1, <1>2 DEF SameFor, SameRows, Tables, UpdateBusinessHour, Owned, In
<1>6. Apply(o, d, {r})
  BY DEF UpdateBusinessHour, row
<1> QED BY <1>3, <1>4, <1>5, <1>6, ApplyKeeps

LEMMA DeleteBusinessHourKeeps ==
  ASSUME IInv, NEW o \in Orgs, NEW r \in Restaurants, NEW h \in HourIds,
         DeleteBusinessHour(o, r, h)
  PROVE  IInv'
<1> DEFINE d == [db EXCEPT !.hours[h] = NoRow]
<1>1. db \in Tables /\ References(db)
  BY DEF IInv, TypeOK, ReferencesHold
<1>2. d \in Tables
  BY <1>1 DEF Tables
<1>3. References(d)
  <2>1. RowsOfARestaurant(d)
    BY <1>1 DEF References, RowsOfARestaurant, Tables, In, DeleteBusinessHour
  <2>2. SectionsUnderMenus(d) /\ EntriesUnderSections(d)
       /\ AssignmentsJoin(d) /\ SchedulesUnderMenus(d)
    BY <1>1 DEF References, Tables,
      SectionsUnderMenus, EntriesUnderSections, AssignmentsJoin, SchedulesUnderMenus
  <2> QED BY <2>1, <2>2 DEF References
<1>4. ASSUME NEW q \in Restaurants \ {r} PROVE SameFor(db, d, q)
  BY <1>1 DEF SameFor, SameRows, Tables, DeleteBusinessHour, In
<1>5. Apply(o, d, {r})
  BY DEF DeleteBusinessHour
<1> QED BY <1>2, <1>3, <1>4, <1>5, ApplyKeeps

LEMMA CreateDailySpecialKeeps ==
  ASSUME IInv, NEW o \in Orgs, NEW r \in Restaurants, NEW p \in SpecialIds,
         NEW title \in Titles, NEW status \in Statuses,
         CreateDailySpecial(o, r, p, title, status)
  PROVE  IInv'
<1> DEFINE row == [rest |-> r, title |-> title, status |-> status]
           d == [db EXCEPT !.specials[p] = row]
<1>1. db \in Tables /\ References(db)
  BY DEF IInv, TypeOK, ReferencesHold
<1>2. row \in SpecialRow /\ row # NoRow /\ row.rest = r
  BY NoRowIsNoRow DEF SpecialRow
<1>3. d \in Tables
  BY <1>1, <1>2 DEF Tables
<1> HIDE DEF row
<1>4. References(d)
  <2>1. RowsOfARestaurant(d)
    BY <1>1, <1>2 DEF References, RowsOfARestaurant, Tables, In, CreateDailySpecial, Owned
  <2>2. SectionsUnderMenus(d) /\ EntriesUnderSections(d)
       /\ AssignmentsJoin(d) /\ SchedulesUnderMenus(d)
    BY <1>1 DEF References, Tables,
      SectionsUnderMenus, EntriesUnderSections, AssignmentsJoin, SchedulesUnderMenus
  <2> QED BY <2>1, <2>2 DEF References
<1>5. ASSUME NEW q \in Restaurants \ {r} PROVE SameFor(db, d, q)
  BY <1>1, <1>2 DEF SameFor, SameRows, Tables, CreateDailySpecial, Owned, In
<1>6. Apply(o, d, {r})
  BY DEF CreateDailySpecial, row
<1> QED BY <1>3, <1>4, <1>5, <1>6, ApplyKeeps

LEMMA UpdateDailySpecialKeeps ==
  ASSUME IInv, NEW o \in Orgs, NEW r \in Restaurants, NEW p \in SpecialIds,
         NEW title \in Titles, NEW status \in Statuses,
         UpdateDailySpecial(o, r, p, title, status)
  PROVE  IInv'
<1> DEFINE row == [rest |-> r, title |-> title, status |-> status]
           d == [db EXCEPT !.specials[p] = row]
<1>1. db \in Tables /\ References(db)
  BY DEF IInv, TypeOK, ReferencesHold
<1>2. row \in SpecialRow /\ row # NoRow /\ row.rest = r
  BY NoRowIsNoRow DEF SpecialRow
<1>3. d \in Tables
  BY <1>1, <1>2 DEF Tables
<1> HIDE DEF row
<1>4. References(d)
  <2>1. RowsOfARestaurant(d)
    BY <1>1, <1>2 DEF References, RowsOfARestaurant, Tables, In, UpdateDailySpecial, Owned
  <2>2. SectionsUnderMenus(d) /\ EntriesUnderSections(d)
       /\ AssignmentsJoin(d) /\ SchedulesUnderMenus(d)
    BY <1>1 DEF References, Tables,
      SectionsUnderMenus, EntriesUnderSections, AssignmentsJoin, SchedulesUnderMenus
  <2> QED BY <2>1, <2>2 DEF References
<1>5. ASSUME NEW q \in Restaurants \ {r} PROVE SameFor(db, d, q)
  BY <1>1, <1>2 DEF SameFor, SameRows, Tables, UpdateDailySpecial, Owned, In
<1>6. Apply(o, d, {r})
  BY DEF UpdateDailySpecial, row
<1> QED BY <1>3, <1>4, <1>5, <1>6, ApplyKeeps

LEMMA DeleteDailySpecialKeeps ==
  ASSUME IInv, NEW o \in Orgs, NEW r \in Restaurants, NEW p \in SpecialIds,
         DeleteDailySpecial(o, r, p)
  PROVE  IInv'
<1> DEFINE d == [db EXCEPT !.specials[p] = NoRow]
<1>1. db \in Tables /\ References(db)
  BY DEF IInv, TypeOK, ReferencesHold
<1>2. d \in Tables
  BY <1>1 DEF Tables
<1>3. References(d)
  <2>1. RowsOfARestaurant(d)
    BY <1>1 DEF References, RowsOfARestaurant, Tables, In, DeleteDailySpecial
  <2>2. SectionsUnderMenus(d) /\ EntriesUnderSections(d)
       /\ AssignmentsJoin(d) /\ SchedulesUnderMenus(d)
    BY <1>1 DEF References, Tables,
      SectionsUnderMenus, EntriesUnderSections, AssignmentsJoin, SchedulesUnderMenus
  <2> QED BY <2>1, <2>2 DEF References
<1>4. ASSUME NEW q \in Restaurants \ {r} PROVE SameFor(db, d, q)
  BY <1>1 DEF SameFor, SameRows, Tables, DeleteDailySpecial, In
<1>5. Apply(o, d, {r})
  BY DEF DeleteDailySpecial
<1> QED BY <1>2, <1>3, <1>4, <1>5, ApplyKeeps

(* Menus, sections and entries. *)
LEMMA CreateMenuKeeps ==
  ASSUME IInv, NEW o \in Orgs, NEW r \in Restaurants, NEW m \in MenuIds,
         NEW title \in Titles, NEW status \in Statuses,
         CreateMenu(o, r, m, title, status)
  PROVE  IInv'
<1> DEFINE row == [rest |-> r, title |-> title, status |-> status]
           d == [db EXCEPT !.menus[m] = row]
<1>1. db \in Tables /\ References(db)
  BY DEF IInv, TypeOK, ReferencesHold
<1>2. row \in MenuRow /\ row # NoRow /\ row.rest = r
  BY NoRowIsNoRow DEF MenuRow
<1>3. d \in Tables
  BY <1>1, <1>2 DEF Tables
<1> HIDE DEF row
<1>4. References(d)
  <2>1. RowsOfARestaurant(d)
    BY <1>1, <1>2 DEF References, RowsOfARestaurant, Tables, In, CreateMenu, Owned
  <2>2. SectionsUnderMenus(d)
    BY <1>1, <1>2 DEF References, SectionsUnderMenus, Tables, In, CreateMenu, Owned
  <2>3. SchedulesUnderMenus(d)
    BY <1>1, <1>2 DEF References, SchedulesUnderMenus, Tables, In, CreateMenu, Owned
  <2>4. EntriesUnderSections(d) /\ AssignmentsJoin(d)
    BY <1>1 DEF References, Tables,
      EntriesUnderSections, AssignmentsJoin
  <2> QED BY <2>1, <2>2, <2>3, <2>4 DEF References
<1>5. ASSUME NEW q \in Restaurants \ {r} PROVE SameFor(db, d, q)
  BY <1>1, <1>2 DEF SameFor, SameRows, Tables, CreateMenu, Owned, In
<1>6. Apply(o, d, {r})
  BY DEF CreateMenu, row
<1> QED BY <1>3, <1>4, <1>5, <1>6, ApplyKeeps

LEMMA UpdateMenuKeeps ==
  ASSUME IInv, NEW o \in Orgs, NEW r \in Restaurants, NEW m \in MenuIds,
         NEW title \in Titles, NEW status \in Statuses,
         UpdateMenu(o, r, m, title, status)
  PROVE  IInv'
<1> DEFINE row == [rest |-> r, title |-> title, status |-> status]
           d == [db EXCEPT !.menus[m] = row]
<1>1. db \in Tables /\ References(db)
  BY DEF IInv, TypeOK, ReferencesHold
<1>2. row \in MenuRow /\ row # NoRow /\ row.rest = r
  BY NoRowIsNoRow DEF MenuRow
<1>3. d \in Tables
  BY <1>1, <1>2 DEF Tables
<1> HIDE DEF row
<1>4. References(d)
  <2>1. RowsOfARestaurant(d)
    BY <1>1, <1>2 DEF References, RowsOfARestaurant, Tables, In, UpdateMenu, Owned
  <2>2. SectionsUnderMenus(d)
    BY <1>1, <1>2 DEF References, SectionsUnderMenus, Tables, In, UpdateMenu, Owned
  <2>3. SchedulesUnderMenus(d)
    BY <1>1, <1>2 DEF References, SchedulesUnderMenus, Tables, In, UpdateMenu, Owned
  <2>4. EntriesUnderSections(d) /\ AssignmentsJoin(d)
    BY <1>1 DEF References, Tables,
      EntriesUnderSections, AssignmentsJoin
  <2> QED BY <2>1, <2>2, <2>3, <2>4 DEF References
<1>5. ASSUME NEW q \in Restaurants \ {r} PROVE SameFor(db, d, q)
  BY <1>1, <1>2 DEF SameFor, SameRows, Tables, UpdateMenu, Owned, In
<1>6. Apply(o, d, {r})
  BY DEF UpdateMenu, row
<1> QED BY <1>3, <1>4, <1>5, <1>6, ApplyKeeps

LEMMA CreateMenuSectionKeeps ==
  ASSUME IInv, NEW o \in Orgs, NEW r \in Restaurants, NEW m \in MenuIds,
         NEW s \in SectionIds, NEW title \in Titles, NEW status \in Statuses,
         CreateMenuSection(o, r, m, s, title, status)
  PROVE  IInv'
<1> DEFINE row == [rest |-> r, menu |-> m, title |-> title, status |-> status]
           d == [db EXCEPT !.sections[s] = row]
<1>1. db \in Tables /\ References(db)
  BY DEF IInv, TypeOK, ReferencesHold
<1>2. row \in SectionRow /\ row # NoRow /\ row.rest = r /\ row.menu = m
  BY NoRowIsNoRow DEF SectionRow
<1>3. d \in Tables
  BY <1>1, <1>2 DEF Tables
<1> HIDE DEF row
<1>4. References(d)
  <2>1. SectionsUnderMenus(d)
    BY <1>1, <1>2 DEF References, SectionsUnderMenus, Tables, In, CreateMenuSection
  <2>2. EntriesUnderSections(d)
    BY <1>1, <1>2 DEF References, EntriesUnderSections, Tables, In, CreateMenuSection
  <2>3. RowsOfARestaurant(d) /\ AssignmentsJoin(d)
       /\ SchedulesUnderMenus(d)
    BY <1>1 DEF References, Tables,
      RowsOfARestaurant, AssignmentsJoin, SchedulesUnderMenus
  <2> QED BY <2>1, <2>2, <2>3 DEF References
<1>5. ASSUME NEW q \in Restaurants \ {r} PROVE SameFor(db, d, q)
  BY <1>1, <1>2 DEF SameFor, SameRows, Tables, CreateMenuSection, In
<1>6. Apply(o, d, {r})
  BY DEF CreateMenuSection, row
<1> QED BY <1>3, <1>4, <1>5, <1>6, ApplyKeeps

LEMMA UpdateMenuSectionKeeps ==
  ASSUME IInv, NEW o \in Orgs, NEW r \in Restaurants, NEW m \in MenuIds,
         NEW s \in SectionIds, NEW title \in Titles, NEW status \in Statuses,
         UpdateMenuSection(o, r, m, s, title, status)
  PROVE  IInv'
<1> DEFINE row == [rest |-> r, menu |-> m, title |-> title, status |-> status]
           d == [db EXCEPT !.sections[s] = row]
<1>1. db \in Tables /\ References(db)
  BY DEF IInv, TypeOK, ReferencesHold
<1>2. row \in SectionRow /\ row # NoRow /\ row.rest = r /\ row.menu = m
  BY NoRowIsNoRow DEF SectionRow
<1>3. d \in Tables
  BY <1>1, <1>2 DEF Tables
<1> HIDE DEF row
<1>4. References(d)
  <2>1. SectionsUnderMenus(d)
    BY <1>1, <1>2 DEF References, SectionsUnderMenus, Tables, In, UpdateMenuSection
  <2>2. EntriesUnderSections(d)
    BY <1>1, <1>2 DEF References, EntriesUnderSections, Tables, In, UpdateMenuSection
  <2>3. RowsOfARestaurant(d) /\ AssignmentsJoin(d)
       /\ SchedulesUnderMenus(d)
    BY <1>1 DEF References, Tables,
      RowsOfARestaurant, AssignmentsJoin, SchedulesUnderMenus
  <2> QED BY <2>1, <2>2, <2>3 DEF References
<1>5. ASSUME NEW q \in Restaurants \ {r} PROVE SameFor(db, d, q)
  BY <1>1, <1>2 DEF SameFor, SameRows, Tables, UpdateMenuSection, In
<1>6. Apply(o, d, {r})
  BY DEF UpdateMenuSection, row
<1> QED BY <1>3, <1>4, <1>5, <1>6, ApplyKeeps

LEMMA CreateMenuEntryKeeps ==
  ASSUME IInv, NEW o \in Orgs, NEW r \in Restaurants, NEW m \in MenuIds,
         NEW s \in SectionIds, NEW e \in EntryIds, NEW i \in ItemIds,
         NEW title \in Titles, NEW status \in Statuses,
         CreateMenuEntry(o, r, m, s, e, i, title, status)
  PROVE  IInv'
<1> DEFINE row == [rest |-> r, section |-> s, item |-> i,
                   title |-> title, status |-> status]
           d == [db EXCEPT !.entries[e] = row]
<1>1. db \in Tables /\ References(db)
  BY DEF IInv, TypeOK, ReferencesHold
<1>2. row \in EntryRow /\ row # NoRow /\ row.rest = r /\ row.section = s /\ row.item = i
  BY NoRowIsNoRow DEF EntryRow
<1>3. d \in Tables
  BY <1>1, <1>2 DEF Tables
<1> HIDE DEF row
<1>4. References(d)
  <2>1. EntriesUnderSections(d)
    BY <1>1, <1>2 DEF References, EntriesUnderSections, Tables, In, CreateMenuEntry, SectionPath
  <2>2. RowsOfARestaurant(d) /\ SectionsUnderMenus(d)
       /\ AssignmentsJoin(d) /\ SchedulesUnderMenus(d)
    BY <1>1 DEF References, Tables,
      RowsOfARestaurant, SectionsUnderMenus, AssignmentsJoin, SchedulesUnderMenus
  <2> QED BY <2>1, <2>2 DEF References
<1>5. ASSUME NEW q \in Restaurants \ {r} PROVE SameFor(db, d, q)
  BY <1>1, <1>2 DEF SameFor, SameRows, Tables, CreateMenuEntry, SectionPath, In
<1>6. Apply(o, d, {r})
  BY DEF CreateMenuEntry, row
<1> QED BY <1>3, <1>4, <1>5, <1>6, ApplyKeeps

LEMMA UpdateMenuEntryKeeps ==
  ASSUME IInv, NEW o \in Orgs, NEW r \in Restaurants, NEW m \in MenuIds,
         NEW s \in SectionIds, NEW e \in EntryIds, NEW i \in ItemIds,
         NEW title \in Titles, NEW status \in Statuses,
         UpdateMenuEntry(o, r, m, s, e, i, title, status)
  PROVE  IInv'
<1> DEFINE row == [rest |-> r, section |-> s, item |-> i,
                   title |-> title, status |-> status]
           d == [db EXCEPT !.entries[e] = row]
<1>1. db \in Tables /\ References(db)
  BY DEF IInv, TypeOK, ReferencesHold
<1>2. row \in EntryRow /\ row # NoRow /\ row.rest = r /\ row.section = s /\ row.item = i
  BY NoRowIsNoRow DEF EntryRow
<1>3. d \in Tables
  BY <1>1, <1>2 DEF Tables
<1> HIDE DEF row
<1>4. References(d)
  <2>1. EntriesUnderSections(d)
    BY <1>1, <1>2 DEF References, EntriesUnderSections, Tables, In, UpdateMenuEntry, SectionPath
  <2>2. RowsOfARestaurant(d) /\ SectionsUnderMenus(d)
       /\ AssignmentsJoin(d) /\ SchedulesUnderMenus(d)
    BY <1>1 DEF References, Tables,
      RowsOfARestaurant, SectionsUnderMenus, AssignmentsJoin, SchedulesUnderMenus
  <2> QED BY <2>1, <2>2 DEF References
<1>5. ASSUME NEW q \in Restaurants \ {r} PROVE SameFor(db, d, q)
  BY <1>1, <1>2 DEF SameFor, SameRows, Tables, UpdateMenuEntry, SectionPath, In
<1>6. Apply(o, d, {r})
  BY DEF UpdateMenuEntry, row
<1> QED BY <1>3, <1>4, <1>5, <1>6, ApplyKeeps

LEMMA DeleteMenuEntryKeeps ==
  ASSUME IInv, NEW o \in Orgs, NEW r \in Restaurants, NEW m \in MenuIds,
         NEW s \in SectionIds, NEW e \in EntryIds,
         DeleteMenuEntry(o, r, m, s, e)
  PROVE  IInv'
<1> DEFINE d == [db EXCEPT !.entries[e] = NoRow]
<1>1. db \in Tables /\ References(db)
  BY DEF IInv, TypeOK, ReferencesHold
<1>2. d \in Tables
  BY <1>1 DEF Tables
<1>3. References(d)
  <2>1. EntriesUnderSections(d)
    BY <1>1 DEF References, EntriesUnderSections, Tables, In, DeleteMenuEntry
  <2>2. RowsOfARestaurant(d) /\ SectionsUnderMenus(d)
       /\ AssignmentsJoin(d) /\ SchedulesUnderMenus(d)
    BY <1>1 DEF References, Tables,
      RowsOfARestaurant, SectionsUnderMenus, AssignmentsJoin, SchedulesUnderMenus
  <2> QED BY <2>1, <2>2 DEF References
<1>4. ASSUME NEW q \in Restaurants \ {r} PROVE SameFor(db, d, q)
  BY <1>1 DEF SameFor, SameRows, Tables, DeleteMenuEntry, In
<1>5. Apply(o, d, {r})
  BY DEF DeleteMenuEntry
<1> QED BY <1>2, <1>3, <1>4, <1>5, ApplyKeeps

(* Schedules, which no document shows. *)
LEMMA CreateMenuScheduleKeeps ==
  ASSUME IInv, NEW o \in Orgs, NEW r \in Restaurants, NEW m \in MenuIds,
         NEW c \in ScheduleIds, NEW title \in Titles,
         CreateMenuSchedule(o, r, m, c, title)
  PROVE  IInv'
<1> DEFINE row == [rest |-> r, menu |-> m, title |-> title]
           d == [db EXCEPT !.schedules[c] = row]
<1>1. db \in Tables /\ References(db)
  BY DEF IInv, TypeOK, ReferencesHold
<1>2. row \in ScheduleRow /\ row # NoRow /\ row.rest = r /\ row.menu = m
  BY NoRowIsNoRow DEF ScheduleRow
<1>3. d \in Tables
  BY <1>1, <1>2 DEF Tables
<1> HIDE DEF row
<1>4. References(d)
  <2>1. SchedulesUnderMenus(d)
    BY <1>1, <1>2 DEF References, SchedulesUnderMenus, Tables, In, CreateMenuSchedule
  <2>2. RowsOfARestaurant(d) /\ SectionsUnderMenus(d)
       /\ EntriesUnderSections(d) /\ AssignmentsJoin(d)
    BY <1>1 DEF References, Tables,
      RowsOfARestaurant, SectionsUnderMenus, EntriesUnderSections, AssignmentsJoin
  <2> QED BY <2>1, <2>2 DEF References
<1>5. ASSUME NEW q \in Restaurants PROVE SameFor(db, d, q)
  BY <1>1, <1>2 DEF SameFor, SameRows, Tables, CreateMenuSchedule, In
<1>6. Apply(o, d, {})
  BY DEF CreateMenuSchedule, row
<1> QED BY <1>3, <1>4, <1>5, <1>6, ApplyKeeps

LEMMA UpdateMenuScheduleKeeps ==
  ASSUME IInv, NEW o \in Orgs, NEW r \in Restaurants, NEW c \in ScheduleIds,
         NEW title \in Titles, UpdateMenuSchedule(o, r, c, title)
  PROVE  IInv'
<1> DEFINE row == [db.schedules[c] EXCEPT !.title = title]
           d == [db EXCEPT !.schedules[c] = row]
<1>1. db \in Tables /\ References(db)
  BY DEF IInv, TypeOK, ReferencesHold
<1>2. db.schedules[c] \in ScheduleRow
  BY <1>1 DEF Tables, UpdateMenuSchedule, In
<1>3. /\ row \in ScheduleRow
      /\ row.rest = db.schedules[c].rest /\ row.menu = db.schedules[c].menu
  BY <1>2 DEF ScheduleRow
<1>4. d \in Tables
  BY <1>1, <1>3 DEF Tables
<1>5. Apply(o, d, {}) /\ db.schedules[c] # NoRow
  <2>1. d = [db EXCEPT !.schedules[c].title = title]
    BY <1>1 DEF Tables
  <2> QED BY <2>1 DEF UpdateMenuSchedule, In
<1> HIDE DEF row
<1>6. References(d)
  <2>1. SchedulesUnderMenus(d)
    BY <1>1, <1>3, <1>5 DEF References, SchedulesUnderMenus, Tables
  <2>2. RowsOfARestaurant(d) /\ SectionsUnderMenus(d)
       /\ EntriesUnderSections(d) /\ AssignmentsJoin(d)
    BY <1>1 DEF References, Tables,
      RowsOfARestaurant, SectionsUnderMenus, EntriesUnderSections, AssignmentsJoin
  <2> QED BY <2>1, <2>2 DEF References
<1>7. ASSUME NEW q \in Restaurants PROVE SameFor(db, d, q)
  BY <1>1 DEF SameFor, SameRows, Tables
<1> QED BY <1>4, <1>5, <1>6, <1>7, ApplyKeeps

LEMMA DeleteMenuScheduleKeeps ==
  ASSUME IInv, NEW o \in Orgs, NEW r \in Restaurants, NEW c \in ScheduleIds,
         DeleteMenuSchedule(o, r, c)
  PROVE  IInv'
<1> DEFINE d == [db EXCEPT !.schedules[c] = NoRow]
<1>1. db \in Tables /\ References(db)
  BY DEF IInv, TypeOK, ReferencesHold
<1>2. d \in Tables
  BY <1>1 DEF Tables
<1>3. References(d)
  <2>1. SchedulesUnderMenus(d)
    BY <1>1 DEF References, SchedulesUnderMenus, Tables, In, DeleteMenuSchedule
  <2>2. RowsOfARestaurant(d) /\ SectionsUnderMenus(d)
       /\ EntriesUnderSections(d) /\ AssignmentsJoin(d)
    BY <1>1 DEF References, Tables,
      RowsOfARestaurant, SectionsUnderMenus, EntriesUnderSections, AssignmentsJoin
  <2> QED BY <2>1, <2>2 DEF References
<1>4. ASSUME NEW q \in Restaurants PROVE SameFor(db, d, q)
  BY <1>1 DEF SameFor, SameRows, Tables, DeleteMenuSchedule, In
<1>5. Apply(o, d, {})
  BY DEF DeleteMenuSchedule
<1> QED BY <1>2, <1>3, <1>4, <1>5, ApplyKeeps

(* Assignments whose items are untouched keep joining what they joined. *)
LEMMA JoinsStay ==
  ASSUME NEW d1, NEW d2, AssignmentsJoin(d1),
         d2.items = d1.items, d2.assignments = d1.assignments,
         \A i \in ItemIds, a \in AllergenIds : d1.assignments[i, a] # NoRow =>
           /\ d2.allergens[a] # NoRow
           /\ d2.allergens[a].org = d1.allergens[a].org
           /\ d2.restaurants[d1.assignments[i, a].rest] # NoRow
           /\ d2.restaurants[d1.assignments[i, a].rest].org
                = d1.restaurants[d1.assignments[i, a].rest].org
  PROVE  AssignmentsJoin(d2)
<1> SUFFICES ASSUME NEW i \in ItemIds, NEW a \in AllergenIds, d2.assignments[i, a] # NoRow
             PROVE  /\ In(d2.items[i], d2.assignments[i, a].rest)
                    /\ d2.restaurants[d2.assignments[i, a].rest] # NoRow
                    /\ d2.restaurants[d2.assignments[i, a].rest].org
                         = d2.assignments[i, a].org
                    /\ d2.allergens[a] # NoRow
                    /\ d2.allergens[a].org = d2.assignments[i, a].org
  BY DEF AssignmentsJoin
<1>1. /\ In(d1.items[i], d1.assignments[i, a].rest)
      /\ d1.restaurants[d1.assignments[i, a].rest].org = d1.assignments[i, a].org
      /\ d1.allergens[a].org = d1.assignments[i, a].org
  BY DEF AssignmentsJoin
<1>2. /\ d2.allergens[a] # NoRow
      /\ d2.allergens[a].org = d1.allergens[a].org
      /\ d2.restaurants[d1.assignments[i, a].rest] # NoRow
      /\ d2.restaurants[d1.assignments[i, a].rest].org
           = d1.restaurants[d1.assignments[i, a].rest].org
  OBVIOUS
<1> QED BY <1>1, <1>2

LEMMA JoinsUntouched ==
  ASSUME NEW d1, NEW d2, AssignmentsJoin(d1),
         d2.items = d1.items, d2.assignments = d1.assignments,
         d2.allergens = d1.allergens, d2.restaurants = d1.restaurants
  PROVE  AssignmentsJoin(d2)
<1>1. ASSUME NEW i \in ItemIds, NEW a \in AllergenIds, d1.assignments[i, a] # NoRow
      PROVE  /\ d2.allergens[a] # NoRow
             /\ d2.allergens[a].org = d1.allergens[a].org
             /\ d2.restaurants[d1.assignments[i, a].rest] # NoRow
             /\ d2.restaurants[d1.assignments[i, a].rest].org
                  = d1.restaurants[d1.assignments[i, a].rest].org
  BY <1>1 DEF AssignmentsJoin
<1> QED BY <1>1, JoinsStay, Zenon

(* Allergens. *)
LEMMA CreateAllergenKeeps ==
  ASSUME IInv, NEW o \in Orgs, NEW a \in AllergenIds, NEW title \in Titles,
         CreateAllergen(o, a, title)
  PROVE  IInv'
<1> DEFINE row == [org |-> o, title |-> title]
           d == [db EXCEPT !.allergens[a] = row]
<1>1. db \in Tables /\ References(db)
  BY DEF IInv, TypeOK, ReferencesHold
<1>2. row \in AllergenRow /\ row # NoRow /\ row.org = o
  BY NoRowIsNoRow DEF AllergenRow
<1>3. d \in Tables
  BY <1>1, <1>2 DEF Tables
<1> HIDE DEF row
<1>4. References(d)
  <2>1. AssignmentsJoin(d)
    <3>1. /\ d.items = db.items /\ d.assignments = db.assignments
          /\ d.restaurants = db.restaurants
          /\ \A b \in AllergenIds \ {a} : d.allergens[b] = db.allergens[b]
      BY <1>1 DEF Tables
    <3>2. AssignmentsJoin(db) /\ db.allergens[a] = NoRow
      BY <1>1 DEF References, CreateAllergen
    <3>3. ASSUME NEW i \in ItemIds, NEW b \in AllergenIds, db.assignments[i, b] # NoRow
          PROVE  /\ b # a /\ db.allergens[b] # NoRow
                 /\ db.restaurants[db.assignments[i, b].rest] # NoRow
      BY <3>2, <3>3 DEF AssignmentsJoin
    <3> HIDE DEF d
    <3>4. ASSUME NEW i \in ItemIds, NEW b \in AllergenIds, db.assignments[i, b] # NoRow
          PROVE  /\ d.allergens[b] # NoRow
                 /\ d.allergens[b].org = db.allergens[b].org
                 /\ d.restaurants[db.assignments[i, b].rest] # NoRow
                 /\ d.restaurants[db.assignments[i, b].rest].org
                      = db.restaurants[db.assignments[i, b].rest].org
      BY <3>1, <3>3, <3>4
    <3> QED BY <3>1, <3>2, <3>4, JoinsStay, Zenon
  <2>2. RowsOfARestaurant(d) /\ SectionsUnderMenus(d)
       /\ EntriesUnderSections(d) /\ SchedulesUnderMenus(d)
    BY <1>1 DEF References, Tables,
      RowsOfARestaurant, SectionsUnderMenus, EntriesUnderSections, SchedulesUnderMenus
  <2> QED BY <2>1, <2>2 DEF References
<1>5. ASSUME NEW q \in Restaurants PROVE SameFor(db, d, q)
  BY <1>1, <1>2 DEF SameFor, SameRows, Tables, CreateAllergen, References, AssignmentsJoin, In
<1>6. Apply(o, d, {})
  BY DEF CreateAllergen, row
<1> QED BY <1>3, <1>4, <1>5, <1>6, ApplyKeeps

LEMMA UpdateAllergenKeeps ==
  ASSUME IInv, NEW o \in Orgs, NEW a \in AllergenIds, NEW title \in Titles,
         UpdateAllergen(o, a, title)
  PROVE  IInv'
<1> DEFINE row == [org |-> o, title |-> title]
           d == [db EXCEPT !.allergens[a] = row]
<1>1. db \in Tables /\ References(db)
  BY DEF IInv, TypeOK, ReferencesHold
<1>2. row \in AllergenRow /\ row # NoRow /\ row.org = o
  BY NoRowIsNoRow DEF AllergenRow
<1>3. d \in Tables
  BY <1>1, <1>2 DEF Tables
<1>4. db.allergens[a] # NoRow /\ db.allergens[a].org = o
  BY DEF UpdateAllergen
<1>5. Apply(o, d, RestaurantsUsing(a))
  BY DEF UpdateAllergen
<1> HIDE DEF row
<1>6. References(d)
  <2>1. AssignmentsJoin(d)
    <3> SUFFICES ASSUME NEW i \in ItemIds, NEW b \in AllergenIds,
                        d.assignments[i, b] # NoRow
                 PROVE  /\ In(d.items[i], d.assignments[i, b].rest)
                        /\ d.restaurants[d.assignments[i, b].rest] # NoRow
                        /\ d.restaurants[d.assignments[i, b].rest].org
                             = d.assignments[i, b].org
                        /\ d.allergens[b] # NoRow
                        /\ d.allergens[b].org = d.assignments[i, b].org
      BY DEF AssignmentsJoin
    <3>1. /\ d.items = db.items /\ d.assignments = db.assignments
          /\ d.restaurants = db.restaurants
          /\ d.allergens[b] = IF b = a THEN row ELSE db.allergens[b]
      BY <1>1 DEF Tables
    <3>2. /\ In(db.items[i], db.assignments[i, b].rest)
          /\ db.restaurants[db.assignments[i, b].rest] # NoRow
          /\ db.restaurants[db.assignments[i, b].rest].org = db.assignments[i, b].org
          /\ db.allergens[b] # NoRow
          /\ db.allergens[b].org = db.assignments[i, b].org
      BY <1>1, <3>1 DEF References, AssignmentsJoin
    <3> QED BY <1>2, <1>4, <3>1, <3>2
  <2>2. RowsOfARestaurant(d) /\ SectionsUnderMenus(d)
       /\ EntriesUnderSections(d) /\ SchedulesUnderMenus(d)
    BY <1>1 DEF References, Tables,
      RowsOfARestaurant, SectionsUnderMenus, EntriesUnderSections, SchedulesUnderMenus
  <2> QED BY <2>1, <2>2 DEF References
<1>7. ASSUME NEW q \in Restaurants \ RestaurantsUsing(a) PROVE SameFor(db, d, q)
  <2>1. ASSUME NEW i \in ItemIds, NEW b \in AllergenIds, In(db.items[i], q),
               db.assignments[i, b] # NoRow
        PROVE  db.allergens[b] = d.allergens[b]
    <3>1. In(db.items[i], db.assignments[i, b].rest)
      BY <1>1, <2>1 DEF References, AssignmentsJoin
    <3>2. In(db.assignments[i, b], q)
      BY <2>1, <3>1 DEF In
    <3>3. b # a
      BY <3>2 DEF RestaurantsUsing
    <3> QED BY <1>1, <3>3 DEF Tables
  <2> QED BY <1>1, <2>1 DEF SameFor, SameRows, Tables
<1>8. RestaurantsUsing(a) \in SUBSET Restaurants
  BY DEF RestaurantsUsing
<1> QED BY <1>3, <1>5, <1>6, <1>7, <1>8, ApplyKeeps

LEMMA DeleteAllergenKeeps ==
  ASSUME IInv, NEW o \in Orgs, NEW a \in AllergenIds, DeleteAllergen(o, a)
  PROVE  IInv'
<1> DEFINE d == [db EXCEPT !.allergens[a] = NoRow]
<1>1. db \in Tables /\ References(db)
  BY DEF IInv, TypeOK, ReferencesHold
<1>2. d \in Tables
  BY <1>1 DEF Tables
<1>3. References(d)
  <2>1. AssignmentsJoin(d)
    <3>1. /\ d.items = db.items /\ d.assignments = db.assignments
          /\ d.restaurants = db.restaurants
          /\ \A b \in AllergenIds \ {a} : d.allergens[b] = db.allergens[b]
      BY <1>1 DEF Tables
    <3>2. AssignmentsJoin(db) /\ \A i \in ItemIds : db.assignments[i, a] = NoRow
      BY <1>1 DEF References, DeleteAllergen
    <3>3. ASSUME NEW i \in ItemIds, NEW b \in AllergenIds, db.assignments[i, b] # NoRow
          PROVE  /\ b # a /\ db.allergens[b] # NoRow
                 /\ db.restaurants[db.assignments[i, b].rest] # NoRow
      BY <3>2, <3>3 DEF AssignmentsJoin
    <3> HIDE DEF d
    <3>4. ASSUME NEW i \in ItemIds, NEW b \in AllergenIds, db.assignments[i, b] # NoRow
          PROVE  /\ d.allergens[b] # NoRow
                 /\ d.allergens[b].org = db.allergens[b].org
                 /\ d.restaurants[db.assignments[i, b].rest] # NoRow
                 /\ d.restaurants[db.assignments[i, b].rest].org
                      = db.restaurants[db.assignments[i, b].rest].org
      BY <3>1, <3>3, <3>4
    <3> QED BY <3>1, <3>2, <3>4, JoinsStay, Zenon
  <2>2. RowsOfARestaurant(d) /\ SectionsUnderMenus(d)
       /\ EntriesUnderSections(d) /\ SchedulesUnderMenus(d)
    BY <1>1 DEF References, Tables,
      RowsOfARestaurant, SectionsUnderMenus, EntriesUnderSections, SchedulesUnderMenus
  <2> QED BY <2>1, <2>2 DEF References
<1>4. ASSUME NEW q \in Restaurants PROVE SameFor(db, d, q)
  BY <1>1 DEF SameFor, SameRows, Tables, DeleteAllergen, In
<1>5. Apply(o, d, {})
  BY DEF DeleteAllergen
<1> QED BY <1>2, <1>3, <1>4, <1>5, ApplyKeeps

(* Restaurants. *)
LEMMA CreateRestaurantKeeps ==
  ASSUME IInv, NEW o \in Orgs, NEW r \in Restaurants, NEW title \in Titles,
         NEW status \in Statuses, CreateRestaurant(o, r, title, status)
  PROVE  IInv'
<1> DEFINE row == [org |-> o, title |-> title, status |-> status]
           d == [db EXCEPT !.restaurants[r] = row]
<1>1. db \in Tables /\ References(db)
  BY DEF IInv, TypeOK, ReferencesHold
<1>2. row \in RestaurantRow /\ row # NoRow
  BY NoRowIsNoRow DEF RestaurantRow
<1>3. d \in Tables
  BY <1>1, <1>2 DEF Tables
<1>4. db.restaurants[r] = NoRow /\ Apply(o, d, {r})
  BY DEF CreateRestaurant
<1> HIDE DEF row
<1>5. References(d)
  <2>1. RowsOfARestaurant(d)
    BY <1>1, <1>2 DEF References, RowsOfARestaurant, Tables
  <2>2. AssignmentsJoin(d)
    <3>1. /\ d.items = db.items /\ d.assignments = db.assignments
          /\ d.allergens = db.allergens
          /\ \A q \in Restaurants \ {r} : d.restaurants[q] = db.restaurants[q]
      BY <1>1 DEF Tables
    <3>2. AssignmentsJoin(db)
      BY <1>1 DEF References
    <3>3. ASSUME NEW i \in ItemIds, NEW b \in AllergenIds, db.assignments[i, b] # NoRow
          PROVE  /\ db.allergens[b] # NoRow
                 /\ db.restaurants[db.assignments[i, b].rest] # NoRow
                 /\ db.assignments[i, b].rest \in Restaurants \ {r}
      <4>1. db.assignments[i, b] \in AssignmentRow
        BY <1>1, <3>3 DEF Tables
      <4> QED BY <1>4, <3>2, <3>3, <4>1 DEF AssignmentsJoin, AssignmentRow
    <3> HIDE DEF d
    <3>4. ASSUME NEW i \in ItemIds, NEW b \in AllergenIds, db.assignments[i, b] # NoRow
          PROVE  /\ d.allergens[b] # NoRow
                 /\ d.allergens[b].org = db.allergens[b].org
                 /\ d.restaurants[db.assignments[i, b].rest] # NoRow
                 /\ d.restaurants[db.assignments[i, b].rest].org
                      = db.restaurants[db.assignments[i, b].rest].org
      BY <3>1, <3>3, <3>4
    <3> QED BY <3>1, <3>2, <3>4, JoinsStay, Zenon
  <2>3. SectionsUnderMenus(d) /\ EntriesUnderSections(d) /\ SchedulesUnderMenus(d)
    BY <1>1 DEF References, Tables, SectionsUnderMenus, EntriesUnderSections,
                SchedulesUnderMenus
  <2> QED BY <2>1, <2>2, <2>3 DEF References
<1>6. ASSUME NEW q \in Restaurants \ {r} PROVE SameFor(db, d, q)
  BY <1>1 DEF SameFor, SameRows, Tables
<1> QED BY <1>3, <1>4, <1>5, <1>6, ApplyKeeps

LEMMA UpdateRestaurantKeeps ==
  ASSUME IInv, NEW o \in Orgs, NEW r \in Restaurants, NEW title \in Titles,
         NEW status \in Statuses, UpdateRestaurant(o, r, title, status)
  PROVE  IInv'
<1> DEFINE row == [db.restaurants[r] EXCEPT !.title = title, !.status = status]
           d == [db EXCEPT !.restaurants[r] = row]
<1>1. db \in Tables /\ References(db)
  BY DEF IInv, TypeOK, ReferencesHold
<1>2. db.restaurants[r] \in RestaurantRow
  BY <1>1 DEF Tables, UpdateRestaurant, Owned
<1>3. row \in RestaurantRow /\ row.org = db.restaurants[r].org
  BY <1>2 DEF RestaurantRow
<1>4. row # NoRow
  BY <1>3, NoRowIsNoRow
<1>5. d \in Tables
  BY <1>1, <1>3 DEF Tables
<1>6. Apply(o, d, {r})
  <2>1. d = [db EXCEPT !.restaurants[r].title = title,
                       !.restaurants[r].status = status]
    BY <1>1 DEF Tables
  <2> QED BY <2>1 DEF UpdateRestaurant
<1> HIDE DEF row
<1>7. References(d)
  <2>1. RowsOfARestaurant(d)
    BY <1>1, <1>4 DEF References, RowsOfARestaurant, Tables
  <2>2. AssignmentsJoin(d)
    <3>1. /\ d.items = db.items /\ d.assignments = db.assignments
          /\ d.allergens = db.allergens
          /\ \A q \in Restaurants :
               d.restaurants[q] = IF q = r THEN row ELSE db.restaurants[q]
      BY <1>1 DEF Tables
    <3>2. AssignmentsJoin(db)
      BY <1>1 DEF References
    <3>3. ASSUME NEW i \in ItemIds, NEW b \in AllergenIds, db.assignments[i, b] # NoRow
          PROVE  /\ db.allergens[b] # NoRow
                 /\ db.restaurants[db.assignments[i, b].rest] # NoRow
                 /\ db.assignments[i, b].rest \in Restaurants
      <4>1. db.assignments[i, b] \in AssignmentRow
        BY <1>1, <3>3 DEF Tables
      <4> QED BY <3>2, <3>3, <4>1 DEF AssignmentsJoin, AssignmentRow
    <3> HIDE DEF d
    <3>4. ASSUME NEW i \in ItemIds, NEW b \in AllergenIds, db.assignments[i, b] # NoRow
          PROVE  /\ d.allergens[b] # NoRow
                 /\ d.allergens[b].org = db.allergens[b].org
                 /\ d.restaurants[db.assignments[i, b].rest] # NoRow
                 /\ d.restaurants[db.assignments[i, b].rest].org
                      = db.restaurants[db.assignments[i, b].rest].org
      BY <1>3, <1>4, <3>1, <3>3, <3>4
    <3> QED BY <3>1, <3>2, <3>4, JoinsStay, Zenon
  <2>3. SectionsUnderMenus(d) /\ EntriesUnderSections(d) /\ SchedulesUnderMenus(d)
    BY <1>1 DEF References, Tables, SectionsUnderMenus, EntriesUnderSections,
                SchedulesUnderMenus
  <2> QED BY <2>1, <2>2, <2>3 DEF References
<1>8. ASSUME NEW q \in Restaurants \ {r} PROVE SameFor(db, d, q)
  BY <1>1 DEF SameFor, SameRows, Tables
<1> QED BY <1>5, <1>6, <1>7, <1>8, ApplyKeeps

LEMMA DeleteRestaurantKeeps ==
  ASSUME IInv, NEW o \in Orgs, NEW r \in Restaurants, DeleteRestaurant(o, r)
  PROVE  IInv'
<1> DEFINE d == [db EXCEPT !.restaurants[r] = NoRow,
                           !.hours = Without(@, r),
                           !.specials = Without(@, r),
                           !.menus = Without(@, r),
                           !.sections = Without(@, r),
                           !.entries = Without(@, r),
                           !.items = Without(@, r),
                           !.assignments = Without(@, r)]
<1>1. db \in Tables /\ References(db)
  BY DEF IInv, TypeOK, ReferencesHold
<1>2. d \in Tables
  BY <1>1 DEF Tables, Without
<1>3. Apply(o, d, {r}) /\ \A c \in ScheduleIds : ~In(db.schedules[c], r)
  BY DEF DeleteRestaurant
<1>4. /\ d.restaurants = [db.restaurants EXCEPT ![r] = NoRow]
      /\ d.hours = Without(db.hours, r) /\ d.specials = Without(db.specials, r)
      /\ d.menus = Without(db.menus, r) /\ d.sections = Without(db.sections, r)
      /\ d.entries = Without(db.entries, r) /\ d.items = Without(db.items, r)
      /\ d.assignments = Without(db.assignments, r)
      /\ d.allergens = db.allergens /\ d.schedules = db.schedules
  BY <1>1 DEF Tables
<1> HIDE DEF d
<1>5. ASSUME NEW i \in ItemIds, NEW a \in AllergenIds
      PROVE  /\ db.assignments[i, a] \in AssignmentRow \cup {NoRow}
             /\ d.assignments[i, a] = IF In(db.assignments[i, a], r) THEN NoRow
                                      ELSE db.assignments[i, a]
  <2>1. <<i, a>> \in DOMAIN db.assignments
    BY <1>1 DEF Tables
  <2>2. db.assignments[i, a] \in AssignmentRow \cup {NoRow}
    BY <1>1 DEF Tables
  <2> QED BY <1>4, <2>1, <2>2 DEF Without
<1>6. ASSUME NEW i \in ItemIds
      PROVE  d.items[i] = IF In(db.items[i], r) THEN NoRow ELSE db.items[i]
  BY <1>1, <1>4 DEF Tables, Without
<1>7. References(d)
  <2>1. RowsOfARestaurant(d)
    <3>1. ASSUME NEW h \in HourIds, d.hours[h] # NoRow
          PROVE  d.restaurants[d.hours[h].rest] # NoRow
      <4>1. d.hours[h] = db.hours[h] /\ db.hours[h] \in HourRow /\ db.hours[h].rest # r
        BY <1>1, <1>4, <3>1 DEF Tables, Without, In
      <4> QED BY <1>1, <1>4, <3>1, <4>1
            DEF References, RowsOfARestaurant, Tables, HourRow
    <3>2. ASSUME NEW p \in SpecialIds, d.specials[p] # NoRow
          PROVE  d.restaurants[d.specials[p].rest] # NoRow
      <4>1. /\ d.specials[p] = db.specials[p] /\ db.specials[p] \in SpecialRow
            /\ db.specials[p].rest # r
        BY <1>1, <1>4, <3>2 DEF Tables, Without, In
      <4> QED BY <1>1, <1>4, <3>2, <4>1
            DEF References, RowsOfARestaurant, Tables, SpecialRow
    <3>3. ASSUME NEW m \in MenuIds, d.menus[m] # NoRow
          PROVE  d.restaurants[d.menus[m].rest] # NoRow
      <4>1. d.menus[m] = db.menus[m] /\ db.menus[m] \in MenuRow /\ db.menus[m].rest # r
        BY <1>1, <1>4, <3>3 DEF Tables, Without, In
      <4> QED BY <1>1, <1>4, <3>3, <4>1
            DEF References, RowsOfARestaurant, Tables, MenuRow
    <3>4. ASSUME NEW i \in ItemIds, d.items[i] # NoRow
          PROVE  d.restaurants[d.items[i].rest] # NoRow
      <4>1. d.items[i] = db.items[i] /\ db.items[i] \in ItemRow /\ db.items[i].rest # r
        BY <1>1, <1>4, <3>4 DEF Tables, Without, In
      <4> QED BY <1>1, <1>4, <3>4, <4>1
            DEF References, RowsOfARestaurant, Tables, ItemRow
    <3> QED BY <3>1, <3>2, <3>3, <3>4 DEF RowsOfARestaurant
  <2>2. SectionsUnderMenus(d)
    <3> SUFFICES ASSUME NEW s \in SectionIds, d.sections[s] # NoRow
                 PROVE  In(d.menus[d.sections[s].menu], d.sections[s].rest)
      BY DEF SectionsUnderMenus
    <3>1. d.sections[s] = db.sections[s] /\ db.sections[s] \in SectionRow
      BY <1>1, <1>4 DEF Tables, Without
    <3>2. db.sections[s].rest # r
      BY <1>1, <1>4, <3>1 DEF Tables, Without, In
    <3>3. db.sections[s].menu \in MenuIds
      BY <3>1 DEF SectionRow
    <3>4. In(db.menus[db.sections[s].menu], db.sections[s].rest)
      BY <1>1, <3>1 DEF References, SectionsUnderMenus
    <3>5. d.menus[db.sections[s].menu] = db.menus[db.sections[s].menu]
      BY <1>1, <1>4, <3>2, <3>3, <3>4 DEF Tables, Without, In
    <3> QED BY <3>1, <3>4, <3>5
  <2>3. EntriesUnderSections(d)
    <3> SUFFICES ASSUME NEW e \in EntryIds, d.entries[e] # NoRow
                 PROVE  /\ In(d.sections[d.entries[e].section], d.entries[e].rest)
                        /\ In(d.items[d.entries[e].item], d.entries[e].rest)
      BY DEF EntriesUnderSections
    <3>1. d.entries[e] = db.entries[e] /\ db.entries[e] \in EntryRow
      BY <1>1, <1>4 DEF Tables, Without
    <3>2. db.entries[e].rest # r
      BY <1>1, <1>4, <3>1 DEF Tables, Without, In
    <3>3. db.entries[e].section \in SectionIds /\ db.entries[e].item \in ItemIds
      BY <3>1 DEF EntryRow
    <3>4. /\ In(db.sections[db.entries[e].section], db.entries[e].rest)
          /\ In(db.items[db.entries[e].item], db.entries[e].rest)
      BY <1>1, <3>1 DEF References, EntriesUnderSections
    <3>5. d.sections[db.entries[e].section] = db.sections[db.entries[e].section]
      BY <1>1, <1>4, <3>2, <3>3, <3>4 DEF Tables, Without, In
    <3>6. d.items[db.entries[e].item] = db.items[db.entries[e].item]
      BY <1>6, <3>2, <3>3, <3>4 DEF In
    <3> QED BY <3>1, <3>4, <3>5, <3>6
  <2>4. AssignmentsJoin(d)
    <3> SUFFICES ASSUME NEW i \in ItemIds, NEW a \in AllergenIds,
                        d.assignments[i, a] # NoRow
                 PROVE  /\ In(d.items[i], d.assignments[i, a].rest)
                        /\ d.restaurants[d.assignments[i, a].rest] # NoRow
                        /\ d.restaurants[d.assignments[i, a].rest].org
                             = d.assignments[i, a].org
                        /\ d.allergens[a] # NoRow
                        /\ d.allergens[a].org = d.assignments[i, a].org
      BY DEF AssignmentsJoin
    <3>1. /\ d.assignments[i, a] = db.assignments[i, a]
          /\ db.assignments[i, a] \in AssignmentRow
          /\ db.assignments[i, a].rest # r
      <4>1. CASE In(db.assignments[i, a], r)
        BY <1>5, <4>1
      <4>2. CASE ~In(db.assignments[i, a], r)
        <5>1. d.assignments[i, a] = db.assignments[i, a]
          BY <1>5, <4>2
        <5>2. db.assignments[i, a] # NoRow
          BY <5>1
        <5> QED BY <1>5, <4>2, <5>1, <5>2 DEF In
      <4> QED BY <4>1, <4>2
    <3>2. db.assignments[i, a].rest \in Restaurants
      BY <3>1 DEF AssignmentRow
    <3>3. /\ In(db.items[i], db.assignments[i, a].rest)
          /\ db.restaurants[db.assignments[i, a].rest] # NoRow
          /\ db.restaurants[db.assignments[i, a].rest].org = db.assignments[i, a].org
          /\ db.allergens[a] # NoRow
          /\ db.allergens[a].org = db.assignments[i, a].org
      BY <1>1, <3>1 DEF References, AssignmentsJoin
    <3>4. d.items[i] = db.items[i]
      BY <1>6, <3>1, <3>3 DEF In
    <3>5. d.restaurants[db.assignments[i, a].rest] = db.restaurants[db.assignments[i, a].rest]
      BY <1>1, <1>4, <3>1, <3>2 DEF Tables
    <3> QED BY <1>4, <3>1, <3>3, <3>4, <3>5
  <2>5. SchedulesUnderMenus(d)
    BY <1>1, <1>3, <1>4 DEF References, SchedulesUnderMenus, Tables, ScheduleRow,
                            Without, In
  <2> QED BY <2>1, <2>2, <2>3, <2>4, <2>5 DEF References
<1>8. ASSUME NEW q \in Restaurants \ {r} PROVE SameFor(db, d, q)
  <2>1. ASSUME NEW t, NEW u, u = Without(t, r)
        PROVE  SameRows(t, u, q)
    BY <2>1 DEF SameRows, Without, In
  <2>2. ASSUME NEW i \in ItemIds, NEW a \in AllergenIds, In(db.items[i], q)
        PROVE  db.assignments[i, a] = d.assignments[i, a]
    <3>1. CASE db.assignments[i, a] = NoRow
      BY <1>5, <3>1
    <3>2. CASE db.assignments[i, a] # NoRow
      <4>1. In(db.items[i], db.assignments[i, a].rest)
        BY <1>1, <3>2 DEF References, AssignmentsJoin
      <4> QED BY <1>5, <2>2, <4>1 DEF In
    <3> QED BY <3>1, <3>2
  <2>3. db.restaurants[q] = d.restaurants[q]
    BY <1>1, <1>4 DEF Tables
  <2> QED BY <1>4, <2>1, <2>2, <2>3 DEF SameFor
<1> QED BY <1>2, <1>3, <1>7, <1>8, ApplyKeeps

(* The cascade from sections: rows of one restaurant go, with everything
   under them. *)
LEMMA DeleteMenuKeeps ==
  ASSUME IInv, NEW o \in Orgs, NEW r \in Restaurants, NEW m \in MenuIds,
         DeleteMenu(o, r, m)
  PROVE  IInv'
<1> DEFINE d == [WithoutSections(db, SectionsOf(m)) EXCEPT !.menus[m] = NoRow]
<1>1. db \in Tables /\ References(db)
  BY DEF IInv, TypeOK, ReferencesHold
<1>2. d \in Tables
  BY <1>1 DEF Tables, WithoutSections
<1>3. /\ Apply(o, d, {r}) /\ In(db.menus[m], r)
      /\ \A c \in ScheduleIds : db.schedules[c] # NoRow => db.schedules[c].menu # m
  BY DEF DeleteMenu
<1>4. References(d)
  <2>1. RowsOfARestaurant(d)
    BY <1>1 DEF References, RowsOfARestaurant, Tables, WithoutSections
  <2>2. SectionsUnderMenus(d)
    BY <1>1 DEF References, SectionsUnderMenus, Tables, WithoutSections, SectionsOf, In
  <2>3. EntriesUnderSections(d)
    BY <1>1 DEF References, EntriesUnderSections, Tables, EntryRow, WithoutSections, In
  <2>4. AssignmentsJoin(d)
    <3>1. /\ d.items = db.items /\ d.assignments = db.assignments
          /\ d.allergens = db.allergens /\ d.restaurants = db.restaurants
      BY <1>1 DEF Tables, WithoutSections
    <3> HIDE DEF d
    <3>2. AssignmentsJoin(db)
      BY <1>1 DEF References
    <3> QED BY <3>1, <3>2, JoinsUntouched
  <2>5. SchedulesUnderMenus(d)
    BY <1>1, <1>3 DEF References, SchedulesUnderMenus, Tables, WithoutSections, In
  <2> QED BY <2>1, <2>2, <2>3, <2>4, <2>5 DEF References
<1>5. ASSUME NEW q \in Restaurants \ {r} PROVE SameFor(db, d, q)
  <2>1. ASSUME NEW s \in SectionsOf(m) PROVE In(db.sections[s], r)
    BY <1>1, <1>3 DEF SectionsOf, References, SectionsUnderMenus, In
  <2>2. ASSUME NEW e \in EntryIds, db.entries[e] # NoRow,
               db.entries[e].section \in SectionsOf(m)
        PROVE  In(db.entries[e], r)
    BY <1>1, <2>1, <2>2 DEF References, EntriesUnderSections, In
  <2>3. SameRows(db.sections, d.sections, q)
    BY <1>1, <2>1 DEF SameRows, Tables, WithoutSections, In
  <2>4. SameRows(db.entries, d.entries, q)
    BY <1>1, <2>2 DEF SameRows, Tables, WithoutSections, In
  <2>5. SameRows(db.menus, d.menus, q)
    BY <1>1, <1>3 DEF SameRows, Tables, WithoutSections, In
  <2> QED BY <1>1, <2>3, <2>4, <2>5 DEF SameFor, SameRows, Tables, WithoutSections
<1> QED BY <1>2, <1>3, <1>4, <1>5, ApplyKeeps

LEMMA DeleteMenuSectionKeeps ==
  ASSUME IInv, NEW o \in Orgs, NEW r \in Restaurants, NEW m \in MenuIds,
         NEW s \in SectionIds, DeleteMenuSection(o, r, m, s)
  PROVE  IInv'
<1> DEFINE d == WithoutSections(db, {s})
<1>1. db \in Tables /\ References(db)
  BY DEF IInv, TypeOK, ReferencesHold
<1>2. d \in Tables
  BY <1>1 DEF Tables, WithoutSections
<1>3. Apply(o, d, {r}) /\ In(db.sections[s], r)
  BY DEF DeleteMenuSection
<1>4. References(d)
  <2>1. SectionsUnderMenus(d)
    BY <1>1 DEF References, SectionsUnderMenus, Tables, WithoutSections, In
  <2>2. EntriesUnderSections(d)
    BY <1>1 DEF References, EntriesUnderSections, Tables, EntryRow, WithoutSections, In
  <2>3. RowsOfARestaurant(d) /\ AssignmentsJoin(d) /\ SchedulesUnderMenus(d)
    <3>1. /\ d.hours = db.hours /\ d.specials = db.specials /\ d.menus = db.menus
          /\ d.items = db.items /\ d.assignments = db.assignments
          /\ d.schedules = db.schedules
          /\ d.allergens = db.allergens /\ d.restaurants = db.restaurants
      BY <1>1 DEF Tables, WithoutSections
    <3> HIDE DEF d
    <3>2. RowsOfARestaurant(d)
      BY <1>1, <3>1 DEF References, RowsOfARestaurant
    <3>3. AssignmentsJoin(d)
      <4>1. AssignmentsJoin(db)
        BY <1>1 DEF References
      <4> QED BY <3>1, <4>1, JoinsUntouched
    <3>4. SchedulesUnderMenus(d)
      BY <1>1, <3>1 DEF References, SchedulesUnderMenus
    <3> QED BY <3>2, <3>3, <3>4
  <2> QED BY <2>1, <2>2, <2>3 DEF References
<1>5. ASSUME NEW q \in Restaurants \ {r} PROVE SameFor(db, d, q)
  BY <1>1, <1>3 DEF SameFor, SameRows, Tables, WithoutSections, In,
                    References, EntriesUnderSections
<1> QED BY <1>2, <1>3, <1>4, <1>5, ApplyKeeps

(* Items: creation and update write the same rows. *)
LEMMA WriteItemKeeps ==
  ASSUME IInv, NEW o \in Orgs, NEW r \in Restaurants, NEW i \in ItemIds,
         NEW title \in Titles, NEW status \in Statuses,
         NEW given \in [AllergenIds -> Relationships \cup {NoRow}],
         Owned(o, r), db.items[i] = NoRow \/ In(db.items[i], r),
         KnownAllergens(o, given), WriteItem(o, r, i, title, status, given)
  PROVE  IInv'
<1> DEFINE row == [rest |-> r, title |-> title, status |-> status]
           d == [db EXCEPT !.items[i] = row, !.assignments = Reassigned(o, r, i, given)]
<1>1. db \in Tables /\ References(db)
  BY DEF IInv, TypeOK, ReferencesHold
<1>2. row \in ItemRow /\ row # NoRow /\ row.rest = r
  BY NoRowIsNoRow DEF ItemRow
<1>3. Apply(o, d, {r})
  BY DEF WriteItem
<1> HIDE DEF row
<1>4. ASSUME NEW j \in ItemIds, NEW a \in AllergenIds
      PROVE  Reassigned(o, r, i, given)[j, a]
             = IF j # i THEN db.assignments[j, a]
               ELSE IF given[a] = NoRow THEN NoRow
               ELSE [rest |-> r, org |-> o, rel |-> given[a]]
  BY DEF Reassigned
<1>5. Reassigned(o, r, i, given) \in [ItemIds \X AllergenIds -> AssignmentRow \cup {NoRow}]
  <2>1. ASSUME NEW p \in ItemIds \X AllergenIds
        PROVE  (IF p[1] # i THEN db.assignments[p]
                ELSE IF given[p[2]] = NoRow THEN NoRow
                ELSE [rest |-> r, org |-> o, rel |-> given[p[2]]])
               \in AssignmentRow \cup {NoRow}
    <3>1. db.assignments[p] \in AssignmentRow \cup {NoRow}
      BY <1>1 DEF Tables
    <3>2. given[p[2]] # NoRow => given[p[2]] \in Relationships
      OBVIOUS
    <3> QED BY <3>1, <3>2 DEF AssignmentRow
  <2> QED BY <2>1 DEF Reassigned
<1>6. d \in Tables
  BY <1>1, <1>2, <1>5 DEF Tables
<1>7. /\ d.assignments = Reassigned(o, r, i, given)
      /\ d.items = [db.items EXCEPT ![i] = row]
      /\ d.restaurants = db.restaurants /\ d.allergens = db.allergens
      /\ d.hours = db.hours /\ d.specials = db.specials /\ d.menus = db.menus
      /\ d.sections = db.sections /\ d.entries = db.entries
      /\ d.schedules = db.schedules
  BY <1>1 DEF Tables
<1> HIDE DEF d
<1>8. References(d)
  <2>1. RowsOfARestaurant(d)
    BY <1>1, <1>2, <1>7 DEF References, RowsOfARestaurant, Tables, Owned
  <2>2. EntriesUnderSections(d)
    BY <1>1, <1>2, <1>7 DEF References, EntriesUnderSections, Tables, EntryRow, In
  <2>3. AssignmentsJoin(d)
    <3> SUFFICES ASSUME NEW j \in ItemIds, NEW a \in AllergenIds,
                        d.assignments[j, a] # NoRow
                 PROVE  /\ In(d.items[j], d.assignments[j, a].rest)
                        /\ d.restaurants[d.assignments[j, a].rest] # NoRow
                        /\ d.restaurants[d.assignments[j, a].rest].org
                             = d.assignments[j, a].org
                        /\ d.allergens[a] # NoRow
                        /\ d.allergens[a].org = d.assignments[j, a].org
      BY DEF AssignmentsJoin
    <3>1. CASE j = i
      <4>0. d.assignments[j, a] = IF given[a] = NoRow THEN NoRow
                                  ELSE [rest |-> r, org |-> o, rel |-> given[a]]
        BY <1>4, <1>7, <3>1
      <4>1. /\ given[a] # NoRow
            /\ d.assignments[j, a].rest = r /\ d.assignments[j, a].org = o
        <5>1. given[a] # NoRow
          BY <4>0
        <5>2. d.assignments[j, a] = [rest |-> r, org |-> o, rel |-> given[a]]
          BY <4>0, <5>1
        <5>3. [rest |-> r, org |-> o, rel |-> given[a]].rest = r
              /\ [rest |-> r, org |-> o, rel |-> given[a]].org = o
          OBVIOUS
        <5> QED BY <5>1, <5>2, <5>3
      <4>2. db.allergens[a] # NoRow /\ db.allergens[a].org = o
        BY <4>1 DEF KnownAllergens
      <4>3. In(d.items[j], r)
        BY <1>1, <1>2, <1>7, <3>1 DEF In, Tables
      <4> QED BY <1>7, <4>1, <4>2, <4>3 DEF Owned
    <3>2. CASE j # i
      <4>1. d.assignments[j, a] = db.assignments[j, a]
        BY <1>4, <1>7, <3>2
      <4>2. d.items[j] = db.items[j]
        BY <1>1, <1>7, <3>2 DEF Tables
      <4>3. db.assignments[j, a] # NoRow
        BY <4>1
      <4>4. /\ In(db.items[j], db.assignments[j, a].rest)
            /\ db.restaurants[db.assignments[j, a].rest] # NoRow
            /\ db.restaurants[db.assignments[j, a].rest].org = db.assignments[j, a].org
            /\ db.allergens[a] # NoRow
            /\ db.allergens[a].org = db.assignments[j, a].org
        BY <1>1, <4>3 DEF References, AssignmentsJoin
      <4> QED BY <1>7, <4>1, <4>2, <4>4
    <3> QED BY <3>1, <3>2
  <2>4. SectionsUnderMenus(d) /\ SchedulesUnderMenus(d)
    BY <1>1, <1>7 DEF References, SectionsUnderMenus, SchedulesUnderMenus
  <2> QED BY <2>1, <2>2, <2>3, <2>4 DEF References
<1>9. ASSUME NEW q \in Restaurants \ {r} PROVE SameFor(db, d, q)
  <2>1. SameRows(db.items, d.items, q)
    BY <1>1, <1>2, <1>7 DEF SameRows, Tables, In
  <2>2. ASSUME NEW j \in ItemIds, NEW a \in AllergenIds, In(db.items[j], q)
        PROVE  db.assignments[j, a] = d.assignments[j, a]
    <3>1. j # i
      BY <2>2 DEF In
    <3> QED BY <1>4, <1>7, <3>1
  <2> QED BY <1>7, <2>1, <2>2 DEF SameFor, SameRows
<1> QED BY <1>3, <1>6, <1>8, <1>9, ApplyKeeps

LEMMA DeleteCatalogItemKeeps ==
  ASSUME IInv, NEW o \in Orgs, NEW r \in Restaurants, NEW i \in ItemIds,
         DeleteCatalogItem(o, r, i)
  PROVE  IInv'
<1> DEFINE kept == [p \in ItemIds \X AllergenIds |->
                      IF p[1] = i THEN NoRow ELSE db.assignments[p]]
           d == [db EXCEPT !.items[i] = NoRow, !.assignments = kept]
<1>1. db \in Tables /\ References(db)
  BY DEF IInv, TypeOK, ReferencesHold
<1>2. /\ Apply(o, d, {r}) /\ In(db.items[i], r)
      /\ \A e \in EntryIds : db.entries[e] # NoRow => db.entries[e].item # i
  BY DEF DeleteCatalogItem
<1>3. ASSUME NEW j \in ItemIds, NEW a \in AllergenIds
      PROVE  kept[j, a] = IF j = i THEN NoRow ELSE db.assignments[j, a]
  OBVIOUS
<1>4. kept \in [ItemIds \X AllergenIds -> AssignmentRow \cup {NoRow}]
  BY <1>1 DEF Tables
<1> HIDE DEF kept
<1>5. d \in Tables
  BY <1>1, <1>4 DEF Tables
<1>6. /\ d.assignments = kept /\ d.items = [db.items EXCEPT ![i] = NoRow]
      /\ d.restaurants = db.restaurants /\ d.allergens = db.allergens
      /\ d.hours = db.hours /\ d.specials = db.specials /\ d.menus = db.menus
      /\ d.sections = db.sections /\ d.entries = db.entries
      /\ d.schedules = db.schedules
  BY <1>1 DEF Tables
<1> HIDE DEF d
<1>7. References(d)
  <2>1. RowsOfARestaurant(d)
    BY <1>1, <1>6 DEF References, RowsOfARestaurant, Tables
  <2>2. EntriesUnderSections(d)
    BY <1>1, <1>2, <1>6 DEF References, EntriesUnderSections, Tables, EntryRow, In
  <2>3. AssignmentsJoin(d)
    <3> SUFFICES ASSUME NEW j \in ItemIds, NEW a \in AllergenIds,
                        d.assignments[j, a] # NoRow
                 PROVE  /\ In(d.items[j], d.assignments[j, a].rest)
                        /\ d.restaurants[d.assignments[j, a].rest] # NoRow
                        /\ d.restaurants[d.assignments[j, a].rest].org
                             = d.assignments[j, a].org
                        /\ d.allergens[a] # NoRow
                        /\ d.allergens[a].org = d.assignments[j, a].org
      BY DEF AssignmentsJoin
    <3>1. j # i /\ d.assignments[j, a] = db.assignments[j, a]
      <4>1. d.assignments[j, a] = IF j = i THEN NoRow ELSE db.assignments[j, a]
        BY <1>3, <1>6
      <4> QED BY <4>1
    <3>2. d.items[j] = db.items[j]
      BY <1>1, <1>6, <3>1 DEF Tables
    <3>3. db.assignments[j, a] # NoRow
      BY <3>1
    <3>4. /\ In(db.items[j], db.assignments[j, a].rest)
          /\ db.restaurants[db.assignments[j, a].rest] # NoRow
          /\ db.restaurants[db.assignments[j, a].rest].org = db.assignments[j, a].org
          /\ db.allergens[a] # NoRow
          /\ db.allergens[a].org = db.assignments[j, a].org
      BY <1>1, <3>3 DEF References, AssignmentsJoin
    <3> QED BY <1>6, <3>1, <3>2, <3>4
  <2>4. SectionsUnderMenus(d) /\ SchedulesUnderMenus(d)
    BY <1>1, <1>6 DEF References, SectionsUnderMenus, SchedulesUnderMenus
  <2> QED BY <2>1, <2>2, <2>3, <2>4 DEF References
<1>8. ASSUME NEW q \in Restaurants \ {r} PROVE SameFor(db, d, q)
  <2>1. SameRows(db.items, d.items, q)
    BY <1>1, <1>2, <1>6 DEF SameRows, Tables, In
  <2>2. ASSUME NEW j \in ItemIds, NEW a \in AllergenIds, In(db.items[j], q)
        PROVE  db.assignments[j, a] = d.assignments[j, a]
    BY <1>2, <1>3, <1>6, <2>2 DEF In
  <2> QED BY <1>6, <2>1, <2>2 DEF SameFor, SameRows
<1> QED BY <1>2, <1>5, <1>7, <1>8, ApplyKeeps

----------------------------------------------------------------------------
(* The invariant and the theorems. *)

LEMMA InitHolds == Init => IInv
<1> SUFFICES ASSUME Init PROVE IInv
  OBVIOUS
<1>1. db \in Tables
  BY DEF Init, NoRows, Tables
<1>2. ASSUME NEW i \in ItemIds, NEW a \in AllergenIds
      PROVE  db.assignments[i, a] = NoRow
  BY DEF Init, NoRows
<1>3. References(db)
  BY <1>2 DEF Init, NoRows, References, RowsOfARestaurant, SectionsUnderMenus,
              EntriesUnderSections, AssignmentsJoin, SchedulesUnderMenus
<1>4. SnapshotFresh
  BY DEF Init, NoRows, SnapshotFresh, Snapshot
<1>5. DOMAIN snap = Restaurants /\ caller = NoCaller
  BY DEF Init, NoRows
<1> QED BY <1>1, <1>3, <1>4, <1>5 DEF IInv, TypeOK, ReferencesHold

LEMMA StutterKeeps ==
  ASSUME IInv, UNCHANGED vars
  PROVE  IInv'
<1>1. db' = db /\ snap' = snap /\ caller' = caller
  BY DEF vars
<1>2. TypeOK' /\ ReferencesHold' /\ SnapshotFresh'
  BY <1>1 DEF IInv, TypeOK, ReferencesHold, SnapshotFresh
<1> QED BY <1>2 DEF IInv

LEMMA NextKeeps ==
  ASSUME IInv, Next
  PROVE  IInv'
<1>1. PICK o \in Orgs :
        \/ AllergenStep(o)
        \/ \E r \in Restaurants :
             \/ RestaurantStep(o, r) \/ HourStep(o, r) \/ SpecialStep(o, r)
             \/ MenuStep(o, r) \/ SectionStep(o, r) \/ EntryStep(o, r)
             \/ ItemStep(o, r) \/ ScheduleStep(o, r)
  BY DEF Next
<1>2. CASE AllergenStep(o)
  BY <1>2, CreateAllergenKeeps, UpdateAllergenKeeps, DeleteAllergenKeeps DEF AllergenStep
<1>3. ASSUME NEW r \in Restaurants, RestaurantStep(o, r) PROVE IInv'
  BY <1>3, CreateRestaurantKeeps, UpdateRestaurantKeeps, DeleteRestaurantKeeps
     DEF RestaurantStep
<1>4. ASSUME NEW r \in Restaurants, HourStep(o, r) PROVE IInv'
  BY <1>4, CreateBusinessHourKeeps, UpdateBusinessHourKeeps, DeleteBusinessHourKeeps
     DEF HourStep
<1>5. ASSUME NEW r \in Restaurants, SpecialStep(o, r) PROVE IInv'
  BY <1>5, CreateDailySpecialKeeps, UpdateDailySpecialKeeps, DeleteDailySpecialKeeps
     DEF SpecialStep
<1>6. ASSUME NEW r \in Restaurants, MenuStep(o, r) PROVE IInv'
  BY <1>6, CreateMenuKeeps, UpdateMenuKeeps, DeleteMenuKeeps DEF MenuStep
<1>7. ASSUME NEW r \in Restaurants, SectionStep(o, r) PROVE IInv'
  BY <1>7, CreateMenuSectionKeeps, UpdateMenuSectionKeeps, DeleteMenuSectionKeeps
     DEF SectionStep
<1>8. ASSUME NEW r \in Restaurants, EntryStep(o, r) PROVE IInv'
  BY <1>8, CreateMenuEntryKeeps, UpdateMenuEntryKeeps, DeleteMenuEntryKeeps
     DEF EntryStep
<1>9. ASSUME NEW r \in Restaurants, ItemStep(o, r) PROVE IInv'
  <2>1. PICK i \in ItemIds :
          \/ \E title \in Titles, status \in Statuses,
                given \in [AllergenIds -> Relationships \cup {NoRow}] :
               CreateCatalogItem(o, r, i, title, status, given)
               \/ UpdateCatalogItem(o, r, i, title, status, given)
          \/ DeleteCatalogItem(o, r, i)
    BY <1>9 DEF ItemStep
  <2>2. ASSUME NEW title \in Titles, NEW status \in Statuses,
               NEW given \in [AllergenIds -> Relationships \cup {NoRow}],
               CreateCatalogItem(o, r, i, title, status, given)
        PROVE  IInv'
    BY <2>2, WriteItemKeeps DEF CreateCatalogItem
  <2>3. ASSUME NEW title \in Titles, NEW status \in Statuses,
               NEW given \in [AllergenIds -> Relationships \cup {NoRow}],
               UpdateCatalogItem(o, r, i, title, status, given)
        PROVE  IInv'
    BY <2>3, WriteItemKeeps DEF UpdateCatalogItem
  <2>4. CASE DeleteCatalogItem(o, r, i)
    BY <2>4, DeleteCatalogItemKeeps
  <2> QED BY <2>1, <2>2, <2>3, <2>4
<1>10. ASSUME NEW r \in Restaurants, ScheduleStep(o, r) PROVE IInv'
  BY <1>10, CreateMenuScheduleKeeps, UpdateMenuScheduleKeeps, DeleteMenuScheduleKeeps
     DEF ScheduleStep
<1> QED BY <1>1, <1>2, <1>3, <1>4, <1>5, <1>6, <1>7, <1>8, <1>9, <1>10

(* The invariant is inductive: a snapshot that is fresh stays fresh, because
   a request refreshes every restaurant that can see a row it wrote. *)
THEOREM Invariance == Spec => []IInv
<1>1. Init => IInv
  BY InitHolds
<1>2. IInv /\ [Next]_vars => IInv'
  BY NextKeeps, StutterKeeps
<1> QED BY <1>1, <1>2, PTL DEF Spec

(* TypeOK: the handlers and the cascades leave every table well typed. *)
THEOREM TypeCorrect == Spec => []TypeOK
<1>1. IInv => TypeOK
  BY DEF IInv
<1> QED BY <1>1, Invariance, PTL

(* ReferencesHold: no sequence of admin requests leaves a row under a parent
   of another restaurant, or an assignment across organizations. *)
THEOREM ReferencesAlwaysHold == Spec => []ReferencesHold
<1>1. IInv => ReferencesHold
  BY DEF IInv
<1> QED BY <1>1, Invariance, PTL

(* SnapshotFresh: with requests one at a time, what is published is always
   the current document, for every number of restaurants and rows. *)
THEOREM SnapshotsAlwaysFresh == Spec => []SnapshotFresh
<1>1. IInv => SnapshotFresh
  BY DEF IInv
<1> QED BY <1>1, Invariance, PTL

(* A shown entry has a row for every allergen assigned to its item. *)
LEMMA AssignmentsAreDisclosed ==
  ASSUME IInv, NEW r \in Restaurants, NEW e \in EntryIds, NEW a \in AllergenIds,
         Served(r), ShownEntry(db, e, r),
         db.assignments[db.entries[e].item, a] # NoRow
  PROVE  snap[r].allergens[<<e, a>>]
         = <<db.assignments[db.entries[e].item, a].rel, db.allergens[a].title>>
<1>1. snap[r] = Document(db, r)
  BY DEF IInv, SnapshotFresh, Snapshot, Served
<1>2. db.entries[e].item \in ItemIds
  <2>1. db.entries[e] \in EntryRow
    BY DEF IInv, TypeOK, Tables, ShownEntry, Live, In
  <2> QED BY <2>1 DEF EntryRow
<1>3. Disclosed(db, db.entries[e].item, a)
  BY <1>2 DEF IInv, ReferencesHold, References, AssignmentsJoin, Disclosed
<1>4. <<e, a>> \in EntryIds \X AllergenIds
  OBVIOUS
<1>5. snap[r].allergens = Disclosures(db, r)
  <2>1. ASSUME NEW rs, NEW hs, NEW ss, NEW ms, NEW ns, NEW es, NEW as
        PROVE  [restaurant |-> rs, hours |-> hs, specials |-> ss, menus |-> ms,
                sections |-> ns, entries |-> es, allergens |-> as].allergens = as
    OBVIOUS
  <2>2. Document(db, r).allergens = Disclosures(db, r)
    BY <2>1, Zenon DEF Document
  <2> QED BY <1>1, <2>2
<1>6. snap[r].allergens[<<e, a>>] =
        IF ShownEntry(db, e, r) /\ Disclosed(db, db.entries[e].item, a)
        THEN <<db.assignments[db.entries[e].item, a].rel, db.allergens[a].title>>
        ELSE NoRow
  <2> DEFINE shown(p) == IF ShownEntry(db, p[1], r)
                            /\ Disclosed(db, db.entries[p[1]].item, p[2])
                         THEN <<db.assignments[db.entries[p[1]].item, p[2]].rel,
                                db.allergens[p[2]].title>>
                         ELSE NoRow
  <2>1. snap[r].allergens = [p \in EntryIds \X AllergenIds |-> shown(p)]
    BY <1>5 DEF Disclosures
  <2>2. shown(<<e, a>>) = IF ShownEntry(db, e, r) /\ Disclosed(db, db.entries[e].item, a)
                          THEN <<db.assignments[db.entries[e].item, a].rel,
                                 db.allergens[a].title>>
                          ELSE NoRow
    OBVIOUS
  <2> HIDE DEF shown
  <2> QED BY <1>4, <2>1, <2>2
<1> QED BY <1>3, <1>6

(* EveryAssignmentDisclosed: the joins of the refresh lose no assignment of
   an item that is shown. *)
THEOREM EveryAssignmentIsDisclosed == Spec => []EveryAssignmentDisclosed
<1>1. ASSUME IInv PROVE EveryAssignmentDisclosed
  <2> SUFFICES ASSUME NEW r \in Restaurants, NEW e \in EntryIds, NEW a \in AllergenIds,
                      Served(r), ShownEntry(db, e, r),
                      db.assignments[db.entries[e].item, a] # NoRow
               PROVE  snap[r].allergens[<<e, a>>] # NoRow
    BY DEF EveryAssignmentDisclosed
  <2> DEFINE i == db.entries[e].item
  <2>1. i \in ItemIds
    <3>1. db.entries[e] \in EntryRow
      BY <1>1 DEF IInv, TypeOK, Tables, ShownEntry, Live, In
    <3> QED BY <3>1 DEF EntryRow
  <2>2. db.assignments[i, a] \in AssignmentRow
    BY <1>1, <2>1 DEF IInv, TypeOK, Tables
  <2>3. db.allergens[a] \in AllergenRow
    BY <1>1, <2>1 DEF IInv, TypeOK, Tables, ReferencesHold, References, AssignmentsJoin
  <2>4. db.assignments[i, a].rel \in Relationships /\ db.allergens[a].title \in Titles
    BY <2>2, <2>3 DEF AssignmentRow, AllergenRow
  <2>5. snap[r].allergens[<<e, a>>] = <<db.assignments[i, a].rel, db.allergens[a].title>>
    BY <1>1, AssignmentsAreDisclosed
  <2> HIDE DEF i
  <2>6. <<db.assignments[i, a].rel, db.allergens[a].title>> \in Relationships \X Titles
    BY <2>4
  <2> QED BY <2>5, <2>6, NoRowIsNoRow
<1> QED BY <1>1, Invariance, PTL

=============================================================================
