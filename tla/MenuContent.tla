---------------------------- MODULE MenuContent ----------------------------
(***************************************************************************)
(* The relational content behind the public menus: restaurants of several  *)
(* organizations, their hours, specials, menus, sections, entries and      *)
(* items, the allergens of an organization and their assignments to items. *)
(* One action is one admin request that succeeds, with the cascades and    *)
(* restrictions of the foreign keys and with the refresh of the snapshots  *)
(* its triggers make; a request that is refused changes nothing and is not *)
(* an action.  Requests run one after the other here: how the refresh      *)
(* behaves when they overlap is the subject of SnapshotRefresh.            *)
(*                                                                         *)
(* db is the committed state of the tables, a record with a function from  *)
(* identifiers to rows for each of them.  A title stands for all the text, *)
(* prices, times and ordering columns of a row.  db.hours stands for       *)
(* business_hours and special_hours, which are kept in the same way.       *)
(***************************************************************************)
EXTENDS Naturals

CONSTANTS Orgs, Restaurants, Titles, Statuses, Relationships,
          HourIds, SpecialIds, MenuIds, SectionIds, EntryIds, ItemIds,
          AllergenIds, ScheduleIds,
          NoRow,   \* no row with this identifier
          NoCaller \* no request was served yet

VARIABLES db,     \* the tables
          snap,   \* public_menu_snapshots, by restaurant
          caller  \* history: the organization the last request was authorized for

vars == <<db, snap, caller>>

RestaurantRow == [org : Orgs, title : Titles, status : Statuses]
HourRow       == [rest : Restaurants, title : Titles]
SpecialRow    == [rest : Restaurants, title : Titles, status : Statuses]
MenuRow       == [rest : Restaurants, title : Titles, status : Statuses]
SectionRow    == [rest : Restaurants, menu : MenuIds, title : Titles, status : Statuses]
EntryRow      == [rest : Restaurants, section : SectionIds, item : ItemIds,
                  title : Titles, status : Statuses]
ItemRow       == [rest : Restaurants, title : Titles, status : Statuses]
AssignmentRow == [rest : Restaurants, org : Orgs, rel : Relationships]
AllergenRow   == [org : Orgs, title : Titles]
ScheduleRow   == [rest : Restaurants, menu : MenuIds, title : Titles]

ASSUME NoRowIsNoRow ==
  NoRow \notin RestaurantRow \cup HourRow \cup SpecialRow \cup MenuRow \cup SectionRow
                 \cup EntryRow \cup ItemRow \cup AssignmentRow \cup AllergenRow
                 \cup ScheduleRow \cup Relationships \cup (Relationships \X Titles)

ASSUME NoCallerIsNoOrg == NoCaller \notin Orgs

ASSUME ActiveIsAStatus == "active" \in Statuses

Tables ==
  [restaurants : [Restaurants -> RestaurantRow \cup {NoRow}],
   hours       : [HourIds -> HourRow \cup {NoRow}],
   specials    : [SpecialIds -> SpecialRow \cup {NoRow}],
   menus       : [MenuIds -> MenuRow \cup {NoRow}],
   sections    : [SectionIds -> SectionRow \cup {NoRow}],
   entries     : [EntryIds -> EntryRow \cup {NoRow}],
   items       : [ItemIds -> ItemRow \cup {NoRow}],
   assignments : [ItemIds \X AllergenIds -> AssignmentRow \cup {NoRow}],
   allergens   : [AllergenIds -> AllergenRow \cup {NoRow}],
   schedules   : [ScheduleIds -> ScheduleRow \cup {NoRow}]]

----------------------------------------------------------------------------
(* The document of a restaurant.                                           *)

In(row, r)   == row # NoRow /\ row.rest = r
Live(row, r) == In(row, r) /\ row.status = "active"

\* The rows the joins of the refresh keep for restaurant r.
ShownSection(d, s, r) ==
  Live(d.sections[s], r) /\ Live(d.menus[d.sections[s].menu], r)

ShownEntry(d, e, r) ==
  /\ Live(d.entries[e], r)
  /\ ShownSection(d, d.entries[e].section, r)
  /\ Live(d.items[d.entries[e].item], r)

Disclosed(d, i, a) ==
  /\ d.assignments[i, a] # NoRow
  /\ d.allergens[a] # NoRow
  /\ d.allergens[a].org = d.assignments[i, a].org

\* The allergens shown with each entry, with what the item says of them.
Disclosures(d, r) ==
  [p \in EntryIds \X AllergenIds |->
     IF ShownEntry(d, p[1], r) /\ Disclosed(d, d.entries[p[1]].item, p[2])
     THEN <<d.assignments[d.entries[p[1]].item, p[2]].rel, d.allergens[p[2]].title>>
     ELSE NoRow]

\* refresh_public_menu_snapshot, as tables of what is shown; NoRow is hidden.
Document(d, r) ==
  [restaurant |-> d.restaurants[r].title,
   hours |-> [h \in HourIds |-> IF In(d.hours[h], r) THEN d.hours[h].title ELSE NoRow],
   specials |-> [p \in SpecialIds |->
                   IF Live(d.specials[p], r) THEN d.specials[p].title ELSE NoRow],
   menus |-> [m \in MenuIds |-> IF Live(d.menus[m], r) THEN d.menus[m].title ELSE NoRow],
   sections |-> [s \in SectionIds |->
                   IF ShownSection(d, s, r)
                   THEN <<d.sections[s].menu, d.sections[s].title>> ELSE NoRow],
   entries |-> [e \in EntryIds |->
                  IF ShownEntry(d, e, r)
                  THEN <<d.entries[e].section, d.entries[e].title,
                         d.entries[e].item, d.items[d.entries[e].item].title>>
                  ELSE NoRow],
   allergens |-> Disclosures(d, r)]

Snapshot(d, r) == IF d.restaurants[r] = NoRow THEN NoRow ELSE Document(d, r)

\* get_public_menu_snapshot: a restaurant that is not active is not served.
Served(r) == db.restaurants[r] # NoRow /\ db.restaurants[r].status = "active"

----------------------------------------------------------------------------
NoRows(S) == [x \in S |-> NoRow]

Init ==
  /\ db = [restaurants |-> NoRows(Restaurants), hours |-> NoRows(HourIds),
           specials |-> NoRows(SpecialIds), menus |-> NoRows(MenuIds),
           sections |-> NoRows(SectionIds), entries |-> NoRows(EntryIds),
           items |-> NoRows(ItemIds), assignments |-> NoRows(ItemIds \X AllergenIds),
           allergens |-> NoRows(AllergenIds), schedules |-> NoRows(ScheduleIds)]
  /\ snap = NoRows(Restaurants)
  /\ caller = NoCaller

\* A committed request of organization o: the tables become d, and the
\* triggers of the rows it wrote refresh the restaurants R.
Apply(o, d, R) ==
  /\ db' = d
  /\ snap' = [r \in Restaurants |-> IF r \in R THEN Snapshot(d, r) ELSE snap[r]]
  /\ caller' = o

\* JOIN restaurants r ... WHERE r.organization_id = o AND r.id = r.
Owned(o, r) == db.restaurants[r] # NoRow /\ db.restaurants[r].org = o

----------------------------------------------------------------------------
(* Restaurants.                                                            *)

CreateRestaurant(o, r, title, status) ==
  /\ db.restaurants[r] = NoRow
  /\ Apply(o, [db EXCEPT !.restaurants[r] =
                 [org |-> o, title |-> title, status |-> status]], {r})

UpdateRestaurant(o, r, title, status) ==
  /\ Owned(o, r)
  /\ Apply(o, [db EXCEPT !.restaurants[r].title = title,
                         !.restaurants[r].status = status], {r})

\* A table without the rows of restaurant r.
Without(table, r) ==
  [x \in DOMAIN table |-> IF In(table[x], r) THEN NoRow ELSE table[x]]

\* Schedules restrict the deletion; everything else goes with the restaurant.
\* The keys of the base tables are not in the repository: a cascade is the only
\* way in which the deletion of a restaurant with content succeeds.  Whether it
\* does depends on their order, since an entry restricts the deletion of its
\* item; the model lets every such deletion succeed, and so allows more.
DeleteRestaurant(o, r) ==
  /\ Owned(o, r)
  /\ \A c \in ScheduleIds : ~In(db.schedules[c], r)
  /\ Apply(o, [db EXCEPT !.restaurants[r] = NoRow,
                         !.hours = Without(@, r),
                         !.specials = Without(@, r),
                         !.menus = Without(@, r),
                         !.sections = Without(@, r),
                         !.entries = Without(@, r),
                         !.items = Without(@, r),
                         !.assignments = Without(@, r)], {r})

----------------------------------------------------------------------------
(* Hours and daily specials: rows of the restaurant itself.                *)

CreateBusinessHour(o, r, h, title) ==
  /\ Owned(o, r) /\ db.hours[h] = NoRow
  /\ Apply(o, [db EXCEPT !.hours[h] = [rest |-> r, title |-> title]], {r})

UpdateBusinessHour(o, r, h, title) ==
  /\ Owned(o, r) /\ In(db.hours[h], r)
  /\ Apply(o, [db EXCEPT !.hours[h] = [rest |-> r, title |-> title]], {r})

DeleteBusinessHour(o, r, h) ==
  /\ Owned(o, r) /\ In(db.hours[h], r)
  /\ Apply(o, [db EXCEPT !.hours[h] = NoRow], {r})

CreateDailySpecial(o, r, p, title, status) ==
  /\ Owned(o, r) /\ db.specials[p] = NoRow
  /\ Apply(o, [db EXCEPT !.specials[p] =
                 [rest |-> r, title |-> title, status |-> status]], {r})

UpdateDailySpecial(o, r, p, title, status) ==
  /\ Owned(o, r) /\ In(db.specials[p], r)
  /\ Apply(o, [db EXCEPT !.specials[p] =
                 [rest |-> r, title |-> title, status |-> status]], {r})

DeleteDailySpecial(o, r, p) ==
  /\ Owned(o, r) /\ In(db.specials[p], r)
  /\ Apply(o, [db EXCEPT !.specials[p] = NoRow], {r})

----------------------------------------------------------------------------
(* Menus and sections.                                                     *)

CreateMenu(o, r, m, title, status) ==
  /\ Owned(o, r) /\ db.menus[m] = NoRow
  /\ Apply(o, [db EXCEPT !.menus[m] =
                 [rest |-> r, title |-> title, status |-> status]], {r})

UpdateMenu(o, r, m, title, status) ==
  /\ Owned(o, r) /\ In(db.menus[m], r)
  /\ Apply(o, [db EXCEPT !.menus[m] =
                 [rest |-> r, title |-> title, status |-> status]], {r})

\* The tables without some sections and the entries under them.
WithoutSections(d, gone) ==
  [d EXCEPT
     !.sections = [s \in SectionIds |-> IF s \in gone THEN NoRow ELSE d.sections[s]],
     !.entries = [e \in EntryIds |->
                    IF d.entries[e] # NoRow /\ d.entries[e].section \in gone
                    THEN NoRow ELSE d.entries[e]]]

SectionsOf(m) == {s \in SectionIds : db.sections[s] # NoRow /\ db.sections[s].menu = m}

\* Faulty: the sections lose their menu but stay.
DeleteMenuOnly(o, r, m) ==
  /\ Owned(o, r) /\ In(db.menus[m], r)
  /\ Apply(o, [db EXCEPT !.menus[m] = NoRow], {r})

\* Schedules restrict the deletion, sections and entries go with the menu.
DeleteMenu(o, r, m) ==
  /\ Owned(o, r) /\ In(db.menus[m], r)
  /\ \A c \in ScheduleIds : db.schedules[c] # NoRow => db.schedules[c].menu # m
  /\ Apply(o, [WithoutSections(db, SectionsOf(m)) EXCEPT !.menus[m] = NoRow], {r})

\* The name is free in the menu, case aside.
SectionNameFree(m, title, others) ==
  \A s \in others : db.sections[s] # NoRow /\ db.sections[s].menu = m
                      => db.sections[s].title # title

CreateMenuSection(o, r, m, s, title, status) ==
  /\ Owned(o, r) /\ In(db.menus[m], r)
  /\ db.sections[s] = NoRow
  /\ SectionNameFree(m, title, SectionIds)
  /\ Apply(o, [db EXCEPT !.sections[s] =
                 [rest |-> r, menu |-> m, title |-> title, status |-> status]], {r})

UpdateMenuSection(o, r, m, s, title, status) ==
  /\ Owned(o, r) /\ In(db.menus[m], r)
  /\ In(db.sections[s], r) /\ db.sections[s].menu = m
  /\ SectionNameFree(m, title, SectionIds \ {s})
  /\ Apply(o, [db EXCEPT !.sections[s] =
                 [rest |-> r, menu |-> m, title |-> title, status |-> status]], {r})

DeleteMenuSection(o, r, m, s) ==
  /\ Owned(o, r) /\ In(db.menus[m], r)
  /\ In(db.sections[s], r) /\ db.sections[s].menu = m
  /\ Apply(o, WithoutSections(db, {s}), {r})

----------------------------------------------------------------------------
(* Entries.                                                                *)

\* The section is addressed through its menu and its restaurant.
SectionPath(o, r, m, s) ==
  /\ Owned(o, r) /\ In(db.menus[m], r)
  /\ In(db.sections[s], r) /\ db.sections[s].menu = m

\* An item is in a section at most once.
ItemFree(s, i, others) ==
  \A e \in others : db.entries[e] # NoRow /\ db.entries[e].section = s
                      => db.entries[e].item # i

CreateMenuEntry(o, r, m, s, e, i, title, status) ==
  /\ SectionPath(o, r, m, s)
  /\ In(db.items[i], r)
  /\ db.entries[e] = NoRow
  /\ ItemFree(s, i, EntryIds)
  /\ Apply(o, [db EXCEPT !.entries[e] =
                 [rest |-> r, section |-> s, item |-> i,
                  title |-> title, status |-> status]], {r})

UpdateMenuEntry(o, r, m, s, e, i, title, status) ==
  /\ SectionPath(o, r, m, s)
  /\ In(db.entries[e], r) /\ db.entries[e].section = s
  /\ In(db.items[i], r)
  /\ ItemFree(s, i, EntryIds \ {e})
  /\ Apply(o, [db EXCEPT !.entries[e] =
                 [rest |-> r, section |-> s, item |-> i,
                  title |-> title, status |-> status]], {r})

\* Faulty: menu_entries has no trigger on deletion.
DeleteEntryQuietly(o, r, m, s, e) ==
  /\ SectionPath(o, r, m, s)
  /\ In(db.entries[e], r) /\ db.entries[e].section = s
  /\ Apply(o, [db EXCEPT !.entries[e] = NoRow], {})

DeleteMenuEntry(o, r, m, s, e) ==
  /\ SectionPath(o, r, m, s)
  /\ In(db.entries[e], r) /\ db.entries[e].section = s
  /\ Apply(o, [db EXCEPT !.entries[e] = NoRow], {r})

----------------------------------------------------------------------------
(* Items and the allergens they are assigned.                              *)

\* Faulty: any allergen row will do, whichever organization keeps it.
AnyAllergens(o, given) ==
  \A a \in AllergenIds : given[a] # NoRow => db.allergens[a] # NoRow

\* Every allergen given is one of the organization's; otherwise the
\* transaction is rolled back.
KnownAllergens(o, given) ==
  \A a \in AllergenIds :
    given[a] # NoRow => db.allergens[a] # NoRow /\ db.allergens[a].org = o

\* Faulty: what relationship was given is not looked at.
ReassignedUnchecked(o, r, i, given) ==
  [p \in ItemIds \X AllergenIds |->
     IF p[1] # i THEN db.assignments[p]
     ELSE [rest |-> r, org |-> o, rel |-> given[p[2]]]]

\* replaceCatalogItemAllergens: the item's assignments become those given.
Reassigned(o, r, i, given) ==
  [p \in ItemIds \X AllergenIds |->
     IF p[1] # i THEN db.assignments[p]
     ELSE IF given[p[2]] = NoRow THEN NoRow
     ELSE [rest |-> r, org |-> o, rel |-> given[p[2]]]]

WriteItem(o, r, i, title, status, given) ==
  Apply(o, [db EXCEPT !.items[i] = [rest |-> r, title |-> title, status |-> status],
                      !.assignments = Reassigned(o, r, i, given)], {r})

CreateCatalogItem(o, r, i, title, status, given) ==
  /\ Owned(o, r) /\ db.items[i] = NoRow
  /\ KnownAllergens(o, given)
  /\ WriteItem(o, r, i, title, status, given)

UpdateCatalogItem(o, r, i, title, status, given) ==
  /\ Owned(o, r) /\ In(db.items[i], r)
  /\ KnownAllergens(o, given)
  /\ WriteItem(o, r, i, title, status, given)

\* Entries restrict the deletion, assignments go with the item.
DeleteCatalogItem(o, r, i) ==
  /\ Owned(o, r) /\ In(db.items[i], r)
  /\ \A e \in EntryIds : db.entries[e] # NoRow => db.entries[e].item # i
  /\ Apply(o, [db EXCEPT !.items[i] = NoRow,
                         !.assignments = [p \in ItemIds \X AllergenIds |->
                                            IF p[1] = i THEN NoRow ELSE @[p]]], {r})

----------------------------------------------------------------------------
(* Allergens of an organization.                                           *)

\* Faulty: allergens has no trigger.
NoRestaurants(a) == {}

\* The restaurants with an assignment of a, which the trigger refreshes.
RestaurantsUsing(a) ==
  {r \in Restaurants : \E i \in ItemIds : In(db.assignments[i, a], r)}

CreateAllergen(o, a, title) ==
  /\ db.allergens[a] = NoRow
  /\ Apply(o, [db EXCEPT !.allergens[a] = [org |-> o, title |-> title]], {})

UpdateAllergen(o, a, title) ==
  /\ db.allergens[a] # NoRow /\ db.allergens[a].org = o
  /\ Apply(o, [db EXCEPT !.allergens[a] = [org |-> o, title |-> title]],
           RestaurantsUsing(a))

\* Assignments restrict the deletion, so that no snapshot shows the allergen.
DeleteAllergen(o, a) ==
  /\ db.allergens[a] # NoRow /\ db.allergens[a].org = o
  /\ \A i \in ItemIds : db.assignments[i, a] = NoRow
  /\ Apply(o, [db EXCEPT !.allergens[a] = NoRow], {})

----------------------------------------------------------------------------
(* Schedules, which no snapshot shows: their table has no trigger.         *)

\* Faulty: the menu of the path is looked up without its organization.
ScheduleAnyMenu(o, r, m, c, title) ==
  /\ In(db.menus[m], r) /\ db.schedules[c] = NoRow
  /\ Apply(o, [db EXCEPT !.schedules[c] =
                 [rest |-> r, menu |-> m, title |-> title]], {})

CreateMenuSchedule(o, r, m, c, title) ==
  /\ Owned(o, r) /\ In(db.menus[m], r)
  /\ db.schedules[c] = NoRow
  /\ Apply(o, [db EXCEPT !.schedules[c] =
                 [rest |-> r, menu |-> m, title |-> title]], {})

\* The menu of the path is not looked at, here and in the deletion.
UpdateMenuSchedule(o, r, c, title) ==
  /\ Owned(o, r) /\ In(db.schedules[c], r)
  /\ Apply(o, [db EXCEPT !.schedules[c].title = title], {})

DeleteMenuSchedule(o, r, c) ==
  /\ Owned(o, r) /\ In(db.schedules[c], r)
  /\ Apply(o, [db EXCEPT !.schedules[c] = NoRow], {})

----------------------------------------------------------------------------
RestaurantStep(o, r) ==
  \/ \E title \in Titles, status \in Statuses :
       \/ CreateRestaurant(o, r, title, status)
       \/ UpdateRestaurant(o, r, title, status)
  \/ DeleteRestaurant(o, r)

HourStep(o, r) ==
  \E h \in HourIds :
    \/ \E title \in Titles : CreateBusinessHour(o, r, h, title)
                             \/ UpdateBusinessHour(o, r, h, title)
    \/ DeleteBusinessHour(o, r, h)

SpecialStep(o, r) ==
  \E p \in SpecialIds :
    \/ \E title \in Titles, status \in Statuses :
         CreateDailySpecial(o, r, p, title, status)
         \/ UpdateDailySpecial(o, r, p, title, status)
    \/ DeleteDailySpecial(o, r, p)

MenuStep(o, r) ==
  \E m \in MenuIds :
    \/ \E title \in Titles, status \in Statuses :
         CreateMenu(o, r, m, title, status) \/ UpdateMenu(o, r, m, title, status)
    \/ DeleteMenu(o, r, m)

SectionStep(o, r) ==
  \E m \in MenuIds, s \in SectionIds :
    \/ \E title \in Titles, status \in Statuses :
         CreateMenuSection(o, r, m, s, title, status)
         \/ UpdateMenuSection(o, r, m, s, title, status)
    \/ DeleteMenuSection(o, r, m, s)

EntryStep(o, r) ==
  \E m \in MenuIds, s \in SectionIds, e \in EntryIds :
    \/ \E i \in ItemIds, title \in Titles, status \in Statuses :
         CreateMenuEntry(o, r, m, s, e, i, title, status)
         \/ UpdateMenuEntry(o, r, m, s, e, i, title, status)
    \/ DeleteMenuEntry(o, r, m, s, e)

ItemStep(o, r) ==
  \E i \in ItemIds :
    \/ \E title \in Titles, status \in Statuses,
          given \in [AllergenIds -> Relationships \cup {NoRow}] :
         CreateCatalogItem(o, r, i, title, status, given)
         \/ UpdateCatalogItem(o, r, i, title, status, given)
    \/ DeleteCatalogItem(o, r, i)

AllergenStep(o) ==
  \E a \in AllergenIds :
    \/ \E title \in Titles : CreateAllergen(o, a, title) \/ UpdateAllergen(o, a, title)
    \/ DeleteAllergen(o, a)

ScheduleStep(o, r) ==
  \E c \in ScheduleIds :
    \/ \E title \in Titles :
         (\E m \in MenuIds : CreateMenuSchedule(o, r, m, c, title))
         \/ UpdateMenuSchedule(o, r, c, title)
    \/ DeleteMenuSchedule(o, r, c)

Next ==
  \E o \in Orgs :
    \/ AllergenStep(o)
    \/ \E r \in Restaurants :
         \/ RestaurantStep(o, r) \/ HourStep(o, r) \/ SpecialStep(o, r)
         \/ MenuStep(o, r) \/ SectionStep(o, r) \/ EntryStep(o, r)
         \/ ItemStep(o, r) \/ ScheduleStep(o, r)

Spec == Init /\ [][Next]_vars

----------------------------------------------------------------------------
(* Properties.                                                             *)

(* The tables and the snapshots keep their types. *)
TypeOK ==
  /\ db \in Tables
  /\ DOMAIN snap = Restaurants
  /\ caller \in Orgs \cup {NoCaller}

(* What the foreign keys of the tables say. *)
RowsOfARestaurant(d) ==
  /\ \A h \in HourIds : d.hours[h] # NoRow => d.restaurants[d.hours[h].rest] # NoRow
  /\ \A p \in SpecialIds :
       d.specials[p] # NoRow => d.restaurants[d.specials[p].rest] # NoRow
  /\ \A m \in MenuIds : d.menus[m] # NoRow => d.restaurants[d.menus[m].rest] # NoRow
  /\ \A i \in ItemIds : d.items[i] # NoRow => d.restaurants[d.items[i].rest] # NoRow

SectionsUnderMenus(d) ==
  \A s \in SectionIds : d.sections[s] # NoRow =>
    In(d.menus[d.sections[s].menu], d.sections[s].rest)

EntriesUnderSections(d) ==
  \A e \in EntryIds : d.entries[e] # NoRow =>
    /\ In(d.sections[d.entries[e].section], d.entries[e].rest)
    /\ In(d.items[d.entries[e].item], d.entries[e].rest)

AssignmentsJoin(d) ==
  \A i \in ItemIds, a \in AllergenIds : d.assignments[i, a] # NoRow =>
    /\ In(d.items[i], d.assignments[i, a].rest)
    /\ d.restaurants[d.assignments[i, a].rest] # NoRow
    /\ d.restaurants[d.assignments[i, a].rest].org = d.assignments[i, a].org
    /\ d.allergens[a] # NoRow
    /\ d.allergens[a].org = d.assignments[i, a].org

SchedulesUnderMenus(d) ==
  \A c \in ScheduleIds : d.schedules[c] # NoRow =>
    In(d.menus[d.schedules[c].menu], d.schedules[c].rest)

(* Every row hangs under rows of its own restaurant, and an assignment joins
   an item of its restaurant with an allergen of that restaurant's
   organization: the foreign keys carry the restaurant (or organization) id
   along, and every write takes it from the joined rows. *)
References(d) ==
  /\ RowsOfARestaurant(d)
  /\ SectionsUnderMenus(d)
  /\ EntriesUnderSections(d)
  /\ AssignmentsJoin(d)
  /\ SchedulesUnderMenus(d)

ReferencesHold == References(db)

(* Whatever sequence of edits was made, every restaurant's snapshot is
   exactly its current document, and a restaurant that is gone has none: the
   triggers cover every table and every way a row can change or vanish,
   cascades and shared allergens included. *)
SnapshotFresh == \A r \in Restaurants : snap[r] = Snapshot(db, r)

(* An item on a served menu discloses every allergen assigned to it: no
   assignment is lost in the joins of the refresh. *)
EveryAssignmentDisclosed ==
  \A r \in Restaurants, e \in EntryIds, a \in AllergenIds :
    Served(r) /\ ShownEntry(db, e, r) /\ db.assignments[db.entries[e].item, a] # NoRow
      => snap[r].allergens[<<e, a>>] # NoRow

OrgOf(r) == IF db.restaurants[r] = NoRow THEN NoCaller ELSE db.restaurants[r].org

\* The rows of a table that hang under the restaurants R.
RowsUnder(table, R) ==
  [x \in {y \in DOMAIN table : table[y] # NoRow /\ table[y].rest \in R} |-> table[x]]

RestaurantsOf(o) == {r \in Restaurants : OrgOf(r) = o}

AllergensOf(o) == {a \in AllergenIds : db.allergens[a] # NoRow /\ db.allergens[a].org = o}

\* Everything that is kept for organization o.
Estate(o) ==
  LET R == RestaurantsOf(o)
  IN [restaurants |-> [r \in R |-> db.restaurants[r]],
      snapshots   |-> [r \in R |-> snap[r]],
      allergens   |-> [a \in AllergensOf(o) |-> db.allergens[a]],
      hours       |-> RowsUnder(db.hours, R),
      specials    |-> RowsUnder(db.specials, R),
      menus       |-> RowsUnder(db.menus, R),
      sections    |-> RowsUnder(db.sections, R),
      entries     |-> RowsUnder(db.entries, R),
      items       |-> RowsUnder(db.items, R),
      assignments |-> RowsUnder(db.assignments, R),
      schedules   |-> RowsUnder(db.schedules, R)]

(* A request authorized for one organization adds, changes and removes no row
   of another one, in any table, and leaves its snapshots as they are,
   whatever identifiers the path and the body name: every statement joins the
   restaurant with the organization of the token, also those, like the
   creation of a schedule, that touch no snapshot and no row there was. *)
TenantIsolation == [][\A o \in Orgs \ {caller'} : Estate(o)' = Estate(o)]_vars

(* PublicMenu, as the tables and the snapshots show it. *)
Public == INSTANCE PublicMenu WITH
  NoOrg <- NoCaller,
  owner <- [r \in Restaurants |-> OrgOf(r)],
  truth <- [r \in Restaurants |-> Snapshot(db, r)],
  shown <- snap

(* The edits implement it: whatever a request of an organization changes, in
   cascades and through shared allergens too, customers are shown with it,
   and the menus of all other organizations stay as they were. *)
PublicSpec == Public!Spec
=============================================================================
