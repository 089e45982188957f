SPECIFICATION Spec
CONSTANTS
  Orgs = {o1}
  Restaurants = {r1}
  Titles = {w1, w2}
  Statuses = {"active", "inactive"}
  Relationships = {"contains"}
  HourIds = {}
  SpecialIds = {}
  MenuIds = {m1}
  SectionIds = {s1, s2}
  EntryIds = {e1, e2}
  ItemIds = {i1}
  AllergenIds = {a1}
  ScheduleIds = {}
  NoRow = NoRow
  NoCaller = NoCaller
SYMMETRY Symmetry
INVARIANTS
  TypeOK
  SnapshotFresh
