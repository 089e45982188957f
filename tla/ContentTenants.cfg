SPECIFICATION Spec
CONSTANTS
  Orgs = {o1, o2}
  Restaurants = {r1, r2}
  Titles = {w1}
  Statuses = {"active"}
  Relationships = {"contains"}
  HourIds = {h1}
  SpecialIds = {p1}
  MenuIds = {m1}
  SectionIds = {s1}
  EntryIds = {e1}
  ItemIds = {i1, i2}
  AllergenIds = {a1, a2}
  ScheduleIds = {c1}
  NoRow = NoRow
  NoCaller = NoCaller
SYMMETRY Symmetry
INVARIANTS
  ReferencesHold
  SnapshotFresh
  EveryAssignmentDisclosed
PROPERTIES
  TenantIsolation
  PublicSpec
