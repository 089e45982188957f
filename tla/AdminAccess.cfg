SPECIFICATION Spec
CONSTANTS
  Users = {u1, u2}
  Orgs = {o1, o2}
  Reqs = {q1, q2}
  Owner = u1
  Home = o1
  AccessTTL = 1
  MaxTime = 3
  MaxTokens = 2
  NoUser = NoUser
  NoOrg = NoOrg
SYMMETRY Symmetry
INVARIANTS
  TypeOK
  AdminClaimsFade
PROPERTIES
  DesertedForGood
  LeaderlessForGood
