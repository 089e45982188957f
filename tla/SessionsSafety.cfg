SPECIFICATION Spec
CONSTANTS
  Users = {u1}
  Tokens = {k1, k2, k3}
  Resets = {x1}
  Reqs = {q1, q2, q3}
  RefreshTTL = 1
  ResetTTL = 1
  MaxTime = 1
  MaxChanges = 1
  NoUser = NoUser
  NoToken = NoToken
  NoReset = NoReset
SYMMETRY Symmetry
INVARIANTS
  TypeOK
  OneLiveTokenPerSession
  SurvivesOnlyByOverlap
  ResetUsedOnce
PROPERTIES
  LifeSpec
CHECK_DEADLOCK FALSE
