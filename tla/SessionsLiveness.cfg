SPECIFICATION FairSpec
CONSTANTS
  Users = {u1}
  Tokens = {k1, k2}
  Resets = {x1}
  Reqs = {q1, q2}
  RefreshTTL = 2
  ResetTTL = 1
  MaxTime = 2
  MaxChanges = 1
  NoUser = NoUser
  NoToken = NoToken
  NoReset = NoReset
PROPERTIES
  EveryRequestEnds
CHECK_DEADLOCK FALSE
