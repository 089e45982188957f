SPECIFICATION Spec
CONSTANTS
  Users = {u1}
  Tokens = {k1, k2, k3}
  Resets = {x1}
  Reqs = {q1, q2}
  RefreshTTL = 2
  ResetTTL = 1
  MaxTime = 0
  MaxChanges = 1
  NoUser = NoUser
  NoToken = NoToken
  NoReset = NoReset
SYMMETRY Symmetry
INVARIANTS
  ReplayEndsEverySession
CHECK_DEADLOCK FALSE
