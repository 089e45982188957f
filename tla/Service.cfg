SPECIFICATION FairSpec
CONSTANTS
  Readers = {a}
  Editors = {b}
  Rereaders = {c}
  Probe = probe
  MaxConns = 2
  Grace = 1
INVARIANTS
  TypeOK
  PoolIsWorkConserving
  AnswersAreTrue
  DrainedBeforeClose
PROPERTIES
  EveryRequestGetsThrough
  ExitsAfterSignal
CHECK_DEADLOCK FALSE
