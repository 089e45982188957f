SPECIFICATION FairSpec
CONSTANTS
  Edits = {e1, e2}
  Kinds = {"sections", "allergens", "items"}
  MaxRuns = 1
  NoDoc = NoDoc
INVARIANTS
  TypeOK
  SuccessInstallsNewest
  OutdatedOnlyByOverlap
  ItemEditsAreCurrent
PROPERTIES
  CustomerCatchesUp
CHECK_DEADLOCK FALSE
