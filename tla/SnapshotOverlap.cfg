SPECIFICATION Spec
CONSTANTS
  Restaurants = {r1}
  Allergens = {a1}
  Txs = {t1, t2, t3}
  OpNames = {"UpdateRestaurant", "WriteMenuSection", "WriteMenuEntry", "DeleteMenu", "DeleteMenuSection", "WriteCatalogItem", "DeleteCatalogItem", "UpdateAllergen", "DeleteAllergen"}
  Indexed = {"allergens"}
  NoTx = NoTx
  NoRestaurant = NoRestaurant
  NoPayload = NoPayload
SYMMETRY Symmetry
INVARIANTS
  TypeOK
  OnlyCommittedPublished
  StaleOnlyByOverlap
  SnapshotRowLast
PROPERTIES
  EditPublishesItself
CHECK_DEADLOCK FALSE
