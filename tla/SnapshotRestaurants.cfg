SPECIFICATION FairSpec
CONSTANTS
  Restaurants = {r1, r2}
  Allergens = {a1}
  Txs = {t1, t2}
  OpNames = {"UpdateAllergen", "DeleteAllergen", "WriteCatalogItem", "WriteMenu", "UpdateRestaurant", "WriteHours"}
  Indexed = {"restaurants", "allergens"}
  NoTx = NoTx
  NoRestaurant = NoRestaurant
  NoPayload = NoPayload
INVARIANTS
  SnapshotRowLast
PROPERTIES
  EditedSpec
  EveryEditEnds
CHECK_DEADLOCK FALSE
