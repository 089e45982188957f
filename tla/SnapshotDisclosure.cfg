SPECIFICATION Spec
CONSTANTS
  Restaurants = {r1}
  Allergens = {a1}
  Txs = {t1, t2}
  OpNames = {"WriteCatalogItem", "UpdateAllergen"}
  Indexed = {"restaurants", "allergens"}
  NoTx = NoTx
  NoRestaurant = NoRestaurant
  NoPayload = NoPayload
SYMMETRY Symmetry
INVARIANTS
  QuietDisclosuresCurrent
CHECK_DEADLOCK FALSE
