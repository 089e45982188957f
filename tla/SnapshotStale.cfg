SPECIFICATION Spec
CONSTANTS
  Restaurants = {r1}
  Allergens = {a1}
  Txs = {t1, t2}
  OpNames = {"WriteHours", "WriteMenu"}
  Indexed = {"restaurants", "allergens"}
  NoTx = NoTx
  NoRestaurant = NoRestaurant
  NoPayload = NoPayload
SYMMETRY Symmetry
INVARIANTS
  QuietMenuUpToDate
CHECK_DEADLOCK FALSE
