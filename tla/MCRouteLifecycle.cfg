CONSTANTS
  Branches = {b1, b2}
  Routes = {r1, r2}
  Products = {p1}
  Drivers = {d1}
  Vehicles = {v1}
  Sales = {s1, s2}
  Null = Null
  Depot = b1
  OpeningStock <- MCOpeningStock
  MaxQty = 2
  MaxOps = 6
  MaxLoadVersion = 3
  MaxAdminOps = 1
SPECIFICATION Spec
SYMMETRY Symmetry
INVARIANTS
  TypeOK RouteStockExplained ReconciliationStands GoodsAccounted EveryCountReconciles
  LifecycleHolds
PROPERTIES HistoryIsNotRewritten
CHECK_DEADLOCK FALSE
