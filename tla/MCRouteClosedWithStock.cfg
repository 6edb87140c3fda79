CONSTANTS
  Branches = {b1, b2}
  Routes = {r1}
  Products = {p1}
  Drivers = {d1}
  Vehicles = {v1}
  Sales = {s1, s2}
  Null = Null
  Depot = b1
  OpeningStock <- MCOpeningStock
  MaxQty = 2
  MaxOps = 8
  MaxLoadVersion = 3
  MaxAdminOps = 1
SPECIFICATION Spec
PROPERTIES ClosesOnlyEmptyRoutes
CHECK_DEADLOCK FALSE
