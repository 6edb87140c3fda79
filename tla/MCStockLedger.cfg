CONSTANTS
  Branches = {b1, b2}
  Routes = {}
  Products = {p1, p2}
  MaxQty = 2
  MaxOps = 4
  Null = Null
SPECIFICATION Spec
SYMMETRY Symmetry
INVARIANTS TypeOK LedgerReproducesBalances ReversalsAreExact
CHECK_DEADLOCK FALSE
