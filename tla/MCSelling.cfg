CONSTANTS
  corner = corner
  soda = soda
  morning = morning
  afternoon = afternoon
  Forms = {f1}
  Slots = {q1, q2}
  Customers = {corner}
  Products = {soda}
  Prices = {morning, afternoon}
  Stored = {morning}
  About <- MCAbout
  Standards = {10}
  Loaded <- MCLoaded
  Times = {0, 1}
  Null = Null
  MaxQty = 2
  MaxRoutes = 2
  MaxChanges = 2
  MaxAttempts = 2
SPECIFICATION Spec
SYMMETRY Symmetry
INVARIANTS TypeOK OneSalePerForm
PROPERTIES ChargesAreInForce OnlyLateQuotesSurprise NothingTakenFromReturned
CHECK_DEADLOCK FALSE
