CONSTANTS
  Dialogs = {d1, d2}
  Printers = {q1, q2}
  None = None
  MaxPrints = 2
SPECIFICATION PrintSpec
SYMMETRY Symmetry
INVARIANTS PrintTypeOK SheetsAreAnnounced LaterSheetsAreMarked ResultsAreHonest
CHECK_DEADLOCK FALSE
