CONSTANTS
  b1 = b1
  b2 = b2
  p1 = p1
  p2 = p2
  Branches <- MCBranches
  Products <- MCProducts
  Rank <- MCRank
  Requests <- MCRequests
  Null = Null
  Sessions = {s1, s2}
  Keys = {k1, k2, k3}
  MaxQty = 1
  MaxOps = 3
  MaxAttempts = 3
SPECIFICATION Spec
SYMMETRY Symmetry
INVARIANTS TypeOK AnswersAreTrue OnlyReversalsDeadlock
PROPERTIES ImplementsLedger
CHECK_DEADLOCK FALSE
