CONSTANTS
  b1 = b1
  b2 = b2
  p1 = p1
  p2 = p2
  Branches <- MCBranches
  Products <- MCProducts
  Rank <- MCRank
  Requests <- MCFewRequests
  Null = Null
  Sessions = {s1, s2}
  Keys = {k1, k2}
  MaxQty = 1
  MaxOps = 3
  MaxAttempts = 2
SPECIFICATION FairSpec
PROPERTIES RequestsEnd
CHECK_DEADLOCK FALSE
