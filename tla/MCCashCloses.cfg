CONSTANTS
  Clients = {a1, a2}
  Slots = {q1, q2}
  Sales = {s1}
  Groups = {"SODAS", "OTHER"}
  Lines <- MCLines
  Days = {1, 2}
  First <- MCFirst
  After <- MCAfter
  Anchors <- MCAnchors
  Null = Null
  MaxCorrected = 1
  MaxAttempts = 2
SPECIFICATION Spec
SYMMETRY Symmetry
INVARIANTS ClosesBalance QueriesAgree OneChain AnswersAreTrue NothingForgotten
CHECK_DEADLOCK FALSE
