CONSTANTS
  a1 = a1
  a2 = a2
  d1 = d1
  v1 = v1
  Users <- MCUsers
  Admins <- MCAdmins
  Vehicles <- MCVehicles
  Null = Null
  Sessions = {s1, s2}
  MaxAttempts = 2
  MaxRoutes = 2
  Requests <- MCRequests
  MaxChanges = 2
SPECIFICATION Spec
SYMMETRY Symmetry
INVARIANTS OpenRoutesKeepCrew
CHECK_DEADLOCK FALSE
