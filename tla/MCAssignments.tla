---------------------------- MODULE MCAssignments ----------------------------
(* Administrators creating routes and changing users and vehicles at once.   *)
EXTENDS Assignments, TLC
CONSTANTS a1, a2, d1, v1
MCUsers == {a1, a2, d1}
MCAdmins == {a1, a2}
MCVehicles == {v1}
Symmetry == Permutations(Sessions) \cup Permutations(Admins)
\* Deactivating and changing roles, and putting the driver and the vehicle back.
MCRequests ==
  [actor: Admins, driver: Users, vehicle: Vehicles]
    \cup [actor: Admins, target: Admins, version: 1..2, active: {TRUE}, role: {"DRIVER"}]
    \cup [actor: Admins, target: {d1}, version: 1..2, active: BOOLEAN, role: {"DRIVER"}]
    \cup [actor: Admins, target: {d1}, version: 1..2, active: {TRUE}, role: {"ADMINISTRATOR"}]
    \cup [actor: Admins, target: Vehicles, version: 1..2, active: BOOLEAN, role: {"VEHICLE"}]
=============================================================================
