-------------------------- MODULE MCRouteLifecycle --------------------------
(* Two days of one truck, or one day of it. *)
EXTENDS RouteLifecycle
MCOpeningStock == [p \in Products |-> 2]
Symmetry ==
  UNION { Permutations(S) : S \in {Branches \ {Depot}, Routes, Sales, Drivers, Vehicles} }
=============================================================================
