------------------------------ MODULE MCSelling ------------------------------
(* One customer and product, with adjacent prices before and from noon. *)
EXTENDS Selling, TLC
CONSTANTS corner, soda, morning, afternoon
MCAbout ==
  morning :> [customer |-> corner, product |-> soda, from |-> 0, until |-> 1, unit |-> 8] @@
  afternoon :> [customer |-> corner, product |-> soda, from |-> 1, until |-> 2, unit |-> 9]
MCLoaded == [p \in Products |-> 2]
Symmetry == Permutations(Slots)
=============================================================================
