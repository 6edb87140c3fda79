------------------------------ MODULE MCPrinting ------------------------------
(* Dialogs of one document on two screens, with two printers to choose from.  *)
EXTENDS Printing, TLC
Symmetry == Permutations(Dialogs) \cup Permutations(Printers)
=============================================================================
