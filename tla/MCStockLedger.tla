---------------------------- MODULE MCStockLedger ----------------------------
(* The inventory ledger on two branches and two products.                    *)
EXTENDS StockLedger, TLC
Symmetry == Permutations(Branches) \cup Permutations(Products)
=============================================================================
