------------------------- MODULE MCInventoryCommands -------------------------
(* Two administrators posting entries, exits, transfers and reversals.        *)
EXTENDS InventoryCommands, TLC
CONSTANTS b1, b2, p1, p2
MCBranches == {b1, b2}
MCProducts == {p1, p2}
MCRank == b1 :> 1 @@ b2 :> 2 @@ p1 :> 3 @@ p2 :> 4
Symmetry == Permutations(Sessions) \cup Permutations(Keys)
MCEntry == [type |-> "ENTRY", branch |-> b1, lines |-> [p \in Products |-> 1]]
MCExit == [type |-> "MANUAL_EXIT", branch |-> b1, lines |-> [p \in Products |-> 1]]
MCTransfer == [source |-> b1, destination |-> b2, lines |-> [p \in Products |-> 1]]
MCRequests == {MCEntry, MCTransfer, [reverses |-> 1], [reverses |-> 2]}
MCFewRequests == {MCEntry, MCExit, [reverses |-> 1]}
=============================================================================
