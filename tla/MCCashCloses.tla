---------------------------- MODULE MCCashCloses ----------------------------
(* One week of two days, which may be asked for with either. *)
EXTENDS CashCloses, TLC
MCAnchors == {<<"WEEK", 0>>, <<"WEEK", 1>>}
MCFirst == [a \in Anchors |-> 0]
MCAfter == [a \in Anchors |-> 2]
MCLines == [s \in Sales |-> [g \in Groups |-> IF g = "SODAS" THEN 2 ELSE 1]]
Symmetry == Permutations(Clients) \cup Permutations(Slots)
=============================================================================
