----------------------------- MODULE StockLedger -----------------------------
(***************************************************************************)
(* The inventory ledger: balances per stock location and product, and the  *)
(* append-only operations whose movements changed them.  One action is one *)
(* committed transaction of InventoryService; InventoryCommands shows that *)
(* the row-locking, retrying code commits exactly such transactions.       *)
(*                                                                         *)
(* A missing inventory_balance row is the zero row applyMovement inserts   *)
(* before it locks it.  A request may name a product in several lines:     *)
(* their movements go the same way, one after another, and are taken       *)
(* together as one movement of the summed quantity with the balances the   *)
(* last of them recorded.                                                  *)
(***************************************************************************)
EXTENDS Integers, Sequences, FiniteSets

CONSTANTS
  Branches,     \* branches, each one standing for its own stock location
  Routes,       \* routes, each one standing for its own temporary stock location
  Products,
  MaxQty,       \* bound on the quantity of one line
  MaxOps,       \* bound on the number of operations
  Null          \* the SQL null

Locations == Branches \cup Routes

ASSUME LedgerAssumption ==
  /\ MaxQty \in Nat
  /\ MaxOps \in Nat
  /\ Branches \cap Routes = {}
  /\ Null \notin Locations

VARIABLES
  balance,      \* inventory_balance.quantity, by location and product
  operations    \* inventory_operation rows with their movements, in commit order

ledgerVars == <<balance, operations>>

-----------------------------------------------------------------------------
(* Movements *)

OperationTypes ==
  { "ENTRY", "MANUAL_EXIT", "POSITIVE_ADJUSTMENT", "NEGATIVE_ADJUSTMENT", "TRANSFER",
    "ROUTE_LOAD", "ROUTE_RETURN", "SALE", "SALE_CANCELLATION" }

Endpoints == Locations \cup {Null}

\* What a handler asks of applyMovement for one product; quantity 0 is no movement.
Commands == [quantity: Nat, source: Endpoints, destination: Endpoints]

Move(quantity, source, destination) ==
  [ quantity |-> quantity,
    source |-> IF quantity = 0 THEN Null ELSE source,
    destination |-> IF quantity = 0 THEN Null ELSE destination ]

\* The row applyMovement stores: the command and the balances its updates returned.
Movements ==
  [ quantity: Nat, source: Endpoints, destination: Endpoints,
    sourceAfter: Nat \cup {Null}, destinationAfter: Nat \cup {Null} ]

Operations ==
  [ type: OperationTypes,
    reverses: Nat,      \* position of the operation it reverses, 0 when it is an original
    moves: [Products -> Movements] ]

\* What movement m adds to the balance of location l.
Delta(m, l) ==
  (IF m.destination = l THEN m.quantity ELSE 0) - (IF m.source = l THEN m.quantity ELSE 0)

\* Every source holds what is taken from it: otherwise INSUFFICIENT_INVENTORY,
\* and the transaction rolls back whole.
CoveredMutIgnoresQuantity(bal, moves) ==
  \A p \in Products : moves[p].source # Null => bal[moves[p].source][p] >= 0

Covered(bal, moves) ==
  \A p \in Products :
    moves[p].source # Null => bal[moves[p].source][p] >= moves[p].quantity

ApplyMoves(bal, moves) ==
  [l \in Locations |-> [p \in Products |-> bal[l][p] + Delta(moves[p], l)]]

RecordedMutStaleSource(bal, p, m) ==
  [ quantity |-> m.quantity, source |-> m.source, destination |-> m.destination,
    sourceAfter |-> IF m.source = Null THEN Null ELSE bal[m.source][p],
    destinationAfter |-> IF m.destination = Null THEN Null
                         ELSE bal[m.destination][p] + m.quantity ]

Recorded(bal, p, m) ==
  [ quantity |-> m.quantity, source |-> m.source, destination |-> m.destination,
    sourceAfter |-> IF m.source = Null THEN Null ELSE bal[m.source][p] - m.quantity,
    destinationAfter |-> IF m.destination = Null THEN Null
                         ELSE bal[m.destination][p] + m.quantity ]

NewOperation(bal, type, moves, reverses) ==
  [ type |-> type, reverses |-> reverses,
    moves |-> [p \in Products |-> Recorded(bal, p, moves[p])] ]

\* One inventory_operation with its movements, or nothing at all.
Post(type, moves, reverses) ==
  /\ Len(operations) < MaxOps
  /\ Covered(balance, moves)
  /\ balance' = ApplyMoves(balance, moves)
  /\ operations' = Append(operations, NewOperation(balance, type, moves, reverses))

-----------------------------------------------------------------------------
(* InventoryService *)

\* The lines of a request, summed by product, 0 for one it does not name; there is at
\* least one.
Lines == {lines \in [Products -> 0..MaxQty] : \E p \in Products : lines[p] > 0}

MovesOf(lines, source, destination) ==
  [p \in Products |-> Move(lines[p], source, destination)]

Creates(type) == type \in {"ENTRY", "POSITIVE_ADJUSTMENT"}

BranchOperationTypes == {"ENTRY", "MANUAL_EXIT", "POSITIVE_ADJUSTMENT", "NEGATIVE_ADJUSTMENT"}

BranchMoves(type, b, lines) ==
  IF Creates(type) THEN MovesOf(lines, Null, b) ELSE MovesOf(lines, b, Null)

CreateBranchOperation(type, b, lines) == Post(type, BranchMoves(type, b, lines), 0)

CreateTransfer(source, destination, lines) ==
  /\ source # destination
  /\ Post("TRANSFER", MovesOf(lines, source, destination), 0)

Reversed(i) == \E j \in 1..Len(operations) : operations[j].reverses = i

Inverse(moves) ==
  [p \in Products |-> Move(moves[p].quantity, moves[p].destination, moves[p].source)]

\* Any operation may be reversed, a reversal too, but none of them twice.
ReverseMutTwice(i) ==
  /\ i \in 1..Len(operations)
  /\ Post(operations[i].type, Inverse(operations[i].moves), i)

Reverse(i) ==
  /\ i \in 1..Len(operations)
  /\ ~Reversed(i)
  /\ Post(operations[i].type, Inverse(operations[i].moves), i)

-----------------------------------------------------------------------------

Init ==
  /\ balance = [l \in Locations |-> [p \in Products |-> 0]]
  /\ operations = <<>>

Next ==
  \/ \E type \in BranchOperationTypes, b \in Branches, lines \in Lines :
       CreateBranchOperation(type, b, lines)
  \/ \E source, destination \in Branches, lines \in Lines :
       CreateTransfer(source, destination, lines)
  \/ \E i \in 1..MaxOps : Reverse(i)

Spec == Init /\ [][Next]_ledgerVars

-----------------------------------------------------------------------------
(* Properties *)

\* Quantities are never negative (the check constraint of inventory_balance)
\* and every row has the shape of its table.
TypeOK ==
  /\ balance \in [Locations -> [Products -> Nat]]
  /\ operations \in Seq(Operations)

Touches(i, l, p) ==
  /\ operations[i].moves[p].quantity > 0
  /\ l \in {operations[i].moves[p].source, operations[i].moves[p].destination}

\* The balance operation i recorded for a row it touched.
After(i, l, p) ==
  LET m == operations[i].moves[p]
  IN IF m.source = l THEN m.sourceAfter ELSE m.destinationAfter

\* The balances can be rebuilt from the movements alone: a row's balance is the
\* one its latest movement recorded, zero if nothing ever touched it, and each
\* movement recorded its predecessor's balance changed by its own quantity.
\* This is what an auditor of inventory_movement relies on: applyMovement stores
\* source_balance_after and destination_balance_after beside the balance it updates.
LedgerReproducesBalances ==
  \A l \in Locations, p \in Products :
    LET rows == {i \in 1..Len(operations) : Touches(i, l, p)} IN
    /\ rows = {} => balance[l][p] = 0
    /\ \A i \in rows :
         /\ (\A j \in rows : j <= i) => balance[l][p] = After(i, l, p)
         /\ (\A j \in rows : i <= j) => After(i, l, p) = Delta(operations[i].moves[p], l)
         /\ \A j \in rows :
              (i < j /\ \A k \in rows : k <= i \/ j <= k) =>
                After(j, l, p) = After(i, l, p) + Delta(operations[j].moves[p], l)

\* A reversal undoes one earlier operation exactly: the same products and
\* quantities, the opposite direction, the same type; and no operation is undone
\* twice (reverses_operation_id and reverses_movement_id are unique).
ReversalsAreExact ==
  \A i \in 1..Len(operations) :
    LET undone == operations[i].reverses IN
    undone # 0 =>
      /\ undone < i
      /\ operations[i].type = operations[undone].type
      /\ \A p \in Products, l \in Locations :
           Delta(operations[i].moves[p], l) = -Delta(operations[undone].moves[p], l)
      /\ \A j \in 1..Len(operations) : operations[j].reverses = undone => j = i

\* A transfer, and the reversal of one, moves stock between two branches and
\* neither creates nor destroys any: for every product the gain of one row is the
\* loss of one other (createTransfer passes both endpoints to applyMovement).
TransfersConserve ==
  [][ Len(operations') > Len(operations) /\ operations'[Len(operations')].type = "TRANSFER" =>
        \A p \in Products, l \in Locations :
          balance'[l][p] > balance[l][p] =>
            \E k \in Locations : balance[k][p] - balance'[k][p] = balance'[l][p] - balance[l][p]
    ]_ledgerVars
=============================================================================
