------------------------ MODULE RouteLifecycleProofs ------------------------
(***************************************************************************)
(* The properties of a delivery route, for any branches, routes, products, *)
(* sales, stock and bounds: every handler keeps the ledger's own invariant *)
(* (StockLedgerProofs), and the stock of a truck stays what the route's    *)
(* records say.                                                            *)
(***************************************************************************)
EXTENDS RouteLifecycle, SumTheorems, SequenceTheorems

LP == INSTANCE StockLedgerProofs

-----------------------------------------------------------------------------
(* The inductive invariant *)

\* What rows hold that follows from how handlers write them: a route that was created has
\* an origin; a load that was saved and a sale that was confirmed have lines; the goods of
\* a sale go somewhere only when it is cancelled.
RowsHold ==
  /\ \A r \in Routes :
       /\ route[r].state = "NONE" => route[r].version = 0
       /\ route[r].state # "NONE" => route[r].origin \in Branches
       /\ load[r].state = "CONFIRMED" => route[r].state # "NONE"
  /\ \A s \in Sales :
       /\ sale[s].status = "NONE" <=> sale[s].route = Null
       /\ sale[s].status # "CANCELLED" => sale[s].destination = Null

\* sum(sale_line.quantity) of completed sales of r, and of its sales cancelled to a branch,
\* of a given table of sales.
TotalOf(table, sales, p) == SumFunctionOnSet([s \in Sales |-> table[s].lines[p]], sales)

SoldOf(table, r, p) ==
  TotalOf(table, {s \in Sales : table[s].route = r /\ table[s].status = "COMPLETED"}, p)

DivertedOf(table, r, p) ==
  TotalOf(table, {s \in Sales : table[s].route = r /\ table[s].destination \in Branches}, p)

\* What the records of r say its truck carries.
Books(r, p) ==
  IF load[r].state = "CONFIRMED" /\ reconciliation[r] = Null
  THEN load[r].lines[p] - SoldOf(sale, r, p) - DivertedOf(sale, r, p)
  ELSE 0

StockHolds == \A r \in Routes : ~Reworked(r) => \A p \in Products : balance[r][p] = Books(r, p)

\* A declared return was expected with the sales of its day.  Those cancelled to the branch
\* since then have left the sold quantity and joined the diverted one.
DeclaredHolds ==
  \A r \in Routes : declared[r] # Null => \A p \in Products :
    /\ declared[r].expected[p] <= load[r].lines[p] - SoldOf(sale, r, p)
    /\ declared[r].expected[p] >= load[r].lines[p] - SoldOf(sale, r, p) - DivertedOf(sale, r, p)

\* A reconciliation adds up, and what it counted as sold is sold or diverted now.
ReconciledHolds ==
  \A r \in Routes : reconciliation[r] # Null => \A p \in Products :
    /\ load[r].lines[p] = reconciliation[r].sold[p] + reconciliation[r].expected[p]
    /\ reconciliation[r].expected[p]
         = reconciliation[r].physical[p] + reconciliation[r].difference[p]
    /\ ~Reworked(r) =>
         /\ reconciliation[r].sold[p] = SoldOf(sale, r, p) + DivertedOf(sale, r, p)
         /\ declared[r] # Null => declared[r].expected[p] = reconciliation[r].expected[p]

RowTypes ==
  /\ route \in [Routes -> RouteRows]
  /\ load \in [Routes -> LoadRows]
  /\ sale \in [Sales -> SaleRows]
  /\ declared \in [Routes -> DeclaredReturns \cup {Null}]
  /\ reconciliation \in [Routes -> Reconciliations \cup {Null}]

IInv ==
  /\ LP!IInv
  /\ RowTypes
  /\ RowsHold
  /\ LifecycleHolds
  /\ StockHolds
  /\ DeclaredHolds
  /\ ReconciledHolds

-----------------------------------------------------------------------------
(* Sold quantities *)

\* Totals of quantities are quantities.
LEMMA TotalType ==
  ASSUME NEW table \in [Sales -> SaleRows], NEW sales \in SUBSET Sales, NEW p \in Products
  PROVE  TotalOf(table, sales, p) \in Nat
<1>1. IsFiniteSet(sales)
  BY RouteAssumption, FS_Subset
<1>2. \A s \in sales : [t \in Sales |-> table[t].lines[p]][s] \in Nat
  BY DEF SaleRows, Quantities
<1> QED
  BY <1>1, <1>2, SumNat DEF TotalOf

\* One sale changes, and joins or leaves what is totalled: the total changes by its lines.
LEMMA TotalChanges ==
  ASSUME NEW old \in [Sales -> SaleRows], NEW new \in [Sales -> SaleRows],
         NEW s \in Sales, NEW p \in Products, NEW A \in SUBSET Sales, NEW B \in SUBSET Sales,
         \A t \in Sales \ {s} : new[t] = old[t] /\ (t \in A <=> t \in B)
  PROVE  TotalOf(new, B, p) - (IF s \in B THEN new[s].lines[p] ELSE 0)
           = TotalOf(old, A, p) - (IF s \in A THEN old[s].lines[p] ELSE 0)
<1> DEFINE f == [t \in Sales |-> old[t].lines[p]]
           g == [t \in Sales |-> new[t].lines[p]]
           rest == A \ {s}
<1>1. \A t \in Sales : f[t] \in Int /\ g[t] \in Int
  BY DEF SaleRows, Quantities
<1>2. \A t \in rest : f[t] = g[t]
  OBVIOUS
<1>3. IsFiniteSet(A) /\ IsFiniteSet(B) /\ IsFiniteSet(rest)
  BY RouteAssumption, FS_Subset
<1>4. B \ {s} = rest
  OBVIOUS
<1>5. f[s] = old[s].lines[p] /\ g[s] = new[s].lines[p]
  OBVIOUS
<1> HIDE DEF f, g, rest
<1>6. SumFunctionOnSet(f, A) = (IF s \in A THEN f[s] ELSE 0) + SumFunctionOnSet(f, rest)
  <2>1. CASE s \in A
    BY <1>1, <1>3, <2>1, SumRemove DEF rest
  <2>2. CASE s \notin A
    <3>1. rest = A
      BY <2>2 DEF rest
    <3>2. SumFunctionOnSet(f, A) \in Int
      BY <1>1, <1>3, SumInt
    <3> QED BY <2>2, <3>1, <3>2
  <2> QED BY <2>1, <2>2
<1>7. SumFunctionOnSet(g, B) = (IF s \in B THEN g[s] ELSE 0) + SumFunctionOnSet(g, rest)
  <2>1. CASE s \in B
    BY <1>1, <1>3, <1>4, <2>1, SumRemove
  <2>2. CASE s \notin B
    <3>1. rest = B
      BY <1>4, <2>2
    <3>2. SumFunctionOnSet(g, B) \in Int
      BY <1>1, <1>3, SumInt DEF rest
    <3> QED BY <2>2, <3>1, <3>2
  <2> QED BY <2>1, <2>2
<1>8. SumFunctionOnSet(f, rest) = SumFunctionOnSet(g, rest)
  BY <1>1, <1>2, <1>3, SumCongruent DEF rest
<1>9. SumFunctionOnSet(f, rest) \in Int
  BY <1>1, <1>3, SumInt DEF rest
<1>10. TotalOf(new, B, p) = SumFunctionOnSet(g, B) /\ TotalOf(old, A, p) = SumFunctionOnSet(f, A)
  BY DEF TotalOf, f, g
<1> QED
  BY <1>1, <1>5, <1>6, <1>7, <1>8, <1>9, <1>10

\* What one sale adds to the totals.
SoldPart(row, r, p) == IF row.route = r /\ row.status = "COMPLETED" THEN row.lines[p] ELSE 0
DivertedPart(row, r, p) ==
  IF row.route = r /\ row.destination \in Branches THEN row.lines[p] ELSE 0
CompletedPart(row, p) == IF row.status = "COMPLETED" THEN row.lines[p] ELSE 0

CompletedOf(table, p) == TotalOf(table, {s \in Sales : table[s].status = "COMPLETED"}, p)

\* The totals follow the one sale that changes.
LEMMA TotalsChange ==
  ASSUME NEW old \in [Sales -> SaleRows], NEW new \in [Sales -> SaleRows],
         NEW s \in Sales, \A t \in Sales \ {s} : new[t] = old[t], NEW p \in Products
  PROVE  /\ \A r : SoldOf(new, r, p)
                     = SoldOf(old, r, p) + SoldPart(new[s], r, p) - SoldPart(old[s], r, p)
         /\ \A r : DivertedOf(new, r, p)
                     = DivertedOf(old, r, p) + DivertedPart(new[s], r, p) - DivertedPart(old[s], r, p)
         /\ CompletedOf(new, p)
              = CompletedOf(old, p) + CompletedPart(new[s], p) - CompletedPart(old[s], p)
<1>1. new[s].lines[p] \in Nat /\ old[s].lines[p] \in Nat
  BY DEF SaleRows, Quantities
<1>2. ASSUME NEW A \in SUBSET Sales, NEW B \in SUBSET Sales,
             \A t \in Sales \ {s} : t \in A <=> t \in B
      PROVE  TotalOf(new, B, p)
               = TotalOf(old, A, p) + (IF s \in B THEN new[s].lines[p] ELSE 0)
                                    - (IF s \in A THEN old[s].lines[p] ELSE 0)
  <2>1. TotalOf(new, B, p) \in Nat /\ TotalOf(old, A, p) \in Nat
    BY TotalType
  <2>2. TotalOf(new, B, p) - (IF s \in B THEN new[s].lines[p] ELSE 0)
          = TotalOf(old, A, p) - (IF s \in A THEN old[s].lines[p] ELSE 0)
    BY <1>2, TotalChanges
  <2> QED BY <1>1, <2>1, <2>2
<1>3. ASSUME NEW r
      PROVE  SoldOf(new, r, p)
               = SoldOf(old, r, p) + SoldPart(new[s], r, p) - SoldPart(old[s], r, p)
  <2> DEFINE A == {t \in Sales : old[t].route = r /\ old[t].status = "COMPLETED"}
             B == {t \in Sales : new[t].route = r /\ new[t].status = "COMPLETED"}
  <2>1. A \in SUBSET Sales /\ B \in SUBSET Sales /\ \A t \in Sales \ {s} : t \in A <=> t \in B
    OBVIOUS
  <2>2. /\ SoldPart(new[s], r, p) = IF s \in B THEN new[s].lines[p] ELSE 0
        /\ SoldPart(old[s], r, p) = IF s \in A THEN old[s].lines[p] ELSE 0
    BY DEF SoldPart
  <2>3. SoldOf(old, r, p) = TotalOf(old, A, p) /\ SoldOf(new, r, p) = TotalOf(new, B, p)
    BY DEF SoldOf
  <2> HIDE DEF A, B
  <2> QED BY <1>2, <2>1, <2>2, <2>3
<1>4. ASSUME NEW r
      PROVE  DivertedOf(new, r, p)
               = DivertedOf(old, r, p) + DivertedPart(new[s], r, p) - DivertedPart(old[s], r, p)
  <2> DEFINE A == {t \in Sales : old[t].route = r /\ old[t].destination \in Branches}
             B == {t \in Sales : new[t].route = r /\ new[t].destination \in Branches}
  <2>1. A \in SUBSET Sales /\ B \in SUBSET Sales /\ \A t \in Sales \ {s} : t \in A <=> t \in B
    OBVIOUS
  <2>2. /\ DivertedPart(new[s], r, p) = IF s \in B THEN new[s].lines[p] ELSE 0
        /\ DivertedPart(old[s], r, p) = IF s \in A THEN old[s].lines[p] ELSE 0
    BY DEF DivertedPart
  <2>3. DivertedOf(old, r, p) = TotalOf(old, A, p) /\ DivertedOf(new, r, p) = TotalOf(new, B, p)
    BY DEF DivertedOf
  <2> HIDE DEF A, B
  <2> QED BY <1>2, <2>1, <2>2, <2>3
<1>5. CompletedOf(new, p)
        = CompletedOf(old, p) + CompletedPart(new[s], p) - CompletedPart(old[s], p)
  <2> DEFINE A == {t \in Sales : old[t].status = "COMPLETED"}
             B == {t \in Sales : new[t].status = "COMPLETED"}
  <2>1. A \in SUBSET Sales /\ B \in SUBSET Sales /\ \A t \in Sales \ {s} : t \in A <=> t \in B
    OBVIOUS
  <2>2. /\ CompletedPart(new[s], p) = IF s \in B THEN new[s].lines[p] ELSE 0
        /\ CompletedPart(old[s], p) = IF s \in A THEN old[s].lines[p] ELSE 0
    BY DEF CompletedPart
  <2>3. CompletedOf(old, p) = TotalOf(old, A, p) /\ CompletedOf(new, p) = TotalOf(new, B, p)
    BY DEF CompletedOf
  <2> HIDE DEF A, B
  <2> QED BY <1>2, <2>1, <2>2, <2>3
<1> QED
  BY <1>3, <1>4, <1>5

\* The totals are quantities, and 0 for a route without sales.
LEMMA TotalsType ==
  ASSUME NEW table \in [Sales -> SaleRows], NEW p \in Products
  PROVE  /\ CompletedOf(table, p) \in Nat
         /\ \A r : SoldOf(table, r, p) \in Nat /\ DivertedOf(table, r, p) \in Nat
         /\ \A r : (\A s \in Sales : table[s].route # r) =>
                     SoldOf(table, r, p) = 0 /\ DivertedOf(table, r, p) = 0
<1>1. CompletedOf(table, p) \in Nat
  BY TotalType DEF CompletedOf
<1>2. ASSUME NEW r PROVE SoldOf(table, r, p) \in Nat /\ DivertedOf(table, r, p) \in Nat
  <2>1. /\ {s \in Sales : table[s].route = r /\ table[s].status = "COMPLETED"} \in SUBSET Sales
        /\ {s \in Sales : table[s].route = r /\ table[s].destination \in Branches} \in SUBSET Sales
    OBVIOUS
  <2> QED BY <2>1, TotalType DEF SoldOf, DivertedOf
<1>3. ASSUME NEW r, \A s \in Sales : table[s].route # r
      PROVE  SoldOf(table, r, p) = 0 /\ DivertedOf(table, r, p) = 0
  <2>1. /\ {s \in Sales : table[s].route = r /\ table[s].status = "COMPLETED"} = {}
        /\ {s \in Sales : table[s].route = r /\ table[s].destination \in Branches} = {}
    BY <1>3
  <2> QED BY <2>1, SumEmpty DEF SoldOf, DivertedOf, TotalOf
<1> QED
  BY <1>1, <1>2, <1>3

\* The handlers read these totals.
LEMMA HandlersReadTotals ==
  ASSUME NEW r, NEW p \in Products
  PROVE  /\ Sold(r)[p] = SoldOf(sale, r, p)
         /\ Expected(r)[p] = load[r].lines[p] - SoldOf(sale, r, p)
         /\ Diverted(r)[p] = DivertedOf(sale, r, p)
  BY DEF Sold, Expected, Diverted, Total, SoldOf, DivertedOf, TotalOf

-----------------------------------------------------------------------------
(* The ledger under the routes *)

\* StockLedgerProofs speaks about the same ledger.
LEMMA LedgerAssumed ==
  /\ MaxQty \in Nat /\ MaxOps \in Nat /\ Branches \cap Routes = {}
  /\ Null \notin LP!Locations /\ LP!Locations = L!Locations /\ L!Locations = Branches \cup Routes
  /\ LP!Endpoints = L!Endpoints /\ L!Endpoints = L!Locations \cup {Null}
  /\ LP!OperationTypes = L!OperationTypes
  BY RouteAssumption DEF LP!Locations, L!Locations, LP!Endpoints, L!Endpoints,
                         LP!OperationTypes, L!OperationTypes

\* The ledger of this module and the instance L of it are built from the same operators.
LEMMA SameOperators ==
  /\ \A m, l : LP!Delta(m, l) = L!Delta(m, l)
  /\ \A q, a, b : LP!Move(q, a, b) = L!Move(q, a, b)
  /\ \A lines, a, b : LP!MovesOf(lines, a, b) = L!MovesOf(lines, a, b)
  /\ \A bal, moves : LP!ApplyMoves(bal, moves) = L!ApplyMoves(bal, moves)
  /\ \A bal, p, m : LP!Recorded(bal, p, m) = L!Recorded(bal, p, m)
  /\ \A bal, moves : LP!Covered(bal, moves) = L!Covered(bal, moves)
  /\ LP!Lines = L!Lines /\ LP!BranchOperationTypes = L!BranchOperationTypes
  /\ LP!Movements = L!Movements /\ LP!Operations = L!Operations
  BY Zenon DEF L!Delta, LP!Delta, L!Move, LP!Move, L!MovesOf, LP!MovesOf, L!Recorded, LP!Recorded,
         L!ApplyMoves, LP!ApplyMoves, L!Locations, LP!Locations, L!Covered, LP!Covered,
         L!Lines, LP!Lines, L!BranchOperationTypes, LP!BranchOperationTypes,
         L!Movements, LP!Movements, L!Operations, LP!Operations,
         L!OperationTypes, LP!OperationTypes, L!Endpoints, LP!Endpoints

\* Posting an operation is the same action in both.
LEMMA SamePost ==
  ASSUME NEW type, NEW moves, NEW reverses
  PROVE  L!Post(type, moves, reverses) <=> LP!Post(type, moves, reverses)
  BY Zenon DEF L!Post, LP!Post, L!Covered, LP!Covered, L!ApplyMoves, LP!ApplyMoves, L!NewOperation,
         LP!NewOperation, L!Delta, LP!Delta, L!Recorded, LP!Recorded, L!Locations, LP!Locations

\* Both name the same locations a movement touches.
LEMMA SameTouches ==
  \A i, l, p : L!Touches(i, l, p) <=> LP!Touches(i, l, p)
  BY Zenon DEF L!Touches, LP!Touches

\* The invariants proved of the ledger are those of its instance.
LEMMA SameInvariants ==
  /\ L!TypeOK <=> LP!TypeOK
  /\ L!LedgerReproducesBalances <=> LP!LedgerReproducesBalances
  /\ L!ReversalsAreExact <=> LP!ReversalsAreExact
<1>1. L!TypeOK <=> LP!TypeOK
  BY Zenon DEF L!TypeOK, LP!TypeOK, L!Locations, LP!Locations, L!Operations, LP!Operations,
         L!OperationTypes, LP!OperationTypes, L!Movements, LP!Movements, L!Endpoints, LP!Endpoints
<1>2. L!LedgerReproducesBalances <=> LP!LedgerReproducesBalances
  BY Zenon DEF L!LedgerReproducesBalances, LP!LedgerReproducesBalances, L!Locations, LP!Locations,
         L!Touches, LP!Touches, L!After, LP!After, L!Delta, LP!Delta
<1>3. L!ReversalsAreExact <=> LP!ReversalsAreExact
  BY Zenon DEF L!ReversalsAreExact, LP!ReversalsAreExact, L!Locations, LP!Locations, L!Delta, LP!Delta
<1> QED
  BY <1>1, <1>2, <1>3

\* Operations are only appended.
Grown ==
  /\ Len(operations) \in Nat /\ Len(operations') \in Nat /\ Len(operations) <= Len(operations')
  /\ \A i \in 1..Len(operations) : operations'[i] = operations[i]

\* The balances after the lines of a request were moved.
Carried(lines, source, destination) ==
  \A l \in L!Locations, p \in Products :
    balance'[l][p] = balance[l][p] + (IF destination = l THEN lines[p] ELSE 0)
                                   - (IF source = l THEN lines[p] ELSE 0)

\* What a movement of lines adds to a location.
LEMMA LinesDelta ==
  ASSUME NEW lines \in Quantities, NEW source, NEW destination,
         NEW l \in L!Locations, NEW p \in Products
  PROVE  L!Delta(L!MovesOf(lines, source, destination)[p], l)
           = (IF destination = l THEN lines[p] ELSE 0) - (IF source = l THEN lines[p] ELSE 0)
<1>1. lines[p] \in Nat
  BY DEF Quantities
<1>2. L!MovesOf(lines, source, destination)[p] = L!Move(lines[p], source, destination)
  BY DEF L!MovesOf
<1>3. CASE lines[p] = 0
  BY <1>2, <1>3 DEF L!Delta, L!Move
<1>4. CASE lines[p] # 0
  BY <1>1, <1>2, <1>4 DEF L!Delta, L!Move
<1> QED
  BY <1>3, <1>4

\* Each handler of a route or a sale posts movements of lines between two endpoints.
LEMMA HandlerPosts ==
  ASSUME LP!IInv, NEW type \in L!OperationTypes, type # "TRANSFER",
         NEW lines \in Quantities,
         NEW source \in L!Endpoints, NEW destination \in L!Endpoints, source # destination,
         L!Post(type, L!MovesOf(lines, source, destination), 0)
  PROVE  /\ LP!IInv' /\ Grown /\ Carried(lines, source, destination)
         /\ LP!Posted(type, L!MovesOf(lines, source, destination), 0)
         /\ LP!Sound(L!MovesOf(lines, source, destination))
<1> DEFINE moves == L!MovesOf(lines, source, destination)
<1>1. LP!Sound(moves)
  <2>1. LP!Sound(LP!MovesOf(lines, source, destination))
    BY LedgerAssumed, LP!QuantitiesMoves DEF Quantities
  <2> QED BY <2>1, SameOperators
<1> HIDE DEF moves
<1>2. LP!Post(type, moves, 0)
  BY SamePost DEF moves
<1>3. LP!IInv' /\ LP!Posted(type, moves, 0)
  BY <1>1, <1>2, LedgerAssumed, LP!PostPreservesIInv, Zenon
<1>4. Grown
  BY <1>3 DEF LP!Posted, Grown
<1>5. Carried(lines, source, destination)
  <2> SUFFICES ASSUME NEW l \in L!Locations, NEW p \in Products
               PROVE  balance'[l][p] = balance[l][p] + (IF destination = l THEN lines[p] ELSE 0)
                                                     - (IF source = l THEN lines[p] ELSE 0)
    BY DEF Carried
  <2>1. balance'[l][p] = balance[l][p] + L!Delta(moves[p], l)
    BY <1>3, SameOperators DEF LP!Posted, L!ApplyMoves
  <2>2. balance[l][p] \in Nat /\ lines[p] \in Nat
    BY LedgerAssumed DEF LP!IInv, LP!TypeOK, Quantities
  <2>3. L!Delta(moves[p], l)
          = (IF destination = l THEN lines[p] ELSE 0) - (IF source = l THEN lines[p] ELSE 0)
    BY LinesDelta DEF moves
  <2> HIDE DEF moves
  <2> QED BY <2>1, <2>2, <2>3
<1> QED
  BY <1>1, <1>3, <1>4, <1>5 DEF moves

\* What an administrator posts on branches leaves the trucks alone.
LEMMA AdminPosts ==
  ASSUME LP!IInv, AdminOperation
  PROVE  /\ LP!IInv' /\ Grown
         /\ \A r \in Routes, p \in Products : balance'[r][p] = balance[r][p]
<1>1. ASSUME NEW type \in L!BranchOperationTypes, NEW b \in Branches, NEW lines \in L!Lines,
             L!CreateBranchOperation(type, b, lines)
      PROVE  LP!IInv' /\ Grown /\ \E a, c \in Branches \cup {Null} : Carried(lines, a, c)
  <2>1. lines \in Quantities
    BY LedgerAssumed DEF L!Lines, Quantities
  <2>2. type \in L!OperationTypes /\ type # "TRANSFER"
    BY DEF L!BranchOperationTypes, L!OperationTypes
  <2>3. b \in L!Endpoints /\ Null \in L!Endpoints /\ b # Null
    BY LedgerAssumed
  <2>4. CASE L!Creates(type)
    <3>1. L!Post(type, L!MovesOf(lines, Null, b), 0)
      BY <1>1, <2>4 DEF L!CreateBranchOperation, L!BranchMoves
    <3> QED BY <2>1, <2>2, <2>3, <3>1, HandlerPosts
  <2>5. CASE ~L!Creates(type)
    <3>1. L!Post(type, L!MovesOf(lines, b, Null), 0)
      BY <1>1, <2>5 DEF L!CreateBranchOperation, L!BranchMoves
    <3> QED BY <2>1, <2>2, <2>3, <3>1, HandlerPosts
  <2> QED BY <2>4, <2>5
<1>2. ASSUME NEW a \in Branches, NEW c \in Branches, NEW lines \in L!Lines,
             L!CreateTransfer(a, c, lines)
      PROVE  LP!IInv' /\ Grown /\ Carried(lines, a, c)
  <2>1. LP!CreateTransfer(a, c, lines)
    BY <1>2, SamePost, SameOperators DEF L!CreateTransfer, LP!CreateTransfer
  <2>2. LP!IInv' /\ LP!Posted("TRANSFER", LP!MovesOf(lines, a, c), 0)
    <3>1. lines \in LP!Lines
      BY SameOperators
    <3> QED BY <2>1, <3>1, LedgerAssumed, LP!TransferPosts, Zenon
  <2>3. Grown
    BY <2>2 DEF LP!Posted, Grown
  <2>4. lines \in Quantities
    BY LedgerAssumed DEF L!Lines, Quantities
  <2>5. ASSUME NEW l \in L!Locations, NEW p \in Products
        PROVE  balance'[l][p] = balance[l][p] + (IF c = l THEN lines[p] ELSE 0)
                                              - (IF a = l THEN lines[p] ELSE 0)
    <3>1. balance'[l][p] = balance[l][p] + L!Delta(L!MovesOf(lines, a, c)[p], l)
      BY <2>2, SameOperators DEF LP!Posted, L!ApplyMoves
    <3>2. balance[l][p] \in Nat /\ lines[p] \in Nat
      BY <2>4, LedgerAssumed DEF LP!IInv, LP!TypeOK, Quantities
    <3> QED BY <2>4, <3>1, <3>2, LinesDelta
  <2> QED BY <2>2, <2>3, <2>5 DEF Carried
<1>3. LP!IInv' /\ Grown /\ \E lines \in Quantities, a, c \in Branches \cup {Null} : Carried(lines, a, c)
  <2>1. \A lines \in L!Lines : lines \in Quantities
    BY LedgerAssumed DEF L!Lines, Quantities
  <2> QED BY <1>1, <1>2, <2>1 DEF AdminOperation
<1>4. PICK lines \in Quantities, a, c \in Branches \cup {Null} : Carried(lines, a, c)
  BY <1>3
<1>5. ASSUME NEW r \in Routes, NEW p \in Products
      PROVE  balance'[r][p] = balance[r][p]
  <2>1. r \in L!Locations /\ r # a /\ r # c
    BY LedgerAssumed
  <2>2. balance[r][p] \in Nat
    BY <2>1, LedgerAssumed DEF LP!IInv, LP!TypeOK
  <2> QED BY <1>4, <2>1, <2>2 DEF Carried
<1> QED
  BY <1>3, <1>5

\* A reversal changes the stock of a truck only if it reworks that route.
LEMMA ReversalPosts ==
  ASSUME LP!IInv, NEW i \in 1..MaxOps, ReverseOperation(i)
  PROVE  /\ LP!IInv' /\ Grown
         /\ \A r \in Routes : ~Reworked(r)' => \A p \in Products : balance'[r][p] = balance[r][p]
<1> DEFINE moves == LP!Inverse(operations[i].moves)
<1>1. LP!Reverse(i)
  <2>1. L!Inverse(operations[i].moves) = LP!Inverse(operations[i].moves)
    BY SameOperators, Zenon DEF L!Inverse, LP!Inverse
  <2>2. L!Reversed(i) <=> LP!Reversed(i)
    BY DEF L!Reversed, LP!Reversed
  <2> QED BY <2>1, <2>2, SamePost DEF ReverseOperation, L!Reverse, LP!Reverse
<1>2. /\ i \in 1..Len(operations)
      /\ LP!IInv' /\ LP!Posted(operations[i].type, moves, i)
  <2>1. i \in Nat
    BY LedgerAssumed
  <2> QED BY <1>1, <2>1, LedgerAssumed, LP!ReversalPosts, Zenon
<1>3. Grown
  BY <1>2 DEF LP!Posted, Grown
<1>4. LP!Sound(moves)
  BY <1>2, LedgerAssumed, LP!InverseMoves, Zenon DEF LP!IInv
<1>5. ASSUME NEW r \in Routes, ~Reworked(r)', NEW p \in Products
      PROVE  balance'[r][p] = balance[r][p]
  <2>1. PICK n \in Nat : n = Len(operations) + 1
    BY <1>2 DEF LP!Posted
  <2>2. n \in 1..Len(operations') /\ operations'[n].reverses # 0
    BY <1>2, <2>1 DEF LP!Posted
  <2>3. ~LP!Touches(n, r, p)'
    BY <1>5, <2>2, SameTouches DEF Reworked, LP!Touches, L!Touches
  <2>4. r \in LP!Locations
    BY LedgerAssumed
  <2> HIDE DEF moves
  <2>5. LP!TypeOK
    BY DEF LP!IInv
  <2>6. ~LP!Touches(n, r, p)' => balance'[r][p] = balance[r][p]
    BY <1>2, <1>4, <2>1, <2>4, <2>5, LedgerAssumed, LP!PostedRow, Zenon
  <2> QED BY <2>3, <2>6
<1> QED
  BY <1>2, <1>3, <1>5

\* Reworked stays true.
LEMMA ReworkedStays ==
  ASSUME Grown, NEW r, Reworked(r)
  PROVE  Reworked(r)'
<1>1. PICK i \in 1..Len(operations) :
        operations[i].reverses # 0 /\ \E p \in Products : L!Touches(i, r, p)
  BY DEF Reworked
<1>2. i \in 1..Len(operations') /\ operations'[i] = operations[i]
  BY DEF Grown
<1>3. operations'[i].reverses # 0 /\ \E p \in Products : L!Touches(i, r, p)'
  BY <1>1, <1>2 DEF L!Touches
<1> QED
  BY <1>2, <1>3 DEF Reworked

-----------------------------------------------------------------------------
(* Several operations at once *)

\* LedgerReproducesBalances of a given ledger, between the adjustments and the return
\* of a reconciliation too.
TouchedBy(m, l) == m.quantity > 0 /\ l \in {m.source, m.destination}
LeftBy(m, l) == IF m.source = l THEN m.sourceAfter ELSE m.destinationAfter

RowReproduced(bal, ops, l, p) ==
  LET rows == {i \in 1..Len(ops) : TouchedBy(ops[i].moves[p], l)} IN
  /\ rows = {} => bal[l][p] = 0
  /\ \A i \in rows :
       /\ (\A j \in rows : j <= i) => bal[l][p] = LeftBy(ops[i].moves[p], l)
       /\ (\A j \in rows : i <= j) => LeftBy(ops[i].moves[p], l) = L!Delta(ops[i].moves[p], l)
       /\ \A j \in rows :
            (i < j /\ \A k \in rows : k <= i \/ j <= k) =>
              LeftBy(ops[j].moves[p], l)
                = LeftBy(ops[i].moves[p], l) + L!Delta(ops[j].moves[p], l)

Reproduces(bal, ops) ==
  \A l \in L!Locations, p \in Products : RowReproduced(bal, ops, l, p)

\* That balances are reproduced by the movements, as a predicate on a table and its rows.
LEMMA SameReproduces == L!LedgerReproducesBalances <=> Reproduces(balance, operations)
  BY Zenon DEF L!LedgerReproducesBalances, Reproduces, RowReproduced, L!Touches, L!After,
               TouchedBy, LeftBy

\* A row that one of the new operations touches, at most, stays reproduced.
LEMMA RowStaysReproduced ==
  ASSUME NEW bal, NEW new, NEW ops, NEW more, NEW l, NEW p,
         Len(ops) \in Nat, Len(more) \in Nat, Len(ops) <= Len(more),
         \A i \in 1..Len(ops) : more[i] = ops[i],
         RowReproduced(bal, ops, l, p),
         bal[l][p] \in Nat,
         \/ /\ new[l][p] = bal[l][p]
            /\ \A i \in Len(ops) + 1..Len(more) : ~TouchedBy(more[i].moves[p], l)
         \/ \E k \in Len(ops) + 1..Len(more) :
              /\ \A i \in Len(ops) + 1..Len(more) : TouchedBy(more[i].moves[p], l) <=> i = k
              /\ L!Delta(more[k].moves[p], l) \in Int
              /\ new[l][p] = bal[l][p] + L!Delta(more[k].moves[p], l)
              /\ LeftBy(more[k].moves[p], l) = new[l][p]
  PROVE  RowReproduced(new, more, l, p)
<1> DEFINE old == {i \in 1..Len(ops) : TouchedBy(ops[i].moves[p], l)}
           rows == {i \in 1..Len(more) : TouchedBy(more[i].moves[p], l)}
           Left(i) == LeftBy(more[i].moves[p], l)
           Add(i) == L!Delta(more[i].moves[p], l)
<1>1. /\ old = {} => bal[l][p] = 0
      /\ \A i \in old :
           /\ (\A j \in old : j <= i) => bal[l][p] = Left(i)
           /\ (\A j \in old : i <= j) => Left(i) = Add(i)
           /\ \A j \in old :
                (i < j /\ \A k \in old : k <= i \/ j <= k) => Left(j) = Left(i) + Add(j)
  BY DEF RowReproduced
<1>2. SUFFICES
      /\ rows = {} => new[l][p] = 0
      /\ \A i \in rows :
           /\ (\A j \in rows : j <= i) => new[l][p] = Left(i)
           /\ (\A j \in rows : i <= j) => Left(i) = Add(i)
           /\ \A j \in rows :
                (i < j /\ \A k \in rows : k <= i \/ j <= k) => Left(j) = Left(i) + Add(j)
  BY DEF RowReproduced
<1>3. old \subseteq 1..Len(ops) /\ old \subseteq rows
      /\ rows \subseteq old \cup (Len(ops) + 1..Len(more)) /\ IsFiniteSet(old)
  <2>1. IsFiniteSet(1..Len(ops))
    BY FS_Interval
  <2> QED BY <2>1, FS_Subset
<1>4. CASE /\ new[l][p] = bal[l][p]
           /\ \A i \in Len(ops) + 1..Len(more) : ~TouchedBy(more[i].moves[p], l)
  <2>1. rows = old
    BY <1>3, <1>4
  <2> HIDE DEF rows, old, Left, Add
  <2> QED BY <1>1, <1>4, <2>1
<1>5. ASSUME NEW k \in Len(ops) + 1..Len(more),
             \A i \in Len(ops) + 1..Len(more) : TouchedBy(more[i].moves[p], l) <=> i = k,
             Add(k) \in Int, new[l][p] = bal[l][p] + Add(k), Left(k) = new[l][p]
      PROVE  /\ rows = {} => new[l][p] = 0
             /\ \A i \in rows :
                  /\ (\A j \in rows : j <= i) => new[l][p] = Left(i)
                  /\ (\A j \in rows : i <= j) => Left(i) = Add(i)
                  /\ \A j \in rows :
                       (i < j /\ \A h \in rows : h <= i \/ j <= h) => Left(j) = Left(i) + Add(j)
  <2>1. rows = old \cup {k} /\ k \in Nat /\ \A i \in old : i \in Nat /\ i < k
    BY <1>3, <1>5
  <2> HIDE DEF rows, old, Left, Add
  <2>2. ASSUME NEW i \in rows, \A j \in rows : j <= i PROVE new[l][p] = Left(i)
    <3>1. k <= i
      BY <2>1, <2>2
    <3>2. i = k
      <4>1. CASE i \in old
        BY <2>1, <3>1, <4>1
      <4> QED BY <2>1, <4>1
    <3> QED BY <1>5, <3>2
  <2>3. ASSUME NEW i \in rows, \A j \in rows : i <= j PROVE Left(i) = Add(i)
    <3>1. CASE old = {}
      <4>1. i = k /\ bal[l][p] = 0
        BY <1>1, <2>1, <3>1
      <4> QED BY <1>5, <4>1
    <3>2. CASE old # {}
      <4>1. i \in old /\ \A j \in old : i <= j
        BY <2>1, <2>3, <3>2
      <4> QED BY <1>1, <4>1
    <3> QED BY <3>1, <3>2
  <2>4. ASSUME NEW i \in rows, NEW j \in rows, i < j, \A h \in rows : h <= i \/ j <= h
        PROVE  Left(j) = Left(i) + Add(j)
    <3>1. i \in old
      BY <2>1, <2>4
    <3>2. CASE j \in old
      <4>1. \A h \in old : h <= i \/ j <= h
        BY <2>1, <2>4
      <4> QED BY <1>1, <2>4, <3>1, <3>2, <4>1
    <3>3. CASE j = k
      <4>1. \A h \in old : h <= i
        BY <2>1, <2>4, <3>3
      <4> QED BY <1>1, <1>5, <3>1, <3>3, <4>1
    <3> QED BY <2>1, <3>2, <3>3
  <2> QED BY <2>1, <2>2, <2>3, <2>4
<1> QED
  BY <1>4, <1>5

\* How a recorded movement touches a row, and what it leaves there.
LEMMA RecordedRow ==
  ASSUME NEW bal, NEW p, NEW l \in L!Locations, bal[l][p] \in Nat,
         NEW m \in L!Commands, m.quantity = 0 <=> m.source = m.destination,
         NEW row, row = L!Recorded(bal, p, m)
  PROVE  /\ L!Delta(m, l) \in Int /\ L!Delta(row, l) = L!Delta(m, l)
         /\ TouchedBy(row, l) <=> m.quantity > 0 /\ l \in {m.source, m.destination}
         /\ TouchedBy(row, l) => LeftBy(row, l) = bal[l][p] + L!Delta(m, l)
         /\ ~TouchedBy(row, l) => L!Delta(m, l) = 0
<1>1. m.quantity \in Nat /\ l # Null
  BY LedgerAssumed DEF L!Commands
<1>2. L!Delta(m, l) \in Int
  BY <1>1 DEF L!Delta
<1>3. /\ row.quantity = m.quantity /\ row.source = m.source /\ row.destination = m.destination
      /\ m.source # Null => row.sourceAfter = bal[m.source][p] - m.quantity
      /\ m.destination # Null => row.destinationAfter = bal[m.destination][p] + m.quantity
  BY DEF L!Recorded
<1>4. L!Delta(row, l) = L!Delta(m, l)
  BY <1>3 DEF L!Delta
<1>5. TouchedBy(row, l) <=> m.quantity > 0 /\ l \in {m.source, m.destination}
  BY <1>3 DEF TouchedBy
<1>6. ASSUME TouchedBy(row, l) PROVE LeftBy(row, l) = bal[l][p] + L!Delta(m, l)
  <2>1. m.source # m.destination /\ l \in {m.source, m.destination}
    BY <1>1, <1>5, <1>6
  <2>2. CASE l = m.source
    BY <1>1, <1>3, <2>1, <2>2 DEF LeftBy, L!Delta
  <2>3. CASE l = m.destination
    BY <1>1, <1>3, <2>1, <2>3 DEF LeftBy, L!Delta
  <2> QED BY <2>1, <2>2, <2>3
<1>7. ASSUME ~TouchedBy(row, l) PROVE L!Delta(m, l) = 0
  BY <1>1, <1>5, <1>7 DEF L!Delta
<1> QED
  BY <1>2, <1>4, <1>5, <1>6, <1>7

\* The adjustment of one product brings the truck down by the difference.
LEMMA AdjustmentMoves ==
  ASSUME NEW r \in Routes, NEW difference \in [Products -> Int], NEW p \in Products,
         NEW m, m = AdjustmentMove(r, difference, p)
  PROVE  /\ m \in L!Commands
         /\ m.quantity = 0 <=> m.source = m.destination
         /\ m.quantity = 0 <=> difference[p] = 0
         /\ m.source \in {r, Null} /\ m.destination \in {r, Null}
         /\ \A l \in L!Locations : L!Delta(m, l) = IF l = r THEN -difference[p] ELSE 0
<1>1. /\ r \in L!Locations /\ r # Null /\ Null \notin L!Locations /\ difference[p] \in Int
      /\ {r, Null} \subseteq L!Endpoints
  BY LedgerAssumed
<1>2. ASSUME NEW q \in Nat, NEW a \in {r, Null}, NEW b \in {r, Null},
             m = [quantity |-> q, source |-> a, destination |-> b]
      PROVE  /\ m \in L!Commands
             /\ m.quantity = q /\ m.source = a /\ m.destination = b
             /\ \A l \in L!Locations :
                  L!Delta(m, l) = (IF b = l THEN q ELSE 0) - (IF a = l THEN q ELSE 0)
  BY <1>1, <1>2 DEF L!Commands, L!Delta
<1>3. CASE difference[p] > 0
  <2> DEFINE q == difference[p]
  <2>1. q \in Nat /\ q > 0
    BY <1>1, <1>3
  <2>2. m = [quantity |-> q, source |-> r, destination |-> Null]
    BY <1>1, <1>3 DEF AdjustmentMove, L!Move
  <2>3. /\ m \in L!Commands
        /\ m.quantity = q /\ m.source = r /\ m.destination = Null
        /\ \A l \in L!Locations :
             L!Delta(m, l) = (IF Null = l THEN q ELSE 0) - (IF r = l THEN q ELSE 0)
    BY <1>2, <2>1, <2>2
  <2> QED BY <1>1, <2>1, <2>3
<1>4. CASE difference[p] < 0
  <2> DEFINE q == -difference[p]
  <2>1. q \in Nat /\ q > 0 /\ difference[p] = -q
    BY <1>1, <1>4
  <2>2. m = [quantity |-> q, source |-> Null, destination |-> r]
    BY <1>1, <1>4 DEF AdjustmentMove, L!Move
  <2>3. /\ m \in L!Commands
        /\ m.quantity = q /\ m.source = Null /\ m.destination = r
        /\ \A l \in L!Locations :
             L!Delta(m, l) = (IF r = l THEN q ELSE 0) - (IF Null = l THEN q ELSE 0)
    BY <1>2, <2>1, <2>2
  <2> HIDE DEF q
  <2> QED BY <1>1, <2>1, <2>3
<1>5. CASE difference[p] = 0
  <2>1. m = [quantity |-> 0, source |-> Null, destination |-> Null]
    BY <1>5 DEF AdjustmentMove, L!Move
  <2>2. /\ m \in L!Commands
        /\ m.quantity = 0 /\ m.source = Null /\ m.destination = Null
        /\ \A l \in L!Locations :
             L!Delta(m, l) = (IF Null = l THEN 0 ELSE 0) - (IF Null = l THEN 0 ELSE 0)
    BY <1>2, <2>1
  <2> QED BY <1>1, <1>5, <2>2
<1> QED
  BY <1>1, <1>3, <1>4, <1>5

Differing(difference) == {p \in Products : difference[p] # 0}

\* d lists the K elements of D.
Enumerates(d, K, D) ==
  /\ d \in [1..K -> D]
  /\ \A i, j \in 1..K : d[i] = d[j] => i = j
  /\ \A p \in D : \E i \in 1..K : d[i] = p

\* The products that differ, one after another.
LEMMA DifferingProducts ==
  ASSUME NEW difference
  PROVE  \E K \in Nat : Enumerates(SetToSeq(Differing(difference)), K, Differing(difference))
<1> DEFINE D == Differing(difference)
           K == Cardinality(D)
<1>1. IsFiniteSet(D)
  BY RouteAssumption, FS_Subset DEF Differing
<1> HIDE DEF D
<1>2. K \in Nat /\ ExistsBijection(1..K, D)
  BY <1>1, FS_CardinalityType
<1>3. \E f \in [1..K -> D] : IsInjective(f)
  BY <1>2 DEF ExistsBijection, Bijection, Injection, Surjection, IsInjective
<1>4. SetToSeq(D) \in [1..K -> D] /\ IsInjective(SetToSeq(D))
  BY <1>3 DEF SetToSeq
<1> DEFINE f == SetToSeq(D)
<1> HIDE DEF f
<1>5. f \in Injection(1..K, D)
  BY <1>4 DEF IsInjective, Injection, f
<1>6. Cardinality(1..K) = K
  BY <1>2, FS_Interval
<1>7. f \in Surjection(1..K, D)
  BY <1>1, <1>5, <1>6, FS_Injection
<1>8. \A p \in D : \E i \in 1..K : f[i] = p
  BY <1>7 DEF Surjection
<1>9. \A i, j \in 1..K : f[i] = f[j] => i = j
  BY <1>4 DEF IsInjective, f
<1>10. Enumerates(f, K, D)
  BY <1>4, <1>8, <1>9 DEF Enumerates, f
<1> QED
  BY <1>2, <1>10 DEF D, f
\* An operation with sound and covered movements is a well-formed original.
LEMMA OperationOf ==
  ASSUME NEW bal \in [L!Locations -> [Products -> Nat]], NEW type \in L!OperationTypes,
         NEW moves, LP!Sound(moves), L!Covered(bal, moves),
         NEW op, op = L!NewOperation(bal, type, moves, 0)
  PROVE  /\ op \in L!Operations /\ op.type = type /\ op.reverses = 0
         /\ \A p \in Products :
              /\ op.moves[p] = L!Recorded(bal, p, moves[p])
              /\ op.moves[p].quantity = 0 <=> op.moves[p].source = op.moves[p].destination
<1>1. ASSUME NEW p \in Products PROVE L!Recorded(bal, p, moves[p]) \in L!Movements
  <2>1. bal \in [LP!Locations -> [Products -> Nat]] /\ LP!Covered(bal, moves)
    BY LedgerAssumed, SameOperators
  <2>2. LP!Recorded(bal, p, moves[p]) \in LP!Movements
    BY <2>1, LedgerAssumed, LP!RecordedType, Zenon
  <2> QED BY <2>2, SameOperators
<1>2. op.type = type /\ op.reverses = 0
      /\ op.moves = [p \in Products |-> L!Recorded(bal, p, moves[p])]
  BY DEF L!NewOperation
<1>3. op \in L!Operations
  BY <1>1 DEF L!NewOperation, L!Operations
<1>4. ASSUME NEW p \in Products
      PROVE  L!Recorded(bal, p, moves[p]).quantity = 0
               <=> L!Recorded(bal, p, moves[p]).source = L!Recorded(bal, p, moves[p]).destination
  <2>1. moves[p].quantity = 0 <=> moves[p].source = moves[p].destination
    BY DEF LP!Sound
  <2> QED BY <2>1 DEF L!Recorded
<1> QED
  BY <1>2, <1>3, <1>4

\* The movements of the adjustment of product p alone.
AdjustOnly(r, difference, p) ==
  [q \in Products |-> IF q = p THEN AdjustmentMove(r, difference, p) ELSE L!Move(0, Null, Null)]

\* The adjustments of a count are sound, together and one by one.
LEMMA AdjustmentsAreSound ==
  ASSUME NEW r \in Routes, NEW difference \in [Products -> Int]
  PROVE  /\ LP!Sound(Adjustments(r, difference))
         /\ \A p \in Products : LP!Sound(AdjustOnly(r, difference, p))
<1>1. LP!Commands = L!Commands
  BY LedgerAssumed DEF LP!Commands, L!Commands
<1>2. \A p \in Products : LET m == AdjustmentMove(r, difference, p) IN
        m \in L!Commands /\ (m.quantity = 0 <=> m.source = m.destination)
  BY AdjustmentMoves
<1>3. LET m == L!Move(0, Null, Null) IN
        m \in L!Commands /\ (m.quantity = 0 <=> m.source = m.destination)
  BY LedgerAssumed DEF L!Move, L!Commands
<1> QED
  BY <1>1, <1>2, <1>3 DEF LP!Sound, Adjustments, AdjustOnly

\* ops adjusts the K products of d, one each, and they are those that differ.
AdjustsEach(ops, r, difference, K, d) ==
  /\ ops \in Seq(L!Operations) /\ Len(ops) = K
  /\ \A i \in 1..K :
       /\ d[i] \in Products /\ difference[d[i]] # 0
       /\ ops[i].type = AdjustmentType(difference, d[i]) /\ ops[i].reverses = 0
       /\ \A p \in Products :
            /\ ops[i].moves[p] = L!Recorded(balance, p, AdjustOnly(r, difference, d[i])[p])
            /\ ops[i].moves[p].quantity = 0 <=> ops[i].moves[p].source = ops[i].moves[p].destination
  /\ \A p \in Products : difference[p] # 0 =>
       \E k \in 1..K : d[k] = p /\ \A i \in 1..K : d[i] = p <=> i = k

\* The adjustments of a count, one operation for each product that differs.
LEMMA AdjustmentsOfCount ==
  ASSUME balance \in [L!Locations -> [Products -> Nat]], NEW r \in Routes,
         NEW difference \in [Products -> Int], L!Covered(balance, Adjustments(r, difference))
  PROVE  \E K \in Nat : \E d :
           AdjustsEach(AdjustmentOperations(r, difference), r, difference, K, d)
<1> DEFINE D == Differing(difference)
           d == SetToSeq(D)
           ops == AdjustmentOperations(r, difference)
<1>1. PICK K \in Nat : Enumerates(d, K, D)
  BY DifferingProducts
<1>2. ops = [i \in 1..K |->
               L!NewOperation(balance, AdjustmentType(difference, d[i]),
                              AdjustOnly(r, difference, d[i]), 0)]
  <2>1. DOMAIN d = 1..K
    BY <1>1 DEF Enumerates
  <2> QED BY <2>1 DEF AdjustmentOperations, AdjustOnly, Differing
<1> HIDE DEF d, ops
<1>3. ASSUME NEW i \in 1..K
      PROVE  /\ ops[i] \in L!Operations
             /\ d[i] \in Products /\ difference[d[i]] # 0
             /\ ops[i].type = AdjustmentType(difference, d[i]) /\ ops[i].reverses = 0
             /\ \A p \in Products :
                  /\ ops[i].moves[p] = L!Recorded(balance, p, AdjustOnly(r, difference, d[i])[p])
                  /\ ops[i].moves[p].quantity = 0
                       <=> ops[i].moves[p].source = ops[i].moves[p].destination
  <2>1. d[i] \in Products /\ difference[d[i]] # 0
    BY <1>1 DEF Enumerates, Differing
  <2>2. LP!Sound(AdjustOnly(r, difference, d[i]))
    BY <2>1, AdjustmentsAreSound
  <2>3. L!Covered(balance, AdjustOnly(r, difference, d[i]))
    BY DEF L!Covered, Adjustments, AdjustOnly, L!Move
  <2>4. AdjustmentType(difference, d[i]) \in L!OperationTypes
    BY DEF AdjustmentType, L!OperationTypes
  <2>5. ops[i] = L!NewOperation(balance, AdjustmentType(difference, d[i]),
                                AdjustOnly(r, difference, d[i]), 0)
    BY <1>2
  <2> QED BY <2>1, <2>2, <2>3, <2>4, <2>5, OperationOf
<1>4. ops \in Seq(L!Operations) /\ Len(ops) = K
  <2>1. ops \in [1..K -> L!Operations]
    BY <1>2, <1>3
  <2> QED BY <2>1, LenProperties
<1>5. ASSUME NEW p \in Products, difference[p] # 0
      PROVE  \E k \in 1..K : d[k] = p /\ \A i \in 1..K : d[i] = p <=> i = k
  <2>1. PICK k \in 1..K : d[k] = p
    BY <1>1, <1>5 DEF Enumerates, Differing
  <2> QED BY <1>1, <2>1 DEF Enumerates
<1>6. AdjustsEach(ops, r, difference, K, d)
  BY <1>3, <1>4, <1>5 DEF AdjustsEach
<1> QED
  BY <1>6 DEF ops
\* The balances between the adjustments of a count and its return.
Adjusted(r, physical) == L!ApplyMoves(balance, Adjustments(r, Difference(r, physical)))

\* An approval appends the K adjustments of the products in d, and the return.
ApprovalAppends(r, physical, K, d) ==
  /\ operations' \in Seq(L!Operations)
  /\ Len(operations) \in Nat /\ Len(operations') = Len(operations) + K + 1
  /\ \A i \in 1..Len(operations) : operations'[i] = operations[i]
  /\ AdjustsEach([i \in 1..K |-> operations'[Len(operations) + i]], r,
                 Difference(r, physical), K, d)
  /\ LET op == operations'[Len(operations) + K + 1] IN
     /\ op.type = "ROUTE_RETURN" /\ op.reverses = 0
     /\ \A p \in Products :
          /\ op.moves[p] = L!Recorded(Adjusted(r, physical), p,
                                      L!MovesOf(physical, r, route[r].origin)[p])
          /\ op.moves[p].quantity = 0 <=> op.moves[p].source = op.moves[p].destination

\* A difference of quantities is a table of integers.
LEMMA DifferenceType ==
  ASSUME RowTypes, NEW r \in Routes, NEW physical \in Quantities
  PROVE  /\ Difference(r, physical) \in [Products -> Int]
         /\ \A p \in Products : /\ Expected(r)[p] \in Int /\ physical[p] \in Nat
                                /\ Difference(r, physical)[p] = Expected(r)[p] - physical[p]
<1>1. ASSUME NEW p \in Products PROVE Expected(r)[p] \in Int /\ physical[p] \in Nat
  <2>1. load[r].lines[p] \in Nat /\ physical[p] \in Nat
    BY DEF RowTypes, LoadRows, Quantities
  <2>2. SoldOf(sale, r, p) \in Nat
    BY TotalsType DEF RowTypes
  <2> QED BY <2>1, <2>2, HandlersReadTotals
<1> QED
  BY <1>1 DEF Difference

\* What an approved count leaves in the ledger.
LEMMA ApprovedLedger ==
  ASSUME LP!IInv, RowTypes, NEW r \in Routes, route[r].origin \in Branches, NEW version,
         NEW physical \in Quantities, Approve(r, version, physical)
  PROVE  /\ Adjusted(r, physical) \in [L!Locations -> [Products -> Nat]]
         /\ balance' = L!ApplyMoves(Adjusted(r, physical), L!MovesOf(physical, r, route[r].origin))
         /\ balance' \in [L!Locations -> [Products -> Nat]]
         /\ \E K \in Nat : \E d : ApprovalAppends(r, physical, K, d)
<1> DEFINE difference == Difference(r, physical)
           adjust == Adjustments(r, difference)
           giveBack == L!MovesOf(physical, r, route[r].origin)
           first == AdjustmentOperations(r, difference)
           last == L!NewOperation(Adjusted(r, physical), "ROUTE_RETURN", giveBack, 0)
<1>1. /\ operations' = operations \o Append(first, last)
      /\ balance' = L!ApplyMoves(Adjusted(r, physical), giveBack)
      /\ L!Covered(balance, adjust) /\ L!Covered(Adjusted(r, physical), giveBack)
  BY DEF Approve, Reconciles, Adjusted
<1>2. difference \in [Products -> Int]
  BY DifferenceType
<1>3. balance \in [L!Locations -> [Products -> Nat]] /\ operations \in Seq(L!Operations)
  BY LedgerAssumed, SameOperators DEF LP!IInv, LP!TypeOK
<1>4. Adjusted(r, physical) \in [L!Locations -> [Products -> Nat]]
  <2> HIDE DEF difference
  <2>1. LP!Sound(adjust)
    BY <1>2, AdjustmentsAreSound
  <2>2. LP!Covered(balance, adjust) /\ balance \in [LP!Locations -> [Products -> Nat]]
    BY <1>1, <1>3, LedgerAssumed, SameOperators
  <2>3. LP!ApplyMoves(balance, adjust) \in [LP!Locations -> [Products -> Nat]]
    BY <2>1, <2>2, LedgerAssumed, LP!AppliedType, Zenon
  <2> QED BY <2>3, LedgerAssumed, SameOperators DEF Adjusted, difference
<1>5. LP!Sound(giveBack)
  <2>1. r \in LP!Endpoints /\ route[r].origin \in LP!Endpoints /\ r # route[r].origin
    BY LedgerAssumed
  <2>2. LP!Sound(LP!MovesOf(physical, r, route[r].origin))
    BY <2>1, LedgerAssumed, LP!QuantitiesMoves, Zenon DEF Quantities
  <2> QED BY <2>2, SameOperators
<1>6. balance' \in [L!Locations -> [Products -> Nat]]
  <2>1. /\ LP!Covered(Adjusted(r, physical), giveBack)
        /\ Adjusted(r, physical) \in [LP!Locations -> [Products -> Nat]]
    BY <1>1, <1>4, LedgerAssumed, SameOperators
  <2> HIDE DEF giveBack
  <2>2. LP!ApplyMoves(Adjusted(r, physical), giveBack) \in [LP!Locations -> [Products -> Nat]]
    BY <1>5, <2>1, LedgerAssumed, LP!AppliedType, Zenon
  <2> QED BY <1>1, <2>2, LedgerAssumed, SameOperators
<1>7a. PICK K \in Nat : \E d : AdjustsEach(first, r, difference, K, d)
  BY <1>1, <1>2, <1>3, AdjustmentsOfCount
<1>7. PICK d : AdjustsEach(first, r, difference, K, d)
  BY <1>7a
<1>8. /\ last \in L!Operations /\ last.type = "ROUTE_RETURN" /\ last.reverses = 0
      /\ \A p \in Products :
           /\ last.moves[p] = L!Recorded(Adjusted(r, physical), p, giveBack[p])
           /\ last.moves[p].quantity = 0 <=> last.moves[p].source = last.moves[p].destination
  <2>1. "ROUTE_RETURN" \in L!OperationTypes
    BY DEF L!OperationTypes
  <2> HIDE DEF giveBack
  <2> QED BY <1>1, <1>4, <1>5, <2>1, OperationOf
<1> HIDE DEF first, last
<1>9. first \in Seq(L!Operations) /\ Len(first) = K
  BY <1>7 DEF AdjustsEach
<1>10. /\ operations' \in Seq(L!Operations)
       /\ Len(operations) \in Nat /\ Len(operations') = Len(operations) + K + 1
       /\ \A i \in 1..Len(operations) : operations'[i] = operations[i]
       /\ \A i \in 1..K : operations'[Len(operations) + i] = first[i]
       /\ operations'[Len(operations) + K + 1] = last
  <2>1. /\ Append(first, last) \in Seq(L!Operations) /\ Len(Append(first, last)) = K + 1
        /\ \A i \in 1..K : Append(first, last)[i] = first[i]
        /\ Append(first, last)[K + 1] = last
    BY <1>8, <1>9, AppendProperties
  <2> DEFINE more == Append(first, last)
  <2> HIDE DEF more
  <2>2. /\ operations \o more \in Seq(L!Operations)
        /\ Len(operations \o more) = Len(operations) + Len(more)
        /\ \A i \in 1..Len(operations) + Len(more) :
             (operations \o more)[i] = IF i <= Len(operations) THEN operations[i]
                                       ELSE more[i - Len(operations)]
    BY <1>3, <2>1, ConcatProperties DEF more
  <2>3. Len(operations) \in Nat
    BY <1>3, LenProperties
  <2>4. ASSUME NEW i \in 1..Len(operations) PROVE (operations \o more)[i] = operations[i]
    BY <2>1, <2>2, <2>3 DEF more
  <2>5. ASSUME NEW i \in 1..K + 1 PROVE (operations \o more)[Len(operations) + i] = more[i]
    <3>1. Len(operations) + i \in 1..Len(operations) + Len(more)
      BY <2>1, <2>3 DEF more
    <3>2. ~(Len(operations) + i <= Len(operations)) /\ (Len(operations) + i) - Len(operations) = i
      BY <2>3
    <3> QED BY <2>2, <3>1, <3>2
  <2>6. Len(operations \o more) = Len(operations) + K + 1
    BY <2>1, <2>2, <2>3 DEF more
  <2>7. operations' = operations \o more
    BY <1>1 DEF more
  <2>8. ASSUME NEW i \in 1..K PROVE operations'[Len(operations) + i] = first[i]
    BY <2>1, <2>5, <2>7 DEF more
  <2>9. operations'[Len(operations) + K + 1] = last
    <3>1. Len(operations) + (K + 1) = Len(operations) + K + 1 /\ K + 1 \in 1..K + 1
      BY <2>3
    <3> QED BY <2>1, <2>5, <2>7, <3>1 DEF more
  <2> QED BY <2>2, <2>3, <2>4, <2>6, <2>7, <2>8, <2>9
<1>11. AdjustsEach([i \in 1..K |-> operations'[Len(operations) + i]], r, difference, K, d)
  <2>1. [i \in 1..K |-> operations'[Len(operations) + i]] = first
    <3>1. first = [i \in 1..K |-> first[i]]
      BY <1>9, LenProperties
    <3> QED BY <1>10, <3>1
  <2> QED BY <1>7, <2>1
<1>12. ApprovalAppends(r, physical, K, d)
  BY <1>8, <1>10, <1>11 DEF ApprovalAppends
<1> QED
  BY <1>1, <1>4, <1>6, <1>12
\* Adjusting brings the truck to the counted quantities, and touches nothing else.
LEMMA AdjustedStock ==
  ASSUME LP!IInv, RowTypes, NEW r \in Routes, NEW physical \in Quantities,
         NEW l \in L!Locations, NEW p \in Products
  PROVE  /\ balance[l][p] \in Nat
         /\ Adjusted(r, physical)[l][p]
              = balance[l][p] - (IF l = r THEN Difference(r, physical)[p] ELSE 0)
<1>1. Difference(r, physical) \in [Products -> Int]
  BY DifferenceType
<1>2. L!Delta(Adjustments(r, Difference(r, physical))[p], l)
        = IF l = r THEN -Difference(r, physical)[p] ELSE 0
  BY <1>1, AdjustmentMoves DEF Adjustments
<1>3. balance[l][p] \in Nat
  BY LedgerAssumed DEF LP!IInv, LP!TypeOK
<1>4. Adjusted(r, physical)[l][p]
        = balance[l][p] + L!Delta(Adjustments(r, Difference(r, physical))[p], l)
  BY DEF Adjusted, L!ApplyMoves
<1>5. Difference(r, physical)[p] \in Int
  BY <1>1
<1> QED
  BY <1>2, <1>3, <1>4, <1>5

\* Adjustments and return keep every row of the ledger reproduced.
LEMMA ApprovalReproduces ==
  ASSUME LP!IInv, RowTypes, NEW r \in Routes, route[r].origin \in Branches,
         NEW physical \in Quantities, NEW K \in Nat, NEW d, ApprovalAppends(r, physical, K, d),
         Adjusted(r, physical) \in [L!Locations -> [Products -> Nat]],
         balance' = L!ApplyMoves(Adjusted(r, physical), L!MovesOf(physical, r, route[r].origin)),
         NEW l \in L!Locations, NEW p \in Products
  PROVE  RowReproduced(balance', operations', l, p)
<1> DEFINE N == Len(operations)
           difference == Difference(r, physical)
           giveBack == L!MovesOf(physical, r, route[r].origin)
           between == [i \in 1..N + K |-> operations'[i]]
           last == operations'[N + K + 1]
<1>1. /\ N \in Nat /\ Len(operations') = N + K + 1 /\ Len(between) = N + K
      /\ \A i \in 1..N : between[i] = operations[i]
      /\ \A i \in 1..N + K : operations'[i] = between[i]
  <2>1. N \in Nat /\ Len(operations') = N + K + 1
        /\ \A i \in 1..N : operations'[i] = operations[i]
    BY DEF ApprovalAppends
  <2>2. N + K \in Nat
    BY <2>1
  <2>3. Len(between) = N + K
    BY <2>2, LenProperties
  <2> QED BY <2>1, <2>3
<1>2. /\ difference \in [Products -> Int]
      /\ balance[l][p] \in Nat /\ Adjusted(r, physical)[l][p] \in Nat
      /\ Adjusted(r, physical)[l][p] = balance[l][p] - (IF l = r THEN difference[p] ELSE 0)
  BY DifferenceType, AdjustedStock
<1>3. RowReproduced(balance, operations, l, p)
  BY LedgerAssumed, SameInvariants, SameReproduces DEF Reproduces, LP!IInv
<1>4. ASSUME NEW i \in 1..K
      PROVE  /\ N + i \in N + 1..N + K
             /\ d[i] \in Products /\ difference[d[i]] # 0
             /\ between[N + i].moves[p]
                  = L!Recorded(balance, p, AdjustOnly(r, difference, d[i])[p])
  <2>1. N + i \in N + 1..N + K /\ N + i \in 1..N + K
    BY <1>1
  <2>2. AdjustsEach([j \in 1..K |-> operations'[N + j]], r, difference, K, d)
    BY DEF ApprovalAppends
  <2>3. [j \in 1..K |-> operations'[N + j]][i] = between[N + i]
    BY <2>1
  <2> HIDE DEF between, difference, N
  <2> QED BY <2>1, <2>2, <2>3 DEF AdjustsEach
<1>5. \A i \in N + 1..N + K : i - N \in 1..K /\ N + (i - N) = i
  BY <1>1
<1>6. difference[p] # 0 => \E k \in 1..K : d[k] = p /\ \A i \in 1..K : d[i] = p <=> i = k
  BY DEF ApprovalAppends, AdjustsEach
<1>7. ASSUME NEW i \in 1..K, d[i] # p PROVE ~TouchedBy(between[N + i].moves[p], l)
  <2> HIDE DEF between, N, difference
  <2>1. between[N + i].moves[p] = L!Recorded(balance, p, AdjustOnly(r, difference, d[i])[p])
    BY <1>4
  <2>2. AdjustOnly(r, difference, d[i])[p].quantity = 0
    BY <1>7 DEF AdjustOnly, L!Move
  <2> QED BY <2>1, <2>2 DEF L!Recorded, TouchedBy
<1>8. last.moves[p] = L!Recorded(Adjusted(r, physical), p, giveBack[p])
  BY DEF ApprovalAppends
<1> HIDE DEF between, N, last
<1>9. RowReproduced(Adjusted(r, physical), between, l, p)
  <2>1. CASE l # r \/ difference[p] = 0
    <3>1. Adjusted(r, physical)[l][p] = balance[l][p]
      BY <1>2, <2>1
    <3>2. ASSUME NEW i \in 1..K PROVE ~TouchedBy(between[N + i].moves[p], l)
      <4>1. CASE d[i] # p
        BY <1>7, <4>1
      <4>2. CASE d[i] = p
        <5> DEFINE m == AdjustmentMove(r, difference, p)
        <5>1. l # r /\ l # Null
          BY <1>4, <2>1, <4>2, LedgerAssumed
        <5>2. m.source \in {r, Null} /\ m.destination \in {r, Null}
          BY <1>2, AdjustmentMoves
        <5>3. between[N + i].moves[p] = L!Recorded(balance, p, m)
          BY <1>4, <4>2 DEF AdjustOnly
        <5> HIDE DEF m
        <5> QED BY <5>1, <5>2, <5>3 DEF TouchedBy, L!Recorded
      <4> QED BY <4>1, <4>2
    <3>3. \A i \in N + 1..N + K : ~TouchedBy(between[i].moves[p], l)
      BY <1>5, <3>2
    <3>4. Len(operations) \in Nat /\ Len(between) \in Nat /\ Len(operations) <= Len(between)
          /\ Len(operations) = N
      BY <1>1 DEF N
    <3> QED BY <1>1, <1>2, <1>3, <3>1, <3>3, <3>4, RowStaysReproduced
  <2>2. CASE l = r /\ difference[p] # 0
    <3>1. PICK k \in 1..K : d[k] = p /\ \A i \in 1..K : d[i] = p <=> i = k
      BY <1>6, <2>2
    <3> DEFINE m == AdjustmentMove(r, difference, p)
               row == between[N + k].moves[p]
    <3>2. /\ m \in L!Commands
          /\ m.quantity = 0 <=> m.source = m.destination
          /\ m.quantity = 0 <=> difference[p] = 0
          /\ m.source \in {r, Null} /\ m.destination \in {r, Null}
          /\ L!Delta(m, l) = -difference[p]
      BY <1>2, <2>2, AdjustmentMoves
    <3>3. row = L!Recorded(balance, p, m)
      BY <1>4, <3>1 DEF AdjustOnly
    <3> HIDE DEF m
    <3>4. /\ L!Delta(row, l) = -difference[p]
          /\ TouchedBy(row, l) <=> m.quantity > 0 /\ l \in {m.source, m.destination}
          /\ TouchedBy(row, l) => LeftBy(row, l) = balance[l][p] + (-difference[p])
      <4> HIDE DEF row
      <4> QED BY <1>2, <3>2, <3>3, RecordedRow
    <3>5. m.quantity > 0 /\ l \in {m.source, m.destination}
      <4>1. m.quantity \in Nat
        BY <3>2 DEF L!Commands
      <4> QED BY <2>2, <3>2, <4>1
    <3>6. N + k \in N + 1..N + K
      BY <1>4
    <3>7. \A i \in N + 1..N + K : TouchedBy(between[i].moves[p], l) <=> i = N + k
      <4> SUFFICES ASSUME NEW i \in N + 1..N + K
                   PROVE  TouchedBy(between[i].moves[p], l) <=> i = N + k
        OBVIOUS
      <4>1. PICK j \in 1..K : i = N + j
        BY <1>5
      <4>2. CASE j = k
        BY <3>4, <3>5, <4>1, <4>2
      <4>3. CASE j # k
        <5>1. i # N + k
          BY <1>1, <4>1, <4>3
        <5>2. d[j] # p
          BY <3>1, <4>3
        <5> QED BY <1>7, <4>1, <5>1, <5>2
      <4> QED BY <4>2, <4>3
    <3>8. /\ L!Delta(row, l) \in Int
          /\ Adjusted(r, physical)[l][p] = balance[l][p] + L!Delta(row, l)
          /\ LeftBy(row, l) = Adjusted(r, physical)[l][p]
      <4>1. difference[p] \in Int
        BY <1>2
      <4> HIDE DEF row, difference
      <4> QED BY <1>2, <2>2, <3>4, <3>5, <4>1
    <3>9. Len(operations) \in Nat /\ Len(between) \in Nat /\ Len(operations) <= Len(between)
          /\ Len(operations) = N
      BY <1>1 DEF N
    <3> QED BY <1>1, <1>2, <1>3, <3>6, <3>7, <3>8, <3>9, RowStaysReproduced
  <2> QED BY <2>1, <2>2
<1>10. RowReproduced(balance', operations', l, p)
  <2> DEFINE m == giveBack[p]
             row == last.moves[p]
  <2>1. m \in L!Commands /\ (m.quantity = 0 <=> m.source = m.destination)
    <3>1. physical[p] \in Nat /\ r \in L!Endpoints /\ route[r].origin \in L!Endpoints
          /\ Null \in L!Endpoints /\ r # route[r].origin
      BY LedgerAssumed DEF Quantities
    <3>2. m = L!Move(physical[p], r, route[r].origin)
      BY DEF L!MovesOf
    <3> QED BY <3>1, <3>2 DEF L!Move, L!Commands
  <2>2. balance'[l][p] = Adjusted(r, physical)[l][p] + L!Delta(m, l)
    BY DEF L!ApplyMoves
  <2> HIDE DEF m, row
  <2>3. row = L!Recorded(Adjusted(r, physical), p, m)
    BY <1>8 DEF m, row
  <2>4. /\ L!Delta(m, l) \in Int /\ L!Delta(row, l) = L!Delta(m, l)
        /\ TouchedBy(row, l) => LeftBy(row, l) = Adjusted(r, physical)[l][p] + L!Delta(m, l)
        /\ ~TouchedBy(row, l) => L!Delta(m, l) = 0
    BY <1>2, <2>1, <2>3, RecordedRow
  <2>5. /\ Len(between) + 1..Len(operations') = {N + K + 1}
        /\ Len(between) \in Nat /\ Len(operations') \in Nat /\ Len(between) <= Len(operations')
        /\ \A i \in 1..Len(between) : operations'[i] = between[i]
    BY <1>1
  <2>6. operations'[N + K + 1].moves[p] = row
    BY DEF row, last
  <2>7. CASE TouchedBy(row, l)
    <3>1. \E k \in Len(between) + 1..Len(operations') :
            /\ \A i \in Len(between) + 1..Len(operations') :
                 TouchedBy(operations'[i].moves[p], l) <=> i = k
            /\ L!Delta(operations'[k].moves[p], l) \in Int
            /\ balance'[l][p]
                 = Adjusted(r, physical)[l][p] + L!Delta(operations'[k].moves[p], l)
            /\ LeftBy(operations'[k].moves[p], l) = balance'[l][p]
      BY <2>2, <2>4, <2>5, <2>6, <2>7
    <3> QED BY <1>2, <1>9, <2>5, <3>1, RowStaysReproduced
  <2>8. CASE ~TouchedBy(row, l)
    <3>1. balance'[l][p] = Adjusted(r, physical)[l][p]
      BY <1>2, <2>2, <2>4, <2>8
    <3>2. \A i \in Len(between) + 1..Len(operations') : ~TouchedBy(operations'[i].moves[p], l)
      BY <2>5, <2>6, <2>8
    <3> QED BY <1>2, <1>9, <2>5, <3>1, <3>2, RowStaysReproduced
  <2> QED BY <2>7, <2>8
<1> QED
  BY <1>10
\* An approved count keeps the ledger's invariant, empties the truck and leaves the others
\* alone; it was accepted because the truck held what was expected of it.
LEMMA ApprovalPosts ==
  ASSUME LP!IInv, RowTypes, NEW r \in Routes, route[r].origin \in Branches, NEW version,
         NEW physical \in Quantities, Approve(r, version, physical)
  PROVE  /\ LP!IInv' /\ Grown
         /\ \A i \in Len(operations) + 1..Len(operations') : operations'[i].reverses = 0
         /\ \A q \in Routes, p \in Products :
              balance'[q][p] = IF q = r THEN 0 ELSE balance[q][p]
         /\ \A p \in Products : Expected(r)[p] \in Nat /\ balance[r][p] = Expected(r)[p]
<1> DEFINE N == Len(operations)
<1>1. /\ Adjusted(r, physical) \in [L!Locations -> [Products -> Nat]]
      /\ balance' = L!ApplyMoves(Adjusted(r, physical), L!MovesOf(physical, r, route[r].origin))
      /\ balance' \in [L!Locations -> [Products -> Nat]]
  BY ApprovedLedger
<1>2a. PICK K \in Nat : \E d : ApprovalAppends(r, physical, K, d)
  BY ApprovedLedger
<1>2. PICK d : ApprovalAppends(r, physical, K, d)
  BY <1>2a
<1>3. /\ operations' \in Seq(L!Operations)
      /\ N \in Nat /\ Len(operations') = N + K + 1
      /\ \A i \in 1..N : operations'[i] = operations[i]
  BY <1>2 DEF ApprovalAppends
<1>4. ASSUME NEW i \in N + 1..N + K + 1
      PROVE  /\ operations'[i].type # "TRANSFER" /\ operations'[i].reverses = 0
             /\ \A p \in Products :
                  operations'[i].moves[p].quantity = 0
                    <=> operations'[i].moves[p].source = operations'[i].moves[p].destination
  <2>1. CASE i = N + K + 1
    BY <1>2, <2>1 DEF ApprovalAppends
  <2>2. CASE i # N + K + 1
    <3>1. PICK j \in 1..K : i = N + j
      <4>1. i - N \in 1..K /\ i = N + (i - N)
        BY <1>3, <2>2
      <4> QED BY <4>1
    <3>2. [k \in 1..K |-> operations'[N + k]][j] = operations'[i]
      BY <3>1
    <3> DEFINE ops == [k \in 1..K |-> operations'[N + k]]
    <3>3. AdjustsEach(ops, r, Difference(r, physical), K, d)
      BY <1>2 DEF ApprovalAppends
    <3> HIDE DEF ops
    <3>4. /\ ops[j].type = AdjustmentType(Difference(r, physical), d[j]) /\ ops[j].reverses = 0
          /\ \A p \in Products :
               ops[j].moves[p].quantity = 0 <=> ops[j].moves[p].source = ops[j].moves[p].destination
      BY <3>3 DEF AdjustsEach
    <3>5. AdjustmentType(Difference(r, physical), d[j]) # "TRANSFER"
      BY DEF AdjustmentType
    <3> QED BY <3>2, <3>4, <3>5 DEF ops
  <2> QED BY <2>1, <2>2
<1>5. Grown
  BY <1>3 DEF Grown
<1>6. \A i \in 1..Len(operations') : i \in 1..N \/ i \in N + 1..N + K + 1
  BY <1>3
<1>7. LP!TypeOK'
  <2>1. L!TypeOK'
    BY <1>1, <1>3 DEF L!TypeOK
  <2> QED BY <1>1, <1>3, LedgerAssumed, SameOperators DEF LP!TypeOK
<1>8. LP!MovesAreSound'
  <2> SUFFICES ASSUME NEW i \in 1..Len(operations'), NEW p \in Products
               PROVE  LET m == operations'[i].moves[p] IN
                      /\ m.quantity = 0 <=> m.source = m.destination
                      /\ m.quantity > 0 /\ operations'[i].type = "TRANSFER"
                           => Null \notin {m.source, m.destination}
    BY DEF LP!MovesAreSound
  <2>1. CASE i \in 1..N
    BY <1>3, <2>1 DEF LP!IInv, LP!MovesAreSound
  <2>2. CASE i \in N + 1..N + K + 1
    BY <1>4, <2>2
  <2> QED BY <1>6, <2>1, <2>2
<1>9. LP!LedgerReproducesBalances'
  <2>1. \A l \in L!Locations, p \in Products : RowReproduced(balance', operations', l, p)
    BY <1>1, <1>2, ApprovalReproduces
  <2>2. L!LedgerReproducesBalances' <=> Reproduces(balance', operations')
    BY Zenon DEF L!LedgerReproducesBalances, Reproduces, RowReproduced, L!Touches, L!After,
                 TouchedBy, LeftBy
  <2>3. LP!LedgerReproducesBalances' <=> L!LedgerReproducesBalances'
    BY Zenon DEF L!LedgerReproducesBalances, LP!LedgerReproducesBalances, L!Locations, LP!Locations,
                 L!Touches, LP!Touches, L!After, LP!After, L!Delta, LP!Delta
  <2> QED BY <2>1, <2>2, <2>3 DEF Reproduces
<1>10. LP!ReversalsAreExact'
  <2> SUFFICES ASSUME NEW i \in 1..Len(operations'), operations'[i].reverses # 0
               PROVE
    LET undone == operations'[i].reverses IN
    /\ undone < i
    /\ operations'[i].type = operations'[undone].type
    /\ \A p \in Products, l \in LP!Locations :
         LP!Delta(operations'[i].moves[p], l) = -LP!Delta(operations'[undone].moves[p], l)
    /\ \A j \in 1..Len(operations') : operations'[j].reverses = undone => j = i
    BY DEF LP!ReversalsAreExact
  <2> DEFINE undone == operations[i].reverses
  <2>1. i \in 1..N
    BY <1>4, <1>6
  <2>2. operations'[i] = operations[i] /\ undone # 0 /\ undone \in Nat
    <3>1. operations[i] \in L!Operations
      BY <2>1, SameOperators DEF LP!IInv, LP!TypeOK
    <3> QED BY <1>3, <2>1, <3>1 DEF L!Operations
  <2>3. /\ undone < i
        /\ operations[i].type = operations[undone].type
        /\ \A p \in Products, l \in LP!Locations :
             LP!Delta(operations[i].moves[p], l) = -LP!Delta(operations[undone].moves[p], l)
        /\ \A j \in 1..Len(operations) : operations[j].reverses = undone => j = i
    BY <2>1, <2>2 DEF LP!IInv, LP!ReversalsAreExact
  <2>4. undone \in 1..N /\ operations'[undone] = operations[undone]
    BY <1>3, <2>1, <2>2, <2>3
  <2>5. ASSUME NEW j \in 1..Len(operations'), operations'[j].reverses = undone PROVE j = i
    <3>1. j \in 1..N
      BY <1>4, <1>6, <2>2, <2>5
    <3> QED BY <1>3, <2>3, <2>5, <3>1
  <2> QED BY <2>2, <2>3, <2>4, <2>5
<1>11. ASSUME NEW q \in Routes, NEW p \in Products
       PROVE  balance'[q][p] = IF q = r THEN 0 ELSE balance[q][p]
  <2>1. CASE q = r
    BY <1>1, <2>1 DEF Approve, Reconciles, Adjusted
  <2>2. CASE q # r
    <3>1. q \in L!Locations /\ q # route[r].origin
      BY LedgerAssumed
    <3>2. balance[q][p] \in Nat /\ Adjusted(r, physical)[q][p] = balance[q][p]
      BY <2>2, <3>1, AdjustedStock
    <3>3. L!Delta(L!MovesOf(physical, r, route[r].origin)[p], q) = 0
      BY <2>2, <3>1, LinesDelta
    <3>4. balance'[q][p] = Adjusted(r, physical)[q][p]
                             + L!Delta(L!MovesOf(physical, r, route[r].origin)[p], q)
      BY <1>1, <3>1 DEF L!ApplyMoves
    <3> QED BY <2>2, <3>2, <3>3, <3>4
  <2> QED BY <2>1, <2>2
<1>12. ASSUME NEW p \in Products
       PROVE  Expected(r)[p] \in Nat /\ balance[r][p] = Expected(r)[p]
  <2>1. r \in L!Locations /\ r # route[r].origin
    BY LedgerAssumed
  <2>2. /\ Expected(r)[p] \in Int /\ physical[p] \in Nat
        /\ Difference(r, physical)[p] = Expected(r)[p] - physical[p]
    BY DifferenceType
  <2>3. /\ balance[r][p] \in Nat
        /\ Adjusted(r, physical)[r][p] = balance[r][p] - Difference(r, physical)[p]
    BY <2>1, AdjustedStock
  <2>4. L!Delta(L!MovesOf(physical, r, route[r].origin)[p], r) = 0 - physical[p]
    BY <2>1, LinesDelta
  <2>5. balance'[r][p] = Adjusted(r, physical)[r][p]
                           + L!Delta(L!MovesOf(physical, r, route[r].origin)[p], r)
    BY <1>1, <2>1 DEF L!ApplyMoves
  <2>6. balance'[r][p] = 0
    BY <1>11
  <2>7. Expected(r)[p] >= 0
    BY DEF Approve, Reconciles
  <2> QED BY <2>2, <2>3, <2>4, <2>5, <2>6, <2>7
<1> QED
  BY <1>3, <1>4, <1>5, <1>7, <1>8, <1>9, <1>10, <1>11, <1>12 DEF LP!IInv
-----------------------------------------------------------------------------
(* What handlers keep *)

\* Lines and totals are quantities.
LEMMA BooksType ==
  ASSUME RowTypes, NEW r \in Routes, NEW p \in Products
  PROVE  /\ load[r].lines[p] \in Nat /\ SoldOf(sale, r, p) \in Nat /\ DivertedOf(sale, r, p) \in Nat
         /\ Books(r, p) \in Int
<1>1. load[r].lines[p] \in Nat
  BY DEF RowTypes, LoadRows, Quantities
<1>2. SoldOf(sale, r, p) \in Nat /\ DivertedOf(sale, r, p) \in Nat
  BY TotalsType DEF RowTypes
<1> QED
  BY <1>1, <1>2 DEF Books

\* A route that is not out yet, or out, was neither counted nor reconciled; and nothing was
\* sold from one that has not left.
LEMMA BeforeReturn ==
  ASSUME RowTypes, RowsHold, LifecycleHolds, NEW r \in Routes
  PROVE  /\ route[r].state \in {"NONE", "PREPARING", "EN_ROUTE"} =>
              declared[r] = Null /\ reconciliation[r] = Null
         /\ route[r].state \in {"NONE", "PREPARING"} =>
              /\ \A s \in Sales : sale[s].route # r
              /\ \A p \in Products : SoldOf(sale, r, p) = 0 /\ DivertedOf(sale, r, p) = 0
<1>1. ASSUME route[r].state \in {"NONE", "PREPARING"}, NEW s \in Sales
      PROVE  sale[s].route # r
  <2>1. r # Null
    BY RouteAssumption
  <2> QED BY <1>1, <2>1 DEF RowsHold, LifecycleHolds, RecordsFollowLifecycle
<1>2. ASSUME \A s \in Sales : sale[s].route # r, NEW p \in Products
      PROVE  SoldOf(sale, r, p) = 0 /\ DivertedOf(sale, r, p) = 0
  BY <1>2, TotalsType DEF RowTypes
<1> QED
  BY <1>1, <1>2 DEF LifecycleHolds, RecordsFollowLifecycle

\* The driver of a route that is named is not Null, nor is the route unplanned.
LEMMA Driven ==
  ASSUME RowTypes, NEW r \in Routes, route[r].state # "NONE"
  PROVE  route[r] \in RouteRows /\ r # Null
  BY RouteAssumption DEF RowTypes

\* The ledger's invariant reads nothing but the ledger.
LEMMA LedgerUnchanged == ASSUME LP!IInv, UNCHANGED <<balance, operations>> PROVE LP!IInv'
  BY LP!NextIInv, LedgerAssumed, Zenon DEF LP!ledgerVars

\* Nor does the stock of the trucks change with the rows of the routes alone.
LEMMA StockUnchanged ==
  ASSUME StockHolds, UNCHANGED <<balance, operations, load, sale, reconciliation>>
  PROVE  StockHolds' /\ \A r \in Routes : Reworked(r)' <=> Reworked(r)
<1>1. \A r \in Routes : Reworked(r)' <=> Reworked(r)
  BY DEF Reworked, L!Touches
<1>2. \A r \in Routes, p \in Products : Books(r, p)' = Books(r, p)
  BY DEF Books
<1> QED
  BY <1>1, <1>2 DEF StockHolds

\* The stock of a truck follows its books.
LEMMA StockFollows ==
  ASSUME StockHolds, Grown,
         \A r \in Routes : ~Reworked(r)' => \A p \in Products :
           balance[r][p] = Books(r, p) => balance'[r][p] = Books(r, p)'
  PROVE  StockHolds'
  BY ReworkedStays DEF StockHolds

\* create keeps every conjunct: the new route is the only row that changes.
LEMMA CreateKeeps ==
  ASSUME IInv, NEW r \in Routes, NEW origin \in Branches, NEW d \in Drivers, NEW v \in Vehicles,
         Create(r, origin, d, v)
  PROVE  IInv'
<1> DEFINE row == [state |-> "PREPARING", version |-> 1, driver |-> d, vehicle |-> v, origin |-> origin]
<1>1. /\ route[r].state = "NONE" /\ Free(d, v)
      /\ route' = [route EXCEPT ![r] = row]
      /\ UNCHANGED <<balance, operations, load, sale, declared, reconciliation>>
  BY DEF Create
<1>2. route[r].state = "NONE" /\ declared[r] = Null /\ reconciliation[r] = Null
      /\ \A s \in Sales : sale[s].route # r
  BY <1>1, BeforeReturn DEF IInv
<1>3. row \in RouteRows
  BY DEF RouteRows, States
<1>4. /\ row.state = "PREPARING" /\ row.driver = d /\ row.vehicle = v /\ row.origin = origin
      /\ row.version = 1
  OBVIOUS
<1> HIDE DEF row
<1>5. RowTypes'
  BY <1>1, <1>3 DEF IInv, RowTypes
<1>6. route'[r] = row /\ \A q \in Routes \ {r} : route'[q] = route[q]
  BY <1>1 DEF IInv, RowTypes
<1>7. RowsHold'
  BY <1>1, <1>4, <1>6 DEF IInv, RowsHold
<1>8. OneActiveRoute'
  BY <1>1, <1>4, <1>6 DEF IInv, LifecycleHolds, OneActiveRoute, Free, Active
<1>9. RecordsFollowLifecycle'
  <2>1. \A s \in Sales : sale[s].status # "NONE" => sale[s].route \in Routes \ {r}
    BY <1>2 DEF IInv, RowTypes, SaleRows, RowsHold
  <2> QED BY <1>1, <1>2, <1>4, <1>6, <2>1 DEF IInv, LifecycleHolds, RecordsFollowLifecycle
<1>10. LP!IInv' /\ StockHolds' /\ \A q \in Routes : Reworked(q)' <=> Reworked(q)
  BY <1>1, LedgerUnchanged, StockUnchanged DEF IInv
<1>11. DeclaredHolds' /\ ReconciledHolds'
  BY <1>1, <1>10 DEF IInv, DeclaredHolds, ReconciledHolds
<1> QED
  BY <1>5, <1>7, <1>8, <1>9, <1>10, <1>11 DEF IInv, LifecycleHolds
\* A transition changes state and version of one route, which goes on with its driver,
\* vehicle and origin.
LEMMA TransitionMoves ==
  ASSUME IInv, NEW r \in Routes, NEW from \in Active, NEW to \in States, NEW version,
         Transition(r, from, to, version)
  PROVE  /\ route' \in [Routes -> RouteRows]
         /\ route[r].state = from /\ route'[r].state = to
         /\ route'[r].version = route[r].version + 1
         /\ route'[r].driver = route[r].driver /\ route'[r].vehicle = route[r].vehicle
         /\ route'[r].origin = route[r].origin
         /\ \A q \in Routes \ {r} : route'[q] = route[q]
         /\ OneActiveRoute'
<1>1. /\ route[r].state = from /\ route[r].version = version
      /\ route' = [route EXCEPT ![r].state = to, ![r].version = version + 1]
      /\ route[r] \in RouteRows /\ route \in [Routes -> RouteRows]
  BY DEF Transition, IInv, RowTypes
<1>2. to \in States \cup {"NONE"} /\ version + 1 \in Nat
  BY <1>1 DEF RouteRows
<1>3. /\ route'[r].state = to /\ route'[r].version = version + 1
      /\ route'[r].driver = route[r].driver /\ route'[r].vehicle = route[r].vehicle
      /\ route'[r].origin = route[r].origin
      /\ \A q \in Routes \ {r} : route'[q] = route[q]
  BY <1>1 DEF RouteRows
<1>4. route' \in [Routes -> RouteRows]
  BY <1>1, <1>2 DEF RouteRows
<1>5. OneActiveRoute'
  BY <1>1, <1>3 DEF IInv, LifecycleHolds, OneActiveRoute
<1> QED
  BY <1>1, <1>3, <1>4, <1>5

\* Records follow a route that advances.
LEMMA RecordsFollow ==
  ASSUME IInv, NEW r \in Routes, UNCHANGED <<load, sale, reconciliation>>,
         \A q \in Routes \ {r} : route'[q] = route[q] /\ declared'[q] = declared[q],
         route'[r].state \in {"EN_ROUTE", "RETURNED", "CLOSED"}, load[r].state = "CONFIRMED",
         declared'[r] # Null \/ reconciliation[r] # Null => route'[r].state \in {"RETURNED", "CLOSED"},
         route'[r].state = "CLOSED" => reconciliation[r] # Null
  PROVE  RecordsFollowLifecycle'
<1>1. ASSUME NEW q \in Routes
      PROVE  /\ route'[q].state \in {"EN_ROUTE", "RETURNED", "CLOSED"} => load'[q].state = "CONFIRMED"
             /\ declared'[q] # Null \/ reconciliation'[q] # Null
                  => route'[q].state \in {"RETURNED", "CLOSED"}
             /\ route'[q].state = "CLOSED" => reconciliation'[q] # Null
  <2>1. CASE q = r
    BY <2>1
  <2>2. CASE q # r
    BY <2>2 DEF IInv, LifecycleHolds, RecordsFollowLifecycle
  <2> QED BY <2>1, <2>2
<1>2. ASSUME NEW s \in Sales, sale'[s].status # "NONE"
      PROVE  route'[sale'[s].route].state \in {"EN_ROUTE", "RETURNED", "CLOSED"}
  <2>1. sale[s].route \in Routes /\ sale[s].status # "NONE"
    BY <1>2 DEF IInv, RowTypes, SaleRows, RowsHold
  <2>2. route[sale[s].route].state \in {"EN_ROUTE", "RETURNED", "CLOSED"}
    BY <2>1 DEF IInv, LifecycleHolds, RecordsFollowLifecycle
  <2>3. CASE sale[s].route = r
    BY <2>3
  <2> QED BY <2>1, <2>2, <2>3
<1> QED
  BY <1>1, <1>2 DEF RecordsFollowLifecycle

\* start keeps them: only the state of a loaded route changes.
LEMMA StartKeeps ==
  ASSUME IInv, NEW d \in Drivers, NEW r \in Routes, NEW version, Start(d, r, version)
  PROVE  IInv'
<1>1. /\ load[r].state = "CONFIRMED" /\ Transition(r, "PREPARING", "EN_ROUTE", version)
      /\ UNCHANGED <<balance, operations, load, sale, declared, reconciliation>>
  BY DEF Start
<1>2. "PREPARING" \in Active /\ "EN_ROUTE" \in States
  BY DEF Active, States
<1>3. /\ route' \in [Routes -> RouteRows]
      /\ route[r].state = "PREPARING" /\ route'[r].state = "EN_ROUTE"
      /\ route'[r].origin = route[r].origin
      /\ \A q \in Routes \ {r} : route'[q] = route[q]
      /\ OneActiveRoute'
  BY <1>1, <1>2, TransitionMoves
<1>4. RowTypes'
  BY <1>1, <1>3 DEF IInv, RowTypes
<1>5. RowsHold'
  BY <1>1, <1>3 DEF IInv, RowsHold
<1>6. RecordsFollowLifecycle'
  <2>1. declared[r] = Null /\ reconciliation[r] = Null
    BY <1>3, BeforeReturn DEF IInv
  <2> QED BY <1>1, <1>3, <2>1, RecordsFollow
<1>7. LP!IInv' /\ StockHolds' /\ \A q \in Routes : Reworked(q)' <=> Reworked(q)
  BY <1>1, LedgerUnchanged, StockUnchanged DEF IInv
<1>8. DeclaredHolds' /\ ReconciledHolds'
  BY <1>1, <1>7 DEF IInv, DeclaredHolds, ReconciledHolds
<1> QED
  BY <1>3, <1>4, <1>5, <1>6, <1>7, <1>8 DEF IInv, LifecycleHolds

\* close keeps them, since it moves nothing.
LEMMA CloseKeeps ==
  ASSUME IInv, NEW r \in Routes, NEW version, Close(r, version)
  PROVE  IInv'
<1>1. /\ reconciliation[r] # Null /\ Transition(r, "RETURNED", "CLOSED", version)
      /\ UNCHANGED <<balance, operations, load, sale, declared, reconciliation>>
  BY DEF Close
<1>2. "RETURNED" \in Active /\ "CLOSED" \in States
  BY DEF Active, States
<1>3. /\ route' \in [Routes -> RouteRows]
      /\ route[r].state = "RETURNED" /\ route'[r].state = "CLOSED"
      /\ route'[r].origin = route[r].origin
      /\ \A q \in Routes \ {r} : route'[q] = route[q]
      /\ OneActiveRoute'
  BY <1>1, <1>2, TransitionMoves
<1>4. RowTypes'
  BY <1>1, <1>3 DEF IInv, RowTypes
<1>5. RowsHold'
  BY <1>1, <1>3 DEF IInv, RowsHold
<1>6. RecordsFollowLifecycle'
  <2>1. load[r].state = "CONFIRMED"
    BY <1>3 DEF IInv, LifecycleHolds, RecordsFollowLifecycle
  <2> QED BY <1>1, <1>3, <2>1, RecordsFollow
<1>7. LP!IInv' /\ StockHolds' /\ \A q \in Routes : Reworked(q)' <=> Reworked(q)
  BY <1>1, LedgerUnchanged, StockUnchanged DEF IInv
<1>8. DeclaredHolds' /\ ReconciledHolds'
  BY <1>1, <1>7 DEF IInv, DeclaredHolds, ReconciledHolds
<1> QED
  BY <1>3, <1>4, <1>5, <1>6, <1>7, <1>8 DEF IInv, LifecycleHolds

\* A declared count is kept with what the sales of the day leave to expect.
LEMMA CountIsRecorded ==
  ASSUME IInv, NEW r \in Routes, NEW physical \in Counts(r), RecordDriverReturn(r, physical),
         UNCHANGED <<load, sale>>
  PROVE  /\ declared[r] = Null
         /\ declared' \in [Routes -> DeclaredReturns \cup {Null}]
         /\ \A q \in Routes \ {r} : declared'[q] = declared[q]
         /\ DeclaredHolds'
<1> DEFINE row == [expected |-> Expected(r), physical |-> physical]
<1>1. declared[r] = Null /\ declared' = [declared EXCEPT ![r] = row]
  BY DEF RecordDriverReturn
<1>2. \A p \in Products : Expected(r)[p] \in Nat
  <2>1. \A p \in Products : Expected(r)[p] >= 0 /\ Expected(r)[p] \in Int
    BY BooksType, HandlersReadTotals DEF RecordDriverReturn, IInv
  <2> QED BY <2>1
<1>3. Expected(r) \in Quantities
  BY <1>2 DEF Expected, Quantities
<1>4. physical \in Quantities
  BY RouteAssumption DEF Counts, Quantities
<1>5. row \in DeclaredReturns /\ row.expected = Expected(r)
  BY <1>3, <1>4 DEF DeclaredReturns
<1> HIDE DEF row
<1>6. /\ declared'[r] = row /\ \A q \in Routes \ {r} : declared'[q] = declared[q]
      /\ declared' \in [Routes -> DeclaredReturns \cup {Null}]
  BY <1>1, <1>5 DEF IInv, RowTypes
<1>7. DeclaredHolds'
  <2> SUFFICES ASSUME NEW q \in Routes, declared'[q] # Null, NEW p \in Products
               PROVE  /\ declared'[q].expected[p] <= load[q].lines[p] - SoldOf(sale, q, p)
                      /\ declared'[q].expected[p]
                           >= load[q].lines[p] - SoldOf(sale, q, p) - DivertedOf(sale, q, p)
    BY DEF DeclaredHolds
  <2>1. CASE q = r
    <3>1. declared'[q].expected[p] = load[q].lines[p] - SoldOf(sale, q, p)
      BY <1>5, <1>6, <2>1, HandlersReadTotals
    <3>2. /\ load[q].lines[p] \in Nat /\ SoldOf(sale, q, p) \in Nat
          /\ DivertedOf(sale, q, p) \in Nat
      BY BooksType DEF IInv
    <3> QED BY <3>1, <3>2
  <2>2. CASE q # r
    BY <1>6, <2>2 DEF IInv, DeclaredHolds
  <2> QED BY <2>1, <2>2
<1> QED
  BY <1>1, <1>6, <1>7

\* The driver's return keeps them: nothing is sold afterwards.
LEMMA ReturnKeeps ==
  ASSUME IInv, NEW d \in Drivers, NEW r \in Routes, NEW version, Return(d, r, version)
  PROVE  IInv'
<1>1. /\ Transition(r, "EN_ROUTE", "RETURNED", version)
      /\ \/ UNCHANGED declared
         \/ \E physical \in Counts(r) : RecordDriverReturn(r, physical)
      /\ UNCHANGED <<balance, operations, load, sale, reconciliation>>
  BY DEF Return
<1>2. "EN_ROUTE" \in Active /\ "RETURNED" \in States
  BY DEF Active, States
<1>3. /\ route' \in [Routes -> RouteRows]
      /\ route[r].state = "EN_ROUTE" /\ route'[r].state = "RETURNED"
      /\ route'[r].origin = route[r].origin
      /\ \A q \in Routes \ {r} : route'[q] = route[q]
      /\ OneActiveRoute'
  BY <1>1, <1>2, TransitionMoves
<1>4. reconciliation[r] = Null
  BY <1>3, BeforeReturn DEF IInv
<1>5. /\ declared' \in [Routes -> DeclaredReturns \cup {Null}] /\ DeclaredHolds'
      /\ \A q \in Routes \ {r} : declared'[q] = declared[q]
  <2>1. CASE UNCHANGED declared
    BY <1>1, <2>1 DEF IInv, RowTypes, DeclaredHolds
  <2>2. CASE \E physical \in Counts(r) : RecordDriverReturn(r, physical)
    BY <1>1, <1>4, <2>2, CountIsRecorded
  <2> QED BY <1>1, <2>1, <2>2
<1>6. RowTypes'
  BY <1>1, <1>3, <1>5 DEF IInv, RowTypes
<1>7. RowsHold'
  BY <1>1, <1>3 DEF IInv, RowsHold
<1>8. RecordsFollowLifecycle'
  <2>1. load[r].state = "CONFIRMED"
    BY <1>3 DEF IInv, LifecycleHolds, RecordsFollowLifecycle
  <2> QED BY <1>1, <1>3, <1>5, <2>1, RecordsFollow
<1>9. LP!IInv' /\ StockHolds' /\ \A q \in Routes : Reworked(q)' <=> Reworked(q)
  BY <1>1, LedgerUnchanged, StockUnchanged DEF IInv
<1>10. ReconciledHolds'
  BY <1>1, <1>4, <1>5, <1>9 DEF IInv, ReconciledHolds
<1> QED
  BY <1>3, <1>5, <1>6, <1>7, <1>8, <1>9, <1>10 DEF IInv, LifecycleHolds

\* declareReturn keeps them: what it expects is what the lines of load and sales say.
LEMMA DeclareReturnKeeps ==
  ASSUME IInv, NEW d \in Drivers, NEW r \in Routes, NEW version, NEW physical \in Counts(r),
         DeclareReturn(d, r, version, physical)
  PROVE  IInv'
<1>1. /\ reconciliation[r] = Null
      /\ Transition(r, "RETURNED", "RETURNED", version)
      /\ RecordDriverReturn(r, physical)
      /\ UNCHANGED <<balance, operations, load, sale, reconciliation>>
  BY DEF DeclareReturn
<1>2. "RETURNED" \in Active /\ "RETURNED" \in States
  BY DEF Active, States
<1>3. /\ route' \in [Routes -> RouteRows]
      /\ route[r].state = "RETURNED" /\ route'[r].state = "RETURNED"
      /\ route'[r].origin = route[r].origin
      /\ \A q \in Routes \ {r} : route'[q] = route[q]
      /\ OneActiveRoute'
  BY <1>1, <1>2, TransitionMoves
<1>4. /\ declared' \in [Routes -> DeclaredReturns \cup {Null}] /\ DeclaredHolds'
      /\ \A q \in Routes \ {r} : declared'[q] = declared[q]
  BY <1>1, CountIsRecorded
<1>5. RowTypes'
  BY <1>1, <1>3, <1>4 DEF IInv, RowTypes
<1>6. RowsHold'
  BY <1>1, <1>3 DEF IInv, RowsHold
<1>7. RecordsFollowLifecycle'
  <2>1. load[r].state = "CONFIRMED"
    BY <1>3 DEF IInv, LifecycleHolds, RecordsFollowLifecycle
  <2> QED BY <1>1, <1>3, <1>4, <2>1, RecordsFollow
<1>8. LP!IInv' /\ StockHolds' /\ \A q \in Routes : Reworked(q)' <=> Reworked(q)
  BY <1>1, LedgerUnchanged, StockUnchanged DEF IInv
<1>9. ReconciledHolds'
  BY <1>1, <1>4, <1>8 DEF IInv, ReconciledHolds
<1> QED
  BY <1>3, <1>4, <1>5, <1>6, <1>7, <1>8, <1>9 DEF IInv, LifecycleHolds
\* The lines of a request are quantities.
LEMMA LinesAreQuantities == L!Lines \subseteq Quantities
  BY LedgerAssumed DEF L!Lines, Quantities

\* saveDraft keeps them: lines of a draft move nothing yet.
LEMMA SaveDraftKeeps ==
  ASSUME IInv, NEW d, NEW r \in Routes, NEW version, NEW lines \in L!Lines,
         SaveDraft(d, r, version, lines)
  PROVE  IInv'
<1> DEFINE n == IF load[r].state = "NONE" THEN 1 ELSE load[r].version
           row == [state |-> "DRAFT", version |-> n + 1, lines |-> lines]
<1>1. /\ route[r].state = "PREPARING" /\ load[r].state # "CONFIRMED"
      /\ load' = [load EXCEPT ![r] = row]
      /\ UNCHANGED <<balance, operations, route, sale, declared, reconciliation>>
  BY DEF SaveDraft
<1>2. row \in LoadRows /\ row.state = "DRAFT"
  <2>1. n + 1 \in Nat
    BY DEF IInv, RowTypes, LoadRows
  <2> HIDE DEF n
  <2> QED BY <2>1, LinesAreQuantities DEF LoadRows
<1> HIDE DEF row
<1>3. load'[r] = row /\ \A q \in Routes \ {r} : load'[q] = load[q]
  BY <1>1 DEF IInv, RowTypes
<1>4. RowTypes'
  BY <1>1, <1>2 DEF IInv, RowTypes
<1>5. RowsHold'
  BY <1>1, <1>2, <1>3 DEF IInv, RowsHold
<1>6. LifecycleHolds'
  <2>1. OneActiveRoute'
    BY <1>1 DEF IInv, LifecycleHolds, OneActiveRoute
  <2>2. RecordsFollowLifecycle'
    BY <1>1, <1>3 DEF IInv, LifecycleHolds, RecordsFollowLifecycle
  <2> QED BY <2>1, <2>2 DEF LifecycleHolds
<1>7. declared[r] = Null /\ reconciliation[r] = Null
  BY <1>1, BeforeReturn DEF IInv
<1>8. LP!IInv' /\ \A q \in Routes : Reworked(q)' <=> Reworked(q)
  <2>1. LP!IInv'
    BY <1>1, LedgerUnchanged DEF IInv
  <2>2. \A q \in Routes : Reworked(q)' <=> Reworked(q)
    BY <1>1 DEF Reworked, L!Touches
  <2> QED BY <2>1, <2>2
<1>9. StockHolds'
  <2>1. ASSUME NEW q \in Routes, NEW p \in Products PROVE Books(q, p)' = Books(q, p)
    BY <1>1, <1>2, <1>3 DEF Books
  <2> QED BY <1>1, <1>8, <2>1 DEF IInv, StockHolds
<1>10. DeclaredHolds'
  BY <1>1, <1>3, <1>7 DEF IInv, DeclaredHolds
<1>11. ReconciledHolds'
  BY <1>1, <1>3, <1>7, <1>8 DEF IInv, ReconciledHolds
<1> QED
  BY <1>4, <1>5, <1>6, <1>8, <1>9, <1>10, <1>11 DEF IInv

\* confirmLoad keeps them: the truck holds what the lines say from here on.
LEMMA ConfirmLoadKeeps ==
  ASSUME IInv, NEW d, NEW r \in Routes, NEW version, ConfirmLoad(d, r, version)
  PROVE  IInv'
<1> DEFINE lines == load[r].lines
           origin == route[r].origin
<1>1. /\ route[r].state = "PREPARING" /\ load[r].state = "DRAFT"
      /\ L!Post("ROUTE_LOAD", L!MovesOf(lines, origin, r), 0)
      /\ load' = [load EXCEPT ![r].state = "CONFIRMED", ![r].version = @ + 1]
      /\ UNCHANGED <<route, sale, declared, reconciliation>>
  BY DEF ConfirmLoad
<1>2. load \in [Routes -> LoadRows] /\ load[r] \in LoadRows /\ lines \in Quantities
  BY DEF IInv, RowTypes, LoadRows
<1>3. /\ load' \in [Routes -> LoadRows]
      /\ load'[r].state = "CONFIRMED" /\ load'[r].lines = lines
      /\ \A q \in Routes \ {r} : load'[q] = load[q]
  BY <1>1, <1>2 DEF LoadRows
<1>4. origin \in Branches /\ route[r].state # "NONE"
  BY <1>1 DEF IInv, RowsHold
<1>5. LP!IInv' /\ Grown /\ Carried(lines, origin, r)
  <2>1. "ROUTE_LOAD" \in L!OperationTypes
    BY DEF L!OperationTypes
  <2>2. origin \in L!Endpoints /\ r \in L!Endpoints /\ origin # r
    BY <1>4, LedgerAssumed
  <2> HIDE DEF lines, origin
  <2> QED BY <1>1, <1>2, <2>1, <2>2, HandlerPosts DEF IInv
<1> HIDE DEF origin
<1>6. RowTypes'
  BY <1>1, <1>3 DEF IInv, RowTypes
<1>7. RowsHold'
  BY <1>1, <1>3, <1>4 DEF IInv, RowsHold
<1>8. LifecycleHolds'
  <2>1. OneActiveRoute'
    BY <1>1 DEF IInv, LifecycleHolds, OneActiveRoute
  <2>2. RecordsFollowLifecycle'
    BY <1>1, <1>3 DEF IInv, LifecycleHolds, RecordsFollowLifecycle
  <2> QED BY <2>1, <2>2 DEF LifecycleHolds
<1>9. /\ declared[r] = Null /\ reconciliation[r] = Null
      /\ \A p \in Products : SoldOf(sale, r, p) = 0 /\ DivertedOf(sale, r, p) = 0
  BY <1>1, BeforeReturn DEF IInv
<1>10. StockHolds'
  <2> SUFFICES ASSUME NEW q \in Routes, NEW p \in Products, balance[q][p] = Books(q, p)
               PROVE  balance'[q][p] = Books(q, p)'
    BY <1>5, StockFollows DEF IInv
  <2>1. q \in L!Locations /\ q # origin
    BY <1>4, LedgerAssumed
  <2>2. lines[p] \in Nat /\ Books(q, p) \in Int
    BY <1>2, BooksType DEF Quantities, IInv
  <2>3. CASE q = r
    <3>1. Books(q, p) = 0
      BY <1>1, <2>3 DEF Books
    <3>2. balance'[q][p] = lines[p]
      BY <1>5, <2>1, <2>2, <2>3, <3>1 DEF Carried
    <3>3. Books(q, p)' = lines[p] - 0 - 0
      BY <1>1, <1>3, <1>9, <2>3 DEF Books
    <3> QED BY <2>2, <3>2, <3>3
  <2>4. CASE q # r
    <3>1. Books(q, p)' = Books(q, p)
      BY <1>1, <1>3, <2>4 DEF Books
    <3>2. balance'[q][p] = balance[q][p]
      BY <1>5, <2>1, <2>2, <2>4 DEF Carried
    <3> QED BY <3>1, <3>2
  <2> QED BY <2>3, <2>4
<1>11. DeclaredHolds'
  BY <1>1, <1>3, <1>9 DEF IInv, DeclaredHolds
<1>12. ReconciledHolds'
  BY <1>1, <1>3, <1>5, <1>9, ReworkedStays DEF IInv, ReconciledHolds
<1> QED
  BY <1>5, <1>6, <1>7, <1>8, <1>10, <1>11, <1>12 DEF IInv

\* A sale keeps them: the truck gives what the sale's lines take.
LEMMA ConfirmSaleKeeps ==
  ASSUME IInv, NEW d, NEW s \in Sales, NEW r \in Routes, NEW lines \in L!Lines,
         ConfirmSale(d, s, r, lines)
  PROVE  IInv'
<1> DEFINE row == [status |-> "COMPLETED", route |-> r, lines |-> lines, destination |-> Null]
<1>1. /\ sale[s].status = "NONE" /\ route[r].state = "EN_ROUTE"
      /\ L!Post("SALE", L!MovesOf(lines, r, Null), 0)
      /\ sale' = [sale EXCEPT ![s] = row]
      /\ UNCHANGED <<route, load, declared, reconciliation>>
  BY DEF ConfirmSale
<1>2. lines \in Quantities
  BY LinesAreQuantities
<1>3. row \in SaleRows
  BY <1>2 DEF SaleRows
<1>4. row.status = "COMPLETED" /\ row.route = r /\ row.lines = lines /\ row.destination = Null
  OBVIOUS
<1> HIDE DEF row
<1>5. /\ sale \in [Sales -> SaleRows] /\ sale' \in [Sales -> SaleRows]
      /\ sale'[s] = row /\ \A t \in Sales \ {s} : sale'[t] = sale[t]
  BY <1>1, <1>3 DEF IInv, RowTypes
<1>6. LP!IInv' /\ Grown /\ Carried(lines, r, Null)
  <2>1. "SALE" \in L!OperationTypes
    BY DEF L!OperationTypes
  <2>2. Null \in L!Endpoints /\ r \in L!Endpoints /\ Null # r
    BY LedgerAssumed
  <2> QED BY <1>1, <1>2, <2>1, <2>2, HandlerPosts DEF IInv
<1>7. RowTypes'
  BY <1>1, <1>5 DEF IInv, RowTypes
<1>8. RowsHold'
  <2>1. r # Null
    BY RouteAssumption
  <2> QED BY <1>1, <1>4, <1>5, <2>1 DEF IInv, RowsHold
<1>9. LifecycleHolds'
  <2>1. OneActiveRoute'
    BY <1>1 DEF IInv, LifecycleHolds, OneActiveRoute
  <2>2. RecordsFollowLifecycle'
    BY <1>1, <1>4, <1>5 DEF IInv, LifecycleHolds, RecordsFollowLifecycle
  <2> QED BY <2>1, <2>2 DEF LifecycleHolds
<1>10. declared[r] = Null /\ reconciliation[r] = Null /\ load[r].state = "CONFIRMED"
  BY <1>1, BeforeReturn DEF IInv, LifecycleHolds, RecordsFollowLifecycle
<1>11. ASSUME NEW q \in Routes, NEW p \in Products
       PROVE  /\ SoldOf(sale', q, p) = SoldOf(sale, q, p) + (IF q = r THEN lines[p] ELSE 0)
              /\ DivertedOf(sale', q, p) = DivertedOf(sale, q, p)
  <2>1. sale[s].route = Null /\ sale[s].destination = Null /\ q # Null /\ Null \notin Branches
    BY <1>1, RouteAssumption DEF IInv, RowsHold
  <2>2. /\ SoldPart(sale[s], q, p) = 0 /\ DivertedPart(sale[s], q, p) = 0
        /\ SoldPart(row, q, p) = IF q = r THEN lines[p] ELSE 0
        /\ DivertedPart(row, q, p) = 0
    BY <1>4, <2>1 DEF SoldPart, DivertedPart
  <2>3. /\ SoldOf(sale', q, p) = SoldOf(sale, q, p) + SoldPart(row, q, p) - SoldPart(sale[s], q, p)
        /\ DivertedOf(sale', q, p)
             = DivertedOf(sale, q, p) + DivertedPart(row, q, p) - DivertedPart(sale[s], q, p)
    BY <1>5, TotalsChange
  <2>4. SoldOf(sale, q, p) \in Nat /\ DivertedOf(sale, q, p) \in Nat /\ lines[p] \in Nat
    BY <1>2, BooksType DEF IInv, Quantities
  <2> QED BY <2>2, <2>3, <2>4
<1>12. StockHolds'
  <2> SUFFICES ASSUME NEW q \in Routes, NEW p \in Products, balance[q][p] = Books(q, p)
               PROVE  balance'[q][p] = Books(q, p)'
    BY <1>6, StockFollows DEF IInv
  <2>1. q \in L!Locations /\ q # Null
    BY LedgerAssumed
  <2>2. /\ lines[p] \in Nat /\ Books(q, p) \in Int
        /\ load[q].lines[p] \in Nat /\ SoldOf(sale, q, p) \in Nat /\ DivertedOf(sale, q, p) \in Nat
    BY <1>2, BooksType DEF Quantities, IInv
  <2>3. balance'[q][p] = balance[q][p] - (IF q = r THEN lines[p] ELSE 0)
    BY <1>6, <2>1, <2>2 DEF Carried
  <2>4. Books(q, p)' = IF load[q].state = "CONFIRMED" /\ reconciliation[q] = Null
                       THEN load[q].lines[p] - SoldOf(sale', q, p) - DivertedOf(sale', q, p)
                       ELSE 0
    BY <1>1 DEF Books
  <2>5. CASE q = r
    BY <1>10, <1>11, <2>2, <2>3, <2>4, <2>5 DEF Books
  <2>6. CASE q # r
    BY <1>11, <2>2, <2>3, <2>4, <2>6 DEF Books
  <2> QED BY <2>5, <2>6
<1>13. ASSUME NEW q \in Routes \ {r}, NEW p \in Products
       PROVE  /\ SoldOf(sale', q, p) = SoldOf(sale, q, p)
              /\ DivertedOf(sale', q, p) = DivertedOf(sale, q, p)
  <2>1. SoldOf(sale, q, p) \in Nat
    BY BooksType DEF IInv
  <2> QED BY <1>11, <2>1
<1>14. DeclaredHolds'
  BY <1>1, <1>10, <1>13 DEF IInv, DeclaredHolds
<1>15. ReconciledHolds'
  <2> SUFFICES ASSUME NEW q \in Routes, reconciliation[q] # Null, NEW p \in Products
      PROVE  /\ load[q].lines[p] = reconciliation[q].sold[p] + reconciliation[q].expected[p]
             /\ reconciliation[q].expected[p]
                  = reconciliation[q].physical[p] + reconciliation[q].difference[p]
             /\ ~Reworked(q)' =>
                  /\ reconciliation[q].sold[p] = SoldOf(sale', q, p) + DivertedOf(sale', q, p)
                  /\ declared[q] # Null => declared[q].expected[p] = reconciliation[q].expected[p]
    BY <1>1 DEF ReconciledHolds
  <2>1. ~Reworked(q)' => ~Reworked(q)
    BY <1>6, ReworkedStays
  <2>2. q \in Routes \ {r}
    BY <1>10
  <2> QED BY <1>13, <2>1, <2>2 DEF IInv, ReconciledHolds
<1> QED
  BY <1>6, <1>7, <1>8, <1>9, <1>12, <1>14, <1>15 DEF IInv

\* The goods of a cancelled sale are on the truck again while it is out, in the branch
\* afterwards: then they stay part of what the route accounts for.
LEMMA CancelSaleKeeps ==
  ASSUME IInv, NEW s \in Sales, CancelSale(s)
  PROVE  IInv'
<1> DEFINE lines == sale[s].lines
           r == sale[s].route
           back == Destination(s)
<1>1. /\ sale[s].status = "COMPLETED"
      /\ L!Post("SALE_CANCELLATION", L!MovesOf(lines, Null, back), 0)
      /\ sale' = [sale EXCEPT ![s].status = "CANCELLED", ![s].destination = back]
      /\ UNCHANGED <<route, load, declared, reconciliation>>
  BY DEF CancelSale
<1>2. /\ sale \in [Sales -> SaleRows] /\ sale[s] \in SaleRows /\ lines \in Quantities
      /\ r \in Routes /\ r # Null /\ sale[s].destination = Null
  BY <1>1, RouteAssumption DEF IInv, RowTypes, SaleRows, RowsHold
<1>3. route[r].state \in {"EN_ROUTE", "RETURNED", "CLOSED"} /\ load[r].state = "CONFIRMED"
      /\ route[r].origin \in Branches
  BY <1>1, <1>2 DEF IInv, LifecycleHolds, RecordsFollowLifecycle, RowsHold
<1>4. back = IF route[r].state = "EN_ROUTE" THEN r ELSE route[r].origin
  BY DEF Destination
<1>5. back \in L!Locations /\ (back \in Branches <=> route[r].state # "EN_ROUTE")
      /\ \A q \in Routes : back = q <=> q = r /\ route[r].state = "EN_ROUTE"
  BY <1>2, <1>3, <1>4, LedgerAssumed
<1> HIDE DEF back
<1>6. LP!IInv' /\ Grown /\ Carried(lines, Null, back)
  <2>1. "SALE_CANCELLATION" \in L!OperationTypes
    BY DEF L!OperationTypes
  <2>2. Null \in L!Endpoints /\ back \in L!Endpoints /\ Null # back
    BY <1>5, LedgerAssumed
  <2> HIDE DEF lines
  <2> QED BY <1>1, <1>2, <2>1, <2>2, HandlerPosts DEF IInv
<1>7. /\ sale'[s].status = "CANCELLED" /\ sale'[s].route = r /\ sale'[s].lines = lines
      /\ sale'[s].destination = back
      /\ \A t \in Sales \ {s} : sale'[t] = sale[t]
  BY <1>1, <1>2 DEF SaleRows
<1>8. sale' \in [Sales -> SaleRows]
  BY <1>1, <1>2, <1>5 DEF SaleRows
<1> HIDE DEF r, lines
<1>9. RowTypes'
  BY <1>1, <1>8 DEF IInv, RowTypes
<1>10. RowsHold'
  BY <1>1, <1>2, <1>7 DEF IInv, RowsHold
<1>11. LifecycleHolds'
  <2>1. OneActiveRoute'
    BY <1>1 DEF IInv, LifecycleHolds, OneActiveRoute
  <2>2. RecordsFollowLifecycle'
    BY <1>1, <1>3, <1>7 DEF IInv, LifecycleHolds, RecordsFollowLifecycle
  <2> QED BY <2>1, <2>2 DEF LifecycleHolds
<1>12. ASSUME NEW q \in Routes, NEW p \in Products
       PROVE  /\ SoldOf(sale', q, p) = SoldOf(sale, q, p) - (IF q = r THEN lines[p] ELSE 0)
              /\ DivertedOf(sale', q, p)
                   = DivertedOf(sale, q, p)
                       + (IF q = r /\ route[r].state # "EN_ROUTE" THEN lines[p] ELSE 0)
              /\ SoldOf(sale', q, p) \in Nat /\ DivertedOf(sale', q, p) \in Nat
  <2>1. Null \notin Branches
    BY RouteAssumption
  <2>2. /\ SoldPart(sale[s], q, p) = IF q = r THEN lines[p] ELSE 0
        /\ DivertedPart(sale[s], q, p) = 0
    BY <1>1, <1>2, <2>1 DEF SoldPart, DivertedPart, r, lines
  <2>3. /\ SoldPart(sale'[s], q, p) = 0
        /\ DivertedPart(sale'[s], q, p)
             = IF q = r /\ route[r].state # "EN_ROUTE" THEN lines[p] ELSE 0
    BY <1>5, <1>7 DEF SoldPart, DivertedPart
  <2>4. /\ SoldOf(sale', q, p)
             = SoldOf(sale, q, p) + SoldPart(sale'[s], q, p) - SoldPart(sale[s], q, p)
        /\ DivertedOf(sale', q, p)
             = DivertedOf(sale, q, p) + DivertedPart(sale'[s], q, p) - DivertedPart(sale[s], q, p)
    BY <1>2, <1>7, <1>8, TotalsChange
  <2>5. SoldOf(sale, q, p) \in Nat /\ DivertedOf(sale, q, p) \in Nat /\ lines[p] \in Nat
    BY <1>2, BooksType DEF IInv, Quantities
  <2>6. SoldOf(sale', q, p) \in Nat /\ DivertedOf(sale', q, p) \in Nat
    BY <1>8, TotalsType
  <2> QED BY <2>2, <2>3, <2>4, <2>5, <2>6
<1>13. StockHolds'
  <2> SUFFICES ASSUME NEW q \in Routes, NEW p \in Products, balance[q][p] = Books(q, p)
               PROVE  balance'[q][p] = Books(q, p)'
    BY <1>6, StockFollows DEF IInv
  <2>1. q \in L!Locations /\ q # Null
    BY LedgerAssumed
  <2>2. /\ lines[p] \in Nat /\ Books(q, p) \in Int
        /\ load[q].lines[p] \in Nat /\ SoldOf(sale, q, p) \in Nat /\ DivertedOf(sale, q, p) \in Nat
    BY <1>2, BooksType DEF Quantities, IInv
  <2>3. balance'[q][p] = balance[q][p]
                           + (IF q = r /\ route[r].state = "EN_ROUTE" THEN lines[p] ELSE 0)
    BY <1>5, <1>6, <2>1, <2>2 DEF Carried
  <2>4. Books(q, p)' = IF load[q].state = "CONFIRMED" /\ reconciliation[q] = Null
                       THEN load[q].lines[p] - SoldOf(sale', q, p) - DivertedOf(sale', q, p)
                       ELSE 0
    BY <1>1 DEF Books
  <2>5. CASE q = r /\ route[r].state = "EN_ROUTE"
    <3>1. reconciliation[r] = Null
      BY <1>2, <2>5, BeforeReturn DEF IInv
    <3> QED BY <1>3, <1>12, <2>2, <2>3, <2>4, <2>5, <3>1 DEF Books
  <2>6. CASE ~(q = r /\ route[r].state = "EN_ROUTE")
    <3>1. balance'[q][p] = balance[q][p]
      BY <2>2, <2>3, <2>6
    <3>2. SoldOf(sale', q, p) + DivertedOf(sale', q, p) = SoldOf(sale, q, p) + DivertedOf(sale, q, p)
      BY <1>12, <2>2, <2>6
    <3>3. SoldOf(sale', q, p) \in Nat /\ DivertedOf(sale', q, p) \in Nat
      BY <1>12
    <3>4. load[q].lines[p] - SoldOf(sale', q, p) - DivertedOf(sale', q, p)
            = load[q].lines[p] - SoldOf(sale, q, p) - DivertedOf(sale, q, p)
      BY <2>2, <3>2, <3>3
    <3> QED BY <2>4, <3>1, <3>4 DEF Books
  <2> QED BY <2>5, <2>6
<1>14. ASSUME NEW q \in Routes, declared[q] # Null \/ reconciliation[q] # Null, NEW p \in Products
       PROVE  /\ SoldOf(sale', q, p) + DivertedOf(sale', q, p)
                   = SoldOf(sale, q, p) + DivertedOf(sale, q, p)
              /\ SoldOf(sale', q, p) <= SoldOf(sale, q, p)
  <2>1. q = r => route[r].state # "EN_ROUTE"
    BY <1>14, BeforeReturn DEF IInv
  <2>2. SoldOf(sale, q, p) \in Nat /\ DivertedOf(sale, q, p) \in Nat /\ lines[p] \in Nat
    BY <1>2, BooksType DEF IInv, Quantities
  <2> QED BY <1>12, <2>1, <2>2
<1>15. DeclaredHolds'
  <2> SUFFICES ASSUME NEW q \in Routes, declared[q] # Null, NEW p \in Products
               PROVE  /\ declared[q].expected[p] <= load[q].lines[p] - SoldOf(sale', q, p)
                      /\ declared[q].expected[p]
                           >= load[q].lines[p] - SoldOf(sale', q, p) - DivertedOf(sale', q, p)
    BY <1>1 DEF DeclaredHolds
  <2>1. /\ declared[q].expected[p] <= load[q].lines[p] - SoldOf(sale, q, p)
        /\ declared[q].expected[p]
             >= load[q].lines[p] - SoldOf(sale, q, p) - DivertedOf(sale, q, p)
    BY DEF IInv, DeclaredHolds
  <2>2. declared[q].expected[p] \in Nat
    BY DEF IInv, RowTypes, DeclaredReturns, Quantities
  <2>3. load[q].lines[p] \in Nat /\ SoldOf(sale, q, p) \in Nat /\ DivertedOf(sale, q, p) \in Nat
    BY BooksType DEF IInv
  <2>4. SoldOf(sale', q, p) \in Nat /\ DivertedOf(sale', q, p) \in Nat
    BY <1>12
  <2> QED BY <1>14, <2>1, <2>2, <2>3, <2>4
<1>16. ReconciledHolds'
  BY <1>1, <1>6, <1>14, ReworkedStays DEF IInv, ReconciledHolds
<1> QED
  BY <1>6, <1>9, <1>10, <1>11, <1>13, <1>15, <1>16 DEF IInv
\* An approved reconciliation counted as sold what is sold: a truck from which goods went
\* back to the branch meanwhile would not be left empty.
LEMMA ApproveKeeps ==
  ASSUME IInv, NEW r \in Routes, NEW version, NEW physical \in Counts(r),
         Approve(r, version, physical)
  PROVE  IInv'
<1> DEFINE difference == Difference(r, physical)
           row == [ sold |-> Sold(r), expected |-> Expected(r), physical |-> physical,
                    difference |-> difference ]
<1>1. /\ route[r].state = "RETURNED" /\ reconciliation[r] = Null
      /\ reconciliation' = [reconciliation EXCEPT ![r] = row]
      /\ UNCHANGED <<route, load, sale, declared>>
  BY DEF Approve
<1>2. physical \in Quantities
  BY RouteAssumption DEF Counts, Quantities
<1>3. route[r].origin \in Branches /\ load[r].state = "CONFIRMED"
  BY <1>1 DEF IInv, RowsHold, LifecycleHolds, RecordsFollowLifecycle
<1>4. /\ LP!IInv' /\ Grown
      /\ \A i \in Len(operations) + 1..Len(operations') : operations'[i].reverses = 0
      /\ \A q \in Routes, p \in Products : balance'[q][p] = IF q = r THEN 0 ELSE balance[q][p]
      /\ \A p \in Products : Expected(r)[p] \in Nat /\ balance[r][p] = Expected(r)[p]
  BY <1>2, <1>3, ApprovalPosts DEF IInv
<1>5. difference \in [Products -> Int]
      /\ \A p \in Products : /\ physical[p] \in Nat
                             /\ difference[p] = Expected(r)[p] - physical[p]
  BY <1>2, DifferenceType DEF IInv
<1>6. Sold(r) \in Quantities /\ Expected(r) \in Quantities
  <2>1. \A p \in Products : Sold(r)[p] \in Nat
    BY HandlersReadTotals, BooksType DEF IInv
  <2> QED BY <1>4, <2>1 DEF Sold, Expected, Quantities
<1>7. /\ row \in Reconciliations /\ row # Null
      /\ row.sold = Sold(r) /\ row.expected = Expected(r) /\ row.physical = physical
      /\ row.difference = difference
  <2> HIDE DEF difference
  <2>1. row \in Reconciliations
    BY <1>2, <1>5, <1>6 DEF Reconciliations
  <2> QED BY <2>1, RouteAssumption
<1> HIDE DEF row, difference
<1>8. /\ reconciliation'[r] = row
      /\ \A q \in Routes \ {r} : reconciliation'[q] = reconciliation[q]
      /\ reconciliation' \in [Routes -> Reconciliations \cup {Null}]
  BY <1>1, <1>7 DEF IInv, RowTypes
<1>9. RowTypes'
  BY <1>1, <1>8 DEF IInv, RowTypes
<1>10. RowsHold'
  BY <1>1 DEF IInv, RowsHold
<1>11. LifecycleHolds'
  <2>1. OneActiveRoute'
    BY <1>1 DEF IInv, LifecycleHolds, OneActiveRoute
  <2>2. RecordsFollowLifecycle'
    BY <1>1, <1>3, <1>7, <1>8 DEF IInv, LifecycleHolds, RecordsFollowLifecycle
  <2> QED BY <2>1, <2>2 DEF LifecycleHolds
<1>12. StockHolds'
  <2> SUFFICES ASSUME NEW q \in Routes, NEW p \in Products, balance[q][p] = Books(q, p)
               PROVE  balance'[q][p] = Books(q, p)'
    BY <1>4, StockFollows DEF IInv
  <2>1. CASE q = r
    BY <1>4, <1>7, <1>8, <2>1 DEF Books
  <2>2. CASE q # r
    BY <1>1, <1>4, <1>8, <2>2 DEF Books
  <2> QED BY <2>1, <2>2
<1>13. DeclaredHolds'
  BY <1>1 DEF IInv, DeclaredHolds
<1>14. ASSUME ~Reworked(r), NEW p \in Products
       PROVE  /\ Sold(r)[p] = SoldOf(sale, r, p) + DivertedOf(sale, r, p)
              /\ declared[r] # Null => declared[r].expected[p] = Expected(r)[p]
  <2>1. balance[r][p] = load[r].lines[p] - SoldOf(sale, r, p) - DivertedOf(sale, r, p)
    BY <1>1, <1>3, <1>14 DEF IInv, StockHolds, Books
  <2>2. /\ Sold(r)[p] = SoldOf(sale, r, p)
        /\ Expected(r)[p] = load[r].lines[p] - SoldOf(sale, r, p)
    BY HandlersReadTotals
  <2>3. load[r].lines[p] \in Nat /\ SoldOf(sale, r, p) \in Nat /\ DivertedOf(sale, r, p) \in Nat
    BY BooksType DEF IInv
  <2>4. DivertedOf(sale, r, p) = 0
    BY <1>4, <2>1, <2>2, <2>3
  <2>5. ASSUME declared[r] # Null PROVE declared[r].expected[p] = Expected(r)[p]
    <3>1. /\ declared[r].expected[p] <= load[r].lines[p] - SoldOf(sale, r, p)
          /\ declared[r].expected[p]
               >= load[r].lines[p] - SoldOf(sale, r, p) - DivertedOf(sale, r, p)
      BY <2>5 DEF IInv, DeclaredHolds
    <3>2. declared[r].expected[p] \in Nat
      BY <2>5 DEF IInv, RowTypes, DeclaredReturns, Quantities
    <3> QED BY <2>2, <2>3, <2>4, <3>1, <3>2
  <2> QED BY <2>2, <2>3, <2>4, <2>5
<1>15. ReconciledHolds'
  <2> SUFFICES ASSUME NEW q \in Routes, reconciliation'[q] # Null, NEW p \in Products
      PROVE  /\ load[q].lines[p] = reconciliation'[q].sold[p] + reconciliation'[q].expected[p]
             /\ reconciliation'[q].expected[p]
                  = reconciliation'[q].physical[p] + reconciliation'[q].difference[p]
             /\ ~Reworked(q)' =>
                  /\ reconciliation'[q].sold[p] = SoldOf(sale, q, p) + DivertedOf(sale, q, p)
                  /\ declared[q] # Null => declared[q].expected[p] = reconciliation'[q].expected[p]
    BY <1>1 DEF ReconciledHolds
  <2>1. ~Reworked(q)' => ~Reworked(q)
    BY <1>4, ReworkedStays
  <2>2. CASE q = r
    <3>1. load[r].lines[p] = Sold(r)[p] + Expected(r)[p]
      BY HandlersReadTotals, BooksType DEF IInv
    <3>2. Expected(r)[p] = physical[p] + difference[p]
      BY <1>4, <1>5
    <3> QED BY <1>7, <1>8, <1>14, <2>1, <2>2, <3>1, <3>2
  <2>3. CASE q # r
    BY <1>8, <2>1, <2>3 DEF IInv, ReconciledHolds
  <2> QED BY <2>2, <2>3
<1> QED
  BY <1>4, <1>9, <1>10, <1>11, <1>12, <1>13, <1>15 DEF IInv

\* What keeps the rows of the routes keeps what is said of them, as long as the stock of
\* the trucks stays too.
LEMMA LedgerAlone ==
  ASSUME IInv, UNCHANGED routeVars, LP!IInv', Grown,
         \A r \in Routes : ~Reworked(r)' => \A p \in Products : balance'[r][p] = balance[r][p]
  PROVE  IInv'
<1>1. UNCHANGED <<route, load, sale, declared, reconciliation>>
  BY DEF routeVars
<1>2. RowTypes' /\ RowsHold'
  BY <1>1 DEF IInv, RowTypes, RowsHold
<1>3. LifecycleHolds'
  BY <1>1 DEF IInv, LifecycleHolds, OneActiveRoute, RecordsFollowLifecycle
<1>4. StockHolds'
  <2>1. \A r \in Routes, p \in Products : Books(r, p)' = Books(r, p)
    BY <1>1 DEF Books
  <2> QED BY <2>1, StockFollows DEF IInv
<1>5. DeclaredHolds'
  BY <1>1 DEF IInv, DeclaredHolds
<1>6. ReconciledHolds'
  BY <1>1, ReworkedStays DEF IInv, ReconciledHolds
<1> QED
  BY <1>2, <1>3, <1>4, <1>5, <1>6 DEF IInv

\* An administrator's operation between branches keeps them: no truck takes part.
LEMMA AdminOperationKeeps == ASSUME IInv, AdminOperation PROVE IInv'
<1>1. UNCHANGED routeVars
  BY DEF AdminOperation
<1> QED
  BY <1>1, AdminPosts, LedgerAlone DEF IInv

\* Nor does one in the reversal of such an operation.
LEMMA ReverseOperationKeeps ==
  ASSUME IInv, NEW i \in 1..MaxOps, ReverseOperation(i) PROVE IInv'
<1>1. UNCHANGED routeVars
  BY DEF ReverseOperation
<1> QED
  BY <1>1, ReversalPosts, LedgerAlone DEF IInv

\* A step that changes nothing keeps the invariant.
LEMMA StutterKeeps == ASSUME IInv, UNCHANGED vars PROVE IInv'
<1>1. UNCHANGED <<balance, operations>> /\ UNCHANGED routeVars
  BY DEF vars, routeVars
<1>2. LP!IInv'
  BY <1>1, LedgerUnchanged DEF IInv
<1>3. Grown
  <2>1. operations \in Seq(LP!Operations)
    BY DEF IInv, LP!IInv, LP!TypeOK
  <2> QED BY <1>1, <2>1, LenProperties DEF Grown
<1> QED
  BY <1>1, <1>2, <1>3, LedgerAlone

-----------------------------------------------------------------------------
(* The invariant *)

\* Every handler keeps the invariant.
LEMMA NextIInv == IInv /\ [Next]_vars => IInv'
<1> SUFFICES ASSUME IInv, [Next]_vars PROVE IInv'
  OBVIOUS
<1>1. ASSUME NEW r \in Routes, NEW d \in Drivers, DriverStep(d, r) PROVE IInv'
  BY <1>1, SaveDraftKeeps, ConfirmLoadKeeps, StartKeeps, ReturnKeeps, DeclareReturnKeeps,
     ConfirmSaleKeeps DEF DriverStep
<1>2. ASSUME NEW r \in Routes, AdminStep(r) PROVE IInv'
  BY <1>2, CreateKeeps, ApproveKeeps, CloseKeeps DEF AdminStep
<1>3. ASSUME NEW s \in Sales, CancelSale(s) PROVE IInv'
  BY <1>3, CancelSaleKeeps
<1>4. ASSUME AdminOperation PROVE IInv'
  BY <1>4, AdminOperationKeeps
<1>5. ASSUME NEW i \in 1..MaxOps, ReverseOperation(i) PROVE IInv'
  BY <1>5, ReverseOperationKeeps
<1>6. ASSUME UNCHANGED vars PROVE IInv'
  BY <1>6, StutterKeeps
<1> QED
  BY <1>1, <1>2, <1>3, <1>4, <1>5, <1>6 DEF Next
\* The opening entry is a sound movement into an empty ledger.
LEMMA OpeningLedger ==
  ASSUME Init
  PROVE  /\ LP!IInv /\ Len(operations) = 1 /\ operations[1].reverses = 0
         /\ operations[1].type = "ENTRY"
         /\ \A p \in Products : operations[1].moves[p] = L!Recorded(NoStock, p, OpeningMoves[p])
         /\ NoStock \in [L!Locations -> [Products -> Nat]]
         /\ \A l \in L!Locations, p \in Products :
              balance[l][p] = IF l = Depot THEN OpeningStock[p] ELSE 0
<1> DEFINE first == L!NewOperation(NoStock, "ENTRY", OpeningMoves, 0)
<1>1. balance = L!ApplyMoves(NoStock, OpeningMoves) /\ operations = <<first>>
  BY DEF Init
<1>2. /\ OpeningStock \in Quantities /\ Depot \in L!Endpoints /\ Null \in L!Endpoints
      /\ Depot # Null
  BY RouteAssumption, LedgerAssumed
<1>3. LP!Sound(OpeningMoves)
  <2>1. LP!Sound(LP!MovesOf(OpeningStock, Null, Depot))
    BY <1>2, LedgerAssumed, LP!QuantitiesMoves, Zenon DEF Quantities
  <2> QED BY <2>1, SameOperators DEF OpeningMoves
<1>4. NoStock \in [L!Locations -> [Products -> Nat]]
      /\ \A l \in L!Locations, p \in Products : NoStock[l][p] = 0
  BY DEF NoStock, NoLines
<1>5. L!Covered(NoStock, OpeningMoves)
  BY DEF L!Covered, OpeningMoves, L!MovesOf, L!Move
<1>6. "ENTRY" \in L!OperationTypes /\ "ENTRY" # "TRANSFER"
  BY DEF L!OperationTypes
<1>7. /\ first \in L!Operations /\ first.type = "ENTRY" /\ first.reverses = 0
      /\ \A p \in Products :
           /\ first.moves[p] = L!Recorded(NoStock, p, OpeningMoves[p])
           /\ first.moves[p].quantity = 0 <=> first.moves[p].source = first.moves[p].destination
  BY <1>3, <1>4, <1>5, <1>6, OperationOf
<1> HIDE DEF first
<1>8. /\ operations \in Seq(L!Operations) /\ Len(operations) = 1 /\ operations[1] = first
      /\ 1..Len(operations) = {1}
  BY <1>1, <1>7
<1>9. ASSUME NEW l \in L!Locations, NEW p \in Products
      PROVE  /\ balance[l][p] = L!Delta(OpeningMoves[p], l)
             /\ balance[l][p] = IF l = Depot THEN OpeningStock[p] ELSE 0
             /\ balance[l][p] \in Nat
  <2>1. balance[l][p] = NoStock[l][p] + L!Delta(OpeningMoves[p], l)
    BY <1>1 DEF L!ApplyMoves
  <2>2. L!Delta(OpeningMoves[p], l)
          = (IF Depot = l THEN OpeningStock[p] ELSE 0) - (IF Null = l THEN OpeningStock[p] ELSE 0)
    BY <1>2, LinesDelta DEF OpeningMoves
  <2>3. OpeningStock[p] \in Nat /\ l # Null
    BY <1>2, LedgerAssumed DEF Quantities
  <2> QED BY <1>4, <2>1, <2>2, <2>3
<1>10. LP!TypeOK
  <2>1. balance \in [L!Locations -> [Products -> Nat]]
    <3>1. balance = [l \in L!Locations |-> [p \in Products |-> NoStock[l][p] + L!Delta(OpeningMoves[p], l)]]
      BY <1>1 DEF L!ApplyMoves
    <3>2. \A l \in L!Locations, p \in Products : NoStock[l][p] + L!Delta(OpeningMoves[p], l) \in Nat
      BY <1>9, <3>1
    <3> QED BY <3>1, <3>2
  <2> QED BY <1>8, <2>1, LedgerAssumed, SameOperators DEF LP!TypeOK
<1>11. LP!MovesAreSound
  BY <1>6, <1>7, <1>8 DEF LP!MovesAreSound
<1>12. LP!ReversalsAreExact
  BY <1>7, <1>8 DEF LP!ReversalsAreExact
<1>13. LP!LedgerReproducesBalances
  <2> SUFFICES ASSUME NEW l \in L!Locations, NEW p \in Products
               PROVE  RowReproduced(balance, operations, l, p)
    BY SameReproduces, SameInvariants DEF Reproduces
  <2> DEFINE row == operations[1].moves[p]
             m == OpeningMoves[p]
  <2>1. m \in L!Commands /\ (m.quantity = 0 <=> m.source = m.destination)
    BY <1>3, LedgerAssumed DEF LP!Sound, LP!Commands, L!Commands
  <2>2. row = L!Recorded(NoStock, p, m)
    BY <1>7, <1>8
  <2>3. NoStock[l][p] \in Nat /\ NoStock[l][p] = 0
    BY <1>4
  <2> HIDE DEF m, row
  <2>4. /\ L!Delta(m, l) \in Int /\ L!Delta(row, l) = L!Delta(m, l)
        /\ TouchedBy(row, l) => LeftBy(row, l) = NoStock[l][p] + L!Delta(m, l)
        /\ ~TouchedBy(row, l) => L!Delta(m, l) = 0
    BY <2>1, <2>2, <2>3, RecordedRow
  <2>5. balance[l][p] = L!Delta(row, l)
    BY <1>9, <2>4 DEF m
  <2>6. TouchedBy(row, l) => LeftBy(row, l) = L!Delta(row, l)
    BY <2>3, <2>4
  <2>7. {i \in 1..Len(operations) : TouchedBy(operations[i].moves[p], l)}
          = IF TouchedBy(row, l) THEN {1} ELSE {}
    BY <1>8 DEF row
  <2> QED BY <1>8, <2>4, <2>5, <2>6, <2>7 DEF RowReproduced, row
<1> QED
  BY <1>4, <1>7, <1>8, <1>9, <1>10, <1>11, <1>12, <1>13 DEF LP!IInv

\* A warehouse with its opening stock, and no route yet, satisfies the invariant.
LEMMA InitIInv == Init => IInv
<1> SUFFICES ASSUME Init PROVE IInv
  OBVIOUS
<1>1. /\ route = [r \in Routes |-> NoRoute] /\ load = [r \in Routes |-> NoLoad]
      /\ sale = [s \in Sales |-> NoSale]
      /\ declared = [r \in Routes |-> Null] /\ reconciliation = [r \in Routes |-> Null]
  BY DEF Init
<1>2. NoRoute \in RouteRows /\ NoRoute.state = "NONE" /\ NoRoute.version = 0
  BY DEF NoRoute, RouteRows
<1>3. NoLoad \in LoadRows /\ NoLoad.state = "NONE"
  BY DEF NoLoad, NoLines, LoadRows, Quantities
<1>4. /\ NoSale \in SaleRows /\ NoSale.status = "NONE" /\ NoSale.route = Null
      /\ NoSale.destination = Null
  BY DEF NoSale, NoLines, SaleRows, Quantities
<1>5. RowTypes
  BY <1>1, <1>2, <1>3, <1>4 DEF RowTypes
<1>6. RowsHold
  BY <1>1, <1>2, <1>3, <1>4 DEF RowsHold
<1>7. LifecycleHolds
  BY <1>1, <1>2, <1>3, <1>4 DEF LifecycleHolds, OneActiveRoute, RecordsFollowLifecycle, Active
<1>8. StockHolds
  <2>1. ASSUME NEW r \in Routes, NEW p \in Products PROVE balance[r][p] = Books(r, p)
    <3>1. r \in L!Locations /\ r # Depot
      BY LedgerAssumed, RouteAssumption
    <3> QED BY <1>1, <1>3, <3>1, OpeningLedger DEF Books
  <2> QED BY <2>1 DEF StockHolds
<1>9. DeclaredHolds /\ ReconciledHolds
  BY <1>1 DEF DeclaredHolds, ReconciledHolds
<1> QED
  BY <1>5, <1>6, <1>7, <1>8, <1>9, OpeningLedger DEF IInv

\* IInv holds for ever: the lemmas above are its induction.
THEOREM Invariance == Spec => []IInv
  BY InitIInv, NextIInv, PTL DEF Spec

-----------------------------------------------------------------------------
(* Results *)

\* Every row of routes, loads, sales, counts and reconciliations is well formed, and no
\* stock is negative: approve refuses a count that would leave any.
THEOREM TypeCorrect == Spec => []TypeOK
<1>1. IInv => TypeOK
  BY SameInvariants DEF IInv, LP!IInv, RowTypes, TypeOK
<1> QED
  BY <1>1, Invariance, PTL

\* The stock of a truck is what its records say, whatever was sold and cancelled, before
\* and after it came back.
THEOREM StockExplained == Spec => []RouteStockExplained
<1>1. IInv => RouteStockExplained
  <2> SUFFICES ASSUME IInv, NEW r \in Routes, ~Reworked(r)
               PROVE  balance[r] =
                        IF load[r].state = "CONFIRMED" /\ reconciliation[r] = Null
                        THEN [p \in Products |-> Expected(r)[p] - Diverted(r)[p]]
                        ELSE NoLines
    BY DEF RouteStockExplained
  <2>1. balance[r] \in [Products -> Nat]
    BY LedgerAssumed DEF IInv, LP!IInv, LP!TypeOK
  <2>2. \A p \in Products : balance[r][p] = Books(r, p)
    BY DEF IInv, StockHolds
  <2>3. \A p \in Products : /\ Expected(r)[p] = load[r].lines[p] - SoldOf(sale, r, p)
                            /\ Diverted(r)[p] = DivertedOf(sale, r, p)
    BY HandlersReadTotals
  <2>4. CASE load[r].state = "CONFIRMED" /\ reconciliation[r] = Null
    <3>1. \A p \in Products : balance[r][p] = Expected(r)[p] - Diverted(r)[p]
      BY <2>2, <2>3, <2>4 DEF Books
    <3> QED BY <2>1, <2>4, <3>1
  <2>5. CASE ~(load[r].state = "CONFIRMED" /\ reconciliation[r] = Null)
    <3>1. \A p \in Products : balance[r][p] = 0
      BY <2>2, <2>5 DEF Books
    <3> QED BY <2>1, <2>5, <3>1 DEF NoLines
  <2> QED BY <2>4, <2>5
<1> QED
  BY <1>1, Invariance, PTL

\* A reconciliation stays true whatever is cancelled after it: the goods of a later
\* cancellation move from what is sold to what was diverted.
THEOREM ReconciliationsStand == Spec => []ReconciliationStands
<1>1. IInv => ReconciliationStands
  <2> SUFFICES ASSUME IInv, NEW r \in Routes, reconciliation[r] # Null
               PROVE  LET rec == reconciliation[r] IN
                 /\ \A p \in Products :
                      load[r].lines[p] = rec.sold[p] + rec.physical[p] + rec.difference[p]
                 /\ ~Reworked(r) =>
                      /\ rec.sold = [p \in Products |-> Sold(r)[p] + Diverted(r)[p]]
                      /\ declared[r] # Null => declared[r].expected = rec.expected
    BY DEF ReconciliationStands
  <2>1. /\ reconciliation[r].sold \in Quantities /\ reconciliation[r].expected \in Quantities
        /\ reconciliation[r].physical \in Quantities
        /\ reconciliation[r].difference \in [Products -> Int]
        /\ declared[r] # Null => declared[r].expected \in Quantities
    BY DEF IInv, RowTypes, Reconciliations, DeclaredReturns
  <2>2. ASSUME NEW p \in Products
        PROVE  /\ load[r].lines[p] = reconciliation[r].sold[p] + reconciliation[r].expected[p]
               /\ reconciliation[r].expected[p]
                    = reconciliation[r].physical[p] + reconciliation[r].difference[p]
               /\ ~Reworked(r) =>
                    /\ reconciliation[r].sold[p] = SoldOf(sale, r, p) + DivertedOf(sale, r, p)
                    /\ declared[r] # Null => declared[r].expected[p] = reconciliation[r].expected[p]
    BY DEF IInv, ReconciledHolds
  <2>3. ASSUME NEW p \in Products
        PROVE  load[r].lines[p] = reconciliation[r].sold[p] + reconciliation[r].physical[p]
                                    + reconciliation[r].difference[p]
    <3>1. /\ reconciliation[r].sold[p] \in Nat /\ reconciliation[r].physical[p] \in Nat
          /\ reconciliation[r].difference[p] \in Int
      BY <2>1 DEF Quantities
    <3> QED BY <2>2, <3>1
  <2>4. ASSUME ~Reworked(r)
        PROVE  reconciliation[r].sold = [p \in Products |-> Sold(r)[p] + Diverted(r)[p]]
    <3>1. \A p \in Products : reconciliation[r].sold[p] = Sold(r)[p] + Diverted(r)[p]
      BY <2>2, <2>4, HandlersReadTotals
    <3> QED BY <2>1, <3>1 DEF Quantities
  <2>5. ASSUME ~Reworked(r), declared[r] # Null
        PROVE  declared[r].expected = reconciliation[r].expected
    BY <2>1, <2>2, <2>5 DEF Quantities
  <2> QED BY <2>3, <2>4, <2>5
<1> QED
  BY <1>1, Invariance, PTL

\* One active route per driver and vehicle, and records that follow the route's lifecycle,
\* for any number of routes, drivers and vehicles.
THEOREM LifecycleKept == Spec => []LifecycleHolds
<1>1. IInv => LifecycleHolds
  BY DEF IInv
<1> QED
  BY <1>1, Invariance, PTL
\* The truck holds what is expected of it, so any count can be adjusted to and returned.
LEMMA CountReconciles ==
  ASSUME IInv, NEW r \in Routes, AwaitsReconciliation(r), ~Reworked(r), Diverted(r) = NoLines,
         NEW physical \in Counts(r)
  PROVE  Reconciles(r, physical)
<1> DEFINE difference == Difference(r, physical)
           giveBack == L!MovesOf(physical, r, route[r].origin)
<1>1. /\ route[r].state = "RETURNED" /\ reconciliation[r] = Null /\ load[r].state = "CONFIRMED"
      /\ route[r].origin \in Branches
  BY DEF AwaitsReconciliation, IInv, RowsHold, LifecycleHolds, RecordsFollowLifecycle
<1>2. physical \in Quantities
  BY RouteAssumption DEF Counts, Quantities
<1>3. r \in L!Locations /\ r # Null /\ r # route[r].origin
  BY <1>1, LedgerAssumed
<1>4. ASSUME NEW p \in Products
      PROVE  /\ physical[p] \in Nat /\ Expected(r)[p] \in Nat /\ balance[r][p] = Expected(r)[p]
             /\ difference[p] = Expected(r)[p] - physical[p]
  <2>1. /\ Expected(r)[p] \in Int /\ physical[p] \in Nat
        /\ difference[p] = Expected(r)[p] - physical[p]
    BY <1>2, DifferenceType DEF IInv
  <2>2. balance[r][p] = load[r].lines[p] - SoldOf(sale, r, p) - DivertedOf(sale, r, p)
    BY <1>1 DEF IInv, StockHolds, Books
  <2>3. DivertedOf(sale, r, p) = 0
    <3>1. Diverted(r)[p] = 0
      BY DEF NoLines
    <3> QED BY <3>1, HandlersReadTotals
  <2>4. load[r].lines[p] \in Nat /\ SoldOf(sale, r, p) \in Nat
    BY BooksType DEF IInv
  <2>5. Expected(r)[p] = load[r].lines[p] - SoldOf(sale, r, p)
    BY HandlersReadTotals
  <2>6. balance[r][p] \in Nat
    BY <1>3, LedgerAssumed DEF IInv, LP!IInv, LP!TypeOK
  <2> HIDE DEF difference
  <2> QED BY <2>1, <2>2, <2>3, <2>4, <2>5, <2>6
<1>5. ASSUME NEW p \in Products PROVE Adjusted(r, physical)[r][p] = physical[p]
  <2>1. Adjusted(r, physical)[r][p] = balance[r][p] - difference[p]
    BY <1>2, <1>3, AdjustedStock DEF IInv
  <2> HIDE DEF difference
  <2> QED BY <1>4, <2>1
<1>6. L!Covered(balance, Adjustments(r, difference))
  <2> SUFFICES ASSUME NEW p \in Products, AdjustmentMove(r, difference, p).source # Null
               PROVE  balance[AdjustmentMove(r, difference, p).source][p]
                        >= AdjustmentMove(r, difference, p).quantity
    BY DEF L!Covered, Adjustments
  <2>1. difference[p] \in Int /\ difference[p] >= 0
    <3> HIDE DEF difference
    <3> QED BY <1>4 DEF AdjustmentMove, L!Move
  <2>2. AdjustmentMove(r, difference, p).source = r
        /\ AdjustmentMove(r, difference, p).quantity = difference[p]
    <3> HIDE DEF difference
    <3> QED BY <2>1 DEF AdjustmentMove, L!Move
  <2> HIDE DEF difference
  <2> QED BY <1>4, <2>2
<1>7. L!Covered(Adjusted(r, physical), giveBack)
  BY <1>4, <1>5 DEF L!Covered, L!MovesOf, L!Move
<1>8. ASSUME NEW p \in Products
      PROVE  L!ApplyMoves(Adjusted(r, physical), giveBack)[r][p] = 0
  <2>1. L!Delta(giveBack[p], r) = 0 - physical[p]
    BY <1>2, <1>3, LinesDelta
  <2>2. L!ApplyMoves(Adjusted(r, physical), giveBack)[r][p]
          = Adjusted(r, physical)[r][p] + L!Delta(giveBack[p], r)
    BY <1>3 DEF L!ApplyMoves
  <2> HIDE DEF giveBack
  <2> QED BY <1>4, <1>5, <2>1, <2>2
<1>9. \A p \in Products : Expected(r)[p] >= 0
  BY <1>4
<1> QED
  BY <1>6, <1>7, <1>8, <1>9 DEF Reconciles, Adjusted

\* Whatever is counted on a returned truck, approve accepts it, as long as nothing went from
\* it to the branch and none of its operations was reversed.
THEOREM CountsReconcile == Spec => []EveryCountReconciles
<1>1. IInv => EveryCountReconciles
  BY CountReconciles DEF EveryCountReconciles
<1> QED
  BY <1>1, Invariance, PTL

-----------------------------------------------------------------------------
(* History *)

\* What a step may do to the rows of one route.
KeepsHistory(r) ==
  /\ Order[route'[r].state] - Order[route[r].state] \in {0, 1}
  /\ route'[r] # route[r] => route'[r].version = route[r].version + 1
  /\ load[r].state = "CONFIRMED" => load'[r] = load[r]
  /\ load'[r].state = "CONFIRMED" => load'[r].lines = load[r].lines
  /\ declared[r] # Null => declared'[r] = declared[r]
  /\ reconciliation[r] # Null => reconciliation'[r] = reconciliation[r]

\* Rows that stay as they are keep their history.
LEMMA UnchangedHistory ==
  ASSUME IInv, NEW r \in Routes, route'[r] = route[r], load'[r] = load[r],
         declared'[r] = declared[r], reconciliation'[r] = reconciliation[r]
  PROVE  KeepsHistory(r)
<1>1. route[r].state \in {"NONE", "PREPARING", "EN_ROUTE", "RETURNED", "CLOSED"}
  BY DEF IInv, RowTypes, RouteRows, States
<1>2. Order[route[r].state] - Order[route[r].state] = 0
  BY <1>1 DEF Order
<1> QED
  BY <1>2 DEF KeepsHistory

\* Each action keeps what has been confirmed, declared, counted and closed.
LEMMA StepsKeepHistory ==
  ASSUME IInv, Next, NEW q \in Routes
  PROVE  KeepsHistory(q)
<1>1. ASSUME UNCHANGED <<route, load, declared, reconciliation>> PROVE KeepsHistory(q)
  BY <1>1, UnchangedHistory
<1>2. ASSUME NEW r \in Routes, NEW origin, NEW d, NEW v, Create(r, origin, d, v)
      PROVE  KeepsHistory(q)
  <2>1. CASE q = r
    <3>1. /\ route[r].state = "NONE" /\ route[r].version = 0
          /\ route'[r].state = "PREPARING" /\ route'[r].version = 1
          /\ UNCHANGED <<load, declared, reconciliation>>
      BY <1>2 DEF Create, IInv, RowTypes, RowsHold
    <3> QED BY <2>1, <3>1 DEF KeepsHistory, Order
  <2>2. CASE q # r
    BY <1>2, <2>2, UnchangedHistory DEF Create, IInv, RowTypes
  <2> QED BY <2>1, <2>2
<1>3. ASSUME NEW r \in Routes, NEW d, NEW version, NEW lines, SaveDraft(d, r, version, lines)
      PROVE  KeepsHistory(q)
  <2>1. CASE q = r
    <3>1. /\ load[r].state # "CONFIRMED" /\ load'[r].state = "DRAFT"
          /\ route[r].state = "PREPARING"
          /\ UNCHANGED <<route, declared, reconciliation>>
      BY <1>3 DEF SaveDraft, IInv, RowTypes
    <3> QED BY <2>1, <3>1 DEF KeepsHistory, Order
  <2>2. CASE q # r
    BY <1>3, <2>2, UnchangedHistory DEF SaveDraft, IInv, RowTypes
  <2> QED BY <2>1, <2>2
<1>4. ASSUME NEW r \in Routes, NEW d, NEW version, ConfirmLoad(d, r, version)
      PROVE  KeepsHistory(q)
  <2>1. load[r] \in LoadRows /\ load \in [Routes -> LoadRows]
    BY DEF IInv, RowTypes
  <2>2. /\ load' = [load EXCEPT ![r].state = "CONFIRMED", ![r].version = @ + 1]
        /\ load[r].state = "DRAFT" /\ route[r].state = "PREPARING"
        /\ UNCHANGED <<route, declared, reconciliation>>
    BY <1>4 DEF ConfirmLoad
  <2>3. CASE q = r
    <3>1. load'[r].lines = load[r].lines
      BY <2>1, <2>2 DEF LoadRows
    <3> QED BY <2>2, <2>3, <3>1 DEF KeepsHistory, Order
  <2>4. CASE q # r
    BY <2>1, <2>2, <2>4, UnchangedHistory
  <2> QED BY <2>3, <2>4
<1>5. ASSUME NEW r \in Routes, NEW from \in Active, NEW to \in States, NEW version,
             Transition(r, from, to, version), Order[to] - Order[from] \in {0, 1},
             UNCHANGED <<load, reconciliation>>,
             \A t \in Routes : declared[t] # Null => declared'[t] = declared[t],
             \A t \in Routes \ {r} : declared'[t] = declared[t]
      PROVE  KeepsHistory(q)
  <2>1. /\ route[r].state = from /\ route'[r].state = to
        /\ route'[r].version = route[r].version + 1
        /\ \A t \in Routes \ {r} : route'[t] = route[t]
    BY <1>5, TransitionMoves
  <2>2. CASE q = r
    BY <1>5, <2>1, <2>2 DEF KeepsHistory
  <2>3. CASE q # r
    BY <1>5, <2>1, <2>3, UnchangedHistory
  <2> QED BY <2>2, <2>3
<1>6. /\ {"PREPARING", "EN_ROUTE", "RETURNED"} \subseteq Active
      /\ {"EN_ROUTE", "RETURNED", "CLOSED"} \subseteq States
      /\ Order["EN_ROUTE"] - Order["PREPARING"] = 1
      /\ Order["RETURNED"] - Order["EN_ROUTE"] = 1
      /\ Order["RETURNED"] - Order["RETURNED"] = 0
      /\ Order["CLOSED"] - Order["RETURNED"] = 1
  BY DEF Active, States, Order
<1>7. ASSUME NEW r \in Routes, NEW physical \in Counts(r), RecordDriverReturn(r, physical),
             UNCHANGED <<load, sale>>
      PROVE  /\ \A t \in Routes : declared[t] # Null => declared'[t] = declared[t]
             /\ \A t \in Routes \ {r} : declared'[t] = declared[t]
  BY <1>7, CountIsRecorded
<1>8. ASSUME NEW r \in Routes, NEW d, NEW version, Start(d, r, version)
      PROVE  KeepsHistory(q)
  BY <1>5, <1>6, <1>8 DEF Start
<1>9. ASSUME NEW r \in Routes, NEW d, NEW version, Return(d, r, version)
      PROVE  KeepsHistory(q)
  <2>1. /\ Transition(r, "EN_ROUTE", "RETURNED", version)
        /\ UNCHANGED <<load, sale, reconciliation>>
    BY <1>9 DEF Return
  <2>2. /\ \A t \in Routes : declared[t] # Null => declared'[t] = declared[t]
        /\ \A t \in Routes \ {r} : declared'[t] = declared[t]
    BY <1>7, <1>9 DEF Return
  <2> QED BY <1>5, <1>6, <2>1, <2>2
<1>10. ASSUME NEW r \in Routes, NEW d, NEW version, NEW physical \in Counts(r),
              DeclareReturn(d, r, version, physical)
       PROVE  KeepsHistory(q)
  <2>1. /\ Transition(r, "RETURNED", "RETURNED", version)
        /\ UNCHANGED <<load, sale, reconciliation>>
    BY <1>10 DEF DeclareReturn
  <2>2. /\ \A t \in Routes : declared[t] # Null => declared'[t] = declared[t]
        /\ \A t \in Routes \ {r} : declared'[t] = declared[t]
    BY <1>7, <1>10 DEF DeclareReturn
  <2> QED BY <1>5, <1>6, <2>1, <2>2
<1>11. ASSUME NEW r \in Routes, NEW version, Close(r, version)
       PROVE  KeepsHistory(q)
  BY <1>5, <1>6, <1>11 DEF Close
<1>12. ASSUME NEW r \in Routes, NEW version, NEW physical, Approve(r, version, physical)
       PROVE  KeepsHistory(q)
  <2>1. /\ reconciliation[r] = Null /\ UNCHANGED <<route, load, declared>>
        /\ \A t \in Routes \ {r} : reconciliation'[t] = reconciliation[t]
    BY <1>12 DEF Approve, IInv, RowTypes
  <2>2. CASE q = r
    <3>1. route[r].state = "RETURNED"
      BY <1>12 DEF Approve
    <3> QED BY <2>1, <2>2, <3>1 DEF KeepsHistory, Order
  <2>3. CASE q # r
    BY <2>1, <2>3, UnchangedHistory
  <2> QED BY <2>2, <2>3
<1>13. ASSUME NEW r \in Routes, NEW d \in Drivers, DriverStep(d, r) PROVE KeepsHistory(q)
  <2>1. ASSUME NEW s \in Sales, NEW lines \in L!Lines, ConfirmSale(d, s, r, lines)
        PROVE  KeepsHistory(q)
    BY <1>1, <2>1 DEF ConfirmSale
  <2> QED BY <1>3, <1>4, <1>8, <1>9, <1>10, <1>13, <2>1 DEF DriverStep
<1>14. ASSUME NEW r \in Routes, AdminStep(r) PROVE KeepsHistory(q)
  BY <1>2, <1>11, <1>12, <1>14 DEF AdminStep
<1>15. ASSUME NEW s \in Sales, CancelSale(s) PROVE KeepsHistory(q)
  BY <1>1, <1>15 DEF CancelSale
<1>16. ASSUME AdminOperation PROVE KeepsHistory(q)
  BY <1>1, <1>16 DEF AdminOperation, routeVars
<1>17. ASSUME NEW i \in 1..MaxOps, ReverseOperation(i) PROVE KeepsHistory(q)
  BY <1>1, <1>17 DEF ReverseOperation, routeVars
<1> QED
  BY <1>13, <1>14, <1>15, <1>16, <1>17 DEF Next

\* Routes only advance and their records are final: the conditional updates and the checks
\* for an existing row leave no way back.
THEOREM HistoryKept == Spec => HistoryIsNotRewritten
<1> DEFINE A == \A r \in Routes :
        /\ Order[route'[r].state] - Order[route[r].state] \in {0, 1}
        /\ route'[r] # route[r] => route'[r].version = route[r].version + 1
        /\ load[r].state = "CONFIRMED" => load'[r] = load[r]
        /\ load'[r].state = "CONFIRMED" => load'[r].lines = load[r].lines
        /\ declared[r] # Null => declared'[r] = declared[r]
        /\ reconciliation[r] # Null => reconciliation'[r] = reconciliation[r]
<1>1. IInv /\ [Next]_vars => [A]_vars
  <2> SUFFICES ASSUME IInv, Next PROVE A
    OBVIOUS
  <2>1. \A r \in Routes : KeepsHistory(r)
    BY StepsKeepHistory
  <2> QED BY <2>1 DEF KeepsHistory
<1> QED
  BY <1>1, Invariance, PTL DEF Spec, HistoryIsNotRewritten
-----------------------------------------------------------------------------
(* Goods *)

\* There are finitely many stock locations.
LEMMA LocationsFinite == IsFiniteSet(L!Locations)
  BY RouteAssumption, LedgerAssumed, FS_Union

\* A movement adds an integer to the stock of all locations.
LEMMA ChangeType ==
  ASSUME NEW m, m.quantity \in Nat
  PROVE  Change(m) \in Int
<1> DEFINE f == [l \in L!Locations |-> L!Delta(m, l)]
<1>1. \A l \in L!Locations : f[l] \in Int
  BY DEF L!Delta
<1> HIDE DEF f
<1>2. SumFunctionOnSet(f, L!Locations) \in Int
  BY <1>1, LocationsFinite, SumInt
<1> QED
  BY <1>2 DEF Change, f

\* Movements that add the same everywhere change the same.
LEMMA ChangeAlike ==
  ASSUME NEW m, NEW n, \A l \in L!Locations : L!Delta(m, l) = L!Delta(n, l)
  PROVE  Change(m) = Change(n)
<1>1. [l \in L!Locations |-> L!Delta(m, l)] = [l \in L!Locations |-> L!Delta(n, l)]
  OBVIOUS
<1> QED
  BY <1>1 DEF Change

\* A movement that touches one location changes the stock by what it adds there.
LEMMA ChangeAtOne ==
  ASSUME NEW m, m.quantity \in Nat, NEW k \in L!Locations,
         \A l \in L!Locations \ {k} : L!Delta(m, l) = 0
  PROVE  Change(m) = L!Delta(m, k)
<1> DEFINE f == [l \in L!Locations |-> L!Delta(m, l)]
<1>1. \A l \in L!Locations : f[l] \in Int
  BY DEF L!Delta
<1>2. f[k] = L!Delta(m, k) /\ \A l \in L!Locations \ {k} : f[l] = 0
  OBVIOUS
<1> HIDE DEF f
<1>3. IsFiniteSet({k}) /\ {k} \in SUBSET L!Locations /\ {k} \ {k} = {}
  BY FS_Singleton
<1>4. SumFunctionOnSet(f, L!Locations) = SumFunctionOnSet(f, {k})
  BY <1>1, <1>2, <1>3, LocationsFinite, SumSupport
<1>5. SumFunctionOnSet(f, {k}) = f[k] + SumFunctionOnSet(f, {k} \ {k})
  BY <1>1, <1>3, SumRemove
<1>6. SumFunctionOnSet(f, {k} \ {k}) = 0
  BY <1>3, SumEmpty
<1>7. SumFunctionOnSet(f, L!Locations) = f[k]
  BY <1>1, <1>4, <1>5, <1>6
<1> QED
  BY <1>2, <1>7 DEF Change, f

\* And one that adds nothing anywhere changes nothing.
LEMMA ChangeNowhere ==
  ASSUME NEW m, \A l \in L!Locations : L!Delta(m, l) = 0
  PROVE  Change(m) = 0
<1> DEFINE f == [l \in L!Locations |-> L!Delta(m, l)]
<1>1. \A l \in L!Locations : f[l] = 0
  OBVIOUS
<1> HIDE DEF f
<1>2. SumFunctionOnSet(f, L!Locations) = 0
  BY <1>1, LocationsFinite, SumZero
<1> QED
  BY <1>2 DEF Change, f

\* What a movement adds to every location it adds to the whole stock.
LEMMA StockChanges ==
  ASSUME NEW bal, NEW new, NEW m, m.quantity \in Nat, NEW p,
         \A l \in L!Locations : bal[l][p] \in Int /\ new[l][p] = bal[l][p] + L!Delta(m, l)
  PROVE  InStock(new, p) = InStock(bal, p) + Change(m) /\ InStock(bal, p) \in Int
<1> DEFINE f == [l \in L!Locations |-> bal[l][p]]
           g == [l \in L!Locations |-> L!Delta(m, l)]
           h == [l \in L!Locations |-> new[l][p]]
<1>1. \A l \in L!Locations : f[l] \in Int /\ g[l] \in Int /\ h[l] = f[l] + g[l]
  BY DEF L!Delta
<1> HIDE DEF f, g, h
<1>2. SumFunctionOnSet(h, L!Locations)
        = SumFunctionOnSet(f, L!Locations) + SumFunctionOnSet(g, L!Locations)
  BY <1>1, LocationsFinite, SumPlus
<1>3. SumFunctionOnSet(f, L!Locations) \in Int
  BY <1>1, LocationsFinite, SumInt
<1> QED
  BY <1>2, <1>3 DEF InStock, Change, f, g, h

\* Operations of sales are not accounted, nor are those that change nothing: at most one of
\* the new operations brings something in.
Sells(op) == op.type \in {"SALE", "SALE_CANCELLATION"}

BringsIn(ops, more, p) ==
  /\ BroughtIn(ops, p) \in Int
  /\ (\A i \in Len(ops) + 1..Len(more) : Sells(more[i]) \/ Change(more[i].moves[p]) = 0) =>
       BroughtIn(more, p) = BroughtIn(ops, p)
  /\ \A k \in Len(ops) + 1..Len(more) :
       (/\ ~Sells(more[k])
        /\ \A i \in Len(ops) + 1..Len(more) :
             i = k \/ Sells(more[i]) \/ Change(more[i].moves[p]) = 0) =>
       BroughtIn(more, p) = BroughtIn(ops, p) + Change(more[k].moves[p])

\* An operation appended to the ledger adds its own changes to what was brought in, when it counts.
LEMMA BroughtInGrows ==
  ASSUME NEW ops, NEW more, NEW p, Len(ops) \in Nat, Len(more) \in Nat, Len(ops) <= Len(more),
         \A i \in 1..Len(ops) : more[i] = ops[i],
         \A i \in 1..Len(more) : Change(more[i].moves[p]) \in Int
  PROVE  BringsIn(ops, more, p)
<1> DEFINE f == [i \in 1..Len(ops) |-> Change(ops[i].moves[p])]
           g == [i \in 1..Len(more) |-> Change(more[i].moves[p])]
           A == Accounted(ops)
           B == Accounted(more)
<1>1. A \subseteq 1..Len(ops) /\ B \subseteq 1..Len(more) /\ A \subseteq B
      /\ \A i \in B \ A : i \in Len(ops) + 1..Len(more) /\ ~Sells(more[i])
  BY DEF Accounted, Sells
<1>2. IsFiniteSet(A) /\ IsFiniteSet(B)
  <2>1. IsFiniteSet(1..Len(ops)) /\ IsFiniteSet(1..Len(more))
    BY FS_Interval
  <2> HIDE DEF A, B
  <2> QED BY <1>1, <2>1, FS_Subset
<1>3. /\ \A i \in B : g[i] \in Int /\ g[i] = Change(more[i].moves[p])
      /\ \A i \in A : f[i] = g[i] /\ f[i] \in Int
  BY <1>1
<1>4. BroughtIn(ops, p) = SumFunctionOnSet(f, A) /\ BroughtIn(more, p) = SumFunctionOnSet(g, B)
  BY DEF BroughtIn
<1>5. ASSUME NEW k \in Len(ops) + 1..Len(more), ~Sells(more[k])
      PROVE  k \in B /\ k \notin A
  BY <1>5 DEF Accounted, Sells
<1> HIDE DEF f, g, A, B
<1>6. SumFunctionOnSet(f, A) = SumFunctionOnSet(g, A) /\ SumFunctionOnSet(g, A) \in Int
  BY <1>2, <1>3, SumCongruent, SumInt
<1>7. ASSUME \A i \in Len(ops) + 1..Len(more) : Sells(more[i]) \/ Change(more[i].moves[p]) = 0
      PROVE  BroughtIn(more, p) = BroughtIn(ops, p)
  <2>1. \A i \in B \ A : g[i] = 0
    BY <1>1, <1>3, <1>7
  <2>2. SumFunctionOnSet(g, B) = SumFunctionOnSet(g, A)
    BY <1>1, <1>2, <1>3, <2>1, SumSupport
  <2> QED BY <1>4, <1>6, <2>2
<1>8. ASSUME NEW k \in Len(ops) + 1..Len(more), ~Sells(more[k]),
             \A i \in Len(ops) + 1..Len(more) :
               i = k \/ Sells(more[i]) \/ Change(more[i].moves[p]) = 0
      PROVE  BroughtIn(more, p) = BroughtIn(ops, p) + Change(more[k].moves[p])
  <2>1. k \in B /\ k \notin A
    BY <1>5, <1>8
  <2>2. A \cup {k} \in SUBSET B /\ \A i \in B \ (A \cup {k}) : g[i] = 0
    BY <1>1, <1>3, <1>8, <2>1
  <2>3. SumFunctionOnSet(g, B) = SumFunctionOnSet(g, A \cup {k})
    BY <1>2, <1>3, <2>2, SumSupport
  <2>4. SumFunctionOnSet(g, A \cup {k}) = g[k] + SumFunctionOnSet(g, A)
    BY <1>1, <1>2, <1>3, <2>1, SumInsert
  <2>5. g[k] = Change(more[k].moves[p]) /\ g[k] \in Int
    BY <1>3, <2>1
  <2> QED BY <1>4, <1>6, <2>3, <2>4, <2>5
<1> QED
  BY <1>4, <1>6, <1>7, <1>8 DEF BringsIn

\* The movements of a well-formed ledger change integers.
LEMMA OperationsChange ==
  ASSUME NEW ops, ops \in Seq(L!Operations), NEW i \in 1..Len(ops), NEW p \in Products
  PROVE  ops[i].moves[p].quantity \in Nat /\ Change(ops[i].moves[p]) \in Int
<1>1. ops[i] \in L!Operations
  BY ElementOfSeq
<1>2. ops[i].moves[p].quantity \in Nat
  BY <1>1 DEF L!Operations, L!Movements
<1> QED
  BY <1>2, ChangeType
\* No operation of a sale was reversed by hand.
SalesStand == \A i \in 1..Len(operations) : operations[i].reverses # 0 => ~Sells(operations[i])

GoodsHold ==
  SalesStand => \A p \in Products :
    InStock(balance, p) + CompletedOf(sale, p) = BroughtIn(operations, p)

\* The goods follow what a step does to them, if nothing else was reversed before it.
LEMMA GoodsFollow ==
  ASSUME GoodsHold, Grown,
         SalesStand' => \A p \in Products :
           InStock(balance, p) + CompletedOf(sale, p) = BroughtIn(operations, p) =>
             InStock(balance', p) + CompletedOf(sale', p) = BroughtIn(operations', p)
  PROVE  GoodsHold'
<1>1. SalesStand' => SalesStand
  BY DEF SalesStand, Grown
<1> QED
  BY <1>1 DEF GoodsHold

\* One posted operation changes the stock, and what is accounted unless it is of a sale.
LEMMA PostedGoods ==
  ASSUME LP!IInv, LP!IInv', NEW type, NEW moves, LP!Sound(moves), NEW reverses,
         LP!Posted(type, moves, reverses), NEW p \in Products
  PROVE  /\ Change(moves[p]) \in Int
         /\ InStock(balance, p) \in Int /\ BroughtIn(operations, p) \in Int
         /\ InStock(balance', p) = InStock(balance, p) + Change(moves[p])
         /\ BroughtIn(operations', p)
              = BroughtIn(operations, p)
                  + (IF type \in {"SALE", "SALE_CANCELLATION"} THEN 0 ELSE Change(moves[p]))
<1> DEFINE n == Len(operations) + 1
           m == moves[p]
<1>1. m.quantity \in Nat
  BY DEF LP!Sound, LP!Commands
<1>2. \A l \in L!Locations : balance[l][p] \in Int /\ balance'[l][p] = balance[l][p] + L!Delta(m, l)
  BY LedgerAssumed, SameOperators DEF LP!IInv, LP!TypeOK, LP!Posted, L!ApplyMoves
<1>3. /\ Len(operations) \in Nat /\ Len(operations') = n
      /\ \A i \in 1..Len(operations) : operations'[i] = operations[i]
      /\ operations'[n].type = type
      /\ operations'[n].moves[p] = L!Recorded(balance, p, m)
  BY SameOperators DEF LP!Posted
<1> HIDE DEF m
<1>4. Change(operations'[n].moves[p]) = Change(m)
  <2>1. \A l \in L!Locations : L!Delta(L!Recorded(balance, p, m), l) = L!Delta(m, l)
    BY DEF L!Recorded, L!Delta
  <2> QED BY <1>3, <2>1, ChangeAlike
<1>5. /\ Change(m) \in Int /\ InStock(balance, p) \in Int
      /\ InStock(balance', p) = InStock(balance, p) + Change(m)
  BY <1>1, <1>2, ChangeType, StockChanges
<1>6. \A i \in 1..Len(operations') : Change(operations'[i].moves[p]) \in Int
  <2>1. operations' \in Seq(L!Operations)
    BY SameOperators DEF LP!IInv, LP!TypeOK
  <2> QED BY <2>1, OperationsChange
<1>7. /\ Len(operations') \in Nat /\ Len(operations) <= Len(operations')
      /\ Len(operations) + 1..Len(operations') = {n}
  BY <1>3
<1>8. /\ BroughtIn(operations, p) \in Int
      /\ Sells(operations'[n]) => BroughtIn(operations', p) = BroughtIn(operations, p)
      /\ ~Sells(operations'[n]) =>
           BroughtIn(operations', p) = BroughtIn(operations, p) + Change(operations'[n].moves[p])
  <2> DEFINE more == operations'
  <2>1. /\ Len(operations) \in Nat /\ Len(more) \in Nat /\ Len(operations) <= Len(more)
        /\ \A i \in 1..Len(operations) : more[i] = operations[i]
        /\ \A i \in 1..Len(more) : Change(more[i].moves[p]) \in Int
    BY <1>3, <1>6, <1>7
  <2>2. Len(operations) + 1..Len(more) = {n}
    BY <1>7
  <2> HIDE DEF n, more
  <2>3. BringsIn(operations, more, p)
    BY <2>1, BroughtInGrows
  <2> QED BY <2>2, <2>3 DEF BringsIn, more
<1> QED
  BY <1>3, <1>4, <1>5, <1>8 DEF Sells, m

\* An operation that is not of a sale brings in what it adds.
LEMMA AccountedPost ==
  ASSUME GoodsHold, LP!IInv, LP!IInv', Grown, NEW type, NEW moves, LP!Sound(moves), NEW reverses,
         LP!Posted(type, moves, reverses),
         type \in {"SALE", "SALE_CANCELLATION"} => reverses # 0, UNCHANGED sale, RowTypes
  PROVE  GoodsHold'
<1>1. CASE type \in {"SALE", "SALE_CANCELLATION"}
  <2> DEFINE n == Len(operations) + 1
  <2>1. /\ n \in 1..Len(operations') /\ operations'[n].reverses # 0 /\ Sells(operations'[n])
    BY <1>1 DEF LP!Posted, Sells
  <2>2. ~SalesStand'
    BY <2>1 DEF SalesStand, Sells
  <2> QED BY <2>2 DEF GoodsHold
<1>2. CASE type \notin {"SALE", "SALE_CANCELLATION"}
  <2>1. ASSUME NEW p \in Products,
               InStock(balance, p) + CompletedOf(sale, p) = BroughtIn(operations, p)
        PROVE  InStock(balance', p) + CompletedOf(sale', p) = BroughtIn(operations', p)
    <3>1. CompletedOf(sale, p) \in Nat
      BY TotalsType DEF RowTypes
    <3>2. /\ Change(moves[p]) \in Int
          /\ InStock(balance, p) \in Int /\ BroughtIn(operations, p) \in Int
          /\ InStock(balance', p) = InStock(balance, p) + Change(moves[p])
          /\ BroughtIn(operations', p) = BroughtIn(operations, p) + Change(moves[p])
      BY <1>2, PostedGoods
    <3> QED BY <2>1, <3>1, <3>2
  <2> QED BY <2>1, GoodsFollow
<1> QED
  BY <1>1, <1>2

\* Lines moved in from outside, or out, change the stock by as much.
LEMMA LinesChange ==
  ASSUME NEW lines \in Quantities, NEW l \in L!Locations, NEW p \in Products
  PROVE  /\ Change(L!MovesOf(lines, l, Null)[p]) = -lines[p]
         /\ Change(L!MovesOf(lines, Null, l)[p]) = lines[p]
<1>1. lines[p] \in Nat /\ l # Null /\ \A k \in L!Locations : k # Null
  BY LedgerAssumed DEF Quantities
<1>2. Change(L!MovesOf(lines, l, Null)[p]) = -lines[p]
  <2> DEFINE m == L!MovesOf(lines, l, Null)[p]
  <2>1. m.quantity \in Nat
    BY <1>1 DEF L!MovesOf, L!Move
  <2>2. \A k \in L!Locations :
          L!Delta(m, k) = (IF Null = k THEN lines[p] ELSE 0) - (IF l = k THEN lines[p] ELSE 0)
    BY LinesDelta
  <2> HIDE DEF m
  <2>3. L!Delta(m, l) = -lines[p] /\ \A k \in L!Locations \ {l} : L!Delta(m, k) = 0
    BY <1>1, <2>2
  <2>4. Change(m) = L!Delta(m, l)
    BY <2>1, <2>3, ChangeAtOne
  <2> QED BY <2>3, <2>4 DEF m
<1>3. Change(L!MovesOf(lines, Null, l)[p]) = lines[p]
  <2> DEFINE m == L!MovesOf(lines, Null, l)[p]
  <2>1. m.quantity \in Nat
    BY <1>1 DEF L!MovesOf, L!Move
  <2>2. \A k \in L!Locations :
          L!Delta(m, k) = (IF l = k THEN lines[p] ELSE 0) - (IF Null = k THEN lines[p] ELSE 0)
    BY LinesDelta
  <2> HIDE DEF m
  <2>3. L!Delta(m, l) = lines[p] /\ \A k \in L!Locations \ {l} : L!Delta(m, k) = 0
    BY <1>1, <2>2
  <2>4. Change(m) = L!Delta(m, l)
    BY <2>1, <2>3, ChangeAtOne
  <2> QED BY <2>3, <2>4 DEF m
<1> QED
  BY <1>2, <1>3

\* The quantity a sale takes from the stock is the quantity its completion counts as sold.
LEMMA ConfirmSaleGoods ==
  ASSUME IInv, GoodsHold, NEW d, NEW s \in Sales, NEW r \in Routes, NEW lines \in L!Lines,
         ConfirmSale(d, s, r, lines)
  PROVE  GoodsHold'
<1> DEFINE row == [status |-> "COMPLETED", route |-> r, lines |-> lines, destination |-> Null]
           moves == L!MovesOf(lines, r, Null)
<1>1. /\ sale[s].status = "NONE" /\ sale' = [sale EXCEPT ![s] = row]
      /\ L!Post("SALE", moves, 0)
  BY DEF ConfirmSale
<1>2. IInv' /\ lines \in Quantities
  BY ConfirmSaleKeeps, LinesAreQuantities
<1>3. r \in L!Locations /\ r \in L!Endpoints /\ Null \in L!Endpoints /\ Null # r
  BY LedgerAssumed
<1>4. LP!Posted("SALE", moves, 0) /\ LP!Sound(moves) /\ Grown
  <2>1. "SALE" \in L!OperationTypes
    BY DEF L!OperationTypes
  <2> QED BY <1>1, <1>2, <1>3, <2>1, HandlerPosts DEF IInv
<1>5. /\ sale \in [Sales -> SaleRows] /\ sale' \in [Sales -> SaleRows]
      /\ sale'[s] = row /\ \A t \in Sales \ {s} : sale'[t] = sale[t]
  BY <1>1, <1>2 DEF IInv, RowTypes
<1>6. row.status = "COMPLETED" /\ row.lines = lines
  OBVIOUS
<1> HIDE DEF row
<1>7. ASSUME NEW p \in Products,
             InStock(balance, p) + CompletedOf(sale, p) = BroughtIn(operations, p)
      PROVE  InStock(balance', p) + CompletedOf(sale', p) = BroughtIn(operations', p)
  <2>1. CompletedOf(sale', p)
          = CompletedOf(sale, p) + CompletedPart(row, p) - CompletedPart(sale[s], p)
    BY <1>5, TotalsChange
  <2>2. CompletedPart(row, p) = lines[p] /\ CompletedPart(sale[s], p) = 0
    BY <1>1, <1>6 DEF CompletedPart
  <2>3. CompletedOf(sale, p) \in Nat /\ lines[p] \in Nat
    BY <1>2, <1>5, TotalsType DEF Quantities
  <2>4. Change(moves[p]) = -lines[p]
    BY <1>2, <1>3, LinesChange
  <2> HIDE DEF moves
  <2>5. /\ InStock(balance, p) \in Int /\ BroughtIn(operations, p) \in Int
        /\ InStock(balance', p) = InStock(balance, p) + Change(moves[p])
        /\ BroughtIn(operations', p) = BroughtIn(operations, p) + 0
    BY <1>2, <1>4, PostedGoods DEF IInv
  <2> QED BY <1>7, <2>1, <2>2, <2>3, <2>4, <2>5
<1> QED
  BY <1>4, <1>7, GoodsFollow

\* A cancellation restores what its sale took, wherever the goods go.
LEMMA CancelSaleGoods ==
  ASSUME IInv, GoodsHold, NEW s \in Sales, CancelSale(s)
  PROVE  GoodsHold'
<1> DEFINE lines == sale[s].lines
           back == Destination(s)
           moves == L!MovesOf(lines, Null, back)
<1>1. /\ sale[s].status = "COMPLETED" /\ L!Post("SALE_CANCELLATION", moves, 0)
      /\ sale' = [sale EXCEPT ![s].status = "CANCELLED", ![s].destination = back]
  BY DEF CancelSale
<1>2. /\ sale \in [Sales -> SaleRows] /\ sale[s] \in SaleRows /\ lines \in Quantities
      /\ sale[s].route \in Routes
  BY <1>1 DEF IInv, RowTypes, SaleRows, RowsHold
<1>3. back \in L!Locations /\ back \in L!Endpoints /\ Null \in L!Endpoints /\ Null # back
  <2>1. route[sale[s].route].origin \in Branches
    BY <1>1, <1>2 DEF IInv, LifecycleHolds, RecordsFollowLifecycle, RowsHold
  <2> QED BY <1>2, <2>1, LedgerAssumed DEF Destination
<1> HIDE DEF back
<1>4. LP!Posted("SALE_CANCELLATION", moves, 0) /\ LP!Sound(moves) /\ Grown
  <2>1. "SALE_CANCELLATION" \in L!OperationTypes
    BY DEF L!OperationTypes
  <2> HIDE DEF lines
  <2> QED BY <1>1, <1>2, <1>3, <2>1, HandlerPosts DEF IInv
<1>5. /\ sale'[s].status = "CANCELLED" /\ sale' \in [Sales -> SaleRows]
      /\ \A t \in Sales \ {s} : sale'[t] = sale[t]
  <2>1. sale' \in [Sales -> SaleRows]
    BY CancelSaleKeeps DEF IInv, RowTypes
  <2> QED BY <1>1, <1>2, <2>1 DEF SaleRows
<1> HIDE DEF lines
<1>6. ASSUME NEW p \in Products,
             InStock(balance, p) + CompletedOf(sale, p) = BroughtIn(operations, p)
      PROVE  InStock(balance', p) + CompletedOf(sale', p) = BroughtIn(operations', p)
  <2>1. CompletedOf(sale', p)
          = CompletedOf(sale, p) + CompletedPart(sale'[s], p) - CompletedPart(sale[s], p)
    BY <1>2, <1>5, TotalsChange
  <2>2. CompletedPart(sale'[s], p) = 0 /\ CompletedPart(sale[s], p) = lines[p]
    BY <1>1, <1>5 DEF CompletedPart, lines
  <2>3. CompletedOf(sale, p) \in Nat /\ lines[p] \in Nat
    BY <1>2, TotalsType DEF Quantities
  <2>4. Change(moves[p]) = lines[p]
    BY <1>2, <1>3, LinesChange
  <2> HIDE DEF moves
  <2>5. /\ InStock(balance, p) \in Int /\ BroughtIn(operations, p) \in Int
        /\ InStock(balance', p) = InStock(balance, p) + Change(moves[p])
        /\ BroughtIn(operations', p) = BroughtIn(operations, p) + 0
    BY <1>4, CancelSaleKeeps, PostedGoods DEF IInv
  <2> QED BY <1>6, <2>1, <2>2, <2>3, <2>4, <2>5
<1> QED
  BY <1>4, <1>6, GoodsFollow

\* Loading a truck moves goods from one location to another, so none come or go.
LEMMA ConfirmLoadGoods ==
  ASSUME IInv, GoodsHold, NEW d, NEW r \in Routes, NEW version, ConfirmLoad(d, r, version)
  PROVE  GoodsHold'
<1> DEFINE lines == load[r].lines
           origin == route[r].origin
           moves == L!MovesOf(lines, origin, r)
<1>1. UNCHANGED sale /\ L!Post("ROUTE_LOAD", moves, 0)
  BY DEF ConfirmLoad
<1>2. /\ lines \in Quantities
      /\ origin \in L!Endpoints /\ r \in L!Endpoints /\ origin # r
  <2>1. origin \in Branches
    BY DEF ConfirmLoad, IInv, RowsHold
  <2> QED BY <2>1, LedgerAssumed DEF IInv, RowTypes, LoadRows
<1>3. LP!Posted("ROUTE_LOAD", moves, 0) /\ LP!Sound(moves) /\ Grown
  <2>1. "ROUTE_LOAD" \in L!OperationTypes
    BY DEF L!OperationTypes
  <2> HIDE DEF lines, origin
  <2> QED BY <1>1, <1>2, <2>1, HandlerPosts DEF IInv
<1> HIDE DEF moves
<1>4. LP!IInv' /\ "ROUTE_LOAD" \notin {"SALE", "SALE_CANCELLATION"}
  BY ConfirmLoadKeeps DEF IInv
<1> QED
  BY <1>1, <1>3, <1>4, AccountedPost DEF IInv
\* The adjustments of a count bring in what the route's stock is short of, or over, and its
\* return moves goods without bringing any.
LEMMA ApproveGoods ==
  ASSUME IInv, GoodsHold, NEW r \in Routes, NEW version, NEW physical \in Counts(r),
         Approve(r, version, physical)
  PROVE  GoodsHold'
<1> DEFINE N == Len(operations)
           difference == Difference(r, physical)
           giveBack == L!MovesOf(physical, r, route[r].origin)
           adjusted == Adjusted(r, physical)
<1>1. physical \in Quantities /\ UNCHANGED sale /\ route[r].origin \in Branches
  BY RouteAssumption DEF Counts, Quantities, Approve, IInv, RowsHold
<1>2. /\ adjusted \in [L!Locations -> [Products -> Nat]]
      /\ balance' = L!ApplyMoves(adjusted, giveBack)
  BY <1>1, ApprovedLedger DEF IInv
<1>3a. PICK K \in Nat : \E d : ApprovalAppends(r, physical, K, d)
  BY <1>1, ApprovedLedger DEF IInv
<1>3. PICK d : ApprovalAppends(r, physical, K, d)
  BY <1>3a
<1>4. /\ operations' \in Seq(L!Operations)
      /\ N \in Nat /\ Len(operations') = N + K + 1
      /\ \A i \in 1..N : operations'[i] = operations[i]
      /\ AdjustsEach([i \in 1..K |-> operations'[N + i]], r, difference, K, d)
      /\ operations'[N + K + 1].type = "ROUTE_RETURN"
      /\ \A p \in Products :
           operations'[N + K + 1].moves[p] = L!Recorded(adjusted, p, giveBack[p])
  BY <1>3 DEF ApprovalAppends
<1>5. Grown
  BY <1>4 DEF Grown
<1>6. difference \in [Products -> Int]
  BY <1>1, DifferenceType DEF IInv
<1> HIDE DEF difference
<1>7. ASSUME NEW p \in Products,
             InStock(balance, p) + CompletedOf(sale, p) = BroughtIn(operations, p)
      PROVE  InStock(balance', p) + CompletedOf(sale', p) = BroughtIn(operations', p)
  <2> DEFINE m == AdjustmentMove(r, difference, p)
             between == [i \in 1..N + K |-> operations'[i]]
             after == operations'
             last == after[N + K + 1]
  <2>1. /\ m.quantity \in Nat
        /\ difference[p] = 0 => \A l \in L!Locations : L!Delta(m, l) = 0
    <3>1. m \in L!Commands
      BY <1>6, AdjustmentMoves
    <3>2. \A l \in L!Locations : L!Delta(m, l) = IF l = r THEN -difference[p] ELSE 0
      BY <1>6, AdjustmentMoves
    <3> HIDE DEF m
    <3> QED BY <3>1, <3>2 DEF L!Commands
  <2>2. ASSUME NEW i \in 1..K
        PROVE  /\ between[N + i].type \in {"NEGATIVE_ADJUSTMENT", "POSITIVE_ADJUSTMENT"}
               /\ d[i] = p => between[N + i].moves[p] = L!Recorded(balance, p, m)
               /\ d[i] # p => between[N + i].moves[p]
                                = L!Recorded(balance, p, L!Move(0, Null, Null))
    <3>1. N + i \in 1..N + K
      BY <1>4
    <3>2. [j \in 1..K |-> operations'[N + j]][i] = between[N + i]
      BY <3>1
    <3> DEFINE ops == [j \in 1..K |-> operations'[N + j]]
    <3> HIDE DEF between, m, N
    <3>3. /\ ops[i].type = AdjustmentType(difference, d[i])
          /\ ops[i].moves[p] = L!Recorded(balance, p, AdjustOnly(r, difference, d[i])[p])
      <4> HIDE DEF ops
      <4> QED BY <1>4 DEF AdjustsEach, ops
    <3>4. AdjustOnly(r, difference, d[i])[p] = IF d[i] = p THEN m ELSE L!Move(0, Null, Null)
      BY DEF AdjustOnly, m
    <3>5. between[N + i] = ops[i]
      BY <3>2
    <3>6. AdjustmentType(difference, d[i]) \in {"NEGATIVE_ADJUSTMENT", "POSITIVE_ADJUSTMENT"}
      BY DEF AdjustmentType
    <3> HIDE DEF ops
    <3> QED BY <3>3, <3>4, <3>5, <3>6
  <2> HIDE DEF m
  <2>3. Change(L!Recorded(balance, p, m)) = Change(m) /\ Change(m) \in Int
    <3>1. \A l \in L!Locations : L!Delta(L!Recorded(balance, p, m), l) = L!Delta(m, l)
      BY DEF L!Recorded, L!Delta
    <3> QED BY <2>1, <3>1, ChangeAlike, ChangeType
  <2>4. Change(L!Recorded(balance, p, L!Move(0, Null, Null))) = 0
    <3>1. \A l \in L!Locations : L!Delta(L!Recorded(balance, p, L!Move(0, Null, Null)), l) = 0
      BY DEF L!Recorded, L!Delta, L!Move
    <3> QED BY <3>1, ChangeNowhere
  <2>5. /\ Len(between) = N + K /\ N + K \in Nat
        /\ \A i \in 1..N : between[i] = operations[i]
        /\ \A i \in 1..N + K : between[i] = after[i]
        /\ Len(after) = N + K + 1
    <3>1. N + K \in Nat
      BY <1>4
    <3>2. Len(between) = N + K
      BY <3>1, LenProperties
    <3> QED BY <1>4, <3>1, <3>2
  <2>6. \A i \in 1..N + K + 1 : Change(after[i].moves[p]) \in Int
    BY <1>4, OperationsChange
  <2>7. \A i \in N + 1..N + K : i - N \in 1..K /\ N + (i - N) = i
    BY <1>4
  <2> HIDE DEF between, after
  <2>8. BringsIn(operations, between, p)
    <3>1. \A i \in 1..N + K : Change(between[i].moves[p]) \in Int
      BY <1>4, <2>5, <2>6
    <3> QED BY <1>4, <2>5, <3>1, BroughtInGrows
  <2>9. BringsIn(between, after, p)
    BY <2>5, <2>6, BroughtInGrows
  <2>10. BroughtIn(between, p) = BroughtIn(operations, p) + Change(m)
         /\ BroughtIn(operations, p) \in Int
    <3>1. BroughtIn(operations, p) \in Int
      BY <2>8 DEF BringsIn
    <3>2. CASE difference[p] = 0
      <4>1. ASSUME NEW i \in N + 1..N + K PROVE Change(between[i].moves[p]) = 0
        <5>1. PICK j \in 1..K : i = N + j
          BY <2>7
        <5>2. difference[d[j]] # 0
          BY <1>4 DEF AdjustsEach
        <5> QED BY <2>2, <2>4, <3>2, <5>1, <5>2
      <4>2. BroughtIn(between, p) = BroughtIn(operations, p)
        BY <2>5, <2>8, <4>1 DEF BringsIn
      <4>3. Change(m) = 0
        BY <2>1, <3>2, ChangeNowhere
      <4> QED BY <3>1, <4>2, <4>3
    <3>3. CASE difference[p] # 0
      <4>1. PICK k \in 1..K : d[k] = p /\ \A i \in 1..K : d[i] = p <=> i = k
        BY <1>4, <3>3 DEF AdjustsEach
      <4>2. N + k \in N + 1..N + K
        BY <1>4
      <4>3. Change(between[N + k].moves[p]) = Change(m) /\ ~Sells(between[N + k])
        BY <2>2, <2>3, <4>1 DEF Sells
      <4>4. ASSUME NEW i \in N + 1..N + K, i # N + k PROVE Change(between[i].moves[p]) = 0
        <5>1. PICK j \in 1..K : i = N + j
          BY <2>7
        <5>2. d[j] # p
          BY <4>1, <4>4, <5>1
        <5> QED BY <2>2, <2>4, <5>1, <5>2
      <4>5. BroughtIn(between, p) = BroughtIn(operations, p) + Change(between[N + k].moves[p])
        BY <2>5, <2>8, <4>2, <4>3, <4>4 DEF BringsIn
      <4> QED BY <3>1, <4>3, <4>5
    <3> QED BY <3>2, <3>3
  <2>11. Change(last.moves[p]) = Change(giveBack[p]) /\ giveBack[p].quantity \in Nat
    <3>1. last.moves[p] = L!Recorded(adjusted, p, giveBack[p])
      BY <1>4 DEF after
    <3>2. \A l \in L!Locations :
            L!Delta(L!Recorded(adjusted, p, giveBack[p]), l) = L!Delta(giveBack[p], l)
      BY DEF L!Recorded, L!Delta
    <3>3. giveBack[p].quantity = physical[p] /\ physical[p] \in Nat
      BY <1>1 DEF L!MovesOf, L!Move, Quantities
    <3> HIDE DEF giveBack, last
    <3> QED BY <3>1, <3>2, <3>3, ChangeAlike
  <2>12. BroughtIn(after, p) = BroughtIn(between, p) + Change(last.moves[p])
    <3>1. Len(between) + 1..Len(after) = {N + K + 1} /\ ~Sells(last)
      BY <1>4, <2>5 DEF Sells, after
    <3> QED BY <2>9, <3>1 DEF BringsIn
  <2>13. /\ InStock(adjusted, p) = InStock(balance, p) + Change(m)
         /\ InStock(balance, p) \in Int
    <3>1. \A l \in L!Locations :
            balance[l][p] \in Int /\ adjusted[l][p] = balance[l][p] + L!Delta(m, l)
      BY LedgerAssumed DEF IInv, LP!IInv, LP!TypeOK, Adjusted, L!ApplyMoves, Adjustments, m,
                           difference
    <3> HIDE DEF adjusted
    <3> QED BY <2>1, <3>1, StockChanges
  <2>14. InStock(balance', p) = InStock(adjusted, p) + Change(giveBack[p])
    <3>1. \A l \in L!Locations :
            adjusted[l][p] \in Int /\ balance'[l][p] = adjusted[l][p] + L!Delta(giveBack[p], l)
      BY <1>2 DEF L!ApplyMoves
    <3> HIDE DEF adjusted, giveBack
    <3> QED BY <2>11, <3>1, StockChanges
  <2>15. Change(giveBack[p]) \in Int
    <3> HIDE DEF giveBack
    <3> QED BY <2>11, ChangeType
  <2>16. CompletedOf(sale, p) \in Nat /\ UNCHANGED sale
    BY <1>1, TotalsType DEF IInv, RowTypes
  <2>17. BroughtIn(operations', p)
           = BroughtIn(operations, p) + Change(m) + Change(giveBack[p])
    BY <2>3, <2>10, <2>11, <2>12, <2>15 DEF after
  <2>18. InStock(balance', p) = InStock(balance, p) + Change(m) + Change(giveBack[p])
    BY <2>13, <2>14
  <2> QED BY <1>7, <2>3, <2>10, <2>13, <2>15, <2>16, <2>17, <2>18
<1> QED
  BY <1>5, <1>7, GoodsFollow

\* What an administrator posts on branches is accounted.
LEMMA AdminOperationGoods ==
  ASSUME IInv, GoodsHold, AdminOperation
  PROVE  GoodsHold'
<1>1. UNCHANGED sale /\ LP!IInv' /\ Grown
  BY AdminPosts DEF AdminOperation, routeVars, IInv
<1>2. ASSUME NEW type \in L!BranchOperationTypes, NEW b \in Branches, NEW lines \in L!Lines,
             L!CreateBranchOperation(type, b, lines)
      PROVE  GoodsHold'
  <2>1. type \in L!OperationTypes /\ type # "TRANSFER" /\ type \notin {"SALE", "SALE_CANCELLATION"}
    BY DEF L!BranchOperationTypes, L!OperationTypes
  <2>2. b \in L!Endpoints /\ Null \in L!Endpoints /\ b # Null /\ lines \in Quantities
    BY LedgerAssumed, LinesAreQuantities
  <2>3. CASE L!Creates(type)
    <3> DEFINE moves == L!MovesOf(lines, Null, b)
    <3>1. L!Post(type, moves, 0)
      BY <1>2, <2>3 DEF L!CreateBranchOperation, L!BranchMoves
    <3>2. LP!Posted(type, moves, 0) /\ LP!Sound(moves)
      BY <2>1, <2>2, <3>1, HandlerPosts DEF IInv
    <3> HIDE DEF moves
    <3> QED BY <1>1, <2>1, <3>2, AccountedPost DEF IInv
  <2>4. CASE ~L!Creates(type)
    <3> DEFINE moves == L!MovesOf(lines, b, Null)
    <3>1. L!Post(type, moves, 0)
      BY <1>2, <2>4 DEF L!CreateBranchOperation, L!BranchMoves
    <3>2. LP!Posted(type, moves, 0) /\ LP!Sound(moves)
      BY <2>1, <2>2, <3>1, HandlerPosts DEF IInv
    <3> HIDE DEF moves
    <3> QED BY <1>1, <2>1, <3>2, AccountedPost DEF IInv
  <2> QED BY <2>3, <2>4
<1>3. ASSUME NEW a \in Branches, NEW c \in Branches, NEW lines \in L!Lines,
             L!CreateTransfer(a, c, lines)
      PROVE  GoodsHold'
  <2> DEFINE moves == LP!MovesOf(lines, a, c)
  <2>1. LP!CreateTransfer(a, c, lines) /\ lines \in LP!Lines
    BY <1>3, SamePost, SameOperators DEF L!CreateTransfer, LP!CreateTransfer
  <2>2. LP!Posted("TRANSFER", moves, 0)
    BY <2>1, LedgerAssumed, LP!TransferPosts, Zenon DEF IInv
  <2>3. LP!Sound(moves)
    <3>1. a \in LP!Endpoints /\ c \in LP!Endpoints /\ a # c
      BY <2>1, LedgerAssumed DEF LP!CreateTransfer
    <3> QED BY <2>1, <3>1, LedgerAssumed, LP!LinesMoves, Zenon
  <2> HIDE DEF moves
  <2>4. "TRANSFER" \notin {"SALE", "SALE_CANCELLATION"}
    OBVIOUS
  <2> QED BY <1>1, <2>2, <2>3, <2>4, AccountedPost DEF IInv
<1> QED
  BY <1>2, <1>3 DEF AdminOperation

\* So is a reversal, unless it is one of a sale's operations that is reversed.
LEMMA ReverseOperationGoods ==
  ASSUME IInv, GoodsHold, NEW i \in 1..MaxOps, ReverseOperation(i)
  PROVE  GoodsHold'
<1> DEFINE moves == LP!Inverse(operations[i].moves)
<1>1. UNCHANGED sale /\ LP!IInv' /\ Grown
  BY ReversalPosts DEF ReverseOperation, routeVars, IInv
<1>2. LP!Reverse(i)
  <2>1. L!Inverse(operations[i].moves) = LP!Inverse(operations[i].moves)
    BY SameOperators, Zenon DEF L!Inverse, LP!Inverse
  <2>2. L!Reversed(i) <=> LP!Reversed(i)
    BY DEF L!Reversed, LP!Reversed
  <2> QED BY <2>1, <2>2, SamePost DEF ReverseOperation, L!Reverse, LP!Reverse
<1>3. i \in 1..Len(operations) /\ LP!Posted(operations[i].type, moves, i)
  <2>1. i \in Nat
    BY LedgerAssumed
  <2> QED BY <1>2, <2>1, LedgerAssumed, LP!ReversalPosts, Zenon DEF IInv
<1>4. LP!Sound(moves)
  BY <1>3, LedgerAssumed, LP!InverseMoves, Zenon DEF IInv, LP!IInv
<1>5. i # 0
  BY LedgerAssumed
<1> HIDE DEF moves
<1> QED
  BY <1>1, <1>3, <1>4, <1>5, AccountedPost DEF IInv

\* Every action keeps goods, movements and completed sales in balance.
LEMMA NextGoods == IInv /\ GoodsHold /\ [Next]_vars => GoodsHold'
<1> SUFFICES ASSUME IInv, GoodsHold, [Next]_vars PROVE GoodsHold'
  OBVIOUS
<1>1. ASSUME UNCHANGED <<balance, operations, sale>> PROVE GoodsHold'
  BY <1>1 DEF GoodsHold, SalesStand
<1>2. ASSUME NEW r \in Routes, NEW d \in Drivers, DriverStep(d, r) PROVE GoodsHold'
  <2>1. ASSUME NEW lines \in L!Lines, SaveDraft(d, r, load[r].version, lines) PROVE GoodsHold'
    BY <1>1, <2>1 DEF SaveDraft
  <2>2. ASSUME Start(d, r, route[r].version) PROVE GoodsHold'
    BY <1>1, <2>2 DEF Start
  <2>3. ASSUME Return(d, r, route[r].version) PROVE GoodsHold'
    BY <1>1, <2>3 DEF Return
  <2>4. ASSUME NEW physical \in Counts(r), DeclareReturn(d, r, route[r].version, physical)
        PROVE  GoodsHold'
    BY <1>1, <2>4 DEF DeclareReturn
  <2> QED BY <1>2, <2>1, <2>2, <2>3, <2>4, ConfirmLoadGoods, ConfirmSaleGoods DEF DriverStep
<1>3. ASSUME NEW r \in Routes, AdminStep(r) PROVE GoodsHold'
  <2>1. ASSUME NEW origin \in Branches, NEW d \in Drivers, NEW v \in Vehicles,
               Create(r, origin, d, v)
        PROVE  GoodsHold'
    BY <1>1, <2>1 DEF Create
  <2>2. ASSUME Close(r, route[r].version) PROVE GoodsHold'
    BY <1>1, <2>2 DEF Close
  <2> QED BY <1>3, <2>1, <2>2, ApproveGoods DEF AdminStep
<1>4. ASSUME NEW s \in Sales, CancelSale(s) PROVE GoodsHold'
  BY <1>4, CancelSaleGoods
<1>5. ASSUME AdminOperation PROVE GoodsHold'
  BY <1>5, AdminOperationGoods
<1>6. ASSUME NEW i \in 1..MaxOps, ReverseOperation(i) PROVE GoodsHold'
  BY <1>6, ReverseOperationGoods
<1>7. ASSUME UNCHANGED vars PROVE GoodsHold'
  BY <1>1, <1>7 DEF vars
<1> QED
  BY <1>2, <1>3, <1>4, <1>5, <1>6, <1>7 DEF Next

\* The opening entry is all there is in stock.
LEMMA InitGoods == Init => GoodsHold
<1> SUFFICES ASSUME Init, NEW p \in Products
             PROVE  InStock(balance, p) + CompletedOf(sale, p) = BroughtIn(operations, p)
  BY DEF GoodsHold
<1> DEFINE m == OpeningMoves[p]
           none == <<>>
<1>1. /\ LP!IInv /\ Len(operations) = 1 /\ operations[1].type = "ENTRY"
      /\ operations[1].moves[p] = L!Recorded(NoStock, p, m)
      /\ NoStock \in [L!Locations -> [Products -> Nat]]
  BY OpeningLedger
<1>2. m.quantity \in Nat
  BY RouteAssumption DEF OpeningMoves, L!MovesOf, L!Move, Quantities
<1>3. \A l \in L!Locations : /\ NoStock[l][p] \in Int /\ NoStock[l][p] = 0
                             /\ balance[l][p] = NoStock[l][p] + L!Delta(m, l)
  BY <1>1 DEF Init, L!ApplyMoves, NoStock, NoLines
<1> HIDE DEF m
<1>4. /\ InStock(balance, p) = InStock(NoStock, p) + Change(m) /\ Change(m) \in Int
  BY <1>2, <1>3, ChangeType, StockChanges
<1>5. InStock(NoStock, p) = 0
  <2> DEFINE f == [l \in L!Locations |-> NoStock[l][p]]
  <2>1. \A l \in L!Locations : f[l] = 0
    BY <1>3
  <2> HIDE DEF f
  <2>2. SumFunctionOnSet(f, L!Locations) = 0
    BY <2>1, LocationsFinite, SumZero
  <2> QED BY <2>2 DEF InStock, f
<1>6. CompletedOf(sale, p) = 0
  <2>1. {s \in Sales : sale[s].status = "COMPLETED"} = {}
    BY DEF Init, NoSale
  <2> QED BY <2>1, SumEmpty DEF CompletedOf, TotalOf
<1>7. BroughtIn(operations, p) = Change(m)
  <2>1. Change(operations[1].moves[p]) = Change(m)
    <3>1. \A l \in L!Locations : L!Delta(L!Recorded(NoStock, p, m), l) = L!Delta(m, l)
      BY DEF L!Recorded, L!Delta
    <3> QED BY <1>1, <3>1, ChangeAlike
  <2>2. Len(none) = 0 /\ 1..Len(none) = {} /\ Len(none) + 1..Len(operations) = {1}
    BY <1>1
  <2>3. /\ \A i \in 1..Len(none) : operations[i] = none[i]
        /\ \A i \in 1..Len(operations) : Change(operations[i].moves[p]) \in Int
        /\ Len(none) \in Nat /\ Len(operations) \in Nat /\ Len(none) <= Len(operations)
    BY <1>1, <1>4, <2>1, <2>2
  <2>4. BroughtIn(none, p) = 0
    <3>1. Accounted(none) = {}
      BY <2>2 DEF Accounted
    <3> QED BY <3>1, SumEmpty DEF BroughtIn
  <2> HIDE DEF none
  <2>5. BringsIn(none, operations, p)
    BY <2>3, BroughtInGrows
  <2>6. BroughtIn(operations, p) = BroughtIn(none, p) + Change(operations[1].moves[p])
    <3>1. ~Sells(operations[1])
      BY <1>1 DEF Sells
    <3> QED BY <2>2, <2>5, <3>1 DEF BringsIn
  <2> QED BY <1>4, <2>1, <2>4, <2>6
<1> QED
  BY <1>4, <1>5, <1>6, <1>7

\* The ledger of every handler can be rebuilt and its reversals are exact; and what is in
\* stock, and what was sold, is what entries, exits and adjustments brought in.
THEOREM GoodsAreAccounted == Spec => []GoodsAccounted
<1>1. Spec => []GoodsHold
  BY Invariance, InitGoods, NextGoods, PTL DEF Spec
<1>2. IInv /\ GoodsHold => GoodsAccounted
  <2>1. \A p : CompletedOf(sale, p) = Total({s \in Sales : sale[s].status = "COMPLETED"}, p)
    BY DEF CompletedOf, TotalOf, Total
  <2>2. IInv => LedgerHolds
    BY SameInvariants DEF IInv, LP!IInv, LedgerHolds
  <2> QED BY <2>1, <2>2 DEF GoodsHold, GoodsAccounted, SalesStand, Sells
<1> QED
  BY <1>1, <1>2, Invariance, PTL
=============================================================================
