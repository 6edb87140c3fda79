--------------------------- MODULE RouteLifecycle ---------------------------
(***************************************************************************)
(* A delivery route from planning to closure, on top of the inventory      *)
(* ledger: load drafts and confirmation, departure, sales, cancellations,  *)
(* the driver's declared return, reconciliation and closure, together with *)
(* the inventory operations and reversals an administrator may post at any *)
(* time.  One action is one committed transaction of the handler it names; *)
(* a request that fails any precondition rolls back and is no step.        *)
(***************************************************************************)
EXTENDS Integers, Sequences, FiniteSets, FiniteSetsExt, SequencesExt

CONSTANTS
  Branches, Routes, Products, Null,
  Drivers, Vehicles,
  Sales,          \* client operation ids: each one confirms at most one sale
  Depot,          \* the branch the opening stock is entered at
  OpeningStock,   \* the opening entry, by product
  MaxQty,         \* bound on the quantity of one line
  MaxOps,         \* bound on the number of inventory operations
  MaxLoadVersion, \* bound on the version of a route load
  MaxAdminOps     \* bound on the operations InventoryService posts after the opening

VARIABLES
  balance, operations,  \* the ledger
  route,                \* route rows
  load,                 \* route_load with its lines
  sale,                 \* sale with its lines and its cancellation's destination
  declared,             \* route_return rows of kind DECLARED
  reconciliation        \* route_reconciliation with its lines, and the APPROVED return

routeVars == <<route, load, sale, declared, reconciliation>>
vars == <<balance, operations, route, load, sale, declared, reconciliation>>

L == INSTANCE StockLedger

-----------------------------------------------------------------------------
(* Rows *)

States == {"PREPARING", "EN_ROUTE", "RETURNED", "CLOSED"}
Active == {"PREPARING", "EN_ROUTE", "RETURNED"}

Quantities == [Products -> Nat]
NoLines == [p \in Products |-> 0]

RouteRows ==
  [ state: States \cup {"NONE"}, version: Nat, driver: Drivers \cup {Null},
    vehicle: Vehicles \cup {Null}, origin: Branches \cup {Null} ]
LoadRows == [state: {"NONE", "DRAFT", "CONFIRMED"}, version: Nat, lines: Quantities]
SaleRows ==
  [ status: {"NONE", "COMPLETED", "CANCELLED"}, route: Routes \cup {Null}, lines: Quantities,
    destination: L!Locations \cup {Null} ]
DeclaredReturns == [expected: Quantities, physical: Quantities]
Reconciliations ==
  [ sold: Quantities, expected: Quantities, physical: Quantities, difference: [Products -> Int] ]

NoRoute == [state |-> "NONE", version |-> 0, driver |-> Null, vehicle |-> Null, origin |-> Null]
NoLoad == [state |-> "NONE", version |-> 0, lines |-> NoLines]
NoSale == [status |-> "NONE", route |-> Null, lines |-> NoLines, destination |-> Null]

ASSUME RouteAssumption ==
  /\ Depot \in Branches
  /\ Branches \cap Routes = {}
  /\ OpeningStock \in Quantities
  /\ {MaxQty, MaxOps, MaxLoadVersion, MaxAdminOps} \subseteq Nat
  /\ Null \notin Branches \cup Routes \cup Drivers \cup Vehicles
  /\ Null \notin DeclaredReturns \cup Reconciliations
  /\ \A S \in {Branches, Routes, Products, Sales} : IsFiniteSet(S)

\* sum(sale_line.quantity) over a set of sales.
Total(sales, p) == SumFunctionOnSet([s \in Sales |-> sale[s].lines[p]], sales)

SoldMutCountsCancelled(r) ==
  [p \in Products |-> Total({s \in Sales : sale[s].route = r}, p)]

\* What recordDriverReturn and approve read as sold: completed sales only.
Sold(r) ==
  [p \in Products |-> Total({s \in Sales : sale[s].route = r /\ sale[s].status = "COMPLETED"}, p)]

Expected(r) == [p \in Products |-> load[r].lines[p] - Sold(r)[p]]

\* The lines of a physical count name exactly the loaded products; more may be
\* counted than was loaded.
Counts(r) ==
  { physical \in [Products -> 0..MaxQty + 1] :
      \A p \in Products : load[r].lines[p] = 0 => physical[p] = 0 }

-----------------------------------------------------------------------------
(* RouteLoadService *)

\* No route in an active state holds the driver or the vehicle (the partial
\* unique indexes route_active_driver_uq and route_active_vehicle_uq).
FreeMutReturnedIsFree(d, v) ==
  \A r \in Routes :
    route[r].state \in {"PREPARING", "EN_ROUTE"} => route[r].driver # d /\ route[r].vehicle # v

Free(d, v) ==
  \A r \in Routes : route[r].state \in Active => route[r].driver # d /\ route[r].vehicle # v

Create(r, origin, d, v) ==
  /\ route[r].state = "NONE"
  /\ Free(d, v)
  /\ route' = [route EXCEPT ![r] =
       [state |-> "PREPARING", version |-> 1, driver |-> d, vehicle |-> v, origin |-> origin]]
  /\ UNCHANGED <<balance, operations, load, sale, declared, reconciliation>>

\* The first save inserts version 1 and, like every save, moves the version on.
SaveDraft(d, r, expectedVersion, lines) ==
  /\ route[r].driver = d
  /\ route[r].state = "PREPARING"
  /\ load[r].state # "CONFIRMED"
  /\ load[r].state = "DRAFT" => load[r].version = expectedVersion
  /\ LET version == IF load[r].state = "NONE" THEN 1 ELSE load[r].version IN
     /\ version < MaxLoadVersion
     /\ load' = [load EXCEPT ![r] =
          [state |-> "DRAFT", version |-> version + 1, lines |-> lines]]
  /\ UNCHANGED <<balance, operations, route, sale, declared, reconciliation>>

ConfirmLoadMutAnyState(d, r, expectedVersion) ==
  /\ route[r].driver = d
  /\ load[r].state # "NONE"
  /\ load[r].version = expectedVersion
  /\ L!Post("ROUTE_LOAD", L!MovesOf(load[r].lines, route[r].origin, r), 0)
  /\ load' = [load EXCEPT ![r].state = "CONFIRMED", ![r].version = @ + 1]
  /\ UNCHANGED <<route, sale, declared, reconciliation>>

ConfirmLoad(d, r, expectedVersion) ==
  /\ route[r].driver = d
  /\ route[r].state = "PREPARING"
  /\ load[r].state = "DRAFT"
  /\ load[r].version = expectedVersion
  /\ L!Post("ROUTE_LOAD", L!MovesOf(load[r].lines, route[r].origin, r), 0)
  /\ load' = [load EXCEPT ![r].state = "CONFIRMED", ![r].version = @ + 1]
  /\ UNCHANGED <<route, sale, declared, reconciliation>>

-----------------------------------------------------------------------------
(* RouteTransitionService *)

\* The conditional update of the route row, by its state and version.
Transition(r, from, to, expectedVersion) ==
  /\ route[r].state = from
  /\ route[r].version = expectedVersion
  /\ route' = [route EXCEPT ![r].state = to, ![r].version = expectedVersion + 1]

Start(d, r, expectedVersion) ==
  /\ route[r].driver = d
  /\ load[r].state = "CONFIRMED"
  /\ Transition(r, "PREPARING", "EN_ROUTE", expectedVersion)
  /\ UNCHANGED <<balance, operations, load, sale, declared, reconciliation>>

\* The driver's count, kept with what was expected when it was recorded.
RecordDriverReturn(r, physical) ==
  /\ declared[r] = Null
  /\ \A p \in Products : Expected(r)[p] >= 0
  /\ declared' = [declared EXCEPT ![r] = [expected |-> Expected(r), physical |-> physical]]

\* The driver comes back, with a count or without one.
Return(d, r, expectedVersion) ==
  /\ route[r].driver = d
  /\ Transition(r, "EN_ROUTE", "RETURNED", expectedVersion)
  /\ \/ UNCHANGED declared
     \/ \E physical \in Counts(r) : RecordDriverReturn(r, physical)
  /\ UNCHANGED <<balance, operations, load, sale, reconciliation>>

DeclareReturn(d, r, expectedVersion, physical) ==
  /\ route[r].driver = d
  /\ reconciliation[r] = Null
  /\ Transition(r, "RETURNED", "RETURNED", expectedVersion)
  /\ RecordDriverReturn(r, physical)
  /\ UNCHANGED <<balance, operations, load, sale, reconciliation>>

-----------------------------------------------------------------------------
(* SaleService and CancellationService *)

ConfirmSaleMutFromOrigin(d, s, r, lines) ==
  /\ sale[s].status = "NONE"
  /\ route[r].state = "EN_ROUTE"
  /\ route[r].driver = d
  /\ L!Post("SALE", L!MovesOf(lines, route[r].origin, Null), 0)
  /\ sale' = [sale EXCEPT ![s] =
       [status |-> "COMPLETED", route |-> r, lines |-> lines, destination |-> Null]]
  /\ UNCHANGED <<route, load, declared, reconciliation>>

ConfirmSale(d, s, r, lines) ==
  /\ sale[s].status = "NONE"
  /\ route[r].state = "EN_ROUTE"
  /\ route[r].driver = d
  /\ L!Post("SALE", L!MovesOf(lines, r, Null), 0)
  /\ sale' = [sale EXCEPT ![s] =
       [status |-> "COMPLETED", route |-> r, lines |-> lines, destination |-> Null]]
  /\ UNCHANGED <<route, load, declared, reconciliation>>

\* Goods go back on the truck while the route is out, to its origin afterwards.
DestinationMutAlwaysRoute(s) == sale[s].route

Destination(s) ==
  IF route[sale[s].route].state = "EN_ROUTE" THEN sale[s].route ELSE route[sale[s].route].origin

CancelSaleMutTwice(s) ==
  /\ sale[s].status # "NONE"
  /\ L!Post("SALE_CANCELLATION", L!MovesOf(sale[s].lines, Null, Destination(s)), 0)
  /\ sale' = [sale EXCEPT ![s].status = "CANCELLED", ![s].destination = Destination(s)]
  /\ UNCHANGED <<route, load, declared, reconciliation>>

CancelSale(s) ==
  /\ sale[s].status = "COMPLETED"
  /\ L!Post("SALE_CANCELLATION", L!MovesOf(sale[s].lines, Null, Destination(s)), 0)
  /\ sale' = [sale EXCEPT ![s].status = "CANCELLED", ![s].destination = Destination(s)]
  /\ UNCHANGED <<route, load, declared, reconciliation>>

-----------------------------------------------------------------------------
(* RouteReconciliationService *)

\* Positive for a shortage, negative for an overage.
Difference(r, physical) == [p \in Products |-> Expected(r)[p] - physical[p]]

\* The adjustment that brings the route's stock of p to the counted quantity.
AdjustmentMove(r, difference, p) ==
  IF difference[p] >= 0 THEN L!Move(difference[p], r, Null) ELSE L!Move(-difference[p], Null, r)

AdjustmentType(difference, p) ==
  IF difference[p] > 0 THEN "NEGATIVE_ADJUSTMENT" ELSE "POSITIVE_ADJUSTMENT"

Adjustments(r, difference) == [p \in Products |-> AdjustmentMove(r, difference, p)]

\* One operation for each product that differs; its order among the others does not
\* matter, but the return's movement of a product follows that product's adjustment.
AdjustmentOperations(r, difference) ==
  LET differing == SetToSeq({p \in Products : difference[p] # 0})
      only(p) == [q \in Products |-> IF q = p THEN AdjustmentMove(r, difference, p)
                                     ELSE L!Move(0, Null, Null)]
  IN [ i \in DOMAIN differing |->
         L!NewOperation(balance, AdjustmentType(difference, differing[i]), only(differing[i]), 0) ]

\* approve accepts this count: every movement is covered and the route is left empty.
Reconciles(r, physical) ==
  LET adjust == Adjustments(r, Difference(r, physical))
      adjusted == L!ApplyMoves(balance, adjust)
      giveBack == L!MovesOf(physical, r, route[r].origin)
  IN /\ \A p \in Products : Expected(r)[p] >= 0
     /\ L!Covered(balance, adjust)
     /\ L!Covered(adjusted, giveBack)
     /\ \A p \in Products : L!ApplyMoves(adjusted, giveBack)[r][p] = 0

Approve(r, expectedVersion, physical) ==
  LET difference == Difference(r, physical)
      adjusted == L!ApplyMoves(balance, Adjustments(r, difference))
      giveBack == L!MovesOf(physical, r, route[r].origin)
      posted == Append(AdjustmentOperations(r, difference),
                       L!NewOperation(adjusted, "ROUTE_RETURN", giveBack, 0))
  IN /\ route[r].state = "RETURNED"
     /\ route[r].version = expectedVersion
     /\ reconciliation[r] = Null
     /\ Len(operations) + Len(posted) <= MaxOps
     /\ Reconciles(r, physical)
     /\ balance' = L!ApplyMoves(adjusted, giveBack)
     /\ operations' = operations \o posted
     /\ reconciliation' = [reconciliation EXCEPT ![r] =
          [ sold |-> Sold(r), expected |-> Expected(r), physical |-> physical,
            difference |-> difference ]]
     /\ UNCHANGED <<route, load, sale, declared>>

Close(r, expectedVersion) ==
  /\ reconciliation[r] # Null
  /\ Transition(r, "RETURNED", "CLOSED", expectedVersion)
  /\ UNCHANGED <<balance, operations, load, sale, declared, reconciliation>>

-----------------------------------------------------------------------------
(* InventoryService, used by an administrator beside the routes *)

TouchesRoute(i) == \E r \in Routes, p \in Products : L!Touches(i, r, p)

\* Operations posted through InventoryService: reversals, and those off the routes.
AdminOps ==
  { i \in 1..Len(operations) :
      operations[i].reverses # 0 \/
      (operations[i].type \in L!BranchOperationTypes \cup {"TRANSFER"} /\ ~TouchesRoute(i)) }

AdminOperation ==
  /\ Cardinality(AdminOps) <= MaxAdminOps
  /\ \/ \E type \in L!BranchOperationTypes, b \in Branches, lines \in L!Lines :
          L!CreateBranchOperation(type, b, lines)
     \/ \E source, destination \in Branches, lines \in L!Lines :
          L!CreateTransfer(source, destination, lines)
  /\ UNCHANGED routeVars

\* Any operation may be named, whatever handler posted it.
ReverseOperation(i) ==
  /\ Cardinality(AdminOps) <= MaxAdminOps
  /\ L!Reverse(i)
  /\ UNCHANGED routeVars

-----------------------------------------------------------------------------

NoStock == [l \in L!Locations |-> NoLines]
OpeningMoves == L!MovesOf(OpeningStock, Null, Depot)

\* The warehouse after its opening entry, before the first route.
Init ==
  /\ balance = L!ApplyMoves(NoStock, OpeningMoves)
  /\ operations = <<L!NewOperation(NoStock, "ENTRY", OpeningMoves, 0)>>
  /\ route = [r \in Routes |-> NoRoute]
  /\ load = [r \in Routes |-> NoLoad]
  /\ sale = [s \in Sales |-> NoSale]
  /\ declared = [r \in Routes |-> Null]
  /\ reconciliation = [r \in Routes |-> Null]

\* Requests carry the version their sender last read.
DriverStep(d, r) ==
  \/ \E lines \in L!Lines : SaveDraft(d, r, load[r].version, lines)
  \/ ConfirmLoad(d, r, load[r].version)
  \/ Start(d, r, route[r].version)
  \/ Return(d, r, route[r].version)
  \/ \E physical \in Counts(r) : DeclareReturn(d, r, route[r].version, physical)
  \/ \E s \in Sales, lines \in L!Lines : ConfirmSale(d, s, r, lines)

AdminStep(r) ==
  \/ \E origin \in Branches, d \in Drivers, v \in Vehicles : Create(r, origin, d, v)
  \/ \E physical \in Counts(r) : Approve(r, route[r].version, physical)
  \/ Close(r, route[r].version)

Next ==
  \/ \E r \in Routes, d \in Drivers : DriverStep(d, r)
  \/ \E r \in Routes : AdminStep(r)
  \/ \E s \in Sales : CancelSale(s)
  \/ AdminOperation
  \/ \E i \in 1..MaxOps : ReverseOperation(i)

Spec == Init /\ [][Next]_vars

-----------------------------------------------------------------------------
(* Properties *)

TypeOK ==
  /\ L!TypeOK
  /\ route \in [Routes -> RouteRows]
  /\ load \in [Routes -> LoadRows]
  /\ sale \in [Sales -> SaleRows]
  /\ declared \in [Routes -> DeclaredReturns \cup {Null}]
  /\ reconciliation \in [Routes -> Reconciliations \cup {Null}]

\* An administrator reversed some operation that had moved stock of route r.
Reworked(r) ==
  \E i \in 1..Len(operations) :
    operations[i].reverses # 0 /\ \E p \in Products : L!Touches(i, r, p)

\* Goods of sales of r that were cancelled to the branch, after the truck was back.
Diverted(r) ==
  [p \in Products |->
     Total({s \in Sales : sale[s].route = r /\ sale[s].destination \in Branches}, p)]

\* The stock a truck carries is explained by the route's own records: what was
\* loaded, less what its completed sales sold, less what was sold and then
\* cancelled into the branch; nothing before the load is confirmed and nothing
\* after reconciliation.  (Reversing one of the route's operations by hand is the
\* only way to part stock and records.)
RouteStockExplained ==
  \A r \in Routes : ~Reworked(r) =>
    balance[r] =
      IF load[r].state = "CONFIRMED" /\ reconciliation[r] = Null
      THEN [p \in Products |-> Expected(r)[p] - Diverted(r)[p]]
      ELSE NoLines

\* An approved reconciliation is never overtaken by later events: it accounts for
\* the whole load as sold, returned or different, and the sales it counted are the
\* ones completed now or cancelled into the branch since; a return the driver
\* declared started from the same expected quantities.
ReconciliationStands ==
  \A r \in Routes : reconciliation[r] # Null =>
    LET rec == reconciliation[r] IN
    /\ \A p \in Products : load[r].lines[p] = rec.sold[p] + rec.physical[p] + rec.difference[p]
    /\ ~Reworked(r) =>
         /\ rec.sold = [p \in Products |-> Sold(r)[p] + Diverted(r)[p]]
         /\ declared[r] # Null => declared[r].expected = rec.expected

InStock(bal, p) == SumFunctionOnSet([l \in L!Locations |-> bal[l][p]], L!Locations)

\* What movement m adds to the stock of all locations.
Change(m) == SumFunctionOnSet([l \in L!Locations |-> L!Delta(m, l)], L!Locations)

Accounted(ops) ==
  {i \in 1..Len(ops) : ops[i].type \notin {"SALE", "SALE_CANCELLATION"}}

BroughtIn(ops, p) ==
  SumFunctionOnSet([i \in 1..Len(ops) |-> Change(ops[i].moves[p])], Accounted(ops))

LedgerHolds == L!LedgerReproducesBalances /\ L!ReversalsAreExact

\* Whatever handlers post, sales, cancellations and the adjustments of a reconciliation
\* included, the ledger holds, and no goods appear or vanish on the way from the opening
\* stock to the customers: what is in stock anywhere plus what completed sales sold is what
\* entries, exits and adjustments brought in.  In particular a cancelled sale restores each
\* quantity once.  (Unless a sale's own ledger operation is reversed by hand.)
GoodsAccounted ==
  /\ LedgerHolds
  /\ (\A i \in 1..Len(operations) :
        operations[i].reverses # 0 => operations[i].type \notin {"SALE", "SALE_CANCELLATION"}) =>
     \A p \in Products :
       InStock(balance, p) + Total({s \in Sales : sale[s].status = "COMPLETED"}, p)
         = BroughtIn(operations, p)

OneActiveRoute ==
  \A r, q \in Routes :
    (r # q /\ route[r].state \in Active /\ route[q].state \in Active) =>
      route[r].driver # route[q].driver /\ route[r].vehicle # route[q].vehicle

RecordsFollowLifecycle ==
  /\ \A r \in Routes :
       /\ route[r].state \in {"EN_ROUTE", "RETURNED", "CLOSED"} => load[r].state = "CONFIRMED"
       /\ declared[r] # Null \/ reconciliation[r] # Null => route[r].state \in {"RETURNED", "CLOSED"}
       /\ route[r].state = "CLOSED" => reconciliation[r] # Null
  /\ \A s \in Sales : sale[s].status # "NONE" =>
       route[sale[s].route].state \in {"EN_ROUTE", "RETURNED", "CLOSED"}

\* A driver and a vehicle serve at most one route at a time, from planning until the route is
\* closed, whatever was sold, cancelled or reversed meanwhile; and only a route with a
\* confirmed load leaves, only such a route sells or is counted, and only a reconciled one
\* is closed.
LifecycleHolds == OneActiveRoute /\ RecordsFollowLifecycle

Order == [NONE |-> 0, PREPARING |-> 1, EN_ROUTE |-> 2, RETURNED |-> 3, CLOSED |-> 4]

\* A route only advances, one state at a time, and each change of its row moves the
\* version on; a confirmed load, a declared return and an approved reconciliation
\* are never rewritten, and what is confirmed is the draft as it stood.
HistoryIsNotRewritten ==
  [][ \A r \in Routes :
        /\ Order[route'[r].state] - Order[route[r].state] \in {0, 1}
        /\ route'[r] # route[r] => route'[r].version = route[r].version + 1
        /\ load[r].state = "CONFIRMED" => load'[r] = load[r]
        /\ load'[r].state = "CONFIRMED" => load'[r].lines = load[r].lines
        /\ declared[r] # Null => declared'[r] = declared[r]
        /\ reconciliation[r] # Null => reconciliation'[r] = reconciliation[r]
    ]_vars

AwaitsReconciliation(r) == route[r].state = "RETURNED" /\ reconciliation[r] = Null

\* Whatever an administrator counts on a returned truck, shortage and overage
\* included, approve accepts: so the route can be closed and its driver and vehicle
\* released.  This holds while none of its sales was cancelled after it came back
\* and none of its operations was reversed.
EveryCountReconciles ==
  \A r \in Routes :
    (AwaitsReconciliation(r) /\ ~Reworked(r) /\ Diverted(r) = NoLines) =>
      \A physical \in Counts(r) : Reconciles(r, physical)

\* A sale of a returned route may still be cancelled, with its goods going to the
\* origin branch, and the route can then be reconciled with some count.
CancellationLeavesRouteReconcilable ==
  \A r \in Routes :
    (AwaitsReconciliation(r) /\ ~Reworked(r)) =>
      \E physical \in Counts(r) : Reconciles(r, physical)

\* A route is closed with no stock left on it.
ClosesOnlyEmptyRoutes ==
  [][ \A r \in Routes :
        (route[r].state # "CLOSED" /\ route'[r].state = "CLOSED") => balance[r] = NoLines ]_vars
=============================================================================
