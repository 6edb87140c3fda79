----------------------------- MODULE Assignments -----------------------------
(***************************************************************************)
(* Routes being created while administrators change the users and vehicles *)
(* they name.  RouteLoadService.create runs READ COMMITTED and locks the   *)
(* driver and the vehicle; UserAdminService.update and updateCatalog run   *)
(* SERIALIZABLE, and take their snapshot before they wait for the row.     *)
(*                                                                         *)
(* PostgreSQL (external): FOR UPDATE locks are held to the end of the      *)
(* transaction and exclude the key-share locks that foreign keys take; a   *)
(* serializable transaction fails on a row changed (not just locked) since *)
(* its snapshot; a READ COMMITTED one re-evaluates its condition on the    *)
(* row it waited for.                                                      *)
(***************************************************************************)
EXTENDS Integers, Sequences, FiniteSets, FiniteSetsExt

CONSTANTS
  Users, Vehicles, Null,
  Admins,        \* the users that start as administrators; the others are drivers
  Sessions,      \* requests being served at the same time
  MaxAttempts,   \* attempts of runSerializable
  MaxRoutes,     \* bound on the routes created
  Requests,      \* the requests clients may send
  MaxChanges     \* bound on the changes of users and vehicles

VARIABLES
  row,      \* app_user and vehicle: active, role and version, as committed
  routes,   \* the committed routes, in order of creation
  pc,       \* where each session's request is
  call,     \* the request it serves
  attempt,
  seen      \* what its snapshot shows; Null outside a serializable transaction

committed == <<row, routes>>
vars == <<row, routes, pc, call, attempt, seen>>

Rows == Users \cup Vehicles
Roles == {"ADMINISTRATOR", "DRIVER", "VEHICLE"}
RowRecord == [active: BOOLEAN, role: Roles, version: 1..MaxChanges + 1]
RouteRecord == [driver: Users, vehicle: Vehicles, state: {"OPEN", "CLOSED"}]

Creations == [actor: Users, driver: Users, vehicle: Vehicles]
Updates == [actor: Users, target: Rows, version: 1..MaxChanges + 1, active: BOOLEAN, role: Roles]
Calls == [request: Creations \cup Updates, order: Seq(Rows)]
Snapshots == [row: [Rows -> RowRecord], routes: Seq(RouteRecord)]
IsCreation(q) == "driver" \in DOMAIN q

ASSUME AssignmentsAssumption ==
  /\ Admins \subseteq Users
  /\ Users \cap Vehicles = {}
  /\ Null \notin Calls \cup Snapshots
  /\ \A S \in {Users, Vehicles, Sessions} : IsFiniteSet(S)
  /\ MaxAttempts \in Nat \ {0} /\ MaxRoutes \in Nat /\ MaxChanges \in Nat
  /\ Requests \subseteq Creations \cup Updates
  /\ \A q \in Requests \cap Updates : q.role = "VEHICLE" <=> q.target \in Vehicles

\* A state other than CLOSED is OPEN here: no check tells the others apart.
IsOpenFor(route, x) == route.state = "OPEN" /\ x \in {route.driver, route.vehicle}
HasOpenRoute(table, x) == \E i \in DOMAIN table : IsOpenFor(table[i], x)

Fit(x) == row[x].active /\ row[x].role # "ADMINISTRATOR"

-----------------------------------------------------------------------------
(* Locks *)

Asked(s) == call[s].request
Creating(s) == IsCreation(Asked(s))
NextRow(s) == call[s].order[IF pc[s] = "first" THEN 1 ELSE 2]

\* The rows a request locks FOR UPDATE, in this order: the queries of create are
\* started together, and their one connection runs them in turn.
LockOrdersMutParallel(q) ==
  IF IsCreation(q) THEN {<<q.driver, q.vehicle>>, <<q.vehicle, q.driver>>} ELSE {<<q.target>>}

LockOrders(q) ==
  IF IsCreation(q) THEN {<<q.driver, q.vehicle>>} ELSE {<<q.target>>}

\* The rows locked FOR UPDATE by session s.
HeldMutReadsDriver(s) ==
  CASE pc[s] = "second" -> {}
    [] pc[s] \in {"write", "audit", "commit"} -> Range(Tail(call[s].order))
    [] OTHER -> {}

Held(s) ==
  CASE pc[s] = "second" -> {Head(call[s].order)}
    [] pc[s] \in {"write", "audit", "commit"} -> Range(call[s].order)
    [] OTHER -> {}

\* Foreign keys to the actor (created_by, audit_event.actor_id).
Shared(s) == IF pc[s] = "commit" THEN {Asked(s).actor} ELSE {}

WaitsFor(s, t) ==
  /\ s # t
  /\ \/ pc[s] \in {"first", "second"} /\ NextRow(s) \in Held(t) \cup Shared(t)
     \/ pc[s] = "audit" /\ Asked(s).actor \in Held(t)

MayLock(s) == \A t \in Sessions : ~WaitsFor(s, t)

\* Sessions that all wait for one another.
Deadlocked(C) ==
  /\ C # {}
  /\ \A s \in C : (\E t \in C : WaitsFor(s, t)) /\ (\E t \in C : WaitsFor(t, s))

InTransaction(s) == pc[s] \in {"first", "second", "write", "audit", "commit"}

-----------------------------------------------------------------------------
(* Requests *)

\* The session middleware lets active administrators send these commands.
Call(s, q) ==
  /\ pc[s] = "idle"
  /\ row[q.actor].active /\ row[q.actor].role = "ADMINISTRATOR"
  /\ \E order \in LockOrders(q) : call' = [call EXCEPT ![s] = [request |-> q, order |-> order]]
  /\ pc' = [pc EXCEPT ![s] = "begin"]
  /\ attempt' = [attempt EXCEPT ![s] = 1]
  /\ UNCHANGED <<row, routes, seen>>

Running == Cardinality({t \in Sessions : pc[t] # "idle"})

\* The bounds count requests that are still running.
CallCreate(s, q) ==
  /\ Len(routes) + Running < MaxRoutes
  /\ Call(s, q)

Changes == SumFunctionOnSet([x \in Rows |-> row[x].version - 1], Rows)

\* The version is one the sender has read.
CallUpdate(s, q) ==
  /\ q.version <= row[q.target].version
  /\ Changes + Running < MaxChanges
  /\ Call(s, q)

End(s) ==
  /\ pc' = [pc EXCEPT ![s] = "idle"]
  /\ call' = [call EXCEPT ![s] = Null]
  /\ attempt' = [attempt EXCEPT ![s] = 0]
  /\ seen' = [seen EXCEPT ![s] = Null]

Fail(s) == End(s) /\ UNCHANGED committed

\* runSerializable starts an update again; create runs in a plain transaction.
RetryMutOnceMore(s) ==
  IF ~Creating(s) /\ attempt[s] <= MaxAttempts
  THEN /\ pc' = [pc EXCEPT ![s] = "begin"]
       /\ attempt' = [attempt EXCEPT ![s] = @ + 1]
       /\ seen' = [seen EXCEPT ![s] = Null]
       /\ UNCHANGED <<row, routes, call>>
  ELSE Fail(s)

Retry(s) ==
  IF ~Creating(s) /\ attempt[s] < MaxAttempts
  THEN /\ pc' = [pc EXCEPT ![s] = "begin"]
       /\ attempt' = [attempt EXCEPT ![s] = @ + 1]
       /\ seen' = [seen EXCEPT ![s] = Null]
       /\ UNCHANGED <<row, routes, call>>
  ELSE Fail(s)

\* The row changed since the snapshot, or the database sees a conflict with another
\* serializable transaction, also one of those that are not modelled here.
SerializationFailure(s) ==
  /\ InTransaction(s) /\ ~Creating(s)
  /\ Retry(s)

DeadlockDetected(s) ==
  /\ \E C \in SUBSET Sessions : s \in C /\ Deadlocked(C)
  /\ Retry(s)

ConnectionLost(s) ==
  /\ pc[s] # "idle"
  /\ Fail(s)

-----------------------------------------------------------------------------
(* The statements *)

Goto(s, next) ==
  /\ pc' = [pc EXCEPT ![s] = next]
  /\ UNCHANGED <<row, routes, call, attempt, seen>>

\* The first statement starts: it takes the snapshot, then it waits for its row.
Begin(s) ==
  /\ pc[s] = "begin"
  /\ pc' = [pc EXCEPT ![s] = "first"]
  /\ seen' = IF Creating(s) THEN seen
             ELSE [seen EXCEPT ![s] = [row |-> row, routes |-> routes]]
  /\ UNCHANGED <<row, routes, call, attempt>>

\* create, SELECT ... FOR UPDATE of the driver, then of the vehicle: a row that is
\* not fit, or is no longer after the wait, is not found.
LockCrew(s) ==
  /\ pc[s] \in {"first", "second"} /\ Creating(s)
  /\ MayLock(s)
  /\ Fit(NextRow(s))
  /\ Goto(s, IF pc[s] = "first" THEN "second" ELSE "write")

\* ROUTE_ASSIGNMENT_INVALID, whatever the queries after it find.
RefuseCrew(s) ==
  /\ pc[s] \in {"first", "second"} /\ Creating(s)
  /\ MayLock(s)
  /\ ~Fit(NextRow(s))
  /\ Fail(s)

\* create, INSERT INTO route under its two partial unique indexes.
InsertRouteMutNoVehicleIndex(s) ==
  /\ pc[s] = "write" /\ Creating(s)
  /\ IF HasOpenRoute(routes, Asked(s).driver) THEN Fail(s) ELSE Goto(s, "audit")

InsertRoute(s) ==
  /\ pc[s] = "write" /\ Creating(s)
  /\ IF \E x \in Held(s) : HasOpenRoute(routes, x) THEN Fail(s) ELSE Goto(s, "audit")

\* update, SELECT ... FOR UPDATE of a row nobody changed since the snapshot.
LockTarget(s) ==
  /\ pc[s] = "first" /\ ~Creating(s)
  /\ MayLock(s)
  /\ row[Asked(s).target] = seen[s].row[Asked(s).target]
  /\ Goto(s, "write")

\* assertUserRouteChange: the change takes a driver off the road.
TakesDriverMutDeactivationOnly(q) == row[q.target].role = "DRIVER" /\ ~q.active

TakesDriver(q) == row[q.target].role = "DRIVER" /\ (~q.active \/ q.role # "DRIVER")

\* updateVehicle
TakesVehicle(q) == q.target \in Vehicles /\ ~q.active

\* The routes are those of the snapshot.
RouteAllows(s) ==
  TakesDriver(Asked(s)) \/ TakesVehicle(Asked(s))
    => ~HasOpenRoute(seen[s].routes, Asked(s).target)

\* update: the version check, the route check, UPDATE.
UpdateMutUnversioned(s) ==
  /\ pc[s] = "write" /\ ~Creating(s)
  /\ IF RouteAllows(s) THEN Goto(s, "audit") ELSE Fail(s)

Update(s) ==
  /\ pc[s] = "write" /\ ~Creating(s)
  /\ IF row[Asked(s).target].version = Asked(s).version /\ RouteAllows(s)
     THEN Goto(s, "audit")
     ELSE Fail(s)

\* AuditWriter.write locks the actor's row against changes.
WriteAudit(s) ==
  /\ pc[s] = "audit"
  /\ MayLock(s)
  /\ Goto(s, "commit")

Written(q) == [active |-> q.active, role |-> q.role, version |-> row[q.target].version + 1]
NewRoute(q) == [driver |-> q.driver, vehicle |-> q.vehicle, state |-> "OPEN"]

Commit(s) ==
  /\ pc[s] = "commit"
  /\ LET q == Asked(s)
     IN IF IsCreation(q)
        THEN routes' = Append(routes, NewRoute(q)) /\ UNCHANGED row
        ELSE row' = [row EXCEPT ![q.target] = Written(q)] /\ UNCHANGED routes
  /\ End(s)

\* RouteReconciliationService.close, which waits for none of these rows.
Close(i) ==
  /\ routes[i].state = "OPEN"
  /\ routes' = [routes EXCEPT ![i].state = "CLOSED"]
  /\ UNCHANGED <<row, pc, call, attempt, seen>>

-----------------------------------------------------------------------------
Init ==
  /\ row = [x \in Rows |->
              [ active |-> TRUE, version |-> 1,
                role |-> CASE x \in Admins -> "ADMINISTRATOR"
                           [] x \in Vehicles -> "VEHICLE"
                           [] OTHER -> "DRIVER" ]]
  /\ routes = <<>>
  /\ pc = [s \in Sessions |-> "idle"]
  /\ call = [s \in Sessions |-> Null]
  /\ attempt = [s \in Sessions |-> 0]
  /\ seen = [s \in Sessions |-> Null]

Step(s) ==
  \/ \E q \in Requests \cap Creations : CallCreate(s, q)
  \/ \E q \in Requests \cap Updates : CallUpdate(s, q)
  \/ Begin(s) \/ LockCrew(s) \/ RefuseCrew(s) \/ InsertRoute(s)
  \/ LockTarget(s) \/ Update(s) \/ WriteAudit(s) \/ Commit(s)
  \/ SerializationFailure(s) \/ DeadlockDetected(s) \/ ConnectionLost(s)

Next ==
  \/ \E s \in Sessions : Step(s)
  \/ \E i \in DOMAIN routes : Close(i)

Spec == Init /\ [][Next]_vars

-----------------------------------------------------------------------------
(* Properties *)

\* Type correctness, of the tables and of every request.
TypeOK ==
  /\ row \in [Rows -> RowRecord]
  /\ routes \in Seq(RouteRecord) /\ Len(routes) <= MaxRoutes
  /\ pc \in [Sessions -> {"idle", "begin", "first", "second", "write", "audit", "commit"}]
  /\ \A s \in Sessions :
       /\ call[s] \in {Null} \cup Calls
       /\ (call[s] = Null) <=> (pc[s] = "idle")
       /\ attempt[s] \in 0..MaxAttempts
       /\ seen[s] \in {Null} \cup Snapshots
       /\ (seen[s] # Null) <=> (InTransaction(s) /\ ~Creating(s))

\* A route is created only with a driver and a vehicle that are fit when it commits,
\* whatever administrators did while create waited or after it looked.
RoutesStartWithFitCrew ==
  [][\A i \in DOMAIN routes' \ DOMAIN routes : Fit(routes'[i].driver) /\ Fit(routes'[i].vehicle)]_vars

\* No driver and no vehicle ever has two open routes, with creations, closures and
\* changes of the crew overlapping.
CrewIsExclusive ==
  \A i, j \in DOMAIN routes, x \in Rows :
    IsOpenFor(routes[i], x) /\ IsOpenFor(routes[j], x) => i = j

\* A change of a user or vehicle replaces exactly the version its sender had read: of
\* administrators editing the same row at once, retries included, one succeeds.
NoUpdateIsLost ==
  [][\A x \in Rows : row'[x] # row[x] =>
       \E s \in Sessions :
         /\ call[s] # Null /\ ~Creating(s) /\ Asked(s).target = x
         /\ Asked(s).version = row[x].version
         /\ row'[x].version = row[x].version + 1]_vars

\* When a change takes the driver or vehicle of an open route away, that route was
\* created while the change was running: any older route makes it fail.
OnlyOverlapStrands ==
  [][\A x \in Rows, i \in DOMAIN routes :
       IsOpenFor(routes[i], x) /\ Fit(x) /\ ~Fit(x)' =>
         \E s \in Sessions :
           /\ pc[s] = "commit" /\ ~Creating(s) /\ Asked(s).target = x
           /\ i > Len(seen[s].routes)]_vars

\* Updates can deadlock (two administrators that edit each other do) and are retried.
\* create, which is not, deadlocks only when a route is given to an administrator
\* who was demoted to driver while a request of his own was still running.
CreationsHardlyDeadlock ==
  \A C \in SUBSET Sessions : Deadlocked(C) =>
    \/ \A s \in C : ~Creating(s)
    \/ \E s, t \in C : Creating(s) /\ Asked(t).actor = Asked(s).driver

\* The rule of data-model.md:44-45 and :187-188: nobody takes the driver or the vehicle
\* of an open route out of service.
OpenRoutesKeepCrew ==
  \A i \in DOMAIN routes :
    routes[i].state = "OPEN" => Fit(routes[i].driver) /\ Fit(routes[i].vehicle)
=============================================================================
