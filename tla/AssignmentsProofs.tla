-------------------------- MODULE AssignmentsProofs --------------------------
(***************************************************************************)
(* What Assignments.tla promises, for any users, vehicles, sessions,       *)
(* requests and bounds: crews are exclusive and fit, no update is lost.    *)
(*                                                                         *)
(* All of it rests on the row locks.  A session only relies on rows it     *)
(* holds, nobody else changes those or names them in a route it commits,   *)
(* so what it has checked stays true until it commits.                     *)
(***************************************************************************)
EXTENDS Assignments, SumTheorems, SequenceTheorems

-----------------------------------------------------------------------------
(* The inductive invariant *)

Steps == {"idle", "begin", "first", "second", "write", "audit", "commit"}
Checked(s) == pc[s] \in {"audit", "commit"}

Types ==
  /\ row \in [Rows -> RowRecord]
  /\ routes \in Seq(RouteRecord)
  /\ pc \in [Sessions -> Steps]
  /\ call \in [Sessions -> {Null} \cup Calls]
  /\ attempt \in [Sessions -> 0..MaxAttempts]
  /\ seen \in [Sessions -> {Null} \cup Snapshots]

\* Users keep the roles of users.
RolesFit == \A x \in Rows : row[x].role = "VEHICLE" <=> x \in Vehicles

\* What a session keeps belongs to its request and to the step it is at.
SessionShape(s) ==
  /\ call[s] = Null <=> pc[s] = "idle"
  /\ call[s] # Null => Asked(s) \in Requests /\ call[s].order \in LockOrders(Asked(s))
  /\ pc[s] = "second" => Creating(s)
  /\ seen[s] # Null <=> InTransaction(s) /\ ~Creating(s)

\* The row of a table of routes that i had, or was created with, in an earlier one.
Continues(old, new) ==
  /\ Len(old) <= Len(new)
  /\ \A i \in 1..Len(old) :
       /\ new[i].driver = old[i].driver /\ new[i].vehicle = old[i].vehicle
       /\ new[i].state = "OPEN" => old[i].state = "OPEN"

\* What a session checked of the rows it holds is so.
ChecksHold(s) ==
  /\ pc[s] # "idle" /\ Creating(s) =>
       \A x \in Held(s) : Fit(x) /\ (Checked(s) => ~HasOpenRoute(routes, x))
  /\ Checked(s) /\ ~Creating(s) =>
       row[Asked(s).target].version = Asked(s).version /\ RouteAllows(s)
  /\ seen[s] # Null => Continues(seen[s].routes, routes)

\* The rows a session holds are not held, and not shared, by another.
LocksExclude ==
  \A s, t \in Sessions : s # t => Held(s) \cap (Held(t) \cup Shared(t)) = {}

Busy == {s \in Sessions : pc[s] # "idle"}
Creators == {s \in Busy : Creating(s)}
Updaters == Busy \ Creators

\* Running requests have room for what they may commit.
Bounded ==
  /\ Len(routes) + Cardinality(Creators) <= MaxRoutes
  /\ Changes + Cardinality(Updaters) <= MaxChanges

IInv ==
  /\ Types /\ RolesFit
  /\ \A s \in Sessions : SessionShape(s) /\ ChecksHold(s)
  /\ LocksExclude
  /\ Bounded
  /\ CrewIsExclusive
-----------------------------------------------------------------------------
(* Requests and the rows they hold *)

\* The two kinds of requests are told apart.
LEMMA RequestKinds ==
  /\ \A q \in Creations : IsCreation(q) /\ q.driver \in Users /\ q.vehicle \in Vehicles
  /\ \A q \in Updates : ~IsCreation(q) /\ q.target \in Rows
BY DEF Creations, Updates, IsCreation

\* A session that is not idle serves a request it was sent.
LEMMA ServedRequest ==
  ASSUME Types, NEW s \in Sessions, SessionShape(s), pc[s] # "idle"
  PROVE  /\ call[s] \in Calls /\ Asked(s) \in Requests
         /\ Creating(s) => Asked(s) \in Creations
         /\ ~Creating(s) => Asked(s) \in Updates
<1>1. call[s] # Null /\ call[s] \in Calls /\ Asked(s) \in Requests
  BY DEF SessionShape, Types
<1>2. Asked(s) \in Creations \cup Updates
  BY <1>1, AssignmentsAssumption
<1> QED BY <1>1, <1>2, RequestKinds DEF Creating

\* The rows held at step p of call c.
HeldAt(p, c) ==
  CASE p = "second" -> {Head(c.order)}
    [] p \in {"write", "audit", "commit"} -> Range(c.order)
    [] OTHER -> {}

\* Held, before and after a step, depends on the step and the call only.
LEMMA HeldIs ==
  ASSUME NEW s
  PROVE  Held(s) = HeldAt(pc[s], call[s]) /\ Held(s)' = HeldAt(pc'[s], call'[s])
BY DEF Held, HeldAt

\* Nobody holds a row before the first lock, whatever the request.
LEMMA HoldsNothing ==
  ASSUME NEW c
  PROVE  \A p \in {"idle", "begin", "first"} : HeldAt(p, c) = {}
BY DEF HeldAt

\* create holds the driver, then the vehicle too.
LEMMA HeldByCreation ==
  ASSUME NEW c, c.request \in Creations, c.order \in LockOrders(c.request)
  PROVE  /\ HeldAt("second", c) = {c.request.driver}
         /\ \A p \in {"write", "audit", "commit"} :
              HeldAt(p, c) = {c.request.driver, c.request.vehicle}
         /\ c.order[1] = c.request.driver /\ c.order[2] = c.request.vehicle
<1>1. c.order = <<c.request.driver, c.request.vehicle>>
  BY RequestKinds DEF LockOrders
<1>2. Range(c.order) = {c.request.driver, c.request.vehicle}
  BY <1>1 DEF Range
<1>3. Head(c.order) = c.request.driver
  BY <1>1
<1> QED BY <1>1, <1>2, <1>3 DEF HeldAt

\* An update holds its target.
LEMMA HeldByUpdate ==
  ASSUME NEW c, c.request \in Updates, c.order \in LockOrders(c.request)
  PROVE  /\ \A p \in {"write", "audit", "commit"} : HeldAt(p, c) = {c.request.target}
         /\ c.order[1] = c.request.target
<1>1. c.order = <<c.request.target>>
  BY RequestKinds DEF LockOrders
<1>2. Range(c.order) = {c.request.target}
  BY <1>1 DEF Range
<1> QED BY <1>1, <1>2 DEF HeldAt

\* Which rows a session holds, by its request.
LEMMA HeldRows ==
  ASSUME Types, NEW s \in Sessions, SessionShape(s)
  PROVE  /\ pc[s] \in {"idle", "begin", "first"} => Held(s) = {}
         /\ pc[s] = "second" => Held(s) = {Asked(s).driver}
         /\ pc[s] \in {"write", "audit", "commit"} /\ Creating(s) =>
              Held(s) = {Asked(s).driver, Asked(s).vehicle}
         /\ pc[s] \in {"write", "audit", "commit"} /\ ~Creating(s) => Held(s) = {Asked(s).target}
<1>1. CASE pc[s] = "idle"
  BY <1>1, HeldIs, HoldsNothing
<1>2. CASE pc[s] # "idle"
  <2>1. /\ call[s].order \in LockOrders(call[s].request)
        /\ Creating(s) => call[s].request \in Creations
        /\ ~Creating(s) => call[s].request \in Updates
    BY <1>2, ServedRequest DEF SessionShape, Asked
  <2>2. Held(s) = HeldAt(pc[s], call[s])
    BY HeldIs
  <2>3. pc[s] = "second" => Creating(s)
    BY DEF SessionShape
  <2>4. CASE Creating(s)
    BY <2>1, <2>2, <2>4, HeldByCreation, HoldsNothing DEF Asked
  <2>5. CASE ~Creating(s)
    BY <2>1, <2>2, <2>3, <2>5, HeldByUpdate, HoldsNothing DEF Asked
  <2> QED BY <2>4, <2>5
<1> QED BY <1>1, <1>2

\* The row a request locks next.
LEMMA NextRows ==
  ASSUME Types, NEW s \in Sessions, SessionShape(s)
  PROVE  /\ pc[s] = "first" /\ Creating(s) => NextRow(s) = Asked(s).driver
         /\ pc[s] = "second" => NextRow(s) = Asked(s).vehicle
         /\ pc[s] = "first" /\ ~Creating(s) => NextRow(s) = Asked(s).target
<1>1. SUFFICES ASSUME pc[s] \in {"first", "second"} PROVE
         /\ pc[s] = "first" /\ Creating(s) => NextRow(s) = Asked(s).driver
         /\ pc[s] = "second" => NextRow(s) = Asked(s).vehicle
         /\ pc[s] = "first" /\ ~Creating(s) => NextRow(s) = Asked(s).target
  OBVIOUS
<1>2. /\ call[s].order \in LockOrders(call[s].request)
      /\ Creating(s) => call[s].request \in Creations
      /\ ~Creating(s) => call[s].request \in Updates
      /\ pc[s] = "second" => Creating(s)
  BY <1>1, ServedRequest DEF SessionShape, Asked
<1>3. CASE Creating(s)
  BY <1>1, <1>2, <1>3, HeldByCreation DEF Asked, NextRow
<1>4. CASE ~Creating(s)
  BY <1>1, <1>2, <1>4, HeldByUpdate DEF Asked, NextRow
<1> QED BY <1>3, <1>4

-----------------------------------------------------------------------------
(* What a step of one session means to the others *)

OthersStay(s) ==
  \A t \in Sessions \ {s} : pc'[t] = pc[t] /\ call'[t] = call[t] /\ seen'[t] = seen[t]

\* What a table of routes continues, the tables that continue it do.
LEMMA ContinuesOn ==
  ASSUME NEW a \in Seq(RouteRecord), NEW b \in Seq(RouteRecord), NEW c \in Seq(RouteRecord),
         Continues(a, b), Continues(b, c)
  PROVE  Continues(a, c)
<1>1. Len(a) \in Nat /\ Len(b) \in Nat /\ Len(c) \in Nat /\ Len(a) <= Len(b) /\ Len(b) <= Len(c)
  BY LenProperties DEF Continues
<1>2. ASSUME NEW i \in 1..Len(a)
      PROVE  /\ c[i].driver = a[i].driver /\ c[i].vehicle = a[i].vehicle
             /\ c[i].state = "OPEN" => a[i].state = "OPEN"
  <2>1. i \in 1..Len(b)
    BY <1>1
  <2> QED BY <2>1 DEF Continues
<1> QED BY <1>1, <1>2 DEF Continues

\* A table of routes continues itself.
LEMMA ContinuesItself ==
  ASSUME NEW a \in Seq(RouteRecord)
  PROVE  Continues(a, a)
BY LenProperties DEF Continues

\* A session that did not step keeps what it has checked, if the rows it holds are as they
\* were and no open route was added for them.
LEMMA OtherSession ==
  ASSUME Types, Types', NEW t \in Sessions, SessionShape(t), ChecksHold(t),
         pc'[t] = pc[t], call'[t] = call[t], seen'[t] = seen[t],
         Continues(routes, routes'),
         \A x \in Held(t) : row'[x] = row[x],
         \A x \in Held(t) : HasOpenRoute(routes', x) => HasOpenRoute(routes, x)
  PROVE  SessionShape(t)' /\ ChecksHold(t)'
<1>1. SessionShape(t)'
  BY DEF SessionShape, InTransaction, Creating, Asked
<1>2. Held(t)' = Held(t)
  BY HeldIs
<1>3. /\ (pc[t] # "idle" /\ Creating(t))' <=> (pc[t] # "idle" /\ Creating(t))
      /\ Checked(t)' <=> Checked(t)
      /\ Creating(t)' <=> Creating(t)
      /\ Asked(t)' = Asked(t)
  BY DEF Creating, Asked, Checked
<1>4. ASSUME pc[t] # "idle", Creating(t), NEW x \in Held(t)
      PROVE  Fit(x)' /\ (Checked(t) => ~HasOpenRoute(routes', x))
  <2>1. Fit(x) /\ (Checked(t) => ~HasOpenRoute(routes, x))
    BY <1>4 DEF ChecksHold
  <2> QED BY <2>1 DEF Fit
<1>5. ASSUME Checked(t), ~Creating(t)
      PROVE  row'[Asked(t).target].version = Asked(t).version /\ RouteAllows(t)'
  <2>1. Asked(t).target \in Held(t)
    BY <1>5, HeldRows DEF Checked
  <2>2. row[Asked(t).target].version = Asked(t).version /\ RouteAllows(t)
    BY <1>5 DEF ChecksHold
  <2>3. row'[Asked(t).target] = row[Asked(t).target]
    BY <2>1
  <2>4. RouteAllows(t)'
    BY <2>2, <2>3 DEF RouteAllows, TakesDriver, TakesVehicle, Asked
  <2> QED BY <2>2, <2>3, <2>4
<1>6. ASSUME seen[t] # Null PROVE Continues(seen[t].routes, routes')
  <2>1. seen[t].routes \in Seq(RouteRecord) /\ routes \in Seq(RouteRecord)
        /\ routes' \in Seq(RouteRecord)
    BY <1>6 DEF Types, Snapshots
  <2>2. Continues(seen[t].routes, routes)
    BY <1>6 DEF ChecksHold
  <2> QED BY <2>1, <2>2, ContinuesOn
<1>7. ChecksHold(t)'
  BY <1>2, <1>3, <1>4, <1>5, <1>6 DEF ChecksHold
<1> QED BY <1>1, <1>7

\* What session s may hold and share after its step.
KeepsOut(s) ==
  \A t \in Sessions \ {s} :
    /\ Held(s)' \cap (Held(t) \cup Shared(t)) = {}
    /\ Shared(s)' \cap Held(t) = {}

\* Locks stay exclusive when the one session that steps keeps out of the others' rows.
LEMMA LocksStayExclusive ==
  ASSUME LocksExclude, NEW s \in Sessions, OthersStay(s), KeepsOut(s)
  PROVE  LocksExclude'
<1>1. ASSUME NEW t \in Sessions \ {s} PROVE Held(t)' = Held(t) /\ Shared(t)' = Shared(t)
  BY HeldIs DEF OthersStay, Shared, Asked
<1>2. ASSUME NEW t \in Sessions, NEW u \in Sessions, t # u
      PROVE  Held(t)' \cap (Held(u)' \cup Shared(u)') = {}
  <2>1. CASE t = s
    BY <1>1, <1>2, <2>1 DEF KeepsOut
  <2>2. CASE u = s
    <3>1. Held(s)' \cap Held(t) = {} /\ Shared(s)' \cap Held(t) = {}
      BY <1>2, <2>2 DEF KeepsOut
    <3> QED BY <1>1, <1>2, <2>2, <3>1
  <2>3. CASE t # s /\ u # s
    <3>1. Held(t) \cap (Held(u) \cup Shared(u)) = {}
      BY <1>2 DEF LocksExclude
    <3> QED BY <1>1, <2>3, <3>1
  <2> QED BY <2>1, <2>2, <2>3
<1> QED BY <1>2 DEF LocksExclude

\* A step of a session that leaves the tables alone.
LEMMA QuietStep ==
  ASSUME IInv, Types', NEW s \in Sessions, UNCHANGED committed, OthersStay(s),
         SessionShape(s)', ChecksHold(s)', KeepsOut(s), Bounded'
  PROVE  IInv'
<1>1. routes' = routes /\ row' = row
  BY DEF committed
<1>2. Continues(routes, routes')
  BY <1>1, ContinuesItself DEF IInv, Types
<1>3. ASSUME NEW t \in Sessions \ {s} PROVE SessionShape(t)' /\ ChecksHold(t)'
  BY <1>1, <1>2, OtherSession DEF IInv, OthersStay
<1>4. LocksExclude'
  BY LocksStayExclusive DEF IInv
<1>5. RolesFit' /\ CrewIsExclusive'
  BY <1>1 DEF IInv, RolesFit, CrewIsExclusive
<1> QED BY <1>3, <1>4, <1>5 DEF IInv

-----------------------------------------------------------------------------
(* Steps of a request that change no table *)

\* A request that goes on, or ends without a commit, takes no more room.
LEMMA QuietBounds ==
  ASSUME IInv, NEW s \in Sessions, UNCHANGED committed, OthersStay(s), pc[s] # "idle",
         pc'[s] = "idle" \/ call'[s] = call[s]
  PROVE  Bounded'
<1>1. routes' = routes /\ row' = row /\ Changes' = Changes
  BY DEF committed, Changes
<1>2. Creators' \subseteq Creators /\ Updaters' \subseteq Updaters
  BY DEF OthersStay, Creators, Updaters, Busy, Creating, Asked
<1>3. IsFiniteSet(Creators) /\ IsFiniteSet(Updaters)
  <2>1. IsFiniteSet(Sessions) /\ Creators \subseteq Sessions /\ Updaters \subseteq Sessions
    BY AssignmentsAssumption DEF Creators, Updaters, Busy
  <2> QED BY <2>1, FS_Subset
<1>4. /\ Cardinality(Creators') <= Cardinality(Creators)
      /\ Cardinality(Updaters') <= Cardinality(Updaters)
      /\ Cardinality(Creators') \in Nat /\ Cardinality(Updaters') \in Nat
      /\ Cardinality(Creators) \in Nat /\ Cardinality(Updaters) \in Nat
  BY <1>2, <1>3, FS_Subset, FS_CardinalityType
<1>5. Len(routes) \in Nat /\ Changes \in Int /\ MaxRoutes \in Nat /\ MaxChanges \in Nat
  <2>1. IsFiniteSet(Rows)
    BY AssignmentsAssumption, FS_Union DEF Rows
  <2>2. \A x \in Rows : [y \in Rows |-> row[y].version - 1][x] \in Int
    BY DEF IInv, Types, RowRecord
  <2>3. Changes \in Int
    BY <2>1, <2>2, SumInt DEF Changes
  <2> QED BY <2>3, AssignmentsAssumption, LenProperties DEF IInv, Types
<1>6. Len(routes) + Cardinality(Creators') <= MaxRoutes
  BY <1>4, <1>5 DEF IInv, Bounded
<1>7. Changes + Cardinality(Updaters') <= MaxChanges
  BY <1>4, <1>5 DEF IInv, Bounded
<1> QED BY <1>1, <1>6, <1>7 DEF Bounded

\* Nothing a session without rows does is in the way of others.
LEMMA NothingHeld ==
  ASSUME NEW s, pc'[s] \in {"idle", "begin", "first"}
  PROVE  KeepsOut(s) /\ Held(s)' = {}
<1>1. Held(s)' = {}
  BY HeldIs, HoldsNothing
<1>2. Shared(s)' = {}
  BY DEF Shared
<1> QED BY <1>1, <1>2 DEF KeepsOut

\* A request that ends without a commit leaves everything as it was.
LEMMA FailKeeps ==
  ASSUME IInv, NEW s \in Sessions, pc[s] # "idle", Fail(s)
  PROVE  IInv'
<1>1. Types'
  BY AssignmentsAssumption DEF IInv, Types, Steps, Fail, End, committed
<1>2. /\ UNCHANGED committed /\ OthersStay(s)
      /\ pc'[s] = "idle" /\ call'[s] = Null /\ seen'[s] = Null
  BY DEF IInv, Types, Fail, End, OthersStay
<1>3. SessionShape(s)' /\ ChecksHold(s)'
  BY <1>2 DEF SessionShape, ChecksHold, Checked, InTransaction
<1>4. KeepsOut(s)
  BY <1>2, NothingHeld
<1>5. Bounded'
  BY <1>2, QuietBounds
<1> QED BY <1>1, <1>2, <1>3, <1>4, <1>5, QuietStep

\* A transaction that starts again has forgotten what it had.
LEMMA RetryKeeps ==
  ASSUME IInv, NEW s \in Sessions, pc[s] # "idle", Retry(s)
  PROVE  IInv'
<1>1. CASE Fail(s)
  BY <1>1, FailKeeps
<1>2. CASE ~Fail(s)
  <2>1. /\ attempt[s] < MaxAttempts /\ ~Creating(s)
        /\ pc' = [pc EXCEPT ![s] = "begin"]
        /\ attempt' = [attempt EXCEPT ![s] = @ + 1]
        /\ seen' = [seen EXCEPT ![s] = Null]
        /\ UNCHANGED <<row, routes, call>>
    BY <1>2 DEF Retry
  <2>2. attempt[s] + 1 \in 0..MaxAttempts
    BY <2>1, AssignmentsAssumption DEF IInv, Types
  <2>3. Types'
    BY <2>1, <2>2 DEF IInv, Types, Steps
  <2>4. /\ UNCHANGED committed /\ OthersStay(s)
        /\ pc'[s] = "begin" /\ call'[s] = call[s] /\ seen'[s] = Null
    BY <2>1 DEF IInv, Types, OthersStay, committed
  <2>5. SessionShape(s)'
    BY <2>4 DEF IInv, SessionShape, InTransaction, Creating, Asked
  <2>6. KeepsOut(s) /\ Held(s)' = {}
    BY <2>4, NothingHeld
  <2>7. ChecksHold(s)'
    BY <2>4, <2>6 DEF ChecksHold, Checked
  <2>8. Bounded'
    BY <2>4, QuietBounds
  <2> QED BY <2>3, <2>4, <2>5, <2>6, <2>7, <2>8, QuietStep
<1> QED BY <1>1, <1>2

\* The first statement takes the snapshot, which the tables continue.
LEMMA BeginKeeps ==
  ASSUME IInv, NEW s \in Sessions, Begin(s)
  PROVE  IInv'
<1>1. /\ UNCHANGED committed /\ OthersStay(s) /\ pc[s] = "begin"
      /\ pc'[s] = "first" /\ call'[s] = call[s]
      /\ pc' = [pc EXCEPT ![s] = "first"] /\ UNCHANGED <<call, attempt>>
  BY DEF IInv, Types, Begin, OthersStay, committed
<1>2. CASE Creating(s)
  <2>1. seen' = seen /\ seen'[s] = Null
    BY <1>1, <1>2 DEF IInv, SessionShape, InTransaction, Begin
  <2>2. Types'
    BY <1>1, <2>1 DEF IInv, Types, Steps, committed
  <2>3. SessionShape(s)'
    BY <1>1, <1>2, <2>1 DEF IInv, SessionShape, InTransaction, Creating, Asked
  <2>4. KeepsOut(s) /\ Held(s)' = {}
    BY <1>1, NothingHeld
  <2>5. ChecksHold(s)'
    BY <1>1, <2>1, <2>4 DEF ChecksHold, Checked
  <2>6. Bounded'
    BY <1>1, QuietBounds
  <2> QED BY <1>1, <2>2, <2>3, <2>4, <2>5, <2>6, QuietStep
<1>3. CASE ~Creating(s)
  <2> DEFINE snapshot == [row |-> row, routes |-> routes]
  <2>1. snapshot \in Snapshots /\ snapshot # Null /\ snapshot.routes = routes
    BY AssignmentsAssumption DEF IInv, Types, Snapshots
  <2>2. seen' = [seen EXCEPT ![s] = snapshot] /\ seen'[s] = snapshot
    BY <1>3 DEF Begin, IInv, Types
  <2> HIDE DEF snapshot
  <2>3. Types'
    BY <1>1, <2>1, <2>2 DEF IInv, Types, Steps, committed
  <2>4. SessionShape(s)'
    BY <1>1, <1>3, <2>1, <2>2 DEF IInv, SessionShape, InTransaction, Creating, Asked
  <2>5. KeepsOut(s) /\ Held(s)' = {}
    BY <1>1, NothingHeld
  <2>6. Continues(seen'[s].routes, routes')
    BY <1>1, <2>1, <2>2, ContinuesItself DEF IInv, Types, committed
  <2>7. ChecksHold(s)'
    BY <1>1, <2>5, <2>6 DEF ChecksHold, Checked
  <2>8. Bounded'
    BY <1>1, QuietBounds
  <2> QED BY <1>1, <2>3, <2>4, <2>5, <2>7, <2>8, QuietStep
<1> QED BY <1>2, <1>3

\* A statement that succeeds: the request goes on to its next step.
LEMMA GotoShape ==
  ASSUME IInv, NEW s \in Sessions, InTransaction(s), NEW next, Goto(s, next),
         next \in {"second", "write", "audit", "commit"}, next = "second" => Creating(s)
  PROVE  /\ Types' /\ SessionShape(s)' /\ Bounded'
         /\ UNCHANGED committed /\ OthersStay(s)
         /\ row' = row /\ routes' = routes
         /\ pc'[s] = next /\ call'[s] = call[s] /\ seen'[s] = seen[s]
         /\ Asked(s)' = Asked(s) /\ (Creating(s)' <=> Creating(s))
<1>1. /\ UNCHANGED committed /\ OthersStay(s) /\ row' = row /\ routes' = routes
      /\ pc'[s] = next /\ call'[s] = call[s] /\ seen'[s] = seen[s]
      /\ pc' = [pc EXCEPT ![s] = next] /\ UNCHANGED <<call, attempt, seen>>
  BY DEF IInv, Types, Goto, OthersStay, committed
<1>2. Types'
  BY <1>1 DEF IInv, Types, Steps
<1>3. Asked(s)' = Asked(s) /\ (Creating(s)' <=> Creating(s))
  BY <1>1 DEF Asked, Creating
<1>4. pc[s] # "idle"
  BY DEF InTransaction
<1>5. SessionShape(s)'
  BY <1>1, <1>3, <1>4 DEF IInv, SessionShape, InTransaction, Asked
<1>6. Bounded'
  BY <1>1, <1>4, QuietBounds
<1> QED BY <1>1, <1>2, <1>3, <1>5, <1>6

\* A row that is free stays out of the others' way.
LEMMA LockedIsFree ==
  ASSUME IInv, NEW s \in Sessions, pc[s] \in {"first", "second"}, MayLock(s),
         pc'[s] # "commit", Held(s)' \subseteq Held(s) \cup {NextRow(s)}
  PROVE  KeepsOut(s)
<1>1. ASSUME NEW t \in Sessions \ {s}
      PROVE  Held(s)' \cap (Held(t) \cup Shared(t)) = {}
  <2>1. ~WaitsFor(s, t)
    BY DEF MayLock
  <2>2. NextRow(s) \notin Held(t) \cup Shared(t)
    BY <2>1 DEF WaitsFor
  <2>3. Held(s) \cap (Held(t) \cup Shared(t)) = {}
    BY DEF IInv, LocksExclude
  <2> QED BY <2>2, <2>3
<1>2. Shared(s)' = {}
  BY DEF Shared
<1> QED BY <1>1, <1>2 DEF KeepsOut

\* Locks a session keeps stay out of the others' way.
LEMMA LockedStays ==
  ASSUME IInv, NEW s \in Sessions, pc'[s] # "commit", Held(s)' \subseteq Held(s)
  PROVE  KeepsOut(s)
<1>1. Shared(s)' = {}
  BY DEF Shared
<1>2. ASSUME NEW t \in Sessions \ {s} PROVE Held(s) \cap (Held(t) \cup Shared(t)) = {}
  BY DEF IInv, LocksExclude
<1> QED BY <1>1, <1>2 DEF KeepsOut

\* create has the driver, then the vehicle, and found them fit.
LEMMA LockCrewKeeps ==
  ASSUME IInv, NEW s \in Sessions, LockCrew(s)
  PROVE  IInv'
<1> DEFINE next == IF pc[s] = "first" THEN "second" ELSE "write"
<1>1. /\ Creating(s) /\ MayLock(s) /\ Fit(NextRow(s)) /\ Goto(s, next)
      /\ pc[s] \in {"first", "second"} /\ InTransaction(s)
      /\ next \in {"second", "write"} /\ (next = "second" <=> pc[s] = "first")
  BY DEF LockCrew, InTransaction
<1> HIDE DEF next
<1>2. /\ Types' /\ SessionShape(s)' /\ Bounded'
      /\ UNCHANGED committed /\ OthersStay(s)
      /\ row' = row /\ pc'[s] = next /\ call'[s] = call[s] /\ seen'[s] = seen[s]
      /\ routes' = routes
      /\ Asked(s)' = Asked(s) /\ Creating(s)'
  BY <1>1, GotoShape
<1>3. /\ Asked(s) \in Creations /\ call[s].request \in Creations
      /\ call[s].order \in LockOrders(call[s].request)
  BY <1>1, ServedRequest DEF IInv, SessionShape, Asked
<1>4. /\ next = "second" => HeldAt(next, call[s]) = {Asked(s).driver}
      /\ next = "write" => HeldAt(next, call[s]) = {Asked(s).driver, Asked(s).vehicle}
  BY <1>3, HeldByCreation DEF Asked
<1>5. Held(s)' = HeldAt(next, call[s])
  BY <1>2, HeldIs
<1>6. /\ pc[s] = "first" => Held(s) = {} /\ NextRow(s) = Asked(s).driver
      /\ pc[s] = "second" => Held(s) = {Asked(s).driver} /\ NextRow(s) = Asked(s).vehicle
  BY <1>1, HeldRows, NextRows DEF IInv
<1>7. Held(s)' = Held(s) \cup {NextRow(s)}
  BY <1>1, <1>4, <1>5, <1>6
<1>8. KeepsOut(s)
  BY <1>1, <1>2, <1>7, LockedIsFree
<1>9. \A x \in Held(s)' : Fit(x)'
  <2>1. \A x \in Held(s) : Fit(x)
    BY <1>1 DEF IInv, ChecksHold
  <2> QED BY <1>1, <1>2, <1>7, <2>1 DEF Fit
<1>10. ~Checked(s)' /\ seen'[s] = Null
  BY <1>1, <1>2 DEF Checked, IInv, SessionShape
<1>11. ChecksHold(s)'
  BY <1>9, <1>10 DEF ChecksHold
<1> QED BY <1>2, <1>8, <1>11, QuietStep

\* The open routes of the crew were looked for under both locks.
LEMMA InsertRouteKeeps ==
  ASSUME IInv, NEW s \in Sessions, InsertRoute(s)
  PROVE  IInv'
<1>1. pc[s] = "write" /\ Creating(s) /\ pc[s] # "idle" /\ InTransaction(s)
  BY DEF InsertRoute, InTransaction
<1>2. CASE \E x \in Held(s) : HasOpenRoute(routes, x)
  <2>1. Fail(s)
    BY <1>2 DEF InsertRoute
  <2> QED BY <1>1, <2>1, FailKeeps
<1>3. CASE \A x \in Held(s) : ~HasOpenRoute(routes, x)
  <2>1. Goto(s, "audit")
    BY <1>3 DEF InsertRoute
  <2>2. /\ Types' /\ SessionShape(s)' /\ Bounded'
        /\ UNCHANGED committed /\ OthersStay(s)
        /\ row' = row /\ routes' = routes
        /\ pc'[s] = "audit" /\ call'[s] = call[s] /\ seen'[s] = seen[s]
        /\ Asked(s)' = Asked(s) /\ Creating(s)'
    BY <1>1, <2>1, GotoShape
  <2>3. Held(s)' = Held(s)
    BY <1>1, <2>2, HeldIs DEF HeldAt
  <2>4. KeepsOut(s)
    BY <2>2, <2>3, LockedStays
  <2>5. \A x \in Held(s)' : Fit(x)' /\ ~HasOpenRoute(routes', x)
    <3>1. \A x \in Held(s) : Fit(x)
      BY <1>1 DEF IInv, ChecksHold
    <3> QED BY <1>3, <2>2, <2>3, <3>1 DEF Fit
  <2>6. seen'[s] = Null
    BY <1>1, <2>2 DEF IInv, SessionShape
  <2>7. ChecksHold(s)'
    BY <2>2, <2>5, <2>6 DEF ChecksHold
  <2> QED BY <2>2, <2>4, <2>7, QuietStep
<1> QED BY <1>2, <1>3

\* update has its target.
LEMMA LockTargetKeeps ==
  ASSUME IInv, NEW s \in Sessions, LockTarget(s)
  PROVE  IInv'
<1>1. /\ pc[s] = "first" /\ ~Creating(s) /\ MayLock(s) /\ Goto(s, "write")
      /\ InTransaction(s) /\ pc[s] # "idle"
  BY DEF LockTarget, InTransaction
<1>2. /\ Types' /\ SessionShape(s)' /\ Bounded'
      /\ UNCHANGED committed /\ OthersStay(s)
      /\ row' = row /\ routes' = routes
      /\ pc'[s] = "write" /\ call'[s] = call[s] /\ seen'[s] = seen[s]
      /\ Asked(s)' = Asked(s) /\ ~Creating(s)'
  BY <1>1, GotoShape
<1>3. call[s].request \in Updates /\ call[s].order \in LockOrders(call[s].request)
  BY <1>1, ServedRequest DEF IInv, SessionShape, Asked
<1>4. Held(s)' = {NextRow(s)}
  <2>1. Held(s)' = HeldAt("write", call[s])
    BY <1>2, HeldIs
  <2>2. NextRow(s) = Asked(s).target
    BY <1>1, NextRows DEF IInv
  <2> QED BY <1>3, <2>1, <2>2, HeldByUpdate DEF Asked
<1>5. KeepsOut(s)
  BY <1>1, <1>2, <1>4, LockedIsFree
<1>6. ~Checked(s)' /\ (seen[s] # Null => Continues(seen'[s].routes, routes'))
  BY <1>2 DEF Checked, IInv, ChecksHold
<1>7. ChecksHold(s)'
  BY <1>2, <1>6 DEF ChecksHold
<1> QED BY <1>2, <1>5, <1>7, QuietStep

\* The version and the routes were checked of the row update holds.
LEMMA UpdateKeeps ==
  ASSUME IInv, NEW s \in Sessions, Update(s)
  PROVE  IInv'
<1>1. pc[s] = "write" /\ ~Creating(s) /\ pc[s] # "idle" /\ InTransaction(s)
  BY DEF Update, InTransaction
<1>2. CASE ~(row[Asked(s).target].version = Asked(s).version /\ RouteAllows(s))
  <2>1. Fail(s)
    BY <1>2 DEF Update
  <2> QED BY <1>1, <2>1, FailKeeps
<1>3. CASE row[Asked(s).target].version = Asked(s).version /\ RouteAllows(s)
  <2>1. Goto(s, "audit")
    BY <1>3 DEF Update
  <2>2. /\ Types' /\ SessionShape(s)' /\ Bounded'
        /\ UNCHANGED committed /\ OthersStay(s)
        /\ row' = row /\ routes' = routes
        /\ pc'[s] = "audit" /\ call'[s] = call[s] /\ seen'[s] = seen[s]
        /\ Asked(s)' = Asked(s) /\ ~Creating(s)'
    BY <1>1, <2>1, GotoShape
  <2>3. Held(s)' = Held(s)
    BY <1>1, <2>2, HeldIs DEF HeldAt
  <2>4. KeepsOut(s)
    BY <2>2, <2>3, LockedStays
  <2>5. row'[Asked(s).target].version = Asked(s).version /\ RouteAllows(s)'
    BY <1>3, <2>2 DEF RouteAllows, TakesDriver, TakesVehicle
  <2>6. seen'[s] # Null => Continues(seen'[s].routes, routes')
    BY <2>2 DEF IInv, ChecksHold
  <2>7. ChecksHold(s)'
    BY <2>2, <2>5, <2>6 DEF ChecksHold
  <2> QED BY <2>2, <2>4, <2>7, QuietStep
<1> QED BY <1>2, <1>3

\* The audit entry shares the actor's row, which nobody else holds.
LEMMA WriteAuditKeeps ==
  ASSUME IInv, NEW s \in Sessions, WriteAudit(s)
  PROVE  IInv'
<1>1. pc[s] = "audit" /\ MayLock(s) /\ Goto(s, "commit") /\ InTransaction(s) /\ pc[s] # "idle"
  BY DEF WriteAudit, InTransaction
<1>2. /\ Types' /\ SessionShape(s)' /\ Bounded'
      /\ UNCHANGED committed /\ OthersStay(s)
      /\ row' = row /\ routes' = routes
      /\ pc'[s] = "commit" /\ call'[s] = call[s] /\ seen'[s] = seen[s]
      /\ Asked(s)' = Asked(s) /\ (Creating(s)' <=> Creating(s))
  BY <1>1, GotoShape
<1>3. Held(s)' = Held(s)
  BY <1>1, <1>2, HeldIs DEF HeldAt
<1>4. KeepsOut(s)
  <2>1. Shared(s)' = {Asked(s).actor}
    BY <1>2 DEF Shared
  <2>2. ASSUME NEW t \in Sessions \ {s}
        PROVE  Asked(s).actor \notin Held(t) /\ Held(s) \cap (Held(t) \cup Shared(t)) = {}
    BY <1>1 DEF MayLock, WaitsFor, IInv, LocksExclude
  <2> QED BY <1>3, <2>1, <2>2 DEF KeepsOut
<1>5. Checked(s)
  BY <1>1 DEF Checked
<1>6. ASSUME Creating(s), NEW x \in Held(s)
      PROVE  Fit(x)' /\ ~HasOpenRoute(routes', x)
  <2>1. Fit(x) /\ ~HasOpenRoute(routes, x)
    BY <1>1, <1>5, <1>6 DEF IInv, ChecksHold
  <2> QED BY <1>2, <2>1 DEF Fit
<1>7. ASSUME ~Creating(s)
      PROVE  row'[Asked(s).target].version = Asked(s).version /\ RouteAllows(s)'
  <2>1. row[Asked(s).target].version = Asked(s).version /\ RouteAllows(s)
    BY <1>5, <1>7 DEF IInv, ChecksHold
  <2> QED BY <1>2, <2>1 DEF RouteAllows, TakesDriver, TakesVehicle
<1>8. seen'[s] # Null => Continues(seen'[s].routes, routes')
  BY <1>2 DEF IInv, ChecksHold
<1>9. ChecksHold(s)'
  BY <1>2, <1>3, <1>6, <1>7, <1>8 DEF ChecksHold
<1> QED BY <1>2, <1>4, <1>9, QuietStep

\* A request that starts, with room for what it may commit.
LEMMA CallShape ==
  ASSUME IInv, NEW s \in Sessions, NEW q \in Requests, Call(s, q)
  PROVE  /\ Types' /\ SessionShape(s)' /\ ChecksHold(s)' /\ KeepsOut(s)
         /\ UNCHANGED committed /\ OthersStay(s) /\ row' = row /\ routes' = routes
         /\ pc[s] = "idle" /\ pc'[s] = "begin" /\ Asked(s)' = q
<1>1. PICK order \in LockOrders(q) :
        call' = [call EXCEPT ![s] = [request |-> q, order |-> order]]
  BY DEF Call
<1> DEFINE c == [request |-> q, order |-> order]
<1>2. c.request = q /\ c.order = order
  OBVIOUS
<1>3. q \in Creations \cup Updates
  BY AssignmentsAssumption
<1>4. order \in Seq(Rows)
  <2>1. CASE IsCreation(q)
    <3>1. q.driver \in Rows /\ q.vehicle \in Rows
      BY <1>3, <2>1, RequestKinds DEF Rows
    <3>2. order = <<q.driver, q.vehicle>>
      BY <2>1 DEF LockOrders
    <3> QED BY <3>1, <3>2
  <2>2. CASE ~IsCreation(q)
    <3>1. q.target \in Rows
      BY <1>3, <2>2, RequestKinds
    <3>2. order = <<q.target>>
      BY <2>2 DEF LockOrders
    <3> QED BY <3>1, <3>2
  <2> QED BY <2>1, <2>2
<1>5. c \in Calls /\ c # Null
  BY <1>3, <1>4, AssignmentsAssumption DEF Calls
<1> HIDE DEF c
<1>6. /\ UNCHANGED committed /\ OthersStay(s) /\ row' = row /\ routes' = routes
      /\ pc[s] = "idle" /\ pc'[s] = "begin" /\ seen'[s] = seen[s] /\ call'[s] = c
      /\ pc' = [pc EXCEPT ![s] = "begin"] /\ attempt' = [attempt EXCEPT ![s] = 1]
      /\ call' = [call EXCEPT ![s] = c] /\ seen' = seen
  BY <1>1 DEF c, IInv, Types, Call, OthersStay, committed
<1>7. Types'
  <2>1. 1 \in 0..MaxAttempts
    BY AssignmentsAssumption
  <2> QED BY <1>5, <1>6, <2>1 DEF IInv, Types, Steps
<1>8. seen'[s] = Null
  BY <1>6 DEF IInv, SessionShape, InTransaction
<1>9. Asked(s)' = q
  BY <1>2, <1>6 DEF Asked
<1>10. SessionShape(s)'
  BY <1>2, <1>5, <1>6, <1>8, <1>9 DEF SessionShape, InTransaction
<1>11. KeepsOut(s) /\ Held(s)' = {}
  BY <1>6, NothingHeld
<1>12. ChecksHold(s)'
  BY <1>6, <1>8, <1>11 DEF ChecksHold, Checked
<1> QED BY <1>6, <1>7, <1>9, <1>10, <1>11, <1>12

\* Types of the counts that bound requests.
LEMMA Counts ==
  ASSUME Types
  PROVE  /\ IsFiniteSet(Creators) /\ IsFiniteSet(Updaters) /\ IsFiniteSet(Busy)
         /\ Cardinality(Creators) \in Nat /\ Cardinality(Updaters) \in Nat
         /\ Cardinality(Busy) \in Nat /\ Running = Cardinality(Busy)
         /\ Cardinality(Creators) <= Cardinality(Busy)
         /\ Cardinality(Updaters) <= Cardinality(Busy)
         /\ Len(routes) \in Nat /\ Changes \in Int /\ IsFiniteSet(Rows)
         /\ \A x \in Rows : [y \in Rows |-> row[y].version - 1][x] \in Nat
<1>1. Creators \subseteq Busy /\ Updaters \subseteq Busy /\ Busy \subseteq Sessions
  BY DEF Creators, Updaters, Busy
<1>2. IsFiniteSet(Busy) /\ IsFiniteSet(Creators) /\ IsFiniteSet(Updaters)
  BY <1>1, FS_Subset, AssignmentsAssumption
<1>3. /\ Cardinality(Creators) <= Cardinality(Busy)
      /\ Cardinality(Updaters) <= Cardinality(Busy)
  BY <1>1, <1>2, FS_Subset
<1>4. Cardinality(Creators) \in Nat /\ Cardinality(Updaters) \in Nat /\ Cardinality(Busy) \in Nat
  BY <1>2, FS_CardinalityType
<1>5. IsFiniteSet(Rows)
  BY AssignmentsAssumption, FS_Union DEF Rows
<1>6. \A x \in Rows : [y \in Rows |-> row[y].version - 1][x] \in Nat
  BY DEF Types, RowRecord
<1>7. Changes \in Int
  BY <1>5, <1>6, SumInt DEF Changes
<1> QED BY <1>2, <1>3, <1>4, <1>5, <1>6, <1>7, LenProperties DEF Types, Running, Busy

\* A creation starts with room for its route.
LEMMA CallCreateKeeps ==
  ASSUME IInv, NEW s \in Sessions, NEW q \in Requests \cap Creations, CallCreate(s, q)
  PROVE  IInv'
<1>1. /\ Types' /\ SessionShape(s)' /\ ChecksHold(s)' /\ KeepsOut(s)
      /\ UNCHANGED committed /\ OthersStay(s) /\ row' = row /\ routes' = routes
      /\ pc[s] = "idle" /\ pc'[s] = "begin" /\ Asked(s)' = q
  BY CallShape DEF CallCreate
<1>2. Creators' = Creators \cup {s} /\ Updaters' = Updaters /\ s \notin Creators
  <2>1. Creating(s)'
    BY <1>1, RequestKinds DEF Creating
  <2> QED BY <1>1, <2>1 DEF OthersStay, Creators, Updaters, Busy, Creating, Asked
<1>3. Cardinality(Creators') = Cardinality(Creators) + 1
  BY <1>2, Counts, FS_AddElement DEF IInv
<1>4. Len(routes) + Cardinality(Busy) < MaxRoutes
  BY Counts DEF CallCreate, IInv
<1>5. Len(routes) + Cardinality(Creators') <= MaxRoutes
  BY <1>3, <1>4, Counts, AssignmentsAssumption DEF IInv
<1>6. Changes' = Changes
  BY <1>1 DEF Changes
<1>7. Bounded'
  BY <1>1, <1>2, <1>5, <1>6 DEF IInv, Bounded
<1> QED BY <1>1, <1>7, QuietStep

\* An update starts with room for its change.
LEMMA CallUpdateKeeps ==
  ASSUME IInv, NEW s \in Sessions, NEW q \in Requests \cap Updates, CallUpdate(s, q)
  PROVE  IInv'
<1>1. /\ Types' /\ SessionShape(s)' /\ ChecksHold(s)' /\ KeepsOut(s)
      /\ UNCHANGED committed /\ OthersStay(s) /\ row' = row /\ routes' = routes
      /\ pc[s] = "idle" /\ pc'[s] = "begin" /\ Asked(s)' = q
  BY CallShape DEF CallUpdate
<1>2. Updaters' = Updaters \cup {s} /\ Creators' = Creators /\ s \notin Updaters
  <2>1. ~Creating(s)'
    BY <1>1, RequestKinds DEF Creating
  <2> QED BY <1>1, <2>1 DEF OthersStay, Creators, Updaters, Busy, Creating, Asked
<1>3. Cardinality(Updaters') = Cardinality(Updaters) + 1
  BY <1>2, Counts, FS_AddElement DEF IInv
<1>4. Changes + Cardinality(Busy) < MaxChanges
  BY Counts DEF CallUpdate, IInv
<1>5. Changes + Cardinality(Updaters') <= MaxChanges
  BY <1>3, <1>4, Counts, AssignmentsAssumption DEF IInv
<1>6. Changes' = Changes
  BY <1>1 DEF Changes
<1>7. Bounded'
  BY <1>1, <1>2, <1>5, <1>6 DEF IInv, Bounded
<1> QED BY <1>1, <1>7, QuietStep

-----------------------------------------------------------------------------
(* Steps that change a table *)

\* A session that ends leaves nothing behind.
LEMMA EndShape ==
  ASSUME IInv, NEW s \in Sessions, pc[s] # "idle", End(s)
  PROVE  /\ SessionShape(s)' /\ ChecksHold(s)' /\ KeepsOut(s) /\ OthersStay(s)
         /\ pc' \in [Sessions -> Steps]
         /\ call' \in [Sessions -> {Null} \cup Calls]
         /\ attempt' \in [Sessions -> 0..MaxAttempts]
         /\ seen' \in [Sessions -> {Null} \cup Snapshots]
         /\ pc'[s] = "idle"
         /\ Creators' = Creators \ {s} /\ Updaters' = Updaters \ {s}
<1>1. OthersStay(s) /\ pc'[s] = "idle" /\ call'[s] = Null /\ seen'[s] = Null
  BY DEF IInv, Types, End, OthersStay
<1>2. SessionShape(s)' /\ ChecksHold(s)'
  BY <1>1 DEF SessionShape, ChecksHold, Checked, InTransaction
<1>3. KeepsOut(s)
  BY <1>1, NothingHeld
<1>4. /\ pc' \in [Sessions -> Steps]
      /\ call' \in [Sessions -> {Null} \cup Calls]
      /\ attempt' \in [Sessions -> 0..MaxAttempts]
      /\ seen' \in [Sessions -> {Null} \cup Snapshots]
  BY AssignmentsAssumption DEF IInv, Types, Steps, End
<1>5. Creators' = Creators \ {s} /\ Updaters' = Updaters \ {s}
  BY <1>1 DEF OthersStay, Creators, Updaters, Busy, Creating, Asked
<1> QED BY <1>1, <1>2, <1>3, <1>4, <1>5

\* A commit of session s, when it changes nothing the others hold.
LEMMA TableStep ==
  ASSUME IInv, NEW s \in Sessions, Types', RolesFit', OthersStay(s), SessionShape(s)',
         ChecksHold(s)', KeepsOut(s), Bounded', CrewIsExclusive', Continues(routes, routes'),
         \A x : (\E t \in Sessions \ {s} : x \in Held(t)) =>
           row'[x] = row[x] /\ (HasOpenRoute(routes', x) => HasOpenRoute(routes, x))
  PROVE  IInv'
<1>1. ASSUME NEW t \in Sessions \ {s} PROVE SessionShape(t)' /\ ChecksHold(t)'
  <2>1. /\ \A x \in Held(t) : row'[x] = row[x]
        /\ \A x \in Held(t) : HasOpenRoute(routes', x) => HasOpenRoute(routes, x)
    OBVIOUS
  <2>2. Types /\ SessionShape(t) /\ ChecksHold(t)
    BY DEF IInv
  <2>3. pc'[t] = pc[t] /\ call'[t] = call[t] /\ seen'[t] = seen[t]
    BY DEF OthersStay
  <2> QED BY <2>1, <2>2, <2>3, OtherSession
<1>2. LocksExclude'
  BY LocksStayExclusive DEF IInv
<1> QED BY <1>1, <1>2 DEF IInv

\* The rows of a session that commits are nobody else's.
LEMMA OwnRows ==
  ASSUME IInv, NEW s \in Sessions, NEW x \in Held(s)
  PROVE  \A t \in Sessions \ {s} : x \notin Held(t)
BY DEF IInv, LocksExclude

\* The new route is the only open one of its crew: nobody else holds the crew's rows.
LEMMA CommitCreationKeeps ==
  ASSUME IInv, NEW s \in Sessions, Commit(s), Creating(s)
  PROVE  IInv'
<1> DEFINE q == Asked(s)
           new == NewRoute(Asked(s))
<1>1. /\ pc[s] = "commit" /\ pc[s] # "idle" /\ Checked(s) /\ End(s)
      /\ routes' = Append(routes, new) /\ row' = row
  BY DEF Commit, Creating, Checked
<1>2. q \in Creations /\ q.driver \in Users /\ q.vehicle \in Vehicles
  BY <1>1, ServedRequest, RequestKinds DEF IInv
<1>3. new \in RouteRecord /\ \A x : IsOpenFor(new, x) => x \in {q.driver, q.vehicle}
  BY <1>2 DEF NewRoute, RouteRecord, IsOpenFor
<1>4. Held(s) = {q.driver, q.vehicle}
  BY <1>1, HeldRows DEF IInv
<1> HIDE DEF new
<1>5. /\ routes \in Seq(RouteRecord) /\ routes' \in Seq(RouteRecord)
      /\ Len(routes) \in Nat /\ Len(routes') = Len(routes) + 1
      /\ DOMAIN routes = 1..Len(routes) /\ DOMAIN routes' = 1..Len(routes) + 1
      /\ \A i \in 1..Len(routes) : routes'[i] = routes[i]
      /\ routes'[Len(routes) + 1] = new
  BY <1>1, <1>3 DEF IInv, Types
<1>6. /\ SessionShape(s)' /\ ChecksHold(s)' /\ KeepsOut(s) /\ OthersStay(s)
      /\ Creators' = Creators \ {s} /\ Updaters' = Updaters \ {s}
  BY <1>1, EndShape
<1>7. Types' /\ RolesFit'
  BY <1>1, <1>5, EndShape DEF IInv, Types, RolesFit
<1>8. Continues(routes, routes')
  BY <1>5 DEF Continues
<1>9. ASSUME NEW x, \E t \in Sessions \ {s} : x \in Held(t)
      PROVE  row'[x] = row[x] /\ (HasOpenRoute(routes', x) => HasOpenRoute(routes, x))
  <2>1. x \notin {q.driver, q.vehicle}
    BY <1>4, <1>9, OwnRows
  <2>2. ~IsOpenFor(new, x)
    BY <1>3, <2>1
  <2>3. ASSUME NEW i \in 1..Len(routes) + 1, IsOpenFor(routes'[i], x)
        PROVE  i \in 1..Len(routes) /\ IsOpenFor(routes[i], x)
    BY <1>5, <2>2, <2>3
  <2> QED BY <1>1, <1>5, <2>3 DEF HasOpenRoute
<1>10. ASSUME NEW i \in 1..Len(routes), NEW x, IsOpenFor(routes[i], x) PROVE ~IsOpenFor(new, x)
  <2>1. HasOpenRoute(routes, x)
    BY <1>5, <1>10 DEF HasOpenRoute
  <2>2. x \notin Held(s)
    BY <1>1, <2>1 DEF IInv, ChecksHold
  <2> QED BY <1>3, <1>4, <2>2
<1>11. CrewIsExclusive'
  <2>1. SUFFICES ASSUME NEW i \in 1..Len(routes) + 1, NEW j \in 1..Len(routes) + 1, NEW x \in Rows,
                        IsOpenFor(routes'[i], x), IsOpenFor(routes'[j], x)
                 PROVE  i = j
    BY <1>5 DEF CrewIsExclusive
  <2>2. CASE i \in 1..Len(routes) /\ j \in 1..Len(routes)
    BY <1>5, <2>1, <2>2 DEF IInv, CrewIsExclusive
  <2>3. CASE i = Len(routes) + 1 /\ j \in 1..Len(routes)
    BY <1>5, <1>10, <2>1, <2>3
  <2>4. CASE j = Len(routes) + 1 /\ i \in 1..Len(routes)
    BY <1>5, <1>10, <2>1, <2>4
  <2> QED BY <1>5, <2>2, <2>3, <2>4
<1>12. Bounded'
  <2>1. s \in Creators /\ s \notin Updaters
    BY <1>1 DEF Creators, Updaters, Busy
  <2>2. Cardinality(Creators') = Cardinality(Creators) - 1 /\ Updaters' = Updaters
    <3>1. Cardinality(Creators \ {s}) = Cardinality(Creators) - 1
      BY <2>1, Counts, FS_RemoveElement DEF IInv
    <3>2. Creators' = Creators \ {s} /\ Updaters \ {s} = Updaters /\ Updaters' = Updaters \ {s}
      BY <2>1, <1>6
    <3> QED BY <3>1, <3>2
  <2>3. Len(routes') + Cardinality(Creators') <= MaxRoutes
    BY <1>5, <2>2, Counts, AssignmentsAssumption DEF IInv, Bounded
  <2>4. Changes' = Changes
    BY <1>1 DEF Changes
  <2> QED BY <2>2, <2>3, <2>4 DEF IInv, Bounded
<1> QED BY <1>6, <1>7, <1>8, <1>9, <1>11, <1>12, TableStep

\* The change has the version its sender read, and touches a row nobody else holds.
LEMMA CommitUpdateKeeps ==
  ASSUME IInv, NEW s \in Sessions, Commit(s), ~Creating(s)
  PROVE  IInv'
<1> DEFINE q == Asked(s)
           new == Written(Asked(s))
<1>1. /\ pc[s] = "commit" /\ pc[s] # "idle" /\ Checked(s) /\ End(s)
      /\ row' = [row EXCEPT ![q.target] = new] /\ routes' = routes
  BY DEF Commit, Creating, Checked
<1>2. q \in Updates /\ q \in Requests /\ q.target \in Rows /\ q.active \in BOOLEAN /\ q.role \in Roles
  BY <1>1, ServedRequest, RequestKinds DEF IInv, Updates
<1>3. Held(s) = {q.target}
  BY <1>1, HeldRows DEF IInv
<1>4. s \in Updaters /\ s \notin Creators
  BY <1>1 DEF Creators, Updaters, Busy
<1> DEFINE versions == [x \in Rows |-> row[x].version - 1]
<1>5. /\ IsFiniteSet(Rows) /\ \A x \in Rows : versions[x] \in Nat
      /\ Changes = SumFunctionOnSet(versions, Rows)
  BY Counts DEF IInv, Changes
<1>6. row[q.target].version \in 1..MaxChanges
  <2>1. Cardinality(Updaters) >= 1
    <3>1. Cardinality(Updaters \ {s}) = Cardinality(Updaters) - 1
      BY <1>4, Counts, FS_RemoveElement DEF IInv
    <3>2. Cardinality(Updaters \ {s}) \in Nat
      BY Counts, FS_RemoveElement, FS_CardinalityType DEF IInv
    <3> QED BY <3>1, <3>2, Counts DEF IInv
  <2>2. Changes = versions[q.target] + SumFunctionOnSet(versions, Rows \ {q.target})
    <3> HIDE DEF versions
    <3>1. \A x \in Rows : versions[x] \in Int
      BY <1>5
    <3> QED BY <1>2, <1>5, <3>1, SumRemove
  <2>3. SumFunctionOnSet(versions, Rows \ {q.target}) \in Nat
    <3>1. IsFiniteSet(Rows \ {q.target}) /\ \A x \in Rows \ {q.target} : versions[x] \in Nat
      BY <1>5, FS_Subset
    <3> HIDE DEF versions
    <3> QED BY <3>1, SumNat
  <2>4. versions[q.target] = row[q.target].version - 1 /\ row[q.target].version \in 1..MaxChanges + 1
    BY <1>2 DEF IInv, Types, RowRecord
  <2>5. versions[q.target] < MaxChanges
    <3> HIDE DEF versions
    <3>1. Changes + Cardinality(Updaters) <= MaxChanges
      BY DEF IInv, Bounded
    <3>2. Cardinality(Updaters) \in Nat /\ MaxChanges \in Nat /\ versions[q.target] \in Nat
      BY <1>2, <1>5, Counts, AssignmentsAssumption DEF IInv
    <3> QED BY <2>1, <2>2, <2>3, <3>1, <3>2
  <2> QED BY <2>4, <2>5, AssignmentsAssumption
<1>7. new \in RowRecord /\ new.version = row[q.target].version + 1 /\ new.role = q.role
  <2>1. row[q.target].version + 1 \in 1..MaxChanges + 1
    BY <1>6, AssignmentsAssumption
  <2> QED BY <1>2, <2>1 DEF Written, RowRecord
<1> HIDE DEF new
<1>8. /\ SessionShape(s)' /\ ChecksHold(s)' /\ KeepsOut(s) /\ OthersStay(s)
      /\ Creators' = Creators \ {s} /\ Updaters' = Updaters \ {s}
  BY <1>1, EndShape
<1>9. Types'
  BY <1>1, <1>2, <1>7, EndShape DEF IInv, Types
<1>10. RolesFit'
  <2>1. q.role = "VEHICLE" <=> q.target \in Vehicles
    BY <1>2, AssignmentsAssumption
  <2> QED BY <1>1, <1>2, <1>7, <2>1 DEF IInv, Types, RolesFit
<1>11. Continues(routes, routes')
  BY <1>1, ContinuesItself DEF IInv, Types
<1>12. ASSUME NEW x, \E t \in Sessions \ {s} : x \in Held(t)
       PROVE  row'[x] = row[x] /\ (HasOpenRoute(routes', x) => HasOpenRoute(routes, x))
  <2>1. x # q.target
    BY <1>3, <1>12, OwnRows
  <2> QED BY <1>1, <2>1 DEF IInv, Types
<1>13. CrewIsExclusive'
  BY <1>1 DEF IInv, CrewIsExclusive
<1>14. Bounded'
  <2> DEFINE later == [x \in Rows |-> row'[x].version - 1]
  <2>1. /\ \A x \in Rows : later[x] \in Int /\ versions[x] \in Int
        /\ \A x \in Rows \ {q.target} : later[x] = versions[x]
        /\ later[q.target] - versions[q.target] = 1
    <3>1. later[q.target] - versions[q.target] = 1
      BY <1>1, <1>2, <1>6, <1>7 DEF IInv, Types
    <3>2. \A x \in Rows \ {q.target} : later[x] = versions[x]
      BY <1>1, <1>2 DEF IInv, Types
    <3>3. \A x \in Rows : later[x] \in Int /\ versions[x] \in Int
      BY <1>9 DEF IInv, Types, RowRecord
    <3> QED BY <3>1, <3>2, <3>3
  <2>2. Changes' = SumFunctionOnSet(later, Rows)
    BY DEF Changes
  <2>3. SumFunctionOnSet(later, Rows)
          = SumFunctionOnSet(versions, Rows) + (later[q.target] - versions[q.target])
    <3> HIDE DEF versions, later
    <3> QED BY <1>2, <1>5, <2>1, SumChange
  <2>4. Changes' = Changes + 1
    <3> HIDE DEF versions, later
    <3> QED BY <1>5, <2>1, <2>2, <2>3
  <2>5. Cardinality(Updaters') = Cardinality(Updaters) - 1 /\ Creators' = Creators
    <3>1. Cardinality(Updaters \ {s}) = Cardinality(Updaters) - 1
      BY <1>4, Counts, FS_RemoveElement DEF IInv
    <3>2. Updaters' = Updaters \ {s} /\ Creators \ {s} = Creators /\ Creators' = Creators \ {s}
      BY <1>4, <1>8
    <3> QED BY <3>1, <3>2
  <2>6. Changes' + Cardinality(Updaters') <= MaxChanges
    BY <2>4, <2>5, Counts, AssignmentsAssumption DEF IInv, Bounded
  <2> QED BY <1>1, <2>5, <2>6 DEF IInv, Bounded
<1> QED BY <1>8, <1>9, <1>10, <1>11, <1>12, <1>13, <1>14, TableStep

\* A commit keeps the invariant.
LEMMA CommitKeeps ==
  ASSUME IInv, NEW s \in Sessions, Commit(s)
  PROVE  IInv'
BY CommitCreationKeeps, CommitUpdateKeeps

\* A closed route opens nothing.
LEMMA CloseKeeps ==
  ASSUME IInv, NEW i \in DOMAIN routes, Close(i)
  PROVE  IInv'
<1>1. /\ routes' = [routes EXCEPT ![i].state = "CLOSED"]
      /\ row' = row /\ pc' = pc /\ call' = call /\ attempt' = attempt /\ seen' = seen
  BY DEF Close
<1>2. /\ routes \in Seq(RouteRecord) /\ Len(routes) \in Nat
      /\ DOMAIN routes = 1..Len(routes) /\ i \in 1..Len(routes) /\ routes[i] \in RouteRecord
  BY DEF IInv, Types
<1>3. /\ routes' \in Seq(RouteRecord) /\ Len(routes') = Len(routes) /\ DOMAIN routes' = DOMAIN routes
      /\ \A j \in 1..Len(routes) :
           /\ routes'[j].driver = routes[j].driver /\ routes'[j].vehicle = routes[j].vehicle
           /\ routes'[j].state = "OPEN" => routes[j].state = "OPEN"
  <2> DEFINE closed == [routes[i] EXCEPT !.state = "CLOSED"]
  <2>1. /\ closed \in RouteRecord /\ closed.driver = routes[i].driver
        /\ closed.vehicle = routes[i].vehicle /\ closed.state = "CLOSED"
    BY <1>2 DEF RouteRecord
  <2>2. routes' = [routes EXCEPT ![i] = closed]
    BY <1>1
  <2> HIDE DEF closed
  <2>3. routes' \in Seq(RouteRecord) /\ Len(routes') = Len(routes) /\ DOMAIN routes' = DOMAIN routes
    BY <1>2, <2>1, <2>2
  <2>4. ASSUME NEW j \in 1..Len(routes)
        PROVE  /\ routes'[j].driver = routes[j].driver /\ routes'[j].vehicle = routes[j].vehicle
               /\ routes'[j].state = "OPEN" => routes[j].state = "OPEN"
    BY <1>2, <2>1, <2>2
  <2> QED BY <2>3, <2>4
<1>4. Continues(routes, routes')
  BY <1>2, <1>3 DEF Continues
<1>5. \A j \in 1..Len(routes), x \in Rows : IsOpenFor(routes'[j], x) => IsOpenFor(routes[j], x)
  BY <1>3 DEF IsOpenFor
<1>6. ASSUME NEW x, HasOpenRoute(routes', x) PROVE HasOpenRoute(routes, x)
  BY <1>2, <1>3, <1>6 DEF HasOpenRoute, IsOpenFor
<1>7. Types' /\ RolesFit'
  BY <1>1, <1>3 DEF IInv, Types, RolesFit
<1>8. ASSUME NEW t \in Sessions PROVE SessionShape(t)' /\ ChecksHold(t)'
  <2>1. /\ pc'[t] = pc[t] /\ call'[t] = call[t] /\ seen'[t] = seen[t]
        /\ \A x \in Held(t) : row'[x] = row[x]
        /\ \A x \in Held(t) : HasOpenRoute(routes', x) => HasOpenRoute(routes, x)
    BY <1>1, <1>6
  <2>2. Types /\ SessionShape(t) /\ ChecksHold(t)
    BY DEF IInv
  <2> QED BY <1>4, <1>7, <2>1, <2>2, OtherSession
<1>9. LocksExclude'
  BY <1>1, HeldIs DEF IInv, LocksExclude, Shared, Asked
<1>10. Bounded'
  <2>1. Creators' = Creators /\ Updaters' = Updaters /\ Changes' = Changes
    BY <1>1 DEF Creators, Updaters, Busy, Creating, Asked, Changes
  <2> QED BY <1>3, <2>1 DEF IInv, Bounded
<1>11. CrewIsExclusive'
  BY <1>2, <1>3, <1>5 DEF IInv, CrewIsExclusive
<1> QED BY <1>7, <1>8, <1>9, <1>10, <1>11 DEF IInv

-----------------------------------------------------------------------------
(* The invariant *)

\* Nothing is asked for at first, and nobody was changed.
LEMMA InitHolds == Init => IInv
<1> SUFFICES ASSUME Init PROVE IInv
  OBVIOUS
<1>1. ASSUME NEW x \in Rows
      PROVE  /\ row[x] \in RowRecord /\ row[x].version = 1
             /\ row[x].role = "VEHICLE" <=> x \in Vehicles
  <2>1. row[x] = [ active |-> TRUE, version |-> 1,
                   role |-> CASE x \in Admins -> "ADMINISTRATOR"
                              [] x \in Vehicles -> "VEHICLE"
                              [] OTHER -> "DRIVER" ]
    BY DEF Init
  <2>2. x \in Admins => x \notin Vehicles
    BY AssignmentsAssumption
  <2>3. row[x].active = TRUE /\ row[x].version = 1
    BY <2>1
  <2>4. CASE x \in Admins
    <3>1. row[x].role = "ADMINISTRATOR"
      BY <2>1, <2>2, <2>4
    <3> QED BY <2>1, <2>2, <2>3, <2>4, <3>1, AssignmentsAssumption DEF RowRecord, Roles
  <2>5. CASE x \in Vehicles
    <3>1. row[x].role = "VEHICLE"
      BY <2>1, <2>2, <2>5
    <3> QED BY <2>1, <2>3, <2>5, <3>1, AssignmentsAssumption DEF RowRecord, Roles
  <2>6. CASE x \notin Admins /\ x \notin Vehicles
    <3>1. row[x].role = "DRIVER"
      BY <2>1, <2>6
    <3> QED BY <2>1, <2>3, <2>6, <3>1, AssignmentsAssumption DEF RowRecord, Roles
  <2> QED BY <2>4, <2>5, <2>6
<1>2. Types
  <2>1. row \in [Rows -> RowRecord]
    BY <1>1 DEF Init
  <2>2. routes \in Seq(RouteRecord)
    BY DEF Init
  <2> QED BY <2>1, <2>2, AssignmentsAssumption DEF Init, Types, Steps
<1>3. \A s \in Sessions : SessionShape(s) /\ ChecksHold(s)
  BY DEF Init, SessionShape, ChecksHold, Checked, InTransaction
<1>4. LocksExclude
  BY HeldIs, HoldsNothing DEF Init, LocksExclude
<1>5. Bounded
  <2>1. Creators = {} /\ Updaters = {} /\ Len(routes) = 0
    BY DEF Init, Creators, Updaters, Busy
  <2>2. Changes = 0
    <3> DEFINE versions == [x \in Rows |-> row[x].version - 1]
    <3>1. \A x \in Rows : versions[x] = 0
      BY <1>1
    <3>2. Changes = SumFunctionOnSet(versions, Rows) /\ IsFiniteSet(Rows)
      BY <1>2, Counts DEF Changes
    <3> HIDE DEF versions
    <3> QED BY <3>1, <3>2, SumZero
  <2> QED BY <2>1, <2>2, FS_EmptySet, AssignmentsAssumption DEF Bounded
<1>6. RolesFit /\ CrewIsExclusive
  BY <1>1 DEF Init, RolesFit, CrewIsExclusive
<1> QED BY <1>2, <1>3, <1>4, <1>5, <1>6 DEF IInv

\* Each step of a session keeps the invariant.
LEMMA StepKeeps ==
  ASSUME IInv, NEW s \in Sessions, Step(s)
  PROVE  IInv'
<1>1. CASE \E q \in Requests \cap Creations : CallCreate(s, q)
  BY <1>1, CallCreateKeeps
<1>2. CASE \E q \in Requests \cap Updates : CallUpdate(s, q)
  BY <1>2, CallUpdateKeeps
<1>3. CASE Begin(s)
  BY <1>3, BeginKeeps
<1>4. CASE LockCrew(s)
  BY <1>4, LockCrewKeeps
<1>5. CASE RefuseCrew(s)
  BY <1>5, FailKeeps DEF RefuseCrew
<1>6. CASE InsertRoute(s)
  BY <1>6, InsertRouteKeeps
<1>7. CASE LockTarget(s)
  BY <1>7, LockTargetKeeps
<1>8. CASE Update(s)
  BY <1>8, UpdateKeeps
<1>9. CASE WriteAudit(s)
  BY <1>9, WriteAuditKeeps
<1>10. CASE Commit(s)
  BY <1>10, CommitKeeps
<1>11. CASE SerializationFailure(s)
  <2>1. pc[s] # "idle"
    BY <1>11 DEF SerializationFailure, InTransaction
  <2> QED BY <1>11, <2>1, RetryKeeps DEF SerializationFailure
<1>12. CASE DeadlockDetected(s)
  <2>1. PICK t \in Sessions : WaitsFor(s, t)
    BY <1>12 DEF DeadlockDetected, Deadlocked
  <2>2. pc[s] # "idle"
    BY <2>1 DEF WaitsFor
  <2> QED BY <1>12, <2>2, RetryKeeps DEF DeadlockDetected
<1>13. CASE ConnectionLost(s)
  BY <1>13, FailKeeps DEF ConnectionLost
<1> QED BY <1>1, <1>2, <1>3, <1>4, <1>5, <1>6, <1>7, <1>8, <1>9, <1>10, <1>11, <1>12, <1>13 DEF Step

\* So does every step, and a step of nobody.
LEMMA NextKeeps == IInv /\ [Next]_vars => IInv'
<1> SUFFICES ASSUME IInv, [Next]_vars PROVE IInv'
  OBVIOUS
<1>1. CASE Next
  BY <1>1, StepKeeps, CloseKeeps DEF Next
<1>2. CASE UNCHANGED vars
  <2>1. /\ row' = row /\ routes' = routes /\ pc' = pc /\ call' = call /\ attempt' = attempt
        /\ seen' = seen
    BY <1>2 DEF vars
  <2>2. Types' /\ RolesFit' /\ CrewIsExclusive'
    BY <2>1 DEF IInv, Types, RolesFit, CrewIsExclusive
  <2>3. Continues(routes, routes')
    BY <2>1, ContinuesItself DEF IInv, Types
  <2>4. ASSUME NEW t \in Sessions PROVE SessionShape(t)' /\ ChecksHold(t)'
    <3>1. Types /\ SessionShape(t) /\ ChecksHold(t)
      BY DEF IInv
    <3> QED BY <2>1, <2>2, <2>3, <3>1, OtherSession
  <2>5. LocksExclude'
    BY <2>1, HeldIs DEF IInv, LocksExclude, Shared, Asked
  <2>6. Bounded'
    BY <2>1 DEF IInv, Bounded, Creators, Updaters, Busy, Creating, Asked, Changes
  <2> QED BY <2>2, <2>4, <2>5, <2>6 DEF IInv
<1> QED BY <1>1, <1>2

\* The inductive invariant: whatever administrators do at once, what a session has checked
\* of the rows it locked stays true until it commits.
THEOREM Invariance == Spec => []IInv
BY InitHolds, NextKeeps, PTL DEF Spec

-----------------------------------------------------------------------------
(* What follows from it *)

\* TypeOK: rows, routes and requests keep their types, and the bounds hold.
THEOREM TypeCorrect == Spec => []TypeOK
<1>1. ASSUME IInv PROVE TypeOK
  <2>1. Len(routes) <= MaxRoutes
    BY <1>1, Counts, AssignmentsAssumption DEF IInv, Bounded
  <2>2. \A s \in Sessions :
          /\ call[s] \in {Null} \cup Calls /\ attempt[s] \in 0..MaxAttempts
          /\ seen[s] \in {Null} \cup Snapshots
    BY <1>1 DEF IInv, Types
  <2> QED BY <1>1, <2>1, <2>2 DEF IInv, Types, TypeOK, Steps, SessionShape
<1> QED BY <1>1, Invariance, PTL

\* CrewIsExclusive: no driver and no vehicle has two open routes, though create looks for
\* open routes and inserts its own in separate steps.
THEOREM CrewExclusive == Spec => []CrewIsExclusive
<1>1. IInv => CrewIsExclusive
  BY DEF IInv
<1> QED BY <1>1, Invariance, PTL

\* A creation that is part of a circle of waiting sessions, none of which audits a change by
\* its driver, is waited for by another creation, and waits for its own actor.
LEMMA CircleOfCreations ==
  ASSUME IInv, NEW C \in SUBSET Sessions, Deadlocked(C), NEW s \in C, Creating(s),
         \A t \in C : Asked(t).actor # Asked(s).driver,
         \A t \in C : pc[t] # "idle" => Asked(t).actor \in Users
  PROVE  pc[s] = "audit" /\ \E t \in C : Creating(t) /\ pc[t] = "second"
<1>1. PICK t \in C : WaitsFor(t, s)
  BY DEF Deadlocked
<1>2. PICK u \in C : WaitsFor(s, u)
  BY DEF Deadlocked
<1>3. PICK v \in C : WaitsFor(v, t)
  BY DEF Deadlocked
<1>4. pc[s] \in {"first", "second", "audit"} /\ pc[t] \in {"first", "second", "audit"}
  BY <1>1, <1>2 DEF WaitsFor
<1>5. Shared(s) = {} /\ Shared(t) = {}
  BY <1>4 DEF Shared
<1>6. Held(s) # {} /\ Held(t) # {}
  BY <1>1, <1>3, <1>5 DEF WaitsFor
<1>7. pc[s] # "first" /\ pc[t] # "first"
  BY <1>6, HeldRows DEF IInv
<1>8. Asked(s) \in Creations /\ Asked(s).driver \in Users /\ Asked(s).vehicle \in Vehicles
  BY <1>4, ServedRequest, RequestKinds DEF IInv
<1>9. pc[t] # "audit"
  <2>1. SUFFICES ASSUME pc[t] = "audit" PROVE FALSE
    OBVIOUS
  <2>2. Asked(t).actor \in Held(s)
    BY <1>1, <2>1 DEF WaitsFor
  <2>3. Held(s) \subseteq {Asked(s).driver, Asked(s).vehicle}
    BY <1>4, <1>7, HeldRows DEF IInv
  <2>4. Asked(t).actor \in Users
    BY <2>1
  <2> QED BY <1>8, <2>2, <2>3, <2>4, AssignmentsAssumption
<1>10. pc[t] = "second" /\ Creating(t)
  BY <1>4, <1>7, <1>9 DEF IInv, SessionShape
<1>11. NextRow(t) \in Held(s) /\ NextRow(t) \in Vehicles
  <2>1. NextRow(t) \in Held(s)
    BY <1>1, <1>5, <1>10 DEF WaitsFor
  <2>2. NextRow(t) = Asked(t).vehicle
    BY <1>10, NextRows DEF IInv
  <2>3. Asked(t) \in Creations
    BY <1>10, ServedRequest DEF IInv
  <2> QED BY <2>1, <2>2, <2>3, RequestKinds
<1>12. pc[s] # "second"
  <2>1. SUFFICES ASSUME pc[s] = "second" PROVE FALSE
    OBVIOUS
  <2>2. Held(s) = {Asked(s).driver}
    BY <2>1, HeldRows DEF IInv
  <2> QED BY <1>8, <1>11, <2>2, AssignmentsAssumption
<1> QED BY <1>4, <1>7, <1>10, <1>12

\* CreationsHardlyDeadlock: create locks the driver, then the vehicle, so that creations
\* wait in circles only with the requests of the driver they name.
THEOREM CreationsRarelyDeadlock == Spec => []CreationsHardlyDeadlock
<1>1. ASSUME IInv PROVE CreationsHardlyDeadlock
  <2>1. SUFFICES ASSUME NEW C \in SUBSET Sessions, Deadlocked(C),
                        ~(\A s \in C : ~Creating(s)),
                        ~(\E s, t \in C : Creating(s) /\ Asked(t).actor = Asked(s).driver)
                 PROVE  FALSE
    BY DEF CreationsHardlyDeadlock
  <2>2. ASSUME NEW t \in C, pc[t] # "idle" PROVE Asked(t).actor \in Users
    <3>1. Asked(t) \in Creations \cup Updates
      BY <1>1, <2>2, ServedRequest DEF IInv
    <3> QED BY <3>1 DEF Creations, Updates
  <2>3. PICK s \in C : Creating(s)
    BY <2>1
  <2>4. PICK t \in C : Creating(t) /\ pc[t] = "second"
    BY <1>1, <2>1, <2>2, <2>3, CircleOfCreations
  <2>5. pc[t] = "audit"
    BY <1>1, <2>1, <2>2, <2>4, CircleOfCreations
  <2> QED BY <2>4, <2>5
<1> QED BY <1>1, Invariance, PTL

\* Only commits and closures write the tables.
LEMMA WhoWrites ==
  ASSUME [Next]_vars
  PROVE  \/ row' = row /\ routes' = routes
         \/ \E s \in Sessions : Commit(s)
         \/ \E i \in DOMAIN routes : Close(i)
<1>1. ASSUME NEW s \in Sessions, Step(s), ~Commit(s) PROVE row' = row /\ routes' = routes
  BY <1>1 DEF Step, CallCreate, CallUpdate, Call, Begin, LockCrew, RefuseCrew, InsertRoute,
              LockTarget, Update, WriteAudit, SerializationFailure, DeadlockDetected,
              ConnectionLost, Retry, Fail, Goto, committed
<1> QED BY <1>1 DEF Next, vars

\* RoutesStartWithFitCrew: the driver and the vehicle of a new route are fit at the moment
\* it is committed.
THEOREM RoutesStartFit == Spec => RoutesStartWithFitCrew
<1>1. ASSUME IInv, [Next]_vars, NEW i \in DOMAIN routes' \ DOMAIN routes
      PROVE  Fit(routes'[i].driver) /\ Fit(routes'[i].vehicle)
  <2>1. routes \in Seq(RouteRecord)
    BY <1>1 DEF IInv, Types
  <2>2. ASSUME NEW j \in DOMAIN routes, Close(j) PROVE DOMAIN routes' = DOMAIN routes
    BY <2>1, <2>2 DEF Close
  <2>3. PICK s \in Sessions : Commit(s)
    BY <1>1, <2>2, WhoWrites
  <2>4. Creating(s)
    BY <1>1, <2>3 DEF Commit, Creating
  <2>5. pc[s] = "commit" /\ routes' = Append(routes, NewRoute(Asked(s)))
    BY <2>3, <2>4 DEF Commit, Creating
  <2>6. routes'[i] = NewRoute(Asked(s))
    BY <1>1, <2>1, <2>5
  <2>7. Held(s) = {Asked(s).driver, Asked(s).vehicle}
    BY <1>1, <2>4, <2>5, HeldRows DEF IInv
  <2>8. \A x \in Held(s) : Fit(x)
    BY <1>1, <2>4, <2>5 DEF IInv, ChecksHold
  <2> QED BY <2>6, <2>7, <2>8 DEF NewRoute
<1>2. IInv /\ [Next]_vars =>
        [\A i \in DOMAIN routes' \ DOMAIN routes :
           Fit(routes'[i].driver) /\ Fit(routes'[i].vehicle)]_vars
  BY <1>1
<1> QED BY <1>2, Invariance, PTL DEF Spec, RoutesStartWithFitCrew

\* NoUpdateIsLost: a change of a user or a vehicle replaces the version its sender read.
THEOREM UpdatesReplaceWhatWasRead == Spec => NoUpdateIsLost
<1>1. ASSUME IInv, [Next]_vars, NEW x \in Rows, row'[x] # row[x]
      PROVE  \E s \in Sessions :
               /\ call[s] # Null /\ ~Creating(s) /\ Asked(s).target = x
               /\ Asked(s).version = row[x].version
               /\ row'[x].version = row[x].version + 1
  <2>1. ~(row' = row) /\ \A j \in DOMAIN routes : ~Close(j)
    BY <1>1 DEF Close
  <2>2. PICK s \in Sessions : Commit(s)
    BY <1>1, <2>1, WhoWrites
  <2>3. /\ pc[s] = "commit" /\ ~Creating(s)
        /\ row' = [row EXCEPT ![Asked(s).target] = Written(Asked(s))]
    BY <2>1, <2>2 DEF Commit, Creating
  <2>4. call[s] # Null
    BY <1>1, <2>3 DEF IInv, SessionShape
  <2>5. Asked(s).target = x
    BY <1>1, <2>3 DEF IInv, Types
  <2>6. row[x].version = Asked(s).version
    BY <1>1, <2>3, <2>5 DEF IInv, ChecksHold, Checked
  <2>7. row'[x].version = row[x].version + 1
    BY <1>1, <2>3, <2>5 DEF IInv, Types, Written
  <2> QED BY <2>3, <2>4, <2>5, <2>6, <2>7
<1>2. IInv /\ [Next]_vars =>
        [\A x \in Rows : row'[x] # row[x] =>
           \E s \in Sessions :
             /\ call[s] # Null /\ ~Creating(s) /\ Asked(s).target = x
             /\ Asked(s).version = row[x].version
             /\ row'[x].version = row[x].version + 1]_vars
  BY <1>1
<1> QED BY <1>2, Invariance, PTL DEF Spec, NoUpdateIsLost

\* OnlyOverlapStrands: a change that takes the crew of an open route out of service did not
\* see that route when it began.
THEOREM OnlyOverlapsStrand == Spec => OnlyOverlapStrands
<1>1. ASSUME IInv, [Next]_vars, NEW x \in Rows, NEW i \in DOMAIN routes,
             IsOpenFor(routes[i], x), Fit(x), ~Fit(x)'
      PROVE  \E s \in Sessions :
               /\ pc[s] = "commit" /\ ~Creating(s) /\ Asked(s).target = x
               /\ i > Len(seen[s].routes)
  <2>1. row'[x] # row[x] /\ ~(row' = row) /\ \A j \in DOMAIN routes : ~Close(j)
    BY <1>1 DEF Fit, Close
  <2>2. PICK s \in Sessions : Commit(s)
    BY <1>1, <2>1, WhoWrites
  <2>3. /\ pc[s] = "commit" /\ ~Creating(s)
        /\ row' = [row EXCEPT ![Asked(s).target] = Written(Asked(s))]
    BY <2>1, <2>2 DEF Commit, Creating
  <2>4. Asked(s).target = x
    BY <1>1, <2>1, <2>3 DEF IInv, Types
  <2>5. Asked(s) \in Updates /\ Asked(s) \in Requests
    BY <1>1, <2>3, ServedRequest DEF IInv
  <2>6. row'[x].active = Asked(s).active /\ row'[x].role = Asked(s).role
    BY <1>1, <2>3, <2>4 DEF IInv, Types, Written
  <2>7. RouteAllows(s)
    BY <1>1, <2>3 DEF IInv, ChecksHold, Checked
  <2>8. Asked(s).role = "VEHICLE" <=> x \in Vehicles
    BY <2>4, <2>5, AssignmentsAssumption
  <2>9. row[x].role = "VEHICLE" <=> x \in Vehicles
    BY <1>1 DEF IInv, RolesFit
  <2>10. row[x].role \in Roles /\ row[x].active /\ row[x].role # "ADMINISTRATOR"
    BY <1>1 DEF IInv, Types, RowRecord, Fit
  <2>11. ~Asked(s).active \/ Asked(s).role = "ADMINISTRATOR"
    BY <1>1, <2>6 DEF Fit
  <2>12. TakesDriver(Asked(s)) \/ TakesVehicle(Asked(s))
    BY <2>4, <2>8, <2>9, <2>10, <2>11 DEF TakesDriver, TakesVehicle, Roles
  <2>13. ~HasOpenRoute(seen[s].routes, x)
    BY <2>4, <2>7, <2>12 DEF RouteAllows
  <2>14. /\ seen[s].routes \in Seq(RouteRecord) /\ Continues(seen[s].routes, routes)
         /\ routes \in Seq(RouteRecord)
    <3>1. seen[s] # Null
      BY <1>1, <2>3 DEF IInv, SessionShape, InTransaction
    <3> QED BY <1>1, <3>1 DEF IInv, Types, Snapshots, ChecksHold
  <2>15. i \notin 1..Len(seen[s].routes)
    <3>1. SUFFICES ASSUME i \in 1..Len(seen[s].routes) PROVE FALSE
      OBVIOUS
    <3>2. IsOpenFor(seen[s].routes[i], x)
      BY <1>1, <2>14, <3>1 DEF Continues, IsOpenFor
    <3>3. i \in DOMAIN seen[s].routes
      BY <2>14, <3>1
    <3> QED BY <2>13, <3>2, <3>3 DEF HasOpenRoute
  <2>16. i > Len(seen[s].routes)
    BY <2>14, <2>15, LenProperties
  <2> QED BY <2>3, <2>4, <2>16
<1>2. IInv /\ [Next]_vars =>
        [\A x \in Rows, i \in DOMAIN routes :
           IsOpenFor(routes[i], x) /\ Fit(x) /\ ~Fit(x)' =>
             \E s \in Sessions :
               /\ pc[s] = "commit" /\ ~Creating(s) /\ Asked(s).target = x
               /\ i > Len(seen[s].routes)]_vars
  BY <1>1
<1> QED BY <1>2, Invariance, PTL DEF Spec, OnlyOverlapStrands
=============================================================================
