-------------------------- MODULE InventoryCommands --------------------------
(***************************************************************************)
(* InventoryService.execute as the database runs it: concurrent requests,  *)
(* each a serializable transaction that claims its idempotency key, locks  *)
(* the balance rows it changes one by one, computes on its own snapshot,   *)
(* commits or rolls back whole, and is retried a bounded number of times.  *)
(* Requests may be repeated under the same key, and answers may be lost.   *)
(* The module implements StockLedger.                                      *)
(*                                                                         *)
(* PostgreSQL (external) is modelled by what the code relies on: row locks *)
(* held to the end of the transaction, "could not serialize" for a row     *)
(* that another transaction wrote after the snapshot, unique keys that     *)
(* make an insert wait for an uncommitted one, deadlock detection, and     *)
(* serialization failures it may report to any of several concurrent       *)
(* transactions.                                                           *)
(***************************************************************************)
EXTENDS Integers, Sequences, FiniteSets

CONSTANTS
  Branches, Products, MaxQty, MaxOps, Null,
  Sessions,      \* requests being served at the same time
  Keys,          \* actor and Idempotency-Key
  Requests,      \* the requests clients may send
  Rank,          \* the order of the ids of branches and products
  MaxAttempts    \* attempts of runSerializable

VARIABLES
  balance, operations,  \* what is committed
  idem,      \* idempotency_request rows: the request and the operation it produced
  pc,        \* where each session's request is
  call,      \* the request it serves: key, content, order of its movements
  attempt,
  todo,      \* products still to be moved
  held,      \* rows locked or inserted by the running transaction
  work,      \* movements inserted by the running transaction
  stale,     \* rows other transactions wrote since its snapshot
  answer     \* what the session's last request was told

committed == <<balance, operations, idem>>
local == <<pc, call, attempt, todo, held, work, stale, answer>>
vars == <<balance, operations, idem, pc, call, attempt, todo, held, work, stale, answer>>

L == INSTANCE StockLedger WITH Routes <- {}

IsReversal(q) == "reverses" \in DOMAIN q
IsTransfer(q) == "source" \in DOMAIN q

AllRequests ==
  [type: L!BranchOperationTypes, branch: Branches, lines: L!Lines]
    \cup {q \in [source: Branches, destination: Branches, lines: L!Lines] : q.source # q.destination}
    \cup [reverses: 1..MaxOps]

\* An idempotency_request row: what was asked under the key and the operation it produced.
IdempotencyRequests == [request: Requests, operation: 1..MaxOps]

ASSUME CommandsAssumption ==
  /\ Requests \subseteq AllRequests
  /\ MaxQty \in Nat /\ MaxOps \in Nat
  /\ Null \notin Branches \cup IdempotencyRequests
  /\ IsFiniteSet(Products) /\ IsFiniteSet(Sessions)
  /\ Rank \in [Branches \cup Products -> Nat]
  /\ \A x, y \in Branches \cup Products : Rank[x] = Rank[y] => x = y
  /\ MaxAttempts \in Nat \ {0}

-----------------------------------------------------------------------------
(* What a request asks for *)

TypeOf(q) ==
  CASE IsReversal(q) -> operations[q.reverses].type
    [] IsTransfer(q) -> "TRANSFER"
    [] OTHER -> q.type

MovesOf(q) ==
  CASE IsReversal(q) -> L!Inverse(operations[q.reverses].moves)
    [] IsTransfer(q) -> L!MovesOf(q.lines, q.source, q.destination)
    [] OTHER -> L!BranchMoves(q.type, q.branch, q.lines)

Reverses(q) == IF IsReversal(q) THEN q.reverses ELSE 0

Moved(q) == {p \in Products : MovesOf(q)[p].quantity > 0}

Sorted(order) == \A i, j \in DOMAIN order : i < j => Rank[order[i]] < Rank[order[j]]

\* The products in the order they are moved: execute sorts the lines of a request
\* by product id, reverse takes the movements by their own, random ids.
OrdersMutUnsorted(q) ==
  {order \in [1..Cardinality(Moved(q)) -> Moved(q)] :
     Moved(q) = {order[i] : i \in DOMAIN order}}

Orders(q) ==
  {order \in [1..Cardinality(Moved(q)) -> Moved(q)] :
     /\ Moved(q) = {order[i] : i \in DOMAIN order}
     /\ ~IsReversal(q) => Sorted(order)}

-----------------------------------------------------------------------------
(* Rows and locks *)

IdemRow(q, key) == <<"idempotency_request", TypeOf(q), key>>
ReversalRow(i) == <<"reverses_operation_id", i>>
BalanceRow(l, p) == <<"inventory_balance", l, p>>

IdemRows == {<<"idempotency_request", type, key>> : type \in L!OperationTypes, key \in Keys}

\* The next balance row to lock: the rows of one product in location order.
Unlocked(s) ==
  LET p == Head(todo[s])
      m == MovesOf(call[s].request)[p]
  IN {l \in {m.source, m.destination} \ {Null} : BalanceRow(l, p) \notin held[s]}

NextRow(s) ==
  LET l == CHOOSE x \in Unlocked(s) : \A y \in Unlocked(s) : Rank[x] <= Rank[y]
  IN BalanceRow(l, Head(todo[s]))

\* The row session s cannot go on without.
Wanted(s) ==
  CASE pc[s] = "acquire" -> {IdemRow(call[s].request, call[s].key)}
    [] pc[s] = "insert" /\ IsReversal(call[s].request) -> {ReversalRow(call[s].request.reverses)}
    [] pc[s] = "move" /\ todo[s] # <<>> /\ Unlocked(s) # {} -> {NextRow(s)}
    [] OTHER -> {}

WaitsFor(s, t) == s # t /\ Wanted(s) \cap held[t] # {}
MayLock(s) == \A t \in Sessions : ~WaitsFor(s, t)

\* Sessions that all wait for one another.
Deadlocked(C) ==
  /\ C # {}
  /\ \A s \in C : (\E t \in C : WaitsFor(s, t)) /\ (\E t \in C : WaitsFor(t, s))

InTransaction(s) == pc[s] \in {"acquire", "insert", "move", "commit"}

NoCall == [key |-> Null, request |-> Null, order |-> <<>>]
NoWork == [p \in Products |-> L!Recorded(balance, p, L!Move(0, Null, Null))]

-----------------------------------------------------------------------------
(* Requests and answers *)

\* The route handler hands a request to the service; reverse reads the original
\* first.  MaxOps bounds the operations: a request that may add one waits for room.
Call(s, key, q) ==
  /\ pc[s] = "idle"
  /\ IsReversal(q) => q.reverses \in 1..Len(operations)
  /\ \/ Len(operations) + Cardinality({t \in Sessions : pc[t] # "idle"}) < MaxOps
     \/ idem[IdemRow(q, key)] # Null
  /\ \E order \in Orders(q) :
       call' = [call EXCEPT ![s] = [key |-> key, request |-> q, order |-> order]]
  /\ pc' = [pc EXCEPT ![s] = "begin"]
  /\ attempt' = [attempt EXCEPT ![s] = 1]
  /\ answer' = [answer EXCEPT ![s] = Null]
  /\ UNCHANGED <<balance, operations, idem, todo, held, work, stale>>

\* The transaction ends, releasing its locks.
Leave(s, next) ==
  /\ pc' = [pc EXCEPT ![s] = next]
  /\ todo' = [todo EXCEPT ![s] = <<>>]
  /\ held' = [held EXCEPT ![s] = {}]
  /\ work' = [work EXCEPT ![s] = NoWork]

Hangup(s) ==
  /\ call' = [call EXCEPT ![s] = NoCall]
  /\ attempt' = [attempt EXCEPT ![s] = 0]

Rollback(s, next) == Leave(s, next) /\ stale' = [stale EXCEPT ![s] = {}]

\* What was asked, the outcome, and the operation returned when it is "DONE".
Answer(s, outcome, operation) ==
  answer' = [answer EXCEPT ![s] = [ key |-> call[s].key, request |-> call[s].request,
                                    outcome |-> outcome, operation |-> operation ]]

Finish(s, outcome, operation) ==
  /\ Rollback(s, "idle")
  /\ Answer(s, outcome, operation)
  /\ Hangup(s)
  /\ UNCHANGED committed

Reject(s, outcome) == Finish(s, outcome, 0)

\* No answer, or an internal error that tells nothing about the outcome.
Fail(s) ==
  /\ Rollback(s, "idle")
  /\ Hangup(s)
  /\ UNCHANGED <<balance, operations, idem, answer>>

-----------------------------------------------------------------------------
(* retryTransactionOperation *)

\* Errors 40001 and 40P01 are retried, in a new transaction, after a pause.
RetryMutForever(s) ==
  /\ Rollback(s, "begin")
  /\ UNCHANGED <<balance, operations, idem, call, attempt, answer>>

Retry(s) ==
  IF attempt[s] < MaxAttempts
  THEN /\ Rollback(s, "begin")
       /\ attempt' = [attempt EXCEPT ![s] = @ + 1]
       /\ UNCHANGED <<balance, operations, idem, call, answer>>
  ELSE Fail(s)

\* Possible whenever the transaction overlaps another one, committed since its snapshot
\* or still open; the only way on when the row it wants was written since its snapshot.
SerializationFailure(s) ==
  /\ InTransaction(s)
  /\ \/ stale[s] # {}
     \/ \E t \in Sessions \ {s} : InTransaction(t)
  /\ Retry(s)

DeadlockDetected(s) ==
  /\ \E C \in SUBSET Sessions : s \in C /\ Deadlocked(C)
  /\ Retry(s)

\* The connection drops or the server dies: the transaction rolls back.
ConnectionLost(s) ==
  /\ pc[s] # "idle"
  /\ Fail(s)

-----------------------------------------------------------------------------
(* execute *)

\* The first statement takes the snapshot.
Begin(s) ==
  /\ pc[s] = "begin"
  /\ pc' = [pc EXCEPT ![s] = "acquire"]
  /\ stale' = [stale EXCEPT ![s] = {}]
  /\ UNCHANGED <<balance, operations, idem, call, attempt, todo, held, work, answer>>

LocksMutReadsOnly(s) ==
  held' = [held EXCEPT ![s] = @ \cup Wanted(s)]

\* The row session s asks for is free and as its snapshot shows it.
Locks(s) ==
  /\ MayLock(s)
  /\ Wanted(s) \cap stale[s] = {}
  /\ held' = [held EXCEPT ![s] = @ \cup Wanted(s)]

\* The key is new: its row is inserted and execute goes on.
Acquire(s) ==
  /\ pc[s] = "acquire"
  /\ Locks(s)
  /\ idem[IdemRow(call[s].request, call[s].key)] = Null
  /\ pc' = [pc EXCEPT ![s] = "insert"]
  /\ UNCHANGED <<balance, operations, idem, call, attempt, todo, work, stale, answer>>

\* The key was used: its answer is given again, or refused to another request.
ReplayMutIgnoresContent(s) ==
  /\ pc[s] = "acquire"
  /\ MayLock(s)
  /\ Wanted(s) \cap stale[s] = {}
  /\ LET known == idem[IdemRow(call[s].request, call[s].key)] IN
     /\ known # Null
     /\ Finish(s, "DONE", known.operation)

Replay(s) ==
  /\ pc[s] = "acquire"
  /\ MayLock(s)
  /\ Wanted(s) \cap stale[s] = {}
  /\ LET known == idem[IdemRow(call[s].request, call[s].key)] IN
     /\ known # Null
     /\ IF known.request = call[s].request
        THEN Finish(s, "DONE", known.operation)
        ELSE Reject(s, "IDEMPOTENCY_HASH_CONFLICT")

\* The inventory_operation row; a second reversal of the same operation violates
\* the unique reverses_operation_id.
InsertOperation(s) ==
  /\ pc[s] = "insert"
  /\ MayLock(s)
  /\ ~(IsReversal(call[s].request) /\ L!Reversed(call[s].request.reverses))
  /\ held' = [held EXCEPT ![s] = @ \cup Wanted(s)]
  /\ pc' = [pc EXCEPT ![s] = "move"]
  /\ todo' = [todo EXCEPT ![s] = call[s].order]
  /\ UNCHANGED <<balance, operations, idem, call, attempt, work, stale, answer>>

AlreadyReversed(s) ==
  /\ pc[s] = "insert"
  /\ IsReversal(call[s].request)
  /\ MayLock(s)
  /\ L!Reversed(call[s].request.reverses)
  /\ Reject(s, "UNIQUE_VIOLATION")

\* applyMovement, first part: the rows of the product are locked, in location order.
LockBalance(s) ==
  /\ pc[s] = "move"
  /\ todo[s] # <<>> /\ Unlocked(s) # {}
  /\ Locks(s)
  /\ UNCHANGED <<balance, operations, idem, pc, call, attempt, todo, work, stale, answer>>

Enough(s, p) ==
  LET m == MovesOf(call[s].request)[p] IN m.source # Null => balance[m.source][p] >= m.quantity

\* applyMovement, second part: the movement is recorded with the balances it leaves.
ApplyMovement(s) ==
  /\ pc[s] = "move"
  /\ todo[s] # <<>> /\ Unlocked(s) = {}
  /\ LET p == Head(todo[s]) IN
     /\ Enough(s, p)
     /\ work' = [work EXCEPT ![s][p] = L!Recorded(balance, p, MovesOf(call[s].request)[p])]
  /\ todo' = [todo EXCEPT ![s] = Tail(@)]
  /\ UNCHANGED <<balance, operations, idem, pc, call, attempt, held, stale, answer>>

InsufficientInventory(s) ==
  /\ pc[s] = "move"
  /\ todo[s] # <<>> /\ Unlocked(s) = {}
  /\ ~Enough(s, Head(todo[s]))
  /\ Reject(s, "INSUFFICIENT_INVENTORY")

\* Audit entry and complete.
Complete(s) ==
  /\ pc[s] = "move"
  /\ todo[s] = <<>>
  /\ pc' = [pc EXCEPT ![s] = "commit"]
  /\ UNCHANGED <<balance, operations, idem, call, attempt, todo, held, work, stale, answer>>

\* The balances the transaction's own updates returned.
Balances(moves) ==
  [l \in Branches |-> [p \in Products |->
     CASE moves[p].source = l -> moves[p].sourceAfter
       [] moves[p].destination = l -> moves[p].destinationAfter
       [] OTHER -> balance[l][p]]]

\* Everything becomes visible at once; the answer may still be lost.
Commit(s) ==
  LET q == call[s].request IN
  /\ pc[s] = "commit"
  /\ balance' = Balances(work[s])
  /\ operations' = Append(operations,
       [type |-> TypeOf(q), reverses |-> Reverses(q), moves |-> work[s]])
  /\ idem' = [idem EXCEPT ![IdemRow(q, call[s].key)] =
       [request |-> q, operation |-> Len(operations) + 1]]
  /\ stale' = [t \in Sessions |->
       IF t # s /\ InTransaction(t) THEN stale[t] \cup held[s] ELSE {}]
  /\ Leave(s, "idle")
  /\ \/ Answer(s, "DONE", Len(operations) + 1)
     \/ UNCHANGED answer
  /\ Hangup(s)

-----------------------------------------------------------------------------

Init ==
  /\ L!Init
  /\ idem = [row \in IdemRows |-> Null]
  /\ pc = [s \in Sessions |-> "idle"]
  /\ call = [s \in Sessions |-> NoCall]
  /\ attempt = [s \in Sessions |-> 0]
  /\ todo = [s \in Sessions |-> <<>>]
  /\ held = [s \in Sessions |-> {}]
  /\ work = [s \in Sessions |-> NoWork]
  /\ stale = [s \in Sessions |-> {}]
  /\ answer = [s \in Sessions |-> Null]

\* The statements of a transaction that wait for a lock.
LockStep(s) ==
  \/ Acquire(s) \/ Replay(s)
  \/ InsertOperation(s) \/ AlreadyReversed(s)
  \/ LockBalance(s)

RunStep(s) ==
  \/ Begin(s)
  \/ ApplyMovement(s) \/ InsufficientInventory(s)
  \/ Complete(s) \/ Commit(s)

Next ==
  \E s \in Sessions :
    \/ \E key \in Keys, q \in Requests : Call(s, key, q)
    \/ LockStep(s)
    \/ RunStep(s)
    \/ SerializationFailure(s)
    \/ DeadlockDetected(s)
    \/ ConnectionLost(s)

Spec == Init /\ [][Next]_vars

\* PostgreSQL grants a row lock to its waiters in turn, so a session is not passed
\* over for ever, and it resolves every deadlock; the event loop runs every session.
Fairness ==
  \A s \in Sessions :
    /\ SF_vars(LockStep(s))
    /\ SF_vars(Wanted(s) \cap stale[s] # {} /\ MayLock(s) /\ SerializationFailure(s))
    /\ WF_vars(RunStep(s))
    /\ WF_vars(DeadlockDetected(s))

FairSpec == Spec /\ Fairness

-----------------------------------------------------------------------------
(* Properties *)

\* The shape of the rows and of what a session keeps; a running transaction holds
\* its rows alone, and what it would commit is its request, moved so far.
TypeOK ==
  /\ L!TypeOK
  /\ idem \in [IdemRows -> IdempotencyRequests \cup {Null}]
  /\ \A s \in Sessions :
       /\ pc[s] \in {"idle", "begin", "acquire", "insert", "move", "commit"}
       /\ attempt[s] \in 0..MaxAttempts
       /\ work[s] \in [Products -> L!Movements]
       /\ \A t \in Sessions : s # t => held[s] \cap held[t] = {}
       /\ InTransaction(s) \/ held[s] = {}

\* Whatever the interleaving, retries and failures, the committed balances and
\* operations change exactly as if each request ran alone: no update is lost, no
\* balance is recorded that nobody saw, no operation is half applied.
ImplementsLedger == L!Spec

KeyAppliedOnce ==
  /\ \A i \in 1..Len(operations) :
       Cardinality({row \in IdemRows : idem[row] # Null /\ idem[row].operation = i}) = 1
  /\ \A row \in IdemRows : idem[row] # Null =>
       LET operation == operations[idem[row].operation]
           q == idem[row].request
       IN /\ operation.type = TypeOf(q) /\ operation.reverses = Reverses(q)
          /\ \A p \in Products, l \in Branches :
               L!Delta(operation.moves[p], l) = L!Delta(MovesOf(q)[p], l)

\* Every operation was asked for once: it belongs to exactly one idempotency row and does
\* what that row's request asks, so repeating a request moves no more goods. And what a
\* client is told is so: an operation it is answered is the committed result of its very
\* request under its key, also when the request was repeated after a lost answer; a refused
\* key was used for something else, a refused reversal was done.
AnswersAreTrue ==
  /\ KeyAppliedOnce
  /\ \A s \in Sessions : answer[s] # Null =>
       LET q == answer[s].request
           known == idem[IdemRow(q, answer[s].key)]
       IN /\ answer[s].outcome = "DONE" =>
               known = [request |-> q, operation |-> answer[s].operation]
          /\ answer[s].outcome = "IDEMPOTENCY_HASH_CONFLICT" => known # Null /\ known.request # q
          /\ answer[s].outcome = "UNIQUE_VIOLATION" => L!Reversed(q.reverses)

\* execute sorts lines and applyMovement sorts locations so that operations lock rows in
\* one order: only a reversal, which follows its original's movement ids, can be part of
\* every circle of waiting transactions.
OnlyReversalsDeadlock ==
  \A C \in SUBSET Sessions : Deadlocked(C) => \E s \in C : IsReversal(call[s].request)

\* Every request is answered: waiting for locks, deadlocks and serialization failures
\* end, because each is resolved and the attempts are bounded.
RequestsEnd == \A s \in Sessions : pc[s] # "idle" ~> pc[s] = "idle"
=============================================================================
