----------------------- MODULE InventoryCommandsProofs -----------------------
(***************************************************************************)
(* InventoryService.execute commits as if each request ran alone, for any  *)
(* branches, products, sessions, requests and bounds.                      *)
(*                                                                         *)
(* All of it rests on the row locks: what a transaction read of the rows   *)
(* it holds, and what it has recorded of them, stays true until it         *)
(* commits, because no other transaction that commits holds those rows.    *)
(***************************************************************************)
EXTENDS InventoryCommands, SequenceTheorems, FiniteSetTheorems, WellFoundedInduction, TLAPS

LP == INSTANCE StockLedgerProofs WITH Routes <- {}

-----------------------------------------------------------------------------
(* The inductive invariant *)

Steps == {"idle", "begin", "acquire", "insert", "move", "commit"}

LockRows ==
  IdemRows \cup {ReversalRow(i) : i \in 1..MaxOps}
           \cup {BalanceRow(l, p) : l \in Branches, p \in Products}

Calls == [key: Keys \cup {Null}, request: Requests \cup {Null}, order: Seq(Products)]

Outcomes == {"DONE", "IDEMPOTENCY_HASH_CONFLICT", "UNIQUE_VIOLATION", "INSUFFICIENT_INVENTORY"}
Answers == [key: Keys, request: Requests, outcome: Outcomes, operation: 0..MaxOps]

Types ==
  /\ idem \in [IdemRows -> IdempotencyRequests \cup {Null}]
  /\ pc \in [Sessions -> Steps]
  /\ call \in [Sessions -> Calls]
  /\ attempt \in [Sessions -> 0..MaxAttempts]
  /\ todo \in [Sessions -> Seq(Products)]
  /\ held \in [Sessions -> SUBSET LockRows]
  /\ work \in [Sessions -> [Products -> L!Movements]]
  /\ answer \in [Sessions -> Answers \cup {Null}]

\* A request reverses an operation there is.
Posed(q) == q \in Requests /\ (IsReversal(q) => q.reverses \in 1..Len(operations))

Endpoints(m) == {m.source, m.destination} \ {Null}

\* The movement of p in w is the one q asks for, made on rows in h as they are.
Done(q, h, w, p) ==
  LET m == MovesOf(q)[p] IN
  /\ w[p] = L!Recorded(balance, p, m)
  /\ \A l \in Endpoints(m) : BalanceRow(l, p) \in h
  /\ m.source # Null => balance[m.source][p] >= m.quantity

Items(order) == {order[i] : i \in DOMAIN order}

\* The rows in h come before the rows q still needs.
LockedInOrder(q, left, h) ==
  /\ Sorted(left)
  /\ \A l \in Branches, p \in Products : BalanceRow(l, p) \in h =>
       \/ \A x \in Items(left) : Rank[p] < Rank[x]
       \/ /\ left # <<>> /\ p = Head(left)
          /\ \A x \in Endpoints(MovesOf(q)[p]) : BalanceRow(x, p) \notin h => Rank[l] < Rank[x]

Blank == [quantity |-> 0, source |-> Null, destination |-> Null,
          sourceAfter |-> Null, destinationAfter |-> Null]
BlankWork == [p \in Products |-> Blank]

\* What a transaction that inserted its idempotency row relies on.
KeyIsNew(c, h) == IdemRow(c.request, c.key) \in h /\ idem[IdemRow(c.request, c.key)] = Null

\* What a transaction that inserted its operation relies on.
MovesHold(q, left, h, w) ==
  /\ IsReversal(q) => ReversalRow(q.reverses) \in h /\ ~L!Reversed(q.reverses)
  /\ \A p \in Products \ Items(left) : Done(q, h, w, p)
  /\ ~IsReversal(q) => LockedInOrder(q, left, h)

\* A session at step p, serving call c, with products left to move, rows h and movements w.
SessionFits(p, c, left, h, w) ==
  /\ p # "idle" => c.key \in Keys /\ Posed(c.request) /\ c.order \in Orders(c.request)
  /\ p \in {"idle", "begin", "acquire"} => h = {} /\ w = BlankWork
  /\ p = "insert" => h = {IdemRow(c.request, c.key)} /\ w = BlankWork
  /\ p \in {"insert", "move", "commit"} => KeyIsNew(c, h)
  /\ p \in {"move", "commit"} => MovesHold(c.request, left, h, w)
  /\ p = "commit" => left = <<>>

SessionHolds(s) == SessionFits(pc[s], call[s], todo[s], held[s], work[s])

LocksExclude == \A s, t \in Sessions : s # t => held[s] \cap held[t] = {}

\* Requests that may still add an operation have room for it.
Adding == {s \in Sessions : pc[s] # "idle" /\ idem[IdemRow(call[s].request, call[s].key)] = Null}
Bounded == Len(operations) + Cardinality(Adding) <= MaxOps

\* Requests that were served, and those that were answered, could be.
RequestsPosed ==
  /\ \A row \in IdemRows : idem[row] # Null =>
       Posed(idem[row].request) /\ idem[row].operation \in 1..Len(operations)
  /\ \A s \in Sessions : answer[s] # Null =>
       /\ Posed(answer[s].request)
       /\ answer[s].outcome = "DONE" => answer[s].operation \in 1..MaxOps

IInv ==
  /\ Types
  /\ LP!IInv
  /\ \A s \in Sessions : SessionHolds(s)
  /\ LocksExclude
  /\ Bounded
  /\ RequestsPosed
  /\ AnswersAreTrue

-----------------------------------------------------------------------------
(* The ledger *)

\* StockLedgerProofs speaks about the ledger the commands commit to.
LEMMA LedgerAssumed ==
  /\ MaxQty \in Nat /\ MaxOps \in Nat /\ Branches \cap {} = {}
  /\ Null \notin LP!Locations /\ LP!Locations = Branches /\ L!Locations = Branches
  /\ LP!Endpoints = Branches \cup {Null} /\ L!Endpoints = Branches \cup {Null}
  /\ LP!OperationTypes = L!OperationTypes
BY CommandsAssumption DEF LP!Locations, L!Locations, LP!Endpoints, L!Endpoints,
                          LP!OperationTypes, L!OperationTypes

\* Its operators are those of the instance L.
LEMMA SameOperators ==
  /\ \A m, l : LP!Delta(m, l) = L!Delta(m, l)
  /\ \A lines, a, b : LP!MovesOf(lines, a, b) = L!MovesOf(lines, a, b)
  /\ \A moves : LP!Inverse(moves) = L!Inverse(moves)
  /\ \A bal, moves : LP!ApplyMoves(bal, moves) = L!ApplyMoves(bal, moves)
  /\ \A bal, p, m : LP!Recorded(bal, p, m) = L!Recorded(bal, p, m)
  /\ \A bal, moves : LP!Covered(bal, moves) = L!Covered(bal, moves)
  /\ LP!Lines = L!Lines /\ LP!BranchOperationTypes = L!BranchOperationTypes
  /\ LP!Movements = L!Movements /\ LP!Operations = L!Operations
BY Zenon DEF L!Delta, LP!Delta, L!Move, LP!Move, L!MovesOf, LP!MovesOf, L!Inverse, LP!Inverse,
       L!Recorded, LP!Recorded, L!ApplyMoves, LP!ApplyMoves, L!Locations, LP!Locations,
       L!Covered, LP!Covered, L!Lines, LP!Lines, L!BranchOperationTypes, LP!BranchOperationTypes,
       L!Movements, LP!Movements, L!Operations, LP!Operations,
       L!OperationTypes, LP!OperationTypes, L!Endpoints, LP!Endpoints

\* So are its steps.
LEMMA SameSteps == (L!Init <=> LP!Init) /\ (L!Next <=> LP!Next)
<1>1. L!Init <=> LP!Init
  BY Zenon DEF L!Init, LP!Init, L!Locations, LP!Locations
<1>2. ASSUME NEW type, NEW moves, NEW reverses
      PROVE  L!Post(type, moves, reverses) <=> LP!Post(type, moves, reverses)
  BY Zenon DEF L!Post, LP!Post, L!Covered, LP!Covered, L!ApplyMoves, LP!ApplyMoves,
       L!NewOperation, LP!NewOperation, L!Delta, LP!Delta, L!Recorded, LP!Recorded,
       L!Locations, LP!Locations
<1>3. \A type, b, lines : LP!BranchMoves(type, b, lines) = L!BranchMoves(type, b, lines)
  BY SameOperators DEF L!BranchMoves, LP!BranchMoves, L!Creates, LP!Creates
<1>4. \A i : L!Reverse(i) <=> LP!Reverse(i)
  BY <1>2, SameOperators DEF L!Reverse, LP!Reverse, L!Reversed, LP!Reversed
<1>5. \A a, b, lines : L!CreateTransfer(a, b, lines) <=> LP!CreateTransfer(a, b, lines)
  BY <1>2, SameOperators DEF L!CreateTransfer, LP!CreateTransfer
<1>6. \A type, b, lines :
        L!CreateBranchOperation(type, b, lines) <=> LP!CreateBranchOperation(type, b, lines)
  BY <1>2, <1>3 DEF L!CreateBranchOperation, LP!CreateBranchOperation
<1>7. LP!Lines = L!Lines /\ LP!BranchOperationTypes = L!BranchOperationTypes
  BY SameOperators
<1>8. L!Next <=> LP!Next
  BY <1>4, <1>5, <1>6, <1>7, Zenon DEF L!Next, LP!Next
<1> QED BY <1>1, <1>8

\* The ledger's invariant says what its rows are.
LEMMA LedgerTypes ==
  ASSUME LP!IInv
  PROVE  /\ balance \in [Branches -> [Products -> Nat]]
         /\ operations \in Seq(L!Operations) /\ Len(operations) \in Nat
         /\ \A i \in 1..Len(operations) :
              /\ operations[i].type \in L!OperationTypes /\ operations[i].reverses \in Nat
              /\ operations[i].moves \in [Products -> L!Movements]
<1>1. balance \in [Branches -> [Products -> Nat]] /\ operations \in Seq(L!Operations)
  BY LedgerAssumed, SameOperators DEF LP!IInv, LP!TypeOK
<1>2. Len(operations) \in Nat
  BY <1>1
<1>3. \A i \in 1..Len(operations) : operations[i] \in L!Operations
  BY <1>1
<1> QED BY <1>1, <1>2, <1>3 DEF L!Operations

-----------------------------------------------------------------------------
(* Requests *)

\* The three kinds of requests are told apart.
LEMMA RequestKinds ==
  ASSUME NEW q \in Requests
  PROVE  \/ IsReversal(q) /\ ~IsTransfer(q) /\ q.reverses \in 1..MaxOps
         \/ /\ ~IsReversal(q) /\ IsTransfer(q)
            /\ q.source \in Branches /\ q.destination \in Branches /\ q.lines \in L!Lines
            /\ q.source # q.destination
         \/ /\ ~IsReversal(q) /\ ~IsTransfer(q)
            /\ q.type \in L!BranchOperationTypes /\ q.branch \in Branches /\ q.lines \in L!Lines
<1>1. q \in AllRequests
  BY CommandsAssumption
<1>2. CASE q \in [type: L!BranchOperationTypes, branch: Branches, lines: L!Lines]
  BY <1>2 DEF IsReversal, IsTransfer
<1>3. CASE q \in {r \in [source: Branches, destination: Branches, lines: L!Lines] :
                    r.source # r.destination}
  BY <1>3 DEF IsReversal, IsTransfer
<1>4. CASE q \in [reverses: 1..MaxOps]
  BY <1>4 DEF IsReversal, IsTransfer
<1> QED BY <1>1, <1>2, <1>3, <1>4 DEF AllRequests

\* A request asks for an operation of a known type with sound movements on branches.
LEMMA RequestFacts ==
  ASSUME LP!IInv, NEW q, Posed(q)
  PROVE  /\ TypeOf(q) \in L!OperationTypes /\ Reverses(q) \in Nat
         /\ LP!Sound(MovesOf(q))
<1>1. q \in Requests
  BY DEF Posed
<1>2. CASE IsReversal(q)
  <2>1. q.reverses \in 1..Len(operations) /\ q.reverses \in Nat
    BY <1>2, LedgerTypes DEF Posed
  <2>2. LP!Sound(LP!Inverse(operations[q.reverses].moves))
    BY <2>1, LedgerAssumed, LP!InverseMoves, Zenon DEF LP!IInv
  <2>3. ~IsTransfer(q)
    BY <1>1, <1>2, RequestKinds
  <2>4. /\ MovesOf(q) = LP!Inverse(operations[q.reverses].moves)
        /\ TypeOf(q) = operations[q.reverses].type /\ Reverses(q) = q.reverses
    BY <1>2, <2>3, SameOperators DEF MovesOf, TypeOf, Reverses
  <2>5. operations[q.reverses].type \in L!OperationTypes
    BY <2>1, LedgerTypes
  <2> QED BY <2>1, <2>2, <2>4, <2>5
<1>3. CASE ~IsReversal(q) /\ IsTransfer(q)
  <2>1. /\ q.source \in LP!Endpoints /\ q.destination \in LP!Endpoints
        /\ q.source # q.destination /\ q.lines \in LP!Lines
    BY <1>1, <1>3, RequestKinds, LedgerAssumed, SameOperators
  <2>2. LP!Sound(LP!MovesOf(q.lines, q.source, q.destination))
    BY <2>1, LedgerAssumed, LP!LinesMoves, Zenon
  <2>3. MovesOf(q) = LP!MovesOf(q.lines, q.source, q.destination)
    BY <1>3, SameOperators DEF MovesOf
  <2>4. TypeOf(q) = "TRANSFER" /\ Reverses(q) = 0
    BY <1>3 DEF TypeOf, Reverses
  <2> QED BY <2>2, <2>3, <2>4 DEF L!OperationTypes
<1>4. CASE ~IsReversal(q) /\ ~IsTransfer(q)
  <2>1. /\ q.branch \in LP!Endpoints /\ Null \in LP!Endpoints /\ q.branch # Null
        /\ q.lines \in LP!Lines /\ q.type \in L!OperationTypes
    BY <1>1, <1>4, RequestKinds, LedgerAssumed, SameOperators
      DEF L!BranchOperationTypes, L!OperationTypes
  <2>2. /\ LP!Sound(LP!MovesOf(q.lines, Null, q.branch))
        /\ LP!Sound(LP!MovesOf(q.lines, q.branch, Null))
    BY <2>1, LedgerAssumed, LP!LinesMoves, Zenon
  <2>3. MovesOf(q) \in {LP!MovesOf(q.lines, Null, q.branch), LP!MovesOf(q.lines, q.branch, Null)}
    BY <1>4, SameOperators DEF MovesOf, L!BranchMoves
  <2>4. TypeOf(q) = q.type /\ Reverses(q) = 0
    BY <1>4 DEF TypeOf, Reverses
  <2> QED BY <2>1, <2>2, <2>3, <2>4
<1> QED BY <1>2, <1>3, <1>4

\* What the movement of one product may be.
LEMMA MovementFacts ==
  ASSUME LP!IInv, NEW q, Posed(q), NEW p \in Products
  PROVE  /\ MovesOf(q)[p].quantity \in Nat
         /\ MovesOf(q)[p].source \in Branches \cup {Null}
         /\ MovesOf(q)[p].destination \in Branches \cup {Null}
         /\ MovesOf(q)[p].quantity = 0 <=> MovesOf(q)[p].source = MovesOf(q)[p].destination
         /\ Endpoints(MovesOf(q)[p]) \subseteq Branches
<1>1. LP!Sound(MovesOf(q))
  BY RequestFacts
<1>2. MovesOf(q)[p] \in LP!Commands
  BY <1>1 DEF LP!Sound
<1>3. /\ MovesOf(q)[p].quantity \in Nat
      /\ MovesOf(q)[p].source \in Branches \cup {Null}
      /\ MovesOf(q)[p].destination \in Branches \cup {Null}
  BY <1>2, LedgerAssumed DEF LP!Commands
<1> QED BY <1>1, <1>3 DEF LP!Sound, Endpoints

\* A product that is not moved has no endpoints.
LEMMA UnmovedProduct ==
  ASSUME LP!IInv, NEW q, Posed(q), NEW p \in Products \ Moved(q), NEW bal
  PROVE  /\ Endpoints(MovesOf(q)[p]) = {} /\ MovesOf(q)[p].source = Null
         /\ L!Recorded(bal, p, MovesOf(q)[p]) = Blank
<1>1. MovesOf(q)[p].quantity = 0
  <2>1. ~(MovesOf(q)[p].quantity > 0) /\ MovesOf(q)[p].quantity \in Nat
    BY MovementFacts DEF Moved
  <2> QED BY <2>1
<1>2. MovesOf(q)[p].source = Null /\ MovesOf(q)[p].destination = Null
  <2>1. q \in Requests
    BY DEF Posed
  <2>2. CASE IsReversal(q)
    BY <1>1, <2>1, <2>2, RequestKinds DEF MovesOf, L!Inverse, L!Move
  <2>3. CASE ~IsReversal(q)
    BY <1>1, <2>1, <2>3, RequestKinds DEF MovesOf, L!MovesOf, L!BranchMoves, L!Move
  <2> QED BY <2>2, <2>3
<1> QED BY <1>1, <1>2 DEF Endpoints, L!Recorded, Blank

-----------------------------------------------------------------------------
(* What others commit *)

\* Operations are only appended.
Grown ==
  /\ Len(operations) \in Nat /\ Len(operations') \in Nat /\ Len(operations) <= Len(operations')
  /\ \A i \in 1..Len(operations) : operations'[i] = operations[i]

\* A request asks for the same afterwards.
LEMMA RequestStands ==
  ASSUME NEW q, Posed(q), Grown
  PROVE  /\ Posed(q)' /\ TypeOf(q)' = TypeOf(q) /\ MovesOf(q)' = MovesOf(q)
         /\ Moved(q)' = Moved(q) /\ Orders(q)' = Orders(q)
         /\ \A key : IdemRow(q, key)' = IdemRow(q, key)
<1>1. Posed(q)'
  BY DEF Posed, Grown
<1>2. IsReversal(q) => operations'[q.reverses] = operations[q.reverses]
  BY DEF Posed, Grown
<1>3. TypeOf(q)' = TypeOf(q)
  <2>1. CASE IsReversal(q)
    BY <1>2, <2>1, RequestKinds DEF TypeOf, Posed
  <2>2. CASE ~IsReversal(q)
    BY <2>2 DEF TypeOf
  <2> QED BY <2>1, <2>2
<1>4. MovesOf(q)' = MovesOf(q)
  <2>1. CASE IsReversal(q)
    BY <1>2, <2>1, RequestKinds DEF MovesOf, Posed
  <2>2. CASE ~IsReversal(q)
    BY <2>2 DEF MovesOf
  <2> QED BY <2>1, <2>2
<1>5. Moved(q)' = Moved(q)
  BY <1>4 DEF Moved
<1>6. Orders(q)' = Orders(q)
  BY <1>5, Zenon DEF Orders
<1> QED BY <1>1, <1>3, <1>4, <1>5, <1>6 DEF IdemRow

\* The row of a request's key.
LEMMA IdemRowType ==
  ASSUME LP!IInv, NEW q, Posed(q), NEW key \in Keys
  PROVE  IdemRow(q, key) \in IdemRows
BY RequestFacts DEF IdemRow, IdemRows

\* Rows in h that were not written.
RowsStand(h) ==
  /\ \A row \in h \cap IdemRows : idem'[row] = idem[row]
  /\ \A l \in Branches, p \in Products : BalanceRow(l, p) \in h => balance'[l][p] = balance[l][p]
  /\ \A i \in 1..MaxOps : ReversalRow(i) \in h /\ ~L!Reversed(i) => ~L!Reversed(i)'

\* A movement on rows that were not written stays as it was recorded.
LEMMA DoneStands ==
  ASSUME LP!IInv, NEW q, Posed(q), NEW h, NEW w, NEW p \in Products, Done(q, h, w, p),
         Grown, RowsStand(h)
  PROVE  Done(q, h, w, p)'
<1> DEFINE m == MovesOf(q)[p]
<1>1. MovesOf(q)' = MovesOf(q)
  BY RequestStands
<1>2. \A l \in Endpoints(m) : balance'[l][p] = balance[l][p]
  BY MovementFacts DEF Done, RowsStand
<1>3. (m.source # Null => m.source \in Endpoints(m))
      /\ (m.destination # Null => m.destination \in Endpoints(m))
  BY DEF Endpoints
<1>4. L!Recorded(balance', p, m) = L!Recorded(balance, p, m)
  BY <1>2, <1>3 DEF L!Recorded
<1>5. m.source # Null => balance'[m.source][p] = balance[m.source][p]
  BY <1>2, <1>3
<1> QED BY <1>1, <1>4, <1>5 DEF Done

\* What a transaction relies on stands while nobody writes the rows it holds.
LEMMA FitsStand ==
  ASSUME LP!IInv, NEW p, NEW c, NEW left, NEW h, NEW w, SessionFits(p, c, left, h, w),
         Grown, RowsStand(h)
  PROVE  SessionFits(p, c, left, h, w)'
<1>1. CASE p = "idle"
  BY <1>1 DEF SessionFits
<1>2. CASE p # "idle"
  <2> DEFINE q == c.request
  <2>1. c.key \in Keys /\ Posed(q) /\ c.order \in Orders(q)
    BY <1>2 DEF SessionFits
  <2>2. /\ Posed(q)' /\ MovesOf(q)' = MovesOf(q) /\ Orders(q)' = Orders(q)
        /\ IdemRow(q, c.key)' = IdemRow(q, c.key)
    BY <2>1, RequestStands
  <2>3. KeyIsNew(c, h) => KeyIsNew(c, h)'
    BY <2>1, <2>2, IdemRowType DEF KeyIsNew, RowsStand
  <2>4. ASSUME MovesHold(q, left, h, w) PROVE MovesHold(q, left, h, w)'
    <3>1. IsReversal(q) => ReversalRow(q.reverses) \in h /\ ~L!Reversed(q.reverses)'
      <4> SUFFICES ASSUME IsReversal(q) PROVE ReversalRow(q.reverses) \in h /\ ~L!Reversed(q.reverses)'
        OBVIOUS
      <4>1. q.reverses \in 1..MaxOps
        BY <2>1, RequestKinds DEF Posed
      <4>2. ReversalRow(q.reverses) \in h /\ ~L!Reversed(q.reverses)
        BY <2>4 DEF MovesHold
      <4> QED BY <4>1, <4>2 DEF RowsStand
    <3>2. \A x \in Products \ Items(left) : Done(q, h, w, x)'
      BY <2>1, <2>4, DoneStands DEF MovesHold
    <3>3. ~IsReversal(q) => LockedInOrder(q, left, h)'
      BY <2>2, <2>4 DEF MovesHold, LockedInOrder
    <3> QED BY <3>1, <3>2, <3>3 DEF MovesHold
  <2> QED BY <1>2, <2>1, <2>2, <2>3, <2>4 DEF SessionFits
<1> QED BY <1>1, <1>2

\* What a session was told.
AnswerHolds(a) ==
  a # Null =>
    /\ Posed(a.request)
    /\ LET q == a.request
           known == idem[IdemRow(q, a.key)]
       IN /\ a.outcome = "DONE" =>
               known = [request |-> q, operation |-> a.operation] /\ a.operation \in 1..MaxOps
          /\ a.outcome = "IDEMPOTENCY_HASH_CONFLICT" => known # Null /\ known.request # q
          /\ a.outcome = "UNIQUE_VIOLATION" => L!Reversed(q.reverses)

\* AnswersAreTrue speaks of every answer one by one, and of the keys as a whole.
LEMMA AnswersSplit ==
  /\ AnswersAreTrue /\ RequestsPosed => \A s \in Sessions : AnswerHolds(answer[s])
  /\ KeyAppliedOnce /\ (\A s \in Sessions : AnswerHolds(answer[s])) => AnswersAreTrue
BY DEF AnswersAreTrue, RequestsPosed, AnswerHolds

\* It stays true: rows of idempotency_request are never changed, operations never removed.
LEMMA AnswerStands ==
  ASSUME LP!IInv, NEW a \in Answers \cup {Null}, AnswerHolds(a), Grown,
         \A row \in IdemRows : idem[row] # Null => idem'[row] = idem[row]
  PROVE  AnswerHolds(a)'
<1> SUFFICES ASSUME a # Null PROVE AnswerHolds(a)'
  BY DEF AnswerHolds
<1> DEFINE q == a.request
           row == IdemRow(q, a.key)
<1>1. Posed(q) /\ a.key \in Keys
  BY DEF AnswerHolds, Answers
<1>2. Posed(q)' /\ row' = row /\ row \in IdemRows
  BY <1>1, RequestStands, IdemRowType
<1>3. idem[row] # Null => idem'[row] = idem[row]
  BY <1>2
<1>4. L!Reversed(q.reverses) => L!Reversed(q.reverses)'
  BY DEF L!Reversed, Grown
<1>5. a.outcome = "DONE" => idem[row] # Null
  <2> SUFFICES ASSUME a.outcome = "DONE" PROVE idem[row] # Null
    OBVIOUS
  <2>1. idem[row] = [request |-> q, operation |-> a.operation] /\ a.operation \in 1..MaxOps
    BY DEF AnswerHolds
  <2>2. idem[row] \in IdempotencyRequests
    BY <1>1, <2>1 DEF IdempotencyRequests, Posed
  <2> QED BY <2>2, CommandsAssumption
<1> HIDE DEF row
<1> QED BY <1>1, <1>2, <1>3, <1>4, <1>5 DEF AnswerHolds, row

-----------------------------------------------------------------------------
(* A step of one session that commits nothing *)

\* What session s does not touch.
OthersStay(s) ==
  \A t \in Sessions \ {s} :
    /\ pc'[t] = pc[t] /\ call'[t] = call[t] /\ todo'[t] = todo[t]
    /\ held'[t] = held[t] /\ work'[t] = work[t] /\ answer'[t] = answer[t]

\* Another session is as it was, and so are the rows it holds.
LEMMA OtherSession ==
  ASSUME LP!IInv, NEW s, OthersStay(s), NEW t \in Sessions \ {s}, SessionHolds(t),
         Grown, RowsStand(held[t])
  PROVE  SessionHolds(t)'
<1>1. PICK p, c, left, h, w :
        p = pc[t] /\ c = call[t] /\ left = todo[t] /\ h = held[t] /\ w = work[t]
  OBVIOUS
<1>2. SessionFits(p, c, left, h, w)
  BY <1>1 DEF SessionHolds
<1>3. SessionFits(p, c, left, h, w)'
  BY <1>1, <1>2, FitsStand
<1>4. p = pc'[t] /\ c = call'[t] /\ left = todo'[t] /\ h = held'[t] /\ w = work'[t]
  BY <1>1 DEF OthersStay
<1> QED BY <1>3, <1>4 DEF SessionHolds

\* Nobody writes.
LEMMA Quiet ==
  ASSUME LP!IInv, UNCHANGED committed
  PROVE  Grown /\ LP!IInv' /\ \A h : RowsStand(h)
<1>1. balance' = balance /\ operations' = operations /\ idem' = idem
  BY DEF committed
<1>2. Grown
  BY <1>1, LedgerTypes DEF Grown
<1>3. LP!IInv'
  <2>1. UNCHANGED LP!ledgerVars
    BY <1>1 DEF LP!ledgerVars
  <2> QED BY <2>1, LedgerAssumed, LP!NextIInv, Zenon
<1>4. \A i : L!Reversed(i)' <=> L!Reversed(i)
  BY <1>1 DEF L!Reversed
<1> QED BY <1>1, <1>2, <1>3, <1>4 DEF RowsStand

\* A step of one session keeps the invariant if it leaves that session in order.
LEMMA LocalStep ==
  ASSUME IInv, Types', NEW s \in Sessions, UNCHANGED committed, OthersStay(s),
         SessionFits(pc'[s], call'[s], todo'[s], held'[s], work'[s]),
         AnswerHolds(answer'[s]),
         \A t \in Sessions \ {s} : held'[s] \cap held[t] = {},
         Bounded'
  PROVE  IInv'
<1>1. Grown /\ LP!IInv' /\ \A h : RowsStand(h)
  BY Quiet DEF IInv
<1>2. SessionHolds(s)'
  <2>1. PICK p, c, left, h, w :
          p = pc'[s] /\ c = call'[s] /\ left = todo'[s] /\ h = held'[s] /\ w = work'[s]
    OBVIOUS
  <2>2. SessionFits(p, c, left, h, w)
    BY <2>1
  <2>3. SessionFits(p, c, left, h, w)'
    BY <1>1, <2>2, FitsStand DEF IInv
  <2> QED BY <2>1, <2>3 DEF SessionHolds
<1>3. \A t \in Sessions \ {s} : SessionHolds(t)'
  BY <1>1, OtherSession DEF IInv
<1>4. LocksExclude'
  BY DEF IInv, LocksExclude, OthersStay
<1>5. balance' = balance /\ operations' = operations /\ idem' = idem
  BY DEF committed
<1>6. KeyAppliedOnce'
  BY <1>5 DEF IInv, AnswersAreTrue, KeyAppliedOnce, TypeOf, MovesOf, Reverses
<1>7. ASSUME NEW t \in Sessions PROVE AnswerHolds(answer[t])'
  <2>1. PICK a : a = answer'[t]
    OBVIOUS
  <2>2. AnswerHolds(a)
    <3>1. AnswerHolds(answer[t])
      BY AnswersSplit DEF IInv
    <3> QED BY <2>1, <3>1 DEF OthersStay
  <2>3. a \in Answers \cup {Null}
    BY <2>1 DEF Types
  <2>4. AnswerHolds(a)'
    BY <1>1, <1>5, <2>2, <2>3, AnswerStands DEF IInv
  <2> QED BY <2>1, <2>4
<1>8. AnswersAreTrue'
  BY <1>6, <1>7 DEF AnswersAreTrue, AnswerHolds
<1>9. RequestsPosed'
  <2>1. \A row \in IdemRows : idem'[row] # Null =>
          Posed(idem[row].request)' /\ idem'[row].operation \in 1..Len(operations')
    BY <1>5 DEF IInv, RequestsPosed, Posed
  <2>2. \A t \in Sessions : answer'[t] # Null =>
          /\ Posed(answer[t].request)'
          /\ answer'[t].outcome = "DONE" => answer'[t].operation \in 1..MaxOps
    BY <1>7 DEF AnswerHolds
  <2> QED BY <2>1, <2>2 DEF RequestsPosed
<1> QED BY <1>1, <1>2, <1>3, <1>4, <1>8, <1>9 DEF IInv

-----------------------------------------------------------------------------
(* Room for the operations to come *)

\* Sessions are finite, and so are those that may add.
LEMMA AddingFinite ==
  IsFiniteSet(Adding) /\ IsFiniteSet(Adding') /\ Cardinality(Adding) \in Nat
    /\ Cardinality(Adding') \in Nat
<1>1. Adding \subseteq Sessions /\ Adding' \subseteq Sessions
  BY DEF Adding
<1> QED BY <1>1, CommandsAssumption, FS_Subset, FS_CardinalityType

\* A request that goes on, or ends without a commit, needs no more room.
LEMMA QuietBounds ==
  ASSUME IInv, NEW s \in Sessions, UNCHANGED committed, OthersStay(s), pc[s] # "idle",
         pc'[s] = "idle" \/ call'[s] = call[s]
  PROVE  Bounded'
<1>1. operations' = operations /\ idem' = idem
  BY DEF committed
<1>2. \A q, key : IdemRow(q, key)' = IdemRow(q, key)
  BY <1>1 DEF IdemRow, TypeOf
<1>3. \A t \in Sessions \ {s} : pc'[t] = pc[t] /\ call'[t] = call[t]
  BY DEF OthersStay
<1>4. Adding' \subseteq Adding
  <2> SUFFICES ASSUME NEW t \in Sessions, pc'[t] # "idle",
                      (idem[IdemRow(call[t].request, call[t].key)] = Null)'
               PROVE  pc[t] # "idle" /\ idem[IdemRow(call[t].request, call[t].key)] = Null
    BY DEF Adding
  <2>1. call'[t] = call[t] /\ pc[t] # "idle"
    BY <1>3
  <2>2. PICK c : c = call[t]
    OBVIOUS
  <2>3. idem'[IdemRow(c.request, c.key)'] = Null
    BY <2>1, <2>2
  <2> QED BY <1>1, <1>2, <2>1, <2>2, <2>3
<1>5. Cardinality(Adding') <= Cardinality(Adding)
  BY <1>4, AddingFinite, FS_Subset
<1>6. Len(operations) \in Nat /\ MaxOps \in Nat
  BY LedgerTypes, CommandsAssumption DEF IInv
<1> QED BY <1>1, <1>5, <1>6, AddingFinite DEF IInv, Bounded

-----------------------------------------------------------------------------
(* Ends and retries *)

\* Nothing moved is no movement at all, whatever the balances.
LEMMA NoWorkIsBlank == NoWork = BlankWork /\ BlankWork \in [Products -> L!Movements]
<1>1. \A p : L!Recorded(balance, p, L!Move(0, Null, Null)) = Blank
  BY DEF L!Recorded, L!Move, Blank
<1>2. Blank \in L!Movements
  BY LedgerAssumed DEF Blank, L!Movements
<1> QED BY <1>1, <1>2 DEF NoWork, BlankWork

\* The call a session serves.
LEMMA ServedCall ==
  ASSUME IInv, NEW s \in Sessions, pc[s] # "idle"
  PROVE  /\ call[s].key \in Keys /\ Posed(call[s].request) /\ call[s].request \in Requests
         /\ call[s].order \in Orders(call[s].request)
         /\ IdemRow(call[s].request, call[s].key) \in IdemRows
<1>1. /\ call[s].key \in Keys /\ Posed(call[s].request)
      /\ call[s].order \in Orders(call[s].request)
  BY DEF IInv, SessionHolds, SessionFits
<1> QED BY <1>1, IdemRowType DEF IInv, Posed

\* A transaction that ends holds and keeps nothing.
LEMMA LeaveFacts ==
  ASSUME Types, NEW s \in Sessions, NEW next \in Steps, Leave(s, next)
  PROVE  /\ pc' \in [Sessions -> Steps] /\ pc'[s] = next
         /\ todo' \in [Sessions -> Seq(Products)] /\ todo'[s] = <<>>
         /\ held' \in [Sessions -> SUBSET LockRows] /\ held'[s] = {}
         /\ work' \in [Sessions -> [Products -> L!Movements]] /\ work'[s] = BlankWork
         /\ \A t \in Sessions \ {s} :
              pc'[t] = pc[t] /\ todo'[t] = todo[t] /\ held'[t] = held[t] /\ work'[t] = work[t]
<1>1. <<>> \in Seq(Products)
  OBVIOUS
<1> QED BY <1>1, NoWorkIsBlank DEF Types, Leave

\* A call ends: with an answer that is so, or as it was.
LEMMA CallEnds ==
  ASSUME IInv, NEW s \in Sessions, pc[s] # "idle", Leave(s, "idle"), Hangup(s),
         UNCHANGED committed, NEW a \in Answers \cup {Null}, AnswerHolds(a),
         answer' = [answer EXCEPT ![s] = a]
  PROVE  IInv'
<1>1. "idle" \in Steps /\ Types
  BY DEF Steps, IInv
<1>2. /\ pc' \in [Sessions -> Steps] /\ pc'[s] = "idle"
      /\ todo' \in [Sessions -> Seq(Products)] /\ todo'[s] = <<>>
      /\ held' \in [Sessions -> SUBSET LockRows] /\ held'[s] = {}
      /\ work' \in [Sessions -> [Products -> L!Movements]] /\ work'[s] = BlankWork
      /\ \A t \in Sessions \ {s} :
           pc'[t] = pc[t] /\ todo'[t] = todo[t] /\ held'[t] = held[t] /\ work'[t] = work[t]
  BY <1>1, LeaveFacts
<1>3. NoCall \in Calls /\ 0 \in 0..MaxAttempts
  <2>1. <<>> \in Seq(Products)
    OBVIOUS
  <2> QED BY <2>1, CommandsAssumption DEF NoCall, Calls
<1>4. idem' = idem
  BY DEF committed
<1>5. Types'
  BY <1>1, <1>2, <1>3, <1>4 DEF Types, Hangup
<1>6. OthersStay(s)
  BY <1>1, <1>2 DEF Types, OthersStay, Hangup
<1>7. SessionFits(pc'[s], call'[s], todo'[s], held'[s], work'[s])
  BY <1>2 DEF SessionFits
<1>8. AnswerHolds(answer'[s])
  BY <1>1 DEF Types
<1>9. Bounded'
  BY <1>2, <1>6, QuietBounds
<1> QED BY <1>2, <1>5, <1>6, <1>7, <1>8, <1>9, LocalStep

\* Ending a request with a true answer frees its session and leaves the others as they were.
LEMMA FinishStep ==
  ASSUME IInv, NEW s \in Sessions, pc[s] # "idle", NEW outcome \in Outcomes,
         NEW operation \in 0..MaxOps, Finish(s, outcome, operation),
         AnswerHolds([key |-> call[s].key, request |-> call[s].request,
                      outcome |-> outcome, operation |-> operation])
  PROVE  IInv'
<1>1. PICK a : a = [key |-> call[s].key, request |-> call[s].request,
                    outcome |-> outcome, operation |-> operation]
  OBVIOUS
<1>2. a \in Answers \cup {Null} /\ AnswerHolds(a)
  BY <1>1, ServedCall DEF Answers
<1>3. answer' = [answer EXCEPT ![s] = a]
  BY <1>1 DEF Finish, Answer
<1> QED BY <1>2, <1>3, CallEnds DEF Finish, Rollback

\* A request that ends with an error, its attempts used up, tells its client nothing about the
\* books.
LEMMA FailStep ==
  ASSUME IInv, NEW s \in Sessions, pc[s] # "idle", Fail(s)
  PROVE  IInv'
<1>1. PICK a : a = answer[s]
  OBVIOUS
<1>2. a \in Answers \cup {Null} /\ AnswerHolds(a)
  BY <1>1, AnswersSplit DEF IInv, Types
<1>3. answer' = [answer EXCEPT ![s] = a]
  BY <1>1 DEF Fail, IInv, Types
<1>4. UNCHANGED committed
  BY DEF Fail, committed
<1> QED BY <1>2, <1>3, <1>4, CallEnds DEF Fail, Rollback

\* retryTransactionOperation begins the transaction again, with nothing held and nothing
\* recorded.
LEMMA RetryStep ==
  ASSUME IInv, NEW s \in Sessions, pc[s] # "idle", Retry(s)
  PROVE  IInv'
<1>1. CASE ~(attempt[s] < MaxAttempts)
  BY <1>1, FailStep DEF Retry
<1>2. CASE attempt[s] < MaxAttempts
  <2>1. "begin" \in Steps /\ Types /\ UNCHANGED committed /\ Leave(s, "begin")
    BY <1>2 DEF Steps, IInv, Retry, Rollback, committed
  <2>2. /\ pc' \in [Sessions -> Steps] /\ pc'[s] = "begin"
        /\ todo' \in [Sessions -> Seq(Products)] /\ todo'[s] = <<>>
        /\ held' \in [Sessions -> SUBSET LockRows] /\ held'[s] = {}
        /\ work' \in [Sessions -> [Products -> L!Movements]] /\ work'[s] = BlankWork
        /\ \A t \in Sessions \ {s} :
             pc'[t] = pc[t] /\ todo'[t] = todo[t] /\ held'[t] = held[t] /\ work'[t] = work[t]
    BY <2>1, LeaveFacts
  <2>3. call' = call /\ answer' = answer /\ idem' = idem
        /\ attempt' = [attempt EXCEPT ![s] = @ + 1]
    BY <1>2 DEF Retry
  <2>4. attempt[s] + 1 \in 0..MaxAttempts
    BY <1>2, <2>1, CommandsAssumption DEF Types
  <2>5. Types'
    BY <2>1, <2>2, <2>3, <2>4 DEF Types
  <2>6. OthersStay(s)
    BY <2>2, <2>3 DEF OthersStay
  <2>7. SessionFits("begin", call[s], <<>>, {}, BlankWork)
    BY ServedCall DEF SessionFits
  <2>8. AnswerHolds(answer'[s])
    BY <2>3, AnswersSplit DEF IInv
  <2>9. Bounded'
    BY <2>1, <2>3, <2>6, QuietBounds
  <2> QED BY <2>1, <2>2, <2>3, <2>5, <2>6, <2>7, <2>8, <2>9, LocalStep
<1> QED BY <1>1, <1>2

-----------------------------------------------------------------------------
(* Calls, keys and operations *)

\* The products a request moves, in an order, are a sequence of them.
LEMMA OrderFacts ==
  ASSUME NEW q, NEW order \in Orders(q)
  PROVE  /\ order \in Seq(Products) /\ Items(order) = Moved(q)
         /\ ~IsReversal(q) => Sorted(order)
<1>1. IsFiniteSet(Moved(q))
  BY CommandsAssumption, FS_Subset DEF Moved
<1>2. Cardinality(Moved(q)) \in Nat
  BY <1>1, FS_CardinalityType
<1>3. order \in [1..Cardinality(Moved(q)) -> Moved(q)] /\ Moved(q) \subseteq Products
  BY DEF Orders, Moved
<1>4. order \in Seq(Products)
  BY <1>2, <1>3
<1> QED BY <1>4 DEF Orders, Items

\* The call has room, or asks for nothing new.
LEMMA CallBounds ==
  ASSUME IInv, NEW s \in Sessions, NEW key, NEW q, UNCHANGED committed, OthersStay(s),
         call'[s].key = key, call'[s].request = q,
         \/ Len(operations) + Cardinality({t \in Sessions : pc[t] # "idle"}) < MaxOps
         \/ idem[IdemRow(q, key)] # Null
  PROVE  Bounded'
<1> DEFINE Busy == {t \in Sessions : pc[t] # "idle"}
<1>1. operations' = operations /\ idem' = idem
  BY DEF committed
<1>2. \A r, k : IdemRow(r, k)' = IdemRow(r, k)
  BY <1>1 DEF IdemRow, TypeOf
<1>3. ASSUME NEW t \in Sessions \ {s}, t \in Adding' PROVE t \in Adding
  <2>1. pc'[t] = pc[t] /\ call'[t] = call[t]
    BY DEF OthersStay
  <2>2. PICK c : c = call[t]
    OBVIOUS
  <2>3. pc'[t] # "idle" /\ idem'[IdemRow(c.request, c.key)'] = Null
    BY <1>3, <2>1, <2>2 DEF Adding
  <2> QED BY <1>1, <1>2, <2>1, <2>2, <2>3 DEF Adding
<1>4. Len(operations) \in Nat /\ MaxOps \in Nat
  BY LedgerTypes, CommandsAssumption DEF IInv
<1>5. CASE idem[IdemRow(q, key)] # Null
  <2>1. s \notin Adding'
    <3>1. idem'[IdemRow(q, key)'] # Null
      BY <1>1, <1>2, <1>5
    <3> QED BY <3>1 DEF Adding
  <2>2. Adding' \subseteq Adding
    <3>1. Adding' \subseteq Sessions
      BY DEF Adding
    <3> QED BY <1>3, <2>1, <3>1
  <2>3. Cardinality(Adding') <= Cardinality(Adding)
    BY <2>2, AddingFinite, FS_Subset
  <2> QED BY <1>1, <1>4, <2>3, AddingFinite DEF IInv, Bounded
<1>6. CASE Len(operations) + Cardinality(Busy) < MaxOps
  <2>1. Adding' \subseteq Busy \cup {s}
    <3>1. Adding' \subseteq Sessions /\ Adding \subseteq Busy
      BY DEF Adding
    <3> QED BY <1>3, <3>1
  <2>2. IsFiniteSet(Busy)
    BY CommandsAssumption, FS_Subset
  <2> HIDE DEF Busy
  <2>3. IsFiniteSet(Busy \cup {s}) /\ Cardinality(Busy) \in Nat
        /\ Cardinality(Busy \cup {s}) <= Cardinality(Busy) + 1
    <3>1. Cardinality(Busy) \in Nat
      BY <2>2, FS_CardinalityType
    <3>2. /\ IsFiniteSet(Busy \cup {s})
          /\ Cardinality(Busy \cup {s})
               = IF s \in Busy THEN Cardinality(Busy) ELSE Cardinality(Busy) + 1
      BY <2>2, FS_AddElement
    <3> QED BY <3>1, <3>2
  <2>4. Cardinality(Adding') <= Cardinality(Busy \cup {s}) /\ Cardinality(Busy \cup {s}) \in Nat
    BY <2>1, <2>3, FS_Subset, FS_CardinalityType
  <2> QED BY <1>1, <1>4, <1>6, <2>3, <2>4, AddingFinite DEF Bounded
<1> QED BY <1>5, <1>6

\* A client sends a request under a key; its session holds nothing yet.
LEMMA CallStep ==
  ASSUME IInv, NEW s \in Sessions, NEW key \in Keys, NEW q \in Requests, Call(s, key, q)
  PROVE  IInv'
<1>1. /\ pc[s] = "idle" /\ Posed(q) /\ UNCHANGED committed
      /\ idem' = idem /\ todo' = todo /\ held' = held /\ work' = work
  BY DEF Call, Posed, committed
<1>2. PICK order \in Orders(q) :
        call' = [call EXCEPT ![s] = [key |-> key, request |-> q, order |-> order]]
  BY DEF Call
<1>3. PICK c : c = [key |-> key, request |-> q, order |-> order]
  OBVIOUS
<1>4. c \in Calls
  BY <1>3, OrderFacts DEF Calls
<1>5. Types /\ "begin" \in Steps /\ 1 \in 0..MaxAttempts
  BY CommandsAssumption DEF IInv, Steps
<1>6. Types'
  BY <1>1, <1>2, <1>3, <1>4, <1>5 DEF Types, Call
<1>7. OthersStay(s) /\ call'[s] = c /\ pc'[s] = "begin" /\ answer'[s] = Null
  BY <1>2, <1>3, <1>5 DEF Types, OthersStay, Call
<1>8. held[s] = {} /\ work[s] = BlankWork
  BY <1>1 DEF IInv, SessionHolds, SessionFits
<1>9. SessionFits("begin", c, todo[s], {}, BlankWork)
  BY <1>1, <1>3 DEF SessionFits
<1>10. AnswerHolds(answer'[s])
  BY <1>7 DEF AnswerHolds
<1>11. Bounded'
  <2>1. call'[s].key = key /\ call'[s].request = q
    BY <1>3, <1>7
  <2> QED BY <1>1, <1>7, <2>1, CallBounds DEF Call
<1> QED BY <1>1, <1>6, <1>7, <1>8, <1>9, <1>10, <1>11, LocalStep

\* The transaction of session s goes on: it may lock rows and record movements.
LEMMA GoesOn ==
  ASSUME IInv, NEW s \in Sessions, pc[s] # "idle",
         UNCHANGED <<balance, operations, idem, call, attempt, answer>>,
         NEW p \in Steps \ {"idle"}, NEW left \in Seq(Products), NEW h \in SUBSET LockRows,
         NEW w \in [Products -> L!Movements],
         pc' = [pc EXCEPT ![s] = p], todo' = [todo EXCEPT ![s] = left],
         held' = [held EXCEPT ![s] = h], work' = [work EXCEPT ![s] = w],
         SessionFits(p, call[s], left, h, w),
         \A t \in Sessions \ {s} : h \cap held[t] = {}
  PROVE  IInv'
<1>1. Types /\ UNCHANGED committed
  BY DEF IInv, committed
<1>2. Types'
  BY <1>1 DEF Types
<1>3. OthersStay(s) /\ pc'[s] = p /\ todo'[s] = left /\ held'[s] = h /\ work'[s] = w
  BY <1>1 DEF Types, OthersStay
<1>4. AnswerHolds(answer'[s])
  BY AnswersSplit DEF IInv
<1>5. Bounded'
  BY <1>1, <1>3, QuietBounds
<1> QED BY <1>1, <1>2, <1>3, <1>4, <1>5, LocalStep

\* The rows of a session apart from those of the others.
LEMMA HeldApart ==
  ASSUME IInv, NEW s \in Sessions, NEW rows, MayLock(s), rows \subseteq Wanted(s)
  PROVE  \A t \in Sessions \ {s} : (held[s] \cup rows) \cap held[t] = {}
BY DEF IInv, LocksExclude, MayLock, WaitsFor

\* A transaction takes its snapshot: nothing is stale for it.
LEMMA BeginStep ==
  ASSUME IInv, NEW s \in Sessions, Begin(s)
  PROVE  IInv'
<1>1. /\ pc[s] = "begin" /\ "acquire" \in Steps \ {"idle"} /\ Types
      /\ todo[s] \in Seq(Products) /\ held[s] \in SUBSET LockRows
      /\ work[s] \in [Products -> L!Movements]
      /\ pc' = [pc EXCEPT ![s] = "acquire"] /\ todo' = [todo EXCEPT ![s] = todo[s]]
      /\ held' = [held EXCEPT ![s] = held[s]] /\ work' = [work EXCEPT ![s] = work[s]]
      /\ UNCHANGED <<balance, operations, idem, call, attempt, answer>>
  BY DEF Begin, Steps, IInv, Types
<1>2. SessionFits("acquire", call[s], todo[s], held[s], work[s])
  BY <1>1 DEF IInv, SessionHolds, SessionFits
<1>3. \A t \in Sessions \ {s} : held[s] \cap held[t] = {}
  BY DEF IInv, LocksExclude
<1> QED BY <1>1, <1>2, <1>3, GoesOn

\* acquire inserts the row of a key no committed transaction has and no other session holds.
LEMMA AcquireStep ==
  ASSUME IInv, NEW s \in Sessions, Acquire(s)
  PROVE  IInv'
<1> DEFINE row == IdemRow(call[s].request, call[s].key)
<1>1. /\ pc[s] = "acquire" /\ "insert" \in Steps \ {"idle"} /\ Types
      /\ todo[s] \in Seq(Products) /\ work[s] \in [Products -> L!Movements]
      /\ pc' = [pc EXCEPT ![s] = "insert"] /\ todo' = [todo EXCEPT ![s] = todo[s]]
      /\ work' = [work EXCEPT ![s] = work[s]]
      /\ UNCHANGED <<balance, operations, idem, call, attempt, answer>>
  BY DEF Acquire, Steps, IInv, Types
<1>2. MayLock(s) /\ idem[row] = Null /\ Wanted(s) = {row}
  BY <1>1 DEF Acquire, Locks, Wanted
<1>3. held[s] = {} /\ work[s] = BlankWork
  BY <1>1 DEF IInv, SessionHolds, SessionFits
<1>4. held' = [held EXCEPT ![s] = {row}]
  BY <1>1, <1>2, <1>3 DEF Acquire, Locks, Types
<1>5. row \in IdemRows
  BY <1>1, ServedCall
<1>6. {row} \in SUBSET LockRows
  BY <1>5 DEF LockRows
<1>7. SessionFits("insert", call[s], todo[s], {row}, work[s])
  BY <1>1, <1>2, <1>3, ServedCall DEF SessionFits, KeyIsNew
<1>8. \A t \in Sessions \ {s} : {row} \cap held[t] = {}
  BY <1>2, <1>3, HeldApart
<1> HIDE DEF row
<1> QED BY <1>1, <1>4, <1>6, <1>7, <1>8, GoesOn

\* acquire finds the key: the stored answer, or the conflict of another content, is true.
LEMMA ReplayStep ==
  ASSUME IInv, NEW s \in Sessions, Replay(s)
  PROVE  IInv'
<1> DEFINE row == IdemRow(call[s].request, call[s].key)
           known == idem[row]
<1>1. pc[s] = "acquire" /\ pc[s] # "idle" /\ known # Null
  BY DEF Replay
<1>2. row \in IdemRows /\ Posed(call[s].request)
  BY <1>1, ServedCall
<1>3. known \in IdempotencyRequests
  BY <1>1, <1>2 DEF IInv, Types
<1>4. known.request \in Requests /\ known.operation \in 1..MaxOps
      /\ known = [request |-> known.request, operation |-> known.operation]
  BY <1>3 DEF IdempotencyRequests
<1>5. CASE known.request = call[s].request
  <2>1. Finish(s, "DONE", known.operation)
    BY <1>5 DEF Replay
  <2>2. known = [request |-> call[s].request, operation |-> known.operation]
    BY <1>4, <1>5
  <2>3. AnswerHolds([key |-> call[s].key, request |-> call[s].request,
                     outcome |-> "DONE", operation |-> known.operation])
    <3> HIDE DEF row
    <3> QED BY <1>2, <1>4, <2>2 DEF AnswerHolds, row
  <2>4. "DONE" \in Outcomes /\ known.operation \in 0..MaxOps
    BY <1>4, CommandsAssumption DEF Outcomes
  <2> QED BY <1>1, <2>1, <2>3, <2>4, FinishStep
<1>6. CASE known.request # call[s].request
  <2>1. Finish(s, "IDEMPOTENCY_HASH_CONFLICT", 0)
    BY <1>6 DEF Replay, Reject
  <2>2. AnswerHolds([key |-> call[s].key, request |-> call[s].request,
                     outcome |-> "IDEMPOTENCY_HASH_CONFLICT", operation |-> 0])
    BY <1>1, <1>2, <1>6 DEF AnswerHolds
  <2>3. "IDEMPOTENCY_HASH_CONFLICT" \in Outcomes /\ 0 \in 0..MaxOps
    BY CommandsAssumption DEF Outcomes
  <2> QED BY <1>1, <2>1, <2>2, <2>3, FinishStep
<1> QED BY <1>5, <1>6

\* The operation row is inserted, and for a reversal the target is unlike any reversed before.
LEMMA InsertOperationStep ==
  ASSUME IInv, NEW s \in Sessions, InsertOperation(s)
  PROVE  IInv'
<1> DEFINE q == call[s].request
           h == held[s] \cup Wanted(s)
<1>1. /\ pc[s] = "insert" /\ pc[s] # "idle" /\ "move" \in Steps \ {"idle"} /\ Types
      /\ work[s] \in [Products -> L!Movements]
      /\ pc' = [pc EXCEPT ![s] = "move"] /\ todo' = [todo EXCEPT ![s] = call[s].order]
      /\ held' = [held EXCEPT ![s] = h] /\ work' = [work EXCEPT ![s] = work[s]]
      /\ UNCHANGED <<balance, operations, idem, call, attempt, answer>>
      /\ MayLock(s) /\ ~(IsReversal(q) /\ L!Reversed(q.reverses))
  BY DEF InsertOperation, Steps, IInv, Types
<1>2. /\ Posed(q) /\ call[s].order \in Orders(q)
      /\ call[s].key \in Keys /\ IdemRow(q, call[s].key) \in IdemRows /\ q \in Requests
  BY <1>1, ServedCall
<1>3. /\ held[s] = {IdemRow(q, call[s].key)} /\ work[s] = BlankWork
      /\ KeyIsNew(call[s], held[s])
  BY <1>1 DEF IInv, SessionHolds, SessionFits
<1>4. Wanted(s) = IF IsReversal(q) THEN {ReversalRow(q.reverses)} ELSE {}
  BY <1>1 DEF Wanted
<1>5. h \in SUBSET LockRows
  BY <1>2, <1>3, <1>4, RequestKinds DEF LockRows
<1>6. call[s].order \in Seq(Products) /\ Items(call[s].order) = Moved(q)
      /\ (~IsReversal(q) => Sorted(call[s].order))
  BY <1>2, OrderFacts
<1>7. IsReversal(q) => ReversalRow(q.reverses) \in h /\ ~L!Reversed(q.reverses)
  BY <1>1, <1>4
<1>8. \A p \in Products \ Items(call[s].order) : Done(q, h, work[s], p)
  BY <1>2, <1>3, <1>6, UnmovedProduct DEF Done, BlankWork, IInv
<1>9. ~IsReversal(q) => LockedInOrder(q, call[s].order, h)
  <2>1. ~IsReversal(q) => \A l, p : BalanceRow(l, p) \notin h
    BY <1>3, <1>4 DEF BalanceRow, IdemRow
  <2> QED BY <1>6, <2>1 DEF LockedInOrder
<1>10. KeyIsNew(call[s], h)
  BY <1>3 DEF KeyIsNew
<1>11. \A t \in Sessions \ {s} : h \cap held[t] = {}
  BY <1>1, HeldApart
<1> HIDE DEF h
<1>12. SessionFits("move", call[s], call[s].order, h, work[s])
  BY <1>2, <1>7, <1>8, <1>9, <1>10 DEF SessionFits, MovesHold
<1> QED BY <1>1, <1>5, <1>6, <1>11, <1>12, GoesOn

\* A second reversal of one operation is refused, and answered so.
LEMMA AlreadyReversedStep ==
  ASSUME IInv, NEW s \in Sessions, AlreadyReversed(s)
  PROVE  IInv'
<1>1. /\ pc[s] # "idle" /\ L!Reversed(call[s].request.reverses)
      /\ Finish(s, "UNIQUE_VIOLATION", 0)
  BY DEF AlreadyReversed, Reject
<1>2. AnswerHolds([key |-> call[s].key, request |-> call[s].request,
                   outcome |-> "UNIQUE_VIOLATION", operation |-> 0])
  BY <1>1, ServedCall DEF AnswerHolds
<1>3. "UNIQUE_VIOLATION" \in Outcomes /\ 0 \in 0..MaxOps
  BY CommandsAssumption DEF Outcomes
<1> QED BY <1>1, <1>2, <1>3, FinishStep

-----------------------------------------------------------------------------
(* Movements *)

\* The products left after the next one.
LEMMA TailFacts ==
  ASSUME NEW left \in Seq(Products), left # <<>>
  PROVE  /\ Head(left) \in Products /\ Tail(left) \in Seq(Products)
         /\ Items(left) = {Head(left)} \cup Items(Tail(left))
         /\ Sorted(left) =>
              Sorted(Tail(left)) /\ \A x \in Items(Tail(left)) : Rank[Head(left)] < Rank[x]
<1>1. /\ Head(left) = left[1] /\ Head(left) \in Products /\ Tail(left) \in Seq(Products)
      /\ Len(left) \in Nat \ {0} /\ Len(Tail(left)) = Len(left) - 1
      /\ \A i \in 1..Len(left) - 1 : Tail(left)[i] = left[i + 1]
      /\ DOMAIN left = 1..Len(left) /\ DOMAIN Tail(left) = 1..Len(left) - 1
  OBVIOUS
<1>2. Items(Tail(left)) = {left[i + 1] : i \in 1..Len(left) - 1}
  BY <1>1 DEF Items
<1>3. Items(left) \subseteq {Head(left)} \cup Items(Tail(left))
  <2> SUFFICES ASSUME NEW i \in 1..Len(left), i # 1 PROVE left[i] \in Items(Tail(left))
    BY <1>1 DEF Items
  <2>1. i - 1 \in 1..Len(left) - 1 /\ i = (i - 1) + 1
    BY <1>1
  <2> QED BY <1>2, <2>1
<1>4. {Head(left)} \cup Items(Tail(left)) \subseteq Items(left)
  <2>1. \A i \in 1..Len(left) - 1 : i + 1 \in 1..Len(left)
    BY <1>1
  <2> QED BY <1>1, <1>2, <2>1 DEF Items
<1>5. ASSUME Sorted(left)
      PROVE  Sorted(Tail(left)) /\ \A x \in Items(Tail(left)) : Rank[Head(left)] < Rank[x]
  <2>1. \A i, j \in 1..Len(left) : i < j => Rank[left[i]] < Rank[left[j]]
    BY <1>1, <1>5 DEF Sorted
  <2>2. ASSUME NEW i \in 1..Len(left) - 1, NEW j \in 1..Len(left) - 1, i < j
        PROVE  Rank[Tail(left)[i]] < Rank[Tail(left)[j]]
    <3>1. i + 1 \in 1..Len(left) /\ j + 1 \in 1..Len(left) /\ i + 1 < j + 1
      BY <1>1, <2>2
    <3> QED BY <1>1, <2>1, <3>1
  <2>3. ASSUME NEW i \in 1..Len(left) - 1 PROVE Rank[Head(left)] < Rank[left[i + 1]]
    <3>1. 1 \in 1..Len(left) /\ i + 1 \in 1..Len(left) /\ 1 < i + 1
      BY <1>1
    <3> QED BY <1>1, <2>1, <3>1
  <2> QED BY <1>1, <1>2, <2>2, <2>3 DEF Sorted
<1> QED BY <1>1, <1>3, <1>4, <1>5

\* What a session that moves products has done.
LEMMA MovingFacts ==
  ASSUME IInv, NEW s \in Sessions, pc[s] = "move"
  PROVE  /\ Posed(call[s].request) /\ KeyIsNew(call[s], held[s])
         /\ MovesHold(call[s].request, todo[s], held[s], work[s])
         /\ todo[s] \in Seq(Products) /\ held[s] \in SUBSET LockRows
         /\ work[s] \in [Products -> L!Movements] /\ LP!IInv
BY DEF IInv, Types, SessionHolds, SessionFits

\* The rows of the next product that are not locked yet.
LEMMA UnlockedIs ==
  ASSUME NEW s
  PROVE  Unlocked(s) = {l \in Endpoints(MovesOf(call[s].request)[Head(todo[s])]) :
                          BalanceRow(l, Head(todo[s])) \notin held[s]}
BY DEF Unlocked, Endpoints

\* The row applyMovement locks next is the first one, by location, of its product.
LEMMA NextRowFacts ==
  ASSUME IInv, NEW s \in Sessions, pc[s] = "move", todo[s] # <<>>, Unlocked(s) # {}
  PROVE  \E l \in Unlocked(s) :
           /\ NextRow(s) = BalanceRow(l, Head(todo[s]))
           /\ l \in Branches /\ \A y \in Unlocked(s) : Rank[l] <= Rank[y]
<1> DEFINE m == MovesOf(call[s].request)[Head(todo[s])]
           First(x) == x \in Unlocked(s) /\ \A y \in Unlocked(s) : Rank[x] <= Rank[y]
<1>1. Unlocked(s) \subseteq {m.source, m.destination} /\ Unlocked(s) \subseteq Branches
  <2>1. Head(todo[s]) \in Products
    BY MovingFacts, TailFacts
  <2>2. Endpoints(m) \subseteq Branches
    BY <2>1, MovingFacts, MovementFacts
  <2> QED BY <2>2, UnlockedIs DEF Endpoints
<1>2. \A x \in Unlocked(s) : Rank[x] \in Nat
  BY <1>1, CommandsAssumption
<1>3. \E x \in Unlocked(s) : First(x)
  <2>1. PICK a \in Unlocked(s) : TRUE
    OBVIOUS
  <2>2. CASE \E y \in Unlocked(s) : ~(Rank[a] <= Rank[y])
    <3>1. PICK y \in Unlocked(s) : ~(Rank[a] <= Rank[y])
      BY <2>2
    <3>2. a # y /\ Rank[y] <= Rank[a] /\ Rank[y] <= Rank[y]
      BY <1>2, <3>1
    <3>3. Unlocked(s) = {a, y}
      BY <1>1, <3>2
    <3> QED BY <3>2, <3>3
  <2>3. CASE \A y \in Unlocked(s) : Rank[a] <= Rank[y]
    BY <2>3
  <2> QED BY <2>2, <2>3
<1>4. PICK l : l = CHOOSE x \in Unlocked(s) : \A y \in Unlocked(s) : Rank[x] <= Rank[y]
  OBVIOUS
<1>5. First(l)
  BY <1>3, <1>4
<1>6. NextRow(s) = BalanceRow(l, Head(todo[s]))
  BY <1>4 DEF NextRow
<1> QED BY <1>1, <1>5, <1>6

\* The next row is locked in order, and nobody else holds it.
LEMMA LockBalanceStep ==
  ASSUME IInv, NEW s \in Sessions, LockBalance(s)
  PROVE  IInv'
<1> DEFINE q == call[s].request
           left == todo[s]
           h == held[s] \cup Wanted(s)
<1>1. /\ pc[s] = "move" /\ pc[s] # "idle" /\ "move" \in Steps \ {"idle"} /\ Types
      /\ pc' = [pc EXCEPT ![s] = "move"] /\ todo' = [todo EXCEPT ![s] = todo[s]]
      /\ held' = [held EXCEPT ![s] = h] /\ work' = [work EXCEPT ![s] = work[s]]
      /\ UNCHANGED <<balance, operations, idem, call, attempt, answer>>
      /\ MayLock(s) /\ left # <<>> /\ Unlocked(s) # {}
  BY DEF LockBalance, Locks, Steps, IInv, Types
<1>2. /\ Posed(q) /\ KeyIsNew(call[s], held[s]) /\ MovesHold(q, left, held[s], work[s])
      /\ left \in Seq(Products) /\ held[s] \in SUBSET LockRows
      /\ work[s] \in [Products -> L!Movements] /\ LP!IInv
  BY <1>1, MovingFacts
<1>3. PICK p : p = Head(left)
  OBVIOUS
<1>4. p \in Products
  BY <1>1, <1>2, <1>3, TailFacts
<1>5. PICK l \in Unlocked(s) : /\ NextRow(s) = BalanceRow(l, p)
                               /\ l \in Branches /\ \A y \in Unlocked(s) : Rank[l] <= Rank[y]
  BY <1>1, <1>3, NextRowFacts
<1>6. Wanted(s) = {BalanceRow(l, p)}
  BY <1>1, <1>5 DEF Wanted
<1>7. h = held[s] \cup {BalanceRow(l, p)}
  BY <1>6
<1>8. h \in SUBSET LockRows
  BY <1>2, <1>4, <1>5, <1>7 DEF LockRows
<1>9. \A t \in Sessions \ {s} : h \cap held[t] = {}
  BY <1>1, HeldApart
<1> HIDE DEF h
<1>10. KeyIsNew(call[s], h)
  BY <1>2, <1>7 DEF KeyIsNew
<1>11. IsReversal(q) => ReversalRow(q.reverses) \in h /\ ~L!Reversed(q.reverses)
  BY <1>2, <1>7 DEF MovesHold
<1>12. \A x \in Products \ Items(left) : Done(q, h, work[s], x)
  BY <1>2, <1>7 DEF MovesHold, Done
<1>13. ASSUME ~IsReversal(q) PROVE LockedInOrder(q, left, h)
  <2>1. LockedInOrder(q, left, held[s])
    BY <1>2, <1>13 DEF MovesHold
  <2>2. Sorted(left)
    BY <2>1 DEF LockedInOrder
  <2>3. ASSUME NEW k \in Branches, NEW x \in Products, BalanceRow(k, x) \in h
        PROVE  \/ \A y \in Items(left) : Rank[x] < Rank[y]
               \/ /\ left # <<>> /\ x = Head(left)
                  /\ \A y \in Endpoints(MovesOf(q)[x]) : BalanceRow(y, x) \notin h => Rank[k] < Rank[y]
    <3>1. CASE BalanceRow(k, x) \in held[s]
      BY <1>7, <2>1, <3>1 DEF LockedInOrder
    <3>2. CASE BalanceRow(k, x) = BalanceRow(l, p)
      <4>1. k = l /\ x = p
        BY <3>2 DEF BalanceRow
      <4>2. ASSUME NEW y \in Endpoints(MovesOf(q)[p]), BalanceRow(y, p) \notin h
            PROVE  Rank[l] < Rank[y]
        <5>1. y \in Unlocked(s) /\ y # l
          BY <1>3, <1>7, <4>2, UnlockedIs
        <5>2. y \in Branches
          BY <1>2, <1>4, <4>2, MovementFacts
        <5>3. Rank[l] <= Rank[y] /\ Rank[l] # Rank[y] /\ Rank[l] \in Nat /\ Rank[y] \in Nat
          BY <1>5, <5>1, <5>2, CommandsAssumption
        <5> QED BY <5>3
      <4> QED BY <1>1, <1>3, <4>1, <4>2
    <3> QED BY <1>7, <2>3, <3>1, <3>2
  <2> QED BY <2>2, <2>3 DEF LockedInOrder
<1>14. SessionFits("move", call[s], left, h, work[s])
  BY <1>1, <1>2, <1>10, <1>11, <1>12, <1>13, ServedCall DEF SessionFits, MovesHold
<1> QED BY <1>1, <1>2, <1>8, <1>9, <1>14, GoesOn

\* applyMovement changes rows the session holds and records the balances it wrote.
LEMMA ApplyMovementStep ==
  ASSUME IInv, NEW s \in Sessions, ApplyMovement(s)
  PROVE  IInv'
<1>1. PICK q, left, h : q = call[s].request /\ left = todo[s] /\ h = held[s]
  OBVIOUS
<1>2. PICK p : p = Head(left)
  OBVIOUS
<1>3. PICK w : w = [work[s] EXCEPT ![p] = L!Recorded(balance, p, MovesOf(q)[p])]
  OBVIOUS
<1>4. /\ pc[s] = "move" /\ pc[s] # "idle" /\ "move" \in Steps \ {"idle"} /\ Types
      /\ pc' = [pc EXCEPT ![s] = "move"] /\ todo' = [todo EXCEPT ![s] = Tail(left)]
      /\ held' = [held EXCEPT ![s] = h] /\ work' = [work EXCEPT ![s] = w]
      /\ UNCHANGED <<balance, operations, idem, call, attempt, answer>>
      /\ left # <<>> /\ Unlocked(s) = {} /\ Enough(s, p)
  BY <1>1, <1>2, <1>3 DEF ApplyMovement, Steps, IInv, Types
<1>5. /\ Posed(q) /\ KeyIsNew(call[s], h) /\ MovesHold(q, left, h, work[s])
      /\ left \in Seq(Products) /\ h \in SUBSET LockRows
      /\ work[s] \in [Products -> L!Movements] /\ LP!IInv
  BY <1>1, <1>4, MovingFacts
<1>6. /\ p \in Products /\ Tail(left) \in Seq(Products)
      /\ Items(left) = {p} \cup Items(Tail(left))
      /\ Sorted(left) =>
           Sorted(Tail(left)) /\ \A x \in Items(Tail(left)) : Rank[p] < Rank[x]
  BY <1>2, <1>4, <1>5, TailFacts
<1>7. PICK m : m = MovesOf(q)[p]
  OBVIOUS
<1>8. /\ m.quantity \in Nat
      /\ m.source \in Branches \cup {Null} /\ m.destination \in Branches \cup {Null}
  BY <1>5, <1>6, <1>7, MovementFacts
<1>9. m.source # Null => balance[m.source][p] >= m.quantity
  BY <1>1, <1>4, <1>7 DEF Enough
<1>10. L!Recorded(balance, p, m) \in L!Movements
  <2>1. \A l \in Branches : balance[l][p] \in Nat
    BY <1>5, <1>6, LedgerTypes
  <2>2. m.source # Null => balance[m.source][p] - m.quantity \in Nat
    BY <1>8, <1>9, <2>1
  <2>3. m.destination # Null => balance[m.destination][p] + m.quantity \in Nat
    BY <1>8, <2>1
  <2>4. m.source \in L!Endpoints /\ m.destination \in L!Endpoints
    BY <1>8, LedgerAssumed
  <2> QED BY <1>8, <2>2, <2>3, <2>4 DEF L!Recorded, L!Movements
<1>11. w \in [Products -> L!Movements]
  BY <1>3, <1>5, <1>7, <1>10
<1>12. Done(q, h, w, p)
  <2>1. \A l \in Endpoints(m) : BalanceRow(l, p) \in h
    BY <1>1, <1>2, <1>4, <1>7, UnlockedIs
  <2>2. w[p] = L!Recorded(balance, p, m)
    BY <1>3, <1>5, <1>6, <1>7
  <2> QED BY <1>7, <1>9, <2>1, <2>2 DEF Done
<1>13. ASSUME NEW x \in Products \ Items(Tail(left)) PROVE Done(q, h, w, x)
  <2>1. CASE x = p
    BY <1>12, <2>1
  <2>2. CASE x # p
    <3>1. Done(q, h, work[s], x)
      BY <1>5, <1>6, <2>2 DEF MovesHold
    <3>2. w[x] = work[s][x]
      BY <1>3, <1>5, <2>2
    <3> QED BY <3>1, <3>2 DEF Done
  <2> QED BY <2>1, <2>2
<1>14. ASSUME ~IsReversal(q) PROVE LockedInOrder(q, Tail(left), h)
  BY <1>2, <1>5, <1>6, <1>14 DEF MovesHold, LockedInOrder
<1>15. SessionFits("move", call[s], Tail(left), h, w)
  <2>1. /\ call[s].key \in Keys /\ Posed(call[s].request)
        /\ call[s].order \in Orders(call[s].request)
    BY <1>4, ServedCall
  <2>2. MovesHold(q, Tail(left), h, w)
    BY <1>5, <1>13, <1>14 DEF MovesHold
  <2> QED BY <1>1, <1>5, <2>1, <2>2 DEF SessionFits
<1>16. \A t \in Sessions \ {s} : h \cap held[t] = {}
  BY <1>1 DEF IInv, LocksExclude
<1> QED BY <1>4, <1>5, <1>6, <1>11, <1>15, <1>16, GoesOn

\* A movement the balance does not cover ends the request with nothing written.
LEMMA InsufficientInventoryStep ==
  ASSUME IInv, NEW s \in Sessions, InsufficientInventory(s)
  PROVE  IInv'
<1>1. pc[s] # "idle" /\ Finish(s, "INSUFFICIENT_INVENTORY", 0)
  BY DEF InsufficientInventory, Reject
<1>2. AnswerHolds([key |-> call[s].key, request |-> call[s].request,
                   outcome |-> "INSUFFICIENT_INVENTORY", operation |-> 0])
  BY <1>1, ServedCall DEF AnswerHolds
<1>3. "INSUFFICIENT_INVENTORY" \in Outcomes /\ 0 \in 0..MaxOps
  BY CommandsAssumption DEF Outcomes
<1> QED BY <1>1, <1>2, <1>3, FinishStep

\* complete stores the result in the row of the key the session holds.
LEMMA CompleteStep ==
  ASSUME IInv, NEW s \in Sessions, Complete(s)
  PROVE  IInv'
<1>1. /\ pc[s] = "move" /\ pc[s] # "idle" /\ "commit" \in Steps \ {"idle"} /\ todo[s] = <<>>
      /\ pc' = [pc EXCEPT ![s] = "commit"] /\ todo' = [todo EXCEPT ![s] = todo[s]]
      /\ held' = [held EXCEPT ![s] = held[s]] /\ work' = [work EXCEPT ![s] = work[s]]
      /\ UNCHANGED <<balance, operations, idem, call, attempt, answer>>
  BY DEF Complete, Steps, IInv, Types
<1>2. /\ KeyIsNew(call[s], held[s])
      /\ MovesHold(call[s].request, todo[s], held[s], work[s])
      /\ todo[s] \in Seq(Products) /\ held[s] \in SUBSET LockRows
      /\ work[s] \in [Products -> L!Movements]
  BY <1>1, MovingFacts
<1>3. SessionFits("commit", call[s], todo[s], held[s], work[s])
  BY <1>1, <1>2, ServedCall DEF SessionFits
<1>4. \A t \in Sessions \ {s} : held[s] \cap held[t] = {}
  BY DEF IInv, LocksExclude
<1> QED BY <1>1, <1>2, <1>3, <1>4, GoesOn

-----------------------------------------------------------------------------
(* The commit *)

\* A transaction about to commit relies on all its movements, and there is room for it.
LEMMA ReadyToCommit ==
  ASSUME IInv, NEW s \in Sessions, pc[s] = "commit"
  PROVE  /\ LP!IInv /\ Posed(call[s].request) /\ call[s].request \in Requests
         /\ call[s].key \in Keys /\ IdemRow(call[s].request, call[s].key) \in IdemRows
         /\ KeyIsNew(call[s], held[s])
         /\ \A p \in Products : Done(call[s].request, held[s], work[s], p)
         /\ IsReversal(call[s].request) =>
              /\ ReversalRow(call[s].request.reverses) \in held[s]
              /\ ~L!Reversed(call[s].request.reverses)
         /\ s \in Adding /\ Len(operations) < MaxOps /\ Len(operations) + 1 \in 1..MaxOps
<1>1. /\ KeyIsNew(call[s], held[s]) /\ todo[s] = <<>>
      /\ MovesHold(call[s].request, todo[s], held[s], work[s])
  BY DEF IInv, SessionHolds, SessionFits
<1>2. Items(todo[s]) = {}
  BY <1>1 DEF Items
<1>3. s \in Adding
  BY <1>1 DEF Adding, KeyIsNew
<1>4. Cardinality(Adding) # 0
  BY <1>3, AddingFinite, FS_EmptySet
<1>5. Len(operations) \in Nat /\ MaxOps \in Nat
  BY LedgerTypes, CommandsAssumption DEF IInv
<1>6. Len(operations) < MaxOps /\ Len(operations) + 1 \in 1..MaxOps
  BY <1>4, <1>5, AddingFinite DEF IInv, Bounded
<1> QED BY <1>1, <1>2, <1>3, <1>6, ServedCall DEF IInv, MovesHold

\* What was recorded is the request's movements on the balances as they are.
LEMMA RecordedAll ==
  ASSUME IInv, NEW s \in Sessions, pc[s] = "commit"
  PROVE  /\ work[s] = [p \in Products |-> L!Recorded(balance, p, MovesOf(call[s].request)[p])]
         /\ L!Covered(balance, MovesOf(call[s].request))
<1>1. work[s] \in [Products -> L!Movements]
  BY DEF IInv, Types
<1>2. \A p \in Products : Done(call[s].request, held[s], work[s], p)
  BY ReadyToCommit
<1>3. \A p \in Products : work[s][p] = L!Recorded(balance, p, MovesOf(call[s].request)[p])
  BY <1>2 DEF Done
<1> QED BY <1>1, <1>2, <1>3 DEF Done, L!Covered

\* The balances its updates returned are those of the ledger after the movements.
LEMMA BalancesApply ==
  ASSUME IInv, NEW s \in Sessions, pc[s] = "commit"
  PROVE  Balances(work[s]) = L!ApplyMoves(balance, MovesOf(call[s].request))
<1>1. PICK q : q = call[s].request
  OBVIOUS
<1>2. LP!IInv /\ Posed(q)
  BY <1>1, ReadyToCommit
<1>3. ASSUME NEW l \in Branches, NEW p \in Products
      PROVE  Balances(work[s])[l][p] = balance[l][p] + L!Delta(MovesOf(q)[p], l)
  <2>1. PICK m : m = MovesOf(q)[p]
    OBVIOUS
  <2>2. PICK r : r = work[s][p]
    OBVIOUS
  <2>3. r = L!Recorded(balance, p, m)
    BY <1>1, <2>1, <2>2, RecordedAll
  <2>4. /\ m.quantity \in Nat /\ balance[l][p] \in Nat /\ l # Null
        /\ m.source = l => m.destination # l
    <3>1. m.quantity \in Nat /\ (m.quantity = 0 <=> m.source = m.destination)
      BY <1>2, <2>1, MovementFacts
    <3>2. m.quantity = 0 => m.source = Null
      BY <1>2, <2>1, <3>1, UnmovedProduct DEF Moved
    <3> QED BY <1>2, <3>1, <3>2, LedgerTypes, CommandsAssumption
  <2>5. /\ r.source = m.source /\ r.destination = m.destination
        /\ m.source # Null => r.sourceAfter = balance[m.source][p] - m.quantity
        /\ m.destination # Null => r.destinationAfter = balance[m.destination][p] + m.quantity
    BY <2>3 DEF L!Recorded
  <2>6. Balances(work[s])[l][p] =
          CASE r.source = l -> r.sourceAfter
            [] r.destination = l -> r.destinationAfter
            [] OTHER -> balance[l][p]
    BY <2>2 DEF Balances
  <2>7. CASE m.source = l
    BY <2>1, <2>4, <2>5, <2>6, <2>7 DEF L!Delta
  <2>8. CASE m.source # l /\ m.destination = l
    BY <2>1, <2>4, <2>5, <2>6, <2>8 DEF L!Delta
  <2>9. CASE m.source # l /\ m.destination # l
    BY <2>1, <2>4, <2>5, <2>6, <2>9 DEF L!Delta
  <2> QED BY <2>7, <2>8, <2>9
<1> QED BY <1>1, <1>3, LedgerAssumed DEF Balances, L!ApplyMoves

\* A commit is one step of the ledger.
LEMMA CommitPosts ==
  ASSUME IInv, NEW s \in Sessions, Commit(s)
  PROVE  L!Next
<1>1. PICK q : q = call[s].request
  OBVIOUS
<1>2. pc[s] = "commit"
  BY DEF Commit
<1>3. Posed(q) /\ q \in Requests /\ Len(operations) < MaxOps
      /\ (IsReversal(q) => ~L!Reversed(q.reverses))
  BY <1>1, <1>2, ReadyToCommit
<1>4. L!Post(TypeOf(q), MovesOf(q), Reverses(q))
  <2>1. balance' = L!ApplyMoves(balance, MovesOf(q))
    BY <1>1, <1>2, BalancesApply DEF Commit
  <2>2. work[s] = [p \in Products |-> L!Recorded(balance, p, MovesOf(q)[p])]
        /\ L!Covered(balance, MovesOf(q))
    BY <1>1, <1>2, RecordedAll
  <2>3. operations' =
          Append(operations, [type |-> TypeOf(q), reverses |-> Reverses(q), moves |-> work[s]])
    BY <1>1 DEF Commit
  <2>4. operations' =
          Append(operations, L!NewOperation(balance, TypeOf(q), MovesOf(q), Reverses(q)))
    BY <2>2, <2>3 DEF L!NewOperation
  <2> QED BY <1>3, <2>1, <2>2, <2>4 DEF L!Post
<1>5. CASE IsReversal(q)
  <2>1. q.reverses \in 1..Len(operations) /\ q.reverses \in 1..MaxOps /\ ~IsTransfer(q)
    BY <1>3, <1>5, RequestKinds DEF Posed
  <2>2. L!Reverse(q.reverses)
    BY <1>3, <1>4, <1>5, <2>1 DEF L!Reverse, TypeOf, MovesOf, Reverses
  <2> QED BY <2>1, <2>2 DEF L!Next
<1>6. CASE ~IsReversal(q) /\ IsTransfer(q)
  <2>1. /\ q.source \in Branches /\ q.destination \in Branches /\ q.lines \in L!Lines
        /\ q.source # q.destination
    BY <1>3, <1>6, RequestKinds
  <2>2. L!CreateTransfer(q.source, q.destination, q.lines)
    BY <1>4, <1>6, <2>1 DEF L!CreateTransfer, TypeOf, MovesOf, Reverses
  <2> QED BY <2>1, <2>2 DEF L!Next
<1>7. CASE ~IsReversal(q) /\ ~IsTransfer(q)
  <2>1. q.type \in L!BranchOperationTypes /\ q.branch \in Branches /\ q.lines \in L!Lines
    BY <1>3, <1>7, RequestKinds
  <2>2. L!CreateBranchOperation(q.type, q.branch, q.lines)
    BY <1>4, <1>7 DEF L!CreateBranchOperation, TypeOf, MovesOf, Reverses
  <2> QED BY <2>1, <2>2 DEF L!Next
<1> QED BY <1>5, <1>6, <1>7

\* What a commit adds.
LEMMA CommitAdds ==
  ASSUME IInv, NEW s \in Sessions, Commit(s)
  PROVE  /\ LP!IInv' /\ Grown /\ Len(operations') = Len(operations) + 1
         /\ operations'[Len(operations) + 1].type = TypeOf(call[s].request)
         /\ operations'[Len(operations) + 1].reverses = Reverses(call[s].request)
         /\ operations'[Len(operations) + 1].moves = work[s]
<1>1. LP!IInv'
  <2>1. LP!Next
    BY CommitPosts, SameSteps
  <2>2. LP!IInv
    BY DEF IInv
  <2> QED BY <2>1, <2>2, LedgerAssumed, LP!NextIInv, Zenon
<1>2. PICK new : new = [ type |-> TypeOf(call[s].request),
                         reverses |-> Reverses(call[s].request), moves |-> work[s] ]
  OBVIOUS
<1>3. operations' = Append(operations, new)
  BY <1>2 DEF Commit
<1>4. operations \in Seq(L!Operations)
  BY LedgerTypes DEF IInv
<1>5. /\ Len(operations') = Len(operations) + 1 /\ Len(operations) \in Nat
      /\ \A i \in 1..Len(operations) : operations'[i] = operations[i]
      /\ operations'[Len(operations) + 1] = new
  BY <1>3, <1>4
<1>6. /\ new.type = TypeOf(call[s].request) /\ new.reverses = Reverses(call[s].request)
      /\ new.moves = work[s]
  BY <1>2
<1> QED BY <1>1, <1>5, <1>6 DEF Grown

\* It writes the rows its transaction holds and no others.
LEMMA CommitSpares ==
  ASSUME IInv, NEW s \in Sessions, Commit(s), NEW h, h \cap held[s] = {}
  PROVE  RowsStand(h)
<1>1. PICK q, row : q = call[s].request /\ row = IdemRow(q, call[s].key)
  OBVIOUS
<1>2. pc[s] = "commit"
  BY DEF Commit
<1>3. /\ Posed(q) /\ LP!IInv /\ row \in held[s]
      /\ \A p \in Products : Done(q, held[s], work[s], p)
      /\ IsReversal(q) => ReversalRow(q.reverses) \in held[s]
  BY <1>1, <1>2, ReadyToCommit DEF KeyIsNew
<1>4. \A x \in h \cap IdemRows : idem'[x] = idem[x]
  BY <1>1, <1>3 DEF Commit, IInv, Types
<1>5. ASSUME NEW l \in Branches, NEW p \in Products, BalanceRow(l, p) \in h
      PROVE  balance'[l][p] = balance[l][p]
  <2>1. l \notin Endpoints(MovesOf(q)[p])
    BY <1>3, <1>5 DEF Done
  <2>2. l # MovesOf(q)[p].source /\ l # MovesOf(q)[p].destination
    BY <2>1, CommandsAssumption DEF Endpoints
  <2>3. balance' = Balances(work[s])
    BY DEF Commit
  <2>4. work[s][p] = L!Recorded(balance, p, MovesOf(q)[p])
    BY <1>3 DEF Done
  <2>5. work[s][p].source # l /\ work[s][p].destination # l
    BY <2>2, <2>4 DEF L!Recorded
  <2> QED BY <2>3, <2>5 DEF Balances
<1>6. ASSUME NEW i \in 1..MaxOps, ReversalRow(i) \in h, ~L!Reversed(i) PROVE ~L!Reversed(i)'
  <2>1. Reverses(q) # i
    <3>1. IsReversal(q) => q.reverses # i
      BY <1>3, <1>6
    <3> QED BY <3>1, CommandsAssumption DEF Reverses
  <2>2. /\ operations'[Len(operations) + 1].reverses = Reverses(q)
        /\ Len(operations) \in Nat /\ Len(operations') = Len(operations) + 1
        /\ \A j \in 1..Len(operations) : operations'[j] = operations[j]
    BY <1>1, CommitAdds DEF Grown
  <2>3. \A j \in 1..Len(operations') : j \in 1..Len(operations) \/ j = Len(operations) + 1
    BY <2>2
  <2>4. \A j \in 1..Len(operations) : operations[j].reverses # i
    BY <1>6 DEF L!Reversed
  <2> QED BY <2>1, <2>2, <2>3, <2>4 DEF L!Reversed
<1> QED BY <1>4, <1>5, <1>6 DEF RowsStand

\* The idempotency row it inserts; those of other keys stay.
LEMMA CommitKeys ==
  ASSUME IInv, NEW s \in Sessions, Commit(s)
  PROVE  /\ idem' \in [IdemRows -> IdempotencyRequests \cup {Null}]
         /\ idem[IdemRow(call[s].request, call[s].key)] = Null
         /\ idem'[IdemRow(call[s].request, call[s].key)] =
              [request |-> call[s].request, operation |-> Len(operations) + 1]
         /\ idem'[IdemRow(call[s].request, call[s].key)] # Null
         /\ \A row \in IdemRows \ {IdemRow(call[s].request, call[s].key)} : idem'[row] = idem[row]
<1>1. PICK row : row = IdemRow(call[s].request, call[s].key)
  OBVIOUS
<1>2. PICK new : new = [request |-> call[s].request, operation |-> Len(operations) + 1]
  OBVIOUS
<1>3. /\ row \in IdemRows /\ idem[row] = Null
      /\ call[s].request \in Requests /\ Len(operations) + 1 \in 1..MaxOps
  BY <1>1, ReadyToCommit DEF Commit, KeyIsNew
<1>4. new \in IdempotencyRequests
  BY <1>2, <1>3 DEF IdempotencyRequests
<1>5. new # Null
  BY <1>4, CommandsAssumption
<1>6. idem' = [idem EXCEPT ![row] = new] /\ idem \in [IdemRows -> IdempotencyRequests \cup {Null}]
  BY <1>1, <1>2 DEF Commit, IInv, Types
<1> QED BY <1>1, <1>2, <1>3, <1>4, <1>5, <1>6

\* The committing session lets go of everything.
LEMMA CommitTypes ==
  ASSUME IInv, NEW s \in Sessions, Commit(s)
  PROVE  /\ Types' /\ pc'[s] = "idle" /\ held'[s] = {} /\ work'[s] = BlankWork
         /\ \A t \in Sessions \ {s} :
              /\ pc'[t] = pc[t] /\ call'[t] = call[t] /\ todo'[t] = todo[t]
              /\ held'[t] = held[t] /\ work'[t] = work[t] /\ answer'[t] = answer[t]
         /\ answer'[s] = answer[s] \/
            answer'[s] = [ key |-> call[s].key, request |-> call[s].request,
                           outcome |-> "DONE", operation |-> Len(operations) + 1 ]
<1>1. "idle" \in Steps /\ Types /\ Leave(s, "idle") /\ Hangup(s) /\ pc[s] = "commit"
  BY DEF Steps, IInv, Commit
<1>2. /\ pc' \in [Sessions -> Steps] /\ pc'[s] = "idle"
      /\ todo' \in [Sessions -> Seq(Products)] /\ todo'[s] = <<>>
      /\ held' \in [Sessions -> SUBSET LockRows] /\ held'[s] = {}
      /\ work' \in [Sessions -> [Products -> L!Movements]] /\ work'[s] = BlankWork
      /\ \A t \in Sessions \ {s} :
           pc'[t] = pc[t] /\ todo'[t] = todo[t] /\ held'[t] = held[t] /\ work'[t] = work[t]
  BY <1>1, LeaveFacts
<1>3. NoCall \in Calls /\ 0 \in 0..MaxAttempts
  <2>1. <<>> \in Seq(Products)
    OBVIOUS
  <2> QED BY <2>1, CommandsAssumption DEF NoCall, Calls
<1>4. PICK a : a = [ key |-> call[s].key, request |-> call[s].request,
                     outcome |-> "DONE", operation |-> Len(operations) + 1 ]
  OBVIOUS
<1>5. a \in Answers
  <2>1. call[s].key \in Keys /\ call[s].request \in Requests /\ Len(operations) + 1 \in 1..MaxOps
    BY <1>1, ReadyToCommit
  <2>2. Len(operations) + 1 \in 0..MaxOps
    BY <2>1
  <2> QED BY <1>4, <2>1, <2>2 DEF Answers, Outcomes
<1>6. answer' = [answer EXCEPT ![s] = a] \/ answer' = answer
  BY <1>4 DEF Commit, Answer
<1>7. idem' \in [IdemRows -> IdempotencyRequests \cup {Null}]
  BY CommitKeys
<1>8. /\ call' \in [Sessions -> Calls] /\ attempt' \in [Sessions -> 0..MaxAttempts]
      /\ \A t \in Sessions \ {s} : call'[t] = call[t]
  BY <1>1, <1>3 DEF Types, Hangup
<1>9. /\ answer' \in [Sessions -> Answers \cup {Null}]
      /\ \A t \in Sessions \ {s} : answer'[t] = answer[t]
      /\ answer'[s] = answer[s] \/ answer'[s] = a
  BY <1>1, <1>5, <1>6 DEF Types
<1>10. Types'
  BY <1>2, <1>7, <1>8, <1>9 DEF Types
<1> QED BY <1>2, <1>4, <1>8, <1>9, <1>10

\* There is one operation more, and one session less that may add one.
LEMMA CommitBounds ==
  ASSUME IInv, NEW s \in Sessions, Commit(s)
  PROVE  Bounded'
<1>1. pc[s] = "commit"
  BY DEF Commit
<1>2. s \in Adding
  BY <1>1, ReadyToCommit
<1>3. Adding' \subseteq Adding \ {s}
  <2>1. s \notin Adding'
    BY CommitTypes DEF Adding
  <2>2. ASSUME NEW t \in Sessions \ {s}, t \in Adding' PROVE t \in Adding
    <3>1. PICK c : c = call[t]
      OBVIOUS
    <3>2. c = call'[t] /\ pc'[t] = pc[t]
      BY <3>1, CommitTypes
    <3>3. pc[t] # "idle" /\ idem'[IdemRow(c.request, c.key)'] = Null
      BY <2>2, <3>1, <3>2 DEF Adding
    <3>4. Posed(c.request) /\ IdemRow(c.request, c.key) \in IdemRows
      BY <3>1, <3>3, ServedCall
    <3>5. IdemRow(c.request, c.key)' = IdemRow(c.request, c.key)
      BY <3>4, CommitAdds, RequestStands
    <3>6. idem[IdemRow(c.request, c.key)] = Null
      BY <3>3, <3>4, <3>5, CommitKeys
    <3> QED BY <3>1, <3>3, <3>6 DEF Adding
  <2>3. Adding' \subseteq Sessions
    BY DEF Adding
  <2> QED BY <2>1, <2>2, <2>3
<1>4. Cardinality(Adding \ {s}) = Cardinality(Adding) - 1 /\ IsFiniteSet(Adding \ {s})
  BY <1>2, AddingFinite, FS_RemoveElement
<1>5. Cardinality(Adding') <= Cardinality(Adding \ {s})
  BY <1>3, <1>4, FS_Subset
<1>6. Len(operations') = Len(operations) + 1 /\ Len(operations) \in Nat /\ MaxOps \in Nat
  BY CommitAdds, LedgerTypes, CommandsAssumption DEF IInv
<1>7. Cardinality(Adding) \in Nat /\ Cardinality(Adding') \in Nat
  BY AddingFinite
<1> QED BY <1>4, <1>5, <1>6, <1>7 DEF IInv, Bounded

\* The new operation belongs to the new row, the others to theirs.
LEMMA CommitKeepsKeys ==
  ASSUME IInv, NEW s \in Sessions, Commit(s)
  PROVE  /\ KeyAppliedOnce'
         /\ \A row \in IdemRows : idem'[row] # Null =>
              Posed(idem[row].request)' /\ idem'[row].operation \in 1..Len(operations')
<1>1. PICK n : n = Len(operations) + 1
  OBVIOUS
<1>2. PICK q, own : q = call[s].request /\ own = IdemRow(q, call[s].key)
  OBVIOUS
<1>3. pc[s] = "commit" /\ LP!IInv
  BY DEF Commit, IInv
<1>4. /\ Posed(q) /\ own \in IdemRows
      /\ \A p \in Products : Done(q, held[s], work[s], p)
  BY <1>2, <1>3, ReadyToCommit
<1>5. /\ idem[own] = Null /\ idem'[own] # Null
      /\ idem'[own].request = q /\ idem'[own].operation = n
      /\ \A row \in IdemRows \ {own} : idem'[row] = idem[row]
  <2>1. idem'[own] = [request |-> q, operation |-> n]
    BY <1>1, <1>2, CommitKeys
  <2>2. idem'[own].request = q /\ idem'[own].operation = n
    BY <2>1
  <2> QED BY <1>2, <2>2, CommitKeys
<1>6. /\ Grown /\ n \in Nat /\ n = Len(operations') /\ 1..Len(operations') = 1..n
      /\ operations'[n].type = TypeOf(q) /\ operations'[n].reverses = Reverses(q)
      /\ operations'[n].moves = work[s]
      /\ \A i \in 1..n : i \in 1..Len(operations) \/ i = n
      /\ Len(operations) \in Nat /\ n \notin 1..Len(operations)
  BY <1>1, <1>2, CommitAdds DEF Grown
<1>7. \A row \in IdemRows : idem[row] # Null =>
        Posed(idem[row].request) /\ idem[row].operation \in 1..Len(operations)
  BY DEF IInv, RequestsPosed
<1>8. ASSUME NEW i \in 1..n
      PROVE  Cardinality({row \in IdemRows : idem'[row] # Null /\ idem'[row].operation = i}) = 1
  <2>1. CASE i = n
    <3>1. {row \in IdemRows : idem'[row] # Null /\ idem'[row].operation = i} = {own}
      BY <1>4, <1>5, <1>6, <1>7, <2>1
    <3> QED BY <3>1, FS_Singleton
  <2>2. CASE i \in 1..Len(operations)
    <3>1. {row \in IdemRows : idem'[row] # Null /\ idem'[row].operation = i}
            = {row \in IdemRows : idem[row] # Null /\ idem[row].operation = i}
      BY <1>4, <1>5, <1>6, <2>2
    <3>2. Cardinality({row \in IdemRows : idem[row] # Null /\ idem[row].operation = i}) = 1
      BY <2>2 DEF IInv, AnswersAreTrue, KeyAppliedOnce
    <3> QED BY <3>1, <3>2
  <2> QED BY <1>6, <2>1, <2>2
<1>9. ASSUME NEW row \in IdemRows, idem'[row] # Null
      PROVE  \E r, o : /\ r = idem'[row].request /\ o = idem'[row].operation
                       /\ Posed(r)' /\ o \in 1..n
                       /\ operations'[o].type = TypeOf(r)' /\ operations'[o].reverses = Reverses(r)
                       /\ \A p \in Products, l \in Branches :
                            L!Delta(operations'[o].moves[p], l) = L!Delta(MovesOf(r)[p], l)'
  <2>1. CASE row = own
    <3>1. Posed(q)' /\ TypeOf(q)' = TypeOf(q) /\ MovesOf(q)' = MovesOf(q)
      BY <1>4, <1>6, RequestStands
    <3>2. n \in 1..n
      BY <1>1, <1>6
    <3>3. ASSUME NEW p \in Products, NEW l \in Branches
          PROVE  L!Delta(operations'[n].moves[p], l) = L!Delta(MovesOf(q)[p], l)'
      <4>1. work[s][p] = L!Recorded(balance, p, MovesOf(q)[p])
        BY <1>4 DEF Done
      <4>2. \A m : L!Delta(L!Recorded(balance, p, m), l) = L!Delta(m, l)
        BY DEF L!Recorded, L!Delta
      <4> QED BY <1>6, <3>1, <4>1, <4>2 DEF L!Delta
    <3> QED BY <1>5, <1>6, <2>1, <3>1, <3>2, <3>3
  <2>2. CASE row # own
    <3>1. idem'[row] = idem[row]
      BY <1>5, <2>2
    <3>2. PICK r, o : r = idem[row].request /\ o = idem[row].operation
      OBVIOUS
    <3>3. Posed(r) /\ o \in 1..Len(operations) /\ o \in 1..n
      BY <1>6, <1>7, <1>9, <3>1, <3>2, <1>1
    <3>4. operations'[o] = operations[o]
      BY <1>6, <3>3 DEF Grown
    <3>5. /\ operations[o].type = TypeOf(r) /\ operations[o].reverses = Reverses(r)
          /\ \A p \in Products, l \in Branches :
               L!Delta(operations[o].moves[p], l) = L!Delta(MovesOf(r)[p], l)
      BY <1>9, <3>1, <3>2 DEF IInv, AnswersAreTrue, KeyAppliedOnce
    <3>6. Posed(r)' /\ TypeOf(r)' = TypeOf(r) /\ MovesOf(r)' = MovesOf(r)
      BY <1>6, <3>3, RequestStands
    <3>7. \A p \in Products, l \in Branches :
            L!Delta(operations'[o].moves[p], l) = L!Delta(MovesOf(r)[p], l)'
      BY <3>4, <3>5, <3>6 DEF L!Delta
    <3> QED BY <3>1, <3>2, <3>3, <3>4, <3>5, <3>6, <3>7
  <2> QED BY <2>1, <2>2
<1>10. \A row \in IdemRows : idem'[row] # Null =>
         Posed(idem[row].request)' /\ idem'[row].operation \in 1..Len(operations')
  BY <1>6, <1>9
<1>11. \A row \in IdemRows : (idem[row] # Null =>
         LET operation == operations[idem[row].operation]
             r == idem[row].request
         IN /\ operation.type = TypeOf(r) /\ operation.reverses = Reverses(r)
            /\ \A p \in Products, l \in Branches :
                 L!Delta(operation.moves[p], l) = L!Delta(MovesOf(r)[p], l))'
  <2> SUFFICES ASSUME NEW row \in IdemRows, idem'[row] # Null
               PROVE  (LET operation == operations[idem[row].operation]
                           r == idem[row].request
                       IN /\ operation.type = TypeOf(r) /\ operation.reverses = Reverses(r)
                          /\ \A p \in Products, l \in Branches :
                               L!Delta(operation.moves[p], l) = L!Delta(MovesOf(r)[p], l))'
    OBVIOUS
  <2>1. PICK r, o : /\ r = idem'[row].request /\ o = idem'[row].operation
                    /\ operations'[o].type = TypeOf(r)' /\ operations'[o].reverses = Reverses(r)
                    /\ \A p \in Products, l \in Branches :
                         L!Delta(operations'[o].moves[p], l) = L!Delta(MovesOf(r)[p], l)'
    BY <1>9
  <2>2. Reverses(r)' = Reverses(r)
    BY DEF Reverses
  <2> QED BY <2>1, <2>2
<1>12. KeyAppliedOnce'
  BY <1>6, <1>8, <1>11 DEF KeyAppliedOnce
<1> QED BY <1>10, <1>12

\* Commit: the books grow by one operation, which other transactions' work is independent of.
LEMMA CommitStep ==
  ASSUME IInv, NEW s \in Sessions, Commit(s)
  PROVE  IInv'
<1>1. PICK q, key, n : q = call[s].request /\ key = call[s].key /\ n = Len(operations) + 1
  OBVIOUS
<1>2. pc[s] = "commit"
  BY DEF Commit
<1>3. Types' /\ Bounded' /\ LP!IInv' /\ Grown /\ LP!IInv
  BY CommitTypes, CommitBounds, CommitAdds DEF IInv
<1>4. SessionHolds(s)'
  BY CommitTypes DEF SessionHolds, SessionFits
<1>5. ASSUME NEW t \in Sessions \ {s} PROVE SessionHolds(t)'
  <2>1. held[t] \cap held[s] = {}
    BY DEF IInv, LocksExclude
  <2>2. RowsStand(held[t])
    BY <2>1, CommitSpares
  <2>3. OthersStay(s)
    BY CommitTypes DEF OthersStay
  <2> QED BY <1>3, <2>2, <2>3, OtherSession DEF IInv
<1>6. LocksExclude'
  BY CommitTypes DEF IInv, LocksExclude
<1>7. ASSUME NEW t \in Sessions PROVE AnswerHolds(answer[t])'
  <2>1. CASE answer'[t] = answer[t]
    <3>1. PICK a : a = answer[t]
      OBVIOUS
    <3>2. AnswerHolds(a) /\ a \in Answers \cup {Null}
      BY <3>1, AnswersSplit DEF IInv, Types
    <3>3. \A row \in IdemRows : idem[row] # Null => idem'[row] = idem[row]
      BY CommitKeys
    <3>4. AnswerHolds(a)'
      BY <1>3, <3>2, <3>3, AnswerStands
    <3> QED BY <2>1, <3>1, <3>4
  <2>2. CASE answer'[t] # answer[t]
    <3>1. t = s
      BY <2>2, CommitTypes
    <3>2. PICK a : a = [key |-> key, request |-> q, outcome |-> "DONE", operation |-> n]
      OBVIOUS
    <3>3. a = answer'[t]
      BY <1>1, <2>2, <3>1, <3>2, CommitTypes
    <3>4. Posed(q) /\ n \in 1..MaxOps
      BY <1>1, <1>2, ReadyToCommit
    <3>5. Posed(q)' /\ IdemRow(q, key)' = IdemRow(q, key)
      BY <1>3, <3>4, RequestStands
    <3>6. idem'[IdemRow(q, key)'] = [request |-> q, operation |-> n]
      BY <1>1, <3>5, CommitKeys
    <3>7. AnswerHolds(a)'
      BY <3>2, <3>4, <3>5, <3>6 DEF AnswerHolds
    <3> QED BY <3>3, <3>7
  <2> QED BY <2>1, <2>2
<1>8. AnswersAreTrue'
  BY <1>7, CommitKeepsKeys DEF AnswersAreTrue, AnswerHolds
<1>9. RequestsPosed'
  <2>1. \A t \in Sessions : answer'[t] # Null =>
          /\ Posed(answer[t].request)'
          /\ answer'[t].outcome = "DONE" => answer'[t].operation \in 1..MaxOps
    BY <1>7 DEF AnswerHolds
  <2> QED BY <2>1, CommitKeepsKeys DEF RequestsPosed
<1> QED BY <1>3, <1>4, <1>5, <1>6, <1>8, <1>9 DEF IInv

-----------------------------------------------------------------------------
(* Every step *)

\* The empty books and idle sessions satisfy the inductive invariant.
LEMMA InitIInv == Init => IInv
<1> SUFFICES ASSUME Init PROVE IInv
  OBVIOUS
<1>1. /\ L!Init
      /\ idem = [row \in IdemRows |-> Null]
      /\ pc = [s \in Sessions |-> "idle"]
      /\ call = [s \in Sessions |-> NoCall]
      /\ attempt = [s \in Sessions |-> 0]
      /\ todo = [s \in Sessions |-> <<>>]
      /\ held = [s \in Sessions |-> {}]
      /\ work = [s \in Sessions |-> NoWork]
      /\ answer = [s \in Sessions |-> Null]
  BY DEF Init
<1>2. LP!IInv
  <2>1. LP!Init
    BY <1>1, SameSteps
  <2> QED BY <2>1, LedgerAssumed, LP!InitIInv, Zenon
<1>3. Types
  <2>1. <<>> \in Seq(Products)
    OBVIOUS
  <2>2. NoCall \in Calls /\ 0 \in 0..MaxAttempts
    BY <2>1, CommandsAssumption DEF NoCall, Calls
  <2> QED BY <1>1, <2>1, <2>2, NoWorkIsBlank DEF Types, Steps
<1>4. \A s \in Sessions : SessionHolds(s)
  BY <1>1, NoWorkIsBlank DEF SessionHolds, SessionFits
<1>5. LocksExclude
  BY <1>1 DEF LocksExclude
<1>6. operations = <<>> /\ Len(operations) = 0 /\ 1..Len(operations) = {}
  BY <1>1 DEF L!Init
<1>7. Bounded
  <2>1. Adding = {}
    BY <1>1 DEF Adding
  <2>2. Cardinality({}) = 0
    BY FS_EmptySet
  <2> QED BY <1>6, <2>1, <2>2, CommandsAssumption DEF Bounded
<1>8. RequestsPosed /\ AnswersAreTrue
  BY <1>1, <1>6 DEF RequestsPosed, AnswersAreTrue, KeyAppliedOnce
<1> QED BY <1>2, <1>3, <1>4, <1>5, <1>7, <1>8 DEF IInv

\* Every step keeps the inductive invariant; one lemma above for each action.
LEMMA NextIInv == IInv /\ [Next]_vars => IInv'
<1> SUFFICES ASSUME IInv, [Next]_vars PROVE IInv'
  OBVIOUS
<1>1. CASE UNCHANGED vars
  <2>1. /\ UNCHANGED committed /\ balance' = balance /\ operations' = operations /\ idem' = idem
        /\ pc' = pc /\ call' = call /\ attempt' = attempt /\ todo' = todo
        /\ held' = held /\ work' = work /\ answer' = answer
    BY <1>1 DEF vars, committed
  <2>2. LP!IInv'
    BY <2>1, Quiet DEF IInv
  <2>3. Types' /\ LocksExclude'
    BY <2>1 DEF IInv, Types, LocksExclude
  <2>4. ASSUME NEW s \in Sessions PROVE SessionHolds(s)'
    <3>1. PICK p, c, left, h, w :
            p = pc[s] /\ c = call[s] /\ left = todo[s] /\ h = held[s] /\ w = work[s]
      OBVIOUS
    <3>2. SessionFits(p, c, left, h, w)
      BY <3>1 DEF IInv, SessionHolds
    <3>3. SessionFits(p, c, left, h, w)'
      BY <2>1, <3>2, Quiet, FitsStand DEF IInv
    <3> QED BY <2>1, <3>1, <3>3 DEF SessionHolds
  <2>5. Bounded'
    BY <2>1 DEF IInv, Bounded, Adding, IdemRow, TypeOf
  <2>6. RequestsPosed'
    BY <2>1 DEF IInv, RequestsPosed, Posed
  <2>7. AnswersAreTrue'
    BY <2>1 DEF IInv, AnswersAreTrue, KeyAppliedOnce, IdemRow, TypeOf, MovesOf, Reverses, L!Reversed
  <2> QED BY <2>2, <2>3, <2>4, <2>5, <2>6, <2>7 DEF IInv
<1>2. ASSUME NEW s \in Sessions, NEW key \in Keys, NEW q \in Requests, Call(s, key, q)
      PROVE  IInv'
  BY <1>2, CallStep
<1>3. ASSUME NEW s \in Sessions, LockStep(s) PROVE IInv'
  BY <1>3, AcquireStep, ReplayStep, InsertOperationStep, AlreadyReversedStep, LockBalanceStep
    DEF LockStep
<1>4. ASSUME NEW s \in Sessions, RunStep(s) PROVE IInv'
  BY <1>4, BeginStep, ApplyMovementStep, InsufficientInventoryStep, CompleteStep, CommitStep
    DEF RunStep
<1>5. ASSUME NEW s \in Sessions, SerializationFailure(s) PROVE IInv'
  BY <1>5, RetryStep DEF SerializationFailure, InTransaction
<1>6. ASSUME NEW s \in Sessions, DeadlockDetected(s) PROVE IInv'
  <2>1. Wanted(s) # {}
    BY <1>6 DEF DeadlockDetected, Deadlocked, WaitsFor
  <2>2. pc[s] # "idle"
    BY <2>1 DEF Wanted
  <2> QED BY <1>6, <2>2, RetryStep DEF DeadlockDetected
<1>7. ASSUME NEW s \in Sessions, ConnectionLost(s) PROVE IInv'
  BY <1>7, FailStep DEF ConnectionLost
<1> QED BY <1>1, <1>2, <1>3, <1>4, <1>5, <1>6, <1>7 DEF Next

\* The invariant holds in every behaviour of the commands.
THEOREM Invariance == Spec => []IInv
BY InitIInv, NextIInv, PTL DEF Spec

-----------------------------------------------------------------------------
(* Results *)

\* Rows and what sessions keep are well formed, and no two transactions hold the same row:
\* the locks execute takes exclude each other.
THEOREM TypeCorrect == Spec => []TypeOK
<1>1. IInv => TypeOK
  <2> SUFFICES ASSUME IInv PROVE TypeOK
    OBVIOUS
  <2>1. L!TypeOK
    BY LedgerTypes, LedgerAssumed DEF IInv, L!TypeOK
  <2>2. \A s \in Sessions : InTransaction(s) \/ held[s] = {}
    BY DEF IInv, Types, Steps, SessionHolds, SessionFits, InTransaction
  <2> QED BY <2>1, <2>2 DEF IInv, Types, Steps, LocksExclude, TypeOK
<1> QED BY <1>1, Invariance, PTL

\* Every operation was asked for once, under one key, and what clients are told is so:
\* repeating a request under its key moves no more goods.
THEOREM AnswersTrue == Spec => []AnswersAreTrue
<1>1. IInv => AnswersAreTrue
  BY DEF IInv
<1> QED BY <1>1, Invariance, PTL

\* The committed ledger stays one whose balances the movements reproduce and whose
\* reversals are exact, whatever runs at the same time, fails or is retried.
THEOREM CommittedLedgerHolds ==
  Spec => [](L!TypeOK /\ L!LedgerReproducesBalances /\ L!ReversalsAreExact)
<1>1. IInv => L!TypeOK /\ L!LedgerReproducesBalances /\ L!ReversalsAreExact
  <2>1. IInv => L!TypeOK
    BY LedgerTypes, LedgerAssumed DEF IInv, L!TypeOK
  <2>2. LP!LedgerReproducesBalances <=> L!LedgerReproducesBalances
    BY Zenon DEF L!LedgerReproducesBalances, LP!LedgerReproducesBalances, L!Locations,
      LP!Locations, L!Touches, LP!Touches, L!After, LP!After, L!Delta, LP!Delta
  <2>3. LP!ReversalsAreExact <=> L!ReversalsAreExact
    BY Zenon DEF L!ReversalsAreExact, LP!ReversalsAreExact, L!Locations, LP!Locations,
      L!Delta, LP!Delta
  <2> QED BY <2>1, <2>2, <2>3 DEF IInv, LP!IInv
<1> QED BY <1>1, Invariance, PTL

\* The commands implement the ledger: a commit is one operation of it, every other step
\* none, whatever the interleaving of the transactions.
THEOREM LedgerImplemented == Spec => ImplementsLedger
<1>1. Init => L!Init
  BY DEF Init
<1>2. IInv /\ [Next]_vars => [L!Next]_L!ledgerVars
  <2> SUFFICES ASSUME IInv, [Next]_vars, ~UNCHANGED L!ledgerVars PROVE L!Next
    OBVIOUS
  <2>1. ~UNCHANGED <<balance, operations>>
    BY DEF L!ledgerVars
  <2>2. PICK s \in Sessions : Commit(s)
    <3>1. ~UNCHANGED vars
      BY <2>1 DEF vars
    <3>2. \A s \in Sessions : \A key \in Keys, q \in Requests : ~Call(s, key, q)
      BY <2>1 DEF Call
    <3>3. \A s \in Sessions : ~LockStep(s)
      BY <2>1 DEF LockStep, Acquire, Replay, InsertOperation, AlreadyReversed, LockBalance,
        Reject, Finish, committed
    <3>4. \A s \in Sessions : ~Retry(s) /\ ~Fail(s)
      BY <2>1 DEF Retry, Fail
    <3>5. \A s \in Sessions : ~Begin(s) /\ ~ApplyMovement(s) /\ ~InsufficientInventory(s)
                              /\ ~Complete(s)
      BY <2>1 DEF Begin, ApplyMovement, InsufficientInventory, Complete, Reject, Finish, committed
    <3>6. \A s \in Sessions : RunStep(s) => Commit(s)
      BY <3>5 DEF RunStep
    <3> QED BY <3>1, <3>2, <3>3, <3>4, <3>6
      DEF Next, SerializationFailure, DeadlockDetected, ConnectionLost
  <2> QED BY <2>2, CommitPosts
<1> QED BY <1>1, <1>2, Invariance, PTL DEF Spec, ImplementsLedger, L!Spec

-----------------------------------------------------------------------------
(* Deadlocks *)

\* A set of naturals has a least one.
LEMMA LeastNatural ==
  ASSUME NEW N \in SUBSET Nat, N # {}
  PROVE  \E m \in N : \A k \in N : m <= k
<1> DEFINE R == OpToRel(<, Nat)
<1>1. IsWellFoundedOn(R, Nat)
  BY NatLessThanWellFounded
<1>2. PICK m \in N : \A k \in N : <<k, m>> \notin R
  <2> HIDE DEF R
  <2> QED BY <1>1, WFMin
<1>3. \A k \in N : ~(k < m)
  BY <1>2 DEF OpToRel
<1> QED BY <1>3

\* A session that waits and is waited for, and reverses nothing, waits for a balance row.
LEMMA WaitsForBalance ==
  ASSUME IInv, NEW s \in Sessions, Wanted(s) # {}, held[s] # {}, ~IsReversal(call[s].request)
  PROVE  \E l \in Unlocked(s) :
           /\ Wanted(s) = {BalanceRow(l, Head(todo[s]))}
           /\ l \in Branches /\ Head(todo[s]) \in Products /\ todo[s] # <<>>
           /\ l \in Endpoints(MovesOf(call[s].request)[Head(todo[s])])
           /\ BalanceRow(l, Head(todo[s])) \notin held[s]
           /\ LockedInOrder(call[s].request, todo[s], held[s])
<1>1. pc[s] \notin {"idle", "begin", "acquire"}
  BY DEF IInv, SessionHolds, SessionFits
<1>2. pc[s] = "move" /\ todo[s] # <<>> /\ Unlocked(s) # {} /\ Wanted(s) = {NextRow(s)}
  BY <1>1 DEF Wanted
<1>3. /\ LockedInOrder(call[s].request, todo[s], held[s]) /\ todo[s] \in Seq(Products)
  BY <1>2, MovingFacts DEF MovesHold
<1>4. PICK l \in Unlocked(s) : NextRow(s) = BalanceRow(l, Head(todo[s])) /\ l \in Branches
  BY <1>2, NextRowFacts
<1>5. Head(todo[s]) \in Products
  BY <1>2, <1>3, TailFacts
<1> QED BY <1>2, <1>3, <1>4, <1>5, UnlockedIs

\* The location of the row a session asks for.
Place(s) == NextRow(s)[2]

\* Requests that reverse nothing lock rows in one order, by product, then by location:
\* whoever waits for a session asks for an earlier row than that session does.
LEMMA WaitsInOrder ==
  ASSUME IInv, NEW C \in SUBSET Sessions, Deadlocked(C),
         \A s \in C : ~IsReversal(call[s].request),
         NEW s \in C
  PROVE  /\ Rank[Head(todo[s])] \in Nat /\ Rank[Place(s)] \in Nat
         /\ \E t \in C : \/ Rank[Head(todo[t])] < Rank[Head(todo[s])]
                         \/ /\ Rank[Head(todo[t])] = Rank[Head(todo[s])]
                            /\ Rank[Place(t)] < Rank[Place(s)]
<1>1. ASSUME NEW t \in C
      PROVE  /\ Wanted(t) # {} /\ held[t] # {} /\ t \in Sessions
             /\ Wanted(t) = {NextRow(t)}
             /\ \E l \in Unlocked(t) : NextRow(t) = BalanceRow(l, Head(todo[t])) /\ Place(t) = l
  <2>1. Wanted(t) # {} /\ held[t] # {}
    BY DEF Deadlocked, WaitsFor
  <2>2. Wanted(t) = {NextRow(t)}
    <3>1. pc[t] \notin {"idle", "begin", "acquire"}
      BY <2>1 DEF IInv, SessionHolds, SessionFits
    <3> QED BY <2>1, <3>1 DEF Wanted
  <2>3. PICK l \in Unlocked(t) : Wanted(t) = {BalanceRow(l, Head(todo[t]))}
    BY <2>1, WaitsForBalance
  <2>4. NextRow(t) = BalanceRow(l, Head(todo[t]))
    BY <2>2, <2>3
  <2>5. Place(t) = l
    BY <2>4 DEF Place, BalanceRow
  <2> QED BY <2>1, <2>2, <2>4, <2>5
<1>2. ASSUME NEW t \in C
      PROVE  /\ Place(t) \in Branches /\ Head(todo[t]) \in Products /\ todo[t] # <<>>
             /\ Wanted(t) = {BalanceRow(Place(t), Head(todo[t]))}
             /\ Place(t) \in Endpoints(MovesOf(call[t].request)[Head(todo[t])])
             /\ BalanceRow(Place(t), Head(todo[t])) \notin held[t]
             /\ LockedInOrder(call[t].request, todo[t], held[t])
             /\ Rank[Head(todo[t])] \in Nat /\ Rank[Place(t)] \in Nat
  <2>1. Wanted(t) = {NextRow(t)} /\ t \in Sessions /\ Wanted(t) # {} /\ held[t] # {}
    BY <1>1
  <2>2. PICK l \in Unlocked(t) :
           /\ Wanted(t) = {BalanceRow(l, Head(todo[t]))}
           /\ l \in Branches /\ Head(todo[t]) \in Products /\ todo[t] # <<>>
           /\ l \in Endpoints(MovesOf(call[t].request)[Head(todo[t])])
           /\ BalanceRow(l, Head(todo[t])) \notin held[t]
           /\ LockedInOrder(call[t].request, todo[t], held[t])
    BY <2>1, WaitsForBalance
  <2>3. Place(t) = l
    <3>1. NextRow(t) = BalanceRow(l, Head(todo[t]))
      BY <2>1, <2>2
    <3> QED BY <3>1 DEF Place, BalanceRow
  <2> QED BY <2>2, <2>3, CommandsAssumption
<1>3. PICK t \in C : WaitsFor(t, s)
  BY DEF Deadlocked
<1>4. BalanceRow(Place(t), Head(todo[t])) \in held[s]
  BY <1>2, <1>3 DEF WaitsFor
<1>5. Head(todo[s]) \in Items(todo[s])
  <2>1. todo[s] \in Seq(Products) /\ todo[s] # <<>>
    BY <1>2 DEF IInv, Types
  <2> QED BY <2>1, TailFacts
<1>6. \/ \A x \in Items(todo[s]) : Rank[Head(todo[t])] < Rank[x]
      \/ /\ Head(todo[t]) = Head(todo[s])
         /\ \A x \in Endpoints(MovesOf(call[s].request)[Head(todo[t])]) :
              BalanceRow(x, Head(todo[t])) \notin held[s] => Rank[Place(t)] < Rank[x]
  BY <1>2, <1>4 DEF LockedInOrder
<1>7. \/ Rank[Head(todo[t])] < Rank[Head(todo[s])]
      \/ /\ Rank[Head(todo[t])] = Rank[Head(todo[s])]
         /\ Rank[Place(t)] < Rank[Place(s)]
  BY <1>2, <1>5, <1>6
<1> QED BY <1>2, <1>7

\* Every circle of waiting transactions has a reversal in it: the others lock balance rows
\* in one order, so the one that asks for the first row is waited for by nobody.
THEOREM DeadlocksReverse == Spec => []OnlyReversalsDeadlock
<1>1. IInv => OnlyReversalsDeadlock
  <2> SUFFICES ASSUME IInv, NEW C \in SUBSET Sessions, Deadlocked(C),
                      \A s \in C : ~IsReversal(call[s].request)
               PROVE  FALSE
    BY DEF OnlyReversalsDeadlock
  <2> DEFINE P == {Rank[Head(todo[s])] : s \in C}
  <2>1. P \in SUBSET Nat /\ P # {}
    <3>1. \A s \in C : Rank[Head(todo[s])] \in Nat
      BY WaitsInOrder
    <3>2. C # {}
      BY DEF Deadlocked
    <3> QED BY <3>1, <3>2
  <2>2. PICK m \in P : \A k \in P : m <= k
    <3> HIDE DEF P
    <3> QED BY <2>1, LeastNatural
  <2> DEFINE First == {s \in C : Rank[Head(todo[s])] = m}
             Q == {Rank[Place(s)] : s \in First}
  <2>3. Q \in SUBSET Nat /\ Q # {}
    BY WaitsInOrder
  <2>4. PICK n \in Q : \A k \in Q : n <= k
    <3> HIDE DEF Q
    <3> QED BY <2>3, LeastNatural
  <2>5. PICK s \in First : n = Rank[Place(s)]
    OBVIOUS
  <2>6. PICK t \in C : \/ Rank[Head(todo[t])] < Rank[Head(todo[s])]
                       \/ /\ Rank[Head(todo[t])] = Rank[Head(todo[s])]
                          /\ Rank[Place(t)] < Rank[Place(s)]
    BY WaitsInOrder
  <2>7. /\ Rank[Head(todo[t])] \in Nat /\ Rank[Head(todo[s])] \in Nat
        /\ Rank[Place(t)] \in Nat /\ Rank[Place(s)] \in Nat
    BY WaitsInOrder
  <2>8. m <= Rank[Head(todo[t])] /\ Rank[Head(todo[s])] = m
    BY <2>2
  <2>9. Rank[Head(todo[t])] = m /\ Rank[Place(t)] < n
    BY <2>5, <2>6, <2>7, <2>8
  <2>10. Rank[Place(t)] \in Q
    BY <2>9
  <2> QED BY <2>4, <2>5, <2>7, <2>9, <2>10
<1> QED BY <1>1, Invariance, PTL
=============================================================================
