-------------------------- MODULE StockLedgerProofs --------------------------
(***************************************************************************)
(* The properties of the inventory ledger, for any branches, routes,       *)
(* products and bounds.  All of them rest on one inductive invariant.      *)
(***************************************************************************)
EXTENDS StockLedger, TLAPS

\* Every movement has two different endpoints, and one of a transfer lacks neither:
\* otherwise the balances an operation records would not be those it leaves.
MovesAreSound ==
  \A i \in 1..Len(operations), p \in Products :
    LET m == operations[i].moves[p] IN
    /\ m.quantity = 0 <=> m.source = m.destination
    /\ m.quantity > 0 /\ operations[i].type = "TRANSFER" => Null \notin {m.source, m.destination}

IInv == TypeOK /\ MovesAreSound /\ LedgerReproducesBalances /\ ReversalsAreExact

\* What handlers hand to Post: movements with two different endpoints.
Sound(moves) ==
  /\ moves \in [Products -> Commands]
  /\ \A p \in Products : moves[p].quantity = 0 <=> moves[p].source = moves[p].destination

-----------------------------------------------------------------------------
(* Movements *)

\* What a movement adds to a row is an integer.
LEMMA DeltaType ==
  ASSUME NEW m, m.quantity \in Nat, NEW l
  PROVE  Delta(m, l) \in Int
  BY DEF Delta

\* The balances after covered movements are natural numbers, changed by Delta.
LEMMA AppliedType ==
  ASSUME NEW bal \in [Locations -> [Products -> Nat]],
         NEW moves, Sound(moves), Covered(bal, moves)
  PROVE  ApplyMoves(bal, moves) \in [Locations -> [Products -> Nat]]
<1> SUFFICES ASSUME NEW l \in Locations, NEW p \in Products
             PROVE  bal[l][p] + Delta(moves[p], l) \in Nat
  BY DEF ApplyMoves
<1>1. moves[p].quantity \in Nat /\ bal[l][p] \in Nat
  BY DEF Sound, Commands
<1>2. moves[p].source = l => bal[l][p] >= moves[p].quantity
  BY LedgerAssumption DEF Covered
<1> QED
  BY <1>1, <1>2 DEF Delta

\* A covered movement is stored as a row of inventory_movement: what it leaves at its
\* endpoints is a natural number.
LEMMA RecordedType ==
  ASSUME NEW bal \in [Locations -> [Products -> Nat]],
         NEW moves, Sound(moves), Covered(bal, moves), NEW p \in Products
  PROVE  Recorded(bal, p, moves[p]) \in Movements
<1>1. /\ moves[p].quantity \in Nat
      /\ moves[p].source \in Endpoints /\ moves[p].destination \in Endpoints
  BY DEF Sound, Commands
<1>2. moves[p].source # Null =>
        bal[moves[p].source][p] \in Nat /\ bal[moves[p].source][p] - moves[p].quantity \in Nat
  BY <1>1 DEF Covered, Endpoints
<1>3. moves[p].destination # Null =>
        bal[moves[p].destination][p] + moves[p].quantity \in Nat
  BY <1>1 DEF Endpoints
<1> QED
  BY <1>1, <1>2, <1>3 DEF Recorded, Movements

\* The movement a row records moves what the command did.
LEMMA RecordedDelta ==
  ASSUME NEW bal, NEW p, NEW m, NEW l
  PROVE  Delta(Recorded(bal, p, m), l) = Delta(m, l)
  BY DEF Recorded, Delta

\* Swapping a movement's endpoints, as reverse does, negates what it adds.
LEMMA InverseDelta ==
  ASSUME NEW moves \in [Products -> Movements], NEW p \in Products, NEW l
  PROVE  Delta(Inverse(moves)[p], l) = -Delta(moves[p], l)
<1>1. moves[p].quantity \in Nat
  BY DEF Movements
<1>2. CASE moves[p].quantity = 0
  BY <1>2 DEF Inverse, Move, Delta
<1>3. CASE moves[p].quantity # 0
  BY <1>1, <1>3 DEF Inverse, Move, Delta
<1> QED
  BY <1>2, <1>3

-----------------------------------------------------------------------------
(* What the handlers post *)

\* Quantities moved between two different endpoints are sound movements.
LEMMA QuantitiesMoves ==
  ASSUME NEW lines \in [Products -> Nat],
         NEW source \in Endpoints, NEW destination \in Endpoints, source # destination
  PROVE  Sound(MovesOf(lines, source, destination))
<1> SUFFICES ASSUME NEW p \in Products
             PROVE  /\ Move(lines[p], source, destination) \in Commands
                    /\ LET m == Move(lines[p], source, destination)
                       IN m.quantity = 0 <=> m.source = m.destination
  BY DEF Sound, MovesOf
<1>1. lines[p] \in Nat
  OBVIOUS
<1> QED
  BY <1>1 DEF Move, Commands, Endpoints

\* So are the lines of a request.
LEMMA LinesMoves ==
  ASSUME NEW lines \in Lines,
         NEW source \in Endpoints, NEW destination \in Endpoints, source # destination
  PROVE  Sound(MovesOf(lines, source, destination))
<1>1. lines \in [Products -> Nat]
  BY LedgerAssumption DEF Lines
<1> QED
  BY <1>1, QuantitiesMoves

\* Each operation of the ledger is well formed.
LEMMA OperationType ==
  ASSUME TypeOK, NEW i \in 1..Len(operations)
  PROVE  /\ operations[i] \in Operations
         /\ operations[i].type \in OperationTypes
         /\ operations[i].moves \in [Products -> Movements]
<1>1. operations[i] \in Operations
  BY DEF TypeOK
<1> QED
  BY <1>1 DEF Operations

\* The inverse of an operation's movements is again a set of commands.
LEMMA InverseMoves ==
  ASSUME TypeOK, MovesAreSound, NEW i \in 1..Len(operations)
  PROVE  Sound(Inverse(operations[i].moves))
<1> DEFINE moves == operations[i].moves
<1>1. moves \in [Products -> Movements]
  BY OperationType
<1>2. \A p \in Products : moves[p].quantity = 0 <=> moves[p].source = moves[p].destination
  BY DEF MovesAreSound
<1> SUFFICES ASSUME NEW p \in Products
             PROVE  /\ Inverse(moves)[p] \in Commands
                    /\ Inverse(moves)[p].quantity = 0
                         <=> Inverse(moves)[p].source = Inverse(moves)[p].destination
  BY DEF Sound, Inverse
<1>3. /\ moves[p].quantity \in Nat
      /\ moves[p].source \in Endpoints /\ moves[p].destination \in Endpoints
  BY <1>1 DEF Movements
<1> QED
  BY <1>2, <1>3 DEF Inverse, Move, Commands, Endpoints

-----------------------------------------------------------------------------
(* One operation is posted *)

\* The ledger after Post: the old operations and a new one.
Posted(type, moves, reverses) ==
  /\ balance' = ApplyMoves(balance, moves)
  /\ Len(operations) \in Nat
  /\ Len(operations') = Len(operations) + 1
  /\ \A i \in 1..Len(operations) : operations'[i] = operations[i]
  /\ operations'[Len(operations) + 1].type = type
  /\ operations'[Len(operations) + 1].reverses = reverses
  /\ \A p \in Products :
       operations'[Len(operations) + 1].moves[p] = Recorded(balance, p, moves[p])

\* What Post leaves: a well-formed ledger with one more operation.
LEMMA PostFacts ==
  ASSUME TypeOK, NEW type \in OperationTypes, NEW reverses \in Nat, NEW moves, Sound(moves),
         Post(type, moves, reverses)
  PROVE  TypeOK' /\ Posted(type, moves, reverses)
<1> DEFINE new == NewOperation(balance, type, moves, reverses)
<1>1. balance' \in [Locations -> [Products -> Nat]]
  BY AppliedType DEF TypeOK, Post
<1>2. new \in Operations
  <2>1. \A p \in Products : Recorded(balance, p, moves[p]) \in Movements
    BY RecordedType DEF TypeOK, Post
  <2> QED
    BY <2>1 DEF NewOperation, Operations
<1>3. operations \in Seq(Operations) /\ operations' = Append(operations, new)
  BY DEF TypeOK, Post
<1> HIDE DEF new
<1>4. /\ operations' \in Seq(Operations)
      /\ Len(operations') = Len(operations) + 1
      /\ Len(operations) \in Nat
      /\ \A i \in 1..Len(operations) : operations'[i] = operations[i]
      /\ operations'[Len(operations) + 1] = new
  BY <1>2, <1>3
<1> QED
  BY <1>1, <1>4 DEF TypeOK, Post, Posted, new, NewOperation

\* Operations with sound movements keep MovesAreSound.
LEMMA PostMovesAreSound ==
  ASSUME MovesAreSound, NEW type, NEW reverses, NEW moves, Sound(moves),
         type = "TRANSFER" => \A p \in Products :
            moves[p].quantity > 0 => Null \notin {moves[p].source, moves[p].destination},
         Posted(type, moves, reverses)
  PROVE  MovesAreSound'
<1> SUFFICES ASSUME NEW i \in 1..Len(operations'), NEW p \in Products
             PROVE  LET m == operations'[i].moves[p] IN
                    /\ m.quantity = 0 <=> m.source = m.destination
                    /\ m.quantity > 0 /\ operations'[i].type = "TRANSFER"
                         => Null \notin {m.source, m.destination}
  BY DEF MovesAreSound
<1>1. CASE i \in 1..Len(operations)
  BY <1>1 DEF Posted, MovesAreSound
<1>2. CASE i = Len(operations) + 1
  <2>1. operations'[i].moves[p] = Recorded(balance, p, moves[p]) /\ operations'[i].type = type
    BY <1>2 DEF Posted
  <2>2. moves[p].quantity = 0 <=> moves[p].source = moves[p].destination
    BY DEF Sound
  <2> QED
    BY <2>1, <2>2 DEF Recorded
<1> QED
  BY <1>1, <1>2 DEF Posted

-----------------------------------------------------------------------------
(* The balances can be rebuilt *)

\* How the new operation touches a row, and what it leaves there.
LEMMA PostedRow ==
  ASSUME TypeOK, NEW type, NEW reverses, NEW moves, Sound(moves), Posted(type, moves, reverses),
         NEW l \in Locations, NEW p \in Products, NEW n \in Nat, n = Len(operations) + 1
  PROVE  /\ balance[l][p] \in Nat
         /\ Delta(moves[p], l) \in Int
         /\ balance'[l][p] = balance[l][p] + Delta(moves[p], l)
         /\ Delta(operations'[n].moves[p], l) = Delta(moves[p], l)
         /\ Touches(n, l, p)' => After(n, l, p)' = balance'[l][p]
         /\ ~Touches(n, l, p)' => balance'[l][p] = balance[l][p]
<1> DEFINE m == moves[p]
<1>1. /\ m.quantity \in Nat
      /\ m.source \in Endpoints /\ m.destination \in Endpoints
      /\ m.quantity = 0 <=> m.source = m.destination
  BY DEF Sound, Commands
<1>2. balance[l][p] \in Nat
  BY DEF TypeOK
<1>3. Delta(m, l) \in Int /\ Delta(operations'[n].moves[p], l) = Delta(m, l)
  BY <1>1, DeltaType, RecordedDelta DEF Posted
<1>4. balance'[l][p] = balance[l][p] + Delta(m, l)
  BY DEF Posted, ApplyMoves
<1>5. operations'[n].moves[p] = Recorded(balance, p, m)
  BY DEF Posted
<1>6. l # Null
  BY LedgerAssumption
<1>7. Touches(n, l, p)' <=> m.quantity > 0 /\ l \in {m.source, m.destination}
  BY <1>5 DEF Touches, Recorded
<1>8. After(n, l, p)' = IF m.source = l THEN Recorded(balance, p, m).sourceAfter
                        ELSE Recorded(balance, p, m).destinationAfter
  BY <1>5 DEF After, Recorded
<1>9. ASSUME Touches(n, l, p)' PROVE After(n, l, p)' = balance'[l][p]
  <2>1. CASE m.source = l
    BY <1>1, <1>2, <1>4, <1>6, <1>7, <1>8, <1>9, <2>1 DEF Recorded, Delta
  <2>2. CASE m.source # l
    BY <1>1, <1>2, <1>4, <1>6, <1>7, <1>8, <1>9, <2>2 DEF Recorded, Delta
  <2> QED
    BY <2>1, <2>2
<1>10. ASSUME ~Touches(n, l, p)' PROVE balance'[l][p] = balance[l][p]
  BY <1>1, <1>2, <1>4, <1>7, <1>10 DEF Delta
<1> QED
  BY <1>2, <1>3, <1>4, <1>9, <1>10

\* The rows that touched l and p before keep what they recorded.
LEMMA PostKeepsRows ==
  ASSUME NEW type, NEW reverses, NEW moves, Posted(type, moves, reverses),
         NEW l \in Locations, NEW p \in Products, NEW i \in 1..Len(operations)
  PROVE  /\ operations'[i].moves[p] = operations[i].moves[p]
         /\ Touches(i, l, p)' <=> Touches(i, l, p)
         /\ After(i, l, p)' = After(i, l, p)
  BY DEF Posted, Touches, After

\* The new operation becomes the latest of every row it touches and its successor of
\* the one before; the other rows keep their latest operation.
LEMMA PostReproducesBalances ==
  ASSUME TypeOK, LedgerReproducesBalances, NEW type, NEW reverses, NEW moves, Sound(moves),
         Posted(type, moves, reverses)
  PROVE  LedgerReproducesBalances'
<1>1. PICK n \in Nat : n = Len(operations) + 1
  BY DEF Posted
<1> SUFFICES ASSUME NEW l \in Locations, NEW p \in Products
             PROVE
    LET rows == {i \in 1..n : Touches(i, l, p)'} IN
    /\ rows = {} => balance'[l][p] = 0
    /\ \A i \in rows :
         /\ (\A j \in rows : j <= i) => balance'[l][p] = After(i, l, p)'
         /\ (\A j \in rows : i <= j) => After(i, l, p)' = Delta(operations'[i].moves[p], l)
         /\ \A j \in rows :
              (i < j /\ \A k \in rows : k <= i \/ j <= k) =>
                After(j, l, p)' = After(i, l, p)' + Delta(operations'[j].moves[p], l)
  BY <1>1 DEF LedgerReproducesBalances, Posted
<1> DEFINE old == {i \in 1..Len(operations) : Touches(i, l, p)}
           rows == {i \in 1..n : Touches(i, l, p)'}
<1>2. /\ old = {} => balance[l][p] = 0
      /\ \A i \in old :
           /\ (\A j \in old : j <= i) => balance[l][p] = After(i, l, p)
           /\ (\A j \in old : i <= j) => After(i, l, p) = Delta(operations[i].moves[p], l)
           /\ \A j \in old :
                (i < j /\ \A k \in old : k <= i \/ j <= k) =>
                  After(j, l, p) = After(i, l, p) + Delta(operations[j].moves[p], l)
  BY DEF LedgerReproducesBalances
<1>3. \A i \in old : /\ operations'[i].moves[p] = operations[i].moves[p]
                     /\ After(i, l, p)' = After(i, l, p)
                     /\ i \in Nat /\ i < n
  BY <1>1, PostKeepsRows
<1>4. rows = IF Touches(n, l, p)' THEN old \cup {n} ELSE old
  BY <1>1, PostKeepsRows
<1>5. /\ balance[l][p] \in Nat
      /\ Delta(operations'[n].moves[p], l) \in Int
      /\ balance'[l][p] = balance[l][p] + Delta(operations'[n].moves[p], l)
      /\ Touches(n, l, p)' => After(n, l, p)' = balance'[l][p]
      /\ ~Touches(n, l, p)' => balance'[l][p] = balance[l][p]
  BY <1>1, PostedRow
<1> HIDE DEF old, rows
<1>6. CASE ~Touches(n, l, p)'
  BY <1>2, <1>3, <1>4, <1>5, <1>6 DEF rows
<1>7. CASE Touches(n, l, p)'
  <2>1. rows = old \cup {n} /\ rows # {}
    BY <1>4, <1>7
  <2>2. ASSUME NEW i \in rows, \A j \in rows : j <= i
        PROVE  balance'[l][p] = After(i, l, p)'
    BY <1>3, <1>5, <1>7, <2>1, <2>2
  <2>3. ASSUME NEW i \in rows, \A j \in rows : i <= j
        PROVE  After(i, l, p)' = Delta(operations'[i].moves[p], l)
    <3>1. CASE i = n
      BY <1>2, <1>3, <1>5, <1>7, <2>1, <2>3, <3>1
    <3>2. CASE i \in old
      BY <1>2, <1>3, <2>1, <2>3, <3>2
    <3> QED
      BY <2>1, <3>1, <3>2
  <2>4. ASSUME NEW i \in rows, NEW j \in rows, i < j, \A k \in rows : k <= i \/ j <= k
        PROVE  After(j, l, p)' = After(i, l, p)' + Delta(operations'[j].moves[p], l)
    <3>1. i \in old
      BY <1>3, <2>1, <2>4
    <3>2. CASE j = n
      <4>1. \A k \in old : k <= i
        BY <1>3, <2>1, <2>4, <3>2
      <4>2. balance[l][p] = After(i, l, p)'
        BY <1>2, <1>3, <3>1, <4>1
      <4> QED
        BY <1>5, <1>7, <3>2, <4>2
    <3>3. CASE j \in old
      BY <1>2, <1>3, <2>1, <2>4, <3>1, <3>3
    <3> QED
      BY <2>1, <3>2, <3>3
  <2> QED
    BY <2>1, <2>2, <2>3, <2>4 DEF rows
<1> QED
  BY <1>6, <1>7

-----------------------------------------------------------------------------
(* Reversals *)

\* An original, or the exact inverse of an operation not yet reversed.
LEMMA PostKeepsReversalsExact ==
  ASSUME TypeOK, ReversalsAreExact,
         NEW type, NEW reverses \in Nat, NEW moves \in [Products -> Commands],
         reverses # 0 =>
           /\ reverses \in 1..Len(operations) /\ ~Reversed(reverses)
           /\ type = operations[reverses].type
           /\ moves = Inverse(operations[reverses].moves),
         Posted(type, moves, reverses)
  PROVE  ReversalsAreExact'
<1>1. PICK n \in Nat : n = Len(operations) + 1
  BY DEF Posted
<1>2. /\ operations'[n].type = type /\ operations'[n].reverses = reverses
      /\ \A i \in 1..Len(operations) : operations'[i] = operations[i]
      /\ 1..Len(operations') = 1..n /\ 1..n = (1..Len(operations)) \cup {n}
      /\ n \notin 1..Len(operations)
  BY <1>1 DEF Posted
<1> SUFFICES ASSUME NEW i \in 1..n, operations'[i].reverses # 0
             PROVE
    LET undone == operations'[i].reverses IN
    /\ undone < i
    /\ operations'[i].type = operations'[undone].type
    /\ \A p \in Products, l \in Locations :
         Delta(operations'[i].moves[p], l) = -Delta(operations'[undone].moves[p], l)
    /\ \A j \in 1..n : operations'[j].reverses = undone => j = i
  BY <1>2 DEF ReversalsAreExact
<1> DEFINE undone == operations'[i].reverses
<1>3. CASE i \in 1..Len(operations)
  <2>1. undone = operations[i].reverses /\ undone \in Nat \ {0} /\ undone < i
    BY <1>2, <1>3, OperationType DEF ReversalsAreExact, Operations
  <2>2. undone \in 1..Len(operations)
    BY <1>1, <1>3, <2>1
  <2>3. ASSUME NEW j \in 1..n, operations'[j].reverses = undone PROVE j = i
    <3>1. CASE j \in 1..Len(operations)
      BY <1>2, <1>3, <2>1, <2>3, <3>1 DEF ReversalsAreExact
    <3>2. CASE j = n
      <4>1. reverses = undone /\ ~Reversed(undone)
        BY <1>2, <2>1, <2>3, <3>2
      <4> QED
        BY <1>3, <2>1, <4>1 DEF Reversed
    <3> QED
      BY <1>2, <3>1, <3>2
  <2> QED
    BY <1>2, <1>3, <2>1, <2>2, <2>3 DEF ReversalsAreExact
<1>4. CASE i = n
  <2>1. /\ undone = reverses /\ undone \in 1..Len(operations) /\ ~Reversed(undone)
        /\ type = operations[undone].type /\ operations'[undone] = operations[undone]
    BY <1>2, <1>4
  <2>2. ASSUME NEW p \in Products, NEW l \in Locations
        PROVE  Delta(operations'[i].moves[p], l) = -Delta(operations'[undone].moves[p], l)
    <3>1. operations'[i].moves[p] = Recorded(balance, p, moves[p])
      BY <1>1, <1>4 DEF Posted
    <3>2. moves = Inverse(operations[undone].moves)
      BY <1>2, <1>4
    <3>3. Delta(operations'[i].moves[p], l) = Delta(Inverse(operations[undone].moves)[p], l)
      BY <3>1, <3>2, RecordedDelta
    <3>4. operations[undone].moves \in [Products -> Movements]
      BY <2>1, OperationType
    <3>5. Delta(Inverse(operations[undone].moves)[p], l) = -Delta(operations[undone].moves[p], l)
      BY <3>4, InverseDelta
    <3> QED
      BY <2>1, <3>3, <3>5
  <2>3. ASSUME NEW j \in 1..n, operations'[j].reverses = undone PROVE j = i
    BY <1>2, <1>4, <2>1, <2>3 DEF Reversed
  <2> QED
    BY <1>1, <1>2, <1>4, <2>1, <2>2, <2>3
<1> QED
  BY <1>2, <1>3, <1>4

-----------------------------------------------------------------------------
(* The invariant *)

\* Whatever sound movements a handler posts, as an original or as the inverse of an
\* operation not yet reversed, the ledger keeps its invariant.
LEMMA PostPreservesIInv ==
  ASSUME IInv, NEW type \in OperationTypes, NEW reverses \in Nat, NEW moves, Sound(moves),
         type = "TRANSFER" => \A p \in Products :
            moves[p].quantity > 0 => Null \notin {moves[p].source, moves[p].destination},
         reverses # 0 =>
           /\ reverses \in 1..Len(operations) /\ ~Reversed(reverses)
           /\ type = operations[reverses].type
           /\ moves = Inverse(operations[reverses].moves),
         Post(type, moves, reverses)
  PROVE  IInv' /\ Posted(type, moves, reverses)
<1>1. TypeOK /\ MovesAreSound /\ LedgerReproducesBalances /\ ReversalsAreExact
  BY DEF IInv
<1>2. TypeOK' /\ Posted(type, moves, reverses)
  BY <1>1, PostFacts
<1>3. MovesAreSound'
  BY <1>1, <1>2, PostMovesAreSound
<1>4. LedgerReproducesBalances'
  BY <1>1, <1>2, PostReproducesBalances
<1>5. ReversalsAreExact'
  <2>1. moves \in [Products -> Commands]
    BY DEF Sound
  <2> QED
    BY <1>1, <1>2, <2>1, PostKeepsReversalsExact
<1> QED
  BY <1>2, <1>3, <1>4, <1>5 DEF IInv

\* The empty ledger satisfies the invariant.
LEMMA InitIInv == Init => IInv
<1> SUFFICES ASSUME Init PROVE IInv
  OBVIOUS
<1>1. balance = [l \in Locations |-> [p \in Products |-> 0]] /\ operations = <<>>
  BY DEF Init
<1>2. operations \in Seq(Operations) /\ Len(operations) = 0 /\ 1..Len(operations) = {}
  BY <1>1
<1>3. TypeOK
  BY <1>1, <1>2 DEF TypeOK
<1>4. MovesAreSound /\ ReversalsAreExact
  BY <1>2 DEF MovesAreSound, ReversalsAreExact
<1>5. LedgerReproducesBalances
  BY <1>1, <1>2 DEF LedgerReproducesBalances
<1> QED
  BY <1>3, <1>4, <1>5 DEF IInv

\* Each handler posts what PostPreservesIInv asks for.
LEMMA BranchOperationPosts ==
  ASSUME IInv, NEW type \in BranchOperationTypes, NEW b \in Branches, NEW lines \in Lines,
         CreateBranchOperation(type, b, lines)
  PROVE  IInv' /\ Posted(type, BranchMoves(type, b, lines), 0)
<1>1. b \in Endpoints /\ Null \in Endpoints /\ b # Null
  BY LedgerAssumption DEF Endpoints, Locations
<1>2. Sound(BranchMoves(type, b, lines))
  BY <1>1, LinesMoves DEF BranchMoves
<1>3. type \in OperationTypes /\ type # "TRANSFER"
  BY DEF BranchOperationTypes, OperationTypes
<1>4. Post(type, BranchMoves(type, b, lines), 0)
  BY DEF CreateBranchOperation
<1> QED
  BY <1>2, <1>3, <1>4, PostPreservesIInv

\* createTransfer posts movements between two different branches.
LEMMA TransferPosts ==
  ASSUME IInv, NEW source \in Branches, NEW destination \in Branches, NEW lines \in Lines,
         CreateTransfer(source, destination, lines)
  PROVE  IInv' /\ Posted("TRANSFER", MovesOf(lines, source, destination), 0)
<1>1. /\ source \in Endpoints /\ destination \in Endpoints /\ source # destination
      /\ Null \notin {source, destination}
  BY LedgerAssumption DEF Endpoints, Locations, CreateTransfer
<1>2. Sound(MovesOf(lines, source, destination))
  BY <1>1, LinesMoves
<1>3. \A p \in Products : MovesOf(lines, source, destination)[p].quantity > 0 =>
        Null \notin { MovesOf(lines, source, destination)[p].source,
                     MovesOf(lines, source, destination)[p].destination }
  BY <1>1 DEF MovesOf, Move
<1>4. Post("TRANSFER", MovesOf(lines, source, destination), 0)
  BY DEF CreateTransfer
<1>5. "TRANSFER" \in OperationTypes
  BY DEF OperationTypes
<1> QED
  BY <1>2, <1>3, <1>4, <1>5, PostPreservesIInv

\* reverse posts the inverse of an operation nobody reversed yet.
LEMMA ReversalPosts ==
  ASSUME IInv, NEW i \in Nat, Reverse(i)
  PROVE  /\ i \in 1..Len(operations)
         /\ IInv' /\ Posted(operations[i].type, Inverse(operations[i].moves), i)
<1>1. /\ i \in 1..Len(operations) /\ ~Reversed(i)
      /\ Post(operations[i].type, Inverse(operations[i].moves), i)
  BY DEF Reverse
<1>2. Sound(Inverse(operations[i].moves))
  BY <1>1, InverseMoves DEF IInv
<1>3. operations[i].type \in OperationTypes
  BY <1>1, OperationType DEF IInv
<1>4. operations[i].type = "TRANSFER" => \A p \in Products :
        Inverse(operations[i].moves)[p].quantity > 0 =>
          Null \notin { Inverse(operations[i].moves)[p].source,
                       Inverse(operations[i].moves)[p].destination }
  BY <1>1 DEF IInv, MovesAreSound, Inverse, Move
<1> QED
  BY <1>1, <1>2, <1>3, <1>4, PostPreservesIInv

\* Every handler keeps the invariant.
LEMMA NextIInv == IInv /\ [Next]_ledgerVars => IInv'
<1> SUFFICES ASSUME IInv, [Next]_ledgerVars PROVE IInv'
  OBVIOUS
<1>1. ASSUME NEW type \in BranchOperationTypes, NEW b \in Branches, NEW lines \in Lines,
             CreateBranchOperation(type, b, lines)
      PROVE  IInv'
  BY <1>1, BranchOperationPosts
<1>2. ASSUME NEW source \in Branches, NEW destination \in Branches, NEW lines \in Lines,
             CreateTransfer(source, destination, lines)
      PROVE  IInv'
  BY <1>2, TransferPosts
<1>3. ASSUME NEW i \in 1..MaxOps, Reverse(i)
      PROVE  IInv'
  BY <1>3, ReversalPosts
<1>4. CASE UNCHANGED ledgerVars
  BY <1>4 DEF ledgerVars, IInv, TypeOK, MovesAreSound, LedgerReproducesBalances,
              ReversalsAreExact, Touches, After
<1> QED
  BY <1>1, <1>2, <1>3, <1>4 DEF Next

\* IInv holds for ever: the lemmas above are its induction.
THEOREM Invariance == Spec => []IInv
  BY InitIInv, NextIInv, PTL DEF Spec

-----------------------------------------------------------------------------
(* Results *)

\* No balance is ever negative and every row is well formed: applyMovement checks each
\* source under its lock, and every handler names endpoints as it must.
THEOREM TypeCorrect == Spec => []TypeOK
<1>1. IInv => TypeOK
  BY DEF IInv
<1> QED
  BY <1>1, Invariance, PTL

\* The balances can always be rebuilt from the movements: what applyMovement records
\* beside each update is enough to audit them.
THEOREM BalancesReproduced == Spec => []LedgerReproducesBalances
<1>1. IInv => LedgerReproducesBalances
  BY DEF IInv
<1> QED
  BY <1>1, Invariance, PTL

\* A reversal is the exact opposite of one earlier operation, which no other reverses.
THEOREM ReversalsExact == Spec => []ReversalsAreExact
<1>1. IInv => ReversalsAreExact
  BY DEF IInv
<1> QED
  BY <1>1, Invariance, PTL

\* A posted transfer takes from one branch what it gives to another.
LEMMA PostedTransferConserves ==
  ASSUME TypeOK, NEW reverses, NEW moves, Sound(moves),
         \A p \in Products :
            moves[p].quantity > 0 => Null \notin {moves[p].source, moves[p].destination},
         Posted("TRANSFER", moves, reverses),
         NEW p \in Products, NEW l \in Locations, balance'[l][p] > balance[l][p]
  PROVE  \E k \in Locations : balance[k][p] - balance'[k][p] = balance'[l][p] - balance[l][p]
<1> DEFINE m == moves[p]
<1>1. /\ m.quantity \in Nat
      /\ m.source \in Endpoints /\ m.destination \in Endpoints
      /\ m.quantity = 0 <=> m.source = m.destination
  BY DEF Sound, Commands
<1>2. \A k \in Locations : /\ balance[k][p] \in Nat
                           /\ balance'[k][p] = balance[k][p] + Delta(m, k)
  BY DEF TypeOK, Posted, ApplyMoves
<1>3. m.quantity > 0 /\ m.destination = l
  BY <1>1, <1>2 DEF Delta
<1>4. m.source \in Locations /\ m.source # l
  BY <1>1, <1>3 DEF Endpoints
<1>5. balance[m.source][p] - balance'[m.source][p] = balance'[l][p] - balance[l][p]
  BY <1>1, <1>2, <1>3, <1>4 DEF Delta
<1> QED
  BY <1>4, <1>5

\* Transfers, and reversals of transfers, neither create nor destroy stock.
THEOREM TransfersConserved == Spec => TransfersConserve
<1> DEFINE Grows == Len(operations') > Len(operations)
                    /\ operations'[Len(operations')].type = "TRANSFER"
           Conserves == \A p \in Products, l \in Locations :
             balance'[l][p] > balance[l][p] =>
               \E k \in Locations :
                 balance[k][p] - balance'[k][p] = balance'[l][p] - balance[l][p]
<1>1. IInv /\ [Next]_ledgerVars => [Grows => Conserves]_ledgerVars
  <2> SUFFICES ASSUME IInv, Next, Grows PROVE Conserves
    BY DEF ledgerVars
  <2>1. ASSUME NEW type \in BranchOperationTypes, NEW b \in Branches, NEW lines \in Lines,
               CreateBranchOperation(type, b, lines)
        PROVE  FALSE
    <3>1. type # "TRANSFER"
      BY DEF BranchOperationTypes
    <3> QED
      BY <2>1, <3>1, BranchOperationPosts DEF Posted
  <2>2. ASSUME NEW source \in Branches, NEW destination \in Branches, NEW lines \in Lines,
               CreateTransfer(source, destination, lines)
        PROVE  Conserves
    <3> DEFINE moves == MovesOf(lines, source, destination)
    <3>1. /\ source \in Endpoints /\ destination \in Endpoints /\ source # destination
          /\ Null \notin {source, destination}
      BY <2>2, LedgerAssumption DEF Endpoints, Locations, CreateTransfer
    <3>2. Sound(moves)
      BY <3>1, LinesMoves
    <3>3. \A p \in Products : moves[p].quantity > 0 =>
            Null \notin {moves[p].source, moves[p].destination}
      BY <3>1 DEF MovesOf, Move
    <3>4. Posted("TRANSFER", moves, 0)
      BY <2>2, TransferPosts
    <3> QED
      BY <3>2, <3>3, <3>4, PostedTransferConserves DEF IInv
  <2>3. ASSUME NEW i \in 1..MaxOps, Reverse(i)
        PROVE  Conserves
    <3> DEFINE moves == Inverse(operations[i].moves)
    <3>1. i \in 1..Len(operations) /\ Posted(operations[i].type, moves, i)
      BY <2>3, ReversalPosts
    <3>2. operations[i].type = "TRANSFER"
      BY <3>1 DEF Posted
    <3>3. Sound(moves)
      BY <3>1, InverseMoves DEF IInv
    <3>4. \A p \in Products : moves[p].quantity > 0 =>
            Null \notin {moves[p].source, moves[p].destination}
      BY <3>1, <3>2 DEF IInv, MovesAreSound, Inverse, Move
    <3> QED
      BY <3>1, <3>2, <3>3, <3>4, PostedTransferConserves DEF IInv
  <2> QED
    BY <2>1, <2>2, <2>3 DEF Next
<1> QED
  BY <1>1, Invariance, PTL DEF Spec, TransfersConserve
=============================================================================
