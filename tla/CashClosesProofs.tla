-------------------------- MODULE CashClosesProofs --------------------------
(***************************************************************************)
(* The properties of cash closes, for any pages, sales, periods, numbers   *)
(* of overlapping commands and bounds.                                     *)
(***************************************************************************)
EXTENDS CashCloses, SumTheorems

\* The amounts a close may show.
Amounts == {GroupTotals(S) : S \in SUBSET Sales}
Grosses == {Total(l) : l \in Amounts}

SlotTypes ==
  [ key: Keys, pc: {"begin"} \cup Statements \cup Results, attempt: 1..MaxAttempts,
    waited: BOOLEAN, snapshot: Snapshots \cup {Null}, lines: Amounts \cup {Null},
    sales: SUBSET Sales, close: Nat ]

CloseTypes ==
  [ key: Keys, period: Periods, supersedes: Nat, lines: Amounts, sales: SUBSET Sales,
    gross: Grosses, partner: {calculatePartnerShare(g).partner : g \in Grosses},
    remaining: {calculatePartnerShare(g).remaining : g \in Grosses}, open: SUBSET Sales ]

Types ==
  /\ today \in Int
  /\ sale \in [Sales -> [status: {"none", "running", "COMPLETED", "CANCELLED"}, at: Int]]
  /\ closes \in Seq(CloseTypes)
  /\ pointer \in [Periods -> Nat]
  /\ \A n \in DOMAIN closes : pointer[closes[n].period] # 0
  /\ slot \in [Slots -> SlotTypes \cup {Null}]
  /\ done \in [Clients -> SUBSET Commands]

\* What a command has read so far, and that its target exists.
HasRead(r) ==
  r # Null =>
    /\ r.key.command.target \in 0..Len(closes)
    /\ r.pc \in Statements =>
         /\ r.snapshot \in Snapshots
         /\ r.key.command.target # 0 => r.snapshot.pointer # 0
    /\ r.pc \in {"sales", "insert"} => r.lines = GroupTotals(r.snapshot.completed)
    /\ r.pc = "insert" => r.sales = r.snapshot.completed

Reads == \A i \in Slots : HasRead(slot[i])

-----------------------------------------------------------------------------
(* Types *)

\* A command corrects a target, or asks for a period by one of its days.
LEMMA CommandTypes ==
  ASSUME NEW command \in Commands
  PROVE  /\ command.target \in Nat
         /\ command.target = 0 => command.anchor \in Anchors
  BY CashClosesAssumption DEF Commands, Create, Correct

\* Every command is about one of the periods.
LEMMA PeriodType ==
  ASSUME Types, Reads, NEW i \in Slots, slot[i] # Null
  PROVE  /\ Target(i) \in Nat /\ slot[i].key \in Keys /\ slot[i].key.command \in Commands
         /\ Period(i) \in Periods
<1>1. slot[i].key \in Keys /\ slot[i].key.command \in Commands
  BY DEF Types, SlotTypes, Keys
<1>2. Target(i) \in Nat /\ (Target(i) = 0 => slot[i].key.command.anchor \in Anchors)
  BY <1>1, CommandTypes DEF Target
<1>3. CASE Target(i) = 0
  BY <1>2, <1>3, <1>1 DEF Period, PeriodOf, Target, Periods
<1>4. CASE Target(i) # 0
  <2>1. Target(i) \in DOMAIN closes /\ closes[Target(i)] \in CloseTypes
    BY <1>2, <1>4 DEF Reads, HasRead, Types, Target
  <2> QED
    BY <2>1, <1>1, <1>2, <1>4 DEF Period, PeriodOf, Target, CloseTypes
<1> QED
  BY <1>1, <1>2, <1>3, <1>4

\* What a transaction sees of the books is a snapshot.
LEMMA SnapshotType ==
  ASSUME Types, NEW p \in Periods
  PROVE  Snapshot(p) \in Snapshots
  BY DEF Types, Snapshot, Snapshots, Completed, With

\* The shares of a gross amount are among those of all gross amounts.
LEMMA ShareTypes ==
  ASSUME NEW g \in Grosses
  PROVE  /\ calculatePartnerShare(g).partner \in {calculatePartnerShare(h).partner : h \in Grosses}
         /\ calculatePartnerShare(g).remaining \in {calculatePartnerShare(h).remaining : h \in Grosses}
  OBVIOUS

\* A command begins with nothing read.
LEMMA NewSlotType ==
  ASSUME NEW key \in Keys
  PROVE  NewSlot(key) \in SlotTypes
  BY CashClosesAssumption DEF NewSlot, SlotTypes

\* A step of a command that commits nothing.
LEMMA QuietTypes ==
  ASSUME Types, Reads, UNCHANGED books, UNCHANGED done,
         NEW i \in Slots, NEW r \in SlotTypes \cup {Null}, HasRead(r),
         slot' = [slot EXCEPT ![i] = r]
  PROVE  Types' /\ Reads'
<1>1. Types'
  BY DEF Types, books
<1>2. \A j \in Slots : slot'[j] = IF j = i THEN r ELSE slot[j]
  BY DEF Types
<1>3. Reads'
  BY <1>2 DEF Reads, HasRead, books
<1> QED
  BY <1>1, <1>3

\* An answer frees its slot and keeps the types.
LEMMA AnswerTypes ==
  ASSUME Types, Reads, UNCHANGED books, UNCHANGED done, NEW i \in Slots, slot[i] # Null,
         NEW result \in Results, NEW n \in Nat, Answer(i, result, n)
  PROVE  Types' /\ Reads'
<1> DEFINE r == [Fresh(i) EXCEPT !.pc = result, !.close = n]
<1>1. slot[i] \in SlotTypes
  BY DEF Types
<1>2. Fresh(i) \in SlotTypes
  BY <1>1, NewSlotType DEF SlotTypes, Fresh
<1>3. r \in SlotTypes
  BY <1>2 DEF SlotTypes
<1>4. r.key = slot[i].key /\ r.pc = result
  BY <1>1 DEF Fresh, NewSlot, SlotTypes
<1>5. HasRead(r)
  BY <1>4, <1>1 DEF HasRead, Reads, Results, Statements
<1> QED
  BY <1>3, <1>5, QuietTypes DEF Answer

\* A command that ends without an answer keeps the types.
LEMMA NoAnswerTypes ==
  ASSUME Types, Reads, UNCHANGED books, UNCHANGED done, NEW i \in Slots, NoAnswer(i)
  PROVE  Types' /\ Reads'
<1>1. HasRead(Null)
  BY DEF HasRead
<1> QED
  BY <1>1, QuietTypes DEF NoAnswer

\* Every step keeps the types and what each command has read.
LEMMA TypesStep ==
  ASSUME Types, Reads, [Next]_vars
  PROVE  Types' /\ Reads'
<1>1. ASSUME NEW c \in Clients, NEW i \in Slots, NEW command \in Commands, Ask(c, i, command)
      PROVE  Types' /\ Reads'
  <2>1. Key(c, command) \in Keys
    BY DEF Key, Keys
  <2>2. HasRead(NewSlot(Key(c, command)))
    BY <1>1 DEF HasRead, NewSlot, Key, Ask, Statements
  <2> QED
    BY <1>1, <2>1, <2>2, NewSlotType, QuietTypes DEF Ask
<1>2. ASSUME NEW i \in Slots, TimeOut(i)
      PROVE  Types' /\ Reads'
  <2> DEFINE r == [slot[i] EXCEPT !.waited = FALSE]
  <2>1. slot[i] \in SlotTypes /\ HasRead(slot[i])
    BY <1>2 DEF TimeOut, Types, Reads
  <2>2. r \in SlotTypes
    BY <2>1 DEF SlotTypes
  <2>3. /\ r.key = slot[i].key /\ r.pc = slot[i].pc /\ r.snapshot = slot[i].snapshot
        /\ r.lines = slot[i].lines /\ r.sales = slot[i].sales
    BY <2>1 DEF SlotTypes
  <2>4. HasRead(r)
    BY <1>2, <2>1, <2>3 DEF HasRead, TimeOut
  <2>5. slot' = [slot EXCEPT ![i] = r]
    BY <1>2 DEF TimeOut
  <2> HIDE DEF r
  <2> QED
    BY <1>2, <2>2, <2>4, <2>5, QuietTypes DEF TimeOut
<1>3. ASSUME NEW i \in Slots, Receive(i)
      PROVE  Types' /\ Reads'
  <2>1. slot[i] \in SlotTypes
    BY <1>3 DEF Receive, Ended, At, Types
  <2>2. slot[i].key.client \in Clients /\ slot[i].key.command \in Commands
    BY <2>1 DEF SlotTypes, Keys
  <2>3. done' \in [Clients -> SUBSET Commands]
    BY <1>3, <2>2 DEF Receive, Types
  <2>4. \A j \in Slots : slot'[j] = IF j = i THEN Null ELSE slot[j]
    BY <1>3 DEF Receive, Types
  <2>5. Types'
    BY <1>3, <2>3 DEF Receive, Types, books
  <2>6. Reads'
    BY <1>3, <2>4 DEF Receive, Reads, HasRead, books
  <2> QED
    BY <2>5, <2>6
<1>4. ASSUME NEW i \in Slots, Begin(i)
      PROVE  Types' /\ Reads'
  <2>1. slot[i] # Null /\ slot[i] \in SlotTypes /\ HasRead(slot[i])
    BY <1>4 DEF Begin, At, Types, Reads
  <2>2. CASE Applied(slot[i].key) = {}
             /\ slot' = [slot EXCEPT ![i].pc = "lock", ![i].snapshot = Snapshot(Period(i))]
    <3> DEFINE r == [slot[i] EXCEPT !.pc = "lock", !.snapshot = Snapshot(Period(i))]
    <3>1. Period(i) \in Periods /\ Target(i) \in Nat
      BY <2>1, PeriodType
    <3>2. Snapshot(Period(i)) \in Snapshots
      BY <3>1, SnapshotType
    <3>3. r \in SlotTypes
      BY <2>1, <3>2 DEF SlotTypes, Statements
    <3>4. Target(i) # 0 => pointer[Period(i)] # 0
      BY <2>1, <3>1 DEF Types, HasRead, Target, Period, PeriodOf
    <3>5. HasRead(r)
      BY <2>1, <3>2, <3>4 DEF HasRead, SlotTypes, Snapshot, Target, Statements
    <3>6. slot' = [slot EXCEPT ![i] = r]
      BY <2>2
    <3> QED
      BY <1>4, <3>3, <3>5, <3>6, QuietTypes DEF Begin
  <2>3. ASSUME NEW n \in Applied(slot[i].key), Answer(i, "close", n)
        PROVE  Types' /\ Reads'
    <3>1. n \in Nat
      BY DEF Applied, Types
    <3> QED
      BY <1>4, <2>1, <2>3, <3>1, AnswerTypes DEF Begin, Results
  <2> QED
    BY <1>4, <2>2, <2>3 DEF Begin
<1>5. ASSUME NEW i \in Slots, lockCurrentPeriod(i)
      PROVE  Types' /\ Reads'
  <2>1. slot[i] # Null /\ slot[i] \in SlotTypes /\ HasRead(slot[i])
    BY <1>5 DEF lockCurrentPeriod, At, Types, Reads
  <2>2. ASSUME slot' = [slot EXCEPT ![i].pc = "groups"]
        PROVE  Types' /\ Reads'
    <3> DEFINE r == [slot[i] EXCEPT !.pc = "groups"]
    <3>1. r \in SlotTypes
      BY <2>1 DEF SlotTypes, Statements
    <3>2. HasRead(r)
      BY <1>5, <2>1 DEF HasRead, SlotTypes, lockCurrentPeriod, At, Statements
    <3>3. slot' = [slot EXCEPT ![i] = r]
      BY <2>2
    <3> HIDE DEF r
    <3> QED
      BY <1>5, <3>1, <3>2, <3>3, QuietTypes DEF lockCurrentPeriod
  <2>3. ASSUME Answer(i, "refused", 0)
        PROVE  Types' /\ Reads'
    BY <1>5, <2>1, <2>3, AnswerTypes DEF lockCurrentPeriod, Results
  <2> QED
    BY <1>5, <2>2, <2>3 DEF lockCurrentPeriod
<1>6. ASSUME NEW i \in Slots, financialGroups(i)
      PROVE  Types' /\ Reads'
  <2> DEFINE r == [slot[i] EXCEPT !.pc = "sales", !.lines = GroupTotals(Visible(i))]
  <2>1. slot[i] # Null /\ slot[i].pc = "groups" /\ slot[i] \in SlotTypes /\ HasRead(slot[i])
    BY <1>6 DEF financialGroups, At, Types, Reads
  <2>2. slot[i].snapshot \in Snapshots
    BY <2>1 DEF HasRead, Statements
  <2>3. GroupTotals(Visible(i)) \in Amounts
    BY <2>2 DEF Amounts, Visible, Snapshots
  <2>4. r \in SlotTypes
    BY <2>1, <2>3 DEF SlotTypes, Statements
  <2>5. HasRead(r)
    BY <2>1 DEF HasRead, SlotTypes, Statements, Visible
  <2>6. slot' = [slot EXCEPT ![i] = r]
    BY <1>6 DEF financialGroups
  <2> HIDE DEF r
  <2> QED
    BY <1>6, <2>4, <2>5, <2>6, QuietTypes DEF financialGroups
<1>7. ASSUME NEW i \in Slots, contributingSales(i)
      PROVE  Types' /\ Reads'
  <2>1. slot[i] # Null /\ slot[i].pc = "sales" /\ slot[i] \in SlotTypes /\ HasRead(slot[i])
    BY <1>7 DEF contributingSales, At, Types, Reads
  <2>2. ASSUME slot' = [slot EXCEPT ![i].pc = "insert", ![i].sales = Visible(i)]
        PROVE  Types' /\ Reads'
    <3> DEFINE r == [slot[i] EXCEPT !.pc = "insert", !.sales = Visible(i)]
    <3>1. slot[i].snapshot \in Snapshots
      BY <2>1 DEF HasRead, Statements
    <3>2. Visible(i) \in SUBSET Sales
      BY <3>1 DEF Visible, Snapshots
    <3>3. r \in SlotTypes
      BY <2>1, <3>2 DEF SlotTypes, Statements
    <3>4. HasRead(r)
      BY <2>1 DEF HasRead, SlotTypes, Statements, Visible
    <3>5. slot' = [slot EXCEPT ![i] = r]
      BY <2>2
    <3> HIDE DEF r
    <3> QED
      BY <1>7, <3>3, <3>4, <3>5, QuietTypes DEF contributingSales
  <2>3. ASSUME NoAnswer(i)
        PROVE  Types' /\ Reads'
    BY <1>7, <2>3, NoAnswerTypes DEF contributingSales
  <2> QED
    BY <1>7, <2>2, <2>3 DEF contributingSales
<1>8. ASSUME NEW i \in Slots, persist(i)
      PROVE  Types' /\ Reads'
  <2>1. slot[i] # Null /\ slot[i].pc = "insert" /\ slot[i] \in SlotTypes /\ HasRead(slot[i])
    BY <1>8 DEF persist, At, Types, Reads
  <2>2. Period(i) \in Periods /\ Target(i) \in Nat
    BY <2>1, PeriodType
  <2>3. slot[i].lines \in Amounts /\ Total(slot[i].lines) \in Grosses
    BY <2>1 DEF HasRead, Amounts, Grosses, Statements, Snapshots
  <2>4. NewClose(i) \in CloseTypes
    <3>1. slot[i].snapshot \in Snapshots
      BY <2>1 DEF HasRead, Statements
    <3> QED
      BY <2>1, <2>2, <2>3, <3>1, ShareTypes DEF NewClose, CloseTypes, SlotTypes, Snapshots
  <2>5. closes' \in Seq(CloseTypes) /\ Len(closes') = Len(closes) + 1
    BY <1>8, <2>4 DEF persist, Types
  <2>6. /\ \A n \in DOMAIN closes : closes'[n] = closes[n]
        /\ closes'[Len(closes) + 1] = NewClose(i)
    BY <1>8, <2>4 DEF persist, Types
  <2>7. pointer' \in [Periods -> Nat]
    BY <1>8, <2>2 DEF persist, Types
  <2>8. \A n \in DOMAIN closes' : pointer'[closes'[n].period] # 0
    <3>1. NewClose(i).period = Period(i)
      BY DEF NewClose
    <3> QED
      BY <1>8, <2>2, <2>5, <2>6, <3>1 DEF persist, Types, CloseTypes
  <2> DEFINE r == [Fresh(i) EXCEPT !.pc = "close", !.close = Len(closes) + 1]
  <2>9. r \in SlotTypes
    <3>1. Fresh(i) \in SlotTypes
      BY <2>1, NewSlotType DEF SlotTypes, Fresh
    <3>2. Len(closes) + 1 \in Nat /\ "close" \in Results
      BY DEF Types, Results
    <3> QED
      BY <3>1, <3>2 DEF SlotTypes
  <2>10. r.key = slot[i].key /\ r.pc = "close"
    BY DEF Fresh, NewSlot
  <2>11. slot' = [slot EXCEPT ![i] = r]
    BY <1>8 DEF persist, Answer
  <2> HIDE DEF r
  <2>12. \A j \in Slots : slot'[j] = IF j = i THEN r ELSE slot[j]
    BY <2>11 DEF Types
  <2>13. Types'
    BY <1>8, <2>5, <2>7, <2>8, <2>9, <2>11 DEF persist, Types
  <2>14. Reads'
    <3> SUFFICES ASSUME NEW j \in Slots PROVE HasRead(slot[j])'
      BY DEF Reads
    <3>1. CASE j = i
      BY <2>1, <2>5, <2>10, <2>12, <3>1 DEF HasRead, Statements, Types
    <3>2. CASE j # i
      BY <2>5, <2>12, <3>2 DEF HasRead, Reads, Types
    <3> QED
      BY <3>1, <3>2
  <2> QED
    BY <2>13, <2>14
<1>9. ASSUME NEW i \in Slots, Fail(i)
      PROVE  Types' /\ Reads'
  <2>1. slot[i] # Null /\ slot[i] \in SlotTypes /\ HasRead(slot[i])
    BY <1>9 DEF Fail, InTransaction, At, Types, Reads
  <2>2. ASSUME slot[i].attempt < MaxAttempts,
               slot' = [slot EXCEPT ![i] = [Fresh(i) EXCEPT !.attempt = slot[i].attempt + 1]]
        PROVE  Types' /\ Reads'
    <3> DEFINE r == [Fresh(i) EXCEPT !.attempt = slot[i].attempt + 1]
    <3>1. slot[i].attempt + 1 \in 1..MaxAttempts
      BY <2>1, <2>2, CashClosesAssumption DEF SlotTypes
    <3>2. Fresh(i) \in SlotTypes
      BY <2>1, NewSlotType DEF SlotTypes, Fresh
    <3>3. r \in SlotTypes
      BY <3>1, <3>2 DEF SlotTypes
    <3>4. r.key = slot[i].key /\ r.pc = "begin"
      BY DEF Fresh, NewSlot
    <3>5. HasRead(r)
      BY <2>1, <3>4 DEF HasRead, Statements
    <3> HIDE DEF r
    <3> QED
      BY <1>9, <2>2, <3>3, <3>5, QuietTypes DEF Fail, r
  <2>3. ASSUME NoAnswer(i)
        PROVE  Types' /\ Reads'
    BY <1>9, <2>3, NoAnswerTypes DEF Fail
  <2> QED
    BY <1>9, <2>2, <2>3 DEF Fail
<1>10. ASSUME NEW i \in Slots, Crash(i)
       PROVE  Types' /\ Reads'
  BY <1>10, NoAnswerTypes DEF Crash
<1>11. ASSUME NEW s \in Sales, SaleStep(s)
       PROVE  Types' /\ Reads'
  <2> DEFINE R == [status: {"none", "running", "COMPLETED", "CANCELLED"}, at: Int]
  <2>1. sale' \in [Sales -> R]
    <3>1. sale[s] \in R /\ sale \in [Sales -> R] /\ today \in Int
      BY DEF Types
    <3>2. CASE ConfirmSale(s)
      BY <3>1, <3>2 DEF ConfirmSale
    <3>3. CASE CancelSale(s)
      BY <3>1, <3>3 DEF CancelSale
    <3>4. CASE EndSale(s)
      <4>1. NoSale \in R
        BY DEF NoSale
      <4>2. [sale[s] EXCEPT !.status = "COMPLETED"] \in R
        BY <3>1
      <4> QED
        BY <3>1, <3>4, <4>1, <4>2 DEF EndSale
    <3> QED
      BY <1>11, <3>2, <3>3, <3>4 DEF SaleStep
  <2>2. Types'
    BY <1>11, <2>1 DEF SaleStep, Types
  <2> QED
    BY <1>11, <2>2 DEF SaleStep, Reads, HasRead
<1>12. CASE NextDay \/ UNCHANGED vars
  BY <1>12 DEF NextDay, vars, Types, Reads, HasRead
<1> QED
  BY <1>1, <1>2, <1>3, <1>4, <1>5, <1>6, <1>7, <1>8, <1>9, <1>10, <1>11, <1>12
  DEF Next, Serve

\* The types hold at the start.
LEMMA TypesInit ==
  ASSUME Init
  PROVE  Types /\ Reads
<1>1. today \in Int
  BY CalendarAssumption DEF Init
<1>2. closes \in Seq(CloseTypes) /\ DOMAIN closes = {}
  BY DEF Init
<1>3. sale \in [Sales -> [status: {"none", "running", "COMPLETED", "CANCELLED"}, at: Int]]
  BY DEF Init, NoSale
<1> QED
  BY <1>1, <1>2, <1>3 DEF Init, Types, Reads, HasRead

\* The typed invariant every theorem below rests on.
LEMMA TypesInvariant == Spec => [](Types /\ Reads)
<1>1. Init => Types /\ Reads
  BY TypesInit
<1>2. Types /\ Reads /\ [Next]_vars => (Types /\ Reads)'
  BY TypesStep
<1> QED
  BY <1>1, <1>2, PTL DEF Spec

-----------------------------------------------------------------------------
(* What a step commits *)

\* Only persist changes the closes and the current ones.
LEMMA Commits ==
  ASSUME [Next]_vars
  PROVE  UNCHANGED <<closes, pointer>> \/ \E i \in Slots : persist(i)
BY DEF Next, Serve, Ask, TimeOut, Receive, Begin, lockCurrentPeriod, financialGroups,
  contributingSales, Fail, Crash, SaleStep, NextDay, vars, books

\* The close and the pointer that persist leaves behind.
LEMMA Persisted ==
  ASSUME Types, Reads, NEW i \in Slots, persist(i)
  PROVE  /\ Period(i) \in Periods /\ Target(i) \in 0..Len(closes) /\ Len(closes) \in Nat
         /\ Target(i) # 0 => closes[Target(i)].period = Period(i)
         /\ pointer[Period(i)] = Target(i)
         /\ DOMAIN closes = 1..Len(closes) /\ DOMAIN closes' = 1..(Len(closes) + 1)
         /\ \A n \in DOMAIN closes : closes'[n] = closes[n]
         /\ closes'[Len(closes) + 1] = NewClose(i)
         /\ \A p \in Periods :
              pointer'[p] = IF p = Period(i) THEN Len(closes) + 1 ELSE pointer[p]
         /\ \A n \in DOMAIN closes : closes[n].period \in Periods
         /\ \A n \in DOMAIN closes : pointer[closes[n].period] # 0
<1>1. slot[i] # Null /\ HasRead(slot[i])
  BY DEF persist, At, Reads
<1>2. Period(i) \in Periods /\ Target(i) \in 0..Len(closes)
  BY <1>1, PeriodType DEF HasRead, Target
<1>3. Target(i) # 0 => closes[Target(i)].period = Period(i)
  BY DEF Period, PeriodOf, Target
<1>4. /\ Len(closes) \in Nat /\ DOMAIN closes = 1..Len(closes)
      /\ \A n \in DOMAIN closes : closes[n] \in CloseTypes
  BY DEF Types
<1>5. /\ DOMAIN closes' = 1..(Len(closes) + 1)
      /\ \A n \in DOMAIN closes : closes'[n] = closes[n]
      /\ closes'[Len(closes) + 1] = NewClose(i)
  BY <1>4 DEF persist, Types
<1>6. \A p \in Periods : pointer'[p] = IF p = Period(i) THEN Len(closes) + 1 ELSE pointer[p]
  BY <1>2 DEF persist, Types
<1> QED
  BY <1>2, <1>3, <1>4, <1>5, <1>6 DEF persist, Types, CloseTypes

-----------------------------------------------------------------------------
(* The two queries of a close tell the same *)

\* The totals by group a command has read are those of the sales its second query lists,
\* whatever completes or is cancelled in between.
THEOREM QueriesAgreeTheorem == Spec => []QueriesAgree
<1>1. Types /\ Reads => QueriesAgree
  BY DEF Reads, HasRead, QueriesAgree, At, Visible
<1> QED
  BY <1>1, TypesInvariant, PTL

-----------------------------------------------------------------------------
(* The chain of closes *)

\* persist appends behind the pointer it found, so every period keeps one chain.
LEMMA ChainStep ==
  ASSUME Types, Reads, OneChain, [Next]_vars
  PROVE  OneChain'
<1>1. CASE UNCHANGED <<closes, pointer>>
  BY <1>1 DEF OneChain
<1>2. ASSUME NEW i \in Slots, persist(i)
      PROVE  OneChain'
  <2> DEFINE k == Len(closes) + 1
             t == Target(i)
             p == Period(i)
  <2>1. /\ p \in Periods /\ t \in 0..Len(closes) /\ Len(closes) \in Nat
        /\ t # 0 => closes[t].period = p
        /\ pointer[p] = t
        /\ DOMAIN closes = 1..Len(closes) /\ DOMAIN closes' = 1..k
        /\ \A n \in DOMAIN closes : closes'[n] = closes[n]
        /\ \A q \in Periods : pointer'[q] = IF q = p THEN k ELSE pointer[q]
        /\ \A n \in DOMAIN closes : closes[n].period \in Periods
        /\ \A n \in DOMAIN closes : pointer[closes[n].period] # 0
    BY <1>2, Persisted
  <2>2. closes'[k].period = p /\ closes'[k].supersedes = t
    <3>1. closes'[k] = NewClose(i)
      BY <1>2, Persisted
    <3>2. NewClose(i).period = p /\ NewClose(i).supersedes = t
      BY DEF NewClose
    <3> HIDE DEF k, t, p
    <3> QED
      BY <3>1, <3>2
  <2>3. \A n \in DOMAIN closes :
          /\ closes[n].supersedes # 0 =>
               closes[n].supersedes < n /\ closes[closes[n].supersedes].period = closes[n].period
          /\ pointer[closes[n].period] = n <=> ~\E j \in DOMAIN closes : closes[j].supersedes = n
          /\ \A j \in DOMAIN closes :
               closes[j].period = closes[n].period /\ closes[j].supersedes = closes[n].supersedes
                 => n = j
    BY DEF OneChain
  <2>4. \A n \in DOMAIN closes : closes[n].supersedes \in Nat
    <3>1. \A n \in DOMAIN closes : closes[n] \in CloseTypes
      BY DEF Types
    <3> QED
      BY <3>1 DEF CloseTypes
  <2> HIDE DEF k, t, p
  <2>5. k \notin DOMAIN closes /\ k # 0 /\ DOMAIN closes' = DOMAIN closes \cup {k} /\ k \in Nat
        /\ t # k /\ (t = 0 \/ t \in DOMAIN closes) /\ 0 \notin DOMAIN closes
    BY <2>1 DEF k
  <2>6. \A n \in DOMAIN closes : closes[n].supersedes = 0 \/ closes[n].supersedes \in DOMAIN closes
    BY <2>1, <2>3, <2>4
  <2>7. \A j \in DOMAIN closes : ~(closes[j].period = p /\ closes[j].supersedes = t)
    <3> SUFFICES ASSUME NEW j \in DOMAIN closes, closes[j].period = p, closes[j].supersedes = t
                 PROVE  FALSE
      OBVIOUS
    <3>1. t \in DOMAIN closes
      BY <2>1, <2>5
    <3> QED
      BY <2>1, <2>3, <3>1
  <2>8. ASSUME NEW n \in DOMAIN closes'
        PROVE  /\ closes'[n].supersedes # 0 =>
                    /\ closes'[n].supersedes < n
                    /\ closes'[closes'[n].supersedes].period = closes'[n].period
               /\ pointer'[closes'[n].period] # 0
    <3>1. CASE n = k
      BY <2>1, <2>2, <2>5, <3>1 DEF k
    <3>2. CASE n \in DOMAIN closes
      BY <2>1, <2>3, <2>5, <2>6, <3>2
    <3> QED
      BY <2>5, <3>1, <3>2
  <2>9. ASSUME NEW n \in DOMAIN closes'
        PROVE  pointer'[closes'[n].period] = n
                 <=> ~\E j \in DOMAIN closes' : closes'[j].supersedes = n
    <3>1. CASE n = k
      BY <2>1, <2>2, <2>5, <2>6, <3>1
    <3>2. CASE n \in DOMAIN closes /\ closes[n].period = p
      <4>1. pointer'[closes'[n].period] = k /\ n # k
        BY <2>1, <2>5, <3>2
      <4>2. CASE n = t
        BY <2>2, <2>5, <4>1, <4>2
      <4>3. CASE n # t
        <5>1. PICK j \in DOMAIN closes : closes[j].supersedes = n
          BY <2>1, <2>3, <3>2, <4>3
        <5>2. j \in DOMAIN closes' /\ closes'[j].supersedes = n
          BY <2>1, <2>5, <5>1
        <5> QED
          BY <4>1, <5>2
      <4> QED
        BY <4>2, <4>3
    <3>3. CASE n \in DOMAIN closes /\ closes[n].period # p
      <4>1. pointer'[closes'[n].period] = pointer[closes[n].period] /\ closes'[n] = closes[n]
        BY <2>1, <3>3
      <4>2. n # t
        BY <2>1, <2>5, <3>3
      <4>3. (\E j \in DOMAIN closes' : closes'[j].supersedes = n)
              <=> \E j \in DOMAIN closes : closes[j].supersedes = n
        BY <2>1, <2>2, <2>5, <4>2
      <4> QED
        BY <2>3, <3>3, <4>1, <4>3
    <3> QED
      BY <2>5, <3>1, <3>2, <3>3
  <2>10. ASSUME NEW n \in DOMAIN closes', NEW j \in DOMAIN closes',
                closes'[j].period = closes'[n].period, closes'[j].supersedes = closes'[n].supersedes
         PROVE  n = j
    <3>1. CASE n = k /\ j # k
      <4>1. j \in DOMAIN closes /\ closes'[j] = closes[j]
        BY <2>1, <2>5, <3>1
      <4> QED
        BY <2>2, <2>7, <2>10, <3>1, <4>1
    <3>2. CASE n # k /\ j = k
      <4>1. n \in DOMAIN closes /\ closes'[n] = closes[n]
        BY <2>1, <2>5, <3>2
      <4> QED
        BY <2>2, <2>7, <2>10, <3>2, <4>1
    <3>3. CASE n # k /\ j # k
      <4>1. /\ n \in DOMAIN closes /\ closes'[n] = closes[n]
            /\ j \in DOMAIN closes /\ closes'[j] = closes[j]
        BY <2>1, <2>5, <3>3
      <4> QED
        BY <2>3, <2>10, <4>1
    <3> QED
      BY <3>1, <3>2, <3>3
  <2>11. ASSUME NEW q \in Periods, pointer'[q] # 0
         PROVE  pointer'[q] \in DOMAIN closes' /\ closes'[pointer'[q]].period = q
    <3>1. CASE q = p
      BY <2>1, <2>2, <2>5, <3>1
    <3>2. CASE q # p
      BY <2>1, <2>5, <2>11, <3>2 DEF OneChain
    <3> QED
      BY <3>1, <3>2
  <2>12. Periods' = Periods
    BY DEF Periods, resolveReportingPeriod
  <2> QED
    BY <2>8, <2>9, <2>10, <2>11, <2>12 DEF OneChain
<1> QED
  BY <1>1, <1>2, Commits

\* For any number of pages and commands in flight, the closes of a period form one chain
\* that the pointer of the period ends.
THEOREM OneChainTheorem == Spec => []OneChain
<1>1. Init => OneChain
  BY DEF Init, OneChain
<1>2. Types /\ Reads /\ OneChain /\ [Next]_vars => OneChain'
  BY ChainStep
<1> QED
  BY <1>1, <1>2, TypesInvariant, PTL DEF Spec

-----------------------------------------------------------------------------
(* Keys and answers *)

\* What a slot knows of its key: while its transaction runs, nothing was made under it and
\* no other transaction has it; a refused command lost its place in the chain for good.
Keyed(i) ==
  /\ InTransaction(i) =>
       /\ Applied(slot[i].key) = {}
       /\ \A j \in Slots : InTransaction(j) /\ slot[j].key = slot[i].key => i = j
  /\ At(i, "close") =>
       slot[i].close \in DOMAIN closes /\ closes[slot[i].close].key = slot[i].key
  /\ At(i, "refused") => Applied(slot[i].key) = {} /\ pointer[Period(i)] # Target(i)

KeysHold ==
  /\ \A m, n \in DOMAIN closes : closes[m].key = closes[n].key => m = n
  /\ \A i \in Slots : Keyed(i)

\* A step that only gives one slot the value r, which has its key or none.
LEMMA QuietKeys ==
  ASSUME Types, Reads, KeysHold, UNCHANGED books, NEW i \in Slots, NEW r,
         slot' = [slot EXCEPT ![i] = r],
         r # Null => r.pc \in {"begin"} \cup Statements \cup Results,
         r # Null /\ r.pc \in Statements =>
           /\ Applied(r.key) = {}
           /\ \A j \in Slots \ {i} : ~(InTransaction(j) /\ slot[j].key = r.key),
         r # Null /\ r.pc = "close" => r.close \in DOMAIN closes /\ closes[r.close].key = r.key,
         r # Null /\ r.pc = "refused" =>
           Applied(r.key) = {} /\ pointer[PeriodOf(r.key.command)] # r.key.command.target
  PROVE  KeysHold'
<1>1. \A j \in Slots : slot'[j] = IF j = i THEN r ELSE slot[j]
  BY DEF Types
<1>2. closes' = closes /\ pointer' = pointer
  BY DEF books
<1>3. ASSUME NEW j \in Slots
      PROVE  Keyed(j)'
  <2>1. CASE j = i
    <3>1. InTransaction(i)' <=> r # Null /\ r.pc \in Statements
      BY <1>1 DEF InTransaction, At
    <3>2. \A m \in Slots \ {i} : (InTransaction(m)' <=> InTransaction(m)) /\ slot'[m] = slot[m]
      BY <1>1 DEF InTransaction, At
    <3> QED
      BY <1>1, <1>2, <2>1, <3>1, <3>2 DEF Keyed, At, Applied, Period, PeriodOf, Target
  <2>2. CASE j # i
    <3>1. slot'[j] = slot[j] /\ slot'[i] = r
      BY <1>1, <2>2
    <3>2. InTransaction(j)' <=> InTransaction(j)
      BY <3>1 DEF InTransaction, At
    <3>3. InTransaction(i)' <=> r # Null /\ r.pc \in Statements
      BY <3>1 DEF InTransaction, At
    <3>4. \A m \in Slots \ {i} : (InTransaction(m)' <=> InTransaction(m)) /\ slot'[m] = slot[m]
      BY <1>1 DEF InTransaction, At
    <3>5. Keyed(j)
      BY DEF KeysHold
    <3>6. InTransaction(j)' =>
            /\ Applied(slot[j].key)' = {}
            /\ \A m \in Slots : InTransaction(m)' /\ slot'[m].key = slot'[j].key => j = m
      BY <1>2, <2>2, <3>1, <3>2, <3>3, <3>4, <3>5 DEF Keyed, Applied
    <3> QED
      BY <1>2, <3>1, <3>5, <3>6 DEF Keyed, At, Applied, Period, PeriodOf, Target
  <2> QED
    BY <2>1, <2>2
<1> QED
  BY <1>2, <1>3 DEF KeysHold

\* The transaction ends and nothing is answered, or it begins again.
LEMMA QuietEnds ==
  ASSUME Types, Reads, KeysHold, UNCHANGED books, NEW i \in Slots, NEW r,
         slot' = [slot EXCEPT ![i] = r], r = Null \/ r.pc = "begin"
  PROVE  KeysHold'
BY QuietKeys DEF Statements

\* The next statement of a transaction.
LEMMA QuietStatement ==
  ASSUME Types, Reads, KeysHold, UNCHANGED books, NEW i \in Slots, InTransaction(i), NEW r,
         slot' = [slot EXCEPT ![i] = r], r.pc \in Statements, r.key = slot[i].key
  PROVE  KeysHold'
<1>1. Keyed(i)
  BY DEF KeysHold
<1>2. Applied(r.key) = {}
  BY <1>1 DEF Keyed
<1>3. \A j \in Slots \ {i} : ~(InTransaction(j) /\ slot[j].key = r.key)
  BY <1>1 DEF Keyed
<1> QED
  BY <1>2, <1>3, QuietKeys DEF Statements

\* An answer that changes no table keeps KeysHold when what it says is true.
LEMMA QuietAnswer ==
  ASSUME Types, Reads, KeysHold, UNCHANGED books, NEW i \in Slots, NEW result \in Results, NEW n,
         Answer(i, result, n),
         result = "close" => n \in DOMAIN closes /\ closes[n].key = slot[i].key,
         result = "refused" => Applied(slot[i].key) = {} /\ pointer[Period(i)] # Target(i)
  PROVE  KeysHold'
<1> DEFINE r == [Fresh(i) EXCEPT !.pc = result, !.close = n]
<1>1. r.key = slot[i].key /\ r.pc = result /\ r.close = n
  BY DEF Fresh, NewSlot
<1>2. slot' = [slot EXCEPT ![i] = r]
  BY DEF Answer
<1> HIDE DEF r
<1> QED
  BY <1>1, <1>2, QuietKeys DEF Statements, Results, Period, Target

\* persist makes the first close of its key and answers with it.
LEMMA KeysPersist ==
  ASSUME Types, Reads, KeysHold, NEW i \in Slots, persist(i)
  PROVE  KeysHold'
<1> DEFINE k == Len(closes) + 1
<1>1. /\ Target(i) \in 0..Len(closes) /\ Len(closes) \in Nat
      /\ pointer[Period(i)] = Target(i)
      /\ DOMAIN closes = 1..Len(closes) /\ DOMAIN closes' = 1..k
      /\ \A n \in DOMAIN closes : closes'[n] = closes[n]
      /\ \A p \in Periods : pointer'[p] = IF p = Period(i) THEN k ELSE pointer[p]
  BY Persisted
<1>2. closes'[k].key = slot[i].key
  <2>1. closes'[k] = NewClose(i)
    BY Persisted
  <2>2. NewClose(i).key = slot[i].key
    BY DEF NewClose
  <2> HIDE DEF k
  <2> QED
    BY <2>1, <2>2
<1> HIDE DEF k
<1>3. k \notin DOMAIN closes /\ DOMAIN closes' = DOMAIN closes \cup {k} /\ k \in Nat
  BY <1>1 DEF k
<1>4. Keyed(i) /\ InTransaction(i)
  BY DEF KeysHold, persist, InTransaction, Statements
<1>5. \A n \in DOMAIN closes : closes[n].key # slot[i].key
  BY <1>4 DEF Keyed, Applied
<1>6. \A m, n \in DOMAIN closes' : closes'[m].key = closes'[n].key => m = n
  BY <1>1, <1>2, <1>3, <1>5 DEF KeysHold
<1>7. /\ slot'[i].key = slot[i].key /\ slot'[i].pc = "close" /\ slot'[i].close = k
      /\ \A j \in Slots \ {i} : slot'[j] = slot[j]
  <2> DEFINE r == [Fresh(i) EXCEPT !.pc = "close", !.close = k]
  <2>1. r.key = slot[i].key /\ r.pc = "close" /\ r.close = k
    BY DEF Fresh, NewSlot
  <2>2. slot' = [slot EXCEPT ![i] = r]
    BY DEF persist, Answer, k
  <2> HIDE DEF r
  <2> QED
    BY <2>1, <2>2 DEF Types
<1>8. Keyed(i)'
  <2>1. ~InTransaction(i)' /\ ~At(i, "refused")'
    BY <1>7 DEF InTransaction, At, Statements
  <2> QED
    BY <1>2, <1>3, <1>7, <2>1 DEF Keyed
<1>9. ASSUME NEW j \in Slots \ {i}
      PROVE  Keyed(j)'
  <2>1. Keyed(j) /\ slot'[j] = slot[j]
    BY <1>7 DEF KeysHold
  <2>2. /\ \A m \in Slots : InTransaction(m)' => InTransaction(m) /\ slot'[m].key = slot[m].key
        /\ \A step : At(j, step)' <=> At(j, step)
    BY <1>7 DEF InTransaction, At, Statements
  <2>3. \A key : key # slot[i].key /\ Applied(key) = {} => Applied(key)' = {}
    BY <1>1, <1>2, <1>3 DEF Applied
  <2>4. InTransaction(j) => slot[j].key # slot[i].key
    BY <1>4, <2>1 DEF Keyed
  <2>5. ASSUME At(j, "refused")
        PROVE  slot[j].key # slot[i].key /\ pointer'[Period(j)'] # Target(j)'
    <3>1. slot[j] # Null /\ HasRead(slot[j])
      BY <2>5 DEF At, Reads
    <3>2. Target(j) \in 0..Len(closes) /\ Period(j) \in Periods
      BY <3>1, PeriodType DEF HasRead, Target
    <3>3. Target(j)' = Target(j) /\ Period(j)' = Period(j)
      BY <1>1, <2>1, <3>2 DEF Target, Period, PeriodOf, resolveReportingPeriod
    <3>4. pointer[Period(j)] # Target(j)
      BY <2>1, <2>5 DEF Keyed
    <3>5. slot[j].key # slot[i].key
      BY <1>1, <3>4 DEF Period, Target
    <3>6. k # Target(j)
      BY <1>1, <3>2 DEF k
    <3> QED
      BY <1>1, <3>2, <3>3, <3>4, <3>5, <3>6
  <2> QED
    <3>1. InTransaction(j)' =>
            /\ Applied(slot[j].key)' = {}
            /\ \A m \in Slots : InTransaction(m)' /\ slot'[m].key = slot'[j].key => j = m
      BY <2>1, <2>2, <2>3, <2>4 DEF Keyed
    <3>2. At(j, "close")' =>
            slot'[j].close \in DOMAIN closes' /\ closes'[slot'[j].close].key = slot'[j].key
      BY <1>1, <1>3, <2>1, <2>2 DEF Keyed
    <3>3. At(j, "refused")' => Applied(slot[j].key)' = {} /\ pointer'[Period(j)'] # Target(j)'
      BY <2>1, <2>2, <2>3, <2>5 DEF Keyed
    <3> QED
      BY <3>1, <3>2, <3>3 DEF Keyed
<1> QED
  BY <1>6, <1>8, <1>9 DEF KeysHold

\* Every step keeps KeysHold.
LEMMA KeysStep ==
  ASSUME Types, Reads, KeysHold, [Next]_vars
  PROVE  KeysHold'
<1>1. ASSUME NEW c \in Clients, NEW i \in Slots, NEW command \in Commands, Ask(c, i, command)
      PROVE  KeysHold'
  <2>1. NewSlot(Key(c, command)).pc = "begin"
    BY DEF NewSlot
  <2> QED
    BY <1>1, <2>1, QuietEnds DEF Ask
<1>2. ASSUME NEW i \in Slots, TimeOut(i)
      PROVE  KeysHold'
  <2> DEFINE r == [slot[i] EXCEPT !.waited = FALSE]
  <2>1. slot[i] \in SlotTypes /\ slot[i] # Null
    BY <1>2 DEF TimeOut, Types
  <2>2. r.key = slot[i].key /\ r.pc = slot[i].pc /\ r.close = slot[i].close
    BY <2>1 DEF SlotTypes
  <2>3. slot' = [slot EXCEPT ![i] = r]
    BY <1>2 DEF TimeOut
  <2>4. Keyed(i)
    BY DEF KeysHold
  <2> HIDE DEF r
  <2>5. r.pc \in {"begin"} \cup Statements \cup Results
    BY <2>1, <2>2 DEF SlotTypes
  <2>6. r.pc \in Statements =>
          /\ Applied(r.key) = {}
          /\ \A j \in Slots \ {i} : ~(InTransaction(j) /\ slot[j].key = r.key)
    BY <2>1, <2>2, <2>4 DEF Keyed, InTransaction, At
  <2>7. r.pc = "close" => r.close \in DOMAIN closes /\ closes[r.close].key = r.key
    BY <2>1, <2>2, <2>4 DEF Keyed, At
  <2>8. r.pc = "refused" =>
          Applied(r.key) = {} /\ pointer[PeriodOf(r.key.command)] # r.key.command.target
    BY <2>1, <2>2, <2>4 DEF Keyed, At, Period, Target
  <2>9. UNCHANGED books
    BY <1>2 DEF TimeOut
  <2> QED
    BY <2>3, <2>5, <2>6, <2>7, <2>8, <2>9, QuietKeys
<1>3. ASSUME NEW i \in Slots, Receive(i) \/ Crash(i)
      PROVE  KeysHold'
  BY <1>3, QuietEnds DEF Receive, Crash, NoAnswer
<1>4. ASSUME NEW i \in Slots, Begin(i)
      PROVE  KeysHold'
  <2>1. slot[i] # Null /\ slot[i] \in SlotTypes
    BY <1>4 DEF Begin, At, Types
  <2>2. CASE Applied(slot[i].key) = {}
             /\ slot' = [slot EXCEPT ![i].pc = "lock", ![i].snapshot = Snapshot(Period(i))]
    <3> DEFINE r == [slot[i] EXCEPT !.pc = "lock", !.snapshot = Snapshot(Period(i))]
    <3>1. r.pc = "lock" /\ r.key = slot[i].key
      BY <2>1 DEF SlotTypes
    <3>2. slot' = [slot EXCEPT ![i] = r]
      BY <2>2
    <3> HIDE DEF r
    <3>3. /\ Applied(r.key) = {} /\ UNCHANGED books
          /\ \A j \in Slots \ {i} : ~(InTransaction(j) /\ slot[j].key = r.key)
      BY <1>4, <2>2, <3>1 DEF Begin
    <3>4. r.pc \in Statements /\ r.pc # "close" /\ r.pc # "refused"
      BY <3>1 DEF Statements
    <3> QED
      BY <3>2, <3>3, <3>4, QuietKeys
  <2>3. ASSUME NEW n \in Applied(slot[i].key), Answer(i, "close", n)
        PROVE  KeysHold'
    BY <1>4, <2>3, QuietAnswer DEF Begin, Results, Applied
  <2> QED
    BY <1>4, <2>2, <2>3 DEF Begin
<1>5. ASSUME NEW i \in Slots, lockCurrentPeriod(i)
      PROVE  KeysHold'
  <2>1. InTransaction(i) /\ slot[i] # Null /\ slot[i] \in SlotTypes /\ HasRead(slot[i])
    BY <1>5 DEF lockCurrentPeriod, At, InTransaction, Statements, Types, Reads
  <2>2. ASSUME slot' = [slot EXCEPT ![i].pc = "groups"]
        PROVE  KeysHold'
    <3> DEFINE r == [slot[i] EXCEPT !.pc = "groups"]
    <3>1. r.pc \in Statements /\ r.key = slot[i].key
      BY <2>1 DEF SlotTypes, Statements
    <3>2. slot' = [slot EXCEPT ![i] = r]
      BY <2>2
    <3> HIDE DEF r
    <3> QED
      BY <1>5, <2>1, <3>1, <3>2, QuietStatement DEF lockCurrentPeriod
  <2>3. ASSUME slot[i].snapshot.pointer # Target(i), Answer(i, "refused", 0)
        PROVE  KeysHold'
    <3>1. Applied(slot[i].key) = {}
      BY <2>1 DEF KeysHold, Keyed
    <3>2. slot[i].snapshot.pointer # 0
      BY <1>5, <2>1, <2>3 DEF HasRead, lockCurrentPeriod, At, Statements, Target
    <3>3. pointer[Period(i)] # Target(i)
      BY <1>5, <2>3, <3>2 DEF lockCurrentPeriod
    <3> QED
      BY <1>5, <2>3, <3>1, <3>3, QuietAnswer DEF lockCurrentPeriod, Results
  <2> QED
    BY <1>5, <2>2, <2>3 DEF lockCurrentPeriod
<1>6. ASSUME NEW i \in Slots, financialGroups(i)
      PROVE  KeysHold'
  <2> DEFINE r == [slot[i] EXCEPT !.pc = "sales", !.lines = GroupTotals(Visible(i))]
  <2>1. InTransaction(i) /\ slot[i] \in SlotTypes
    BY <1>6 DEF financialGroups, At, InTransaction, Statements, Types
  <2>2. r.pc \in Statements /\ r.key = slot[i].key
    BY <2>1 DEF SlotTypes, Statements
  <2>3. slot' = [slot EXCEPT ![i] = r]
    BY <1>6 DEF financialGroups
  <2> HIDE DEF r
  <2> QED
    BY <1>6, <2>1, <2>2, <2>3, QuietStatement DEF financialGroups
<1>7. ASSUME NEW i \in Slots, contributingSales(i)
      PROVE  KeysHold'
  <2>1. InTransaction(i) /\ slot[i] \in SlotTypes
    BY <1>7 DEF contributingSales, At, InTransaction, Statements, Types
  <2>2. ASSUME slot' = [slot EXCEPT ![i].pc = "insert", ![i].sales = Visible(i)]
        PROVE  KeysHold'
    <3> DEFINE r == [slot[i] EXCEPT !.pc = "insert", !.sales = Visible(i)]
    <3>1. r.pc \in Statements /\ r.key = slot[i].key
      BY <2>1 DEF SlotTypes, Statements
    <3>2. slot' = [slot EXCEPT ![i] = r]
      BY <2>2
    <3> HIDE DEF r
    <3> QED
      BY <1>7, <2>1, <3>1, <3>2, QuietStatement DEF contributingSales
  <2>3. ASSUME NoAnswer(i)
        PROVE  KeysHold'
    BY <1>7, <2>3, QuietEnds DEF contributingSales, NoAnswer
  <2> QED
    BY <1>7, <2>2, <2>3 DEF contributingSales
<1>8. ASSUME NEW i \in Slots, Fail(i)
      PROVE  KeysHold'
  <2>1. ASSUME slot' = [slot EXCEPT ![i] = [Fresh(i) EXCEPT !.attempt = slot[i].attempt + 1]]
        PROVE  KeysHold'
    <3>1. [Fresh(i) EXCEPT !.attempt = slot[i].attempt + 1].pc = "begin"
      BY DEF Fresh, NewSlot
    <3> QED
      BY <1>8, <2>1, <3>1, QuietEnds DEF Fail
  <2>2. ASSUME NoAnswer(i)
        PROVE  KeysHold'
    BY <1>8, <2>2, QuietEnds DEF Fail, NoAnswer
  <2> QED
    BY <1>8, <2>1, <2>2 DEF Fail
<1>9. CASE (\E s \in Sales : SaleStep(s)) \/ NextDay \/ UNCHANGED vars
  <2>1. UNCHANGED <<closes, pointer, slot>>
    BY <1>9 DEF SaleStep, NextDay, vars
  <2> QED
    BY <2>1 DEF KeysHold, Keyed, InTransaction, At, Applied, Period, PeriodOf, Target,
                resolveReportingPeriod
<1> QED
  BY <1>1, <1>2, <1>3, <1>4, <1>5, <1>6, <1>7, <1>8, <1>9, KeysPersist DEF Next, Serve

\* For any number of pages, repetitions and failures: one close at most is made under a key,
\* a success names it, and what was refused was never done.
THEOREM AnswersAreTrueTheorem == Spec => []AnswersAreTrue
<1>1. Init => KeysHold
  BY DEF Init, KeysHold, Keyed, InTransaction, At
<1>2. Types /\ Reads /\ KeysHold /\ [Next]_vars => KeysHold'
  BY KeysStep
<1>3. KeysHold => AnswersAreTrue
  BY DEF KeysHold, Keyed, AnswersAreTrue, Applied
<1> QED
  BY <1>1, <1>2, <1>3, TypesInvariant, PTL DEF Spec

-----------------------------------------------------------------------------
(* The sales of a close *)

\* No sale that is, or may still be, completed in the period is outside these two sets.
Covered(completed, open, p) ==
  /\ Sales \subseteq completed \cup open \/ p.end <= today
  /\ \A s \in Sales : sale[s].status \in {"running", "COMPLETED"} /\ Contributes(s, p)
       => s \in completed \cup open

AllCovered ==
  /\ \A n \in DOMAIN closes : Covered(closes[n].sales, closes[n].open, closes[n].period)
  /\ \A i \in Slots : InTransaction(i) =>
       Covered(slot[i].snapshot.completed, slot[i].snapshot.open, Period(i))

\* The boundaries of a period are numbers.
LEMMA PeriodBounds ==
  ASSUME NEW p \in Periods
  PROVE  p.start \in Int /\ p.end \in Int
BY CalendarAssumption DEF Periods, resolveReportingPeriod

\* A snapshot covers its period: it shows every sale that is or may still be completed in it.
LEMMA SnapshotCovers ==
  ASSUME Types, NEW p \in Periods
  PROVE  Covered(Snapshot(p).completed, Snapshot(p).open, p)
<1>1. CASE p.end <= today
  BY <1>1 DEF Covered, Snapshot, Completed, With
<1>2. CASE ~(p.end <= today)
  BY <1>2 DEF Covered, Snapshot
<1> QED
  BY <1>1, <1>2

\* A sale confirmed later is not completed in a period that has ended.
LEMMA CoveredStays ==
  ASSUME Types, NEW p \in Periods, NEW completed, NEW open, [Next]_vars,
         Covered(completed, open, p)
  PROVE  Covered(completed, open, p)'
<1>0. p.start \in Int /\ p.end \in Int /\ today \in Int
  BY PeriodBounds DEF Types
<1>1. CASE UNCHANGED <<today, sale>>
  BY <1>1 DEF Covered, Contributes
<1>2. CASE NextDay
  <2>1. today' = today + 1 /\ sale' = sale
    BY <1>2 DEF NextDay
  <2> QED
    BY <1>0, <2>1 DEF Covered, Contributes
<1>3. ASSUME NEW s \in Sales, SaleStep(s)
      PROVE  Covered(completed, open, p)'
  <2>1. today' = today
    BY <1>3 DEF SaleStep
  <2>2. \A u \in Sales \ {s} : sale'[u] = sale[u]
    BY <1>3 DEF SaleStep, ConfirmSale, EndSale, CancelSale, Types
  <2>3. ASSUME sale'[s].status \in {"running", "COMPLETED"}, p.start <= sale'[s].at,
               sale'[s].at < p.end
        PROVE  s \in completed \cup open
    <3>1. CASE ConfirmSale(s)
      <4>1. sale'[s].at = today
        BY <3>1 DEF ConfirmSale, Types
      <4> QED
        BY <1>0, <2>3, <4>1 DEF Covered
    <3>2. CASE EndSale(s)
      <4>1. sale[s].status = "running" /\ sale'[s].at = sale[s].at
        BY <2>3, <3>2 DEF EndSale, NoSale, Types
      <4> QED
        BY <2>3, <4>1 DEF Covered, Contributes
    <3>3. CASE CancelSale(s)
      BY <2>3, <3>3 DEF CancelSale, Types
    <3> QED
      BY <1>3, <3>1, <3>2, <3>3 DEF SaleStep
  <2> QED
    BY <2>1, <2>2, <2>3 DEF Covered, Contributes
<1>4. ASSUME NEW i \in Slots, TimeOut(i) \/ Serve(i)
      PROVE  UNCHANGED <<today, sale>>
  BY <1>4 DEF Serve, TimeOut, Receive, Begin, lockCurrentPeriod, financialGroups,
     contributingSales, persist, Fail, Crash, books
<1>5. ASSUME NEW c \in Clients, NEW i \in Slots, NEW command \in Commands, Ask(c, i, command)
      PROVE  UNCHANGED <<today, sale>>
  BY <1>5 DEF Ask, books
<1>6. CASE UNCHANGED vars
  BY <1>1, <1>6 DEF vars
<1> QED
  BY <1>1, <1>2, <1>3, <1>4, <1>5, <1>6 DEF Next

\* A running transaction keeps its period, and its snapshot unless it has just begun.
LEMMA SnapshotStays ==
  ASSUME Types, Reads, [Next]_vars, NEW i \in Slots, InTransaction(i)'
  PROVE  \/ /\ InTransaction(i) /\ Period(i)' = Period(i)
            /\ slot'[i].snapshot = slot[i].snapshot
         \/ /\ Begin(i) /\ Period(i)' = Period(i) /\ Period(i) \in Periods
            /\ slot'[i].snapshot = Snapshot(Period(i))
<1>1. \A n \in DOMAIN closes : n \in DOMAIN closes' /\ closes'[n] = closes[n]
  <2>1. CASE UNCHANGED <<closes, pointer>>
    BY <2>1
  <2>2. CASE \E j \in Slots : persist(j)
    BY <2>2, Persisted
  <2> QED
    BY <2>1, <2>2, Commits
<1>2. ASSUME slot[i] # Null, slot'[i].key = slot[i].key
      PROVE  Period(i)' = Period(i) /\ Period(i) \in Periods
  <2>1. Period(i) \in Periods /\ Target(i) \in 0..Len(closes) /\ DOMAIN closes = 1..Len(closes)
    BY <1>2, PeriodType DEF Reads, HasRead, Target, Types
  <2>2. Target(i)' = Target(i)
    BY <1>2 DEF Target
  <2> QED
    BY <1>1, <1>2, <2>1, <2>2 DEF Period, PeriodOf, Target, resolveReportingPeriod
<1>3. CASE slot'[i] = slot[i]
  <2>1. InTransaction(i) /\ slot[i] # Null
    BY <1>3 DEF InTransaction, At
  <2> QED
    BY <1>2, <1>3, <2>1
<1>4. ASSUME NEW c \in Clients, NEW j \in Slots, NEW command \in Commands, Ask(c, j, command)
      PROVE  slot'[i] = slot[i]
  <2>1. CASE j = i
    <3>1. slot'[i].pc = "begin"
      BY <1>4, <2>1 DEF Ask, NewSlot, Types
    <3> QED
      BY <3>1 DEF InTransaction, At, Statements
  <2> QED
    BY <1>4, <2>1 DEF Ask, Types
<1>5. ASSUME NEW j \in Slots \ {i}, TimeOut(j) \/ Serve(j)
      PROVE  slot'[i] = slot[i]
  BY <1>5 DEF Serve, TimeOut, Receive, Begin, lockCurrentPeriod, financialGroups,
     contributingSales, persist, Fail, Crash, Answer, NoAnswer, Types
<1>6. CASE NextDay \/ (\E s \in Sales : SaleStep(s)) \/ UNCHANGED vars
  BY <1>3, <1>6 DEF NextDay, SaleStep, vars
<1>7. ASSUME NEW result \in Results, NEW n, Answer(i, result, n)
      PROVE  FALSE
  <2>1. [Fresh(i) EXCEPT !.pc = result, !.close = n].pc = result
    BY DEF Fresh, NewSlot
  <2>2. slot'[i].pc = result
    BY <1>7, <2>1 DEF Answer, Types
  <2> QED
    BY <2>2 DEF InTransaction, At, Statements, Results
<1>8. ~NoAnswer(i)
  BY DEF NoAnswer, InTransaction, At, Types
<1>9. ~Receive(i) /\ ~Crash(i)
  BY <1>8 DEF Receive, Crash, NoAnswer
<1>10. ~Fail(i)
  <2>1. [Fresh(i) EXCEPT !.attempt = slot[i].attempt + 1].pc = "begin"
    BY DEF Fresh, NewSlot
  <2>2. slot' # [slot EXCEPT ![i] = [Fresh(i) EXCEPT !.attempt = slot[i].attempt + 1]]
    BY <2>1 DEF InTransaction, At, Statements, Types
  <2> QED
    BY <1>8, <2>2 DEF Fail
<1>11. ~persist(i)
  BY <1>7 DEF persist, Results
<1>12. ASSUME TimeOut(i) \/ lockCurrentPeriod(i) \/ financialGroups(i) \/ contributingSales(i)
       PROVE  /\ slot[i] # Null /\ slot'[i].key = slot[i].key
              /\ slot'[i].snapshot = slot[i].snapshot /\ InTransaction(i)
  <2>1. slot[i] # Null /\ slot[i] \in SlotTypes
    BY <1>12 DEF TimeOut, lockCurrentPeriod, financialGroups, contributingSales, At, Types
  <2>2. CASE TimeOut(i)
    <3>1. slot'[i] = [slot[i] EXCEPT !.waited = FALSE]
      BY <2>2 DEF TimeOut, Types
    <3>2. /\ slot'[i].key = slot[i].key /\ slot'[i].snapshot = slot[i].snapshot
          /\ slot'[i].pc = slot[i].pc
      BY <2>1, <3>1 DEF SlotTypes
    <3>3. InTransaction(i)
      BY <2>1, <3>2 DEF InTransaction, At
    <3> QED
      BY <2>1, <3>2, <3>3
  <2>3. CASE lockCurrentPeriod(i)
    <3>1. slot'[i] = [slot[i] EXCEPT !.pc = "groups"]
      BY <1>7, <2>3 DEF lockCurrentPeriod, Results, Types
    <3>2. slot'[i].key = slot[i].key /\ slot'[i].snapshot = slot[i].snapshot
      BY <2>1, <3>1 DEF SlotTypes
    <3>3. InTransaction(i)
      BY <2>3 DEF InTransaction, At, Statements, lockCurrentPeriod
    <3> QED
      BY <2>1, <3>2, <3>3
  <2>4. CASE financialGroups(i)
    <3>1. slot'[i] = [slot[i] EXCEPT !.pc = "sales", !.lines = GroupTotals(Visible(i))]
      BY <2>4 DEF financialGroups, Types
    <3>2. slot'[i].key = slot[i].key /\ slot'[i].snapshot = slot[i].snapshot
      BY <2>1, <3>1 DEF SlotTypes
    <3>3. InTransaction(i)
      BY <2>4 DEF InTransaction, At, Statements, financialGroups
    <3> QED
      BY <2>1, <3>2, <3>3
  <2>5. CASE contributingSales(i)
    <3>1. slot'[i] = [slot[i] EXCEPT !.pc = "insert", !.sales = Visible(i)]
      BY <1>8, <2>5 DEF contributingSales, Types
    <3>2. slot'[i].key = slot[i].key /\ slot'[i].snapshot = slot[i].snapshot
      BY <2>1, <3>1 DEF SlotTypes
    <3>3. InTransaction(i)
      BY <2>5 DEF InTransaction, At, Statements, contributingSales
    <3> QED
      BY <2>1, <3>2, <3>3
  <2> QED
    BY <1>12, <2>2, <2>3, <2>4, <2>5
<1>13. ASSUME Begin(i)
       PROVE  /\ slot[i] # Null /\ slot'[i].key = slot[i].key
              /\ slot'[i].snapshot = Snapshot(Period(i))
  <2>1. slot[i] # Null /\ slot[i] \in SlotTypes
    BY <1>13 DEF Begin, At, Types
  <2>2. slot'[i] = [slot[i] EXCEPT !.pc = "lock", !.snapshot = Snapshot(Period(i))]
    BY <1>7, <1>13 DEF Begin, Results, Types
  <2> QED
    BY <2>1, <2>2 DEF SlotTypes
<1>14. CASE TimeOut(i) \/ Serve(i)
  BY <1>2, <1>9, <1>10, <1>11, <1>12, <1>13, <1>14 DEF Serve
<1>15. ASSUME NEW j \in Slots, TimeOut(j) \/ Serve(j), j # i
       PROVE  slot'[i] = slot[i]
  BY <1>5, <1>15
<1> QED
  BY <1>3, <1>4, <1>6, <1>14, <1>15 DEF Next

\* What a snapshot or close covers, it covers for ever: a period that ended does not come back.
LEMMA CoveredStep ==
  ASSUME Types, Reads, AllCovered, [Next]_vars
  PROVE  AllCovered'
<1>1. ASSUME NEW n \in DOMAIN closes'
      PROVE  Covered(closes[n].sales, closes[n].open, closes[n].period)'
  <2>1. ASSUME n \in DOMAIN closes, closes'[n] = closes[n]
        PROVE  Covered(closes[n].sales, closes[n].open, closes[n].period)'
    <3>1. closes[n] \in CloseTypes
      BY <2>1 DEF Types
    <3>2. closes[n].period \in Periods
      BY <3>1 DEF CloseTypes
    <3>3. Covered(closes[n].sales, closes[n].open, closes[n].period)
      BY <2>1 DEF AllCovered
    <3> QED
      BY <2>1, <3>2, <3>3, CoveredStays DEF Covered, Contributes
  <2>2. CASE UNCHANGED <<closes, pointer>>
    BY <2>1, <2>2
  <2>3. ASSUME NEW i \in Slots, persist(i)
        PROVE  Covered(closes[n].sales, closes[n].open, closes[n].period)'
    <3>1. CASE n \in DOMAIN closes
      BY <2>1, <2>3, <3>1, Persisted
    <3>2. CASE n = Len(closes) + 1
      <4>1. closes'[n] = NewClose(i) /\ Period(i) \in Periods
        BY <2>3, <3>2, Persisted
      <4>2. /\ NewClose(i).sales = slot[i].sales /\ NewClose(i).period = Period(i)
            /\ NewClose(i).open = slot[i].snapshot.open
        BY DEF NewClose
      <4>3. slot[i].sales = slot[i].snapshot.completed /\ InTransaction(i)
        BY <2>3 DEF persist, At, Reads, HasRead, InTransaction, Statements
      <4>4. Covered(slot[i].snapshot.completed, slot[i].snapshot.open, Period(i))
        BY <4>3 DEF AllCovered
      <4>5. UNCHANGED <<today, sale>>
        BY <2>3 DEF persist
      <4> QED
        BY <4>1, <4>2, <4>3, <4>4, <4>5 DEF Covered, Contributes
    <3> QED
      BY <2>3, <3>1, <3>2, Persisted
  <2> QED
    BY <2>2, <2>3, Commits
<1>2. ASSUME NEW i \in Slots, InTransaction(i)'
      PROVE  Covered(slot[i].snapshot.completed, slot[i].snapshot.open, Period(i))'
  <2>1. CASE InTransaction(i) /\ Period(i)' = Period(i) /\ slot'[i].snapshot = slot[i].snapshot
    <3>1. Period(i) \in Periods
      BY <2>1, PeriodType DEF InTransaction, At
    <3>2. Covered(slot[i].snapshot.completed, slot[i].snapshot.open, Period(i))
      BY <2>1 DEF AllCovered
    <3> QED
      BY <2>1, <3>1, <3>2, CoveredStays DEF Covered, Contributes
  <2>2. CASE /\ Begin(i) /\ Period(i)' = Period(i) /\ Period(i) \in Periods
             /\ slot'[i].snapshot = Snapshot(Period(i))
    <3>1. Covered(Snapshot(Period(i)).completed, Snapshot(Period(i)).open, Period(i))
      BY <2>2, SnapshotCovers
    <3>2. UNCHANGED <<today, sale>>
      BY <2>2 DEF Begin, books
    <3> QED
      BY <2>2, <3>1, <3>2 DEF Covered, Contributes
  <2> QED
    BY <1>2, <2>1, <2>2, SnapshotStays
<1> QED
  BY <1>1, <1>2 DEF AllCovered

\* For any sales, days and interleaving: what a close does not count was confirmed after
\* its snapshot, or was still being confirmed when its period had already ended.
THEOREM NothingForgottenTheorem == Spec => []NothingForgotten
<1>1. Init => AllCovered
  BY DEF Init, AllCovered, InTransaction, At
<1>2. Types /\ Reads /\ AllCovered /\ [Next]_vars => AllCovered'
  BY CoveredStep
<1>3. AllCovered => NothingForgotten
  BY DEF AllCovered, Covered, Contributes, NothingForgotten
<1> QED
  BY <1>1, <1>2, <1>3, TypesInvariant, PTL DEF Spec

-----------------------------------------------------------------------------
(* Money *)

\* Amounts of sales add up to naturals, by group and altogether.
LEMMA AmountTypes ==
  ASSUME NEW S \in SUBSET Sales
  PROVE  /\ IsFiniteSet(S) /\ IsFiniteSet(Groups)
         /\ GroupTotals(S) \in [Groups -> Nat]
         /\ \A s \in S, g \in Groups : Lines[s][g] \in Nat
         /\ \A s \in S : Total(Lines[s]) \in Nat
         /\ Gross(S) \in Nat
<1>1. IsFiniteSet(S) /\ IsFiniteSet(Groups)
  BY FS_Subset, CashClosesAssumption
<1>2. \A s \in S, g \in Groups : Lines[s][g] \in Nat
  BY CashClosesAssumption
<1>3. ASSUME NEW g \in Groups PROVE SumFunctionOnSet([s \in S |-> Lines[s][g]], S) \in Nat
  <2> DEFINE f == [s \in S |-> Lines[s][g]]
  <2>1. \A s \in S : f[s] \in Nat
    BY <1>2
  <2>2. SumFunctionOnSet(f, S) \in Nat
    <3> HIDE DEF f
    <3> QED BY <1>1, <2>1, SumNat
  <2> QED BY <2>2
<1>4. GroupTotals(S) \in [Groups -> Nat]
  BY <1>3 DEF GroupTotals
<1>5. ASSUME NEW s \in S PROVE Total(Lines[s]) \in Nat
  <2>1. \A g \in Groups : Lines[s][g] \in Nat
    BY <1>2
  <2> QED BY <1>1, <2>1, SumNat DEF Total
<1>6. Gross(S) \in Nat
  <2> DEFINE f == [s \in S |-> Total(Lines[s])]
  <2>1. \A s \in S : f[s] \in Nat
    BY <1>5
  <2>2. Gross(S) = SumFunctionOnSet(f, S)
    BY DEF Gross
  <2> HIDE DEF f
  <2> QED BY <1>1, <2>1, <2>2, SumNat
<1> QED BY <1>1, <1>2, <1>4, <1>5, <1>6

\* The totals of a set of sales are those of one of them and those of the others.
LEMMA TotalsOfOneMore ==
  ASSUME NEW S \in SUBSET Sales, NEW x \in S
  PROVE  /\ \A g \in Groups : GroupTotals(S)[g] = Lines[x][g] + GroupTotals(S \ {x})[g]
         /\ Gross(S) = Total(Lines[x]) + Gross(S \ {x})
<1>1. /\ IsFiniteSet(S) /\ IsFiniteSet(S \ {x}) /\ S \ {x} \in SUBSET Sales
      /\ \A s \in S, g \in Groups : Lines[s][g] \in Nat
      /\ \A s \in S : Total(Lines[s]) \in Nat
  BY AmountTypes
<1>2. ASSUME NEW g \in Groups
      PROVE  GroupTotals(S)[g] = Lines[x][g] + GroupTotals(S \ {x})[g]
  <2> DEFINE f == [s \in S |-> Lines[s][g]]
             h == [s \in S \ {x} |-> Lines[s][g]]
  <2>1. \A s \in S : f[s] \in Int
    BY <1>1
  <2>2. f[x] = Lines[x][g] /\ \A s \in S \ {x} : f[s] = h[s] /\ f[s] \in Int
    BY <1>1
  <2>3. /\ GroupTotals(S)[g] = SumFunctionOnSet(f, S)
        /\ GroupTotals(S \ {x})[g] = SumFunctionOnSet(h, S \ {x})
    BY DEF GroupTotals
  <2> HIDE DEF f, h
  <2>4. SumFunctionOnSet(f, S) = f[x] + SumFunctionOnSet(f, S \ {x})
    BY <1>1, <2>1, SumRemove
  <2>5. SumFunctionOnSet(f, S \ {x}) = SumFunctionOnSet(h, S \ {x})
    BY <1>1, <2>2, SumCongruent
  <2> QED BY <2>2, <2>3, <2>4, <2>5
<1>3. Gross(S) = Total(Lines[x]) + Gross(S \ {x})
  <2> DEFINE f == [s \in S |-> Total(Lines[s])]
             h == [s \in S \ {x} |-> Total(Lines[s])]
  <2>1. \A s \in S : f[s] \in Int
    BY <1>1
  <2>2. f[x] = Total(Lines[x]) /\ \A s \in S \ {x} : f[s] = h[s] /\ f[s] \in Int
    BY <1>1
  <2>3. Gross(S) = SumFunctionOnSet(f, S) /\ Gross(S \ {x}) = SumFunctionOnSet(h, S \ {x})
    BY DEF Gross
  <2> HIDE DEF f, h
  <2>4. SumFunctionOnSet(f, S) = f[x] + SumFunctionOnSet(f, S \ {x})
    BY <1>1, <2>1, SumRemove
  <2>5. SumFunctionOnSet(f, S \ {x}) = SumFunctionOnSet(h, S \ {x})
    BY <1>1, <2>2, SumCongruent
  <2> QED BY <2>2, <2>3, <2>4, <2>5
<1> QED BY <1>2, <1>3

\* The check of contributingSales: what the groups add up to is what the sales add up to,
\* for any sales. So the only way to CASH_CLOSE_TOTAL_MISMATCH would be two queries that
\* see different sales.
THEOREM TotalsAgree ==
  ASSUME NEW S \in SUBSET Sales
  PROVE  Total(GroupTotals(S)) = Gross(S)
<1> DEFINE Good == {T \in SUBSET S : Total(GroupTotals(T)) = Gross(T)}
<1>1. IsFiniteSet(S) /\ IsFiniteSet(Groups)
  BY AmountTypes
<1>2. {} \in Good
  <2>1. Gross({}) = 0
    BY SumEmpty DEF Gross
  <2>2. \A g \in Groups : GroupTotals({})[g] = 0
    BY SumEmpty DEF GroupTotals
  <2>3. Total(GroupTotals({})) = 0
    BY <1>1, <2>2, SumZero DEF Total
  <2> QED BY <2>1, <2>3
<1>3. ASSUME NEW T \in SUBSET S, T # {}, \A x \in T : T \ {x} \in Good PROVE T \in Good
  <2>1. PICK x \in T : TRUE
    BY <1>3
  <2>2. T \in SUBSET Sales /\ T \ {x} \in SUBSET Sales
    OBVIOUS
  <2> DEFINE all == GroupTotals(T)
             one == Lines[x]
             rest == GroupTotals(T \ {x})
  <2>3. \A g \in Groups : one[g] \in Int /\ rest[g] \in Int /\ all[g] = one[g] + rest[g]
    BY <2>2, AmountTypes, TotalsOfOneMore
  <2>4. Total(all) = Total(one) + Total(rest)
    <3> HIDE DEF all, one, rest
    <3> QED BY <1>1, <2>3, SumPlus DEF Total
  <2>5. Gross(T) = Total(one) + Gross(T \ {x})
    BY <2>2, TotalsOfOneMore
  <2>6. Total(rest) = Gross(T \ {x})
    BY <1>3
  <2> QED BY <2>4, <2>5, <2>6
<1>4. Good = SUBSET S
  <2>1. Good \in SUBSET SUBSET S
    OBVIOUS
  <2> HIDE DEF Good
  <2> QED BY <1>1, <1>2, <1>3, <2>1, SubsetsByRemoval
<1> QED BY <1>4

\* The two shares of any gross total add up to it, and differ by a cent at most.
LEMMA SharesAddUp ==
  ASSUME NEW gross \in Nat
  PROVE  LET share == calculatePartnerShare(gross)
         IN /\ share.partner \in Nat /\ share.remaining \in Nat
            /\ gross = share.partner + share.remaining
            /\ share.partner - share.remaining \in 0..1
<1> DEFINE half == (gross + 1) \div 2
<1>1. half \in Nat /\ 2 * half <= gross + 1 /\ gross <= 2 * half
  OBVIOUS
<1>2. /\ calculatePartnerShare(gross).partner = half
      /\ calculatePartnerShare(gross).remaining = gross - half
  BY DEF calculatePartnerShare
<1> HIDE DEF half
<1> QED BY <1>1, <1>2

-----------------------------------------------------------------------------
(* A close balances *)

\* These sales were completed in the period, and no step can take them out of it.
Counted(S, p) ==
  /\ S \subseteq Sales
  /\ \A s \in S : sale[s].status \in {"COMPLETED", "CANCELLED"} /\ Contributes(s, p)

\* The amounts of a close are those of its sales.
Balanced(c) ==
  LET share == calculatePartnerShare(c.gross)
  IN /\ c.lines = GroupTotals(c.sales) /\ c.gross = Total(c.lines)
     /\ c.partner = share.partner /\ c.remaining = share.remaining

AllBalance ==
  /\ \A n \in DOMAIN closes :
       Counted(closes[n].sales, closes[n].period) /\ Balanced(closes[n])
  /\ \A i \in Slots : InTransaction(i) => Counted(slot[i].snapshot.completed, Period(i))

\* A snapshot counts sales completed in the period.
LEMMA SnapshotCounts ==
  ASSUME Types, NEW p \in Periods
  PROVE  Counted(Snapshot(p).completed, p)
BY DEF Counted, Snapshot, Completed, With

\* A completed sale may be cancelled, but keeps the time it was confirmed at.
LEMMA CountedStays ==
  ASSUME Types, NEW p \in Periods, NEW S, [Next]_vars, Counted(S, p)
  PROVE  Counted(S, p)'
<1>1. CASE UNCHANGED sale
  BY <1>1 DEF Counted, Contributes
<1>2. ASSUME NEW s \in Sales, SaleStep(s)
      PROVE  Counted(S, p)'
  <2>1. \A u \in Sales \ {s} : sale'[u] = sale[u]
    BY <1>2 DEF SaleStep, ConfirmSale, EndSale, CancelSale, Types
  <2>2. ASSUME sale[s].status \in {"COMPLETED", "CANCELLED"}
        PROVE  /\ sale'[s].status \in {"COMPLETED", "CANCELLED"}
               /\ sale'[s].at = sale[s].at
    BY <1>2, <2>2 DEF SaleStep, ConfirmSale, EndSale, CancelSale, Types
  <2> QED
    BY <2>1, <2>2 DEF Counted, Contributes
<1>3. ASSUME NEW i \in Slots, TimeOut(i) \/ Serve(i)
      PROVE  UNCHANGED sale
  BY <1>3 DEF Serve, TimeOut, Receive, Begin, lockCurrentPeriod, financialGroups,
     contributingSales, persist, Fail, Crash, books
<1>4. ASSUME NEW c \in Clients, NEW i \in Slots, NEW command \in Commands, Ask(c, i, command)
      PROVE  UNCHANGED sale
  BY <1>4 DEF Ask, books
<1>5. CASE UNCHANGED vars \/ NextDay
  BY <1>1, <1>5 DEF vars, NextDay
<1> QED
  BY <1>1, <1>2, <1>3, <1>4, <1>5 DEF Next

\* What persist writes balances.
LEMMA NewCloseBalances ==
  ASSUME Types, Reads, NEW i \in Slots, persist(i)
  PROVE  Balanced(NewClose(i)) /\ NewClose(i).sales = slot[i].snapshot.completed
<1>1. slot[i].lines = GroupTotals(slot[i].snapshot.completed)
      /\ slot[i].sales = slot[i].snapshot.completed
  BY DEF persist, At, Reads, HasRead
<1> QED
  BY <1>1 DEF NewClose, Balanced

\* Every step keeps the balance of closes and what snapshots count.
LEMMA BalanceStep ==
  ASSUME Types, Reads, AllBalance, [Next]_vars
  PROVE  AllBalance'
<1>1. ASSUME NEW n \in DOMAIN closes'
      PROVE  Counted(closes[n].sales, closes[n].period)' /\ Balanced(closes[n])'
  <2>1. ASSUME n \in DOMAIN closes, closes'[n] = closes[n]
        PROVE  Counted(closes[n].sales, closes[n].period)' /\ Balanced(closes[n])'
    <3>1. closes[n].period \in Periods
      <4>1. closes[n] \in CloseTypes
        BY <2>1 DEF Types
      <4> QED
        BY <4>1 DEF CloseTypes
    <3>2. Counted(closes[n].sales, closes[n].period) /\ Balanced(closes[n])
      BY <2>1 DEF AllBalance
    <3> QED
      BY <2>1, <3>1, <3>2, CountedStays DEF Counted, Contributes, Balanced
  <2>2. CASE UNCHANGED <<closes, pointer>>
    BY <2>1, <2>2
  <2>3. ASSUME NEW i \in Slots, persist(i)
        PROVE  Counted(closes[n].sales, closes[n].period)' /\ Balanced(closes[n])'
    <3>1. CASE n \in DOMAIN closes
      BY <2>1, <2>3, <3>1, Persisted
    <3>2. CASE n = Len(closes) + 1
      <4>1. closes'[n] = NewClose(i) /\ NewClose(i).period = Period(i)
        BY <2>3, <3>2, Persisted DEF NewClose
      <4>2. Balanced(NewClose(i)) /\ NewClose(i).sales = slot[i].snapshot.completed
        BY <2>3, NewCloseBalances
      <4>3. Counted(slot[i].snapshot.completed, Period(i))
        BY <2>3 DEF persist, At, InTransaction, Statements, AllBalance
      <4>4. UNCHANGED sale
        BY <2>3 DEF persist
      <4> QED
        BY <4>1, <4>2, <4>3, <4>4 DEF Counted, Contributes, Balanced
    <3> QED
      BY <2>3, <3>1, <3>2, Persisted
  <2> QED
    BY <2>2, <2>3, Commits
<1>2. ASSUME NEW i \in Slots, InTransaction(i)'
      PROVE  Counted(slot[i].snapshot.completed, Period(i))'
  <2>1. CASE InTransaction(i) /\ Period(i)' = Period(i) /\ slot'[i].snapshot = slot[i].snapshot
    <3>1. Period(i) \in Periods
      BY <2>1, PeriodType DEF InTransaction, At
    <3>2. Counted(slot[i].snapshot.completed, Period(i))
      BY <2>1 DEF AllBalance
    <3> QED
      BY <2>1, <3>1, <3>2, CountedStays DEF Counted, Contributes
  <2>2. CASE /\ Begin(i) /\ Period(i)' = Period(i) /\ Period(i) \in Periods
             /\ slot'[i].snapshot = Snapshot(Period(i))
    <3>1. Counted(Snapshot(Period(i)).completed, Period(i))
      BY <2>2, SnapshotCounts
    <3>2. UNCHANGED sale
      BY <2>2 DEF Begin, books
    <3> QED
      BY <2>2, <3>1, <3>2 DEF Counted, Contributes
  <2> QED
    BY <1>2, <2>1, <2>2, SnapshotStays
<1> QED
  BY <1>1, <1>2 DEF AllBalance

\* Closes always balance.
LEMMA BalanceInvariant == Spec => []AllBalance
<1>1. Init => AllBalance
  BY DEF Init, AllBalance, InTransaction, At
<1>2. Types /\ Reads /\ AllBalance /\ [Next]_vars => AllBalance'
  BY BalanceStep
<1> QED
  BY <1>1, <1>2, TypesInvariant, PTL DEF Spec

\* For any sales, groups and amounts: the lines, the sales and the two shares of a close
\* add up to the same total, and only sales of its period count.
THEOREM ClosesBalanceTheorem == Spec => []ClosesBalance
<1>1. ASSUME AllBalance PROVE ClosesBalance
  <2>1. SUFFICES ASSUME NEW n \in DOMAIN closes
        PROVE  LET c == closes[n]
               IN /\ \A s \in c.sales : c.period.start <= sale[s].at /\ sale[s].at < c.period.end
                  /\ c.gross = Total(c.lines) /\ c.gross = Gross(c.sales)
                  /\ c.gross = c.partner + c.remaining
                  /\ c.partner - c.remaining \in 0..1
    BY DEF ClosesBalance
  <2> DEFINE c == closes[n]
  <2>2. Counted(c.sales, c.period) /\ Balanced(c)
    BY <1>1 DEF AllBalance
  <2> HIDE DEF c
  <2>3. c.sales \in SUBSET Sales /\ \A s \in c.sales : Contributes(s, c.period)
    BY <2>2 DEF Counted
  <2>4. c.gross = Total(c.lines) /\ c.gross = Gross(c.sales) /\ c.gross \in Nat
    BY <2>2, <2>3, TotalsAgree, AmountTypes DEF Balanced
  <2>5. c.gross = c.partner + c.remaining /\ c.partner - c.remaining \in 0..1
    BY <2>2, <2>4, SharesAddUp DEF Balanced
  <2> QED
    BY <2>3, <2>4, <2>5 DEF Contributes, c
<1> QED
  BY <1>1, BalanceInvariant, PTL

-----------------------------------------------------------------------------
(* Types *)

\* Nothing is dated outside the days that pass.
Dated == today \in Days /\ \A s \in Sales : sale[s].at \in Days \cup {0}

\* No step dates a sale, or moves today, outside them.
LEMMA DatedStep ==
  ASSUME Types, Dated, [Next]_vars
  PROVE  Dated'
<1>1. CASE UNCHANGED <<today, sale>>
  BY <1>1 DEF Dated
<1>2. CASE NextDay
  BY <1>2 DEF NextDay, Dated
<1>3. ASSUME NEW s \in Sales, SaleStep(s) PROVE Dated'
  <2>1. today' = today /\ \A u \in Sales \ {s} : sale'[u] = sale[u]
    BY <1>3 DEF SaleStep, ConfirmSale, EndSale, CancelSale, Types
  <2>2. sale'[s].at \in {sale[s].at, today, 0}
    BY <1>3 DEF SaleStep, ConfirmSale, EndSale, CancelSale, NoSale, Types
  <2> QED
    BY <2>1, <2>2 DEF Dated
<1>4. ASSUME NEW i \in Slots, TimeOut(i) \/ Serve(i)
      PROVE  UNCHANGED <<today, sale>>
  BY <1>4 DEF Serve, TimeOut, Receive, Begin, lockCurrentPeriod, financialGroups,
     contributingSales, persist, Fail, Crash, books
<1>5. ASSUME NEW c \in Clients, NEW i \in Slots, NEW command \in Commands, Ask(c, i, command)
      PROVE  UNCHANGED <<today, sale>>
  BY <1>5 DEF Ask, books
<1>6. CASE UNCHANGED vars
  BY <1>1, <1>6 DEF vars
<1> QED
  BY <1>1, <1>2, <1>3, <1>4, <1>5, <1>6 DEF Next

\* Nothing is ever dated outside the days that pass.
LEMMA DatedInvariant == Spec => []Dated
<1>1. Init => Dated
  BY DEF Init, Dated, NoSale
<1>2. Types /\ Reads /\ Dated /\ [Next]_vars => Dated'
  BY DatedStep
<1> QED
  BY <1>1, <1>2, TypesInvariant, PTL DEF Spec

\* TypeOK: every variable keeps its type; no command is tried more often than allowed, and
\* every amount is a natural number.
THEOREM TypeCorrect == Spec => []TypeOK
<1>1. ASSUME Types, Dated, OneChain, AllBalance PROVE TypeOK
  <2>1. sale \in [Sales -> SaleRecords]
    BY <1>1 DEF Types, Dated, SaleRecords
  <2>2. ASSUME NEW n \in DOMAIN closes PROVE closes[n] \in Closes
    <3> DEFINE c == closes[n]
    <3>1. c \in CloseTypes /\ Counted(c.sales, c.period) /\ Balanced(c)
      BY <1>1 DEF Types, AllBalance
    <3> HIDE DEF c
    <3>2. c.sales \in SUBSET Sales
      BY <3>1 DEF Counted
    <3>3. c.lines \in [Groups -> Nat] /\ c.gross \in Nat
      BY <3>1, <3>2, TotalsAgree, AmountTypes DEF Balanced
    <3>4. c.partner \in Nat /\ c.remaining \in Nat
      BY <3>1, <3>3, SharesAddUp DEF Balanced
    <3>5. c \in Closes
      BY <3>1, <3>3, <3>4 DEF CloseTypes, Closes
    <3> QED BY <3>5 DEF c
  <2>3. closes \in Seq(Closes) /\ Len(closes) \in Nat /\ DOMAIN closes = 1..Len(closes)
    BY <1>1, <2>2 DEF Types
  <2>4. pointer \in [Periods -> 0..Len(closes)]
    BY <1>1, <2>3 DEF Types, OneChain
  <2>5. ASSUME NEW i \in Slots PROVE slot[i] = Null \/ slot[i] \in SlotRecords
    <3>1. Amounts \subseteq [Groups -> Nat]
      BY AmountTypes DEF Amounts
    <3> QED BY <1>1, <3>1 DEF Types, SlotTypes, SlotRecords
  <2> QED
    BY <1>1, <2>1, <2>3, <2>4, <2>5 DEF Types, Dated, TypeOK
<1> QED
  BY <1>1, TypesInvariant, DatedInvariant, OneChainTheorem, BalanceInvariant, PTL
=============================================================================
