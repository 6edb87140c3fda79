----------------------------- MODULE CashCloses -----------------------------
(***************************************************************************)
(* Cash closes: CashCloseService creates the close of a reporting period   *)
(* and corrects it, in serializable transactions that are retried a        *)
(* bounded number of times, for administrators whose page repeats a        *)
(* command under one key until it succeeds.  Meanwhile sales of the period *)
(* are confirmed and cancelled, and days pass.                             *)
(*                                                                         *)
(* PostgreSQL (external): a transaction reads what was committed when its  *)
(* first statement ran; a row lock is held to its end; a statement that    *)
(* needs a row another transaction changed since fails, as may any other   *)
(* for a conflict of serializable transactions.                            *)
(***************************************************************************)
EXTENDS Integers, Sequences, FiniteSets, FiniteSetsExt

CONSTANTS
  Clients,       \* open cash-close pages
  Slots,         \* commands being served at the same time
  Sales, Groups,
  Lines,         \* the amount of each sale in each reporting group
  Anchors,       \* kinds and days of the periods the administrators ask for
  First, After,  \* the day such a period starts and the day after its last
  Days,          \* the days that pass
  Null,
  MaxCorrected,  \* bound: only closes up to this one are corrected
  MaxAttempts    \* attempts of runSerializable

VARIABLES
  today,
  sale,      \* the sales and their running confirmations
  closes,    \* cash_close with its lines and sales, in the order of commit
  pointer,   \* cash_close_current_period, 0 for no row
  slot,      \* the command each slot serves, to the answer
  done       \* the commands that succeeded, whose key the page has dropped

vars == <<today, sale, closes, pointer, slot, done>>
books == <<today, sale, closes, pointer>>

ASSUME CalendarAssumption ==
  /\ Days \subseteq Int /\ Days # {}
  /\ First \in [Anchors -> Int] /\ After \in [Anchors -> Int]
  /\ \A a, b \in Anchors :
       a[1] = b[1] => (First[a] = First[b] /\ After[a] = After[b])
                       \/ After[a] <= First[b] \/ After[b] <= First[a]

ASSUME CashClosesAssumption ==
  /\ Lines \in [Sales -> [Groups -> Nat]]
  /\ IsFiniteSet(Sales) /\ IsFiniteSet(Groups)
  /\ Null \notin Anchors
  /\ MaxCorrected \in Nat /\ MaxAttempts \in Nat \ {0}

-----------------------------------------------------------------------------
(* Periods and money *)

\* A period is known by its boundaries, whatever kind and day it was asked for with.
resolveReportingPeriod(a) == [start |-> First[a], end |-> After[a]]
Periods == {resolveReportingPeriod(a) : a \in Anchors}

\* completed_at is the start of the confirming transaction.
ContributesMutEarlyEnd(s, p) == p.start <= sale[s].at /\ sale[s].at < p.end - 1
Contributes(s, p) == p.start <= sale[s].at /\ sale[s].at < p.end

Total(lines) == SumFunctionOnSet(lines, Groups)
GroupTotals(S) == [g \in Groups |-> SumFunctionOnSet([s \in S |-> Lines[s][g]], S)]
Gross(S) == SumFunctionOnSet([s \in S |-> Total(Lines[s])], S)

\* Half of the gross in cents, rounded half up; the other share is what remains.
calculatePartnerShareMutBothRounded(gross) ==
  [partner |-> (gross + 1) \div 2, remaining |-> (gross + 1) \div 2]

calculatePartnerShare(gross) ==
  LET partner == (gross + 1) \div 2
  IN [partner |-> partner, remaining |-> gross - partner]

-----------------------------------------------------------------------------
(* Commands, keys, transactions *)

Create(a) == [anchor |-> a, target |-> 0]
Correct(i) == [anchor |-> Null, target |-> i]
Commands == {Create(a) : a \in Anchors} \cup {Correct(i) : i \in 1..MaxCorrected}
Statements == {"lock", "groups", "sales", "insert"}
Results == {"close", "refused"}

PeriodOf(command) ==
  IF command.target # 0 THEN closes[command.target].period
  ELSE resolveReportingPeriod(command.anchor)

\* operationKeys: the key of a command until it succeeds.
Key(c, command) == [client |-> c, command |-> command, again |-> command \in done[c]]
Keys == [client: Clients, command: Commands, again: BOOLEAN]

Applied(key) == {i \in DOMAIN closes : closes[i].key = key}

At(i, step) == slot[i] # Null /\ slot[i].pc = step
Target(i) == slot[i].key.command.target
Period(i) == PeriodOf(slot[i].key.command)
InTransaction(i) == \E step \in Statements : At(i, step)
Ended(i) == \E step \in Results : At(i, step)
Waits(c) == \E i \in Slots : slot[i] # Null /\ slot[i].key.client = c /\ slot[i].waited

\* Only a correction finds a row to lock and goes on.
Locks(i, p) == InTransaction(i) /\ ~At(i, "lock") /\ Target(i) # 0 /\ Period(i) = p
MayLock(i) == \A j \in Slots \ {i} : ~Locks(j, Period(i))

With(status, p) == {s \in Sales : sale[s].status = status /\ Contributes(s, p)}
Completed(p) == With("COMPLETED", p)

\* Of the database as it is: the row of the period and its completed sales. open, kept for
\* the properties only: the sales that may still complete in the period.
Snapshot(p) ==
  [ pointer |-> pointer[p], completed |-> Completed(p),
    open |-> IF p.end <= today THEN With("running", p) ELSE Sales \ Completed(p) ]

\* What the queries of the reports see.
VisibleMutCommitted(i) == Completed(Period(i))

Visible(i) == slot[i].snapshot.completed

NewSlot(key) ==
  [ key |-> key, pc |-> "begin", attempt |-> 1, waited |-> TRUE,
    snapshot |-> Null, lines |-> Null, sales |-> {}, close |-> 0 ]

\* The transaction is over, and what it knew is gone.
Fresh(i) == [NewSlot(slot[i].key) EXCEPT !.waited = slot[i].waited]

Answer(i, result, close) ==
  slot' = [slot EXCEPT ![i] = [Fresh(i) EXCEPT !.pc = result, !.close = close]]

\* An error, or no answer at all: the page keeps the key.
NoAnswer(i) == slot' = [slot EXCEPT ![i] = Null]

-----------------------------------------------------------------------------
(* The page *)

\* The administrator confirms the dialog. A page may show any close as current that once was.
Ask(c, i, command) ==
  /\ slot[i] = Null /\ ~Waits(c)
  /\ command.target \in 0..Len(closes)
  /\ slot' = [slot EXCEPT ![i] = NewSlot(Key(c, command))]
  /\ UNCHANGED <<books, done>>

\* The page gives up waiting, or the answer will be lost.
TimeOut(i) ==
  /\ slot[i] # Null /\ slot[i].waited
  /\ slot' = [slot EXCEPT ![i].waited = FALSE]
  /\ UNCHANGED <<books, done>>

\* The answer arrives; a success makes the page drop the key.
Receive(i) ==
  /\ Ended(i)
  /\ slot' = [slot EXCEPT ![i] = Null]
  /\ done' = IF slot[i].waited /\ At(i, "close")
             THEN [done EXCEPT ![slot[i].key.client] = @ \cup {slot[i].key.command}]
             ELSE done
  /\ UNCHANGED books

-----------------------------------------------------------------------------
(* The server *)

\* The transaction claims the key, which waits for another that has claimed it, or
\* answers again what was answered before.
BeginMutNoReplay(i) ==
  /\ At(i, "begin")
  /\ \A j \in Slots \ {i} : ~(InTransaction(j) /\ slot[j].key = slot[i].key)
  /\ slot' = [slot EXCEPT ![i].pc = "lock", ![i].snapshot = Snapshot(Period(i))]
  /\ UNCHANGED <<books, done>>

Begin(i) ==
  /\ At(i, "begin")
  /\ \A j \in Slots \ {i} : ~(InTransaction(j) /\ slot[j].key = slot[i].key)
  /\ \/ /\ Applied(slot[i].key) = {}
        /\ slot' = [slot EXCEPT ![i].pc = "lock", ![i].snapshot = Snapshot(Period(i))]
     \/ \E n \in Applied(slot[i].key) : Answer(i, "close", n)
  /\ UNCHANGED <<books, done>>

\* The row as the snapshot has it: one inserted since is not seen, one changed since makes
\* the statement fail. A creation expects no row, a correction its target.
lockCurrentPeriod(i) ==
  /\ At(i, "lock")
  /\ slot[i].snapshot.pointer # 0 =>
       MayLock(i) /\ pointer[Period(i)] = slot[i].snapshot.pointer
  /\ IF slot[i].snapshot.pointer = Target(i)
     THEN slot' = [slot EXCEPT ![i].pc = "groups"]
     ELSE Answer(i, "refused", 0)
  /\ UNCHANGED <<books, done>>

financialGroups(i) ==
  /\ At(i, "groups")
  /\ slot' = [slot EXCEPT ![i].pc = "sales", ![i].lines = GroupTotals(Visible(i))]
  /\ UNCHANGED <<books, done>>

\* The two queries must tell the same total.
contributingSales(i) ==
  /\ At(i, "sales")
  /\ IF Total(slot[i].lines) = Gross(Visible(i))
     THEN slot' = [slot EXCEPT ![i].pc = "insert", ![i].sales = Visible(i)]
     ELSE NoAnswer(i)
  /\ UNCHANGED <<books, done>>

NewClose(i) ==
  LET gross == Total(slot[i].lines)
      share == calculatePartnerShare(gross)
  IN [ key |-> slot[i].key, period |-> Period(i), supersedes |-> Target(i),
       lines |-> slot[i].lines, sales |-> slot[i].sales, gross |-> gross,
       partner |-> share.partner, remaining |-> share.remaining,
       open |-> slot[i].snapshot.open ]

\* The close, its lines and sales, the pointer and the answer under the key are committed
\* together. The insert of a pointer that exists, seen or not, fails.
persistMutOverwrites(i) ==
  /\ At(i, "insert")
  /\ closes' = Append(closes, NewClose(i))
  /\ pointer' = [pointer EXCEPT ![Period(i)] = Len(closes) + 1]
  /\ Answer(i, "close", Len(closes) + 1)
  /\ UNCHANGED <<today, sale, done>>

persist(i) ==
  /\ At(i, "insert")
  /\ pointer[Period(i)] = Target(i)
  /\ closes' = Append(closes, NewClose(i))
  /\ pointer' = [pointer EXCEPT ![Period(i)] = Len(closes) + 1]
  /\ Answer(i, "close", Len(closes) + 1)
  /\ UNCHANGED <<today, sale, done>>

\* A statement fails for a concurrent transaction; runSerializable starts again or gives up.
Fail(i) ==
  /\ InTransaction(i)
  /\ IF slot[i].attempt < MaxAttempts
     THEN slot' = [slot EXCEPT ![i] = [Fresh(i) EXCEPT !.attempt = slot[i].attempt + 1]]
     ELSE NoAnswer(i)
  /\ UNCHANGED <<books, done>>

\* The process or the connection ends, and with it the transaction.
Crash(i) ==
  /\ slot[i] # Null
  /\ NoAnswer(i)
  /\ UNCHANGED <<books, done>>

-----------------------------------------------------------------------------
(* Sales and days *)

NoSale == [status |-> "none", at |-> 0]

ConfirmSale(s) ==
  /\ sale[s].status = "none"
  /\ sale' = [sale EXCEPT ![s] = [status |-> "running", at |-> today]]

\* Committed, or rolled back and perhaps begun anew.
EndSale(s) ==
  /\ sale[s].status = "running"
  /\ \/ sale' = [sale EXCEPT ![s].status = "COMPLETED"]
     \/ sale' = [sale EXCEPT ![s] = NoSale]

CancelSale(s) ==
  /\ sale[s].status = "COMPLETED"
  /\ sale' = [sale EXCEPT ![s].status = "CANCELLED"]

SaleStep(s) ==
  /\ ConfirmSale(s) \/ EndSale(s) \/ CancelSale(s)
  /\ UNCHANGED <<today, closes, pointer, slot, done>>

NextDay ==
  /\ today + 1 \in Days
  /\ today' = today + 1
  /\ UNCHANGED <<sale, closes, pointer, slot, done>>

-----------------------------------------------------------------------------
Init ==
  /\ today \in {d \in Days : \A e \in Days : d <= e}
  /\ sale = [s \in Sales |-> NoSale]
  /\ closes = <<>>
  /\ pointer = [p \in Periods |-> 0]
  /\ slot = [i \in Slots |-> Null]
  /\ done = [c \in Clients |-> {}]

Serve(i) ==
  \/ Begin(i) \/ lockCurrentPeriod(i) \/ financialGroups(i) \/ contributingSales(i)
  \/ persist(i) \/ Fail(i) \/ Crash(i) \/ Receive(i)

Next ==
  \/ \E c \in Clients, i \in Slots, command \in Commands : Ask(c, i, command)
  \/ \E i \in Slots : TimeOut(i) \/ Serve(i)
  \/ \E s \in Sales : SaleStep(s)
  \/ NextDay

Spec == Init /\ [][Next]_vars

-----------------------------------------------------------------------------
(* Properties *)

SaleRecords == [status: {"none", "running", "COMPLETED", "CANCELLED"}, at: Days \cup {0}]
Snapshots == [pointer: Nat, completed: SUBSET Sales, open: SUBSET Sales]
SlotRecords ==
  [ key: Keys, pc: {"begin"} \cup Statements \cup Results, attempt: 1..MaxAttempts,
    waited: BOOLEAN, snapshot: Snapshots \cup {Null}, lines: [Groups -> Nat] \cup {Null},
    sales: SUBSET Sales, close: Nat ]
Closes ==
  [ key: Keys, period: Periods, supersedes: Nat, lines: [Groups -> Nat], sales: SUBSET Sales,
    gross: Nat, partner: Nat, remaining: Nat, open: SUBSET Sales ]

\* Every variable has its type; in particular no command is tried more often than allowed.
TypeOK ==
  /\ today \in Days
  /\ sale \in [Sales -> SaleRecords]
  /\ closes \in Seq(Closes)
  /\ pointer \in [Periods -> 0..Len(closes)]
  /\ \A i \in Slots : slot[i] = Null \/ slot[i] \in SlotRecords
  /\ done \in [Clients -> SUBSET Commands]

\* Every close counts sales of its period only, and balances: its lines, its sales and the
\* two shares each add up to its gross total, and the shares differ by a cent at most.
ClosesBalance ==
  \A i \in DOMAIN closes :
    LET c == closes[i]
    IN /\ \A s \in c.sales : c.period.start <= sale[s].at /\ sale[s].at < c.period.end
       /\ c.gross = Total(c.lines) /\ c.gross = Gross(c.sales)
       /\ c.gross = c.partner + c.remaining
       /\ c.partner - c.remaining \in 0..1

\* The totals by group and the list of sales are read by two queries, between which sales
\* complete and are cancelled; still no command meets CASH_CLOSE_TOTAL_MISMATCH.
QueriesAgree ==
  \A i \in Slots : At(i, "sales") => slot[i].lines = GroupTotals(Visible(i))

\* However creations and corrections race, and with whatever kind and day a period is asked
\* for, its closes form one chain: one close supersedes none, none is superseded twice, and
\* the current one is the one not superseded.
OneChain ==
  /\ \A i \in DOMAIN closes :
       LET c == closes[i]
           superseded == \E j \in DOMAIN closes : closes[j].supersedes = i
       IN /\ c.supersedes # 0 => c.supersedes < i /\ closes[c.supersedes].period = c.period
          /\ pointer[c.period] = i <=> ~superseded
          /\ pointer[c.period] # 0
          /\ \A j \in DOMAIN closes :
               closes[j].period = c.period /\ closes[j].supersedes = c.supersedes => i = j
  /\ \A p \in Periods : pointer[p] # 0 =>
       pointer[p] \in DOMAIN closes /\ closes[pointer[p]].period = p

\* What a page is told is so: a success names the one close made under its key, and a
\* command refused as a conflict has made none, also not by an earlier sending whose answer
\* was lost, nor will one that is still on its way.
AnswersAreTrue ==
  /\ \A i, j \in DOMAIN closes : closes[i].key = closes[j].key => i = j
  /\ \A i \in Slots :
       /\ At(i, "close") => Applied(slot[i].key) = {slot[i].close}
       /\ At(i, "refused") => Applied(slot[i].key) = {}

\* A completed sale of the period that a close does not count was confirmed after the close
\* took its snapshot; if the period had ended, it was then still being confirmed.
NothingForgotten ==
  \A i \in DOMAIN closes :
    LET p == closes[i].period
    IN \A s \in Sales :
         sale[s].status = "COMPLETED" /\ p.start <= sale[s].at /\ sale[s].at < p.end
           => s \in closes[i].sales \cup closes[i].open
=============================================================================
