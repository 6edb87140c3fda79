# Warehouse Manager in TLA+

Warehouse Manager keeps the stock of branches and delivery trucks. Drivers load a truck,
sell from it and bring the rest back; administrators post stock operations, cancel sales,
reconcile returned trucks and close routes. One Express API serves a web client, every
command is a PostgreSQL transaction, and several clients send commands at once, retry
them after lost answers and act on screens that may be out of date.

This directory models that behaviour, checks it with TLC and proves nearly all of the
safety it checks with TLAPS. Paths below are relative to the repository; `modules/` stands for
`apps/api/src/modules/`.

## Inventory of the system

| Component | State | Operations | What makes it correct | Here |
|---|---|---|---|---|
| Inventory ledger (`modules/inventory`, migration 002) | `inventory_balance`, `inventory_operation`, `inventory_movement` | branch operation, transfer, reversal, `applyMovement` | no negative balance; balances follow from movements; a reversal undoes one operation exactly, once | `StockLedger` |
| Command execution (`db/serializable-transaction.ts`, `shared/idempotency`) | `idempotency_request`, row locks, attempts | `runSerializable`, `acquire`, `complete` | concurrent commands act as if alone; a key is applied once; every request ends | `InventoryCommands` |
| Routes (`modules/routes`, migrations 004, 010) | `route`, `route_load`, `route_return`, `route_reconciliation` | create, save draft, confirm, start, return, declare, approve, close | one active route per driver and vehicle; confirmed records stand; the truck's stock is what its records say; a returned truck can be reconciled | `RouteLifecycle` |
| Sales (`modules/sales`, migration 003, `web/features/sales`) | `sale`, `sale_line`, `sale_ticket`, `sale_cancellation`, the sale form | quote, confirm, cancel | sold only from the truck, restored once, never from a truck that is back; one sale per form, of what was reviewed | `RouteLifecycle` (goods), `Selling` |
| Pricing, customers (`modules/customers`, `pricing-service.ts`) | `customer_price`, `customer` | create, deactivate, archive, price | one effective price, charged while it is in force | `Selling` |
| Catalog (`modules/catalog`) | products, units, vehicles, locations | create, update, archive | no edit is lost; no vehicle in use is archived | `Assignments` (vehicles) |
| Users and sessions (`modules/users`, `auth`) | `app_user`, `auth_session` | create, update, login, find, revoke | no edit is lost; a driver with an open route stays a driver; revoked sessions stay revoked | `Assignments` (users) |
| Cash closes and reports (`modules/reports`, migration 005) | `cash_close`, its lines and sales, `cash_close_current_period` | create, correct, report | one current close per period; corrections form a chain; totals match one snapshot; no complete sale is missed | `CashCloses` |
| Documents (`modules/documents`, migration 008, `web/features/documents`) | `document_output`, files, the page | request, generate, read | READY means the file was stored; attempts tell the state; the user gets the file | `Documents` |
| Printing (`web/features/printers`, output attempts) | the dialog's job and pending result, `output_attempt`, connection | connect, print, save result | nothing is printed unannounced; copies are marked; results are true | `Printing` |
| Web forms | idempotency keys, versions on screen | submit, retry | a retry repeats, an edit does not | in `Selling`, `CashCloses`, `Documents`, `Printing`; the others not modelled |
| Settings, overview, audit, HTTP, rendering, scripts | rows without interplay, or none | | | not modelled |

The components meet in the database. A handler calls `applyMovement` inside its own
transaction (ledger), opens with `acquire` and ends with `complete` (commands), and locks
the row it is about. There are no queues, events or background workers: concurrency is
transactions that overlap, and failure is a transaction that rolls back or an answer that
gets lost. The hard behaviours are therefore overlapping transactions over several rows,
retries and repeated keys, sequences of legal commands by different people (a sale
cancelled after the truck is back, an operation reversed between approval and closure),
and, on the client, reloads and several tabs. `PROJECT.json` lists them one by one under
"hazards" with the line where each bites.

## Modules

### StockLedger

One action per operation of `InventoryService`, each an atomic transaction.

| Model | Code |
|---|---|
| `balance[l][p]` | `inventory_balance.quantity`; a missing row is the zero row `applyMovement` inserts |
| `operations` | `inventory_operation` with its `inventory_movement` rows, in commit order |
| `Covered`, `ApplyMoves`, `Recorded` | the three parts of `applyMovement`: the check of the source, the updates, the stored row |
| `Post` | one operation with all its movements, or nothing |
| `CreateBranchOperation`, `CreateTransfer`, `Reverse` | the methods of those names |

Quantities are naturals: the code computes in exact decimals of three places, and the
properties only add, subtract and compare. A request that names a product in several
lines is summed: those movements go the same way one after another, so together they act
as one. Reasons, actors and times are left out. A failed request is no step.

### InventoryCommands

`InventoryService.execute` statement by statement, for several sessions: claim the key,
insert the operation, lock the rows of each product in order, apply each movement, commit.
`pc` is the statement a session is at, `held` the rows it has locked or inserted, `stale`
the rows others wrote since its snapshot, `work` the movements it has inserted, `idem` the
committed idempotency rows. PostgreSQL is modelled by what the code relies on: locks held
to the end, error 40001 when a wanted row was written after the snapshot (and possibly
whenever transactions overlap, which covers the serializable conflict detection), an
insert of a taken unique key that waits, and error 40P01 for a cycle of waiting sessions.
`Retry` is `retryTransactionOperation`; `ConnectionLost` ends a request at any point, and
`Commit` may lose its answer. Since `acquire` and `complete` are in one transaction, the
state `IN_PROGRESS` is never seen by another one.

The module implements `StockLedger`: `ImplementsLedger == L!Spec`, with the committed
balances and operations as the refinement mapping; `InventoryCommandsProofs` proves it.

### RouteLifecycle

Instantiates `StockLedger` for the stock and adds the route, its load, sales, declared
return and reconciliation. One action per handler: `Create`, `SaveDraft`, `ConfirmLoad`,
`Start`, `Return` (with or without the driver's count), `DeclareReturn`, `ConfirmSale`,
`CancelSale`, `Approve`, `Close`, and the administrator's `AdminOperation` and
`ReverseOperation`, which may come at any time and may name any operation, also one a
route posted. `approve` is one action with its adjustments, its return movement, the check
for a zero balance and the stored reconciliation, as it is one transaction.

Each handler locks the route row (a cancellation the sale row) and runs serializable,
except `create`, `saveDraft` and `close`, which run READ COMMITTED behind the same row
locks; so each is taken as atomic, and the properties of this module say nothing of their
statements interleaved; `Selling` does, for a confirmation beside the return. Expected versions are those the sender last read: a
stale one is refused and is no step. Reasons for differences are left out, their
consistency check with them.

### Assignments

`RouteLoadService.create`, `UserAdminService.update` and `updateCatalog` for vehicles,
statement by statement, for several sessions. `row` holds the columns of `app_user` and
`vehicle` the checks read, `routes` the committed routes, `seen` the snapshot of a
serializable transaction, taken when its first statement starts, which is before that
statement gets its lock. `Held` and `Shared` are the row locks at each statement: `FOR
UPDATE` and those of the foreign keys to the actor. `create` is READ COMMITTED: it
re-evaluates `active` and `role` after a wait and is not retried. An update fails on a row
that was changed since its snapshot, but not on one that was only locked, and that is all
`create` does to the driver and the vehicle. A route's states before `CLOSED` are one here;
`RouteLifecycle` tells them apart. Names, passwords, reasons and the revocation of sessions
are left out.

### Documents

`DocumentService` and the page of `DocumentCenter`, for one or more sources.

| Model | Code |
|---|---|
| `document[s]` | the row of `document_output`: its state, whether `content_hash` is that of the content, whether `storage_key` names its file |
| `file[s]` | the file under `DOCUMENT_STORAGE_PATH`: never written, whole, or lost to others |
| `attempts[s]` | the results of the `GENERATE` rows of `output_attempt` |
| `pc`, `job` | a request: its own transaction for the key (`Admit`), `createOrReuse`, then `generate` behind the row lock (`Lock` ... `Commit`, or `Reuse`) |
| `page` | what the page asked for, shows, was refused and got |

A source does not change, so rendering it again gives the same bytes and a document has one
content. `Crash` may end a request at any point: the database undoes its transaction, a file
already renamed into place stays. `GiveUp` is the client's timeout of 15 seconds, `Lose` a
file that others delete or damage. The key is not modelled as a variable: `POST /documents`
answers a repeated key like a new one and calls `request` in both cases. A page of the
document history knows the document's id only; the page of a record (`SourcePages`) may ask
again after it was opened anew. On a history page a document left `PENDING` by a crash, or a
`READY` one whose file is lost, offers no button that generates; so liveness is claimed for
the pages of records.

### Printing

The print dialog (`print-dialog.tsx`), its `WebBluetoothPrinterAdapter` and the PRINT and
REPRINT rows of `output_attempt`, for several dialogs of one document.

| Model | Code |
|---|---|
| `dialog[d]` | the state of `PrintPanel`: the step `perform` is at, the selected printer, whether attempts are known (`attempted`, `history`), the job, the pending result |
| `link[d]` | the adapter: the device it connects to and whether it is connected; a passed `generation` is `None` |
| `late`, `ledger` | requests whose sender is gone, and the recorded attempts, as bags |
| `paper` | the sheets begun or finished by each device |
| `active` | the printers that are not archived |

`Send`, `Start`, `FirstChunk`, `LastChunk`, `Save` are the course of one print; each has its
failures: an answer that is lost (`LostStart`, `LostSave`), a refusal, a connection that is
gone (`NotConnected`) or breaks (`WriteFails`), and a page that goes away (`LeaveDialog`).
Lists may be read again at any time and then select another printer, which disconnects the
adapter. After an error nothing is sent until the lists are read again or a printer is
chosen anew: that button stays available, and pressing it clears the error. The server does not check that a document was printed before: two dialogs opened
before the first print each print an original. `usePrintJob` of `print-job.ts`, with its
journal, is called by no screen and is not modelled. The definitions of `Printing` share no
name with those of `Documents` (`PrintInit`, `PrintSpec`, ...): one module holds the proofs of
both.

### CashCloses

`CashCloseService.create` and `correct` statement by statement, for several pages.

| Model | Code |
|---|---|
| `closes` | `cash_close` with its lines and sales, in commit order; `supersedes` is an index |
| `pointer[p]` | `cash_close_current_period`, 0 when there is no row |
| `slot` | a command being served: its key, statement, attempt, snapshot and what it has read |
| `done` | the page's `operationKeys`: a key is dropped when its command succeeded |
| `sale` | status and `completed_at`, which is the start of the confirming transaction; `running` before it commits |
| `today` | the day, of the few the model lets pass |

A transaction reads the `snapshot` of its first statement. `lockCurrentPeriod` waits for a
correction that holds the row and fails on a row changed since the snapshot; `persist`
fails when the pointer is not what the snapshot showed (the insert's conflict and the
compare-and-swap); `Fail` is any serialization failure, retried up to `MaxAttempts` times,
`Crash` the end of the process. A period is its boundaries: a week asked for by two of its
days is one period, and `First` and `After` give the boundaries `resolveReportingPeriod`
computes. Amounts are cents. Reasons are one, so a correction of a close has one key until
it succeeds.

Three observations. Without the row lock the properties still hold: the compare-and-swap
and the unique constraints defend them. A sale whose confirmation began before the end of a
period and commits after the period was closed is not in the close; only a correction adds
it, and `NothingForgotten` says that there is no other way to be missed. A replayed answer
shows a close as it was, perhaps as `CURRENT` when it is superseded
(`cash-close-pages.tsx:85`), until the page reads it again.

### Selling

The sale form (`sale-form.tsx`), the quote it shows and `SaleService.confirm` statement by
statement, beside what administrators and other forms do.

| Model | Code |
|---|---|
| `price`, `standard`, `active` | `customer_price.active`, `product.standard_unit_price` (`Null` while archived), `customer.active` |
| `route`, `stock`, `out` | the driver's latest route, the balances of its truck, and whether it is `EN_ROUTE` |
| `sale` | `sale` with its lines and unit prices, in commit order |
| `form[f]` | one `SaleWorkflow`: its step, values, quote, and the two requests it may wait for |
| `slot[i]` | a confirmation being served: statement, attempt, snapshot |

The first two steps of the form, which may be taken in any order, are one step, `cart`. The
last one is reached only by a quote that arrives, so the model drops a quote on the way
back. Confirming sends the values of the form, not those of the quote, under the operation
id the form keeps until it has its ticket. `TimeOut` and `Leave` end the waiting and not the
command: a lost answer is one nobody waits for any more. `Claim` is `acquire`, which waits
while another confirmation of the form is open; `Finish` is the rest of the transaction,
which reads its snapshot, changes the balances as they are and fails (`Clash`) when they are
no longer those it read; its lock on the route, too, is only granted on a route in the state
it read (`RouteLocked`). Sales of forms that are not followed, cancellations, the return and
the office's changes are whole transactions; a cancellation, which reads the route without a
lock, may be committed after a return it did not see.

A driver has one route at a time (`route_active_driver_uq`), so his routes are numbered. A cart
names its route. The list of routes the page has may be old, so the form may hold a route that
is over; it does not go back. `SwitchRoute` is the effect that puts the new active route into
the form, at any step and without clearing the quote. `Depart` is the start of the next route;
what lies between, and corrections of a truck's stock, are `RouteLifecycle`'s. Left out: the
payment method, which can be changed on the last step and is part of the content a repeated
key is compared with, and the quote's reads of different moments (it is a plain transaction,
and only shown).

Observations. A quote that arrives after its form was edited is shown as the review, and
confirming then sells the new values, which nobody reviewed (`sale-form.tsx:136`);
`OnlyLateQuotesSurprise` says that nothing else can make the goods differ. They may be sold
from another truck than the one reviewed: when the next route becomes active while the review is
on the screen, the effect takes it (`sale-form.tsx:117`), and the property allows that, for a
later route only. A confirmation repeated after a lost answer and such a switch is refused as a
conflict, as its route is part of its content. The rows are those of
the snapshot, the time is `new Date()` at the pricing, which is later: around the end of a
price a sale may find neither that price nor one stored since, and charge the standard one;
but it never misses a price that holds throughout (`ChargesAreInForce`). The operation id dies with the page: a driver
whose answer was lost and who opens the page anew can sell the same again.

## Runs

| Run | Instance | Question |
|---|---|---|
| `ledger` | 2 branches, 2 products, quantities to 2, 4 operations | Do all sequences of operations and reversals keep the books? |
| `route_day` | 2 routes of one driver and truck, 2 branches, 1 product, 2 sales, quantities to 2 (counts to 3), 6 operations, one of them an administrator's operation or reversal | Do stock and records of a route agree at every moment, can every count be reconciled, is a crew on one route at a time, are records immutable? |
| `route_cancelled_after_return` | as `route_day` | Can a returned route still be reconciled after a cancellation? (no) |
| `route_closed_with_stock` | as `route_day` | Is a closed route empty? (no) |
| `commands` | 2 sessions, 3 keys, 2 branches, 2 products, an entry, a transfer and two reversals, 3 attempts | Do overlapping transactions implement the ledger and apply each key once? |
| `commands_progress` | 2 sessions, 2 keys, an entry, an exit and a reversal, 2 attempts, with fairness | Does every request end? |
| `assignments` | 2 sessions, 2 administrators, 1 driver, 1 vehicle, creations, changes of role and activity, 3 changes, 2 routes, 2 attempts | Do creations and changes of the crew keep each other's rules? |
| `assignments_stranded` | as `assignments`, with 2 changes | Does a route in progress keep its driver and vehicle? (no) |
| `documents` | 1 source, 2 requests, a record's page and a history page, 2 faults, with fairness | Do row, file and attempts agree whatever fails, and does the user get the file? |
| `printing` | 2 dialogs, 2 printers, 2 prints | Is every sheet announced, every later copy marked, every recorded result true? |
| `cash_closes` | 2 pages, 2 commands at once, 1 sale in 2 groups, one period of 2 days asked for with either, closes 1 corrected, 2 attempts | Do closes balance, form one chain, answer truly and miss no complete sale? |
| `selling` | 1 form, 2 confirmations at once, 2 routes, 1 customer and product, quantities to 2, a price until noon and one from then on, 1 standard price, 2 outside changes, 2 attempts | Is there one sale per form, of what was reviewed, at a price in force, and none from a truck that is back? |

The bounds, all named constants: `MaxQty` 1 or 2 tells "enough", "exactly enough" and "too
little" apart; `MaxOps` 4 in `ledger` admits a reversal of a reversal beside another
operation; in `route_day` 6 operations are, beside the opening entry, a load, a sale, its cancellation,
an adjustment and a return, or a second sale, load or reversal in place of one of them; `MaxLoadVersion` 3 admits one draft edited or
confirmed after its first save; `MaxAdminOps` bounds what the administrator does beside
the opening entry. Two sessions are enough for every pairwise conflict and for deadlocks,
which need two operations that take two rows in opposite order. `MaxChanges` 3 lets a row
be deactivated, restored and deactivated again between two creations. `MaxFaults` 2 lets a
repair fail too, and a crash follow a lost file. Two printers and two prints are what it
takes to print on the wrong device, or twice. One sale is enough for `cash_closes`, since
sales do not interact; two commands at once meet in every pairwise order, a third one may
follow, and `MaxCorrected` 1 lets two corrections of the same close race. In `selling` one form meets itself: its
confirmation is repeated while the first is still served; other forms appear as their sales.
`MaxChanges` 2 there admits a price that is replaced, a sale that is made and cancelled, a return
with the departure for the next route (`MaxRoutes` 2), or
noon between two readings of the clock; two units of stock make a second sale fail. The
standard price has one value there, so that it changes from one to another is covered by the
theorem only. Deadlock checking is off
because the bounds stop the model.

Every property of the passing runs has a mutant in `PROJECT.json`: a plausible bug in one
definition that makes TLC find the property violated.

### Fairness

Two runs assume any. In `commands_progress`: strong fairness of a session's locking statement:
PostgreSQL grants a lock to its waiters in turn, so a session is not overtaken for ever.
Strong fairness of the serialization failure of a session that wants a row written since
its snapshot: the statement fails once the row is free. Weak fairness of the other
statements (the event loop and the database run them) and of the deadlock detector. No
client is assumed to send or repeat anything.

In `documents`: weak fairness of the server's steps, and of three things its user does on
the page of a record: press the button that is offered, download what is ready, and open a
page again that only polls or was refused the content. Faults are bounded, so they end.

### What the violations show

* `route_cancelled_after_return`. After `RETURNED`, a cancellation moves the goods to the
  branch and takes the sale out of the completed ones. `approve` then expects the goods
  back from the truck (`load - sold`), whose balance no longer covers them: every count
  needs an adjustment or a return movement of stock the truck does not hold. `approve`
  fails with `INSUFFICIENT_INVENTORY`, the route stays `RETURNED`, and its driver and
  vehicle stay taken. FR-042 asks for such cancellations and FR-022 for the return to be
  recorded; `sale-cancellation.test.ts` cancels after the return but does not reconcile
  afterwards. Reversing both ledger operations of the sale by hand makes the route
  reconcilable again. `EveryCountReconciles` shows that without such a cancellation or a
  reversal every count is accepted.
* `route_closed_with_stock`. `approve` leaves the route empty, but an administrator may
  reverse one of its operations before `close`, which checks no balance, although
  data-model.md:315 requires "every route balance zero".
* `assignments_stranded`. An administrator creates a route while another deactivates its
  driver (or demotes him, or archives the vehicle). The update takes its snapshot, waits
  for the row that `create` has locked, and goes on when the route is committed: the row
  itself has not changed, so PostgreSQL does not refuse the update, and on its snapshot
  the driver has no route. The route stays, with a driver who cannot sign in, against
  data-model.md:44 and :187. `OnlyOverlapStrands` shows that this overlap is the only way:
  a route older than the snapshot makes the update fail. Reactivating the driver repairs
  it.

Smaller differences met on the way, not runs of their own: data-model.md:499-503 lists
closure among the Serializable transactions, `close` uses a plain one
(`route-reconciliation-service.ts:286`), which its row lock makes good; a second reversal
fails on the unique `reverses_operation_id`, which `mapDomainError`
(`inventory-routes.ts:70`) does not know. `create` has no retry, and `assignments` found
the one deadlock that can reach it: its driver is an administrator who was demoted while a
request of his own was running, which then waits for his row to write its audit entry.

## Proofs

The proofs of `M` are in `MProofs`, which extends `M`, except that `OutputsProofs` holds those of
`Documents` and of `Printing`; `SumTheorems` holds what several of them need of sums. Each has an inductive invariant, `IInv` or the conjuncts named below, lemmas that
follow the actions and show that they keep it, and the theorems that follow from it.

### The ledger

`StockLedgerProofs` proves, for every set of branches, routes and products and every
bound, under `LedgerAssumption` (bounds are naturals, branches and routes are disjoint,
null is no location):

* `TypeCorrect`: `Spec => []TypeOK`, in particular no negative balance;
* `BalancesReproduced`: `Spec => []LedgerReproducesBalances`;
* `ReversalsExact`: `Spec => []ReversalsAreExact`;
* `TransfersConserved`: `Spec => TransfersConserve` (no run checks this one).

The inductive invariant `IInv` is the conjunction of the type invariant, the two
invariants and `MovesAreSound`: every stored movement has an endpoint when its quantity is
positive, its endpoints differ, and a transfer has both. The last is what the invariants
lack to be inductive: `Reverse` posts the inverse of a stored movement, so a step is only
as sound as the history. `Posted` states what `Post` does to any ledger; the lemmas
`PostMovesAreSound`, `PostReproducesBalances` and `PostKeepsReversalsExact` show that it
keeps each conjunct, for any handler that posts sound movements, and one lemma for each
handler shows that it posts such. `PostReproducesBalances` is the delicate one: the new
operation becomes the latest of each row it touches, its recorded balance is its
predecessor's changed by its own quantity, and rows it does not touch keep theirs.

`PostPreservesIInv` speaks of `Post` with any type and movements, so it also covers the
movements that routes, sales and concurrent commands post: `RouteLifecycleProofs` and
`InventoryCommandsProofs` instantiate this module and cite it.

### Sums

Stock, sold quantities and money are totalled with `SumFunctionOnSet`, a fold of the community
modules. `SumTheorems` proves what the other modules need of it, for any finite set and
integer values: it is additive and monotonic, it changes by what one element changes, it only
depends on the elements that are not zero. The fold is a recursive definition; induction over
it is by a set of bad subsets that has no least element (`SubsetsByRemoval`, from the
library's `WFMin`), so that no theorem takes an operator as its parameter. This is also how
the sums of `CashCloses` are reached.

### Routes

`RouteLifecycleProofs` proves, for any branches, routes, products, sales, drivers, vehicles
and bounds (`RouteAssumption`: branches and routes are disjoint, the sets are finite, null is
none of their members):

* `TypeCorrect`: `Spec => []TypeOK`, in particular that no handler makes a truck owe goods;
* `StockExplained`: `Spec => []RouteStockExplained`;
* `ReconciliationsStand`: `Spec => []ReconciliationStands`;
* `LifecycleKept`: `Spec => []LifecycleHolds`;
* `CountsReconcile`: `Spec => []EveryCountReconciles`;
* `GoodsAreAccounted`: `Spec => []GoodsAccounted`;
* `HistoryKept`: `Spec => HistoryIsNotRewritten`.

The inductive invariant is the ledger's, the types of the rows, `LifecycleHolds` and four
conjuncts. `RowsHold`: what follows from how rows are written, as that a created route has an
origin. `StockHolds`, which is `RouteStockExplained` product by product: a truck holds exactly
what its records say (`Books`), from the load to the reconciliation, and nothing before and
after. `DeclaredHolds` and
`ReconciledHolds` relate the quantities a count was compared with to the sales as they are
now: what was sold then is sold, or was cancelled to a branch since. What the
three say of stock is about routes none of whose operations was reversed (`Reworked`).

`approve` posts several operations in one transaction, and one product's adjustment, then its
return, touch the same rows. So it is no single `Post`; `RowStaysReproduced` restates the
ledger's reproduction for one row and any batch of operations that touch it, and
`ApprovalReproduces` and `ApprovalPosts` apply it. `EveryCountReconciles` follows from
`StockHolds`: the physical count differs from the books by the adjustment, and whatever is
counted is then there to be returned. `GoodsAccounted` adds one conjunct, `GoodsHold`, about
the stock of all locations together: `PostedGoods` says what a posted movement changes of it,
nothing when it goes from one location to another, and one lemma for each handler compares
that with what the handler changes of the sales and of the goods brought in.

### Commands

`InventoryCommandsProofs` proves, for any branches, products, sessions, keys, requests and
attempts, and any total order of the rows (`CommandsAssumption`):

* `LedgerImplemented`: `Spec => ImplementsLedger`, the refinement of `StockLedger`;
* `AnswersTrue`: `Spec => []AnswersAreTrue`;
* `DeadlocksReverse`: `Spec => []OnlyReversalsDeadlock`;
* `TypeCorrect`: `Spec => []TypeOK`, which says that no two transactions hold one row;
* `CommittedLedgerHolds`: the ledger's invariants hold of the committed tables (no run checks
  this one; it is what the refinement is good for).

The inductive invariant is the ledger's and `AnswersAreTrue`, with what a transaction knows at
each statement (`SessionFits`): it has inserted a key no committed row has (`KeyIsNew`), its
reversal's target is not reversed, each movement it recorded is the one its request asks
for, of balances as they are (`Done`), and it locked the rows in order (`LockedInOrder`). All
this is stable because of the locks: a commit writes only rows its transaction holds, nobody
else holds them (`LocksExclude`), so what others have recorded stays right (`CommitSpares`,
`FitsStand`). When a transaction comes to its commit,
all its movements are `Done` on the committed balances, and the commit is one `Post` of the
ledger (`CommitPosts`); every other step leaves the ledger's tables alone. That is the
refinement. A statement that has its lock reads the row as it is: had it been written since
the snapshot, the statement would have failed (`stale`). Beyond that the proof needs the
row locks only, not the database's detection of conflicts. `Bounded` keeps room in the ledger
for the requests that run.

For `DeadlocksReverse`, take a circle of waiting sessions without a reversal. Each waits for a
balance row (`WaitsForBalance`) and holds only rows before it in the order of products, then
locations, so whoever waits for it asks for an earlier row than it does (`WaitsInOrder`). The
one that asks for the first row of all (`LeastNatural`) is then waited for by nobody: it is
in no circle.

### Assignments

`AssignmentsProofs` proves, for any users, vehicles, administrators, sessions, requests and
bounds (`AssignmentsAssumption`: users are no vehicles, the sets are finite, a request gives
nobody the role of a vehicle):

* `CrewExclusive`: `Spec => []CrewIsExclusive`;
* `CreationsRarelyDeadlock`: `Spec => []CreationsHardlyDeadlock`;
* `RoutesStartFit`: `Spec => RoutesStartWithFitCrew`;
* `UpdatesReplaceWhatWasRead`: `Spec => NoUpdateIsLost`;
* `OnlyOverlapsStrand`: `Spec => OnlyOverlapStrands`;
* `TypeCorrect`: `Spec => []TypeOK`.

The inductive invariant says what a session has checked of the rows it holds: for a creation
that they are fit and, once it looked, without an open route; for an update that the row has
the version it read and its snapshot's routes allow the change (`ChecksHold`). `LocksExclude`
makes it stable: no other session holds those rows, and a route that is committed names only
rows its creator held. `RolesFit` and `SessionShape` tell users and vehicles, creations and
updates apart. A snapshot of an update is a former table of routes (`Continues`), in which an
open route of today is open; so a route that strands was not in it (`OnlyOverlapsStrand`).

### Cash closes

`CashClosesProofs` proves, for any sets of pages, slots, sales, groups and periods, any
amounts, any number of attempts and any calendar in which periods of a kind do not overlap
(`CalendarAssumption`, `CashClosesAssumption`):

* `QueriesAgreeTheorem`: `Spec => []QueriesAgree`;
* `OneChainTheorem`: `Spec => []OneChain`;
* `AnswersAreTrueTheorem`: `Spec => []AnswersAreTrue`;
* `NothingForgottenTheorem`: `Spec => []NothingForgotten`;
* `ClosesBalanceTheorem`: `Spec => []ClosesBalance`;
* `TypeCorrect`: `Spec => []TypeOK` (no run checks this one).

The base is `TypesInvariant`: the types of what the proofs speak about, and `Reads`, what a
command has read at each statement: the lines and sales it holds are those of its snapshot,
and its target exists. `OneChain` needs nothing more, since `persist` appends behind the
pointer it found (`ChainStep`). `AnswersAreTrue` needs `KeysHold`: while a transaction runs,
no close was made under its key and no other transaction has it, and a refused command has
lost its place in the chain for good (`KeysStep`). `NothingForgotten` needs `AllCovered`:
from the snapshot on and for ever after, every sale that is or may still be completed in the
period was completed or open in the snapshot, because a period that has ended does not come
back (`CoveredStep`). `ClosesBalance` needs `AllBalance`: a close's amounts are those of its
sales, and sales once counted in a period stay counted there when they are cancelled later. The
totals by group and the totals by sale are one sum in two orders (`TotalsAgree`, by induction
over the set of sales), so `CASH_CLOSE_TOTAL_MISMATCH` cannot come from the arithmetic, and
the two shares add up to the gross with at most a cent between them (`SharesAddUp`).
`TypeCorrect` adds that nothing is dated outside the days that pass (`Dated`).

### Documents

`OutputsProofs` proves of `Documents`, for any sources, pages, requests and number of faults
(`DocumentsAssumption`: every page has a source, every record's page is a page):

* `TypeCorrect`: `Spec => []TypeOK`;
* `ReadyWasStoredTheorem`: `Spec => []ReadyWasStored`;
* `AttemptsTellStateTheorem`: `Spec => []AttemptsTellState`;
* `AvailableStaysTheorem`: `Spec => AvailableStays`.

The inductive invariant adds two conjuncts. `Work` says what a request knows while it runs:
its row exists, it is the only one in `generate` for its source (the row lock), there is
nothing to give out while it renders and stores, and before `Commit` its file is there.
`Unborn` says that a source without a row has no attempts. `AvailableStays` follows step by
step (`AvailableStep`): whoever may write a row holds its lock and has found it unreadable,
or has stored the very content the row already names. Others may delete a file at any moment
(`Lose`), so "the file is there" cannot be part of the invariant for a `READY` row;
`ReadyWasStored` says that it was written.

### Printing

`OutputsProofs` proves of `Printing`, for any printers, any number of requests and any finite
set of dialogs (`PrintingAssumption`: the bound is a natural number and null is no printer, job
or outcome; finite, since dialogs are counted):

* `PrintTypeCorrect`: `PrintSpec => []PrintTypeOK`;
* `SheetsAreAnnouncedTheorem`: `PrintSpec => []SheetsAreAnnounced`;
* `LaterSheetsAreMarkedTheorem`: `PrintSpec => []LaterSheetsAreMarked`;
* `ResultsAreHonestTheorem`: `PrintSpec => []ResultsAreHonest`;
* `PrintInvariance`: `PrintSpec => []PrintIInv`, from which they follow.

The properties compare numbers of rows and of sheets, and no step preserves them by itself: a
dialog prints some time after its attempt was accepted, and reports some time after it printed,
while others do the same for the same printer. The inductive invariant therefore counts the
dialogs too. `Balanced` says, for each mode and printer, that attempts cover the sheets, the
failures and the dialogs that have announced and not printed (`Unprinted`); that whole sheets
cover the successes and the dialogs that have yet to tell of one (`Untold`); that attempts
cover the results and the dialogs that owe one (`Owing`); and that there is a half sheet for
each dialog that is printing (`Begun`), so that `LastChunk` finds the one it completes.
Requests nobody waits for only add attempts, and a result that is sent twice is recorded for
the dialog once (`recorded`), which keeps both sides in step.

`DialogFits` ties the parts of one dialog together: an adapter is connected to the selected
printer, which while a job runs is the job's (a change of printer disconnects it, and no
connection is made during a job), so the sheets come out where they were announced; and a
dialog that knows of no attempt has seen no paper, since paper implies an attempt
(`PaperHasHistory`, from `Balanced`). That is why `LaterSheetsAreMarked` holds although the
dialog looks at attempts and the property speaks of paper.

The counts are sums over bags, by `CountAdded` and `CountRemoved`; `OneDialogMoves` and
`NumbersChange` say how the four numbers follow a step of one dialog. `QuietTurn` settles at
once the steps that announce, print and record nothing. TLC checks `PrintIInv`, too, with the
constants of the run `printing`; it is no property of a run, as it states no more of the
system than the four that are.

### Selling

`SellingProofs` proves, for any forms, confirmations at once, customers, products, prices,
stock, routes, attempts and changes (`SellingAssumption`: stored prices are apart, null is no form,
cart or quote):

* `TypeCorrect`: `Spec => []TypeOK`, in particular that the truck never owes goods;
* `OneSalePerFormTheorem`: `Spec => []OneSalePerForm`;
* `ChargesAreInForceTheorem`: `Spec => ChargesAreInForce`;
* `OnlyLateQuotesSurpriseTheorem`: `Spec => OnlyLateQuotesSurprise`;
* `NothingTakenFromReturnedTheorem`: `Spec => NothingTakenFromReturned`.

The inductive invariant adds four conjuncts. `OneOpen`: of the confirmations of a form one at
most holds the key, and only while the form has made no sale, so that `Finish` may append
one. `FormsHold`: a quote is asked for and reviewed of a cart, of a route no later than the form's,
and unless it came late of the form's goods (`SameGoods`). `CommandsHold` carries that over to the request, with the
snapshot of a transaction that went on. `Apart(price)`: active prices of a customer and
product do not overlap, in the table and so in every snapshot, which makes the price
`findEffective` picks the only one (`OneInForce`). `OnlyFinishSells` reduces the action
properties about sales to the step that sells. `NothingTakenFromReturned` needs no more than the
types: only sales take goods, `Finish` only when its snapshot's route is under way
and still is (`RouteLocked`), any other sale when it is under way now.

### Only model-checked

Liveness (`RequestsEnd` of `InventoryCommands`, `SourcePagesGetFile` of `Documents`) speaks of
fairness and ENABLED, which the proof system does not reach. `RouteLifecycle` and the modules of
sales, closes and documents take the transactions of the ledger as atomic; that they may is
proved for `InventoryService.execute` alone.

## Plan

1. `StockLedger`, its proofs, `RouteLifecycle`, `InventoryCommands`, `Assignments` (done).
2. `Documents` and its proofs, `Printing`, `CashCloses` and its proofs, `Selling` and its
   proofs (done).
3. `SumTheorems`; the proofs of `RouteLifecycle`, `Assignments` and `InventoryCommands`, with
   the refinement of the ledger; the sums of `CashCloses` (done).
4. The proofs of `Printing` (done): every safety property that a run checks is now a theorem.

## Not modelled

* Sessions and login: rows that are read at each request; a session of an inactive user is
  refused.
* The inventory form and the route screens: their stale versions and keys are refused by the
  server, which is modelled.
* Rounding and totals of a sale, payment methods, edits of a customer's data, tickets, audit
  entries: no stock or state depends on them.
* Stored report snapshots and report pages: the queries of `CashCloses`, read once.
* `print-job.ts`: unused. Test prints, printer profiles and preferences beyond archiving.
* Rendering and layout; read-only projections; settings (one versioned row); backup and
  build scripts.

The database's own correctness is assumed as described under InventoryCommands.
