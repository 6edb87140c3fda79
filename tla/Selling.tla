------------------------------- MODULE Selling -------------------------------
(***************************************************************************)
(* Selling from a truck: the driver's sale form with its three steps, the  *)
(* advisory quote, and SaleService.confirm, a serializable transaction     *)
(* that prices the sale again; meanwhile administrators change customers,  *)
(* customer prices and products, cancel sales, and time passes.            *)
(*                                                                         *)
(* A driver's routes come one after the other, each with its truck and its *)
(* load; the reconciliation and the closure between them, and what an      *)
(* administrator moves on a truck, are left out.  Amounts are products of  *)
(* a unit price and a quantity, so a sale keeps its unit prices; the       *)
(* payment method, tickets and audit entries are left out.  PostgreSQL     *)
(* (external): the transaction reads what was committed when it began; a   *)
(* statement that needs a row another transaction changed since fails, as  *)
(* may any other for a conflict of serializable transactions.              *)
(***************************************************************************)
EXTENDS Integers, Sequences, FiniteSets, SequencesExt

CONSTANTS
  Forms,         \* the sale forms that are followed from the first edit to the ticket
  Slots,         \* confirmations being served at the same time
  Customers, Products,
  Prices,        \* customer prices that may be stored
  Stored,        \* those that are from the beginning
  About,         \* [customer, product, from, until, unit] of each of them
  Standards,     \* the standard unit prices a product may have
  Loaded,        \* the stock of a truck when it leaves
  Times,         \* the moments of the clock that pass
  Null,
  MaxQty,        \* bound: the quantity of a line
  MaxRoutes,     \* bound: the driver's routes
  MaxChanges,    \* bound: what happens beside the forms that are followed
  MaxAttempts    \* attempts of runSerializable

VARIABLES
  now,
  price,      \* customer_price: not yet stored, active or deactivated
  standard,   \* product.standard_unit_price, Null while the product is archived
  active,     \* the active customers
  route,      \* the driver's latest route
  stock,      \* the balances of its truck
  out,        \* it is EN_ROUTE
  sale,       \* sale with its lines, in the order of commit
  form,       \* each SaleWorkflow
  slot,       \* the confirmation each slot serves
  changes     \* counts what happens beside the forms

office == <<price, standard, active>>
truck == <<route, stock, out>>
vars == <<now, office, truck, sale, form, slot, changes>>

Routes == 1..MaxRoutes

\* What is asked for and sold: a customer and at least one line, from the truck of a route.
Carts ==
  [ route: Routes, customer: Customers,
    lines: {l \in [Products -> 0..MaxQty] : \E p \in Products : l[p] > 0} ]
Goods(cart) == <<cart.customer, cart.lines>>

Quotes == [cart: Carts, available: BOOLEAN, late: BOOLEAN]

Disjoint(x, y) ==
  \/ About[x].customer # About[y].customer \/ About[x].product # About[y].product
  \/ About[x].until <= About[y].from \/ About[y].until <= About[x].from

ASSUME SellingAssumption ==
  /\ About \in [Prices -> [ customer: Customers, product: Products, from: Times,
                            until: Int, unit: Nat ]]
  /\ Stored \subseteq Prices /\ \A x, y \in Stored : x # y => Disjoint(x, y)
  /\ Standards \subseteq Nat /\ Standards # {}
  /\ Loaded \in [Products -> Nat]
  /\ Times \subseteq Int /\ Times # {}
  /\ "STANDARD" \notin Prices /\ Null \notin Forms \cup Carts \cup Quotes
  /\ MaxQty \in Nat /\ MaxChanges \in Nat
  /\ MaxRoutes \in Nat \ {0} /\ MaxAttempts \in Nat \ {0}

-----------------------------------------------------------------------------
(* Prices *)

ValidAt(x, t) == About[x].from <= t /\ t < About[x].until

\* findEffective on the rows of customer_price, at the time of the server's clock.
EffectiveMutIgnoresActive(rows, c, p, t) ==
  { x \in Prices : /\ About[x].customer = c /\ About[x].product = p
                   /\ rows[x] # "absent" /\ ValidAt(x, t) }

Effective(rows, c, p, t) ==
  { x \in Prices : /\ About[x].customer = c /\ About[x].product = p
                   /\ rows[x] = "active" /\ ValidAt(x, t) }

\* PricingService.price for one line: the customer's price before the standard one.
Charge(db, c, p, t) ==
  LET special == Effective(db.price, c, p, t)
  IN IF special # {}
     THEN LET x == CHOOSE y \in special : TRUE IN [source |-> x, unit |-> About[x].unit]
     ELSE [source |-> "STANDARD", unit |-> db.standard[p]]

\* What a transaction reads.
Database ==
  [ price |-> price, standard |-> standard, active |-> active, route |-> route, stock |-> stock,
    out |-> out, sales |-> Len(sale) ]

Sold(cart) == {p \in Products : cart.lines[p] > 0}

Charges(db, cart, t) ==
  [p \in Products |-> IF p \in Sold(cart) THEN Charge(db, cart.customer, p, t) ELSE Null]

\* The route of a cart is EN_ROUTE.
UnderWay(db, cart) == db.out /\ cart.route = db.route

\* price throws for a customer or product out of use and for a route that is not under way.
Priceable(db, cart) ==
  cart.customer \in db.active /\ UnderWay(db, cart) /\ \A p \in Sold(cart) : db.standard[p] # Null

AvailableMutAny(db, cart) == TRUE

Available(db, cart) == \A p \in Products : cart.lines[p] <= db.stock[p]

-----------------------------------------------------------------------------
(* The form *)

\* quote: the quote on the last step; cart: what the form asks for, chosen on the first two;
\* asked: the quote request under way, with its answer; sent: the sale request.
NewForm ==
  [ step |-> "cart", cart |-> Null, quote |-> Null, asked |-> Null, sent |-> "idle", sale |-> 0 ]

Workflow == {"cart", "review"}
Open(f) == form[f].step \in Workflow
OnlyForm(f, new) ==
  form' = [form EXCEPT ![f] = new] /\ UNCHANGED <<now, office, truck, sale, slot, changes>>

\* A route the page may take for the active one: it does not go back to an older one.
Listed(f, r) == r <= route /\ (form[f].cart # Null => form[f].cart.route <= r)

\* The inputs of the first two steps, also while a quote is on its way.
EditMutReviewed(f, cart) ==
  /\ Open(f) /\ cart # form[f].cart /\ Listed(f, cart.route)
  /\ OnlyForm(f, [form[f] EXCEPT !.cart = cart])

Edit(f, cart) ==
  /\ form[f].step = "cart" /\ cart # form[f].cart /\ Listed(f, cart.route)
  /\ OnlyForm(f, [form[f] EXCEPT !.cart = cart])

\* The effect on the list of routes: when another route has become the active one, the form
\* takes it, at any step; lines and quote stay.
SwitchRoute(f, r) ==
  /\ Open(f) /\ form[f].cart # Null /\ Listed(f, r) /\ r # form[f].cart.route
  /\ OnlyForm(f, [form[f] EXCEPT !.cart.route = r])

\* backToProducts. The page keeps the quote until the next edit, but shows its last step
\* again only for a new one.
Back(f) ==
  /\ form[f].step = "review"
  /\ OnlyForm(f, [form[f] EXCEPT !.step = "cart", !.quote = Null])

\* requestQuote
Review(f) ==
  /\ form[f].step = "cart" /\ form[f].cart # Null /\ form[f].asked = Null
  /\ OnlyForm(f, [form[f] EXCEPT !.asked = [cart |-> form[f].cart, available |-> Null]])

\* POST /sales/quote. Its prices are shown and have no other use.
Quote(f) ==
  LET asked == form[f].asked
  IN /\ Open(f) /\ asked # Null /\ asked.available = Null
     /\ Priceable(Database, asked.cart)
     /\ OnlyForm(f, [form[f] EXCEPT !.asked.available = Available(Database, asked.cart)])

\* The quote arrives: the form shows it at its last step, wherever it is now. late, which the
\* page does not know, says that customer or lines were changed while it was on its way.
QuoteArrives(f) ==
  LET asked == form[f].asked
  IN /\ Open(f) /\ asked # Null /\ asked.available # Null
     /\ OnlyForm(f, [form[f] EXCEPT
          !.asked = Null, !.step = "review",
          !.quote = [ cart |-> asked.cart, available |-> asked.available,
                      late |-> Goods(asked.cart) # Goods(form[f].cart) ]])

\* ... or it is refused, or lost.
QuoteFails(f) ==
  /\ Open(f) /\ form[f].asked # Null
  /\ OnlyForm(f, [form[f] EXCEPT !.asked = Null])

\* submitSale: always under the operation id of this form, with the values of the form, not
\* of the quote. reviewed is for the properties only.
Confirm(f, i) ==
  /\ form[f].step = "review" /\ form[f].quote.available
  /\ form[f].sent # "waiting"
  /\ slot[i] = Null
  /\ slot' = [slot EXCEPT ![i] =
       [ form |-> f, cart |-> form[f].cart, reviewed |-> form[f].quote, pc |-> "begin",
         attempt |-> 1, waited |-> TRUE, snapshot |-> Null, at |-> Null ]]
  /\ form' = [form EXCEPT ![f].sent = "waiting"]
  /\ UNCHANGED <<now, office, truck, sale, changes>>

Unawaited(f) ==
  [i \in Slots |-> IF slot[i] # Null /\ slot[i].form = f THEN [slot[i] EXCEPT !.waited = FALSE]
                   ELSE slot[i]]

\* apiRequest gives up, or the answer will be lost.
TimeOut(f) ==
  /\ Open(f) /\ form[f].sent = "waiting"
  /\ form' = [form EXCEPT ![f].sent = "idle"]
  /\ slot' = Unawaited(f)
  /\ UNCHANGED <<now, office, truck, sale, changes>>

\* The driver leaves the page; a new one is another form.
Leave(f) ==
  /\ Open(f)
  /\ form' = [form EXCEPT ![f] = [NewForm EXCEPT !.step = "left"]]
  /\ slot' = Unawaited(f)
  /\ UNCHANGED <<now, office, truck, sale, changes>>

-----------------------------------------------------------------------------
(* SaleService.confirm *)

At(i, step) == slot[i] # Null /\ slot[i].pc = step

SalesOf(f) == {n \in DOMAIN sale : sale[n].form = f}
Same(i, n) == slot[i].cart = sale[n].cart

\* A command ends, and its page gets the answer if it still waits: the ticket of sale n, or an
\* error. (An answer that is lost is one its page no longer waited for.)
Ends(i) == slot' = [slot EXCEPT ![i] = Null]

Ticket(i, n) ==
  /\ Ends(i)
  /\ form' = IF slot[i].waited
             THEN [form EXCEPT ![slot[i].form] = [NewForm EXCEPT !.step = "ticket", !.sale = n]]
             ELSE form

Refused(i, sent) ==
  /\ Ends(i)
  /\ form' = IF slot[i].waited THEN [form EXCEPT ![slot[i].form].sent = sent] ELSE form

\* A serialization failure or a deadlock: runSerializable starts again or gives up.
Fail(i) ==
  \/ /\ slot[i].attempt < MaxAttempts
     /\ slot' = [slot EXCEPT ![i].pc = "begin", ![i].attempt = @ + 1, ![i].snapshot = Null,
                             ![i].at = Null]
     /\ UNCHANGED form
  \/ slot[i].attempt = MaxAttempts /\ Refused(i, "idle")

\* The first statement of acquire takes the snapshot.
Begin(i) ==
  /\ At(i, "begin")
  /\ slot' = [slot EXCEPT ![i].pc = "claim", ![i].snapshot = Database, ![i].at = now]
  /\ UNCHANGED <<now, office, truck, sale, form, changes>>

\* The key of the form is claimed, when no other transaction has it; a key that was claimed
\* since the snapshot is a serialization failure, an older one gives its answer again, to the
\* same content only.
ClaimMutReplaysLatest(i) ==
  /\ At(i, "claim")
  /\ \A j \in Slots \ {i} : ~(At(j, "open") /\ slot[j].form = slot[i].form)
  /\ \/ SalesOf(slot[i].form) = {} /\ slot' = [slot EXCEPT ![i].pc = "open"] /\ UNCHANGED form
     \/ \E n \in SalesOf(slot[i].form) :
          IF n > slot[i].snapshot.sales THEN Fail(i)
          ELSE IF Same(i, n) THEN Ticket(i, Len(sale)) ELSE Refused(i, "conflict")
  /\ UNCHANGED <<now, office, truck, sale, changes>>

Claim(i) ==
  /\ At(i, "claim")
  /\ \A j \in Slots \ {i} : ~(At(j, "open") /\ slot[j].form = slot[i].form)
  /\ \/ SalesOf(slot[i].form) = {} /\ slot' = [slot EXCEPT ![i].pc = "open"] /\ UNCHANGED form
     \/ \E n \in SalesOf(slot[i].form) :
          IF n > slot[i].snapshot.sales THEN Fail(i)
          ELSE IF Same(i, n) THEN Ticket(i, n) ELSE Refused(i, "conflict")
  /\ UNCHANGED <<now, office, truck, sale, changes>>

\* The prices are those of the snapshot that are valid by the server's clock now.
NewSale(i) ==
  [ form |-> slot[i].form, cart |-> slot[i].cart,
    charge |-> Charges(slot[i].snapshot, slot[i].cart, now),
    status |-> "COMPLETED" ]

RouteLockedMutNot(i) == TRUE

\* The lock on the route is granted when no other transaction has changed its state since the
\* snapshot.
RouteLocked(i) ==
  UnderWay(slot[i].snapshot, slot[i].cart) = UnderWay(Database, slot[i].cart)

\* The rest of the transaction: the route is locked and checked, every line priced and taken
\* from the truck, and sale, movements and answer are committed together.
Finish(i) ==
  LET db == slot[i].snapshot
      lines == slot[i].cart.lines
  IN /\ At(i, "open")
     /\ RouteLocked(i)
     /\ IF Priceable(db, slot[i].cart) /\ Available(db, slot[i].cart)
        THEN /\ \A p \in Sold(slot[i].cart) : db.stock[p] = stock[p]
             /\ stock' = [p \in Products |-> stock[p] - lines[p]]
             /\ sale' = Append(sale, NewSale(i))
             /\ Ticket(i, Len(sale) + 1)
        ELSE /\ Refused(i, "idle")
             /\ UNCHANGED <<stock, sale>>
     /\ UNCHANGED <<now, office, route, out, changes>>

\* A statement fails because of a transaction that commits or runs beside this one.
Clash(i) ==
  /\ At(i, "open")
  /\ slot[i].snapshot # Database \/ \E j \in Slots \ {i} : At(j, "open")
  /\ Fail(i)
  /\ UNCHANGED <<now, office, truck, sale, changes>>

-----------------------------------------------------------------------------
(* The office, other sales, and time *)

Happens == changes < MaxChanges /\ changes' = changes + 1

\* CustomerPriceService; the exclusion constraint keeps active prices apart.
CreatePrice(x) ==
  /\ price[x] = "absent"
  /\ About[x].customer \in active /\ standard[About[x].product] # Null
  /\ \A y \in Prices : price[y] = "active" => Disjoint(x, y)
  /\ price' = [price EXCEPT ![x] = "active"]
  /\ UNCHANGED <<standard, active>>

DeactivatePrice(x) ==
  /\ price[x] = "active"
  /\ price' = [price EXCEPT ![x] = "inactive"]
  /\ UNCHANGED <<standard, active>>

\* CatalogService.updateProduct: another standard price, or the product is archived.
UpdateProduct(p, unit) ==
  /\ standard[p] # unit
  /\ standard' = [standard EXCEPT ![p] = unit]
  /\ UNCHANGED <<price, active>>

\* CustomerService.update archives and restores.
UpdateCustomer(c) ==
  /\ active' = IF c \in active THEN active \ {c} ELSE active \cup {c}
  /\ UNCHANGED <<price, standard>>

Administer ==
  /\ Happens
  /\ \/ \E x \in Prices : CreatePrice(x) \/ DeactivatePrice(x)
     \/ \E p \in Products, unit \in Standards \cup {Null} : UpdateProduct(p, unit)
     \/ \E c \in Customers : UpdateCustomer(c)
  /\ UNCHANGED <<now, truck, sale, form, slot>>

\* CancellationService: the goods go back on their truck while it is out, else to the branch.
\* The route is read without a lock: a transaction that began before the return may be
\* committed after it.
CancelSale(n) ==
  /\ Happens
  /\ sale[n].status = "COMPLETED"
  /\ sale' = [sale EXCEPT ![n].status = "CANCELLED"]
  /\ \/ /\ sale[n].cart.route = route
        /\ stock' = [p \in Products |-> stock[p] + sale[n].cart.lines[p]]
     \/ ~UnderWay(Database, sale[n].cart) /\ UNCHANGED stock
  /\ UNCHANGED <<now, office, route, out, form, slot>>

\* The truck comes back.
Return ==
  /\ Happens
  /\ out /\ out' = FALSE
  /\ UNCHANGED <<now, office, route, stock, sale, form, slot>>

\* The driver's next route, after that one was closed.
Depart ==
  /\ Happens
  /\ ~out /\ route < MaxRoutes
  /\ route' = route + 1 /\ stock' = Loaded /\ out' = TRUE
  /\ UNCHANGED <<now, office, sale, form, slot>>

\* A form that is not followed sells: its transaction as a whole, beside those in progress.
SellElsewhere(cart) ==
  /\ Happens
  /\ Priceable(Database, cart) /\ Available(Database, cart)
  /\ stock' = [p \in Products |-> stock[p] - cart.lines[p]]
  /\ sale' = Append(sale, [ form |-> Null, cart |-> cart, charge |-> Charges(Database, cart, now),
                            status |-> "COMPLETED" ])
  /\ UNCHANGED <<now, office, route, out, form, slot>>

Tick ==
  /\ Happens
  /\ now + 1 \in Times
  /\ now' = now + 1
  /\ UNCHANGED <<office, truck, sale, form, slot>>

-----------------------------------------------------------------------------
Init ==
  /\ now \in {t \in Times : \A u \in Times : t <= u}
  /\ price = [x \in Prices |-> IF x \in Stored THEN "active" ELSE "absent"]
  /\ standard \in [Products -> Standards]
  /\ active = Customers
  /\ route = 1
  /\ stock = Loaded
  /\ out = TRUE
  /\ sale = <<>>
  /\ form = [f \in Forms |-> NewForm]
  /\ slot = [i \in Slots |-> Null]
  /\ changes = 0

Drive(f) ==
  \/ Back(f) \/ Review(f) \/ Quote(f) \/ QuoteArrives(f) \/ QuoteFails(f)
  \/ \E cart \in Carts : Edit(f, cart)
  \/ \E r \in Routes : SwitchRoute(f, r)
  \/ \E i \in Slots : Confirm(f, i)
  \/ TimeOut(f) \/ Leave(f)

Serve(i) == Begin(i) \/ Claim(i) \/ Finish(i) \/ Clash(i)

Next ==
  \/ \E f \in Forms : Drive(f)
  \/ \E i \in Slots : Serve(i)
  \/ Administer \/ Return \/ Depart \/ Tick
  \/ \E cart \in Carts : SellElsewhere(cart)
  \/ \E n \in DOMAIN sale : CancelSale(n)

Spec == Init /\ [][Next]_vars

-----------------------------------------------------------------------------
(* Properties *)

Amounts == [source: Prices \cup {"STANDARD"}, unit: Nat] \cup {Null}
FormRecords ==
  [ step: Workflow \cup {"ticket", "left"}, cart: Carts \cup {Null}, quote: Quotes \cup {Null},
    asked: [cart: Carts, available: BOOLEAN \cup {Null}] \cup {Null},
    sent: {"idle", "waiting", "conflict"}, sale: Nat ]
Databases ==
  [ price: [Prices -> {"absent", "active", "inactive"}],
    standard: [Products -> Standards \cup {Null}], active: SUBSET Customers,
    route: Routes, stock: [Products -> Nat], out: BOOLEAN, sales: Nat ]
Commands ==
  [ form: Forms, cart: Carts, reviewed: Quotes,
    pc: {"begin", "claim", "open"}, attempt: 1..MaxAttempts,
    waited: BOOLEAN, snapshot: Databases \cup {Null}, at: Times \cup {Null} ]
Sales ==
  [ form: Forms \cup {Null}, cart: Carts, charge: [Products -> Amounts],
    status: {"COMPLETED", "CANCELLED"} ]

\* Type correctness; in particular the truck never owes goods, and what is at the last step
\* of a form has a quote.
TypeOK ==
  /\ now \in Times /\ changes \in 0..MaxChanges
  /\ Database \in Databases
  /\ sale \in Seq(Sales)
  /\ form \in [Forms -> FormRecords]
  /\ slot \in [Slots -> Commands \cup {Null}]
  /\ \A f \in Forms : form[f].step = "review" => form[f].quote # Null

\* However often a form is confirmed, with answers lost, its content changed and requests
\* overlapping, it makes one sale, its ticket is that sale's, and it is told of a conflict
\* only if it has sold something else.
OneSalePerForm ==
  \A f \in Forms :
    /\ \A m, n \in SalesOf(f) : m = n
    /\ form[f].step = "ticket" => form[f].sale \in SalesOf(f)
    /\ form[f].sent = "conflict" => SalesOf(f) # {}

Sells(i) == slot'[i] # slot[i] /\ Len(sale') > Len(sale)

\* The prices in force at a time, given the rows.
InForce(rows, c, p, t) ==
  { x \in Prices : /\ About[x].customer = c /\ About[x].product = p
                   /\ rows[x] = "active" /\ ValidAt(x, t) }

\* A special price that is in force all the while a sale is confirmed is charged, and while
\* no price begins or ends, what is charged was in force when the transaction began, in spite
\* of what administrators change meanwhile.
ChargesAreInForce ==
  [][ \A i \in Slots : Sells(i) =>
        \A p \in Sold(slot[i].cart) :
          LET db == slot[i].snapshot
              first == InForce(db.price, slot[i].cart.customer, p, slot[i].at)
              charged == Last(sale').charge[p]
          IN /\ \A x \in first \cap InForce(price, slot[i].cart.customer, p, now) :
                  charged.source = x
             /\ slot[i].at = now =>
                  IF first = {} THEN charged = [source |-> "STANDARD", unit |-> db.standard[p]]
                  ELSE charged.source \in first ]_vars

\* What is sold is what the driver reviewed, unless he changed the form while the quote was
\* on its way; from the truck he reviewed, unless the form took the next one by itself.
OnlyLateQuotesSurprise ==
  [][ \A i \in Slots : Sells(i) /\ ~slot[i].reviewed.late =>
        LET reviewed == slot[i].reviewed.cart
            sold == Last(sale').cart
        IN /\ Goods(sold) = Goods(reviewed)
           /\ sold.route # reviewed.route => reviewed.route < route ]_vars

\* Nothing is sold from a truck that is back, which its driver or the reconciliation counts: a
\* sale that was priced before the return is not committed after it.
NothingTakenFromReturned ==
  [][~out /\ UNCHANGED route => \A p \in Products : stock[p] <= stock'[p]]_vars
=============================================================================
