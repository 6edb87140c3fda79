---------------------------- MODULE SellingProofs ----------------------------
(***************************************************************************)
(* Types and the one sale of a form, for any forms, slots, products,       *)
(* prices, clocks and numbers of attempts and changes.                     *)
(***************************************************************************)
EXTENDS Selling, SequenceTheorems, TLAPS

\* Of the confirmations of a form, one at most holds the key, and only before the form's sale.
OneOpen ==
  \A i \in Slots :
    At(i, "open") =>
      /\ SalesOf(slot[i].form) = {}
      /\ \A j \in Slots : At(j, "open") /\ slot[j].form = slot[i].form => j = i

\* A cart of the goods that were reviewed, if not late, from the truck that was or a later one.
SameGoods(quote, cart) ==
  ~quote.late => Goods(cart) = Goods(quote.cart) /\ quote.cart.route <= cart.route

\* A quote is asked for and reviewed of a cart, and reviewed late or of the goods of the form.
FormHolds(record) ==
  /\ record.step = "review" \/ record.asked # Null => record.cart # Null
  /\ record.asked # Null => record.asked.cart.route <= record.cart.route
  /\ record.step = "review" => SameGoods(record.quote, record.cart)

FormsHold == \A f \in Forms : FormHolds(form[f])

\* Active prices of a customer and product are apart.
Apart(rows) ==
  \A x, y \in Prices : rows[x] = "active" /\ rows[y] = "active" /\ x # y => Disjoint(x, y)

\* A transaction that went on has its snapshot; a cart is the reviewed one, or late.
CommandHolds(command) ==
  /\ command.pc # "begin" => command.snapshot \in Databases /\ Apart(command.snapshot.price)
  /\ SameGoods(command.reviewed, command.cart)

CommandsHold == \A i \in Slots : slot[i] # Null => CommandHolds(slot[i])

IInv ==
  TypeOK /\ FormsHold /\ Apart(price) /\ CommandsHold /\ OneOpen /\ OneSalePerForm

\* TypeOK, by variable.
OfficeType ==
  /\ price \in [Prices -> {"absent", "active", "inactive"}]
  /\ standard \in [Products -> Standards \cup {Null}]
  /\ active \in SUBSET Customers
TruckType == route \in Routes /\ stock \in [Products -> Nat] /\ out \in BOOLEAN
SaleType == sale \in Seq(Sales)
FormType ==
  /\ form \in [Forms -> FormRecords]
  /\ \A f \in Forms : form[f].step = "review" => form[f].quote # Null
SlotType == slot \in [Slots -> Commands \cup {Null}]
ClockType == now \in Times /\ changes \in 0..MaxChanges

Types == OfficeType /\ TruckType /\ SaleType /\ FormType /\ SlotType /\ ClockType

-----------------------------------------------------------------------------
(* Types *)

\* Types is TypeOK, split by variable.
LEMMA ByVariable == (TypeOK <=> Types) /\ (TypeOK' <=> Types')
<1>1. (sale \in Seq(Sales) => Len(sale) \in Nat) /\ (sale' \in Seq(Sales) => Len(sale') \in Nat)
  BY LenProperties
<1>2. (TypeOK <=> Types)
  BY <1>1 DEF TypeOK, Types, OfficeType, TruckType, SaleType, FormType, SlotType, ClockType,
       Database, Databases
<1>3. (TypeOK' <=> Types')
  BY <1>1 DEF TypeOK, Types, OfficeType, TruckType, SaleType, FormType, SlotType, ClockType,
       Database, Databases
<1> QED
  BY <1>2, <1>3

\* What a transaction sees of the office's tables is a snapshot.
LEMMA DatabaseType == ASSUME Types PROVE Database \in Databases
  BY ByVariable DEF TypeOK

\* A confirmation being served is a command of a form and a cart.
LEMMA SlotRecord ==
  ASSUME Types, NEW i \in Slots, slot[i] # Null
  PROVE  slot[i] \in Commands /\ slot[i].form \in Forms /\ slot[i].cart \in Carts
  BY DEF Types, SlotType, Commands

\* A cart has a route, a customer and a quantity for each product.
LEMMA CartLines ==
  ASSUME NEW cart \in Carts
  PROVE  /\ cart.route \in Nat /\ cart.customer \in Customers
         /\ cart.lines \in [Products -> 0..MaxQty]
  BY DEF Carts, Routes

\* The sales of a form are indices of stored sales.
LEMMA SaleRecords ==
  ASSUME Types
  PROVE  /\ Len(sale) \in Nat /\ DOMAIN sale = 1..Len(sale)
         /\ \A n \in DOMAIN sale : sale[n] \in Sales
         /\ \A f : SalesOf(f) \subseteq Nat
  BY LenProperties, ElementOfSeq DEF Types, SaleType, SalesOf

\* A form opens empty.
LEMMA NewFormType == NewForm \in FormRecords
  BY DEF NewForm, FormRecords, Workflow

\* What is charged is a price.
LEMMA ChargesType ==
  ASSUME NEW db \in Databases, NEW cart \in Carts, NEW t, Priceable(db, cart)
  PROVE  Charges(db, cart, t) \in [Products -> Amounts]
<1> SUFFICES ASSUME NEW p \in Products, p \in Sold(cart)
             PROVE  Charge(db, cart.customer, p, t) \in Amounts
  BY DEF Charges, Amounts
<1> DEFINE special == Effective(db.price, cart.customer, p, t)
<1>1. CASE special # {}
  <2> DEFINE x == CHOOSE y \in special : TRUE
  <2>1. x \in Prices
    BY <1>1 DEF Effective
  <2>2. About[x].unit \in Nat
    BY <2>1, SellingAssumption
  <2>3. Charge(db, cart.customer, p, t) = [source |-> x, unit |-> About[x].unit]
    BY <1>1 DEF Charge
  <2> QED
    BY <2>1, <2>2, <2>3 DEF Amounts
<1>2. CASE special = {}
  <2>1. db.standard[p] \in Nat
    BY SellingAssumption DEF Priceable, Databases
  <2>2. Charge(db, cart.customer, p, t) = [source |-> "STANDARD", unit |-> db.standard[p]]
    BY <1>2 DEF Charge
  <2> QED
    BY <2>1, <2>2 DEF Amounts
<1> QED
  BY <1>1, <1>2

-----------------------------------------------------------------------------
(* Steps of the form *)

\* A step of the form alone keeps what it does not touch.
LEMMA OnlyFormStep ==
  ASSUME IInv, NEW f \in Forms, NEW new \in FormRecords, OnlyForm(f, new),
         new.step = "review" => new.quote # Null, FormHolds(new),
         new.step # "ticket", new.sent = form[f].sent
  PROVE  IInv'
<1>0. Types
  BY ByVariable DEF IInv
<1>1. \A g \in Forms : form'[g] = IF g = f THEN new ELSE form[g]
  BY <1>0 DEF OnlyForm, Types, FormType
<1>2. FormType'
  BY <1>0, <1>1 DEF OnlyForm, Types, FormType
<1>3. TypeOK'
  BY <1>0, <1>2, ByVariable DEF OnlyForm, Types, office, truck, OfficeType, TruckType, SaleType,
       SlotType, ClockType
<1>4. OneOpen'
  BY DEF IInv, OneOpen, OnlyForm, At, SalesOf
<1>5. OneSalePerForm'
  BY <1>1 DEF IInv, OneSalePerForm, OnlyForm, SalesOf
<1>6. FormsHold'
  BY <1>1 DEF IInv, FormsHold
<1> QED
  BY <1>3, <1>4, <1>5, <1>6 DEF IInv, OnlyForm, office, CommandsHold

\* What the inductive invariant says of one form.
LEMMA FormRecord ==
  ASSUME IInv, NEW f \in Forms
  PROVE  /\ Types
         /\ form[f] \in FormRecords
         /\ form[f].step = "review" => form[f].quote # Null
         /\ FormHolds(form[f])
  BY ByVariable DEF IInv, FormsHold, Types, FormType

\* Editing the cart, another route, going back and asking for the review keep the inductive
\* invariant.
LEMMA EditingSteps ==
  ASSUME IInv, NEW f \in Forms,
         \/ \E cart \in Carts : Edit(f, cart)
         \/ \E r \in Routes : SwitchRoute(f, r)
         \/ Back(f) \/ Review(f)
  PROVE  IInv'
<1>0. /\ form[f] \in FormRecords /\ FormHolds(form[f])
      /\ form[f].step = "review" => form[f].quote # Null
  BY FormRecord
<1>1. /\ form[f].asked # Null => form[f].asked.cart \in Carts
      /\ form[f].cart # Null => form[f].cart \in Carts
      /\ form[f].quote # Null => form[f].quote.cart \in Carts
  BY <1>0 DEF FormRecords, Quotes
<1>2. ASSUME NEW cart \in Carts, Edit(f, cart) PROVE IInv'
  <2> DEFINE new == [form[f] EXCEPT !.cart = cart]
  <2>1. /\ new \in FormRecords /\ new.step = "cart" /\ new.sent = form[f].sent
        /\ new.cart = cart /\ new.asked = form[f].asked
    BY <1>0, <1>2 DEF Edit, FormRecords
  <2>2. OnlyForm(f, new)
    BY <1>2 DEF Edit
  <2>3. cart # Null
    BY SellingAssumption
  <2>4. form[f].asked # Null => form[f].asked.cart.route <= cart.route
    BY <1>0, <1>2, <1>1, CartLines DEF Edit, Listed, FormHolds
  <2> HIDE DEF new
  <2> QED
    BY <2>1, <2>2, <2>3, <2>4, OnlyFormStep DEF FormHolds
<1>3. ASSUME NEW r \in Routes, SwitchRoute(f, r) PROVE IInv'
  <2> DEFINE old == form[f].cart
             cart == [old EXCEPT !.route = r]
             new == [form[f] EXCEPT !.cart = cart]
  <2>1. old \in Carts /\ old.route <= r
    BY <1>1, <1>3 DEF SwitchRoute, Listed
  <2>2. /\ cart \in Carts /\ cart.route = r
        /\ cart.customer = old.customer /\ cart.lines = old.lines
    BY <2>1 DEF Carts
  <2>3. cart # Null
    BY <2>2, SellingAssumption
  <2>4. new = [form[f] EXCEPT !.cart.route = r]
    BY <1>0 DEF FormRecords
  <2> HIDE DEF cart
  <2>5. /\ new \in FormRecords /\ new.step = form[f].step /\ new.sent = form[f].sent
        /\ new.cart = cart /\ new.asked = form[f].asked /\ new.quote = form[f].quote
    BY <1>0, <2>2 DEF FormRecords
  <2>6. OnlyForm(f, new)
    BY <1>3, <2>4 DEF SwitchRoute
  <2>7. form[f].step \in Workflow
    BY <1>3 DEF SwitchRoute, Open
  <2> HIDE DEF new
  <2>8. form[f].asked # Null => form[f].asked.cart.route <= r
    BY <1>0, <1>1, <2>1, CartLines DEF FormHolds, Routes
  <2>9. form[f].step = "review" => SameGoods(form[f].quote, cart)
    <3>1. Goods(cart) = Goods(old)
      BY <2>2 DEF Goods
    <3>2. form[f].step = "review" => SameGoods(form[f].quote, old)
      BY <1>0 DEF FormHolds
    <3> QED
      BY <1>0, <1>1, <2>1, <2>2, <3>1, <3>2, CartLines DEF SameGoods, Routes
  <2> QED
    BY <1>0, <2>2, <2>3, <2>5, <2>6, <2>7, <2>8, <2>9, OnlyFormStep DEF FormHolds, Workflow
<1>4. ASSUME Back(f) PROVE IInv'
  <2> DEFINE new == [form[f] EXCEPT !.step = "cart", !.quote = Null]
  <2>1. /\ new \in FormRecords /\ new.step = "cart" /\ new.sent = form[f].sent
        /\ new.cart = form[f].cart /\ new.asked = form[f].asked
    BY <1>0 DEF FormRecords, Workflow
  <2>2. OnlyForm(f, new)
    BY <1>4 DEF Back
  <2> HIDE DEF new
  <2> QED
    BY <1>0, <2>1, <2>2, OnlyFormStep DEF FormHolds
<1>5. ASSUME Review(f) PROVE IInv'
  <2> DEFINE new == [form[f] EXCEPT !.asked = [cart |-> form[f].cart, available |-> Null]]
  <2>1. /\ new \in FormRecords /\ new.step = "cart" /\ new.sent = form[f].sent
        /\ new.cart # Null /\ new.cart = form[f].cart /\ new.asked.cart = form[f].cart
    BY <1>0, <1>5 DEF Review, FormRecords
  <2>2. OnlyForm(f, new)
    BY <1>5 DEF Review
  <2>3. form[f].cart.route \in Nat
    BY <1>5, <1>1, CartLines DEF Review
  <2> HIDE DEF new
  <2> QED
    BY <2>1, <2>2, <2>3, OnlyFormStep DEF FormHolds
<1> QED
  BY <1>2, <1>4, <1>5, <1>3

\* Asking for a quote and its answer or failure keep the inductive invariant.
LEMMA QuoteSteps ==
  ASSUME IInv, NEW f \in Forms, Quote(f) \/ QuoteArrives(f) \/ QuoteFails(f)
  PROVE  IInv'
<1> DEFINE asked == form[f].asked
<1>0. /\ form[f] \in FormRecords
      /\ form[f].step = "review" => form[f].quote # Null
      /\ FormHolds(form[f])
  BY FormRecord
<1>1. /\ asked \in [cart: Carts, available: BOOLEAN \cup {Null}]
      /\ form[f].step \in Workflow /\ form[f].cart # Null
  BY <1>0 DEF Quote, QuoteArrives, QuoteFails, Open, FormRecords, FormHolds
<1>2. ASSUME Quote(f) PROVE IInv'
  <2> DEFINE answer == Available(Database, asked.cart)
             new == [form[f] EXCEPT !.asked.available = answer]
  <2>1. answer \in BOOLEAN
    BY DEF Available
  <2>2. [asked EXCEPT !.available = answer] \in [cart: Carts, available: BOOLEAN \cup {Null}]
    BY <1>1, <2>1
  <2>3. new = [form[f] EXCEPT !.asked = [asked EXCEPT !.available = answer]]
    BY <1>0 DEF FormRecords
  <2>4. /\ new \in FormRecords /\ new.step = form[f].step /\ new.sent = form[f].sent
        /\ new.quote = form[f].quote /\ new.cart = form[f].cart
        /\ new.asked.cart = asked.cart
    BY <1>0, <1>1, <2>2, <2>3 DEF FormRecords
  <2>5. OnlyForm(f, new)
    BY <1>2 DEF Quote
  <2> HIDE DEF new
  <2> QED
    BY <1>0, <1>1, <1>2, <2>4, <2>5, OnlyFormStep DEF Quote, Workflow, FormHolds
<1>3. ASSUME QuoteArrives(f) PROVE IInv'
  <2> DEFINE late == Goods(asked.cart) # Goods(form[f].cart)
             quote == [cart |-> asked.cart, available |-> asked.available, late |-> late]
             new == [form[f] EXCEPT !.asked = Null, !.step = "review", !.quote = quote]
  <2>1. asked.available \in BOOLEAN /\ asked.cart \in Carts
    BY <1>1, <1>3 DEF QuoteArrives
  <2>2. OnlyForm(f, new)
    BY <1>3 DEF QuoteArrives
  <2>3. late \in BOOLEAN
    OBVIOUS
  <2>4. /\ ~late => Goods(asked.cart) = Goods(form[f].cart)
        /\ asked.cart.route <= form[f].cart.route
    BY <1>0, <1>3 DEF QuoteArrives, FormHolds
  <2> HIDE DEF late
  <2>5. quote \in Quotes /\ SameGoods(quote, form[f].cart)
    BY <2>1, <2>3, <2>4 DEF Quotes, SameGoods
  <2>6. quote # Null
    BY <2>5, SellingAssumption
  <2> HIDE DEF quote
  <2>7. /\ new \in FormRecords /\ new.step = "review" /\ new.sent = form[f].sent
        /\ new.quote = quote /\ new.cart = form[f].cart /\ new.asked = Null
    BY <1>0, <2>5 DEF FormRecords, Workflow
  <2> HIDE DEF new
  <2> QED
    BY <1>1, <2>2, <2>5, <2>6, <2>7, OnlyFormStep DEF FormHolds
<1>4. ASSUME QuoteFails(f) PROVE IInv'
  <2> DEFINE new == [form[f] EXCEPT !.asked = Null]
  <2>1. /\ new \in FormRecords /\ new.step = form[f].step /\ new.sent = form[f].sent
        /\ new.quote = form[f].quote /\ new.cart = form[f].cart /\ new.asked = Null
    BY <1>0 DEF FormRecords
  <2>2. OnlyForm(f, new)
    BY <1>4 DEF QuoteFails
  <2> HIDE DEF new
  <2> QED
    BY <1>0, <1>1, <2>1, <2>2, OnlyFormStep DEF Workflow, FormHolds
<1> QED
  BY <1>2, <1>3, <1>4

\* The driver sends his request.
LEMMA ConfirmStep ==
  ASSUME IInv, NEW f \in Forms, NEW i \in Slots, Confirm(f, i)
  PROVE  IInv'
<1> DEFINE command ==
             [ form |-> f, cart |-> form[f].cart, reviewed |-> form[f].quote, pc |-> "begin",
               attempt |-> 1, waited |-> TRUE, snapshot |-> Null, at |-> Null ]
           new == [form[f] EXCEPT !.sent = "waiting"]
<1>0. /\ Types
      /\ form[f] \in FormRecords
      /\ form[f].step = "review" => form[f].quote # Null
      /\ FormHolds(form[f])
  BY FormRecord
<1>1. form[f].cart \in Carts /\ form[f].quote \in Quotes /\ form[f].step = "review"
  BY <1>0 DEF Confirm, FormHolds, FormRecords
<1>2. 1 \in 1..MaxAttempts
  BY SellingAssumption
<1>3. /\ command \in Commands /\ command.pc = "begin"
      /\ command.cart = form[f].cart /\ command.reviewed = form[f].quote
  BY <1>1, <1>2 DEF Commands
<1>4. /\ new \in FormRecords /\ new.step = "review" /\ new.quote = form[f].quote
      /\ new.cart = form[f].cart /\ new.sent = "waiting" /\ new.asked = form[f].asked
  BY <1>0, <1>1 DEF FormRecords
<1>5. /\ slot' = [slot EXCEPT ![i] = command] /\ form' = [form EXCEPT ![f] = new]
      /\ UNCHANGED <<now, office, truck, sale, changes>>
  BY DEF Confirm
<1> HIDE DEF command, new
<1>6. \A j \in Slots : slot'[j] = IF j = i THEN command ELSE slot[j]
  BY <1>0, <1>5 DEF Types, SlotType
<1>7. \A g \in Forms : form'[g] = IF g = f THEN new ELSE form[g]
  BY <1>0, <1>5 DEF Types, FormType
<1>8. FormType' /\ SlotType'
  BY <1>0, <1>1, <1>3, <1>4, <1>5, <1>7 DEF Types, FormType, SlotType
<1>9. TypeOK'
  BY <1>0, <1>5, <1>8, ByVariable DEF Types, office, truck, OfficeType, TruckType, SaleType, ClockType
<1>10. OneOpen'
  BY <1>3, <1>5, <1>6 DEF IInv, OneOpen, At, SalesOf
<1>11. OneSalePerForm'
  BY <1>4, <1>5, <1>7 DEF IInv, OneSalePerForm, SalesOf
<1>12. FormsHold'
  BY <1>0, <1>1, <1>4, <1>7 DEF IInv, FormsHold, FormHolds
<1>13. CommandsHold'
  BY <1>0, <1>1, <1>3, <1>6 DEF FormHolds, IInv, CommandsHold, CommandHolds
<1> QED
  BY <1>5, <1>9, <1>10, <1>11, <1>12, <1>13 DEF IInv, office

\* Nobody waits for the confirmations of a form any more.
LEMMA UnawaitedType ==
  ASSUME Types, NEW f \in Forms
  PROVE  /\ Unawaited(f) \in [Slots -> Commands \cup {Null}]
         /\ \A i \in Slots : /\ slot[i] = Null => Unawaited(f)[i] = Null
                             /\ slot[i] # Null => /\ Unawaited(f)[i].form = slot[i].form
                                                  /\ Unawaited(f)[i].pc = slot[i].pc
                                                  /\ Unawaited(f)[i].snapshot = slot[i].snapshot
                                                  /\ Unawaited(f)[i].cart = slot[i].cart
                                                  /\ Unawaited(f)[i].reviewed = slot[i].reviewed
<1> SUFFICES ASSUME NEW i \in Slots
             PROVE  /\ Unawaited(f)[i] \in Commands \cup {Null}
                    /\ slot[i] = Null => Unawaited(f)[i] = Null
                    /\ slot[i] # Null => /\ Unawaited(f)[i].form = slot[i].form
                                         /\ Unawaited(f)[i].pc = slot[i].pc
                                         /\ Unawaited(f)[i].snapshot = slot[i].snapshot
                                         /\ Unawaited(f)[i].cart = slot[i].cart
                                         /\ Unawaited(f)[i].reviewed = slot[i].reviewed
  BY DEF Unawaited
<1>1. CASE slot[i] # Null /\ slot[i].form = f
  <2>1. Unawaited(f)[i] = [slot[i] EXCEPT !.waited = FALSE]
    BY <1>1 DEF Unawaited
  <2>2. slot[i] \in Commands
    BY <1>1, SlotRecord
  <2>3. [slot[i] EXCEPT !.waited = FALSE] \in Commands
    BY <2>2 DEF Commands
  <2> QED
    BY <1>1, <2>1, <2>2, <2>3 DEF Commands
<1>2. CASE ~(slot[i] # Null /\ slot[i].form = f)
  BY <1>2 DEF Unawaited, Types, SlotType
<1> QED
  BY <1>1, <1>2

\* A timeout and a page left end the waiting, not the command, and keep the inductive invariant.
LEMMA LeavingSteps ==
  ASSUME IInv, NEW f \in Forms, TimeOut(f) \/ Leave(f)
  PROVE  IInv'
<1>0. /\ Types /\ form[f] \in FormRecords /\ FormHolds(form[f])
      /\ form[f].step = "review" => form[f].quote # Null
  BY FormRecord
<1>1. PICK new \in FormRecords :
        /\ form' = [form EXCEPT ![f] = new]
        /\ new.step = "review" => new.quote # Null
        /\ FormHolds(new) /\ new.step # "ticket" /\ new.sent = "idle"
  <2>1. CASE TimeOut(f)
    <3> DEFINE new == [form[f] EXCEPT !.sent = "idle"]
    <3>1. /\ new \in FormRecords /\ new.step = form[f].step /\ new.quote = form[f].quote
          /\ new.cart = form[f].cart /\ new.asked = form[f].asked /\ new.sent = "idle"
      BY <1>0 DEF FormRecords
    <3>2. form' = [form EXCEPT ![f] = new] /\ form[f].step \in Workflow
      BY <2>1 DEF TimeOut, Open
    <3> HIDE DEF new
    <3> QED
      BY <1>0, <3>1, <3>2 DEF Workflow, FormHolds
  <2>2. CASE Leave(f)
    <3> DEFINE new == [NewForm EXCEPT !.step = "left"]
    <3>1. /\ new \in FormRecords /\ new.step = "left" /\ new.asked = Null /\ new.sent = "idle"
      BY DEF NewForm, FormRecords, Workflow
    <3>2. form' = [form EXCEPT ![f] = new]
      BY <2>2 DEF Leave
    <3> HIDE DEF new
    <3> QED
      BY <3>1, <3>2 DEF FormHolds
  <2> QED
    BY <2>1, <2>2
<1>2. slot' = Unawaited(f) /\ UNCHANGED <<now, office, truck, sale, changes>>
  BY DEF TimeOut, Leave
<1>3. \A g \in Forms : form'[g] = IF g = f THEN new ELSE form[g]
  BY <1>0, <1>1 DEF Types, FormType
<1>4. FormType' /\ SlotType'
  BY <1>0, <1>1, <1>2, <1>3, UnawaitedType DEF Types, FormType, SlotType
<1>5. TypeOK'
  BY <1>0, <1>2, <1>4, ByVariable DEF Types, office, truck, OfficeType, TruckType, SaleType, ClockType
<1>6. OneOpen'
  <2>1. \A i \in Slots : At(i, "open")' => At(i, "open") /\ slot'[i].form = slot[i].form
    BY <1>0, <1>2, UnawaitedType DEF At
  <2> QED
    BY <1>2, <2>1 DEF IInv, OneOpen, SalesOf
<1>7. OneSalePerForm'
  BY <1>1, <1>2, <1>3 DEF IInv, OneSalePerForm, SalesOf
<1>8. FormsHold'
  BY <1>1, <1>3 DEF IInv, FormsHold
<1>9. CommandsHold'
  BY <1>0, <1>2, UnawaitedType DEF IInv, CommandsHold, CommandHolds
<1> QED
  BY <1>2, <1>5, <1>6, <1>7, <1>8, <1>9 DEF IInv, office

-----------------------------------------------------------------------------
(* Steps of a confirmation *)

\* What the forms are told is true.
Told ==
  /\ FormType' /\ FormsHold'
  /\ \A f \in Forms :
       /\ form'[f].step = "ticket" => form'[f].sale \in SalesOf(f)'
       /\ form'[f].sent = "conflict" => SalesOf(f)' # {}

\* A ticket names a sale of the form it is shown on.
LEMMA TicketTells ==
  ASSUME IInv, NEW i \in Slots, slot[i] # Null, NEW n \in Nat, Ticket(i, n),
         NEW f \in Forms, slot[i].form = f, n \in SalesOf(f)',
         \A g \in Forms : SalesOf(g) \subseteq SalesOf(g)'
  PROVE  Told
<1> DEFINE new == [NewForm EXCEPT !.step = "ticket", !.sale = n]
<1>0. Types
  BY ByVariable DEF IInv
<1>1. new \in FormRecords /\ new.step = "ticket" /\ new.asked = Null /\ new.sent = "idle"
      /\ new.sale = n
  BY DEF NewForm, FormRecords, Workflow
<1>2. form' = [form EXCEPT ![f] = new] \/ form' = form
  BY DEF Ticket
<1> HIDE DEF new
<1>3. \A g \in Forms : form'[g] = form[g] \/ (g = f /\ form'[g] = new)
  BY <1>0, <1>2 DEF Types, FormType
<1>4. FormType'
  BY <1>0, <1>1, <1>2, <1>3 DEF Types, FormType
<1>5. FormsHold'
  BY <1>1, <1>3 DEF IInv, FormsHold, FormHolds
<1>6. ASSUME NEW g \in Forms
      PROVE  /\ form'[g].step = "ticket" => form'[g].sale \in SalesOf(g)'
             /\ form'[g].sent = "conflict" => SalesOf(g)' # {}
  BY <1>1, <1>3 DEF IInv, OneSalePerForm
<1> QED
  BY <1>4, <1>5, <1>6 DEF Told

\* A refusal tells the truth: a conflict is answered only when the form has sold.
LEMMA RefusedTells ==
  ASSUME IInv, NEW i \in Slots, slot[i] # Null, NEW sent \in {"idle", "conflict"},
         Refused(i, sent), NEW f \in Forms, slot[i].form = f,
         sent = "conflict" => SalesOf(f)' # {},
         \A g \in Forms : SalesOf(g) \subseteq SalesOf(g)'
  PROVE  Told
<1> DEFINE new == [form[f] EXCEPT !.sent = sent]
<1>0. Types
  BY ByVariable DEF IInv
<1>1. /\ new \in FormRecords /\ new.step = form[f].step /\ new.quote = form[f].quote
      /\ new.cart = form[f].cart /\ new.asked = form[f].asked /\ new.sent = sent
      /\ new.sale = form[f].sale
  BY FormRecord DEF FormRecords
<1>2. form' = [form EXCEPT ![f] = new] \/ form' = form
  BY DEF Refused
<1> HIDE DEF new
<1>3. \A g \in Forms : form'[g] = form[g] \/ (g = f /\ form'[g] = new)
  BY <1>0, <1>2 DEF Types, FormType
<1>4. FormType'
  BY <1>0, <1>1, <1>2, <1>3 DEF Types, FormType
<1>5. FormsHold'
  BY <1>1, <1>3 DEF IInv, FormsHold, FormHolds
<1>6. ASSUME NEW g \in Forms
      PROVE  /\ form'[g].step = "ticket" => form'[g].sale \in SalesOf(g)'
             /\ form'[g].sent = "conflict" => SalesOf(g)' # {}
  BY <1>1, <1>3 DEF IInv, OneSalePerForm
<1> QED
  BY <1>4, <1>5, <1>6 DEF Told

\* A confirmation that does not come to hold the key, and sells nothing.
LEMMA SlotStep ==
  ASSUME IInv, Told, NEW i \in Slots, NEW command \in Commands \cup {Null},
         command # Null => command.pc # "open" /\ CommandHolds(command),
         slot' = [slot EXCEPT ![i] = command],
         UNCHANGED <<now, office, truck, sale, changes>>
  PROVE  IInv'
<1>0. Types
  BY ByVariable DEF IInv
<1>1. \A j \in Slots : slot'[j] = IF j = i THEN command ELSE slot[j]
  BY <1>0 DEF Types, SlotType
<1>2. SlotType'
  BY <1>0 DEF Types, SlotType
<1>3. TypeOK'
  BY <1>0, <1>2, ByVariable DEF Told, Types, office, truck, OfficeType, TruckType, SaleType, ClockType
<1>4. OneOpen'
  BY <1>1 DEF IInv, OneOpen, At, SalesOf
<1>5. OneSalePerForm'
  BY DEF Told, IInv, OneSalePerForm, SalesOf
<1>6. CommandsHold'
  BY <1>1 DEF IInv, CommandsHold
<1> QED
  BY <1>3, <1>4, <1>5, <1>6 DEF IInv, Told, office

\* What was told stays true while forms and sales are unchanged.
LEMMA StillTold ==
  ASSUME IInv, UNCHANGED <<form, sale>>
  PROVE  Told
<1>1. FormType
  BY ByVariable DEF IInv, Types
<1> QED
  BY <1>1 DEF Told, IInv, FormType, FormsHold, OneSalePerForm, SalesOf

\* A confirmation that fails or is tried again changes no table.
LEMMA FailStep ==
  ASSUME IInv, NEW i \in Slots, slot[i] # Null, Fail(i),
         UNCHANGED <<now, office, truck, sale, changes>>
  PROVE  IInv'
<1>0. Types /\ slot[i] \in Commands /\ slot[i].form \in Forms /\ CommandHolds(slot[i])
  BY ByVariable, SlotRecord DEF IInv, CommandsHold
<1>1. CASE /\ slot[i].attempt < MaxAttempts
           /\ slot' = [slot EXCEPT ![i].pc = "begin", ![i].attempt = @ + 1, ![i].snapshot = Null,
                                   ![i].at = Null]
           /\ UNCHANGED form
  <2> DEFINE command == [slot[i] EXCEPT !.pc = "begin", !.attempt = @ + 1, !.snapshot = Null,
                                        !.at = Null]
  <2>1. slot[i].attempt + 1 \in 1..MaxAttempts
    BY <1>0, <1>1, SellingAssumption DEF Commands
  <2>2. /\ command \in Commands /\ command.pc = "begin"
        /\ command.cart = slot[i].cart /\ command.reviewed = slot[i].reviewed
    BY <1>0, <2>1 DEF Commands
  <2>3. slot' = [slot EXCEPT ![i] = command]
    BY <1>1
  <2> HIDE DEF command
  <2> QED
    BY <1>0, <1>1, <2>2, <2>3, StillTold, SlotStep DEF CommandHolds
<1>2. CASE Refused(i, "idle")
  <2>1. \A g \in Forms : SalesOf(g) \subseteq SalesOf(g)'
    BY DEF SalesOf
  <2>2. Told
    BY <1>0, <1>2, <2>1, RefusedTells
  <2> QED
    BY <1>2, <2>2, SlotStep DEF Refused, Ends
<1> QED
  BY <1>1, <1>2 DEF Fail

\* A confirmation takes its snapshot.
LEMMA BeginStep ==
  ASSUME IInv, NEW i \in Slots, Begin(i)
  PROVE  IInv'
<1> DEFINE command == [slot[i] EXCEPT !.pc = "claim", !.snapshot = Database, !.at = now]
<1>0. Types /\ slot[i] \in Commands /\ CommandHolds(slot[i]) /\ Apart(price)
  BY ByVariable, SlotRecord DEF IInv, CommandsHold, Begin, At
<1>1. /\ command \in Commands /\ command.pc = "claim" /\ command.snapshot = Database
      /\ command.cart = slot[i].cart /\ command.reviewed = slot[i].reviewed
  BY <1>0, DatabaseType DEF Commands, Types, ClockType
<1>2. Database \in Databases /\ Database.price = price
  BY <1>0, DatabaseType DEF Database
<1>3. slot' = [slot EXCEPT ![i] = command]
  BY DEF Begin
<1> HIDE DEF command
<1> QED
  BY <1>0, <1>1, <1>2, <1>3, StillTold, SlotStep DEF Begin, CommandHolds

\* acquire: the key of a form goes to one confirmation, or is found used.
LEMMA ClaimStep ==
  ASSUME IInv, NEW i \in Slots, Claim(i)
  PROVE  IInv'
<1>0. PICK f \in Forms : Types /\ slot[i] # Null /\ slot[i] \in Commands /\ slot[i].form = f
  BY ByVariable, SlotRecord DEF IInv, Claim, At
<1>1. CASE SalesOf(f) = {} /\ slot' = [slot EXCEPT ![i].pc = "open"] /\ UNCHANGED form
  <2> DEFINE command == [slot[i] EXCEPT !.pc = "open"]
  <2>1. /\ command \in Commands /\ command.form = f
        /\ command.snapshot = slot[i].snapshot /\ slot[i].pc = "claim"
        /\ command.cart = slot[i].cart /\ command.reviewed = slot[i].reviewed
    BY <1>0 DEF Commands, Claim, At
  <2>2. slot' = [slot EXCEPT ![i] = command]
    BY <1>1
  <2> HIDE DEF command
  <2>3. \A j \in Slots : slot'[j] = IF j = i THEN command ELSE slot[j]
    BY <1>0, <2>2 DEF Types, SlotType
  <2>4. TypeOK'
    BY <1>0, <1>1, <2>1, <2>2, ByVariable
       DEF Claim, Types, office, truck, OfficeType, TruckType, SaleType, ClockType, SlotType, FormType
  <2>5. OneOpen'
    <3>1. \A j \in Slots \ {i} : ~(At(j, "open") /\ slot[j].form = f)
      BY <1>0 DEF Claim
    <3>2. \A j \in Slots \ {i} : At(j, "open")' => At(j, "open") /\ slot'[j].form = slot[j].form
      BY <2>3 DEF At
    <3>3. \A g : SalesOf(g)' = SalesOf(g)
      BY DEF Claim, SalesOf
    <3>4. slot'[i].form = f
      BY <2>1, <2>3
    <3> QED
      BY <1>1, <3>1, <3>2, <3>3, <3>4 DEF IInv, OneOpen
  <2>6. CommandsHold'
    BY <1>0, <2>1, <2>3 DEF IInv, CommandsHold, CommandHolds
  <2> QED
    BY <1>1, <2>4, <2>5, <2>6 DEF Claim, IInv, office, FormsHold, OneSalePerForm, SalesOf
<1>2. ASSUME NEW n \in SalesOf(f),
             Fail(i) \/ Ticket(i, n) \/ Refused(i, "conflict")
      PROVE  IInv'
  <2>1. UNCHANGED <<now, office, truck, sale, changes>>
    BY DEF Claim
  <2>2. n \in Nat
    BY <1>0, SaleRecords
  <2>3. n \in SalesOf(f)' /\ \A g \in Forms : SalesOf(g) \subseteq SalesOf(g)'
    BY <2>1 DEF SalesOf
  <2>4. CASE Fail(i)
    BY <1>0, <2>1, <2>4, FailStep
  <2>5. CASE Ticket(i, n)
    <3>1. Told
      BY <1>0, <2>2, <2>3, <2>5, TicketTells
    <3> QED
      BY <2>1, <2>5, <3>1, SlotStep DEF Ticket, Ends
  <2>6. CASE Refused(i, "conflict")
    <3>1. Told
      BY <1>0, <2>3, <2>6, RefusedTells
    <3> QED
      BY <2>1, <2>6, <3>1, SlotStep DEF Refused, Ends
  <2> QED
    BY <1>2, <2>4, <2>5, <2>6
<1> QED
  BY <1>0, <1>1, <1>2 DEF Claim

\* A transaction whose rows were changed since its snapshot fails.
LEMMA ClashStep ==
  ASSUME IInv, NEW i \in Slots, Clash(i)
  PROVE  IInv'
  BY FailStep DEF Clash, At

\* A sale is added.
LEMMA AppendSale ==
  ASSUME Types, NEW new \in Sales, sale' = Append(sale, new)
  PROVE  /\ SaleType'
         /\ \A f : SalesOf(f)' = SalesOf(f) \cup (IF new.form = f THEN {Len(sale) + 1} ELSE {})
<1>1. /\ Len(sale) \in Nat /\ DOMAIN sale = 1..Len(sale)
      /\ sale' \in Seq(Sales) /\ Len(sale') = Len(sale) + 1
      /\ \A n \in 1..Len(sale) : sale'[n] = sale[n]
      /\ sale'[Len(sale) + 1] = new
  BY AppendProperties, LenProperties DEF Types, SaleType
<1>2. DOMAIN sale' = 1..(Len(sale) + 1)
  BY <1>1, LenProperties
<1> QED
  BY <1>1, <1>2 DEF SaleType, SalesOf

\* The sale is stored, the first of its form, of goods the truck holds.
LEMMA FinishStep ==
  ASSUME IInv, NEW i \in Slots, Finish(i)
  PROVE  IInv'
<1> DEFINE db == slot[i].snapshot
           cart == slot[i].cart
<1>0. PICK f \in Forms :
        /\ Types /\ slot[i] # Null /\ slot[i] \in Commands /\ slot[i].form = f
        /\ cart \in Carts /\ db \in Databases /\ At(i, "open")
  BY ByVariable, SlotRecord DEF IInv, Finish, At, CommandsHold, CommandHolds
<1>1. CASE /\ Priceable(db, cart) /\ Available(db, cart)
           /\ \A p \in Sold(cart) : db.stock[p] = stock[p]
           /\ stock' = [p \in Products |-> stock[p] - cart.lines[p]]
           /\ sale' = Append(sale, NewSale(i))
           /\ Ticket(i, Len(sale) + 1)
  <2>1. NewSale(i) \in Sales /\ NewSale(i).form = f
    <3>1. Charges(db, cart, now) \in [Products -> Amounts]
      BY <1>0, <1>1, ChargesType
    <3> QED
      BY <1>0, <3>1 DEF NewSale, Sales
  <2>2. /\ SaleType'
        /\ \A g : SalesOf(g)' = SalesOf(g) \cup (IF f = g THEN {Len(sale) + 1} ELSE {})
    BY <1>0, <1>1, <2>1, AppendSale
  <2>3. TruckType'
    <3>1. ASSUME NEW p \in Products PROVE stock[p] - cart.lines[p] \in Nat
      <4>1. stock[p] \in Nat /\ cart.lines[p] \in Nat
        BY <1>0, CartLines, SellingAssumption DEF Types, TruckType
      <4>2. cart.lines[p] <= db.stock[p]
        BY <1>1 DEF Available
      <4>3. cart.lines[p] > 0 => db.stock[p] = stock[p]
        BY <1>1 DEF Sold
      <4> QED
        BY <4>1, <4>2, <4>3
    <3> QED
      BY <1>0, <1>1, <3>1 DEF Finish, Types, TruckType
  <2>4. Len(sale) + 1 \in Nat /\ Len(sale) + 1 \in SalesOf(f)'
    BY <1>0, <2>2, SaleRecords
  <2>5. \A g \in Forms : SalesOf(g) \subseteq SalesOf(g)'
    BY <2>2
  <2>6. Told
    BY <1>0, <1>1, <2>4, <2>5, TicketTells
  <2>7. slot' = [slot EXCEPT ![i] = Null]
    BY <1>1 DEF Ticket, Ends
  <2>8. \A j \in Slots : slot'[j] = IF j = i THEN Null ELSE slot[j]
    BY <1>0, <2>7 DEF Types, SlotType
  <2>9. SlotType'
    BY <1>0, <2>7 DEF Types, SlotType
  <2>10. TypeOK'
    BY <1>0, <2>2, <2>3, <2>6, <2>9, ByVariable
       DEF Finish, Told, Types, office, OfficeType, ClockType
  <2>11. CommandsHold'
    BY <2>8 DEF IInv, CommandsHold
  <2>12. OneOpen'
    <3>1. ASSUME NEW j \in Slots, At(j, "open")'
          PROVE  j # i /\ At(j, "open") /\ slot'[j] = slot[j] /\ slot[j].form # f
      BY <1>0, <2>8, <3>1 DEF At, IInv, OneOpen
    <3> QED
      BY <2>2, <3>1 DEF IInv, OneOpen
  <2>13. OneSalePerForm'
    <3>1. SalesOf(f) = {}
      BY <1>0 DEF IInv, OneOpen
    <3> QED
      BY <2>2, <2>6, <3>1 DEF IInv, OneSalePerForm, Told
  <2> QED
    BY <2>6, <2>10, <2>11, <2>12, <2>13 DEF Finish, office, IInv, Told
<1>2. CASE Refused(i, "idle") /\ UNCHANGED <<stock, sale>>
  <2>1. \A g \in Forms : SalesOf(g) \subseteq SalesOf(g)'
    BY <1>2 DEF SalesOf
  <2>2. Told
    BY <1>0, <1>2, <2>1, RefusedTells
  <2> QED
    BY <1>2, <2>2, SlotStep DEF Finish, Refused, Ends, truck
<1> QED
  BY <1>0, <1>1, <1>2 DEF Finish

-----------------------------------------------------------------------------
(* What happens beside the forms *)

\* Counting up to a bound stays within it.
LEMMA CountType == ASSUME Types, Happens PROVE changes' \in 0..MaxChanges
  BY SellingAssumption DEF Types, ClockType, Happens

\* Forms and confirmations do not notice.
LEMMA AsideStep ==
  ASSUME IInv, UNCHANGED <<form, slot>>,
         OfficeType', TruckType', SaleType', ClockType',
         Apart(price)', \A f \in Forms : SalesOf(f)' = SalesOf(f)
  PROVE  IInv'
<1>0. Types
  BY ByVariable DEF IInv
<1>1. TypeOK'
  BY <1>0, ByVariable DEF Types, FormType, SlotType
<1>2. OneOpen'
  <2>1. \A i \in Slots : At(i, "open") => slot[i].form \in Forms
    BY <1>0, SlotRecord DEF At
  <2> QED
    BY <2>1 DEF IInv, OneOpen, At
<1>3. OneSalePerForm'
  BY DEF IInv, OneSalePerForm
<1> QED
  BY <1>1, <1>2, <1>3 DEF IInv, FormsHold, CommandsHold

\* Administrators, the truck's return, the next departure and the clock keep the inductive
\* invariant.
LEMMA OfficeSteps ==
  ASSUME IInv, Administer \/ Return \/ Depart \/ Tick
  PROVE  IInv'
<1>0. Types
  BY ByVariable DEF IInv
<1>1. /\ UNCHANGED <<form, slot, sale>> /\ Happens
      /\ \A f \in Forms : SalesOf(f)' = SalesOf(f)
  BY DEF Administer, Return, Depart, Tick, SalesOf
<1>2. changes' \in 0..MaxChanges /\ SaleType'
  BY <1>0, <1>1, CountType DEF Types, SaleType
<1>3. CASE Administer
  <2>0. Apart(price)
    BY DEF IInv
  <2>1. ASSUME NEW x \in Prices, CreatePrice(x) \/ DeactivatePrice(x)
        PROVE  OfficeType' /\ Apart(price)'
    <3>1. OfficeType'
      BY <1>0, <2>1 DEF CreatePrice, DeactivatePrice, Types, OfficeType
    <3>2. \A y \in Prices : Disjoint(x, y) => Disjoint(y, x)
      BY DEF Disjoint
    <3>3. \A y \in Prices : price'[y] = "active" =>
            \/ price[y] = "active"
            \/ y = x /\ \A z \in Prices : price[z] = "active" => Disjoint(x, z)
      BY <1>0, <2>1 DEF CreatePrice, DeactivatePrice, Types, OfficeType
    <3> QED
      BY <2>0, <3>1, <3>2, <3>3 DEF Apart
  <2>2. ASSUME NEW p \in Products, NEW unit \in Standards \cup {Null}, UpdateProduct(p, unit)
        PROVE  OfficeType' /\ Apart(price)'
    BY <1>0, <2>0, <2>2 DEF UpdateProduct, Types, OfficeType, Apart
  <2>3. ASSUME NEW c \in Customers, UpdateCustomer(c)
        PROVE  OfficeType' /\ Apart(price)'
    BY <1>0, <2>0, <2>3 DEF UpdateCustomer, Types, OfficeType, Apart
  <2>4. OfficeType' /\ Apart(price)'
    BY <1>3, <2>1, <2>2, <2>3 DEF Administer
  <2>5. TruckType' /\ ClockType'
    BY <1>0, <1>2, <1>3 DEF Administer, truck, Types, TruckType, ClockType
  <2> QED
    BY <1>1, <1>2, <2>4, <2>5, AsideStep
<1>4. CASE Return
  <2>1. OfficeType' /\ TruckType' /\ ClockType' /\ Apart(price)'
    BY <1>0, <1>2, <1>4 DEF Return, IInv, Types, office, OfficeType, TruckType, ClockType
  <2> QED
    BY <1>1, <1>2, <2>1, AsideStep
<1>5. CASE Tick
  <2>1. OfficeType' /\ TruckType' /\ ClockType' /\ Apart(price)'
    BY <1>0, <1>2, <1>5 DEF Tick, IInv, Types, office, truck, OfficeType, TruckType, ClockType
  <2> QED
    BY <1>1, <1>2, <2>1, AsideStep
<1>6. CASE Depart
  <2>1. route' \in Routes /\ stock' \in [Products -> Nat] /\ out' \in BOOLEAN
    BY <1>0, <1>6, SellingAssumption DEF Depart, Types, TruckType, Routes
  <2>2. OfficeType' /\ ClockType' /\ Apart(price)'
    BY <1>0, <1>2, <1>6 DEF Depart, IInv, Types, office, OfficeType, ClockType
  <2> QED
    BY <1>1, <1>2, <2>1, <2>2, AsideStep DEF TruckType
<1> QED
  BY <1>3, <1>4, <1>5, <1>6

\* A cancellation puts the goods back.
LEMMA CancelStep ==
  ASSUME IInv, NEW n \in DOMAIN sale, CancelSale(n)
  PROVE  IInv'
<1> DEFINE new == [sale[n] EXCEPT !.status = "CANCELLED"]
<1>0. Types /\ sale \in Seq(Sales) /\ n \in 1..Len(sale) /\ sale[n] \in Sales
  BY ByVariable, SaleRecords DEF IInv, Types, SaleType
<1>1. new \in Sales /\ new.form = sale[n].form
  BY <1>0 DEF Sales
<1>2. sale' = [sale EXCEPT ![n] = new]
  BY DEF CancelSale
<1> HIDE DEF new
<1>3. /\ SaleType' /\ Len(sale') = Len(sale)
      /\ \A m \in 1..Len(sale) : sale'[m].form = sale[m].form
  BY <1>0, <1>1, <1>2, ExceptSeq DEF SaleType
<1>4. DOMAIN sale' = DOMAIN sale /\ DOMAIN sale = 1..Len(sale)
  BY <1>0, <1>2, LenProperties
<1>5. \A f \in Forms : SalesOf(f)' = SalesOf(f)
  BY <1>3, <1>4 DEF SalesOf
<1>6. OfficeType' /\ ClockType' /\ Apart(price)'
  BY <1>0, CountType DEF CancelSale, IInv, Types, office, OfficeType, ClockType
<1>7. TruckType'
  <2>1. ASSUME NEW p \in Products PROVE stock[p] + sale[n].cart.lines[p] \in Nat
    <3>1. stock[p] \in Nat /\ sale[n].cart.lines[p] \in Nat
      BY <1>0, CartLines, SellingAssumption DEF Types, TruckType, Sales
    <3> QED
      BY <3>1
  <2> QED
    BY <1>0, <2>1 DEF CancelSale, Types, TruckType
<1> QED
  BY <1>3, <1>5, <1>6, <1>7, AsideStep DEF CancelSale

\* A sale of another form takes goods the truck holds.
LEMMA ElsewhereStep ==
  ASSUME IInv, NEW cart \in Carts, SellElsewhere(cart)
  PROVE  IInv'
<1> DEFINE new == [ form |-> Null, cart |-> cart, charge |-> Charges(Database, cart, now),
                    status |-> "COMPLETED" ]
<1>0. Types /\ Database \in Databases
  BY ByVariable, DatabaseType DEF IInv
<1>1. new \in Sales /\ new.form = Null
  <2>1. Charges(Database, cart, now) \in [Products -> Amounts]
    BY <1>0, ChargesType DEF SellElsewhere
  <2> QED
    BY <2>1 DEF Sales
<1>2. sale' = Append(sale, new)
  BY DEF SellElsewhere
<1> HIDE DEF new
<1>3. SaleType' /\ \A f \in Forms : SalesOf(f)' = SalesOf(f)
  <2>1. \A f \in Forms : f # Null
    BY SellingAssumption
  <2> QED
    BY <1>0, <1>1, <1>2, <2>1, AppendSale
<1>4. OfficeType' /\ ClockType' /\ Apart(price)'
  BY <1>0, CountType DEF SellElsewhere, IInv, Types, office, OfficeType, ClockType
<1>5. TruckType'
  <2>1. ASSUME NEW p \in Products PROVE stock[p] - cart.lines[p] \in Nat
    <3>1. stock[p] \in Nat /\ cart.lines[p] \in Nat
      BY <1>0, CartLines, SellingAssumption DEF Types, TruckType
    <3>2. cart.lines[p] <= stock[p]
      BY DEF SellElsewhere, Available, Database
    <3> QED
      BY <3>1, <3>2
  <2> QED
    BY <1>0, <2>1 DEF SellElsewhere, Types, TruckType
<1> QED
  BY <1>3, <1>4, <1>5, AsideStep DEF SellElsewhere

-----------------------------------------------------------------------------
(* The invariant *)

\* The inductive invariant holds at the start.
LEMMA Initially == Init => IInv
<1> SUFFICES ASSUME Init PROVE IInv
  OBVIOUS
<1>1. OfficeType /\ TruckType /\ ClockType
  BY SellingAssumption DEF Init, OfficeType, TruckType, ClockType, Routes
<1>2. SaleType /\ \A f : SalesOf(f) = {}
  BY EmptySeq DEF Init, SaleType, SalesOf
<1>3. FormType /\ FormsHold /\ \A f \in Forms : form[f].step = "cart" /\ form[f].sent = "idle"
  BY NewFormType DEF Init, FormType, FormsHold, FormHolds, NewForm
<1>4. SlotType /\ \A i \in Slots : slot[i] = Null
  BY DEF Init, SlotType
<1>5. TypeOK
  BY <1>1, <1>2, <1>3, <1>4, ByVariable DEF Types
<1>6. Apart(price)
  BY SellingAssumption DEF Init, Apart
<1> QED
  BY <1>2, <1>3, <1>4, <1>5, <1>6 DEF IInv, CommandsHold, OneOpen, At, OneSalePerForm

\* Every step keeps the inductive invariant.
LEMMA Inductive == IInv /\ [Next]_vars => IInv'
<1> SUFFICES ASSUME IInv, [Next]_vars PROVE IInv'
  OBVIOUS
<1>1. ASSUME NEW f \in Forms, Drive(f) PROVE IInv'
  BY <1>1, EditingSteps, QuoteSteps, ConfirmStep, LeavingSteps DEF Drive
<1>2. ASSUME NEW i \in Slots, Serve(i) PROVE IInv'
  BY <1>2, BeginStep, ClaimStep, FinishStep, ClashStep DEF Serve
<1>3. CASE Administer \/ Return \/ Depart \/ Tick
  BY <1>3, OfficeSteps
<1>4. ASSUME NEW cart \in Carts, SellElsewhere(cart) PROVE IInv'
  BY <1>4, ElsewhereStep
<1>5. ASSUME NEW n \in DOMAIN sale, CancelSale(n) PROVE IInv'
  BY <1>5, CancelStep
<1>6. CASE UNCHANGED vars
  <2>1. Types
    BY ByVariable DEF IInv
  <2> QED
    BY <1>6, <2>1, AsideStep
       DEF vars, IInv, office, truck, Types, OfficeType, TruckType, SaleType, ClockType, SalesOf
<1> QED
  BY <1>1, <1>2, <1>3, <1>4, <1>5, <1>6 DEF Next

-----------------------------------------------------------------------------
(* What a confirmation sells *)

\* Only the end of a confirmation sells and changes its slot.
LEMMA OnlyFinishSells ==
  ASSUME IInv, [Next]_vars, NEW i \in Slots, Sells(i)
  PROVE  /\ slot[i] # Null /\ At(i, "open")
         /\ Priceable(slot[i].snapshot, slot[i].cart)
         /\ slot[i].cart.route = route
         /\ Last(sale') = NewSale(i)
<1>0. Types
  BY ByVariable DEF IInv
<1>1. ASSUME UNCHANGED sale PROVE FALSE
  BY <1>0, <1>1, SaleRecords DEF Sells
<1>2. ASSUME UNCHANGED slot PROVE FALSE
  BY <1>2 DEF Sells
<1>3. ASSUME NEW j \in Slots, Finish(j) PROVE j = i /\ Len(sale') > Len(sale)
  BY <1>0, <1>3 DEF Finish, Ticket, Refused, Ends, Sells, Types, SlotType
<1>4. ~Administer /\ ~Return /\ ~Depart /\ ~Tick /\ ~UNCHANGED vars
  BY <1>2 DEF Administer, Return, Depart, Tick, vars
<1>5. \A cart \in Carts : ~SellElsewhere(cart)
  BY <1>2 DEF SellElsewhere
<1>6. \A n \in DOMAIN sale : ~CancelSale(n)
  BY <1>2 DEF CancelSale
<1>7. \A f \in Forms : ~Drive(f)
  BY <1>1 DEF Drive, Edit, SwitchRoute, Back, Review, Quote, QuoteArrives, QuoteFails, OnlyForm, Confirm,
       TimeOut, Leave
<1>8. \A j \in Slots : ~Begin(j) /\ ~Claim(j) /\ ~Clash(j)
  BY <1>1 DEF Begin, Claim, Clash
<1>9. Finish(i)
  BY <1>3, <1>4, <1>5, <1>6, <1>7, <1>8 DEF Next, Serve
<1>10. Priceable(slot[i].snapshot, slot[i].cart) /\ sale' = Append(sale, NewSale(i))
  BY <1>1, <1>9 DEF Finish
<1>11. slot[i].cart.route = route
  BY <1>9, <1>10 DEF Finish, RouteLocked, Priceable, UnderWay, Database
<1>12. Last(Append(sale, NewSale(i))) = NewSale(i)
  <2>1. sale \in Seq(Sales \cup {NewSale(i)})
    BY <1>0, SeqMonotonic DEF Types, SaleType
  <2> QED
    BY <2>1, AppendProperties DEF Last
<1> QED
  BY <1>9, <1>10, <1>11, <1>12 DEF Finish, At

\* Of the prices in force at a time there is one at most.
LEMMA OneInForce ==
  ASSUME NEW rows, Apart(rows), NEW c, NEW p, NEW t \in Times,
         NEW x \in InForce(rows, c, p, t), NEW y \in InForce(rows, c, p, t)
  PROVE  x = y
<1>1. /\ About[x].from \in Int /\ About[x].until \in Int
      /\ About[y].from \in Int /\ About[y].until \in Int /\ t \in Int
  BY SellingAssumption DEF InForce
<1> QED
  BY <1>1 DEF InForce, Apart, Disjoint, ValidAt

\* The charge is that of a price in force, the standard one when there is none.
LEMMA ChargeInForce ==
  ASSUME NEW db, Apart(db.price), NEW c, NEW p, NEW t \in Times
  PROVE  /\ InForce(db.price, c, p, t) = {} =>
              Charge(db, c, p, t) = [source |-> "STANDARD", unit |-> db.standard[p]]
         /\ \A x \in InForce(db.price, c, p, t) : Charge(db, c, p, t).source = x
<1> DEFINE special == Effective(db.price, c, p, t)
<1>1. special = InForce(db.price, c, p, t)
  BY DEF Effective, InForce
<1>2. CASE special = {}
  BY <1>1, <1>2 DEF Charge
<1>3. CASE special # {}
  <2> DEFINE y == CHOOSE z \in special : TRUE
  <2>1. y \in special
    BY <1>3
  <2>2. Charge(db, c, p, t) = [source |-> y, unit |-> About[y].unit]
    BY <1>3 DEF Charge
  <2> HIDE DEF y
  <2>3. Charge(db, c, p, t).source = y
    BY <2>2
  <2> QED
    BY <1>1, <1>3, <2>1, <2>3, OneInForce
<1> QED
  BY <1>2, <1>3

\* The step that sells charges as ChargesAreInForce says.
LEMMA ChargesStep ==
  ASSUME IInv, [Next]_vars, NEW i \in Slots, Sells(i), NEW p \in Sold(slot[i].cart)
  PROVE  LET db == slot[i].snapshot
             first == InForce(db.price, slot[i].cart.customer, p, slot[i].at)
             charged == Last(sale').charge[p]
         IN /\ \A x \in first \cap InForce(price, slot[i].cart.customer, p, now) :
                 charged.source = x
            /\ slot[i].at = now =>
                 IF first = {} THEN charged = [source |-> "STANDARD", unit |-> db.standard[p]]
                 ELSE charged.source \in first
<1> DEFINE db == slot[i].snapshot
           c == slot[i].cart.customer
           first == InForce(db.price, c, p, slot[i].at)
           charged == Last(sale').charge[p]
<1>1. /\ slot[i] # Null /\ Last(sale') = NewSale(i) /\ Apart(db.price) /\ now \in Times
  BY OnlyFinishSells, ByVariable DEF IInv, Types, ClockType, At, CommandsHold, CommandHolds
<1>2. p \in Products
  BY DEF Sold
<1>3. charged = Charge(db, c, p, now)
  BY <1>1, <1>2 DEF NewSale, Charges
<1>4. ASSUME NEW x \in first, x \in InForce(price, c, p, now) PROVE x \in InForce(db.price, c, p, now)
  BY <1>4 DEF InForce
<1>5. \A x \in InForce(db.price, c, p, now) : charged.source = x
  BY <1>1, <1>3, ChargeInForce
<1>6. InForce(db.price, c, p, now) = {} =>
        charged = [source |-> "STANDARD", unit |-> db.standard[p]]
  BY <1>1, <1>3, ChargeInForce
<1> QED
  BY <1>4, <1>5, <1>6

\* The step that sells takes the reviewed goods, unless the form was edited while its quote was
\* on its way, from the reviewed truck or a later one.
LEMMA ReviewedStep ==
  ASSUME IInv, [Next]_vars, NEW i \in Slots, Sells(i), ~slot[i].reviewed.late
  PROVE  LET reviewed == slot[i].reviewed.cart
             sold == Last(sale').cart
         IN /\ Goods(sold) = Goods(reviewed)
            /\ sold.route # reviewed.route => reviewed.route < route
<1>1. /\ slot[i] # Null /\ Last(sale').cart = slot[i].cart /\ slot[i].cart.route = route
      /\ SameGoods(slot[i].reviewed, slot[i].cart)
  BY OnlyFinishSells DEF IInv, CommandsHold, CommandHolds, NewSale
<1>2. slot[i].reviewed.cart \in Carts /\ slot[i].cart \in Carts
  BY <1>1, ByVariable, SlotRecord DEF IInv, Commands, Quotes
<1> QED
  BY <1>1, <1>2, CartLines DEF SameGoods

\* No step sells from a truck that is back.
LEMMA ReturnedStep ==
  ASSUME IInv, [Next]_vars, ~out, UNCHANGED route, NEW p \in Products
  PROVE  stock[p] <= stock'[p]
<1>0. Types /\ stock[p] \in Nat
  BY ByVariable DEF IInv, Types, TruckType
<1>1. CASE UNCHANGED stock
  BY <1>0, <1>1
<1>2. ASSUME NEW n \in DOMAIN sale, CancelSale(n) PROVE stock[p] <= stock'[p]
  <2>1. sale[n].cart.lines[p] \in Nat
    BY <1>0, SaleRecords, CartLines, SellingAssumption DEF Sales
  <2> QED
    BY <1>0, <1>2, <2>1 DEF CancelSale
<1>3. ASSUME NEW i \in Slots, Finish(i) PROVE UNCHANGED stock
  BY <1>3 DEF Finish, RouteLocked, Priceable, UnderWay, Database
<1>4. ASSUME NEW cart \in Carts PROVE ~SellElsewhere(cart)
  BY DEF SellElsewhere, Priceable, UnderWay, Database
<1>5. ~Depart
  BY <1>0 DEF Depart, Types, TruckType, Routes
<1>6. ASSUME NEW f \in Forms, Drive(f) PROVE UNCHANGED stock
  BY <1>6 DEF Drive, Edit, SwitchRoute, Back, Review, Quote, QuoteArrives, QuoteFails, OnlyForm,
       Confirm, TimeOut, Leave, truck
<1>7. ASSUME NEW i \in Slots, Begin(i) \/ Claim(i) \/ Clash(i) PROVE UNCHANGED stock
  BY <1>7 DEF Begin, Claim, Clash, truck
<1>8. CASE Administer \/ Return \/ Tick \/ UNCHANGED vars
  BY <1>1, <1>8 DEF Administer, Return, Tick, vars, truck
<1> QED
  BY <1>1, <1>2, <1>3, <1>4, <1>5, <1>6, <1>7, <1>8 DEF Next, Serve

-----------------------------------------------------------------------------
\* The inductive invariant always holds.
THEOREM IInvHolds == Spec => []IInv
  BY Initially, Inductive, PTL DEF Spec

\* Types are kept; in particular the truck never owes goods, whatever was sold, cancelled and
\* confirmed at the same time.
THEOREM TypeCorrect == Spec => []TypeOK
<1>1. IInv => TypeOK
  BY DEF IInv
<1> QED
  BY <1>1, IInvHolds, PTL

\* However often a form is confirmed, it makes one sale and shows that one.
THEOREM OneSalePerFormTheorem == Spec => []OneSalePerForm
<1>1. IInv => OneSalePerForm
  BY DEF IInv
<1> QED
  BY <1>1, IInvHolds, PTL

\* A price that is in force all the while is charged, and while time does not pass a price
\* that was in force when the transaction began, or the standard one when there was none.
THEOREM ChargesAreInForceTheorem == Spec => ChargesAreInForce
<1>1. IInv /\ [Next]_vars =>
        [ \A i \in Slots : Sells(i) =>
            \A p \in Sold(slot[i].cart) :
              LET db == slot[i].snapshot
                  first == InForce(db.price, slot[i].cart.customer, p, slot[i].at)
                  charged == Last(sale').charge[p]
              IN /\ \A x \in first \cap InForce(price, slot[i].cart.customer, p, now) :
                      charged.source = x
                 /\ slot[i].at = now =>
                      IF first = {}
                      THEN charged = [source |-> "STANDARD", unit |-> db.standard[p]]
                      ELSE charged.source \in first ]_vars
  BY ChargesStep
<1> QED
  BY <1>1, IInvHolds, PTL DEF Spec, ChargesAreInForce

\* What is sold is what was reviewed, unless the review came late; from the truck that was
\* reviewed, unless another one departed since.
THEOREM OnlyLateQuotesSurpriseTheorem == Spec => OnlyLateQuotesSurprise
<1>1. IInv /\ [Next]_vars =>
        [ \A i \in Slots : Sells(i) /\ ~slot[i].reviewed.late =>
            LET reviewed == slot[i].reviewed.cart
                sold == Last(sale').cart
            IN /\ Goods(sold) = Goods(reviewed)
               /\ sold.route # reviewed.route => reviewed.route < route ]_vars
  BY ReviewedStep
<1> QED
  BY <1>1, IInvHolds, PTL DEF Spec, OnlyLateQuotesSurprise

\* Whatever confirmations were in progress when a truck came back, nothing is sold from it.
THEOREM NothingTakenFromReturnedTheorem == Spec => NothingTakenFromReturned
<1>1. IInv /\ [Next]_vars =>
        [~out /\ UNCHANGED route => \A p \in Products : stock[p] <= stock'[p]]_vars
  BY ReturnedStep
<1> QED
  BY <1>1, IInvHolds, PTL DEF Spec, NothingTakenFromReturned
=============================================================================
