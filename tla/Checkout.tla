------------------------------ MODULE Checkout ------------------------------
(***************************************************************************)
(* One shopper's cart, the checkouts of it that are open in several tabs,  *)
(* and the budget of the cost centre they order against.  A checkout       *)
(* validates its lines, claims them by deleting them, places one order per *)
(* line behind the budget's lock, and puts back what it could not order.   *)
(*                                                                         *)
(* An order's own course is OrderQueue's and OrderRun's subject.  Here it  *)
(* is what it commits of the budget, and whether it has elements: without  *)
(* any nothing can retry it.                                               *)
(***************************************************************************)
EXTENDS Naturals, FiniteSets, FiniteSetsExt

CONSTANTS
  Lines,       \* ids of cart_items
  Checkouts,   \* checkout requests
  Adders,      \* requests that add a line
  MaxItems,    \* MAX_CART_ITEMS
  MaxElements, \* MAX_CHECKOUT_ELEMENTS
  MaxQuantity, \* of one line
  Prices,      \* unit prices, in the budget's currency
  Amounts,     \* budgets a cost centre may be given
  MaxChanges,  \* the other changes of cart, orders and budget: a bound
  Races,       \* the overlaps admitted
  Faults       \* what may happen besides, once in a behaviour

RaceKinds ==
  {"refill",   \* a line is added while a checkout has others in its hands
   "budget"}   \* the commitments or the budget change under the lock

FaultKinds ==
  {"crash",    \* a request goes no further
   "late"}     \* a checkout's tail throws when the order already stands

Nobody == <<>>
NoLine == <<>>

ASSUME CheckoutAssumption ==
  /\ IsFiniteSet(Lines) /\ NoLine \notin Lines
  /\ Checkouts \cap Adders = {} /\ Nobody \notin Checkouts \cup Adders
  /\ MaxItems \in Nat /\ MaxElements \in Nat /\ MaxQuantity \in Nat
  /\ MaxChanges \in Nat
  /\ Prices \subseteq Nat
  /\ Amounts \subseteq Nat
  /\ Races \subseteq RaceKinds
  /\ Faults \subseteq FaultKinds

Requests == Checkouts \cup Adders
OrderIds == Checkouts \X Lines      \* the checkout and the line it is for

VARIABLES
  price,   \* of the product the cart is full of
  cart,    \* quantity of each line in the cart, 0 when it is not there
  added,   \* lines that have ever been there
  shown,   \* quantity the shopper last gave each line, 0 when removed: history
  overtaken, \* lines changed, or removed, too late for a checkout: history
  req,     \* the checkouts
  adder,   \* the requests that add a line
  owner,   \* who holds the FOR UPDATE lock on the shopper's user row
  lock,    \* who holds the advisory lock of the cost centre
  order,   \* orders
  budget,  \* of the cost centre
  changes, \* of the cart, of orders and of the budget beside the checkouts: counted
  fault

cartVars == <<cart, added, shown, overtaken>>
vars == <<price, cartVars, req, adder, owner, lock, order, budget, changes, fault>>

-----------------------------------------------------------------------------
(* Types.                                                                  *)

Quantity == 0..MaxQuantity

RequestRecord ==
  [pc : {"idle", "validate", "claim", "undo", "next", "check", "insert", "build",
         "void", "tail", "done", "dead"},
   owned : [Lines -> Quantity],  \* the lines as it read them, 0 for the others
   held : SUBSET Lines,          \* claimed, and neither ordered nor failed yet
   failed : SUBSET Lines,        \* claimed, and not ordered
   cur : Lines \cup {NoLine}]    \* the line being ordered

OrderRecord ==
  [status : {"none", "pending", "provisioning", "failed", "rejected"},
   elements : BOOLEAN,
   quantity : Quantity]

(* None at all, or one that only warns, refuses nothing.                   *)
NoLimit == [amount |-> 0, blocks |-> FALSE]

Budgets == {NoLimit} \cup [amount : Amounts, blocks : {TRUE}]

TypeOK ==
  /\ price \in Prices
  /\ cart \in [Lines -> Quantity]
  /\ added \subseteq Lines
  /\ shown \in [Lines -> Quantity]
  /\ overtaken \subseteq Lines
  /\ req \in [Checkouts -> RequestRecord]
  /\ adder \in [Adders -> {"idle", "insert", "done"}]
  /\ owner \in Adders \cup {Nobody}
  /\ lock \in Checkouts \cup {Nobody}
  /\ order \in [OrderIds -> OrderRecord]
  /\ budget \in Budgets
  /\ changes \in 0..MaxChanges
  /\ fault \in {"none"} \cup FaultKinds
  /\ \A c \in Checkouts :
       /\ req[c].pc \in {"check", "insert", "build", "void", "tail"} => req[c].cur \in Lines
       /\ SumFunctionOnSet(req[c].owned, Lines) \leq MaxElements

NoOrder == [status |-> "none", elements |-> FALSE, quantity |-> 0]

Idle == [pc |-> "idle", owned |-> [l \in Lines |-> 0], held |-> {}, failed |-> {},
         cur |-> NoLine]

Over == [Idle EXCEPT !.pc = "done"]

InCart == {l \in Lines : cart[l] # 0}

Init ==
  /\ price \in Prices
  /\ cart \in [Lines -> Quantity]
  /\ Cardinality(InCart) \leq MaxItems
  /\ added = InCart
  /\ shown = cart
  /\ overtaken = {}
  /\ req = [c \in Checkouts |-> Idle]
  /\ adder = [a \in Adders |-> "idle"]
  /\ owner = Nobody
  /\ lock = Nobody
  /\ order = [o \in OrderIds |-> NoOrder]
  /\ budget \in Budgets
  /\ changes = 0
  /\ fault = "none"

-----------------------------------------------------------------------------
(* The shopper's own changes of the cart.                                  *)

(* The lines a checkout has taken out of the cart and not accounted for.   *)
InHand(c) == req[c].held \cup req[c].failed

(* Those it may still put back.                                            *)
ComingBack == {l \in Lines : \E c \in Checkouts : req[c].pc # "dead" /\ l \in InHand(c)}

(* Has a checkout read the line, and not claimed it yet?                   *)
ReadBy(c, l) == req[c].pc \in {"validate", "claim"} /\ req[c].owned[l] # 0

(* A faulty variant of the lock on the user row: there is none (#188).     *)
Unlocked == TRUE

RowIsFree == owner = Nobody

(* addToCart counts the lines and inserts one, behind the user row.        *)
AddCount(a) ==
  /\ adder[a] = "idle"
  /\ RowIsFree
  /\ "refill" \in Races \/ ComingBack = {}
  /\ IF Cardinality(InCart) \geq MaxItems
       THEN adder' = [adder EXCEPT ![a] = "done"] /\ UNCHANGED owner
       ELSE adder' = [adder EXCEPT ![a] = "insert"] /\ owner' = a
  /\ UNCHANGED <<price, cartVars, req, lock, order, budget, changes, fault>>

AddInsert(a) ==
  /\ adder[a] = "insert"
  /\ \E l \in Lines \ added, q \in Quantity \ {0} :
       /\ cart' = [cart EXCEPT ![l] = q]
       /\ shown' = [shown EXCEPT ![l] = q]
       /\ added' = added \cup {l}
  /\ UNCHANGED overtaken
  /\ adder' = [adder EXCEPT ![a] = "done"]
  /\ owner' = Nobody
  /\ UNCHANGED <<price, req, lock, order, budget, changes, fault>>

Change ==
  /\ changes < MaxChanges
  /\ changes' = changes + 1

(* updateCartItem: one UPDATE, which finds the line or finds none.  It is  *)
(* too late for a checkout that has read the line.                         *)
Update(l) ==
  /\ cart[l] # 0
  /\ \E q \in Quantity \ {0, cart[l]} :
       /\ cart' = [cart EXCEPT ![l] = q]
       /\ shown' = [shown EXCEPT ![l] = q]
  /\ overtaken' = IF \E c \in Checkouts : ReadBy(c, l) THEN overtaken \cup {l}
                                                       ELSE overtaken \ {l}
  /\ Change
  /\ UNCHANGED <<price, added, req, adder, owner, lock, order, budget, fault>>

(* removeFromCart and clearCart: what is not there is removed already, and *)
(* nothing happens.  But a checkout may have it in its hands, and then the *)
(* removal comes too late for it.                                          *)
Remove(gone) ==
  /\ gone # {} /\ gone \subseteq InCart \cup ComingBack
  /\ \A l \in gone : shown[l] # 0
  /\ cart' = [l \in Lines |-> IF l \in gone THEN 0 ELSE cart[l]]
  /\ shown' = [l \in Lines |-> IF l \in gone THEN 0 ELSE shown[l]]
  /\ overtaken' = overtaken \cup (gone \ InCart)
  /\ Change
  /\ UNCHANGED <<price, added, req, adder, owner, lock, order, budget, fault>>

RemoveOne == \E l \in Lines : Remove({l})

Clear == Remove(InCart)

-----------------------------------------------------------------------------
(* checkoutCart.                                                           *)

(* A faulty variant: a line counts once, whatever its quantity (#104).     *)
LinesOnly(lines) == Cardinality(lines)

Elements(lines) == SumFunctionOnSet(cart, lines)

(* It reads the lines named, and refuses a list the cart does not hold or  *)
(* that asks for too many elements.                                        *)
Read(c) ==
  /\ req[c].pc = "idle"
  /\ \E ids \in SUBSET Lines \ {{}} :
       IF ids \subseteq InCart /\ Elements(ids) \leq MaxElements
         THEN req' = [req EXCEPT ![c].pc = "validate",
                                 ![c].owned = [l \in Lines |-> IF l \in ids THEN cart[l] ELSE 0]]
         ELSE req' = [req EXCEPT ![c] = Over]
  /\ UNCHANGED <<price, cartVars, adder, owner, lock, order, budget, changes, fault>>

(* prepareOrder for each line; one that does not pass stops all of them.   *)
Validate(c) ==
  /\ req[c].pc = "validate"
  /\ req' \in {[req EXCEPT ![c].pc = "claim"], [req EXCEPT ![c] = Over]}
  /\ UNCHANGED <<price, cartVars, adder, owner, lock, order, budget, changes, fault>>

Named(c) == {l \in Lines : req[c].owned[l] # 0}

(* A faulty variant: the lines it read are taken for the lines it deleted. *)
ReadIsClaimed(c) == Named(c)

(* What DELETE ... RETURNING says it has deleted.                          *)
Deleted(c) == Named(c) \cap InCart

(* The claim is the deletion.  Whoever gets fewer than it read puts those  *)
(* back.                                                                   *)
Claim(c) ==
  /\ req[c].pc = "claim"
  /\ cart' = [l \in Lines |-> IF l \in Deleted(c) THEN 0 ELSE cart[l]]
  /\ req' = IF Deleted(c) = Named(c)
              THEN [req EXCEPT ![c].pc = "next", ![c].held = Named(c)]
              ELSE [req EXCEPT ![c].pc = "undo", ![c].failed = Deleted(c)]
  /\ UNCHANGED <<price, added, shown, overtaken, adder, owner, lock, order, budget, changes, fault>>

(* A faulty variant: a row put back without its quantity gets the default. *)
BackAsOne(c) == [l \in Lines |-> IF l \in req[c].failed THEN 1 ELSE cart[l]]

(* restoreCartItems: the rows as they were read, under their old ids.      *)
PutBack(c) == [l \in Lines |-> IF l \in req[c].failed THEN req[c].owned[l] ELSE cart[l]]

Undo(c) ==
  /\ req[c].pc = "undo"
  /\ cart' = PutBack(c)
  /\ req' = [req EXCEPT ![c] = Over]
  /\ UNCHANGED <<price, added, shown, overtaken, adder, owner, lock, order, budget, changes, fault>>

(* Every line is ordered or has failed.                                    *)
Finish(c) ==
  /\ req[c].pc = "next"
  /\ req[c].held = {}
  /\ cart' = PutBack(c)
  /\ req' = [req EXCEPT ![c] = Over]
  /\ UNCHANGED <<price, added, shown, overtaken, adder, owner, lock, order, budget, changes, fault>>

-----------------------------------------------------------------------------
(* createPreparedOrder, for one line.                                      *)

(* A faulty variant of the next: a throw is not among the failures.        *)
Forgets(c, l) ==
  req' = [req EXCEPT ![c].pc = "next", ![c].cur = NoLine, ![c].held = @ \ {l}]

(* The line could not be ordered: the error is reported, and the loop goes *)
(* on with the next one.                                                   *)
Fails(c, l) ==
  req' = [req EXCEPT ![c].pc = "next", ![c].cur = NoLine,
                     ![c].held = @ \ {l}, ![c].failed = @ \cup {l}]

Denied(c) ==
  /\ req[c].pc = "next"
  /\ \E l \in req[c].held : Fails(c, l)
  /\ UNCHANGED <<price, cartVars, adder, owner, lock, order, budget, changes, fault>>

(* A faulty variant: the budget is read without the lock (#403).           *)
NoLock == TRUE

BudgetIsFree == lock = Nobody

Lock(c) ==
  /\ req[c].pc = "next"
  /\ BudgetIsFree
  /\ \E l \in req[c].held : req' = [req EXCEPT ![c].pc = "check", ![c].cur = l]
  /\ lock' = c
  /\ UNCHANGED <<price, cartVars, adder, owner, order, budget, changes, fault>>

(* COMMITTED_STATUSES.                                                     *)
Counted == {o \in OrderIds : order[o].status \in {"pending", "provisioning"}}

Worth == [o \in OrderIds |-> price * order[o].quantity]

Committed == SumFunctionOnSet(Worth, Counted)

Cost(c) == price * req[c].owned[req[c].cur]

(* Spent already, or over with this order.  "warn" lets it pass.           *)
Blocked(c) ==
  /\ budget.blocks
  /\ Committed \geq budget.amount \/ Committed + Cost(c) > budget.amount

Check(c) ==
  /\ req[c].pc = "check"
  /\ IF Blocked(c)
       THEN Fails(c, req[c].cur) /\ lock' = Nobody
       ELSE req' = [req EXCEPT ![c].pc = "insert"] /\ UNCHANGED lock
  /\ UNCHANGED <<price, cartVars, adder, owner, order, budget, changes, fault>>

(* The order is there, and with the commit the lock is gone.  An admin's   *)
(* is built at once, unless policy has asked for an approval; everybody    *)
(* else's waits for one.                                                   *)
Insert(c) ==
  /\ req[c].pc = "insert"
  /\ \E now \in BOOLEAN :
       /\ order' = [order EXCEPT ![<<c, req[c].cur>>] =
                      [status |-> IF now THEN "provisioning" ELSE "pending",
                       elements |-> FALSE, quantity |-> req[c].owned[req[c].cur]]]
       /\ req' = [req EXCEPT ![c].pc = IF now THEN "build" ELSE "tail"]
  /\ lock' = Nobody
  /\ UNCHANGED <<price, cartVars, adder, owner, budget, changes, fault>>

(* provisionOrderElements: pipelines start, and the elements stay ...      *)
Build(c) ==
  /\ req[c].pc = "build"
  /\ order' = [order EXCEPT ![<<c, req[c].cur>>].elements = TRUE]
  /\ req' = [req EXCEPT ![c].pc = "tail"]
  /\ UNCHANGED <<price, cartVars, adder, owner, lock, budget, changes, fault>>

(* ... or none does, and it takes its element rows away again and throws.  *)
NothingStarted(c) ==
  /\ req[c].pc = "build"
  /\ req' = [req EXCEPT ![c].pc = "void"]
  /\ UNCHANGED <<price, cartVars, adder, owner, lock, order, budget, changes, fault>>

MarkFailed(c) ==
  /\ req[c].pc = "void"
  /\ order' = [order EXCEPT ![<<c, req[c].cur>>].status = "failed"]
  /\ Fails(c, req[c].cur)
  /\ UNCHANGED <<price, cartVars, adder, owner, lock, budget, changes, fault>>

(* The audit entry and the mails.                                          *)
Tail(c) ==
  /\ req[c].pc = "tail"
  /\ req' = [req EXCEPT ![c].pc = "next", ![c].cur = NoLine, ![c].held = @ \ {req[c].cur}]
  /\ UNCHANGED <<price, cartVars, adder, owner, lock, order, budget, changes, fault>>

-----------------------------------------------------------------------------
(* What others do to placed orders and to the budget.                      *)

OrderChange ==
  /\ Change
  /\ UNCHANGED <<price, cartVars, req, adder, owner, lock, fault>>

(* Under the lock nobody else may commit anything, by the lock's purpose;  *)
(* but a retry and root's edit do not take it.                             *)
Unguarded == "budget" \in Races \/ lock = Nobody

Approve(o) ==
  /\ order[o].status = "pending"
  /\ order' = [order EXCEPT ![o].status = "provisioning", ![o].elements = TRUE]
  /\ OrderChange /\ UNCHANGED budget

Reject(o) ==
  /\ order[o].status = "pending"
  /\ order' = [order EXCEPT ![o].status = "rejected"]
  /\ OrderChange /\ UNCHANGED budget

(* A callback fails it: what it had committed is free again.               *)
PipelineFails(o) ==
  /\ order[o].status = "provisioning" /\ order[o].elements
  /\ order' = [order EXCEPT ![o].status = "failed"]
  /\ OrderChange /\ UNCHANGED budget

(* retryProvisioning is asked for an element, and looks at no budget.      *)
Retry(o) ==
  /\ order[o].status = "failed" /\ order[o].elements
  /\ Unguarded
  /\ order' = [order EXCEPT ![o].status = "provisioning"]
  /\ OrderChange /\ UNCHANGED budget

(* setCostCentreBudget.                                                    *)
SetBudget ==
  /\ Unguarded
  /\ budget' \in Budgets \ {budget}
  /\ OrderChange /\ UNCHANGED order

-----------------------------------------------------------------------------
(* Faults.                                                                 *)

Fault(kind) ==
  /\ kind \in Faults
  /\ fault = "none"
  /\ fault' = kind

(* The request dies, its transaction is rolled back, and what it had taken *)
(* out of the cart is nowhere.                                             *)
Crash(c) ==
  /\ Fault("crash")
  /\ req[c].pc \notin {"idle", "done", "dead"}
  /\ req' = [req EXCEPT ![c].pc = "dead"]
  /\ lock' = IF lock = c THEN Nobody ELSE lock
  /\ UNCHANGED <<price, cartVars, adder, owner, order, budget, changes>>

TailThrows(c) ==
  /\ req[c].pc = "tail"
  /\ Fault("late")
  /\ Fails(c, req[c].cur)
  /\ UNCHANGED <<price, cartVars, adder, owner, lock, order, budget, changes>>

-----------------------------------------------------------------------------
ShopperStep ==
  \/ \E a \in Adders : AddCount(a) \/ AddInsert(a)
  \/ \E l \in Lines : Update(l)
  \/ RemoveOne
  \/ Clear

CheckoutStep(c) ==
  \/ Read(c) \/ Validate(c) \/ Claim(c) \/ Undo(c) \/ Finish(c)
  \/ Denied(c) \/ Lock(c) \/ Check(c) \/ Insert(c)
  \/ Build(c) \/ NothingStarted(c) \/ MarkFailed(c) \/ Tail(c)

OrderStep ==
  \/ \E o \in OrderIds : Approve(o) \/ Reject(o) \/ PipelineFails(o) \/ Retry(o)
  \/ SetBudget

Next ==
  \/ ShopperStep
  \/ \E c \in Checkouts : CheckoutStep(c) \/ Crash(c) \/ TailThrows(c)
  \/ OrderStep

Spec == Init /\ [][Next]_vars

-----------------------------------------------------------------------------
(* Properties.                                                             *)

(* Orders that stand for their line: all but those that were never built   *)
(* and cannot be.                                                          *)
Stands(o) == order[o].status # "none" /\ (order[o].status = "failed" => order[o].elements)

OrdersOf(l) == {o \in OrderIds : o[2] = l /\ Stands(o)}

(* A line is ordered once, whoever checks it out and however often; and    *)
(* while it lies in the cart, it has not been (#188).  It may have been if *)
(* the tail of its order threw.                                            *)
OrderedOnce ==
  fault # "late" =>
    \A l \in Lines :
      /\ Cardinality(OrdersOf(l)) \leq 1
      /\ cart[l] # 0 => OrdersOf(l) = {}

(* A line the shopper has not removed is in the cart, or ordered, or in    *)
(* the hands of a checkout: no lost race and no failure loses it.  What a  *)
(* checkout held when it died stays in its dead hands.                     *)
NothingIsLost ==
  \A l \in Lines :
    shown[l] # 0 =>
      \/ cart[l] # 0
      \/ OrdersOf(l) # {}
      \/ \E c \in Checkouts : l \in InHand(c)

(* What lies in the cart, and what is ordered, is what the shopper last    *)
(* asked for: a line put back is "the row they had".  Only a line changed  *)
(* after a checkout read it and before it was claimed, or removed while it *)
(* was in a checkout's hands, may be otherwise (cart.ts), and only until   *)
(* the shopper changes it again.                                           *)
AsTheShopperSaid ==
  \A l \in Lines \ overtaken :
    /\ cart[l] # 0 => cart[l] = shown[l]
    /\ fault # "late" => \A o \in OrdersOf(l) : order[o].quantity = shown[l]

(* No two requests fill the cart beyond its limit (#188).                  *)
CartIsBounded == Cardinality(InCart) \leq MaxItems

(* An order is placed against a blocking budget only when something is     *)
(* left of it, and never takes it over (#403).                             *)
NeverPlacedOverBudget ==
  [][\A o \in OrderIds :
       order[o].status = "none" /\ order'[o].status # "none" /\ budget.blocks
         => Committed < budget.amount /\ Committed' \leq budget.amount]_vars

=============================================================================
