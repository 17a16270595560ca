----------------------------- MODULE Catalogue ------------------------------
(***************************************************************************)
(* Deleting a product, a category or a project while orders are placed for *)
(* it.  Orders reference their product and their project, products their   *)
(* category, all ON DELETE CASCADE: a row that goes takes every order      *)
(* below it along.  A deletion therefore retires what was ever ordered,    *)
(* and it decides that after the destroy triggers it fired, which take     *)
(* long, under row locks the database takes for it.                        *)
(*                                                                         *)
(* A step is one statement, or one transaction that locks one row only.    *)
(* SELECT ... FOR UPDATE keeps a row until its transaction ends; inserting *)
(* or moving a row that references it waits for that, and fails if the row *)
(* is gone then.  How one element is destroyed is Teardown's subject; here *)
(* claiming it and firing its destroy is one step.                         *)
(***************************************************************************)
EXTENDS Naturals, FiniteSets

CONSTANTS
  Products,     \* rows of products, those to be created included
  Categories,   \* rows of categories
  Projects,     \* rows of projects
  Orders,       \* requests for an order, and the rows they insert
  Deletions     \* requests to delete something

Rows == Products \cup Categories \cup Projects

ASSUME CatalogueAssumption ==
  /\ Products \cap Categories = {}
  /\ Products \cap Projects = {}
  /\ Categories \cap Projects = {}
  /\ Categories # {}

VARIABLES
  row,       \* is there such a row, and is it retired (retired_at)?
  shelf,     \* products.category_id
  offered,   \* products with an offering (product_environments)
  order,     \* the requests for an order
  element,   \* the infrastructure each order has
  del        \* the deletions

vars == <<row, shelf, offered, order, element, del>>

NoRow == "none"

OrderRecord ==
  [pc : {"idle", "prepared", "placed", "refused", "erased"},
   product : Products \cup {NoRow},
   project : Projects \cup {NoRow}]

DeletionRecord ==
  [pc : {"idle", "fire", "lock", "children", "count", "decide", "done", "missing"},
   target : Rows \cup {NoRow},
   todo : SUBSET Orders,    \* whose elements are still to be destroyed
   fired : BOOLEAN,         \* has it started to destroy anything?
   failed : BOOLEAN,        \* could a destroy not be started?
   held : SUBSET Rows,      \* rows it holds FOR UPDATE
   ordered : BOOLEAN]       \* did it count an order?

Exists(r) == row[r] \in {"live", "retired"}

Below(o, r) == r \in {order[o].product, order[o].project}

(* Well typed; and a placed order's product and project are there, as are  *)
(* the categories of all products: the foreign keys.                       *)
TypeOK ==
  /\ row \in [Rows -> {"none", "live", "retired", "gone"}]
  /\ shelf \in [Products -> Categories]
  /\ offered \subseteq Products
  /\ order \in [Orders -> OrderRecord]
  /\ element \in [Orders -> {"none", "active", "leaving"}]
  /\ del \in [Deletions -> DeletionRecord]
  /\ \A o \in Orders : order[o].pc = "placed" =>
       /\ order[o].product \in Products /\ Exists(order[o].product)
       /\ order[o].project \in Projects /\ Exists(order[o].project)
  /\ \A p \in Products : Exists(p) => Exists(shelf[p])

Init ==
  /\ row \in [Rows -> {"none", "live"}]
  /\ \A r \in Categories \cup Projects : row[r] = "live"
  /\ shelf \in [Products -> Categories]
  /\ offered = {p \in Products : row[p] = "live"}
  /\ order = [o \in Orders |-> [pc |-> "idle", product |-> NoRow, project |-> NoRow]]
  /\ element = [o \in Orders |-> "none"]
  /\ del = [d \in Deletions |->
              [pc |-> "idle", target |-> NoRow, todo |-> {}, fired |-> FALSE,
               failed |-> FALSE, held |-> {}, ordered |-> FALSE]]

-----------------------------------------------------------------------------
(* The catalogue is edited.                                                *)

(* No transaction holds the row FOR UPDATE.                                *)
Free(r) == \A d \in Deletions : r \notin del[d].held

(* A row that references r can be written: whoever holds r is waited for.  *)
Referable(r) == Free(r) /\ Exists(r)

CreateProduct(p) ==
  /\ row[p] = "none"
  /\ \E c \in Categories :
       /\ Referable(c)
       /\ shelf' = [shelf EXCEPT ![p] = c]
  /\ row' = [row EXCEPT ![p] = "live"]
  /\ UNCHANGED <<offered, order, element, del>>

(* updateProduct, which is how a product changes its category.             *)
MoveProduct(p) ==
  /\ Exists(p) /\ Free(p)
  /\ \E c \in Categories \ {shelf[p]} :
       /\ Referable(c)
       /\ shelf' = [shelf EXCEPT ![p] = c]
  /\ UNCHANGED <<row, offered, order, element, del>>

Offer(p) ==
  /\ Referable(p)
  /\ offered' = offered \cup {p}
  /\ UNCHANGED <<row, shelf, order, element, del>>

(* deleteProductEnvironment, once nothing of it is deployed.               *)
Withdraw(p) ==
  /\ p \in offered
  /\ \A o \in Orders : order[o].product = p => element[o] = "none"
  /\ offered' = offered \ {p}
  /\ UNCHANGED <<row, shelf, order, element, del>>

(* setProductRetired: Disable and Enable.  Offerings stay.                 *)
SetRetired(p) ==
  /\ Exists(p) /\ Free(p)
  /\ row' = [row EXCEPT ![p] = IF @ = "live" THEN "retired" ELSE "live"]
  /\ UNCHANGED <<shelf, offered, order, element, del>>

-----------------------------------------------------------------------------
(* An order is placed, in a project that may well be retired, and built.   *)

PrepareOrder(o) ==
  /\ order[o].pc = "idle"
  /\ \E p \in offered, j \in Projects :
       /\ row[p] = "live"
       /\ order' = [order EXCEPT ![o] = [pc |-> "prepared", product |-> p, project |-> j]]
  /\ UNCHANGED <<row, shelf, offered, element, del>>

(* What was looked up may be stale by now: only the foreign keys decide.   *)
InsertOrder(o) ==
  /\ order[o].pc = "prepared"
  /\ Free(order[o].product) /\ Free(order[o].project)
  /\ order' = [order EXCEPT ![o].pc =
                 IF Referable(order[o].product) /\ Referable(order[o].project)
                   THEN "placed" ELSE "refused"]
  /\ UNCHANGED <<row, shelf, offered, element, del>>

(* The element row references product and project too.                     *)
Build(o) ==
  /\ order[o].pc = "placed"
  /\ element[o] = "none"
  /\ Free(order[o].product) /\ Free(order[o].project)
  /\ element' = [element EXCEPT ![o] = "active"]
  /\ UNCHANGED <<row, shelf, offered, order, del>>

-----------------------------------------------------------------------------
(* A deletion: read, fire, lock, count, decide.                            *)

InScope(o, t) ==
  /\ order[o].pc = "placed"
  /\ Below(o, t) \/ (t \in Categories /\ shelf[order[o].product] = t)

(* The look at the row before any destroy.  A retired category counts as   *)
(* missing; a project is not looked at unless its owner asks.              *)
Found(t) ==
  /\ t \in Categories => row[t] = "live"
  /\ t \in Products => Exists(t)

Start(d) ==
  /\ del[d].pc = "idle"
  /\ \E t \in Rows :
       /\ Found(t)
       /\ del' = [del EXCEPT ![d].pc = "fire", ![d].target = t,
                    ![d].todo = {o \in Orders : InScope(o, t) /\ element[o] = "active"}]
  /\ UNCHANGED <<row, shelf, offered, order, element>>

(* One element of the list: claimed if it is still active, its destroy     *)
(* fired.  All of its triggers start, or some do, or none does and it is   *)
(* handed back.                                                            *)
Destroy(d) ==
  /\ del[d].pc = "fire"
  /\ \E o \in del[d].todo :
       \/ /\ element[o] # "active"
          /\ del' = [del EXCEPT ![d].todo = @ \ {o}]
          /\ UNCHANGED element
       \/ /\ element[o] = "active"
          /\ \E failed \in BOOLEAN :
               del' = [del EXCEPT ![d].todo = @ \ {o}, ![d].fired = TRUE,
                                  ![d].failed = @ \/ failed]
          /\ element' = [element EXCEPT ![o] = "leaving"]
       \/ /\ element[o] = "active"
          /\ del' = [del EXCEPT ![d].todo = @ \ {o}, ![d].failed = TRUE]
          /\ UNCHANGED element
  /\ UNCHANGED <<row, shelf, offered, order>>

(* 502 if a destroy could not be started.                                  *)
Fired(d) ==
  /\ del[d].pc = "fire"
  /\ del[d].todo = {}
  /\ del' = [del EXCEPT ![d].pc = IF del[d].failed THEN "done" ELSE "lock"]
  /\ UNCHANGED <<row, shelf, offered, order, element>>

(* A faulty variant of the next: the retired product is looked past (#251).*)
LiveOnly(t) == row[t] = "live"

(* The row under the lock: a retired product is deleted like another (#312)*)
Lockable(t) == IF t \in Products THEN Exists(t) ELSE row[t] = "live"

(* What the first lock takes; before it a faulty variant: a category is    *)
(* not locked, only its products are (#195).                               *)
NotCategory(t) == {t} \ Categories
Taken(t)       == {t}

(* FOR UPDATE of the row itself.                                           *)
Lock(d) ==
  LET t == del[d].target IN
  /\ del[d].pc = "lock"
  /\ Free(t)
  /\ IF Lockable(t)
       THEN del' = [del EXCEPT
                      ![d].pc = IF t \in Categories THEN "children" ELSE "count",
                      ![d].held = Taken(t)]
       ELSE del' = [del EXCEPT ![d].pc = "missing"]
  /\ UNCHANGED <<row, shelf, offered, order, element>>

Contents(c) == {p \in Products : Exists(p) /\ shelf[p] = c}

(* FOR UPDATE of the products of a category.                               *)
LockChildren(d) ==
  /\ del[d].pc = "children"
  /\ \A p \in Contents(del[d].target) : Free(p)
  /\ del' = [del EXCEPT ![d].pc = "count",
                        ![d].held = @ \cup Contents(del[d].target)]
  /\ UNCHANGED <<row, shelf, offered, order, element>>

CountOrders(d) ==
  /\ del[d].pc = "count"
  /\ del' = [del EXCEPT ![d].pc = "decide",
               ![d].ordered = \E o \in Orders : order[o].pc = "placed"
                                  /\ \E r \in del[d].held : Below(o, r)]
  /\ UNCHANGED <<row, shelf, offered, order, element>>

Commit(d) == del' = [del EXCEPT ![d].pc = "done", ![d].held = {}]

(* Something was ordered.  A category retires its live products with it,   *)
(* and withdraws what they were offered for.                               *)
Retire(d) ==
  LET t    == del[d].target
      live == IF t \in Categories THEN {p \in Contents(t) : row[p] = "live"} ELSE {}
  IN /\ del[d].pc = "decide" /\ del[d].ordered
     /\ row' = [r \in Rows |-> IF r \in live \cup {t} THEN "retired" ELSE row[r]]
     /\ offered' = offered \ live
     /\ Commit(d)
     /\ UNCHANGED <<shelf, order, element>>

(* Nothing was: the row goes, and what references it goes with it.         *)
Erase(d) ==
  LET t    == del[d].target
      lost == {t} \cup (IF t \in Categories THEN Contents(t) ELSE {})
  IN /\ del[d].pc = "decide" /\ ~del[d].ordered
     /\ row' = [r \in Rows |-> IF r \in lost THEN "gone" ELSE row[r]]
     /\ offered' = offered \ lost
     /\ order' = [o \in Orders |->
                    IF order[o].pc = "placed" /\ \E r \in lost : Below(o, r)
                      THEN [order[o] EXCEPT !.pc = "erased"] ELSE order[o]]
     /\ Commit(d)
     /\ UNCHANGED <<shelf, element>>

(* The process dies, and the database rolls its transaction back.          *)
Crash(d) ==
  /\ del[d].pc \notin {"idle", "done", "missing"}
  /\ Commit(d)
  /\ UNCHANGED <<row, shelf, offered, order, element>>

-----------------------------------------------------------------------------
Next ==
  \/ \E p \in Products :
       \/ CreateProduct(p) \/ MoveProduct(p)
       \/ Offer(p) \/ Withdraw(p) \/ SetRetired(p)
  \/ \E o \in Orders : PrepareOrder(o) \/ InsertOrder(o) \/ Build(o)
  \/ \E d \in Deletions :
       \/ Start(d) \/ Destroy(d) \/ Fired(d) \/ Lock(d) \/ LockChildren(d)
       \/ CountOrders(d) \/ Retire(d) \/ Erase(d) \/ Crash(d)

Spec == Init /\ [][Next]_vars

-----------------------------------------------------------------------------
(* Safety.                                                                 *)

(* No order that was ever placed is deleted with the product, the category *)
(* or the project it belongs to, however it and the deletion interleave:   *)
(* order history is what deletions must keep (#142, #187, #195).           *)
OrdersAreKept == \A o \in Orders : order[o].pc # "erased"

(* A deletion that has begun to destroy answers "not found" only if there  *)
(* is nothing left to find: the product is gone, the category or project   *)
(* is off every screen (deleteProduct, on locking by id alone).            *)
NotFoundIsTrue ==
  \A d \in Deletions :
    del[d].pc = "missing" /\ del[d].fired =>
      row[del[d].target] \in IF del[d].target \in Products THEN {"gone"}
                                                           ELSE {"retired", "gone"}
=============================================================================
