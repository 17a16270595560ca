--------------------------- MODULE CatalogueProofs ---------------------------
(***************************************************************************)
(* Proofs about Catalogue, for any number of rows, orders and deletions:   *)
(* its type invariant with the foreign keys in it, that no order is ever   *)
(* deleted, and that "not found" is true.                                  *)
(*                                                                         *)
(* The invariant says what a deletion holds at each step -- the row itself,*)
(* and with a category everything in it --, that no two of them hold the   *)
(* same row, and that what was counted stays counted while it is held.     *)
(***************************************************************************)
EXTENDS Catalogue, TLAPS

(* Everything that goes when t is erased.                                  *)
Under(t) == {t} \cup (IF t \in Categories THEN Contents(t) ELSE {})

Locking == {"children", "count", "decide"}

(* What a deletion is about, and what it holds.                            *)
HoldsAt(d) ==
  /\ del[d].pc # "idle" => del[d].target \in Rows
  /\ del[d].pc \notin Locking => del[d].held = {}
  /\ del[d].pc \in Locking => Exists(del[d].target)
  /\ del[d].pc = "children" =>
       del[d].target \in Categories /\ del[d].held = {del[d].target}
  /\ del[d].pc \in {"count", "decide"} => del[d].held = Under(del[d].target)

Holds == \A d \in Deletions : HoldsAt(d)

Exclusive ==
  \A d, e \in Deletions : d # e => del[d].held \cap del[e].held = {}

(* While it decides that nothing was ordered, nothing is.                  *)
Counted ==
  \A d \in Deletions : del[d].pc = "decide" /\ ~del[d].ordered =>
    \A o \in Orders : order[o].pc = "placed" =>
      \A r \in del[d].held : ~Below(o, r)

(* An order that waits to be inserted names a product and a project.       *)
Named ==
  \A o \in Orders : order[o].pc = "prepared" =>
    order[o].product \in Products /\ order[o].project \in Projects

(* Categories and projects have always been there, and so has what a       *)
(* deletion is about.                                                      *)
Met ==
  /\ \A r \in Categories \cup Projects : row[r] # "none"
  /\ \A d \in Deletions : del[d].pc # "idle" => row[del[d].target] # "none"

CInv ==
  TypeOK /\ Holds /\ Exclusive /\ Counted /\ Named /\ Met /\ OrdersAreKept
    /\ NotFoundIsTrue

-----------------------------------------------------------------------------
LEMMA InitHolds == Init => CInv
<1> SUFFICES ASSUME Init PROVE CInv
  OBVIOUS
<1> USE DEF Init
<1>1. TypeOK
  BY DEF TypeOK, OrderRecord, DeletionRecord, Rows, NoRow, Exists
<1>2. Holds /\ Exclusive /\ Counted /\ Named /\ OrdersAreKept /\ NotFoundIsTrue
  BY DEF Holds, HoldsAt, Exclusive, Counted, Named, OrdersAreKept, NotFoundIsTrue, Locking
<1>3. Met
  BY DEF Met
<1> QED
  BY <1>1, <1>2, <1>3 DEF CInv

-----------------------------------------------------------------------------
(* Steps that leave the deletions alone.  What matters of them: a row that *)
(* is there stays, one that is held does not change, nothing is moved or   *)
(* inserted under a row that is held.                                      *)
Quiet ==
  /\ del' = del
  /\ row' \in [Rows -> {"none", "live", "retired", "gone"}]
  /\ shelf' \in [Products -> Categories]
  /\ order' \in [Orders -> OrderRecord]
  /\ \A r \in Rows : Exists(r) => Exists(r)'
  /\ \A r \in Rows : row[r] = "gone" => row'[r] = "gone"
  /\ \A r \in Categories \cup Projects : row'[r] = row[r]
  /\ \A p \in Products : Exists(p)' /\ ~(Exists(p) /\ shelf'[p] = shelf[p]) =>
       Free(shelf'[p]) /\ Exists(shelf'[p]) /\ (Exists(p) => Free(p))
  /\ \A o \in Orders : order'[o].pc # "erased"
  /\ \A o \in Orders : order'[o].pc = "prepared" =>
       order'[o].product \in Products /\ order'[o].project \in Projects
  /\ \A o \in Orders : order'[o].pc = "placed" =>
       order'[o] = order[o]
         \/ (/\ order'[o].product \in Products /\ Referable(order'[o].product)
             /\ order'[o].project \in Projects /\ Referable(order'[o].project))

LEMMA QuietSteps ==
  ASSUME CInv,
         \/ \E p \in Products :
              \/ CreateProduct(p) \/ MoveProduct(p)
              \/ Offer(p) \/ Withdraw(p) \/ SetRetired(p)
         \/ \E o \in Orders : PrepareOrder(o) \/ InsertOrder(o) \/ Build(o)
  PROVE  Quiet /\ TypeOK'
<1> USE DEF CInv
<1>r. row \in [Rows -> {"none", "live", "retired", "gone"}] /\ shelf \in [Products -> Categories]
      /\ order \in [Orders -> OrderRecord]
  BY DEF TypeOK
<1>s. \A p \in Products : p \in Rows
  BY DEF Rows
<1>c. \A p \in Products, r \in Categories \cup Projects : p # r
  BY CatalogueAssumption
<1>1. ASSUME NEW p \in Products, CreateProduct(p) PROVE Quiet /\ TypeOK'
  <2>1. PICK c \in Categories : Referable(c) /\ shelf' = [shelf EXCEPT ![p] = c]
    BY <1>1 DEF CreateProduct
  <2>2. row' = [row EXCEPT ![p] = "live"] /\ UNCHANGED <<offered, order, element, del>> /\ row[p] = "none"
    BY <1>1 DEF CreateProduct
  <2>3. row' \in [Rows -> {"none", "live", "retired", "gone"}] /\ shelf' \in [Products -> Categories]
    BY <2>1, <2>2, <1>r, <1>s
  <2>4. \A r \in Rows : Exists(r) => Exists(r)'
    BY <2>2, <1>r, <1>s DEF Exists
  <2>5. Quiet
    BY <2>1, <2>2, <2>3, <2>4, <1>r, <1>s, <1>c DEF Quiet, Exists, Referable, Named, OrdersAreKept, Rows
  <2>7. \A q \in Products : Exists(q)' => (Exists(shelf[q]))'
    BY <2>1, <2>2, <2>4, <1>r, <1>s, <1>c DEF TypeOK, Exists, Rows, Referable
  <2>8. TypeOK'
    BY <2>2, <2>3, <2>4, <2>7, <1>s DEF TypeOK, Rows
  <2> QED
    BY <2>5, <2>8
<1>2. ASSUME NEW p \in Products, MoveProduct(p) PROVE Quiet /\ TypeOK'
  <2>1. PICK c \in Categories : Referable(c) /\ shelf' = [shelf EXCEPT ![p] = c]
    BY <1>2 DEF MoveProduct
  <2>2. UNCHANGED <<row, offered, order, element, del>> /\ Exists(p) /\ Free(p)
    BY <1>2 DEF MoveProduct
  <2>3. shelf' \in [Products -> Categories]
    BY <2>1, <1>r
  <2>5. Quiet
    BY <2>1, <2>2, <2>3, <1>r, <1>s DEF Quiet, Exists, Referable, Named, OrdersAreKept
  <2>7. \A q \in Products : Exists(q)' => (Exists(shelf[q]))'
    BY <2>1, <2>2, <1>r, <1>s DEF TypeOK, Exists, Referable
  <2>8. TypeOK'
    BY <2>2, <2>3, <2>7, <1>s DEF TypeOK, Exists
  <2> QED
    BY <2>5, <2>8
<1>3. ASSUME NEW p \in Products, Offer(p) PROVE Quiet /\ TypeOK'
  <2>1. UNCHANGED <<row, shelf, order, element, del>> /\ offered' = offered \cup {p}
    BY <1>3 DEF Offer
  <2>2. Quiet
    BY <2>1, <1>r DEF Quiet, Exists, Named, OrdersAreKept
  <2>3. TypeOK'
    BY <2>1 DEF TypeOK, Exists
  <2> QED
    BY <2>2, <2>3
<1>8. ASSUME NEW p \in Products, Withdraw(p) PROVE Quiet /\ TypeOK'
  <2>1. UNCHANGED <<row, shelf, order, element, del>> /\ offered' = offered \ {p}
    BY <1>8 DEF Withdraw
  <2>2. Quiet
    BY <2>1, <1>r DEF Quiet, Exists, Named, OrdersAreKept
  <2>3. TypeOK'
    BY <2>1 DEF TypeOK, Exists
  <2> QED
    BY <2>2, <2>3
<1>4. ASSUME NEW p \in Products, SetRetired(p) PROVE Quiet /\ TypeOK'
  <2>1. UNCHANGED <<shelf, offered, order, element, del>> /\ Exists(p) /\ Free(p)
        /\ row' = [row EXCEPT ![p] = IF @ = "live" THEN "retired" ELSE "live"]
    BY <1>4 DEF SetRetired
  <2>2. row' \in [Rows -> {"none", "live", "retired", "gone"}]
        /\ \A r \in Rows : Exists(r)' <=> Exists(r)
    BY <2>1, <1>r, <1>s DEF Exists
  <2>3. Quiet
    BY <2>1, <2>2, <1>r, <1>s, <1>c DEF Quiet, Exists, Named, OrdersAreKept, Rows
  <2>4. TypeOK'
    BY <2>1, <2>2, <1>r, <1>s DEF TypeOK, Rows
  <2> QED
    BY <2>3, <2>4
<1>5. ASSUME NEW o \in Orders, PrepareOrder(o) PROVE Quiet /\ TypeOK'
  <2>1. UNCHANGED <<row, shelf, offered, element, del>>
    BY <1>5 DEF PrepareOrder
  <2>2. PICK p \in offered, j \in Projects :
          order' = [order EXCEPT ![o] = [pc |-> "prepared", product |-> p, project |-> j]]
    BY <1>5 DEF PrepareOrder
  <2>3. order' \in [Orders -> OrderRecord] /\ p \in Products
    BY <2>2, <1>r DEF TypeOK, OrderRecord
  <2>4. Quiet
    BY <2>1, <2>2, <2>3, <1>r DEF Quiet, Exists, Named, OrdersAreKept
  <2>5. TypeOK'
    BY <2>1, <2>2, <2>3, <1>r DEF TypeOK, Exists
  <2> QED
    BY <2>4, <2>5
<1>6. ASSUME NEW o \in Orders, InsertOrder(o) PROVE Quiet /\ TypeOK'
  <2> DEFINE fits == Referable(order[o].product) /\ Referable(order[o].project)
  <2> DEFINE pc == IF fits THEN "placed" ELSE "refused"
  <2>1. UNCHANGED <<row, shelf, offered, element, del>> /\ order[o].pc = "prepared"
        /\ order' = [order EXCEPT ![o].pc = pc]
    BY <1>6 DEF InsertOrder
  <2>2. order[o].product \in Products /\ order[o].project \in Projects
    BY <2>1 DEF Named
  <2>3. pc \in {"placed", "refused"} /\ (pc = "placed" => fits)
    OBVIOUS
  <2> HIDE DEF pc
  <2>4. order' \in [Orders -> OrderRecord]
    BY <2>1, <2>3, <1>r DEF OrderRecord
  <2>5. \A x \in Orders : x # o => order'[x] = order[x]
    BY <2>1, <1>r
  <2>6. order'[o].pc = pc /\ order'[o].product = order[o].product /\ order'[o].project = order[o].project
    BY <2>1, <1>r DEF OrderRecord
  <2>7. Quiet
    BY <2>1, <2>2, <2>3, <2>4, <2>5, <2>6, <1>r DEF Quiet, Exists, Named, OrdersAreKept
  <2>8. TypeOK'
    BY <2>1, <2>2, <2>3, <2>4, <2>5, <2>6, <1>r DEF TypeOK, Exists, Referable
  <2> QED
    BY <2>7, <2>8
<1>7. ASSUME NEW o \in Orders, Build(o) PROVE Quiet /\ TypeOK'
  <2>1. UNCHANGED <<row, shelf, offered, order, del>> /\ element' = [element EXCEPT ![o] = "active"]
    BY <1>7 DEF Build
  <2>2. Quiet
    BY <2>1, <1>r DEF Quiet, Exists, Named, OrdersAreKept
  <2>3. TypeOK'
    BY <2>1 DEF TypeOK, Exists
  <2> QED
    BY <2>2, <2>3
<1> QED
  BY <1>1, <1>2, <1>3, <1>4, <1>5, <1>6, <1>7, <1>8

LEMMA QuietKeeps ==
  ASSUME CInv, Quiet, TypeOK' PROVE CInv'
<1> USE DEF CInv
<1>d. del' = del
  BY DEF Quiet
<1>t. \A d \in Deletions : del[d].pc # "idle" => del[d].target \in Rows
  BY DEF Holds, HoldsAt
<1>1. ASSUME NEW d \in Deletions, del[d].pc \in {"count", "decide"}
      PROVE  Under(del[d].target)' = Under(del[d].target)
  <2> DEFINE t == del[d].target
  <2>1. t' = t /\ t \in Rows /\ del[d].held = Under(t)
    BY <1>1, <1>d, <1>t DEF Holds, HoldsAt
  <2>2. CASE t \in Categories
    <3>1. ASSUME NEW p \in Products, Exists(p), shelf[p] = t
          PROVE  Exists(p)' /\ shelf'[p] = t
      <4>1. Exists(p)'
        BY <3>1 DEF Quiet, Rows
      <4>2. p \in del[d].held
        BY <2>1, <2>2, <3>1 DEF Under, Contents
      <4>3. ~Free(p)
        BY <4>2 DEF Free
      <4> QED
        BY <3>1, <4>1, <4>3 DEF Quiet
    <3>2. ASSUME NEW p \in Products, Exists(p)', shelf'[p] = t
          PROVE  Exists(p) /\ shelf[p] = t
      <4>1. t \in del[d].held
        BY <2>1 DEF Under
      <4>2. ~Free(t)
        BY <4>1 DEF Free
      <4> QED
        BY <3>2, <4>2 DEF Quiet
    <3>3. Contents(t)' = Contents(t)
      BY <3>1, <3>2, <2>1 DEF Contents
    <3> QED
      BY <3>3, <2>1, <2>2 DEF Under
  <2>3. CASE t \notin Categories
    BY <2>3, <2>1 DEF Under
  <2> QED
    BY <2>2, <2>3
<1>2. Holds'
  <2>1. \A d \in Deletions : del[d].pc \in Locking => Exists(del[d].target)'
    BY <1>d, <1>t DEF Quiet, Holds, HoldsAt, Locking, Exists
  <2>2. \A d \in Deletions : del[d].pc \in {"count", "decide"} =>
          del[d].held = Under(del[d].target)'
    BY <1>1, <1>d DEF Holds, HoldsAt
  <2> QED
    BY <1>d, <2>1, <2>2 DEF Holds, HoldsAt
<1>3. Exclusive'
  BY <1>d DEF Exclusive
<1>4. Counted'
  <2> SUFFICES ASSUME NEW d \in Deletions, del[d].pc = "decide", ~del[d].ordered,
                      NEW o \in Orders, order'[o].pc = "placed",
                      NEW r \in del[d].held
               PROVE  r \notin {order'[o].product, order'[o].project}
    BY <1>d DEF Counted, Below
  <2>1. CASE order'[o] = order[o]
    BY <2>1 DEF Counted, Below
  <2>2. CASE Referable(order'[o].product) /\ Referable(order'[o].project)
    BY <2>2 DEF Referable, Free
  <2> QED
    BY <2>1, <2>2 DEF Quiet
<1>5. Named' /\ OrdersAreKept'
  BY DEF Quiet, Named, OrdersAreKept
<1>6. Met'
  <2>1. \A r \in Rows : row[r] # "none" => row'[r] # "none"
    BY DEF Quiet, Exists, TypeOK
  <2> QED
    BY <2>1, <1>d, <1>t DEF Met, Rows
<1>7. NotFoundIsTrue'
  <2> SUFFICES ASSUME NEW d \in Deletions, del[d].pc = "missing", del[d].fired
               PROVE  row'[del[d].target] \in IF del[d].target \in Products
                                                THEN {"gone"} ELSE {"retired", "gone"}
    BY <1>d DEF NotFoundIsTrue
  <2>1. del[d].target \in Rows
    BY <1>t
  <2>2. row[del[d].target] \in IF del[d].target \in Products
                                 THEN {"gone"} ELSE {"retired", "gone"}
    BY DEF NotFoundIsTrue
  <2> QED
    BY <2>1, <2>2 DEF Quiet, Rows
<1> QED
  BY <1>2, <1>3, <1>4, <1>5, <1>6, <1>7

-----------------------------------------------------------------------------
(* The steps of a deletion before it decides: no row changes, and none but *)
(* its own record.  What it holds afterwards is the business of each.      *)
Own(d) ==
  /\ UNCHANGED <<row, shelf, offered, order>>
  /\ element' \in [Orders -> {"none", "active", "leaving"}]
  /\ del' \in [Deletions -> DeletionRecord]
  /\ \A e \in Deletions \ {d} : del'[e] = del[e]

(* Such a step keeps the invariant if what it makes of its own record fits.*)
Fits(d) ==
  LET new == del'[d] IN
  /\ new.pc # "idle" => new.target \in Rows /\ row[new.target] # "none"
  /\ new.pc \notin Locking => new.held = {}
  /\ new.pc \in Locking => Exists(new.target)
  /\ new.pc = "children" => new.target \in Categories /\ new.held = {new.target}
  /\ new.pc \in {"count", "decide"} => new.held = Under(new.target)
  /\ \A r \in new.held : \A e \in Deletions \ {d} : r \notin del[e].held
  /\ new.pc = "decide" /\ ~new.ordered =>
       \A o \in Orders : order[o].pc = "placed" => \A r \in new.held : ~Below(o, r)
  /\ new.pc = "missing" /\ new.fired =>
       row[new.target] \in IF new.target \in Products THEN {"gone"} ELSE {"retired", "gone"}

LEMMA OwnKeeps ==
  ASSUME CInv, NEW d \in Deletions, Own(d), Fits(d) PROVE CInv'
<1> USE DEF CInv
<1>1. \A e \in Deletions : e # d => del'[e] = del[e]
  BY DEF Own
<1>2. TypeOK'
  BY DEF Own, TypeOK, Exists
<1>3. Holds'
  <2>1. \A r : Exists(r)' <=> Exists(r)
    BY DEF Own, Exists
  <2>2. \A t : Under(t)' = Under(t)
    BY <2>1 DEF Own, Under, Contents
  <2>3. HoldsAt(d)'
    BY <2>1, <2>2 DEF Fits, HoldsAt, Own, Exists, Under, Contents
  <2>4. ASSUME NEW e \in Deletions, e # d PROVE HoldsAt(e)'
    BY <2>1, <2>2, <2>4, <1>1 DEF Holds, HoldsAt, Own, Exists, Under, Contents
  <2> QED
    BY <2>3, <2>4 DEF Holds
<1>4. Exclusive'
  <2> SUFFICES ASSUME NEW e \in Deletions, NEW f \in Deletions, e # f
               PROVE  del'[e].held \cap del'[f].held = {}
    BY DEF Exclusive
  <2>1. CASE e # d /\ f # d
    BY <2>1, <1>1 DEF Exclusive
  <2>2. CASE e = d
    BY <2>2, <1>1 DEF Fits
  <2>3. CASE f = d
    BY <2>3, <1>1 DEF Fits
  <2> QED
    BY <2>1, <2>2, <2>3
<1>5. Counted'
  <2> SUFFICES ASSUME NEW e \in Deletions, del'[e].pc = "decide", ~del'[e].ordered,
                      NEW o \in Orders, order[o].pc = "placed", NEW r \in del'[e].held
               PROVE  ~Below(o, r)
    BY DEF Counted, Own, Below
  <2>1. CASE e = d
    BY <2>1 DEF Fits
  <2>2. CASE e # d
    BY <2>2, <1>1 DEF Counted
  <2> QED
    BY <2>1, <2>2
<1>6. Named' /\ OrdersAreKept'
  BY DEF Own, Named, OrdersAreKept
<1>7. Met'
  BY <1>1 DEF Own, Fits, Met
<1>8. NotFoundIsTrue'
  <2> SUFFICES ASSUME NEW e \in Deletions, del'[e].pc = "missing", del'[e].fired
               PROVE  row[del'[e].target] \in IF del'[e].target \in Products
                                                THEN {"gone"} ELSE {"retired", "gone"}
    BY DEF NotFoundIsTrue, Own
  <2>1. CASE e = d
    BY <2>1 DEF Fits
  <2>2. CASE e # d
    BY <2>2, <1>1 DEF NotFoundIsTrue
  <2> QED
    BY <2>1, <2>2
<1> QED
  BY <1>2, <1>3, <1>4, <1>5, <1>6, <1>7, <1>8

LEMMA OwnSteps ==
  ASSUME CInv, NEW d \in Deletions,
         \/ Start(d) \/ Destroy(d) \/ Fired(d) \/ Lock(d) \/ LockChildren(d)
         \/ CountOrders(d) \/ Crash(d)
  PROVE  CInv'
<1> USE DEF CInv
<1>t. del \in [Deletions -> DeletionRecord] /\ element \in [Orders -> {"none", "active", "leaving"}]
      /\ row \in [Rows -> {"none", "live", "retired", "gone"}]
  BY DEF TypeOK
<1>f. del[d] \in DeletionRecord
  BY <1>t
<1>m. \A r \in Categories \cup Projects : row[r] # "none"
  BY DEF Met
<1>w. del[d].pc # "idle" => del[d].target \in Rows /\ row[del[d].target] # "none"
  BY DEF Holds, HoldsAt, Met
<1>x. \A r \in del[d].held : \A e \in Deletions \ {d} : r \notin del[e].held
  BY DEF Exclusive
<1> SUFFICES Own(d) /\ Fits(d)
  BY OwnKeeps
<1>1. CASE Start(d)
  <2>1. PICK t \in Rows :
          /\ Found(t)
          /\ del' = [del EXCEPT ![d].pc = "fire", ![d].target = t,
                       ![d].todo = {o \in Orders : InScope(o, t) /\ element[o] = "active"}]
    BY <1>1 DEF Start
  <2> DEFINE todo == {o \in Orders : InScope(o, t) /\ element[o] = "active"}
  <2>2. UNCHANGED <<row, shelf, offered, order, element>> /\ del[d].pc = "idle"
    BY <1>1 DEF Start
  <2>3. todo \in SUBSET Orders
    OBVIOUS
  <2>4. del' = [del EXCEPT ![d].pc = "fire", ![d].target = t, ![d].todo = todo]
    BY <2>1
  <2> HIDE DEF todo
  <2>5. Own(d)
    BY <2>2, <2>3, <2>4, <1>t, <1>f DEF Own, DeletionRecord
  <2>6. del'[d].pc = "fire" /\ del'[d].target = t /\ del'[d].held = del[d].held
    BY <2>4, <1>t, <1>f DEF DeletionRecord
  <2>7. row[t] # "none"
    BY <2>1, <1>m DEF Found, Exists, Rows
  <2>8. del[d].held = {}
    BY <2>2 DEF Holds, HoldsAt, Locking
  <2> QED
    BY <2>5, <2>6, <2>7, <2>8 DEF Fits, Locking
<1>2. CASE Destroy(d)
  <2>1. PICK new \in DeletionRecord, place \in [Orders -> {"none", "active", "leaving"}] :
          /\ del' = [del EXCEPT ![d] = new]
          /\ element' = place
          /\ new.pc = "fire" /\ new.target = del[d].target /\ new.held = del[d].held
    <3>1. PICK o \in del[d].todo :
             \/ /\ element[o] # "active"
                /\ del' = [del EXCEPT ![d].todo = @ \ {o}]
                /\ UNCHANGED element
             \/ /\ element[o] = "active"
                /\ \E failed \in BOOLEAN :
                     del' = [del EXCEPT ![d].todo = @ \ {o}, ![d].fired = TRUE,
                                        ![d].failed = @ \/ failed]
                /\ element' = [element EXCEPT ![o] = "leaving"]
             \/ /\ element[o] = "active"
                /\ del' = [del EXCEPT ![d].todo = @ \ {o}, ![d].failed = TRUE]
                /\ UNCHANGED element
      BY <1>2 DEF Destroy
    <3>2. del[d].pc = "fire"
      BY <1>2 DEF Destroy
    <3>3. del[d].todo \ {o} \in SUBSET Orders
      BY <1>f DEF DeletionRecord
    <3>4. CASE element[o] # "active" /\ del' = [del EXCEPT ![d].todo = @ \ {o}] /\ UNCHANGED element
      <4> DEFINE new == [del[d] EXCEPT !.todo = @ \ {o}]
      <4>1. /\ new \in DeletionRecord /\ new.pc = "fire"
            /\ new.target = del[d].target /\ new.held = del[d].held
        BY <3>2, <3>3, <1>f DEF DeletionRecord
      <4>2. del' = [del EXCEPT ![d] = new]
        BY <3>4, <1>t
      <4> HIDE DEF new
      <4> QED
        BY <4>1, <4>2, <3>4, <1>t
    <3>5. ASSUME NEW failed \in BOOLEAN,
                 del' = [del EXCEPT ![d].todo = @ \ {o}, ![d].fired = TRUE, ![d].failed = @ \/ failed],
                 element' = [element EXCEPT ![o] = "leaving"]
          PROVE  \E new \in DeletionRecord, place \in [Orders -> {"none", "active", "leaving"}] :
                   /\ del' = [del EXCEPT ![d] = new]
                   /\ element' = place
                   /\ new.pc = "fire" /\ new.target = del[d].target /\ new.held = del[d].held
      <4> DEFINE or == del[d].failed \/ failed
      <4> DEFINE new == [del[d] EXCEPT !.todo = @ \ {o}, !.fired = TRUE, !.failed = or]
      <4>0. or \in BOOLEAN
        OBVIOUS
      <4>2. del' = [del EXCEPT ![d] = new]
        BY <3>5, <1>t
      <4> HIDE DEF or
      <4>1. /\ new \in DeletionRecord /\ new.pc = "fire"
            /\ new.target = del[d].target /\ new.held = del[d].held
        BY <4>0, <3>2, <3>3, <1>f DEF DeletionRecord
      <4>3. [element EXCEPT ![o] = "leaving"] \in [Orders -> {"none", "active", "leaving"}]
        BY <1>t
      <4> HIDE DEF new
      <4> QED
        BY <4>1, <4>2, <4>3, <3>5
    <3>6. CASE /\ element[o] = "active"
               /\ del' = [del EXCEPT ![d].todo = @ \ {o}, ![d].failed = TRUE]
               /\ UNCHANGED element
      <4> DEFINE new == [del[d] EXCEPT !.todo = @ \ {o}, !.failed = TRUE]
      <4>1. /\ new \in DeletionRecord /\ new.pc = "fire"
            /\ new.target = del[d].target /\ new.held = del[d].held
        BY <3>2, <3>3, <1>f DEF DeletionRecord
      <4>2. del' = [del EXCEPT ![d] = new]
        BY <3>6, <1>t
      <4> HIDE DEF new
      <4> QED
        BY <4>1, <4>2, <3>6, <1>t
    <3> QED
      BY <3>1, <3>4, <3>5, <3>6
  <2>2. UNCHANGED <<row, shelf, offered, order>> /\ del[d].pc = "fire"
    BY <1>2 DEF Destroy
  <2>3. Own(d)
    BY <2>1, <2>2, <1>t DEF Own
  <2>4. del'[d] = new
    BY <2>1, <1>t
  <2> QED
    BY <2>1, <2>2, <2>3, <2>4, <1>w, <1>x DEF Fits, Holds, HoldsAt, Locking
<1>3. CASE Fired(d)
  <2> DEFINE pc == IF del[d].failed THEN "done" ELSE "lock"
  <2>1. del' = [del EXCEPT ![d].pc = pc] /\ UNCHANGED <<row, shelf, offered, order, element>>
        /\ del[d].pc = "fire"
    BY <1>3 DEF Fired
  <2>2. pc \in {"done", "lock"}
    OBVIOUS
  <2> HIDE DEF pc
  <2>3. Own(d)
    BY <2>1, <2>2, <1>t, <1>f DEF Own, DeletionRecord
  <2>4. del'[d].pc = pc /\ del'[d].target = del[d].target /\ del'[d].held = del[d].held
    BY <2>1, <1>t, <1>f DEF DeletionRecord
  <2> QED
    BY <2>1, <2>2, <2>3, <2>4, <1>w, <1>x DEF Fits, Holds, HoldsAt, Locking
<1>4. CASE Lock(d)
  <2> DEFINE t == del[d].target
  <2>0. UNCHANGED <<row, shelf, offered, order, element>> /\ del[d].pc = "lock" /\ Free(t)
    BY <1>4 DEF Lock
  <2>1. t \in Rows /\ row[t] # "none" /\ del[d].held = {}
    BY <2>0, <1>w DEF Holds, HoldsAt, Locking
  <2>2. CASE Lockable(t)
    <3> DEFINE pc == IF t \in Categories THEN "children" ELSE "count"
    <3>1. del' = [del EXCEPT ![d].pc = pc, ![d].held = {t}]
      BY <1>4, <2>2 DEF Lock, Taken
    <3>2. pc \in {"children", "count"} /\ (pc = "children" <=> t \in Categories)
      OBVIOUS
    <3>3. Exists(t)
      BY <2>2 DEF Lockable, Exists
    <3> HIDE DEF pc
    <3>4. Own(d)
      BY <2>0, <2>1, <3>1, <3>2, <1>t, <1>f DEF Own, DeletionRecord
    <3>5. del'[d].pc = pc /\ del'[d].target = t /\ del'[d].held = {t}
      BY <3>1, <1>t, <1>f DEF DeletionRecord
    <3>6. t \notin Categories => {t} = Under(t)
      BY DEF Under
    <3> QED
      BY <2>0, <2>1, <3>2, <3>3, <3>4, <3>5, <3>6 DEF Fits, Locking, Free
  <2>3. CASE ~Lockable(t)
    <3>1. del' = [del EXCEPT ![d].pc = "missing"]
      BY <1>4, <2>3 DEF Lock
    <3>2. Own(d)
      BY <2>0, <3>1, <1>t, <1>f DEF Own, DeletionRecord
    <3>3. del'[d].pc = "missing" /\ del'[d].target = t /\ del'[d].held = {}
      BY <2>1, <3>1, <1>t, <1>f DEF DeletionRecord
    <3>4. row[t] \in IF t \in Products THEN {"gone"} ELSE {"retired", "gone"}
      BY <2>1, <2>3, <1>t DEF Lockable, Exists
    <3> QED
      BY <2>1, <3>2, <3>3, <3>4 DEF Fits, Locking
  <2> QED
    BY <2>2, <2>3
<1>5. CASE LockChildren(d)
  <2> DEFINE t == del[d].target
  <2>0. UNCHANGED <<row, shelf, offered, order, element>> /\ del[d].pc = "children"
        /\ \A p \in Contents(t) : Free(p)
    BY <1>5 DEF LockChildren
  <2>1. t \in Categories /\ del[d].held = {t} /\ Exists(t) /\ t \in Rows /\ row[t] # "none"
    BY <2>0, <1>w DEF Holds, HoldsAt, Locking
  <2>2. del[d].held \cup Contents(t) = Under(t)
    BY <2>1 DEF Under
  <2>3. del' = [del EXCEPT ![d].pc = "count", ![d].held = Under(t)]
    BY <1>5, <2>2, <1>t DEF LockChildren
  <2>4. Under(t) \in SUBSET Rows
    BY <2>1 DEF Under, Contents, Rows
  <2>5. Own(d)
    BY <2>0, <2>3, <2>4, <1>t, <1>f DEF Own, DeletionRecord
  <2>6. del'[d].pc = "count" /\ del'[d].target = t /\ del'[d].held = Under(t)
    BY <2>3, <1>t, <1>f DEF DeletionRecord
  <2>7. \A r \in Under(t) : \A e \in Deletions \ {d} : r \notin del[e].held
    BY <2>0, <2>1, <1>x DEF Under, Free
  <2> QED
    BY <2>1, <2>5, <2>6, <2>7 DEF Fits, Locking
<1>6. CASE CountOrders(d)
  <2> DEFINE any == \E o \in Orders : order[o].pc = "placed" /\ \E r \in del[d].held : Below(o, r)
  <2>0. UNCHANGED <<row, shelf, offered, order, element>> /\ del[d].pc = "count"
        /\ del' = [del EXCEPT ![d].pc = "decide", ![d].ordered = any]
    BY <1>6 DEF CountOrders
  <2>1. any \in BOOLEAN
    OBVIOUS
  <2>2. ~any => \A o \in Orders : order[o].pc = "placed" => \A r \in del[d].held : ~Below(o, r)
    OBVIOUS
  <2> HIDE DEF any
  <2>3. Own(d)
    BY <2>0, <2>1, <1>t, <1>f DEF Own, DeletionRecord
  <2>4. del'[d].pc = "decide" /\ del'[d].target = del[d].target /\ del'[d].held = del[d].held
    BY <2>0, <1>t, <1>f DEF DeletionRecord
  <2>5. del'[d].ordered = any
    BY <2>0, <1>t, <1>f DEF DeletionRecord
  <2>6. del[d].target \in Rows /\ row[del[d].target] # "none" /\ Exists(del[d].target)
        /\ del[d].held = Under(del[d].target)
    BY <2>0, <1>w DEF Holds, HoldsAt, Locking
  <2>7. del'[d].pc = "decide" /\ ~del'[d].ordered =>
          \A o \in Orders : order[o].pc = "placed" => \A r \in del'[d].held : ~Below(o, r)
    BY <2>2, <2>4, <2>5
  <2> QED
    BY <2>3, <2>4, <2>6, <2>7, <1>x DEF Fits, Locking
<1>7. CASE Crash(d)
  <2>1. UNCHANGED <<row, shelf, offered, order, element>> /\ del[d].pc # "idle"
        /\ del' = [del EXCEPT ![d].pc = "done", ![d].held = {}]
    BY <1>7 DEF Crash, Commit
  <2>2. Own(d)
    BY <2>1, <1>t, <1>f DEF Own, DeletionRecord
  <2>3. del'[d].pc = "done" /\ del'[d].target = del[d].target /\ del'[d].held = {}
    BY <2>1, <1>t, <1>f DEF DeletionRecord
  <2> QED
    BY <2>1, <2>2, <2>3, <1>w DEF Fits, Locking
<1> QED
  BY <1>1, <1>2, <1>3, <1>4, <1>5, <1>6, <1>7

-----------------------------------------------------------------------------
(* The decision.  Both outcomes touch only what the deletion holds.        *)

LEMMA RetireKeeps ==
  ASSUME CInv, NEW d \in Deletions, Retire(d) PROVE CInv'
<1> USE DEF CInv
<1> DEFINE t == del[d].target
<1> DEFINE live == IF t \in Categories THEN {p \in Contents(t) : row[p] = "live"} ELSE {}
<1>0. /\ del[d].pc = "decide"
      /\ row' = [r \in Rows |-> IF r \in live \cup {t} THEN "retired" ELSE row[r]]
      /\ offered' = offered \ live
      /\ del' = [del EXCEPT ![d].pc = "done", ![d].held = {}]
      /\ UNCHANGED <<shelf, order, element>>
  BY DEF Retire, Commit
<1>t. /\ row \in [Rows -> {"none", "live", "retired", "gone"}]
      /\ del \in [Deletions -> DeletionRecord] /\ del[d] \in DeletionRecord
  BY DEF TypeOK
<1>1. t \in Rows /\ Exists(t) /\ del[d].held = Under(t)
  BY <1>0 DEF Holds, HoldsAt, Locking
<1>2. \A r \in Rows : Exists(r)' <=> Exists(r)
  BY <1>0, <1>1, <1>t DEF Exists, Contents
<1>3. row' \in [Rows -> {"none", "live", "retired", "gone"}]
      /\ (\A r \in Rows : row[r] = "gone" => row'[r] = "gone")
      /\ (\A r \in Rows : row[r] # "none" => row'[r] # "none")
      /\ (\A r \in Rows : row[r] = "retired" => row'[r] = "retired")
  BY <1>0, <1>1, <1>t DEF Exists, Contents
<1> HIDE DEF live
<1>4. /\ del' \in [Deletions -> DeletionRecord]
      /\ \A e \in Deletions : e # d => del'[e] = del[e]
      /\ del'[d].pc = "done" /\ del'[d].target = t /\ del'[d].held = {}
  BY <1>0, <1>t DEF DeletionRecord
<1>5. TypeOK'
  <2>1. \A p \in Products : Exists(p)' => Exists(shelf[p])'
    BY <1>0, <1>2 DEF TypeOK, Rows
  <2>2. \A o \in Orders : order[o].pc = "placed" =>
          /\ order[o].product \in Products /\ Exists(order[o].product)'
          /\ order[o].project \in Projects /\ Exists(order[o].project)'
    BY <1>0, <1>2 DEF TypeOK, Rows
  <2>3. offered' \subseteq Products
    BY <1>0 DEF TypeOK
  <2> QED
    BY <1>0, <1>3, <1>4, <2>1, <2>2, <2>3 DEF TypeOK
<1>6. Holds'
  <2>1. \A x \in Categories : Contents(x)' = Contents(x)
    BY <1>0, <1>2 DEF Contents, Rows
  <2>2. \A x : Under(x)' = Under(x)
    BY <2>1 DEF Under
  <2>3. \A e \in Deletions : del[e].pc # "idle" => del[e].target \in Rows
    BY DEF Holds, HoldsAt
  <2>4. HoldsAt(d)'
    BY <1>1, <1>4 DEF HoldsAt, Locking
  <2>5. ASSUME NEW e \in Deletions, e # d PROVE HoldsAt(e)'
    <3>1. del'[e] = del[e]
      BY <2>5, <1>4
    <3>2. del[e].pc \in Locking => Exists(del[e].target)'
      BY <3>1, <1>2, <2>3 DEF Holds, HoldsAt, Locking, Exists
    <3>3. Under(del[e].target)' = Under(del[e].target)
      BY <2>2, <3>1 DEF Under, Contents, Exists
    <3> QED
      BY <3>1, <3>2, <3>3 DEF Holds, HoldsAt
  <2> QED
    BY <2>4, <2>5 DEF Holds
<1>7. Exclusive'
  BY <1>4 DEF Exclusive
<1>8. Counted' /\ Named' /\ OrdersAreKept'
  BY <1>0, <1>4 DEF Counted, Named, OrdersAreKept, Below
<1>9. Met'
  <2>1. \A e \in Deletions : del[e].pc # "idle" => del[e].target \in Rows
    BY DEF Holds, HoldsAt
  <2> QED
    BY <1>0, <1>1, <1>3, <1>4, <2>1 DEF Met, Rows
<1>10. NotFoundIsTrue'
  <2> SUFFICES ASSUME NEW e \in Deletions, del'[e].pc = "missing", del'[e].fired
               PROVE  row'[del'[e].target] \in IF del'[e].target \in Products
                                                 THEN {"gone"} ELSE {"retired", "gone"}
    BY DEF NotFoundIsTrue
  <2>1. e # d /\ del'[e] = del[e]
    BY <1>4
  <2>2. del[e].target \in Rows
    BY <2>1 DEF Holds, HoldsAt
  <2> QED
    BY <1>3, <2>1, <2>2 DEF NotFoundIsTrue
<1> QED
  BY <1>5, <1>6, <1>7, <1>8, <1>9, <1>10

LEMMA EraseKeeps ==
  ASSUME CInv, NEW d \in Deletions, Erase(d) PROVE CInv'
<1> USE DEF CInv
<1> DEFINE t == del[d].target
<1>t. /\ row \in [Rows -> {"none", "live", "retired", "gone"}]
      /\ shelf \in [Products -> Categories] /\ order \in [Orders -> OrderRecord]
      /\ del \in [Deletions -> DeletionRecord] /\ del[d] \in DeletionRecord
  BY DEF TypeOK
<1>a. del[d].pc = "decide" /\ ~del[d].ordered
  BY DEF Erase
<1>1. t \in Rows /\ Exists(t) /\ del[d].held = Under(t)
  BY <1>a DEF Holds, HoldsAt, Locking
<1>2. \A o \in Orders : order[o].pc = "placed" => \A r \in Under(t) : ~Below(o, r)
  BY <1>a, <1>1 DEF Counted
<1>3. /\ row' = [r \in Rows |-> IF r \in Under(t) THEN "gone" ELSE row[r]]
      /\ offered' = offered \ Under(t)
      /\ UNCHANGED <<shelf, element>>
      /\ del' = [del EXCEPT ![d].pc = "done", ![d].held = {}]
  BY DEF Erase, Commit, Under
<1>4. order' = order
  <2>1. order' = [o \in Orders |->
                    IF order[o].pc = "placed" /\ \E r \in Under(t) : Below(o, r)
                      THEN [order[o] EXCEPT !.pc = "erased"] ELSE order[o]]
    BY DEF Erase, Under
  <2>2. order' = [o \in Orders |-> order[o]]
    BY <2>1, <1>2
  <2> QED
    BY <2>2, <1>t
<1>5. /\ del' \in [Deletions -> DeletionRecord]
      /\ \A e \in Deletions : e # d => del'[e] = del[e]
      /\ del'[d].pc = "done" /\ del'[d].target = t /\ del'[d].held = {}
  BY <1>3, <1>t DEF DeletionRecord
<1>6. Under(t) \subseteq Rows
  BY <1>1 DEF Under, Contents, Rows
<1>7. /\ \A r \in Rows \ Under(t) : row'[r] = row[r]
      /\ \A r \in Under(t) : row'[r] = "gone"
  BY <1>3, <1>6
<1>8. TypeOK'
  <2>1. row' \in [Rows -> {"none", "live", "retired", "gone"}]
    BY <1>3, <1>t
  <2>2. \A p \in Products : Exists(p)' => Exists(shelf[p])'
    <3> SUFFICES ASSUME NEW p \in Products, row'[p] \in {"live", "retired"}
                 PROVE  row'[shelf[p]] \in {"live", "retired"}
      BY <1>3 DEF Exists
    <3>1. p \in Rows \ Under(t) /\ Exists(p)
      BY <1>7 DEF Rows, Exists
    <3>2. Exists(shelf[p]) /\ shelf[p] \in Categories
      BY <3>1, <1>t DEF TypeOK
    <3>3. shelf[p] \notin Under(t)
      <4>1. shelf[p] # t
        BY <3>1, <3>2 DEF Under, Contents
      <4>2. shelf[p] \notin Products
        BY <3>2, CatalogueAssumption
      <4> QED
        BY <4>1, <4>2 DEF Under, Contents
    <3> QED
      BY <3>2, <3>3, <1>7 DEF Rows, Exists
  <2>3. \A o \in Orders : order[o].pc = "placed" =>
          /\ order[o].product \in Products /\ Exists(order[o].product)'
          /\ order[o].project \in Projects /\ Exists(order[o].project)'
    <3> SUFFICES ASSUME NEW o \in Orders, order[o].pc = "placed"
                 PROVE  /\ order[o].product \in Products
                        /\ row'[order[o].product] \in {"live", "retired"}
                        /\ order[o].project \in Projects
                        /\ row'[order[o].project] \in {"live", "retired"}
      BY <1>4 DEF Exists
    <3>1. /\ order[o].product \in Products /\ Exists(order[o].product)
          /\ order[o].project \in Projects /\ Exists(order[o].project)
      BY DEF TypeOK
    <3>2. order[o].product \notin Under(t) /\ order[o].project \notin Under(t)
      BY <1>2 DEF Below
    <3> QED
      BY <3>1, <3>2, <1>7 DEF Rows, Exists
  <2>4. offered' \subseteq Products
    BY <1>3 DEF TypeOK
  <2> QED
    BY <1>3, <1>4, <1>5, <2>1, <2>2, <2>3, <2>4 DEF TypeOK
<1>9. \A e \in Deletions : e # d => del[e].held \cap Under(t) = {}
  BY <1>1 DEF Exclusive
<1>10. Holds'
  <2>1. HoldsAt(d)'
    BY <1>1, <1>5 DEF HoldsAt, Locking
  <2>2. ASSUME NEW e \in Deletions, e # d PROVE HoldsAt(e)'
    <3> DEFINE u == del[e].target
    <3>0. del'[e] = del[e]
      BY <2>2, <1>5
    <3>1. ASSUME del[e].pc \in Locking
          PROVE  u \in del[e].held /\ u \in Rows /\ Exists(u) /\ u \notin Under(t)
      <4>1. u \in del[e].held /\ u \in Rows /\ Exists(u)
        BY <3>1 DEF Holds, HoldsAt, Locking, Under
      <4> QED
        BY <4>1, <2>2, <1>9
    <3>2. del[e].pc \in Locking => Exists(del[e].target)'
      BY <3>0, <3>1, <1>7 DEF Exists
    <3>3. ASSUME del[e].pc \in {"count", "decide"}
          PROVE  del[e].held = Under(del[e].target)'
      <4>1. del[e].held = Under(u)
        BY <3>3 DEF Holds, HoldsAt
      <4>2. u \in Categories => \A p \in Contents(u) : p \notin Under(t)
        BY <4>1, <2>2, <1>9 DEF Under
      <4>3. u \in Categories =>
              {p \in Products : row'[p] \in {"live", "retired"} /\ shelf[p] = u} = Contents(u)
        BY <4>2, <1>7 DEF Contents, Exists, Rows
      <4>4. u \in Categories => Contents(del[e].target)' = Contents(u)
        BY <4>3, <3>0, <1>3 DEF Contents, Exists
      <4> QED
        BY <4>1, <4>4, <3>0 DEF Under
    <3> QED
      BY <3>0, <3>2, <3>3 DEF Holds, HoldsAt
  <2> QED
    BY <2>1, <2>2 DEF Holds
<1>11. Exclusive'
  BY <1>5 DEF Exclusive
<1>12. Counted' /\ Named' /\ OrdersAreKept'
  BY <1>4, <1>5 DEF Counted, Named, OrdersAreKept, Below
<1>13. Met'
  <2>1. \A r \in Rows : row[r] # "none" => row'[r] # "none"
    BY <1>7
  <2>2. \A r \in Categories \cup Projects : row'[r] # "none"
    BY <2>1 DEF Met, Rows
  <2>3. ASSUME NEW e \in Deletions, del'[e].pc # "idle" PROVE row'[del'[e].target] # "none"
    <3>1. CASE e = d
      BY <3>1, <1>1, <1>5, <1>7 DEF Exists
    <3>2. CASE e # d
      BY <3>2, <2>1, <2>3, <1>5 DEF Holds, HoldsAt, Met
    <3> QED
      BY <3>1, <3>2
  <2> QED
    BY <2>2, <2>3 DEF Met
<1>14. NotFoundIsTrue'
  <2> SUFFICES ASSUME NEW e \in Deletions, del'[e].pc = "missing", del'[e].fired
               PROVE  row'[del'[e].target] \in IF del'[e].target \in Products
                                                 THEN {"gone"} ELSE {"retired", "gone"}
    BY DEF NotFoundIsTrue
  <2>1. e # d /\ del'[e] = del[e]
    BY <1>5
  <2>2. del[e].target \in Rows
    BY <2>1 DEF Holds, HoldsAt
  <2>3. row[del[e].target] \in IF del[e].target \in Products
                                 THEN {"gone"} ELSE {"retired", "gone"}
    BY <2>1 DEF NotFoundIsTrue
  <2> QED
    BY <1>7, <2>1, <2>2, <2>3
<1> QED
  BY <1>8, <1>10, <1>11, <1>12, <1>13, <1>14

-----------------------------------------------------------------------------
LEMMA StepKeeps == ASSUME CInv, [Next]_vars PROVE CInv'
<1>1. CASE \/ \E p \in Products :
                \/ CreateProduct(p) \/ MoveProduct(p)
                \/ Offer(p) \/ Withdraw(p) \/ SetRetired(p)
           \/ \E o \in Orders : PrepareOrder(o) \/ InsertOrder(o) \/ Build(o)
  BY <1>1, QuietSteps, QuietKeeps
<1>2. ASSUME NEW d \in Deletions,
             \/ Start(d) \/ Destroy(d) \/ Fired(d) \/ Lock(d) \/ LockChildren(d)
             \/ CountOrders(d) \/ Crash(d)
      PROVE  CInv'
  BY <1>2, OwnSteps
<1>3. ASSUME NEW d \in Deletions, Retire(d) PROVE CInv'
  BY <1>3, RetireKeeps
<1>4. ASSUME NEW d \in Deletions, Erase(d) PROVE CInv'
  BY <1>4, EraseKeeps
<1>5. CASE UNCHANGED vars
  BY <1>5 DEF vars, CInv, TypeOK, Holds, HoldsAt, Exclusive, Counted, Named, Met, OrdersAreKept,
              NotFoundIsTrue, Exists, Under, Contents, Below
<1> QED
  BY <1>1, <1>2, <1>3, <1>4, <1>5 DEF Next

LEMMA Invariant == Spec => []CInv
<1>1. Init => CInv
  BY InitHolds
<1>2. CInv /\ [Next]_vars => CInv'
  BY StepKeeps
<1> QED
  BY <1>1, <1>2, PTL DEF Spec

(* Every reachable state is well typed, and its foreign keys hold: a placed*)
(* order has its product and its project, a product its category.          *)
THEOREM TypeCorrect == Spec => []TypeOK
<1>1. CInv => TypeOK
  BY DEF CInv
<1> QED
  BY <1>1, Invariant, PTL

(* However many orders and deletions race, no order is ever deleted.       *)
THEOREM HistoryIsKept == Spec => []OrdersAreKept
<1>1. CInv => OrdersAreKept
  BY DEF CInv
<1> QED
  BY <1>1, Invariant, PTL

(* A deletion that destroyed something says "not found" only of what is    *)
(* not there, or not on any screen.                                        *)
THEOREM MissingIsMissing == Spec => []NotFoundIsTrue
<1>1. CInv => NotFoundIsTrue
  BY DEF CInv
<1> QED
  BY <1>1, Invariant, PTL
=============================================================================
