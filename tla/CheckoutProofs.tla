--------------------------- MODULE CheckoutProofs ---------------------------
(***************************************************************************)
(* Theorems about Checkout, for any lines, checkouts and adders.           *)
(***************************************************************************)
EXTENDS Checkout, FiniteSetTheorems, WellFoundedInduction, TLAPS

-----------------------------------------------------------------------------
(* Sums.  The community modules define SumFunctionOnSet by recursion over  *)
(* the parts of a set.  Their theorems take an operator, so what a sum is  *)
(* worth is proved here from a least part that breaks it: a non-empty set  *)
(* of parts of a finite set has a least one.                               *)

(* A least part: strict inclusion is well-founded on the parts of S.       *)
LEMMA MinimalSubset ==
  ASSUME NEW S, IsFiniteSet(S), NEW T \in SUBSET SUBSET S, T # {}
  PROVE  \E m \in T : \A s \in T : s \subseteq m => s = m
  <1>1. IsWellFoundedOn(StrictSubsetOrdering(S), SUBSET S)
    BY FS_StrictSubsetOrderingWellFounded, FS_FiniteSubsetsOfFinite
  <1>2. \E m \in T : \A s \in T : ~(<<s, m>> \in StrictSubsetOrdering(S))
    BY <1>1, WFMin
  <1> QED
    BY <1>2 DEF StrictSubsetOrdering

(* The element that is taken next.                                         *)
Any(s) == CHOOSE x \in s : TRUE

(* g sums f over every part of T, an element at a time.                    *)
SumsUp(g, f, T) ==
  g = [s \in SUBSET T |-> IF s = {} THEN 0 ELSE f[Any(s)] + g[s \ {Any(s)}]]

(* The sum is what any such g makes of the whole of T, if there is one ... *)
LEMMA SumDef ==
  ASSUME NEW f, NEW T
  PROVE  SumFunctionOnSet(f, T) = (CHOOSE g : SumsUp(g, f, T))[T]
  BY DEF SumFunctionOnSet, FoldFunctionOnSet, MapThenFoldSet, SumsUp, Any

(* ... any two make the same of the parts they share ...                   *)
LEMMA SumsAgree ==
  ASSUME NEW f, NEW T, IsFiniteSet(T), NEW U, NEW g, NEW h, SumsUp(g, f, T), SumsUp(h, f, U)
  PROVE  \A s \in SUBSET (T \cap U) : g[s] = h[s]
  <1> DEFINE B == {s \in SUBSET (T \cap U) : g[s] # h[s]}
  <1> SUFFICES ASSUME B # {} PROVE FALSE
    OBVIOUS
  <1>1. B \in SUBSET SUBSET T
    OBVIOUS
  <1>2. PICK m \in B : \A s \in B : s \subseteq m => s = m
    <2> HIDE DEF B
    <2> QED
      BY <1>1, MinimalSubset
  <1>3. m # {}
    BY <1>2 DEF SumsUp
  <1>4. Any(m) \in m
    BY <1>3 DEF Any
  <1>5. m \ {Any(m)} \in SUBSET (T \cap U) /\ m \ {Any(m)} # m /\ m \ {Any(m)} \subseteq m
    BY <1>4
  <1>6. g[m \ {Any(m)}] = h[m \ {Any(m)}]
    BY <1>2, <1>5
  <1>7. g[m] = f[Any(m)] + g[m \ {Any(m)}] /\ h[m] = f[Any(m)] + h[m \ {Any(m)}]
    BY <1>3 DEF SumsUp
  <1> QED
    BY <1>6, <1>7, <1>2

(* ... and there is one: what the smaller parts have, put together.        *)
LEMMA SumsExist ==
  ASSUME NEW f, NEW T, IsFiniteSet(T)
  PROVE  \E g : SumsUp(g, f, T)
  <1> DEFINE B == {s \in SUBSET T : \A g : ~SumsUp(g, f, s)}
  <1> SUFFICES ASSUME B # {} PROVE FALSE
    OBVIOUS
  <1>0. B \in SUBSET SUBSET T
    OBVIOUS
  <1>1. PICK m \in B : \A s \in B : s \subseteq m => s = m
    <2> HIDE DEF B
    <2> QED
      BY <1>0, MinimalSubset
  <1> DEFINE G(s) == CHOOSE g : SumsUp(g, f, s)
  <1>2. \A s \in SUBSET m : s # m => SumsUp(G(s), f, s)
    BY <1>1
  <1>3. \A s \in SUBSET m : IsFiniteSet(s)
    BY FS_Subset
  <1> DEFINE V(s) == IF s = {} THEN 0 ELSE f[Any(s)] + G(s \ {Any(s)})[s \ {Any(s)}]
             h == [s \in SUBSET m |-> V(s)]
  <1>4. \A s \in SUBSET m : s # {} => s \ {Any(s)} \in SUBSET m /\ s \ {Any(s)} # m
                                      /\ Any(s) \in s
    BY DEF Any
  <1>5. ASSUME NEW s \in SUBSET m, s # m
        PROVE  G(s)[s] = V(s)
    <2>1. SumsUp(G(s), f, s)
      BY <1>2, <1>5
    <2>2. CASE s = {}
      BY <2>1, <2>2 DEF SumsUp
    <2>3. CASE s # {}
      <3> DEFINE r == s \ {Any(s)}
      <3>1. r \in SUBSET m /\ r # m /\ r \subseteq s /\ IsFiniteSet(r) /\ IsFiniteSet(s)
        BY <2>3, <1>3, <1>4
      <3>2. SumsUp(G(r), f, r)
        BY <3>1, <1>2
      <3>3. G(s)[r] = G(r)[r]
        <4>1. r \in SUBSET (s \cap r)
          BY <3>1
        <4> HIDE DEF r, G
        <4> QED
          BY <3>1, <3>2, <2>1, <4>1, SumsAgree
      <3>4. G(s)[s] = f[Any(s)] + G(s)[r]
        <4> HIDE DEF G
        <4> QED BY <2>1, <2>3 DEF SumsUp
      <3> QED
        BY <3>3, <3>4, <2>3
    <2> HIDE DEF G, V
    <2> QED
      BY <2>2, <2>3
  <1>6. \A s \in SUBSET m : V(s) = IF s = {} THEN 0 ELSE f[Any(s)] + h[s \ {Any(s)}]
    <2> TAKE s \in SUBSET m
    <2>1. CASE s = {}
      BY <2>1
    <2>2. CASE s # {}
      <3>1. s \ {Any(s)} \in SUBSET m /\ s \ {Any(s)} # m
        BY <1>4, <2>2
      <3>2. V(s) = f[Any(s)] + G(s \ {Any(s)})[s \ {Any(s)}]
        BY <2>2
      <3> HIDE DEF G, V
      <3>3. G(s \ {Any(s)})[s \ {Any(s)}] = h[s \ {Any(s)}]
        BY <3>1, <1>5
      <3> QED
        BY <2>2, <3>2, <3>3
    <2> QED
      BY <2>1, <2>2
  <1>7. SumsUp(h, f, m)
    <2> HIDE DEF G
    <2> QED
      BY <1>6 DEF SumsUp
  <1> QED
    BY <1>1, <1>7

(* So the sum satisfies the equation it is defined by.                     *)
LEMMA SumStep ==
  ASSUME NEW f, NEW T, IsFiniteSet(T)
  PROVE  SumFunctionOnSet(f, T) =
           IF T = {} THEN 0 ELSE f[Any(T)] + SumFunctionOnSet(f, T \ {Any(T)})
  <1> DEFINE g == CHOOSE h : SumsUp(h, f, T)
             U == T \ {Any(T)}
             k == CHOOSE h : SumsUp(h, f, U)
  <1>0. IsFiniteSet(U)
    BY FS_Subset
  <1>1. SumsUp(g, f, T)
    BY SumsExist
  <1>2. SumsUp(k, f, U)
    BY <1>0, SumsExist
  <1>3. SumFunctionOnSet(f, T) = g[T] /\ SumFunctionOnSet(f, U) = k[U]
    BY SumDef
  <1> HIDE DEF g, k
  <1>4. g[U] = k[U]
    BY <1>1, <1>2, SumsAgree
  <1>5. g[T] = IF T = {} THEN 0 ELSE f[Any(T)] + g[U]
    BY <1>1 DEF SumsUp
  <1> QED
    BY <1>3, <1>4, <1>5

(* What it is good for: a sum of naturals is one, any element may be taken *)
(* out of it first, and what is nowhere larger has no larger sum.          *)
LEMMA SumIsNat ==
  ASSUME NEW f, NEW T, IsFiniteSet(T), \A x \in T : f[x] \in Nat
  PROVE  SumFunctionOnSet(f, T) \in Nat
  <1> DEFINE B == {s \in SUBSET T : SumFunctionOnSet(f, s) \notin Nat}
  <1> SUFFICES ASSUME B # {} PROVE FALSE
    OBVIOUS
  <1>1. PICK m \in B : \A s \in B : s \subseteq m => s = m
    <2>1. B \in SUBSET SUBSET T
      OBVIOUS
    <2> HIDE DEF B
    <2> QED
      BY <2>1, MinimalSubset
  <1>2. IsFiniteSet(m)
    BY FS_Subset
  <1>3. m # {} /\ SumFunctionOnSet(f, m) = f[Any(m)] + SumFunctionOnSet(f, m \ {Any(m)})
    BY <1>1, <1>2, SumStep
  <1>4. Any(m) \in m
    BY <1>3 DEF Any
  <1>5. SumFunctionOnSet(f, m \ {Any(m)}) \in Nat
    BY <1>1, <1>4
  <1> QED
    BY <1>1, <1>3, <1>4, <1>5

LEMMA SumWithout ==
  ASSUME NEW f, NEW T, IsFiniteSet(T), \A y \in T : f[y] \in Nat, NEW x \in T
  PROVE  SumFunctionOnSet(f, T) = f[x] + SumFunctionOnSet(f, T \ {x})
  <1> DEFINE Sum(s) == SumFunctionOnSet(f, s)
             B == {s \in SUBSET T : \E y \in s : Sum(s) # f[y] + Sum(s \ {y})}
  <1>0. \A s \in SUBSET T : IsFiniteSet(s) /\ Sum(s) \in Nat
    BY FS_Subset, SumIsNat
  <1>s. \A s \in SUBSET T : s # {} => Any(s) \in s /\ Sum(s) = f[Any(s)] + Sum(s \ {Any(s)})
    BY <1>0, SumStep DEF Any
  <1> HIDE DEF Sum
  <1> SUFFICES ASSUME B # {} PROVE FALSE
    BY DEF Sum
  <1>1. PICK m \in B : \A s \in B : s \subseteq m => s = m
    <2>1. B \in SUBSET SUBSET T
      OBVIOUS
    <2> HIDE DEF B
    <2> QED
      BY <2>1, MinimalSubset
  <1>2. PICK y \in m : Sum(m) # f[y] + Sum(m \ {y})
    BY <1>1
  <1> DEFINE a == Any(m)
  <1>3. a \in m /\ Sum(m) = f[a] + Sum(m \ {a})
    BY <1>2, <1>s
  <1> HIDE DEF a
  <1>4. a # y
    BY <1>2, <1>3
  <1>5. Sum(m \ {a}) = f[y] + Sum((m \ {a}) \ {y})
    BY <1>1, <1>3, <1>4, <1>2
  <1>6. Sum(m \ {y}) = f[a] + Sum((m \ {y}) \ {a})
    BY <1>1, <1>3, <1>4, <1>2
  <1>7. (m \ {a}) \ {y} = (m \ {y}) \ {a}
    OBVIOUS
  <1>8. f[a] \in Nat /\ f[y] \in Nat /\ Sum((m \ {a}) \ {y}) \in Nat
    BY <1>0, <1>3
  <1>9. Sum(m) = f[y] + Sum(m \ {y})
    BY <1>3, <1>5, <1>6, <1>7, <1>8
  <1> QED
    BY <1>2, <1>9

LEMMA SumAtMost ==
  ASSUME NEW f, NEW g, NEW S, NEW U, IsFiniteSet(S), IsFiniteSet(U),
         \A x \in S : f[x] \in Nat, \A x \in U : g[x] \in Nat,
         \A x \in S : f[x] = 0 \/ (x \in U /\ f[x] \leq g[x])
  PROVE  SumFunctionOnSet(f, S) \leq SumFunctionOnSet(g, U)
  <1> DEFINE F(s) == SumFunctionOnSet(f, S \cap s)
             G(s) == SumFunctionOnSet(g, U \cap s)
             T == S \cup U
             B == {s \in SUBSET T : ~(F(s) \leq G(s))}
  <1>0. IsFiniteSet(T)
    BY FS_Union
  <1>f. \A s \in SUBSET T : IsFiniteSet(S \cap s) /\ IsFiniteSet(U \cap s)
    BY FS_Subset
  <1>n. \A s \in SUBSET T : F(s) \in Nat /\ G(s) \in Nat
    BY <1>f, SumIsNat
  <1>a. \A s \in SUBSET T : \A x \in s :
          /\ x \in S => F(s) = f[x] + F(s \ {x})
          /\ x \notin S => F(s) = F(s \ {x})
          /\ x \in U => G(s) = g[x] + G(s \ {x})
          /\ x \notin U => G(s) = G(s \ {x})
    <2> TAKE s \in SUBSET T
    <2> TAKE x \in s
    <2>1. (S \cap s) \ {x} = S \cap (s \ {x}) /\ (U \cap s) \ {x} = U \cap (s \ {x})
      OBVIOUS
    <2>2. ASSUME x \in S
          PROVE  F(s) = f[x] + F(s \ {x})
      <3>1. IsFiniteSet(S \cap s) /\ x \in S \cap s /\ \A y \in S \cap s : f[y] \in Nat
        BY <1>f, <2>2
      <3>2. F(s) = f[x] + SumFunctionOnSet(f, (S \cap s) \ {x})
        BY <3>1, SumWithout
      <3> QED
        BY <2>1, <3>2
    <2>3. ASSUME x \in U
          PROVE  G(s) = g[x] + G(s \ {x})
      <3>1. IsFiniteSet(U \cap s) /\ x \in U \cap s /\ \A y \in U \cap s : g[y] \in Nat
        BY <1>f, <2>3
      <3>2. G(s) = g[x] + SumFunctionOnSet(g, (U \cap s) \ {x})
        BY <3>1, SumWithout
      <3> QED
        BY <2>1, <3>2
    <2>4. (x \notin S => S \cap s = S \cap (s \ {x})) /\ (x \notin U => U \cap s = U \cap (s \ {x}))
      OBVIOUS
    <2> QED
      BY <2>2, <2>3, <2>4
  <1>z. F({}) = 0 /\ G({}) = 0
    <2>1. S \cap {} = {} /\ U \cap {} = {} /\ IsFiniteSet({})
      BY FS_EmptySet
    <2> QED
      BY <2>1, SumStep
  <1>t. S \cap T = S /\ U \cap T = U
    OBVIOUS
  <1> SUFFICES ASSUME B # {} PROVE FALSE
    BY <1>t
  <1> HIDE DEF F, G
  <1>1. PICK m \in B : \A s \in B : s \subseteq m => s = m
    <2>1. B \in SUBSET SUBSET T
      OBVIOUS
    <2> HIDE DEF B, T
    <2> QED
      BY <1>0, <2>1, MinimalSubset
  <1>2. PICK x : x \in m
    <2>1. ~(F(m) \leq G(m)) /\ F({}) \leq G({})
      BY <1>1, <1>z
    <2>2. m # {}
      BY <2>1
    <2> QED
      BY <2>2
  <1>3. F(m \ {x}) \leq G(m \ {x}) /\ ~(F(m) \leq G(m))
    BY <1>1, <1>2
  <1>4. F(m \ {x}) \in Nat /\ G(m \ {x}) \in Nat /\ F(m) \in Nat /\ G(m) \in Nat
    BY <1>n
  <1>5. /\ x \in S => F(m) = f[x] + F(m \ {x})
        /\ x \notin S => F(m) = F(m \ {x})
        /\ x \in U => G(m) = g[x] + G(m \ {x})
        /\ x \notin U => G(m) = G(m \ {x})
    BY <1>a, <1>2
  <1>6. /\ x \in S => f[x] \in Nat /\ (f[x] = 0 \/ (x \in U /\ f[x] \leq g[x]))
        /\ x \in U => g[x] \in Nat
    OBVIOUS
  <1> QED
    BY <1>3, <1>4, <1>5, <1>6

-----------------------------------------------------------------------------
(* Types, and what a checkout has in its hands.                            *)

Ordering == {"check", "insert", "build", "void", "tail"}

(* TypeOK, but for what the lines' proofs do not need: see Rest and Small.  *)
Typed ==
  /\ cart \in [Lines -> Quantity]
  /\ added \subseteq Lines
  /\ shown \in [Lines -> Quantity]
  /\ req \in [Checkouts -> RequestRecord]
  /\ adder \in [Adders -> {"idle", "insert", "done"}]
  /\ owner \in Adders \cup {Nobody}
  /\ order \in [OrderIds -> OrderRecord]
  /\ fault \in {"none"} \cup FaultKinds

(* What a checkout has in its hands it has read, is in nobody else's hands *)
(* and not in the cart; and it has nothing there before it claims.         *)
Hands ==
  /\ \A l \in Lines : cart[l] # 0 => l \in added
  /\ \A c \in Checkouts :
       /\ req[c].held \cap req[c].failed = {}
       /\ req[c].pc \in {"idle", "validate", "claim", "done"} => InHand(c) = {}
       /\ req[c].pc = "undo" => req[c].held = {}
       /\ req[c].pc \in Ordering => req[c].cur \in req[c].held
       /\ \A l \in InHand(c) : req[c].owned[l] # 0 /\ cart[l] = 0 /\ l \in added
       /\ \A d \in Checkouts \ {c} : InHand(c) \cap InHand(d) = {}

TInv == Typed /\ Hands

LEMMA Records ==
  /\ Idle \in RequestRecord /\ Idle.pc = "idle" /\ Idle.held = {} /\ Idle.failed = {}
  /\ Over \in RequestRecord /\ Over.pc = "done" /\ Over.held = {} /\ Over.failed = {}
  /\ NoOrder \in OrderRecord /\ NoOrder.status = "none"
  <1>1. 0 \in Quantity
    BY CheckoutAssumption DEF Quantity
  <1>2. /\ Idle \in RequestRecord /\ Idle.pc = "idle" /\ Idle.held = {} /\ Idle.failed = {}
    BY <1>1 DEF Idle, RequestRecord
  <1>3. /\ Over \in RequestRecord /\ Over.pc = "done" /\ Over.held = {} /\ Over.failed = {}
    BY <1>2 DEF Over, RequestRecord
  <1>4. NoOrder \in OrderRecord /\ NoOrder.status = "none"
    BY <1>1 DEF NoOrder, OrderRecord
  <1> QED
    BY <1>2, <1>3, <1>4

LEMMA InitTInv == Init => TInv
  <1> SUFFICES ASSUME Init PROVE TInv
    OBVIOUS
  <1>1. Typed
    BY Records, CheckoutAssumption DEF Init, Typed, InCart
  <1>2. Hands
    BY Records DEF Init, Hands, InHand, InCart, Ordering
  <1> QED
    BY <1>1, <1>2 DEF TInv

-----------------------------------------------------------------------------
(* What each step of a checkout does to its own record.                    *)

Others(c) == \A d \in Checkouts \ {c} : req'[d] = req[d]

LEMMA Replaced ==
  ASSUME TInv, NEW c \in Checkouts, NEW r \in RequestRecord, req' = [req EXCEPT ![c] = r]
  PROVE  req' \in [Checkouts -> RequestRecord] /\ Others(c) /\ req'[c] = r
  BY DEF TInv, Typed, Others

(* Steps that only move on.                                                *)
MovesTo(c, pcs) ==
  /\ req' \in [Checkouts -> RequestRecord] /\ Others(c)
  /\ req'[c].pc \in pcs /\ req'[c].cur = req[c].cur /\ req'[c].owned = req[c].owned
  /\ req'[c].held = req[c].held /\ req'[c].failed = req[c].failed

LEMMA Moves ==
  ASSUME TInv, NEW c \in Checkouts,
         NEW p \in {"claim", "insert", "build", "void", "tail", "dead"},
         req' = [req EXCEPT ![c].pc = p]
  PROVE  MovesTo(c, {p})
  <1> DEFINE r == [req[c] EXCEPT !.pc = p]
  <1>1. req[c] \in RequestRecord
    BY DEF TInv, Typed
  <1>2. /\ r \in RequestRecord /\ r.pc = p /\ r.cur = req[c].cur /\ r.owned = req[c].owned
        /\ r.held = req[c].held /\ r.failed = req[c].failed
    BY <1>1 DEF RequestRecord
  <1>3. req' = [req EXCEPT ![c] = r]
    BY DEF TInv, Typed
  <1> HIDE DEF r
  <1>4. req' \in [Checkouts -> RequestRecord] /\ Others(c) /\ req'[c] = r
    BY <1>2, <1>3, Replaced
  <1> QED
    BY <1>2, <1>4 DEF MovesTo

(* It is over: nothing is left in its hands.                               *)
Ends(c) ==
  /\ req' \in [Checkouts -> RequestRecord] /\ Others(c)
  /\ req'[c].pc = "done" /\ req'[c].held = {} /\ req'[c].failed = {}

LEMMA Ended ==
  ASSUME TInv, NEW c \in Checkouts, req' = [req EXCEPT ![c] = Over]
  PROVE  Ends(c)
  BY Replaced, Records DEF Ends

(* A line fails: it is still in the checkout's hands, and is not the one   *)
(* being ordered.                                                          *)
Failing(c, l) ==
  /\ req' \in [Checkouts -> RequestRecord] /\ Others(c)
  /\ req'[c].pc = "next" /\ req'[c].cur = NoLine /\ req'[c].owned = req[c].owned
  /\ req'[c].held = req[c].held \ {l} /\ req'[c].failed = req[c].failed \cup {l}

LEMMA FailsEffect ==
  ASSUME TInv, NEW c \in Checkouts, NEW l \in Lines, Fails(c, l)
  PROVE  Failing(c, l)
  <1> DEFINE r == [req[c] EXCEPT !.pc = "next", !.cur = NoLine, !.held = @ \ {l},
                                 !.failed = @ \cup {l}]
  <1>1. req[c] \in RequestRecord
    BY DEF TInv, Typed
  <1>2. /\ r \in RequestRecord /\ r.pc = "next" /\ r.cur = NoLine /\ r.owned = req[c].owned
        /\ r.held = req[c].held \ {l} /\ r.failed = req[c].failed \cup {l}
    BY <1>1 DEF RequestRecord
  <1>3. req' = [req EXCEPT ![c] = r]
    BY DEF TInv, Typed, Fails
  <1> HIDE DEF r
  <1>4. req' \in [Checkouts -> RequestRecord] /\ Others(c) /\ req'[c] = r
    BY <1>2, <1>3, Replaced
  <1> QED
    BY <1>2, <1>4 DEF Failing

(* A line is taken up, or given up as ordered.                             *)
LEMMA LockEffect ==
  ASSUME TInv, NEW c \in Checkouts, Lock(c)
  PROVE  /\ req' \in [Checkouts -> RequestRecord] /\ Others(c)
         /\ req'[c].pc = "check" /\ req'[c].cur \in req[c].held
         /\ req'[c].owned = req[c].owned
         /\ req'[c].held = req[c].held /\ req'[c].failed = req[c].failed
  <1>0. req[c] \in RequestRecord
    BY DEF TInv, Typed
  <1>1. PICK l \in req[c].held : req' = [req EXCEPT ![c].pc = "check", ![c].cur = l]
    BY DEF Lock
  <1> DEFINE r == [req[c] EXCEPT !.pc = "check", !.cur = l]
  <1>2. /\ r \in RequestRecord /\ r.pc = "check" /\ r.cur = l /\ r.owned = req[c].owned
        /\ r.held = req[c].held /\ r.failed = req[c].failed
    BY <1>0 DEF RequestRecord
  <1>3. req' = [req EXCEPT ![c] = r]
    BY <1>1 DEF TInv, Typed
  <1> HIDE DEF r
  <1>4. req' \in [Checkouts -> RequestRecord] /\ Others(c) /\ req'[c] = r
    BY <1>2, <1>3, Replaced
  <1> QED
    BY <1>2, <1>4

LEMMA TailEffect ==
  ASSUME TInv, NEW c \in Checkouts, Tail(c)
  PROVE  /\ req' \in [Checkouts -> RequestRecord] /\ Others(c)
         /\ req'[c].pc = "next" /\ req'[c].owned = req[c].owned
         /\ req'[c].held = req[c].held \ {req[c].cur} /\ req'[c].failed = req[c].failed
  <1>0. req[c] \in RequestRecord
    BY DEF TInv, Typed
  <1> DEFINE r == [req[c] EXCEPT !.pc = "next", !.cur = NoLine, !.held = @ \ {req[c].cur}]
  <1>2. /\ r \in RequestRecord /\ r.pc = "next" /\ r.owned = req[c].owned
        /\ r.held = req[c].held \ {req[c].cur} /\ r.failed = req[c].failed
    BY <1>0 DEF RequestRecord
  <1>3. req' = [req EXCEPT ![c] = r]
    BY DEF TInv, Typed, Tail
  <1> HIDE DEF r
  <1>4. req' \in [Checkouts -> RequestRecord] /\ Others(c) /\ req'[c] = r
    BY <1>2, <1>3, Replaced
  <1> QED
    BY <1>2, <1>4

LEMMA ReadEffect ==
  ASSUME TInv, NEW c \in Checkouts, Read(c)
  PROVE  \/ Ends(c)
         \/ /\ req' \in [Checkouts -> RequestRecord] /\ Others(c)
            /\ req'[c].pc = "validate"
            /\ req'[c].held = req[c].held /\ req'[c].failed = req[c].failed
            /\ \A l \in Lines : req'[c].owned[l] # 0 => req'[c].owned[l] = cart[l]
  <1>0. req[c] \in RequestRecord /\ cart \in [Lines -> Quantity] /\ 0 \in Quantity
    BY CheckoutAssumption DEF TInv, Typed, Quantity
  <1>1. CASE req' = [req EXCEPT ![c] = Over]
    BY <1>1, Ended
  <1>2. CASE \E ids \in SUBSET Lines :
               req' = [req EXCEPT ![c].pc = "validate",
                         ![c].owned = [l \in Lines |-> IF l \in ids THEN cart[l] ELSE 0]]
    <2>1. PICK ids \in SUBSET Lines :
               req' = [req EXCEPT ![c].pc = "validate",
                         ![c].owned = [l \in Lines |-> IF l \in ids THEN cart[l] ELSE 0]]
      BY <1>2
    <2> DEFINE f == [l \in Lines |-> IF l \in ids THEN cart[l] ELSE 0]
               r == [req[c] EXCEPT !.pc = "validate", !.owned = f]
    <2>2. f \in [Lines -> Quantity] /\ \A l \in Lines : f[l] # 0 => f[l] = cart[l]
      BY <1>0
    <2>3. req' = [req EXCEPT ![c] = r]
      BY <2>1 DEF TInv, Typed
    <2> HIDE DEF f
    <2>4. /\ r \in RequestRecord /\ r.pc = "validate" /\ r.owned = f
          /\ r.held = req[c].held /\ r.failed = req[c].failed
      BY <1>0, <2>2 DEF RequestRecord
    <2> HIDE DEF r
    <2>5. req' \in [Checkouts -> RequestRecord] /\ Others(c) /\ req'[c] = r
      BY <2>3, <2>4, Replaced
    <2> QED
      BY <2>2, <2>4, <2>5
  <1> QED
    BY <1>1, <1>2 DEF Read

LEMMA ClaimEffect ==
  ASSUME TInv, NEW c \in Checkouts, Claim(c)
  PROVE  /\ req' \in [Checkouts -> RequestRecord] /\ Others(c)
         /\ req'[c].owned = req[c].owned
         /\ \/ req'[c].pc = "next" /\ req'[c].held = Deleted(c) /\ req'[c].failed = {}
            \/ req'[c].pc = "undo" /\ req'[c].held = {} /\ req'[c].failed = Deleted(c)
  <1>0. /\ req[c] \in RequestRecord /\ req[c].held = {} /\ req[c].failed = {}
        /\ Named(c) \subseteq Lines /\ Deleted(c) \subseteq Lines
    BY DEF TInv, Typed, Hands, InHand, Claim, Named, Deleted
  <1>1. CASE Deleted(c) = Named(c)
    <2> DEFINE r == [req[c] EXCEPT !.pc = "next", !.held = Named(c)]
    <2>1. /\ r \in RequestRecord /\ r.pc = "next" /\ r.owned = req[c].owned
          /\ r.held = Deleted(c) /\ r.failed = {}
      BY <1>0, <1>1 DEF RequestRecord
    <2>2. req' = [req EXCEPT ![c] = r]
      BY <1>1 DEF TInv, Typed, Claim
    <2> HIDE DEF r
    <2> QED
      BY <2>1, <2>2, Replaced
  <1>2. CASE Deleted(c) # Named(c)
    <2> DEFINE r == [req[c] EXCEPT !.pc = "undo", !.failed = Deleted(c)]
    <2>1. /\ r \in RequestRecord /\ r.pc = "undo" /\ r.owned = req[c].owned
          /\ r.held = {} /\ r.failed = Deleted(c)
      BY <1>0, <1>2 DEF RequestRecord
    <2>2. req' = [req EXCEPT ![c] = r]
      BY <1>2 DEF TInv, Typed, Claim
    <2> HIDE DEF r
    <2> QED
      BY <2>1, <2>2, Replaced
  <1> QED
    BY <1>1, <1>2

-----------------------------------------------------------------------------
(* What a step does to an order.                                           *)

Becomes(o, status, elements, quantity) ==
  /\ order' \in [OrderIds -> OrderRecord]
  /\ \A p \in OrderIds \ {o} : order'[p] = order[p]
  /\ order'[o].status = status
  /\ order'[o].elements <=> elements
  /\ order'[o].quantity = quantity

LEMMA StatusSet ==
  ASSUME TInv, NEW o \in OrderIds, NEW s \in {"provisioning", "failed", "rejected"},
         order' = [order EXCEPT ![o].status = s]
  PROVE  Becomes(o, s, order[o].elements, order[o].quantity)
  <1> DEFINE r == [order[o] EXCEPT !.status = s]
  <1>0. order \in [OrderIds -> OrderRecord] /\ order[o] \in OrderRecord
    BY DEF TInv, Typed
  <1>1. /\ r \in OrderRecord /\ r.status = s /\ (r.elements <=> order[o].elements)
        /\ r.quantity = order[o].quantity
    BY <1>0 DEF OrderRecord
  <1>2. order' = [order EXCEPT ![o] = r]
    BY <1>0
  <1> HIDE DEF r
  <1>3. order' \in [OrderIds -> OrderRecord] /\ order'[o] = r
        /\ \A p \in OrderIds \ {o} : order'[p] = order[p]
    BY <1>0, <1>1, <1>2
  <1> QED
    BY <1>1, <1>3 DEF Becomes

LEMMA ElementsSet ==
  ASSUME TInv, NEW o \in OrderIds,
         \/ order' = [order EXCEPT ![o].elements = TRUE]
         \/ order' = [order EXCEPT ![o].status = "provisioning", ![o].elements = TRUE]
  PROVE  \E s \in {order[o].status, "provisioning"} : Becomes(o, s, TRUE, order[o].quantity)
  <1>0. order \in [OrderIds -> OrderRecord] /\ order[o] \in OrderRecord
    BY DEF TInv, Typed
  <1>1. CASE order' = [order EXCEPT ![o].elements = TRUE]
    <2> DEFINE r == [order[o] EXCEPT !.elements = TRUE]
    <2>1. /\ r \in OrderRecord /\ r.status = order[o].status /\ (r.elements <=> TRUE)
          /\ r.quantity = order[o].quantity
      BY <1>0 DEF OrderRecord
    <2>2. order' = [order EXCEPT ![o] = r]
      BY <1>0, <1>1
    <2> HIDE DEF r
    <2>3. order' \in [OrderIds -> OrderRecord] /\ order'[o] = r
          /\ \A p \in OrderIds \ {o} : order'[p] = order[p]
      BY <1>0, <2>1, <2>2
    <2> QED
      BY <2>1, <2>3 DEF Becomes
  <1>2. CASE order' = [order EXCEPT ![o].status = "provisioning", ![o].elements = TRUE]
    <2> DEFINE r == [order[o] EXCEPT !.status = "provisioning", !.elements = TRUE]
    <2>1. /\ r \in OrderRecord /\ r.status = "provisioning" /\ (r.elements <=> TRUE)
          /\ r.quantity = order[o].quantity
      BY <1>0 DEF OrderRecord
    <2>2. order' = [order EXCEPT ![o] = r]
      BY <1>0, <1>2
    <2> HIDE DEF r
    <2>3. order' \in [OrderIds -> OrderRecord] /\ order'[o] = r
          /\ \A p \in OrderIds \ {o} : order'[p] = order[p]
      BY <1>0, <2>1, <2>2
    <2> QED
      BY <2>1, <2>3 DEF Becomes
  <1> QED
    BY <1>1, <1>2

(* The line an order is placed for, and the order.                         *)
LEMMA InsertEffect ==
  ASSUME TInv, NEW c \in Checkouts, Insert(c)
  PROVE  /\ req[c].cur \in Lines
         /\ \/ /\ MovesTo(c, {"build"})
               /\ Becomes(<<c, req[c].cur>>, "provisioning", FALSE, req[c].owned[req[c].cur])
            \/ /\ MovesTo(c, {"tail"})
               /\ Becomes(<<c, req[c].cur>>, "pending", FALSE, req[c].owned[req[c].cur])
  <1> DEFINE l == req[c].cur
             q == req[c].owned[l]
  <1>0. /\ order \in [OrderIds -> OrderRecord]
        /\ l \in Lines /\ q \in Quantity /\ <<c, l>> \in OrderIds
    BY DEF TInv, Typed, Hands, RequestRecord, Insert, Ordering, OrderIds
  <1>1. ASSUME NEW s \in {"pending", "provisioning"},
               order' = [order EXCEPT ![<<c, l>>] =
                           [status |-> s, elements |-> FALSE, quantity |-> q]]
        PROVE  Becomes(<<c, l>>, s, FALSE, q)
    <2> DEFINE r == [status |-> s, elements |-> FALSE, quantity |-> q]
    <2>1. r \in OrderRecord /\ r.status = s /\ (r.elements <=> FALSE) /\ r.quantity = q
      BY <1>0 DEF OrderRecord
    <2>2. order' = [order EXCEPT ![<<c, l>>] = r]
      BY <1>1
    <2> HIDE DEF r, q, l
    <2>3. order' \in [OrderIds -> OrderRecord] /\ order'[<<c, l>>] = r
          /\ \A p \in OrderIds \ {<<c, l>>} : order'[p] = order[p]
      BY <1>0, <2>1, <2>2
    <2> QED
      BY <2>1, <2>3 DEF Becomes
  <1>2. PICK now \in BOOLEAN :
          /\ order' = [order EXCEPT ![<<c, l>>] =
                         [status |-> IF now THEN "provisioning" ELSE "pending",
                          elements |-> FALSE, quantity |-> q]]
          /\ req' = [req EXCEPT ![c].pc = IF now THEN "build" ELSE "tail"]
    BY DEF Insert
  <1>3. CASE now
    BY <1>0, <1>1, <1>2, <1>3, Moves
  <1>4. CASE ~now
    BY <1>0, <1>1, <1>2, <1>4, Moves
  <1> QED
    BY <1>3, <1>4

-----------------------------------------------------------------------------
(* Every step keeps the types and the hands.                               *)

LEMMA ShopperTInv == ASSUME TInv, ShopperStep PROVE TInv'
  <1> USE CheckoutAssumption
  <1>0. Typed /\ Hands /\ 0 \in Quantity
    BY DEF TInv, Quantity
  <1>1. ASSUME NEW a \in Adders, AddCount(a) PROVE TInv'
    BY <1>0, <1>1 DEF AddCount, cartVars, TInv, Typed, Hands, InHand, Ordering
  <1>2. ASSUME NEW a \in Adders, AddInsert(a) PROVE TInv'
    <2>1. PICK l \in Lines \ added, q \in Quantity \ {0} :
             /\ cart' = [cart EXCEPT ![l] = q]
             /\ shown' = [shown EXCEPT ![l] = q]
             /\ added' = added \cup {l}
      BY <1>2 DEF AddInsert
    <2>2. UNCHANGED <<req, order, fault>> /\ adder' = [adder EXCEPT ![a] = "done"]
          /\ owner' = Nobody
      BY <1>2 DEF AddInsert
    <2>3. Typed'
      BY <1>0, <2>1, <2>2 DEF Typed
    <2>4. Hands'
      BY <1>0, <2>1, <2>2 DEF Typed, Hands, InHand, Ordering
    <2> QED
      BY <2>3, <2>4 DEF TInv
  <1>3. ASSUME NEW l \in Lines, Update(l) PROVE TInv'
    <2>1. PICK q \in Quantity \ {0, cart[l]} :
             /\ cart' = [cart EXCEPT ![l] = q]
             /\ shown' = [shown EXCEPT ![l] = q]
      BY <1>3 DEF Update
    <2>2. UNCHANGED <<added, req, order, fault, adder, owner>> /\ cart[l] # 0
      BY <1>3 DEF Update
    <2>3. Typed'
      BY <1>0, <2>1, <2>2 DEF Typed
    <2>4. Hands'
      BY <1>0, <2>1, <2>2 DEF Typed, Hands, InHand, Ordering
    <2> QED
      BY <2>3, <2>4 DEF TInv
  <1>4. ASSUME NEW gone, Remove(gone) PROVE TInv'
    <2>1. /\ cart' = [l \in Lines |-> IF l \in gone THEN 0 ELSE cart[l]]
          /\ shown' = [l \in Lines |-> IF l \in gone THEN 0 ELSE shown[l]]
      BY <1>4 DEF Remove
    <2>2. UNCHANGED <<added, req, order, fault, adder, owner>>
      BY <1>4 DEF Remove
    <2>3. Typed'
      BY <1>0, <2>1, <2>2 DEF Typed
    <2>4. Hands'
      BY <1>0, <2>1, <2>2 DEF Typed, Hands, InHand, Ordering
    <2> QED
      BY <2>3, <2>4 DEF TInv
  <1> QED
    BY <1>1, <1>2, <1>3, <1>4 DEF ShopperStep, RemoveOne, Clear

LEMMA OrderTInv == ASSUME TInv, OrderStep PROVE TInv'
  <1>1. UNCHANGED <<cart, added, shown, req, adder, owner, fault>>
    BY DEF OrderStep, Approve, Reject, PipelineFails, Retry, SetBudget, OrderChange, cartVars
  <1>2. order' \in [OrderIds -> OrderRecord]
    BY StatusSet, ElementsSet
       DEF OrderStep, Approve, Reject, PipelineFails, Retry, SetBudget, Becomes, TInv, Typed
  <1> QED
    BY <1>1, <1>2 DEF TInv, Typed, Hands, InHand, Ordering

(* Steps after which a checkout's hands are as they were, or emptier.      *)
LEMMA HandsKept ==
  ASSUME TInv, NEW c \in Checkouts, Others(c), UNCHANGED <<cart, added>>,
         InHand(c)' \subseteq InHand(c),
         (req[c].held \cap req[c].failed)' = {},
         req'[c].pc \in {"idle", "validate", "claim", "done"} => InHand(c)' = {},
         req'[c].pc = "undo" => req'[c].held = {},
         req'[c].pc \in Ordering => req'[c].cur \in req'[c].held,
         \A l \in InHand(c)' : req'[c].owned[l] = req[c].owned[l]
  PROVE  Hands'
  BY DEF TInv, Typed, Hands, InHand, Others

LEMMA CheckoutTInv ==
  ASSUME TInv, NEW c \in Checkouts, CheckoutStep(c) \/ Crash(c) \/ TailThrows(c)
  PROVE  TInv'
  <1> USE CheckoutAssumption
  <1>0. /\ Typed /\ Hands /\ 0 \in Quantity /\ req[c] \in RequestRecord
        /\ req[c].held \subseteq Lines /\ req[c].failed \subseteq Lines
    BY DEF TInv, Typed, Quantity, RequestRecord
  <1>a. UNCHANGED <<added, shown, adder, owner>> /\ fault' \in {"none"} \cup FaultKinds
    BY <1>0 DEF Typed, CheckoutStep, Read, Validate, Claim, Undo, Finish, Denied, Lock, Check, Insert,
       Build, NothingStarted, MarkFailed, Tail, Crash, TailThrows, Fault, FaultKinds, cartVars
  <1>1. CASE Read(c) \/ Validate(c)
    <2>1. UNCHANGED <<cart, order>> /\ InHand(c) = {}
      BY <1>0, <1>1 DEF Read, Validate, cartVars, Hands
    <2>2. \/ Ends(c)
          \/ /\ req' \in [Checkouts -> RequestRecord] /\ Others(c)
             /\ req'[c].pc \in {"validate", "claim"}
             /\ req'[c].held = req[c].held /\ req'[c].failed = req[c].failed
      BY <1>1, ReadEffect, Ended, Moves DEF Validate, MovesTo
    <2>3. Hands'
      BY <1>a, <2>1, <2>2, HandsKept DEF InHand, Ends, Ordering
    <2> QED
      BY <1>0, <1>a, <2>1, <2>2, <2>3 DEF TInv, Typed, Ends
  <1>2. CASE Claim(c)
    <2>1. cart' = [l \in Lines |-> IF l \in Deleted(c) THEN 0 ELSE cart[l]] /\ UNCHANGED order
      BY <1>2 DEF Claim
    <2>2. Deleted(c) \subseteq {l \in Lines : cart[l] # 0 /\ req[c].owned[l] # 0}
      BY DEF Deleted, Named, InCart
    <2>3. /\ req' \in [Checkouts -> RequestRecord] /\ Others(c)
          /\ req'[c].owned = req[c].owned
          /\ \/ req'[c].pc = "next" /\ req'[c].held = Deleted(c) /\ req'[c].failed = {}
             \/ req'[c].pc = "undo" /\ req'[c].held = {} /\ req'[c].failed = Deleted(c)
      BY <1>2, ClaimEffect
    <2>4. Hands'
      <3>1. InHand(c)' = Deleted(c) /\ \A d \in Checkouts \ {c} : InHand(d)' = InHand(d)
        BY <2>3 DEF InHand, Others
      <3>2. \A d \in Checkouts : Deleted(c) \cap InHand(d) = {}
        BY <1>0, <2>2 DEF Hands
      <3> QED
        BY <1>0, <1>a, <2>1, <2>2, <2>3, <3>1, <3>2 DEF Typed, Hands, Others, Ordering
    <2> QED
      BY <1>0, <1>a, <2>1, <2>3, <2>4 DEF TInv, Typed
  <1>3. CASE Undo(c) \/ Finish(c)
    <2>1. cart' = PutBack(c) /\ UNCHANGED order /\ Ends(c)
      BY <1>3, Ended DEF Undo, Finish
    <2>2. \A l \in Lines : cart'[l] = IF l \in req[c].failed THEN req[c].owned[l] ELSE cart[l]
      BY <2>1 DEF PutBack
    <2>3. cart' \in [Lines -> Quantity]
      BY <1>0, <2>1 DEF PutBack, Typed, RequestRecord
    <2>4. Hands'
      <3>1. InHand(c)' = {} /\ \A d \in Checkouts \ {c} : InHand(d)' = InHand(d)
        BY <2>1 DEF Ends, InHand, Others
      <3>2. \A l \in req[c].failed : l \in added /\ \A d \in Checkouts \ {c} : l \notin InHand(d)
        BY <1>0 DEF Hands, InHand
      <3> QED
        BY <1>0, <1>a, <2>1, <2>2, <3>1, <3>2 DEF Typed, Hands, Ends, Others, Ordering
    <2> QED
      BY <1>0, <1>a, <2>1, <2>3, <2>4 DEF TInv, Typed, Ends
  <1>4. ASSUME NEW l \in req[c].held, Failing(c, l), UNCHANGED <<cart, order>> PROVE TInv'
    <2>1. Hands'
      BY <1>0, <1>4, <1>a, HandsKept DEF Failing, InHand, Ordering, Hands
    <2> QED
      BY <1>0, <1>a, <1>4, <2>1 DEF TInv, Typed, Failing
  <1>5. CASE Denied(c) \/ TailThrows(c)
    BY <1>0, <1>4, <1>5, FailsEffect DEF Denied, TailThrows, cartVars, Hands, Ordering
  <1>6. CASE Lock(c) \/ Tail(c)
    <2>1. UNCHANGED <<cart, order>>
      BY <1>6 DEF Lock, Tail, cartVars
    <2>2. /\ req' \in [Checkouts -> RequestRecord] /\ Others(c)
          /\ \/ req'[c].pc = "check" /\ req'[c].cur \in req'[c].held
             \/ req'[c].pc = "next"
          /\ req'[c].owned = req[c].owned
          /\ req'[c].held \subseteq req[c].held /\ req'[c].failed = req[c].failed
      BY <1>6, LockEffect, TailEffect
    <2>3. Hands'
      BY <1>0, <1>a, <2>1, <2>2, HandsKept DEF InHand, Ordering, Hands
    <2> QED
      BY <1>0, <1>a, <2>1, <2>2, <2>3 DEF TInv, Typed
  <1>7. ASSUME req[c].pc \in Ordering \/ req'[c].pc = "dead",
               MovesTo(c, {"insert", "build", "void", "tail", "dead"}),
               UNCHANGED cart, order' \in [OrderIds -> OrderRecord]
        PROVE  TInv'
    <2>1. Hands'
      BY <1>0, <1>7, <1>a, HandsKept DEF MovesTo, InHand, Ordering, Hands
    <2> QED
      BY <1>0, <1>a, <1>7, <2>1 DEF TInv, Typed, MovesTo
  <1>8. CASE Check(c)
    <2>1. req[c].cur \in req[c].held /\ req[c].cur \in Lines /\ UNCHANGED <<cart, order>>
      BY <1>0, <1>8 DEF Check, cartVars, Hands, Ordering
    <2>2. CASE Fails(c, req[c].cur)
      BY <1>4, <2>1, <2>2, FailsEffect
    <2>3. CASE req' = [req EXCEPT ![c].pc = "insert"]
      BY <1>0, <1>7, <1>8, <2>1, <2>3, Moves DEF MovesTo, Check, Ordering, Typed
    <2> QED
      BY <1>8, <2>2, <2>3 DEF Check
  <1>9. CASE Insert(c)
    BY <1>7, <1>9, InsertEffect DEF Insert, MovesTo, Becomes, cartVars, Ordering
  <1>10. CASE Build(c) \/ NothingStarted(c) \/ Crash(c)
    <2>1. MovesTo(c, {"insert", "build", "void", "tail", "dead"})
      BY <1>10, Moves DEF Build, NothingStarted, Crash, MovesTo
    <2>2. UNCHANGED cart
      BY <1>10 DEF Build, NothingStarted, Crash, cartVars
    <2>3. order' \in [OrderIds -> OrderRecord]
      <3>1. CASE Build(c)
        <4>1. <<c, req[c].cur>> \in OrderIds
          BY <1>0, <3>1 DEF Build, Ordering, Hands, OrderIds
        <4> QED
          BY <3>1, <4>1, ElementsSet DEF Build, Becomes
      <3>2. CASE NothingStarted(c) \/ Crash(c)
        BY <1>0, <3>2 DEF NothingStarted, Crash, Typed
      <3> QED
        BY <1>10, <3>1, <3>2
    <2>4. req[c].pc \in Ordering \/ req'[c].pc = "dead"
      BY <1>10, Moves DEF Build, NothingStarted, Crash, Ordering, MovesTo
    <2> QED
      BY <1>7, <2>1, <2>2, <2>3, <2>4
  <1>11. CASE MarkFailed(c)
    <2>1. req[c].cur \in req[c].held /\ req[c].cur \in Lines /\ UNCHANGED cart
      BY <1>0, <1>11 DEF MarkFailed, cartVars, Hands, Ordering
    <2>2. Failing(c, req[c].cur)
      BY <1>11, <2>1, FailsEffect DEF MarkFailed
    <2>3. order' \in [OrderIds -> OrderRecord]
      BY <1>0, <1>11 DEF MarkFailed, Typed, OrderRecord
    <2>4. Hands'
      BY <1>0, <1>a, <2>1, <2>2, HandsKept DEF Failing, InHand, Ordering, Hands
    <2> QED
      BY <1>0, <1>a, <2>1, <2>2, <2>3, <2>4 DEF TInv, Typed, Failing
  <1> QED
    BY <1>1, <1>2, <1>3, <1>5, <1>6, <1>8, <1>9, <1>10, <1>11 DEF CheckoutStep

LEMMA NextTInv == ASSUME TInv, [Next]_vars PROVE TInv'
  <1>1. CASE UNCHANGED vars
    BY <1>1 DEF vars, cartVars, TInv, Typed, Hands, InHand, Ordering
  <1> QED
    BY <1>1, ShopperTInv, OrderTInv, CheckoutTInv DEF Next

-----------------------------------------------------------------------------
(* Orders and the checkouts that place them.                               *)

Orders ==
  /\ \A c \in Checkouts, l \in Lines : order[<<c, l>>].status # "none" => l \in added
  /\ \A c \in Checkouts :
       /\ req[c].pc \in {"build", "void"}
            => order[<<c, req[c].cur>>].status = "provisioning"
               /\ ~order[<<c, req[c].cur>>].elements
       /\ req[c].pc = "tail" => Stands(<<c, req[c].cur>>)

OInv == TInv /\ Orders

(* Steps that leave standing what stands.                                  *)
Kept ==
  \A c \in Checkouts, l \in Lines :
    /\ Stands(<<c, l>>)' <=> Stands(<<c, l>>)
    /\ order'[<<c, l>>].quantity = order[<<c, l>>].quantity
    /\ order'[<<c, l>>].status = "none" <=> order[<<c, l>>].status = "none"

LEMMA KeptUnchanged == UNCHANGED order => Kept
  BY DEF Kept, Stands

LEMMA OrderKept ==
  ASSUME TInv, OrderStep
  PROVE  /\ Kept
         /\ \A o \in OrderIds : order[o].status = "provisioning" /\ ~order[o].elements
                                  => order'[o] = order[o]
  <1>0. order \in [OrderIds -> OrderRecord] /\ \A c \in Checkouts, l \in Lines : <<c, l>> \in OrderIds
    BY DEF TInv, Typed, OrderIds
  <1>1. CASE SetBudget
    BY <1>1, KeptUnchanged DEF SetBudget
  <1>2. ASSUME NEW o \in OrderIds, Approve(o) \/ Reject(o) \/ PipelineFails(o) \/ Retry(o)
        PROVE  /\ Stands(o)' /\ Stands(o)
               /\ order'[o].quantity = order[o].quantity
               /\ order'[o].status # "none"
               /\ \A p \in OrderIds \ {o} : order'[p] = order[p]
               /\ ~(order[o].status = "provisioning" /\ ~order[o].elements)
    <2>1. CASE Approve(o)
      <3>1. \E s \in {"pending", "provisioning"} : Becomes(o, s, TRUE, order[o].quantity)
        BY <2>1, ElementsSet DEF Approve
      <3> QED
        BY <2>1, <3>1 DEF Approve, Becomes, Stands
    <2>2. CASE Reject(o)
      <3>1. Becomes(o, "rejected", order[o].elements, order[o].quantity)
        BY <2>2, StatusSet DEF Reject
      <3> QED
        BY <2>2, <3>1 DEF Reject, Becomes, Stands
    <2>3. CASE PipelineFails(o)
      <3>1. Becomes(o, "failed", order[o].elements, order[o].quantity)
        BY <2>3, StatusSet DEF PipelineFails
      <3> QED
        BY <2>3, <3>1 DEF PipelineFails, Becomes, Stands
    <2>4. CASE Retry(o)
      <3>1. Becomes(o, "provisioning", order[o].elements, order[o].quantity)
        BY <2>4, StatusSet DEF Retry
      <3> QED
        BY <2>4, <3>1 DEF Retry, Becomes, Stands
    <2> QED
      BY <1>2, <2>1, <2>2, <2>3, <2>4
  <1>3. ASSUME NEW o \in OrderIds, Approve(o) \/ Reject(o) \/ PipelineFails(o) \/ Retry(o)
        PROVE  Kept
    <2> SUFFICES ASSUME NEW c \in Checkouts, NEW l \in Lines
                 PROVE  /\ Stands(<<c, l>>)' <=> Stands(<<c, l>>)
                        /\ order'[<<c, l>>].quantity = order[<<c, l>>].quantity
                        /\ order'[<<c, l>>].status = "none" <=> order[<<c, l>>].status = "none"
      BY DEF Kept
    <2>1. CASE <<c, l>> = o
      BY <1>2, <1>3, <2>1 DEF Stands
    <2>2. CASE <<c, l>> # o
      BY <1>0, <1>2, <1>3, <2>2 DEF Stands
    <2> QED
      BY <2>1, <2>2
  <1>4. \A o \in OrderIds : order[o].status = "provisioning" /\ ~order[o].elements
                                  => order'[o] = order[o]
    BY <1>2 DEF OrderStep, SetBudget
  <1> QED
    BY <1>1, <1>3, <1>4 DEF OrderStep

(* A placed order, one that is built, one that is marked failed.           *)
LEMMA PlacedStands ==
  ASSUME OInv, NEW c \in Checkouts, NEW x \in Lines, x = req[c].cur,
         Insert(c) \/ Build(c) \/ MarkFailed(c)
  PROVE  /\ \A d \in Checkouts, l \in Lines :
              <<d, l>> # <<c, x>> => order'[<<d, l>>] = order[<<d, l>>]
         /\ order'[<<c, x>>].status # "none"
         /\ Insert(c) => /\ Stands(<<c, x>>)'
                         /\ order'[<<c, x>>].quantity = req[c].owned[x]
                         /\ req'[c].pc = "build"
                              => order'[<<c, x>>].status = "provisioning"
                                 /\ ~order'[<<c, x>>].elements
         /\ Build(c) => Stands(<<c, x>>)' /\ Stands(<<c, x>>) /\ Kept
         /\ MarkFailed(c) => ~Stands(<<c, x>>)'
  <1> DEFINE o == <<c, x>>
  <1>0. /\ order \in [OrderIds -> OrderRecord] /\ o \in OrderIds
        /\ \A d \in Checkouts, l \in Lines : <<d, l>> \in OrderIds
    BY DEF OInv, TInv, Typed, OrderIds
  <1>1. CASE Insert(c)
    <2>1. \/ /\ MovesTo(c, {"build"})
             /\ Becomes(o, "provisioning", FALSE, req[c].owned[x])
          \/ /\ MovesTo(c, {"tail"})
             /\ Becomes(o, "pending", FALSE, req[c].owned[x])
      BY <1>1, InsertEffect DEF OInv
    <2>2. ~Build(c) /\ ~MarkFailed(c)
      BY <1>1 DEF Insert, Build, MarkFailed
    <2> QED
      BY <1>0, <2>1, <2>2 DEF Becomes, Stands, MovesTo
  <1>2. CASE Build(c)
    <2>1. order[o].status = "provisioning"
      BY <1>2 DEF Build, OInv, Orders
    <2>2. Becomes(o, "provisioning", TRUE, order[o].quantity)
      BY <1>0, <1>2, <2>1, ElementsSet DEF OInv, Build
    <2>3. ~Insert(c) /\ ~MarkFailed(c)
      BY <1>2 DEF Insert, Build, MarkFailed
    <2>4. \A d \in Checkouts, l \in Lines : <<d, l>> # o => order'[<<d, l>>] = order[<<d, l>>]
      BY <1>0, <2>2 DEF Becomes
    <2>a. order'[o].status = "provisioning" /\ order'[o].quantity = order[o].quantity
      BY <2>2 DEF Becomes
    <2>5. Stands(o)' /\ Stands(o) /\ order'[o].quantity = order[o].quantity
          /\ order'[o].status # "none"
      BY <2>1, <2>a DEF Stands
    <2>6. Kept
      <3> SUFFICES ASSUME NEW d \in Checkouts, NEW l \in Lines
                   PROVE  /\ Stands(<<d, l>>)' <=> Stands(<<d, l>>)
                          /\ order'[<<d, l>>].quantity = order[<<d, l>>].quantity
                          /\ order'[<<d, l>>].status = "none" <=> order[<<d, l>>].status = "none"
        BY DEF Kept
      <3>1. CASE <<d, l>> = o
        BY <2>1, <2>5, <3>1 DEF Stands
      <3>2. CASE <<d, l>> # o
        BY <2>4, <3>2 DEF Stands
      <3> QED
        BY <3>1, <3>2
    <2> QED
      BY <2>3, <2>4, <2>5, <2>6
  <1>3. CASE MarkFailed(c)
    <2>1. ~order[o].elements
      BY <1>3 DEF MarkFailed, OInv, Orders
    <2>2. Becomes(o, "failed", order[o].elements, order[o].quantity)
      BY <1>0, <1>3, StatusSet DEF OInv, MarkFailed
    <2>3. ~Insert(c) /\ ~Build(c)
      BY <1>3 DEF Insert, Build, MarkFailed
    <2>4. order'[o].status = "failed" /\ ~order'[o].elements
      BY <2>1, <2>2, Zenon DEF Becomes
    <2>5. \A d \in Checkouts, l \in Lines : <<d, l>> # o => order'[<<d, l>>] = order[<<d, l>>]
      BY <1>0, <2>2 DEF Becomes
    <2> QED
      BY <2>3, <2>4, <2>5 DEF Stands
  <1> QED
    BY <1>1, <1>2, <1>3

LEMMA OtherOrders ==
  ASSUME OInv, NEW c \in Checkouts, NEW d \in Checkouts, NEW l \in Lines,
         req[c].cur \in Lines, <<d, l>> # <<c, req[c].cur>>,
         Insert(c) \/ Build(c) \/ MarkFailed(c)
  PROVE  order'[<<d, l>>] = order[<<d, l>>]
  <1>1. PICK x \in Lines : x = req[c].cur
    OBVIOUS
  <1>2. \A e \in Checkouts, k \in Lines :
          <<e, k>> # <<c, x>> => order'[<<e, k>>] = order[<<e, k>>]
    BY <1>1, PlacedStands
  <1> QED
    BY <1>1, <1>2

LEMMA InitOrders == Init => Orders
  BY Records DEF Init, Orders, OrderIds

LEMMA ShopperOrders == ASSUME OInv, ShopperStep PROVE Orders'
  <1>1. UNCHANGED <<order, req>> /\ added \subseteq added'
    BY DEF ShopperStep, AddCount, AddInsert, Update, RemoveOne, Clear, Remove, cartVars
  <1> QED
    BY <1>1 DEF OInv, Orders, Stands

LEMMA OrderOrders == ASSUME OInv, OrderStep PROVE Orders'
  <1>1. UNCHANGED <<added, req>>
    BY DEF OrderStep, Approve, Reject, PipelineFails, Retry, SetBudget, OrderChange, cartVars
  <1>2. /\ Kept
        /\ \A o \in OrderIds : order[o].status = "provisioning" /\ ~order[o].elements
                                  => order'[o] = order[o]
    BY OrderKept DEF OInv
  <1>3. \A c \in Checkouts : req[c].pc \in Ordering => req[c].cur \in Lines
                                                       /\ <<c, req[c].cur>> \in OrderIds
    BY DEF OInv, TInv, Typed, Hands, RequestRecord, OrderIds
  <1>4. \A c \in Checkouts, l \in Lines : order'[<<c, l>>].status # "none" => l \in added'
    BY <1>1, <1>2 DEF OInv, Orders, Kept
  <1> SUFFICES ASSUME NEW c \in Checkouts, NEW l \in Lines, l = req[c].cur,
                      req[c].pc \in {"build", "void", "tail"}
               PROVE  /\ req[c].pc \in {"build", "void"}
                           => order'[<<c, l>>].status = "provisioning"
                              /\ ~order'[<<c, l>>].elements
                      /\ req[c].pc = "tail" => Stands(<<c, l>>)'
    BY <1>1, <1>3, <1>4 DEF Orders, Ordering
  <1>5. CASE req[c].pc = "tail"
    BY <1>2, <1>5 DEF OInv, Orders, Kept
  <1>6. CASE req[c].pc \in {"build", "void"}
    <2>1. order'[<<c, l>>] = order[<<c, l>>]
      BY <1>2, <1>3, <1>6 DEF OInv, Orders, Ordering
    <2> QED
      BY <1>6, <2>1 DEF OInv, Orders
  <1> QED
    BY <1>5, <1>6

(* What may have happened to the line and the record of a checkout.        *)
LEMMA CheckoutFrame ==
  ASSUME OInv, NEW c \in Checkouts, CheckoutStep(c) \/ Crash(c) \/ TailThrows(c)
  PROVE  /\ Others(c) /\ UNCHANGED <<added, shown, overtaken, adder, owner>>
         /\ Insert(c) \/ Build(c) \/ MarkFailed(c)
              => req[c].cur \in Lines /\ req[c].cur \in req[c].held
         /\ ~(Insert(c) \/ Build(c) \/ MarkFailed(c)) => UNCHANGED order
         /\ ~(Claim(c) \/ Undo(c) \/ Finish(c)) => UNCHANGED cart
         /\ fault' # "late" => fault # "late" /\ ~TailThrows(c)
  <1>1. /\ UNCHANGED <<added, shown, overtaken, adder, owner>>
        /\ ~(Insert(c) \/ Build(c) \/ MarkFailed(c)) => UNCHANGED order
        /\ ~(Claim(c) \/ Undo(c) \/ Finish(c)) => UNCHANGED cart
        /\ fault' # "late" => fault # "late" /\ ~TailThrows(c)
    BY DEF CheckoutStep, Read, Validate, Claim, Undo, Finish, Denied, Lock, Check, Insert,
       Build, NothingStarted, MarkFailed, Tail, Crash, TailThrows, Fault, cartVars
  <1>2. Insert(c) \/ Build(c) \/ MarkFailed(c)
              => req[c].cur \in Lines /\ req[c].cur \in req[c].held
    BY DEF OInv, TInv, Typed, Hands, RequestRecord, Ordering, Insert, Build, MarkFailed
  <1>3. \A d \in Checkouts \ {c} : req'[d] = req[d]
    BY DEF OInv, TInv, Typed, CheckoutStep, Read, Validate, Claim, Undo, Finish, Denied, Lock,
       Check, Fails, Insert, Build, NothingStarted, MarkFailed, Tail, Crash, TailThrows
  <1> QED
    BY <1>1, <1>2, <1>3 DEF Others

LEMMA CheckoutOrders ==
  ASSUME OInv, NEW c \in Checkouts, CheckoutStep(c) \/ Crash(c) \/ TailThrows(c)
  PROVE  Orders'
  <1>0. req[c] \in RequestRecord /\ TInv /\ Orders /\ Hands
    BY DEF OInv, TInv, Typed
  <1>f. \/ UNCHANGED order
        \/ /\ req[c].cur \in Lines
           /\ \A d \in Checkouts, l \in Lines :
                <<d, l>> # <<c, req[c].cur>> => order'[<<d, l>>] = order[<<d, l>>]
    BY CheckoutFrame, PlacedStands
  <1>1. ASSUME NEW d \in Checkouts, NEW l \in Lines, order'[<<d, l>>].status # "none"
        PROVE  l \in added'
    <2>1. CASE order'[<<d, l>>] = order[<<d, l>>]
      BY <1>0, <1>1, <2>1, CheckoutFrame DEF Orders
    <2>2. CASE (Insert(c) \/ Build(c) \/ MarkFailed(c)) /\ <<d, l>> = <<c, req[c].cur>>
      BY <1>0, <2>2, CheckoutFrame DEF Hands, InHand
    <2> QED
      BY <1>f, <2>1, <2>2, CheckoutFrame
  <1>2. ASSUME NEW d \in Checkouts, NEW l \in Lines, l = req'[d].cur, d # c,
               req'[d].pc \in {"build", "void", "tail"}
        PROVE  req[d] = req'[d] /\ order'[<<d, l>>] = order[<<d, l>>]
    <2>1. req[d] = req'[d]
      BY <1>2, CheckoutFrame DEF Others
    <2>2. <<d, l>> # <<c, req[c].cur>>
      BY <1>2
    <2> QED
      BY <1>f, <2>1, <2>2
  <1>3. ASSUME NEW l \in Lines, l = req'[c].cur
        PROVE  /\ req'[c].pc \in {"build", "void"}
                    => order'[<<c, l>>].status = "provisioning" /\ ~order'[<<c, l>>].elements
               /\ req'[c].pc = "tail" => Stands(<<c, l>>)'
    <2>1. CASE Insert(c)
      <3>1. MovesTo(c, {"build", "tail"})
        BY <1>0, <2>1, InsertEffect DEF MovesTo
      <3>2. l = req[c].cur
        BY <1>3, <3>1 DEF MovesTo
      <3> QED
        BY <2>1, <3>1, <3>2, PlacedStands DEF MovesTo
    <2>2. CASE Build(c)
      <3>1. MovesTo(c, {"tail"})
        BY <1>0, <2>2, Moves DEF Build
      <3>2. l = req[c].cur
        BY <1>3, <3>1 DEF MovesTo
      <3> QED
        BY <2>2, <3>1, <3>2, PlacedStands DEF MovesTo
    <2>3. CASE NothingStarted(c)
      <3>1. MovesTo(c, {"void"}) /\ UNCHANGED order /\ req[c].pc = "build"
        BY <1>0, <2>3, Moves DEF NothingStarted
      <3>2. l = req[c].cur /\ req'[c].pc = "void"
        BY <1>3, <3>1 DEF MovesTo
      <3> QED
        BY <1>0, <3>1, <3>2 DEF Orders
    <2>4. CASE ~(Insert(c) \/ Build(c) \/ NothingStarted(c))
      <3>1. req'[c].pc \notin {"build", "void", "tail"}
        <4>1. CASE Read(c)
          BY <1>0, <4>1, ReadEffect DEF Ends
        <4>2. CASE Validate(c)
          BY <1>0, <4>2, Ended, Moves DEF Validate, Ends, MovesTo
        <4>3. CASE Claim(c)
          BY <1>0, <4>3, ClaimEffect
        <4>4. CASE Undo(c) \/ Finish(c)
          BY <1>0, <4>4, Ended DEF Undo, Finish, Ends
        <4>5. CASE \E k \in Lines : Fails(c, k)
          BY <1>0, <4>5, FailsEffect DEF Failing
        <4>6. CASE Lock(c) \/ Tail(c)
          BY <1>0, <4>6, LockEffect, TailEffect
        <4>7. CASE req' = [req EXCEPT ![c].pc = "insert"] \/ Crash(c)
          BY <1>0, <4>7, Moves DEF Crash, MovesTo
        <4>8. Denied(c) \/ MarkFailed(c) \/ TailThrows(c) \/ Check(c)
                => (\E k \in Lines : Fails(c, k)) \/ req' = [req EXCEPT ![c].pc = "insert"]
          BY <1>0 DEF Denied, MarkFailed, TailThrows, Check, Hands, Ordering, RequestRecord
        <4> QED
          BY <2>4, <4>1, <4>2, <4>3, <4>4, <4>5, <4>6, <4>7, <4>8 DEF CheckoutStep
      <3> QED
        BY <3>1
    <2> QED
      BY <2>1, <2>2, <2>3, <2>4
  <1>4. \A d \in Checkouts : req'[d].pc \in {"build", "void", "tail"} => req'[d].cur \in Lines
    BY CheckoutTInv DEF OInv, TInv, Typed, Hands, RequestRecord, Ordering
  <1>5. \A d \in Checkouts :
          /\ req'[d].pc \in {"build", "void"}
               => order'[<<d, req'[d].cur>>].status = "provisioning"
                  /\ ~order'[<<d, req'[d].cur>>].elements
          /\ req'[d].pc = "tail" => Stands(<<d, req[d].cur>>)'
    <2> SUFFICES ASSUME NEW d \in Checkouts, NEW l \in Lines, l = req'[d].cur,
                        req'[d].pc \in {"build", "void", "tail"}
                 PROVE  /\ req'[d].pc \in {"build", "void"}
                             => order'[<<d, l>>].status = "provisioning"
                                /\ ~order'[<<d, l>>].elements
                        /\ req'[d].pc = "tail" => Stands(<<d, l>>)'
      BY <1>4
    <2>1. CASE d = c
      BY <1>3, <2>1
    <2>2. CASE d # c
      BY <1>0, <1>2, <2>2 DEF Orders, Stands
    <2> QED
      BY <2>1, <2>2
  <1> QED
    BY <1>1, <1>5 DEF Orders

LEMMA NextOInv == ASSUME OInv, [Next]_vars PROVE OInv'
  <1>1. CASE UNCHANGED vars
    BY <1>1 DEF vars, cartVars, OInv, TInv, Typed, Hands, InHand, Ordering, Orders, Stands
  <1>2. CASE Next
    BY <1>2, NextTInv, ShopperOrders, OrderOrders, CheckoutOrders DEF Next, OInv
  <1> QED
    BY <1>1, <1>2


-----------------------------------------------------------------------------
(* What a step of a checkout does to what it has in its hands.             *)

Placed == {"build", "void", "tail"}

Still(c) ==
  /\ UNCHANGED cart
  /\ InHand(c)' = InHand(c)
  /\ \A l \in InHand(c) : req'[c].owned[l] = req[c].owned[l]

LEMMA HandEffect ==
  ASSUME OInv, NEW c \in Checkouts, CheckoutStep(c) \/ Crash(c) \/ TailThrows(c)
  PROVE  /\ \A d \in Checkouts \ {c} : InHand(d)' = InHand(d) /\ req'[d] = req[d]
         /\ Claim(c) => /\ cart' = [l \in Lines |-> IF l \in Deleted(c) THEN 0 ELSE cart[l]]
                        /\ InHand(c) = {} /\ InHand(c)' = Deleted(c)
                        /\ req'[c].owned = req[c].owned /\ req'[c].pc \in {"next", "undo"}
         /\ Undo(c) \/ Finish(c)
              => /\ cart' = [l \in Lines |-> IF l \in InHand(c) THEN req[c].owned[l]
                                                                ELSE cart[l]]
                 /\ InHand(c)' = {} /\ req[c].pc \in {"undo", "next"} /\ req'[c].pc = "done"
         /\ Tail(c) => /\ UNCHANGED cart /\ req[c].pc = "tail" /\ req'[c].pc = "next"
                       /\ InHand(c)' = InHand(c) \ {req[c].cur} /\ Stands(<<c, req[c].cur>>)
                       /\ req'[c].owned = req[c].owned
         /\ ~(Claim(c) \/ Undo(c) \/ Finish(c) \/ Tail(c)) => Still(c)
         /\ Read(c) \/ Validate(c) \/ Denied(c) \/ Lock(c) \/ Check(c)
              => req[c].pc \notin Placed \cup {"dead"}
         /\ Insert(c) \/ Build(c) \/ NothingStarted(c)
              => req'[c].pc \in Placed /\ req'[c].cur = req[c].cur
         /\ Insert(c) => req[c].pc = "insert"
         /\ Build(c) \/ NothingStarted(c) => req[c].pc = "build"
         /\ MarkFailed(c) => req[c].pc = "void"
         /\ Crash(c) => req'[c].pc = "dead"
  <1>0. req[c] \in RequestRecord /\ TInv /\ Hands /\ Orders
    BY DEF OInv, TInv, Typed
  <1>1. \A d \in Checkouts \ {c} : InHand(d)' = InHand(d) /\ req'[d] = req[d]
    BY CheckoutFrame DEF Others, InHand
  <1>2. ASSUME Claim(c)
        PROVE  /\ cart' = [l \in Lines |-> IF l \in Deleted(c) THEN 0 ELSE cart[l]]
               /\ InHand(c) = {} /\ InHand(c)' = Deleted(c)
               /\ req'[c].owned = req[c].owned /\ req'[c].pc \in {"next", "undo"}
    <2>1. req[c].pc = "claim" /\ InHand(c) = {}
      BY <1>0, <1>2 DEF Claim, Hands
    <2>2. cart' = [l \in Lines |-> IF l \in Deleted(c) THEN 0 ELSE cart[l]]
      BY <1>2 DEF Claim
    <2>3. /\ req'[c].owned = req[c].owned /\ req'[c].pc \in {"next", "undo"}
          /\ req'[c].held \cup req'[c].failed = Deleted(c)
      BY <1>0, <1>2, ClaimEffect
    <2> QED
      BY <2>1, <2>2, <2>3 DEF InHand
  <1>3. ASSUME Undo(c) \/ Finish(c)
        PROVE  /\ cart' = [l \in Lines |-> IF l \in InHand(c) THEN req[c].owned[l] ELSE cart[l]]
               /\ InHand(c)' = {} /\ req[c].pc \in {"undo", "next"} /\ req'[c].pc = "done"
    <2>1. Ends(c) /\ cart' = PutBack(c) /\ req[c].pc \in {"undo", "next"} /\ req[c].held = {}
      BY <1>0, <1>3, Ended DEF Undo, Finish, Hands
    <2>2. InHand(c) = req[c].failed /\ InHand(c)' = {}
      BY <2>1 DEF Ends, InHand
    <2> QED
      BY <2>1, <2>2 DEF Ends, PutBack
  <1>4. ASSUME Tail(c)
        PROVE  /\ UNCHANGED cart /\ req[c].pc = "tail" /\ req'[c].pc = "next"
               /\ InHand(c)' = InHand(c) \ {req[c].cur} /\ Stands(<<c, req[c].cur>>)
               /\ req'[c].owned = req[c].owned
    <2>1. UNCHANGED cart /\ req[c].pc = "tail"
      BY <1>4 DEF Tail, cartVars
    <2>2. Stands(<<c, req[c].cur>>)
      BY <1>0, <2>1 DEF Orders
    <2>3. req[c].cur \in req[c].held /\ req[c].held \cap req[c].failed = {}
      BY <1>0, <2>1 DEF Hands, Ordering
    <2> QED
      BY <1>0, <1>4, <2>1, <2>2, <2>3, TailEffect DEF InHand
  <1>5. ASSUME ~(Claim(c) \/ Undo(c) \/ Finish(c) \/ Tail(c)) PROVE Still(c)
    <2>1. UNCHANGED cart
      BY <1>5, CheckoutFrame
    <2>2. CASE Read(c) \/ Validate(c)
      <3>1. InHand(c) = {}
        BY <1>0, <2>2 DEF Hands, Read, Validate
      <3>2. \/ Ends(c)
            \/ req'[c].held = req[c].held /\ req'[c].failed = req[c].failed
        BY <1>0, <2>2, ReadEffect, Ended, Moves DEF Validate, MovesTo
      <3> QED
        BY <2>1, <3>1, <3>2 DEF Still, InHand, Ends
    <2>3. ASSUME NEW l \in req[c].held, Fails(c, l) PROVE Still(c)
      <3>1. Failing(c, l)
        BY <1>0, <2>3, FailsEffect DEF RequestRecord
      <3> QED
        BY <1>0, <2>1, <3>1 DEF Still, InHand, Failing
    <2>4. CASE Denied(c) \/ MarkFailed(c) \/ TailThrows(c)
      BY <1>0, <2>3, <2>4 DEF Denied, MarkFailed, TailThrows, Hands, Ordering
    <2>5. CASE Lock(c)
      BY <1>0, <2>1, <2>5, LockEffect DEF Still, InHand
    <2>6. ASSUME NEW p, MovesTo(c, {p}) PROVE Still(c)
      BY <2>1, <2>6 DEF Still, InHand, MovesTo
    <2>7. CASE Check(c)
      BY <1>0, <2>3, <2>6, <2>7, Moves DEF Check, Hands, Ordering
    <2>8. CASE Insert(c) \/ Build(c) \/ NothingStarted(c) \/ Crash(c)
      BY <1>0, <2>6, <2>8, Moves, InsertEffect DEF Build, NothingStarted, Crash
    <2> QED
      BY <1>5, <2>2, <2>4, <2>5, <2>7, <2>8 DEF CheckoutStep
  <1>6. /\ Read(c) \/ Validate(c) \/ Denied(c) \/ Lock(c) \/ Check(c)
              => req[c].pc \notin Placed \cup {"dead"}
        /\ Insert(c) => req[c].pc = "insert"
        /\ Build(c) \/ NothingStarted(c) => req[c].pc = "build"
        /\ MarkFailed(c) => req[c].pc = "void"
    BY DEF Read, Validate, Denied, Lock, Check, Placed, Insert, Build, NothingStarted, MarkFailed
  <1>7. Insert(c) \/ Build(c) \/ NothingStarted(c)
              => req'[c].pc \in Placed /\ req'[c].cur = req[c].cur
    BY <1>0, InsertEffect, Moves DEF Build, NothingStarted, MovesTo, Placed
  <1>8. Crash(c) => req'[c].pc = "dead"
    BY <1>0, Moves DEF Crash, MovesTo
  <1> QED
    BY <1>1, <1>2, <1>3, <1>4, <1>5, <1>6, <1>7, <1>8

-----------------------------------------------------------------------------
(* Nothing is lost.                                                        *)

LEMMA OrdersOfLine ==
  ASSUME NEW l \in Lines
  PROVE  \A o : o \in OrdersOf(l) <=> \E c \in Checkouts : o = <<c, l>> /\ Stands(<<c, l>>)
  <1>1. ASSUME NEW o \in OrdersOf(l)
        PROVE  \E c \in Checkouts : o = <<c, l>> /\ Stands(<<c, l>>)
    <2>1. o \in Checkouts \X Lines /\ o[2] = l /\ Stands(o)
      BY DEF OrdersOf, OrderIds
    <2>2. PICK c \in Checkouts, k \in Lines : o = <<c, k>>
      BY <2>1
    <2> QED
      BY <2>1, <2>2
  <1>2. ASSUME NEW c \in Checkouts, Stands(<<c, l>>)
        PROVE  <<c, l>> \in OrdersOf(l)
    BY <1>2 DEF OrdersOf, OrderIds
  <1> QED
    BY <1>1, <1>2

Safe(l) ==
  \/ cart[l] # 0
  \/ \E c \in Checkouts : Stands(<<c, l>>)
  \/ \E c \in Checkouts : l \in InHand(c)

SafeInv == \A l \in Lines : shown[l] # 0 => Safe(l)

LEMMA SafeIsEnough == SafeInv <=> NothingIsLost
  BY OrdersOfLine DEF SafeInv, Safe, NothingIsLost

LEMMA InitSafe == Init => SafeInv
  BY DEF Init, SafeInv, Safe


(* What the shopper does to the cart.                                      *)
Lies(l, q) ==
  /\ q # 0
  /\ cart' = [cart EXCEPT ![l] = q]
  /\ shown' = [shown EXCEPT ![l] = q]

Gone(lines) ==
  /\ cart' = [l \in Lines |-> IF l \in lines THEN 0 ELSE cart[l]]
  /\ shown' = [l \in Lines |-> IF l \in lines THEN 0 ELSE shown[l]]

Overtakes(l) ==
  overtaken' = IF \E c \in Checkouts : ReadBy(c, l) THEN overtaken \cup {l}
                                                    ELSE overtaken \ {l}

LEMMA ShopperEffect ==
  ASSUME TInv, ShopperStep
  PROVE  /\ UNCHANGED <<order, req, fault>>
         /\ \/ UNCHANGED <<cart, shown, added, overtaken>>
            \/ \E l \in Lines \ added, q \in Quantity :
                 Lies(l, q) /\ added' = added \cup {l} /\ UNCHANGED overtaken
            \/ /\ UNCHANGED added
               /\ \E l \in Lines, q \in Quantity : cart[l] # 0 /\ Lies(l, q) /\ Overtakes(l)
            \/ /\ UNCHANGED added
               /\ \E gone \in SUBSET Lines :
                    Gone(gone) /\ overtaken' = overtaken \cup (gone \ InCart)
  <1>0. added \subseteq Lines
    BY DEF TInv, Typed
  <1>1. UNCHANGED <<order, req, fault>>
    BY DEF ShopperStep, AddCount, AddInsert, Update, RemoveOne, Clear, Remove
  <1>2. ASSUME NEW a \in Adders, AddCount(a) PROVE UNCHANGED <<cart, shown, added, overtaken>>
    BY <1>2 DEF AddCount, cartVars
  <1>3. ASSUME NEW a \in Adders, AddInsert(a)
        PROVE  \E l \in Lines \ added, q \in Quantity :
                 Lies(l, q) /\ added' = added \cup {l} /\ UNCHANGED overtaken
    BY <1>3 DEF AddInsert, Lies
  <1>4. ASSUME NEW l \in Lines, Update(l)
        PROVE  /\ UNCHANGED added
               /\ \E q \in Quantity : cart[l] # 0 /\ Lies(l, q) /\ Overtakes(l)
    BY <1>4 DEF Update, Lies, Overtakes
  <1>5. ASSUME NEW gone, Remove(gone)
        PROVE  /\ UNCHANGED added /\ gone \in SUBSET Lines
               /\ Gone(gone) /\ overtaken' = overtaken \cup (gone \ InCart)
    BY <1>5 DEF Remove, Gone, InCart, ComingBack
  <1>6. CASE RemoveOne \/ Clear
    BY <1>1, <1>5, <1>6 DEF RemoveOne, Clear
  <1>7. CASE \E a \in Adders : AddCount(a) \/ AddInsert(a)
    BY <1>1, <1>2, <1>3, <1>7
  <1>8. CASE \E l \in Lines : Update(l)
    BY <1>1, <1>4, <1>8
  <1> QED
    BY <1>6, <1>7, <1>8 DEF ShopperStep

LEMMA ShopperSafe == ASSUME OInv, SafeInv, ShopperStep PROVE SafeInv'
  <1>0. TInv /\ cart \in [Lines -> Quantity] /\ shown \in [Lines -> Quantity]
    BY DEF OInv, TInv, Typed
  <1>1. UNCHANGED <<order, req>>
    BY <1>0, ShopperEffect
  <1>2. ASSUME NEW l \in Lines, NEW q, Lies(l, q)
        PROVE  \A k \in Lines : cart'[k] # 0 \/ (cart'[k] = cart[k] /\ shown'[k] = shown[k])
    BY <1>0, <1>2 DEF Lies
  <1>3. ASSUME NEW gone, Gone(gone)
        PROVE  \A k \in Lines : shown'[k] = 0 \/ (cart'[k] = cart[k] /\ shown'[k] = shown[k])
    BY <1>0, <1>3 DEF Gone
  <1>4. \A k \in Lines :
          shown'[k] = 0 \/ cart'[k] # 0 \/ (cart'[k] = cart[k] /\ shown'[k] = shown[k])
    BY <1>0, <1>2, <1>3, ShopperEffect
  <1> QED
    BY <1>1, <1>4 DEF SafeInv, Safe, Stands, InHand

LEMMA OrderSafe == ASSUME OInv, SafeInv, OrderStep PROVE SafeInv'
  <1>1. UNCHANGED <<cart, shown, req>>
    BY DEF OrderStep, Approve, Reject, PipelineFails, Retry, SetBudget, OrderChange, cartVars
  <1>2. Kept
    BY OrderKept DEF OInv
  <1>3. \A l \in Lines, c \in Checkouts : Stands(<<c, l>>)' <=> Stands(<<c, l>>)
    BY <1>2 DEF Kept
  <1>4. \A c \in Checkouts : InHand(c)' = InHand(c)
    BY <1>1 DEF InHand
  <1> QED
    BY <1>1, <1>3, <1>4 DEF SafeInv, Safe

LEMMA CheckoutSafe ==
  ASSUME OInv, SafeInv, NEW c \in Checkouts, CheckoutStep(c) \/ Crash(c) \/ TailThrows(c)
  PROVE  SafeInv'
  <1>0. /\ UNCHANGED shown /\ cart \in [Lines -> Quantity]
        /\ \A d \in Checkouts \ {c} : InHand(d)' = InHand(d)
        /\ \A l \in InHand(c) : l \in Lines /\ req[c].owned[l] # 0
    BY CheckoutFrame, HandEffect DEF OInv, TInv, Typed, Hands, InHand, RequestRecord
  <1>1. ASSUME NEW l \in Lines, NEW d \in Checkouts, Stands(<<d, l>>)
        PROVE  Stands(<<d, l>>)' \/ l \in InHand(c)'
    <2>1. CASE Insert(c) \/ Build(c) \/ MarkFailed(c)
      <3>1. PICK x \in Lines : x = req[c].cur /\ x \in req[c].held
        BY <2>1, CheckoutFrame
      <3>2. CASE <<d, l>> # <<c, x>>
        <4>1. order'[<<d, l>>] = order[<<d, l>>]
          BY <2>1, <3>1, <3>2, OtherOrders
        <4> QED
          BY <1>1, <4>1 DEF Stands
      <3>3. CASE <<d, l>> = <<c, x>> /\ (Insert(c) \/ Build(c))
        <4>1. d = c /\ l = x
          BY <3>3
        <4> QED
          BY <3>1, <3>3, <4>1, PlacedStands
      <3>4. CASE <<d, l>> = <<c, x>> /\ MarkFailed(c)
        <4>1. Still(c)
          BY <3>4, HandEffect DEF MarkFailed, Claim, Undo, Finish, Tail
        <4> QED
          BY <3>1, <3>4, <4>1 DEF Still, InHand
      <3> QED
        BY <2>1, <3>2, <3>3, <3>4
    <2>2. CASE UNCHANGED order
      BY <1>1, <2>2 DEF Stands
    <2> QED
      BY <2>1, <2>2, CheckoutFrame
  <1>2. ASSUME NEW l \in Lines, cart[l] # 0
        PROVE  cart'[l] # 0 \/ l \in InHand(c)'
    <2>1. CASE Claim(c)
      <3>1. /\ cart' = [k \in Lines |-> IF k \in Deleted(c) THEN 0 ELSE cart[k]]
            /\ InHand(c)' = Deleted(c)
        BY <2>1, HandEffect
      <3> QED
        BY <1>2, <3>1
    <2>2. CASE Undo(c) \/ Finish(c)
      <3>1. cart' = [k \in Lines |-> IF k \in InHand(c) THEN req[c].owned[k] ELSE cart[k]]
        BY <2>2, HandEffect
      <3> QED
        BY <1>0, <1>2, <3>1
    <2> QED
      BY <1>2, <2>1, <2>2, CheckoutFrame
  <1>3. ASSUME NEW l \in Lines, l \in InHand(c)
        PROVE  cart'[l] # 0 \/ l \in InHand(c)' \/ Stands(<<c, l>>)'
    <2>1. CASE Claim(c)
      BY <1>3, <2>1, HandEffect
    <2>2. CASE Undo(c) \/ Finish(c)
      BY <1>0, <1>3, <2>2, HandEffect
    <2>3. CASE Tail(c)
      <3>1. InHand(c)' = InHand(c) \ {req[c].cur} /\ Stands(<<c, req[c].cur>>) /\ UNCHANGED order
        BY <2>3, HandEffect DEF Tail
      <3> QED
        BY <1>3, <3>1 DEF Stands
    <2>4. CASE Still(c)
      BY <1>3, <2>4 DEF Still
    <2> QED
      BY <2>1, <2>2, <2>3, <2>4, HandEffect
  <1> SUFFICES ASSUME NEW l \in Lines, shown[l] # 0 PROVE Safe(l)'
    BY <1>0 DEF SafeInv
  <1>4. CASE cart[l] # 0
    BY <1>2, <1>4 DEF Safe
  <1>5. CASE \E d \in Checkouts : Stands(<<d, l>>)
    BY <1>1, <1>5 DEF Safe
  <1>6. CASE \E d \in Checkouts : l \in InHand(d)
    BY <1>0, <1>3, <1>6 DEF Safe
  <1> QED
    BY <1>4, <1>5, <1>6 DEF SafeInv, Safe

(* What the shopper has not removed is in the cart, ordered, or in the     *)
(* hands of a checkout, whatever fails and whoever is faster: the whole of *)
(* checkoutCart.                                                           *)
THEOREM LinesAreSafe == Spec => []NothingIsLost
  <1>1. Init => OInv /\ SafeInv
    BY InitTInv, InitOrders, InitSafe DEF OInv
  <1>2. OInv /\ SafeInv /\ [Next]_vars => (OInv /\ SafeInv)'
    <2> SUFFICES ASSUME OInv, SafeInv, [Next]_vars PROVE OInv' /\ SafeInv'
      OBVIOUS
    <2>1. CASE UNCHANGED vars
      BY <2>1, NextOInv DEF vars, cartVars, SafeInv, Safe, Stands, InHand
    <2>2. CASE Next
      BY <2>2, NextOInv, ShopperSafe, OrderSafe, CheckoutSafe DEF Next
    <2> QED
      BY <2>1, <2>2
  <1>3. OInv /\ SafeInv => NothingIsLost
    BY SafeIsEnough
  <1> QED
    BY <1>1, <1>2, <1>3, PTL DEF Spec


-----------------------------------------------------------------------------
(* A line is ordered once.                                                 *)

OnceInv ==
  fault # "late" =>
    /\ \A c, d \in Checkouts, l \in Lines : Stands(<<c, l>>) /\ Stands(<<d, l>>) => c = d
    /\ \A c \in Checkouts, l \in Lines : cart[l] # 0 => ~Stands(<<c, l>>)
    /\ \A c, d \in Checkouts : \A l \in InHand(c) :
         Stands(<<d, l>>) => /\ d = c
                             /\ \/ req[c].pc = "dead"
                                \/ req[c].pc \in Placed /\ l = req[c].cur

LEMMA OnceIsEnough == OInv /\ OnceInv => OrderedOnce
  <1> SUFFICES ASSUME OnceInv, fault # "late", NEW l \in Lines
               PROVE  Cardinality(OrdersOf(l)) \leq 1 /\ (cart[l] # 0 => OrdersOf(l) = {})
    BY DEF OrderedOnce
  <1>0. /\ \A c, d \in Checkouts : Stands(<<c, l>>) /\ Stands(<<d, l>>) => c = d
        /\ \A c \in Checkouts : cart[l] # 0 => ~Stands(<<c, l>>)
    BY DEF OnceInv
  <1>1. ASSUME NEW o \in OrdersOf(l), NEW p \in OrdersOf(l) PROVE o = p
    <2>1. PICK c \in Checkouts : o = <<c, l>> /\ Stands(<<c, l>>)
      BY OrdersOfLine
    <2>2. PICK d \in Checkouts : p = <<d, l>> /\ Stands(<<d, l>>)
      BY OrdersOfLine
    <2> QED
      BY <1>0, <2>1, <2>2
  <1>2. ASSUME NEW o \in OrdersOf(l) PROVE cart[l] = 0
    <2>1. PICK c \in Checkouts : o = <<c, l>> /\ Stands(<<c, l>>)
      BY OrdersOfLine
    <2> QED
      BY <1>0, <2>1
  <1>3. CASE OrdersOf(l) = {}
    BY <1>2, <1>3, FS_EmptySet
  <1>4. CASE OrdersOf(l) # {}
    <2>1. PICK o : OrdersOf(l) = {o}
      BY <1>1, <1>4
    <2>2. Cardinality(OrdersOf(l)) = 1
      BY <2>1, FS_Singleton
    <2> QED
      BY <1>2, <1>4, <2>2
  <1> QED
    BY <1>3, <1>4

LEMMA InitOnce == Init => OnceInv
  BY Records DEF Init, OnceInv, Stands, OrderIds, InHand

LEMMA ShopperOnce == ASSUME OInv, OnceInv, ShopperStep PROVE OnceInv'
  <1>0. TInv /\ Orders /\ cart \in [Lines -> Quantity]
    BY DEF OInv, TInv, Typed
  <1>1. UNCHANGED <<order, req, fault>>
    BY <1>0, ShopperEffect
  <1>2. \A l \in Lines : cart'[l] # 0 => cart[l] # 0 \/ l \notin added
    <2>1. ASSUME NEW l \in Lines, NEW q, Lies(l, q)
          PROVE  \A k \in Lines \ {l} : cart'[k] = cart[k]
      BY <1>0, <2>1 DEF Lies
    <2>2. ASSUME NEW gone, Gone(gone) PROVE \A k \in Lines : cart'[k] # 0 => cart[k] # 0
      BY <1>0, <2>2 DEF Gone
    <2> QED
      BY <1>0, <2>1, <2>2, ShopperEffect
  <1>3. \A c \in Checkouts, l \in Lines : Stands(<<c, l>>) => l \in added
    BY <1>0 DEF Orders, Stands
  <1> QED
    BY <1>1, <1>2, <1>3 DEF OnceInv, Stands, InHand

LEMMA OrderOnce == ASSUME OInv, OnceInv, OrderStep PROVE OnceInv'
  <1>1. UNCHANGED <<cart, req, fault>>
    BY DEF OrderStep, Approve, Reject, PipelineFails, Retry, SetBudget, OrderChange, cartVars
  <1>2. \A l \in Lines, c \in Checkouts : Stands(<<c, l>>)' <=> Stands(<<c, l>>)
    BY OrderKept DEF OInv, Kept
  <1>3. \A c \in Checkouts : InHand(c)' = InHand(c) /\ InHand(c) \subseteq Lines
    BY <1>1 DEF InHand, OInv, TInv, Typed, RequestRecord
  <1> QED
    BY <1>1, <1>2, <1>3 DEF OnceInv

(* Only Insert makes an order stand, and it does for its own line.         *)
LEMMA NewlyStands ==
  ASSUME OInv, NEW c \in Checkouts, CheckoutStep(c) \/ Crash(c) \/ TailThrows(c),
         NEW d \in Checkouts, NEW l \in Lines, Stands(<<d, l>>)'
  PROVE  /\ ~(MarkFailed(c) /\ d = c /\ l = req[c].cur)
         /\ Stands(<<d, l>>) \/ (Insert(c) /\ d = c /\ l = req[c].cur)
  <1>1. CASE UNCHANGED order
    <2>1. Stands(<<d, l>>)
      BY <1>1 DEF Stands
    <2>2. ~(MarkFailed(c) /\ d = c /\ l = req[c].cur)
      BY PlacedStands
    <2> QED
      BY <2>1, <2>2
  <1>2. CASE Insert(c) \/ Build(c) \/ MarkFailed(c)
    <2>1. PICK x \in Lines : x = req[c].cur
      BY <1>2, CheckoutFrame
    <2>2. CASE <<d, l>> # <<c, x>>
      <3>1. order'[<<d, l>>] = order[<<d, l>>]
        BY <1>2, <2>1, <2>2, OtherOrders
      <3> QED
        BY <2>1, <2>2, <3>1 DEF Stands
    <2>3. CASE <<d, l>> = <<c, x>>
      <3>1. d = c /\ l = x
        BY <2>3
      <3>2. ~MarkFailed(c)
        BY <2>1, <3>1, PlacedStands
      <3>3. Build(c) => Stands(<<c, x>>)
        BY <2>1, PlacedStands
      <3> QED
        BY <1>2, <2>1, <3>1, <3>2, <3>3
    <2> QED
      BY <2>2, <2>3
  <1> QED
    BY <1>1, <1>2, CheckoutFrame

LEMMA CheckoutOnce ==
  ASSUME OInv, OnceInv, NEW c \in Checkouts, CheckoutStep(c) \/ Crash(c) \/ TailThrows(c)
  PROVE  OnceInv'
  <1> SUFFICES ASSUME fault' # "late" PROVE OnceInv'
    BY DEF OnceInv
  <1>0. /\ fault # "late" /\ ~TailThrows(c) /\ Hands /\ req[c] \in RequestRecord
        /\ InHand(c) \subseteq Lines /\ cart \in [Lines -> Quantity]
        /\ \A d \in Checkouts \ {c} : InHand(d)' = InHand(d) /\ req'[d] = req[d]
    BY CheckoutFrame, HandEffect DEF OInv, TInv, Typed, InHand, RequestRecord
  <1>1. /\ \A d, e \in Checkouts, l \in Lines : Stands(<<d, l>>) /\ Stands(<<e, l>>) => d = e
        /\ \A d \in Checkouts, l \in Lines : cart[l] # 0 => ~Stands(<<d, l>>)
        /\ \A d, e \in Checkouts : \A l \in InHand(d) :
             Stands(<<e, l>>) => /\ e = d
                                 /\ \/ req[d].pc = "dead"
                                    \/ req[d].pc \in Placed /\ l = req[d].cur
    BY <1>0 DEF OnceInv
  <1>2. Insert(c) => /\ req[c].cur \in InHand(c) /\ req[c].pc = "insert"
                     /\ cart[req[c].cur] = 0
                     /\ \A d \in Checkouts : ~Stands(<<d, req[c].cur>>)
    <2> SUFFICES ASSUME Insert(c) PROVE /\ req[c].cur \in InHand(c) /\ req[c].pc = "insert"
                                         /\ cart[req[c].cur] = 0
                                         /\ \A d \in Checkouts : ~Stands(<<d, req[c].cur>>)
      OBVIOUS
    <2>1. req[c].cur \in InHand(c) /\ req[c].cur \in Lines
      BY CheckoutFrame DEF InHand
    <2>2. req[c].pc = "insert"
      BY HandEffect
    <2>3. cart[req[c].cur] = 0
      BY <1>0, <2>1 DEF Hands
    <2>4. \A d \in Checkouts : ~Stands(<<d, req[c].cur>>)
      BY <1>1, <2>1, <2>2 DEF Placed
    <2> QED
      BY <2>1, <2>2, <2>3, <2>4
  <1>3. \A d, e \in Checkouts, l \in Lines : Stands(<<d, l>>)' /\ Stands(<<e, l>>)' => d = e
    BY <1>1, <1>2, NewlyStands
  <1>4. ASSUME NEW d \in Checkouts, NEW l \in Lines, cart'[l] # 0 PROVE ~Stands(<<d, l>>)'
    <2>1. CASE cart[l] # 0
      BY <1>1, <1>2, <2>1, NewlyStands
    <2>2. CASE cart[l] = 0
      <3>1. (Undo(c) \/ Finish(c)) /\ l \in InHand(c)
        <4>1. cart'[l] # cart[l]
          BY <1>4, <2>2
        <4>2. Claim(c) \/ Undo(c) \/ Finish(c)
          BY <4>1, CheckoutFrame
        <4>3. Claim(c) => cart' = [k \in Lines |-> IF k \in Deleted(c) THEN 0 ELSE cart[k]]
          BY HandEffect
        <4>4. Undo(c) \/ Finish(c)
                => cart' = [k \in Lines |-> IF k \in InHand(c) THEN req[c].owned[k] ELSE cart[k]]
          BY HandEffect
        <4>5. ~Claim(c)
          BY <1>4, <2>2, <4>3
        <4> QED
          BY <4>1, <4>2, <4>4, <4>5
      <3>2. req[c].pc \in {"undo", "next"} /\ ~Insert(c)
        BY <3>1, HandEffect DEF Undo, Finish, Insert
      <3> QED
        BY <1>1, <3>1, <3>2, NewlyStands DEF Placed
    <2> QED
      BY <1>0, <2>1, <2>2
  <1>5. ASSUME NEW d \in Checkouts, NEW e \in Checkouts, NEW l \in InHand(d)', Stands(<<e, l>>)'
        PROVE  /\ e = d
               /\ req'[d].pc = "dead" \/ (req'[d].pc \in Placed /\ l = req'[d].cur)
    <2>0. l \in Lines
      BY CheckoutTInv DEF OInv, TInv, Typed, InHand, RequestRecord
    <2>1. /\ ~(MarkFailed(c) /\ e = c /\ l = req[c].cur)
          /\ Stands(<<e, l>>) \/ (Insert(c) /\ e = c /\ l = req[c].cur)
      BY <1>5, <2>0, NewlyStands
    <2>2. CASE d # c
      <3>1. l \in InHand(d) /\ req'[d] = req[d] /\ InHand(c) \cap InHand(d) = {}
        BY <1>0, <1>5, <2>2 DEF Hands
      <3> QED
        BY <1>1, <1>2, <2>1, <3>1
    <2>3. CASE d = c /\ Claim(c)
      <3>1. cart[l] # 0 /\ ~Insert(c)
        <4>1. l \in Deleted(c)
          BY <1>5, <2>3, HandEffect
        <4> QED
          BY <2>3, <4>1 DEF Deleted, InCart, Claim, Insert
      <3> QED
        BY <1>1, <2>0, <2>1, <3>1
    <2>4. CASE d = c /\ (Undo(c) \/ Finish(c))
      BY <1>5, <2>4, HandEffect
    <2>5. CASE d = c /\ Tail(c)
      <3>1. l \in InHand(c) /\ l # req[c].cur /\ req[c].pc = "tail"
        BY <1>5, <2>5, HandEffect
      <3> QED
        BY <1>1, <2>1, <3>1 DEF Placed
    <2>6. CASE d = c /\ Still(c)
      <3>1. l \in InHand(c)
        BY <1>5, <2>6 DEF Still
      <3>2. CASE Insert(c)
        BY <1>1, <1>2, <2>1, <2>6, <3>1, <3>2, HandEffect DEF Placed
      <3>3. CASE Build(c) \/ NothingStarted(c)
        <4>1. req[c].pc = "build" /\ req'[c].pc \in Placed /\ req'[c].cur = req[c].cur /\ ~Insert(c)
          BY <3>3, HandEffect DEF Insert
        <4> QED
          BY <1>1, <2>1, <2>6, <3>1, <4>1 DEF Placed
      <3>4. CASE MarkFailed(c)
        <4>1. req[c].pc = "void" /\ ~Insert(c)
          BY <3>4, HandEffect DEF Insert
        <4> QED
          BY <1>1, <2>1, <2>6, <3>1, <3>4, <4>1
      <3>5. CASE Read(c) \/ Validate(c) \/ Denied(c) \/ Lock(c) \/ Check(c)
        <4>1. req[c].pc \notin Placed \cup {"dead"}
          BY <3>5, HandEffect
        <4>2. ~Insert(c)
          BY <3>5 DEF Insert, Read, Validate, Denied, Lock, Check
        <4> QED
          BY <1>1, <2>1, <2>6, <3>1, <4>1, <4>2
      <3>6. CASE Crash(c)
        BY <1>1, <1>2, <2>1, <2>6, <3>1, <3>6, HandEffect
      <3> QED
        BY <1>0, <2>3, <2>4, <2>5, <2>6, <3>2, <3>3, <3>4, <3>5, <3>6 DEF CheckoutStep
    <2> QED
      BY <2>2, <2>3, <2>4, <2>5, <2>6, HandEffect
  <1> QED
    BY <1>3, <1>4, <1>5 DEF OnceInv

LEMMA NextOnce == ASSUME OInv, OnceInv, [Next]_vars PROVE OnceInv'
  <1>1. CASE UNCHANGED vars
    BY <1>1 DEF vars, cartVars, OnceInv, Stands, InHand
  <1> QED
    BY <1>1, ShopperOnce, OrderOnce, CheckoutOnce DEF Next

(* However many checkouts are open, a line becomes one order, and none     *)
(* while it lies in the cart: checkoutCart and restoreCartItems.           *)
THEOREM OneOrderALine == Spec => []OrderedOnce
  <1>1. Init => OInv /\ OnceInv
    BY InitTInv, InitOrders, InitOnce DEF OInv
  <1>2. OInv /\ OnceInv /\ [Next]_vars => (OInv /\ OnceInv)'
    BY NextOInv, NextOnce
  <1>3. OInv /\ OnceInv => OrderedOnce
    BY OnceIsEnough
  <1> QED
    BY <1>1, <1>2, <1>3, PTL DEF Spec


-----------------------------------------------------------------------------
(* What is ordered is what the shopper asked for.                          *)

(* What a line not overtaken is worth, in the cart, in a checkout's hands, *)
(* in what a checkout has read, and in an order.                           *)
SaidOf(l) ==
  /\ cart[l] # 0 => cart[l] = shown[l]
  /\ \A c \in Checkouts : l \in InHand(c) => shown[l] # 0 /\ req[c].owned[l] = shown[l]
  /\ \A c \in Checkouts : ReadBy(c, l) /\ shown[l] # 0 => req[c].owned[l] = shown[l]
  /\ fault # "late" =>
       \A c \in Checkouts : Stands(<<c, l>>) => order[<<c, l>>].quantity = shown[l]

SaidInv ==
  /\ \A l \in Lines \ overtaken : SaidOf(l)
  /\ \A c \in Checkouts, l \in Lines : ReadBy(c, l) => l \in added

LEMMA SaidIsEnough == SaidInv => AsTheShopperSaid
  <1> SUFFICES ASSUME SaidInv, NEW l \in Lines \ overtaken
               PROVE  /\ cart[l] # 0 => cart[l] = shown[l]
                      /\ fault # "late" => \A o \in OrdersOf(l) : order[o].quantity = shown[l]
    BY DEF AsTheShopperSaid
  <1>1. SaidOf(l)
    BY DEF SaidInv
  <1>2. ASSUME fault # "late", NEW o \in OrdersOf(l)
        PROVE  order[o].quantity = shown[l]
    <2>1. PICK c \in Checkouts : o = <<c, l>> /\ Stands(<<c, l>>)
      BY OrdersOfLine
    <2> QED
      BY <1>1, <1>2, <2>1 DEF SaidOf
  <1> QED
    BY <1>1, <1>2 DEF SaidOf

LEMMA InitSaid == Init => SaidInv
  BY Records DEF Init, SaidInv, SaidOf, Stands, OrderIds, InHand, ReadBy

(* A line that a shopper's step changes is overtaken, or nobody's: in      *)
(* nobody's hands, read by nobody unless it goes, and not ordered.         *)
Nobodys(l) ==
  /\ cart'[l] # 0 => cart'[l] = shown'[l]
  /\ \A c \in Checkouts : l \notin InHand(c)
  /\ \A c \in Checkouts : ~ReadBy(c, l) \/ shown'[l] = 0
  /\ fault # "late" => \A c \in Checkouts : ~Stands(<<c, l>>)

Same(l) == cart'[l] = cart[l] /\ shown'[l] = shown[l] /\ l \notin overtaken

LEMMA ShopperChanges ==
  ASSUME OInv, OnceInv, SaidInv, ShopperStep, NEW k \in Lines \ overtaken'
  PROVE  Same(k) \/ Nobodys(k)
  <1>0. /\ TInv /\ Orders /\ Hands
        /\ cart \in [Lines -> Quantity] /\ shown \in [Lines -> Quantity]
    BY DEF OInv, TInv, Typed
  <1>1. \A c \in Checkouts : \A l \in InHand(c) : cart[l] = 0 /\ l \in added
    BY <1>0 DEF Hands
  <1>2. \A c \in Checkouts, l \in Lines :
          /\ ReadBy(c, l) => l \in added
          /\ Stands(<<c, l>>) => l \in added /\ (fault # "late" => cart[l] = 0)
    BY <1>0 DEF SaidInv, Orders, Stands, OnceInv
  <1>3. ASSUME NEW l \in Lines, NEW q \in Quantity, Lies(l, q),
               l \notin added \/ (cart[l] # 0 /\ \A c \in Checkouts : ~ReadBy(c, l)),
               overtaken \ {l} \subseteq overtaken'
        PROVE  Same(k) \/ Nobodys(k)
    <2>1. /\ cart'[l] = q /\ shown'[l] = q
          /\ k # l => cart'[k] = cart[k] /\ shown'[k] = shown[k]
      BY <1>0, <1>3 DEF Lies
    <2>2. CASE k = l
      BY <1>1, <1>2, <1>3, <2>1, <2>2 DEF Nobodys
    <2>3. CASE k # l
      BY <1>3, <2>1, <2>3 DEF Same
    <2> QED
      BY <2>2, <2>3
  <1>4. ASSUME NEW l \in Lines, NEW q \in Quantity, Lies(l, q), cart[l] # 0, Overtakes(l)
        PROVE  Same(k) \/ Nobodys(k)
    <2>1. CASE \E c \in Checkouts : ReadBy(c, l)
      <3>1. overtaken' = overtaken \cup {l} /\ k # l
        BY <1>4, <2>1 DEF Overtakes
      <3> QED
        BY <1>0, <1>4, <3>1 DEF Lies, Same
    <2>2. CASE \A c \in Checkouts : ~ReadBy(c, l)
      <3>1. overtaken' = overtaken \ {l}
        BY <1>4, <2>2 DEF Overtakes
      <3> QED
        BY <1>3, <1>4, <2>2, <3>1
    <2> QED
      BY <2>1, <2>2
  <1>5. ASSUME NEW gone \in SUBSET Lines, Gone(gone), overtaken' = overtaken \cup (gone \ InCart)
        PROVE  Same(k) \/ Nobodys(k)
    <2>1. /\ k \in gone => cart'[k] = 0 /\ shown'[k] = 0 /\ cart[k] # 0
          /\ k \notin gone => cart'[k] = cart[k] /\ shown'[k] = shown[k]
      BY <1>0, <1>5 DEF Gone, InCart
    <2>2. k \notin overtaken
      BY <1>5
    <2> QED
      BY <1>1, <1>2, <2>1, <2>2 DEF Same, Nobodys
  <1>6. CASE UNCHANGED <<cart, shown, overtaken>>
    BY <1>6 DEF Same
  <1>7. CASE \E l \in Lines \ added, q \in Quantity : Lies(l, q) /\ UNCHANGED overtaken
    BY <1>3, <1>7
  <1>8. \/ UNCHANGED <<cart, shown, added, overtaken>>
        \/ \E l \in Lines \ added, q \in Quantity : Lies(l, q) /\ UNCHANGED overtaken
        \/ \E l \in Lines, q \in Quantity : cart[l] # 0 /\ Lies(l, q) /\ Overtakes(l)
        \/ \E gone \in SUBSET Lines : Gone(gone) /\ overtaken' = overtaken \cup (gone \ InCart)
    BY <1>0, ShopperEffect, Zenon
  <1> QED
    BY <1>4, <1>5, <1>6, <1>7, <1>8

LEMMA ShopperSaid == ASSUME OInv, OnceInv, SaidInv, ShopperStep PROVE SaidInv'
  <1>0. TInv
    BY DEF OInv
  <1>1. UNCHANGED <<order, req, fault>>
    BY <1>0, ShopperEffect
  <1>2. \A c \in Checkouts : InHand(c)' = InHand(c) /\ \A l \in Lines : ReadBy(c, l)' <=> ReadBy(c, l)
    BY <1>1 DEF InHand, ReadBy
  <1>3. \A c \in Checkouts, l \in Lines : Stands(<<c, l>>)' <=> Stands(<<c, l>>)
    BY <1>1 DEF Stands
  <1>4. added \subseteq added'
    BY <1>0, ShopperEffect
  <1>5. ASSUME NEW l \in Lines \ overtaken' PROVE SaidOf(l)'
    <2>1. CASE Same(l)
      <3>1. SaidOf(l) /\ cart'[l] = cart[l] /\ shown'[l] = shown[l]
        BY <2>1 DEF Same, SaidInv
      <3> QED
        BY <1>1, <1>2, <1>3, <3>1 DEF SaidOf
    <2>2. CASE Nobodys(l)
      BY <1>1, <1>2, <1>3, <2>2 DEF Nobodys, SaidOf
    <2> QED
      BY <2>1, <2>2, ShopperChanges
  <1> QED
    BY <1>2, <1>4, <1>5 DEF SaidInv

LEMMA OrderSaid == ASSUME OInv, SaidInv, OrderStep PROVE SaidInv'
  <1>1. UNCHANGED <<cart, shown, overtaken, added, req, fault>>
    BY DEF OrderStep, Approve, Reject, PipelineFails, Retry, SetBudget, OrderChange, cartVars
  <1>2. \A l \in Lines, c \in Checkouts :
          /\ Stands(<<c, l>>)' <=> Stands(<<c, l>>)
          /\ order'[<<c, l>>].quantity = order[<<c, l>>].quantity
    BY OrderKept DEF OInv, Kept
  <1>3. \A c \in Checkouts : InHand(c)' = InHand(c) /\ \A l \in Lines : ReadBy(c, l)' <=> ReadBy(c, l)
    BY <1>1 DEF InHand, ReadBy
  <1> QED
    BY <1>1, <1>2, <1>3 DEF SaidInv, SaidOf

LEMMA CheckoutSaid ==
  ASSUME OInv, OnceInv, SaidInv, NEW c \in Checkouts,
         CheckoutStep(c) \/ Crash(c) \/ TailThrows(c)
  PROVE  SaidInv'
  <1>0. /\ TInv /\ Hands /\ req[c] \in RequestRecord /\ InHand(c) \subseteq Lines
        /\ cart \in [Lines -> Quantity] /\ shown \in [Lines -> Quantity]
        /\ UNCHANGED <<shown, overtaken, added>>
        /\ \A d \in Checkouts \ {c} : InHand(d)' = InHand(d) /\ req'[d] = req[d]
        /\ fault' # "late" => fault # "late"
    BY CheckoutFrame, HandEffect DEF OInv, TInv, Typed, InHand, RequestRecord
  <1>1. Claim(c) => /\ cart' = [l \in Lines |-> IF l \in Deleted(c) THEN 0 ELSE cart[l]]
                    /\ InHand(c)' = Deleted(c) /\ req'[c].owned = req[c].owned
                    /\ req'[c].pc \in {"next", "undo"}
    BY HandEffect
  <1>2. Undo(c) \/ Finish(c)
          => /\ cart' = [l \in Lines |-> IF l \in InHand(c) THEN req[c].owned[l] ELSE cart[l]]
             /\ InHand(c)' = {} /\ req'[c].pc = "done"
    BY HandEffect
  <1>3. Tail(c) => /\ UNCHANGED cart /\ req'[c].pc = "next"
                   /\ InHand(c)' \subseteq InHand(c) /\ req'[c].owned = req[c].owned
    BY HandEffect
  <1>4. ~(Claim(c) \/ Undo(c) \/ Finish(c) \/ Tail(c)) => Still(c)
    BY HandEffect
  <1>5. \A l \in Lines \ overtaken : cart'[l] # 0 => cart'[l] = shown'[l]
    <2>1. CASE Claim(c)
      BY <1>0, <1>1, <2>1 DEF SaidInv, SaidOf
    <2>2. CASE Undo(c) \/ Finish(c)
      BY <1>0, <1>2, <2>2 DEF SaidInv, SaidOf
    <2>3. CASE UNCHANGED cart
      BY <1>0, <2>3 DEF SaidInv, SaidOf
    <2> QED
      BY <1>3, <1>4, <2>1, <2>2, <2>3 DEF Still
  <1>6. ASSUME NEW d \in Checkouts, NEW l \in InHand(d)', l \notin overtaken
        PROVE  shown'[l] # 0 /\ req'[d].owned[l] = shown'[l]
    <2>0. l \in Lines => SaidOf(l)
      BY <1>6 DEF SaidInv
    <2>1. CASE d # c
      <3>1. l \in InHand(d) /\ req'[d] = req[d] /\ l \in Lines
        BY <1>0, <1>6, <2>1 DEF TInv, Typed, InHand, RequestRecord
      <3> QED
        BY <1>0, <2>0, <3>1 DEF SaidOf
    <2>2. CASE d = c /\ Claim(c)
      <3>1. l \in Lines /\ cart[l] # 0 /\ ReadBy(c, l)
        BY <1>1, <1>6, <2>2 DEF Deleted, Named, InCart, ReadBy, Claim
      <3>2. cart[l] = shown[l] /\ (shown[l] # 0 => req[c].owned[l] = shown[l])
        BY <2>0, <3>1 DEF SaidOf
      <3> QED
        BY <1>0, <1>1, <2>2, <3>1, <3>2
    <2>3. CASE d = c /\ (Undo(c) \/ Finish(c))
      BY <1>2, <1>6, <2>3
    <2>4. CASE d = c /\ Tail(c)
      BY <1>0, <1>3, <1>6, <2>4 DEF SaidInv, SaidOf
    <2>5. CASE d = c /\ Still(c)
      BY <1>0, <1>6, <2>5 DEF SaidInv, SaidOf, Still
    <2> QED
      BY <1>4, <2>1, <2>2, <2>3, <2>4, <2>5
  <1>7. ASSUME NEW d \in Checkouts, NEW l \in Lines, ReadBy(d, l)'
        PROVE  /\ l \in added'
               /\ l \notin overtaken /\ shown'[l] # 0 => req'[d].owned[l] = shown'[l]
    <2>1. CASE d # c
      <3>1. ReadBy(d, l) /\ req'[d] = req[d]
        BY <1>0, <1>7, <2>1 DEF ReadBy
      <3> QED
        BY <1>0, <3>1 DEF SaidInv, SaidOf
    <2>2. CASE d = c
      <3>1. CASE Read(c)
        <4>1. req'[c].owned[l] = cart[l] /\ cart[l] # 0
          BY <1>0, <1>7, <2>2, <3>1, ReadEffect DEF ReadBy, Ends
        <4> QED
          BY <1>0, <2>2, <4>1 DEF SaidInv, SaidOf, Hands
      <3>2. CASE Validate(c)
        <4>1. MovesTo(c, {"claim"}) /\ req[c].pc = "validate"
          BY <1>0, <1>7, <2>2, <3>2, Ended, Moves DEF Validate, Ends, ReadBy
        <4>2. ReadBy(c, l) /\ req'[c].owned = req[c].owned
          BY <1>7, <2>2, <4>1 DEF ReadBy, MovesTo
        <4> QED
          BY <1>0, <2>2, <4>2 DEF SaidInv, SaidOf
      <3>3. CASE ~Read(c) /\ ~Validate(c)
        <4>1. req'[c].pc \in {"validate", "claim"}
          BY <1>7, <2>2 DEF ReadBy
        <4>2. ~(Claim(c) \/ Undo(c) \/ Finish(c) \/ Tail(c) \/ Insert(c) \/ Build(c)
                \/ NothingStarted(c) \/ Crash(c))
          BY <1>1, <1>2, <1>3, <4>1, HandEffect DEF Placed
        <4>3. ~\E k \in Lines : Fails(c, k)
          BY <1>0, <4>1, FailsEffect DEF Failing
        <4>4. ~Lock(c) /\ req' # [req EXCEPT ![c].pc = "insert"]
          BY <1>0, <4>1, LockEffect, Moves DEF MovesTo
        <4>5. ~(Denied(c) \/ MarkFailed(c) \/ TailThrows(c) \/ Check(c))
          BY <1>0, <4>3, <4>4
             DEF Denied, MarkFailed, TailThrows, Check, Hands, Ordering, RequestRecord
        <4> QED
          BY <3>3, <4>2, <4>4, <4>5 DEF CheckoutStep
      <3> QED
        BY <3>1, <3>2, <3>3
    <2> QED
      BY <2>1, <2>2
  <1>8. ASSUME fault' # "late", NEW d \in Checkouts, NEW l \in Lines \ overtaken, Stands(<<d, l>>)'
        PROVE  order'[<<d, l>>].quantity = shown'[l]
    <2>1. CASE Insert(c) /\ d = c /\ l = req[c].cur
      <3>1. order'[<<c, l>>].quantity = req[c].owned[l]
        BY <2>1, PlacedStands
      <3>2. l \in InHand(c)
        BY <2>1, CheckoutFrame DEF InHand
      <3> QED
        BY <1>0, <2>1, <3>1, <3>2 DEF SaidInv, SaidOf
    <2>2. CASE Stands(<<d, l>>) /\ ~(Insert(c) /\ d = c /\ l = req[c].cur)
                 /\ ~(MarkFailed(c) /\ d = c /\ l = req[c].cur)
      <3>1. order'[<<d, l>>].quantity = order[<<d, l>>].quantity
        <4>1. CASE UNCHANGED order
          BY <4>1
        <4>2. CASE Insert(c) \/ MarkFailed(c)
          <5>1. PICK x \in Lines : x = req[c].cur
            BY <4>2, CheckoutFrame
          <5>2. <<d, l>> # <<c, x>>
            BY <2>2, <4>2, <5>1
          <5>3. order'[<<d, l>>] = order[<<d, l>>]
            BY <4>2, <5>1, <5>2, OtherOrders
          <5> QED
            BY <5>3
        <4>3. CASE Build(c)
          <5>1. Kept
            BY <4>3, CheckoutFrame, PlacedStands
          <5> QED
            BY <5>1 DEF Kept
        <4> QED
          BY <4>1, <4>2, <4>3, CheckoutFrame
      <3> QED
        BY <1>0, <1>8, <2>2, <3>1 DEF SaidInv, SaidOf
    <2> QED
      BY <1>8, <2>1, <2>2, NewlyStands
  <1>9. \A l \in Lines \ overtaken : SaidOf(l)'
    BY <1>0, <1>5, <1>6, <1>7, <1>8 DEF SaidOf
  <1> QED
    BY <1>0, <1>7, <1>9 DEF SaidInv

LEMMA NextSaid ==
  ASSUME OInv, OnceInv, SaidInv, [Next]_vars
  PROVE  SaidInv'
  <1>1. CASE UNCHANGED vars
    BY <1>1 DEF vars, cartVars, SaidInv, SaidOf, Stands, InHand, ReadBy
  <1>2. CASE Next
    BY <1>2, ShopperSaid, OrderSaid, CheckoutSaid DEF Next
  <1> QED
    BY <1>1, <1>2

(* What comes back into the cart and what is ordered is what the shopper   *)
(* asked for, whichever checkouts, failures and changes of the cart fall   *)
(* together.  The exceptions are the two checkoutCart leaves open, a line  *)
(* changed between its read and its claim and a line removed while it is   *)
(* out of the cart, and they last only until the line is changed again.    *)
THEOREM OrderedAsAsked == Spec => []AsTheShopperSaid
  <1>1. Init => OInv /\ OnceInv /\ SaidInv
    BY InitTInv, InitOrders, InitOnce, InitSaid DEF OInv
  <1>2. OInv /\ OnceInv /\ SaidInv /\ [Next]_vars => (OInv /\ OnceInv /\ SaidInv)'
    BY NextOInv, NextOnce, NextSaid
  <1>3. OInv /\ OnceInv /\ SaidInv => AsTheShopperSaid
    BY SaidIsEnough
  <1> QED
    BY <1>1, <1>2, <1>3, PTL DEF Spec

-----------------------------------------------------------------------------
(* The cart keeps its limit.                                               *)

(* The lines in the cart, and those that may come back into it.            *)
Weighed == InCart \cup ComingBack

BoundInv ==
  /\ Cardinality(Weighed) \leq MaxItems
  /\ \A a \in Adders : adder[a] = "insert" => owner = a /\ Cardinality(Weighed) < MaxItems

LEMMA Finite == IsFiniteSet(Weighed) /\ Cardinality(Weighed) \in Nat /\ Weighed \subseteq Lines
  <1>1. Weighed \subseteq Lines
    BY DEF Weighed, InCart, ComingBack
  <1>2. IsFiniteSet(Weighed)
    BY <1>1, CheckoutAssumption, FS_Subset
  <1> QED
    BY <1>1, <1>2, FS_CardinalityType

LEMMA BoundIsEnough == BoundInv => CartIsBounded
  <1> SUFFICES ASSUME BoundInv PROVE Cardinality(InCart) \leq MaxItems
    BY DEF CartIsBounded
  <1>1. InCart \in SUBSET Weighed
    BY DEF Weighed
  <1>2. IsFiniteSet(InCart) /\ Cardinality(InCart) \leq Cardinality(Weighed)
    BY <1>1, Finite, FS_Subset
  <1>3. Cardinality(InCart) \in Nat
    BY <1>2, FS_CardinalityType
  <1> QED
    BY <1>2, <1>3, Finite, CheckoutAssumption DEF BoundInv

LEMMA InitBound == Init => BoundInv
  <1> SUFFICES ASSUME Init PROVE BoundInv
    OBVIOUS
  <1>1. Weighed = InCart
    BY Records DEF Init, Weighed, ComingBack, InHand
  <1> QED
    BY <1>1 DEF Init, BoundInv

(* Steps that bring nothing new.                                           *)
LEMMA NotFuller ==
  ASSUME BoundInv, Weighed' \subseteq Weighed, UNCHANGED <<adder, owner>>
  PROVE  BoundInv'
  <1>1. IsFiniteSet(Weighed') /\ Cardinality(Weighed') \leq Cardinality(Weighed)
    BY Finite, FS_Subset
  <1>2. Cardinality(Weighed') \in Nat
    BY <1>1, FS_CardinalityType
  <1> QED
    BY <1>1, <1>2, Finite, CheckoutAssumption DEF BoundInv

LEMMA ShopperBound ==
  ASSUME OInv, BoundInv, ShopperStep, "refill" \notin Races
  PROVE  BoundInv'
  <1>0. TInv /\ cart \in [Lines -> Quantity] /\ adder \in [Adders -> {"idle", "insert", "done"}]
    BY DEF OInv, TInv, Typed
  <1>1. UNCHANGED req
    BY <1>0, ShopperEffect
  <1>2. ComingBack' = ComingBack
    BY <1>1 DEF ComingBack, InHand
  <1>3. ASSUME NEW a \in Adders, AddCount(a) PROVE BoundInv'
    <2>1. Weighed' = Weighed
      BY <1>2, <1>3 DEF AddCount, cartVars, Weighed, InCart
    <2>2. CASE Cardinality(InCart) \geq MaxItems
      BY <1>0, <1>3, <2>1, <2>2 DEF AddCount, BoundInv
    <2>3. CASE ~(Cardinality(InCart) \geq MaxItems)
      <3>1. Weighed = InCart
        BY <1>3 DEF AddCount, Weighed
      <3>2. Cardinality(Weighed) < MaxItems
        BY <2>3, <3>1, Finite, CheckoutAssumption
      <3>3. adder' = [adder EXCEPT ![a] = "insert"] /\ owner' = a /\ owner = Nobody
        BY <1>3, <2>3 DEF AddCount, RowIsFree
      <3>4. \A b \in Adders : adder[b] # "insert"
        BY <3>3, CheckoutAssumption DEF BoundInv
      <3> QED
        BY <1>0, <2>1, <3>2, <3>3, <3>4 DEF BoundInv
    <2> QED
      BY <2>2, <2>3
  <1>4. ASSUME NEW a \in Adders, AddInsert(a) PROVE BoundInv'
    <2>1. PICK l \in Lines, q \in Quantity : cart' = [cart EXCEPT ![l] = q]
      BY <1>4 DEF AddInsert
    <2>2. adder[a] = "insert" /\ adder' = [adder EXCEPT ![a] = "done"]
      BY <1>4 DEF AddInsert
    <2>3. Weighed' \subseteq Weighed \cup {l}
      BY <1>0, <1>2, <2>1 DEF Weighed, InCart
    <2>a. /\ IsFiniteSet(Weighed \cup {l})
          /\ Cardinality(Weighed \cup {l})
               = IF l \in Weighed THEN Cardinality(Weighed) ELSE Cardinality(Weighed) + 1
      BY Finite, FS_AddElement
    <2>4. IsFiniteSet(Weighed \cup {l})
          /\ Cardinality(Weighed \cup {l}) \leq Cardinality(Weighed) + 1
      BY <2>a, Finite
    <2>5. IsFiniteSet(Weighed') /\ Cardinality(Weighed') \leq Cardinality(Weighed \cup {l})
      BY <2>3, <2>4, FS_Subset
    <2>6. Cardinality(Weighed') \in Nat /\ Cardinality(Weighed \cup {l}) \in Nat
      BY <2>4, <2>5, FS_CardinalityType
    <2>7. Cardinality(Weighed) < MaxItems
      BY <2>2 DEF BoundInv
    <2>8. \A b \in Adders : adder'[b] # "insert"
      BY <1>0, <2>2 DEF BoundInv
    <2> QED
      BY <2>4, <2>5, <2>6, <2>7, <2>8, Finite, CheckoutAssumption DEF BoundInv
  <1>5. ASSUME NEW l \in Lines, Update(l) PROVE BoundInv'
    <2>1. UNCHANGED <<adder, owner>> /\ cart[l] # 0
          /\ \E q \in Quantity : cart' = [cart EXCEPT ![l] = q]
      BY <1>5 DEF Update
    <2>2. Weighed' \subseteq Weighed
      BY <1>0, <1>2, <2>1 DEF Weighed, InCart
    <2> QED
      BY <2>1, <2>2, NotFuller
  <1>6. ASSUME NEW gone, Remove(gone) PROVE BoundInv'
    <2>1. UNCHANGED <<adder, owner>>
          /\ cart' = [l \in Lines |-> IF l \in gone THEN 0 ELSE cart[l]]
      BY <1>6 DEF Remove
    <2>2. Weighed' \subseteq Weighed
      BY <1>0, <1>2, <2>1 DEF Weighed, InCart
    <2> QED
      BY <2>1, <2>2, NotFuller
  <1> QED
    BY <1>3, <1>4, <1>5, <1>6 DEF ShopperStep, RemoveOne, Clear

LEMMA CheckoutBound ==
  ASSUME OInv, BoundInv, NEW c \in Checkouts, CheckoutStep(c) \/ Crash(c) \/ TailThrows(c)
  PROVE  BoundInv'
  <1>0. /\ TInv /\ Hands /\ req[c] \in RequestRecord /\ cart \in [Lines -> Quantity]
        /\ UNCHANGED <<adder, owner>>
        /\ \A d \in Checkouts \ {c} : InHand(d)' = InHand(d) /\ req'[d] = req[d]
    BY CheckoutFrame, HandEffect DEF OInv, TInv, Typed
  <1>1. \A l \in ComingBack' : l \in ComingBack \/ l \in InHand(c)'
    BY <1>0 DEF ComingBack
  <1>2. CASE Claim(c)
    <2>1. /\ cart' = [l \in Lines |-> IF l \in Deleted(c) THEN 0 ELSE cart[l]]
          /\ InHand(c)' = Deleted(c)
      BY <1>2, HandEffect
    <2>2. Deleted(c) \subseteq InCart
      BY DEF Deleted
    <2>3. Weighed' \subseteq Weighed
      BY <1>1, <2>1, <2>2 DEF Weighed, InCart
    <2> QED
      BY <1>0, <2>3, NotFuller
  <1>3. CASE Undo(c) \/ Finish(c)
    <2>1. /\ cart' = [l \in Lines |-> IF l \in InHand(c) THEN req[c].owned[l] ELSE cart[l]]
          /\ InHand(c)' = {} /\ req[c].pc \in {"undo", "next"}
      BY <1>3, HandEffect
    <2>2. \A l \in Lines : l \in InHand(c) => l \in ComingBack
      BY <2>1 DEF ComingBack
    <2>3. Weighed' \subseteq Weighed
      BY <1>1, <2>1, <2>2 DEF Weighed, InCart
    <2> QED
      BY <1>0, <2>3, NotFuller
  <1>4. CASE UNCHANGED cart /\ InHand(c)' \subseteq InHand(c) /\ req[c].pc # "dead"
    <2>1. \A l \in Lines : l \in InHand(c)' => l \in ComingBack
      BY <1>4 DEF ComingBack
    <2>2. Weighed' \subseteq Weighed
      BY <1>1, <1>4, <2>1 DEF Weighed, InCart, ComingBack
    <2> QED
      BY <1>0, <2>2, NotFuller
  <1>5. req[c].pc # "dead"
    BY DEF CheckoutStep, Crash, TailThrows, Read, Validate, Claim, Undo, Finish, Denied, Lock,
       Check, Insert, Build, NothingStarted, MarkFailed, Tail
  <1>6. Tail(c) \/ Still(c) => UNCHANGED cart /\ InHand(c)' \subseteq InHand(c)
    BY HandEffect DEF Still
  <1> QED
    BY <1>2, <1>3, <1>4, <1>5, <1>6, HandEffect

LEMMA NextBound ==
  ASSUME OInv, BoundInv, [Next]_vars, "refill" \notin Races
  PROVE  BoundInv'
  <1>1. CASE UNCHANGED vars \/ OrderStep
    <2>1. UNCHANGED <<cart, req, adder, owner>>
      BY <1>1 DEF OrderStep, Approve, Reject, PipelineFails, Retry, SetBudget, OrderChange,
         vars, cartVars
    <2>2. InCart' = InCart /\ ComingBack' = ComingBack
      BY <2>1 DEF InCart, ComingBack, InHand
    <2>3. Weighed' \subseteq Weighed
      BY <2>2 DEF Weighed
    <2> QED
      BY <2>1, <2>3, NotFuller
  <1> QED
    BY <1>1, ShopperBound, CheckoutBound DEF Next

(* No two requests fill the cart beyond its limit, as long as nothing is   *)
(* added while a checkout may still put lines back: addToCart's lock on    *)
(* the user row.                                                           *)
THEOREM CartKeepsItsLimit ==
  ASSUME "refill" \notin Races
  PROVE  Spec => []CartIsBounded
  <1>1. Init => OInv /\ BoundInv
    BY InitTInv, InitOrders, InitBound DEF OInv
  <1>2. OInv /\ BoundInv /\ [Next]_vars => (OInv /\ BoundInv)'
    BY NextOInv, NextBound
  <1>3. OInv /\ BoundInv => CartIsBounded
    BY BoundIsEnough
  <1> QED
    BY <1>1, <1>2, <1>3, PTL DEF Spec

-----------------------------------------------------------------------------
(* The rest of the types, and the sum over the lines of a checkout.        *)

Rest ==
  /\ price \in Prices
  /\ overtaken \subseteq Lines
  /\ lock \in Checkouts \cup {Nobody}
  /\ budget \in Budgets
  /\ changes \in 0..MaxChanges

Small == \A c \in Checkouts : SumFunctionOnSet(req[c].owned, Lines) \leq MaxElements

LEMMA TypesAreEnough == TInv /\ Rest /\ Small => TypeOK
  <1> SUFFICES ASSUME TInv, Rest, Small PROVE TypeOK
    OBVIOUS
  <1>1. \A c \in Checkouts :
          req[c].pc \in {"check", "insert", "build", "void", "tail"} => req[c].cur \in Lines
    BY DEF TInv, Typed, Hands, RequestRecord, Ordering
  <1> QED
    BY <1>1 DEF TInv, Typed, Rest, Small, TypeOK

LEMMA InitRest == Init => Rest
  BY CheckoutAssumption DEF Init, Rest

LEMMA NextRest == ASSUME TInv, Rest, [Next]_vars PROVE Rest'
  <1> USE CheckoutAssumption DEF Rest
  <1>1. CASE UNCHANGED vars
    BY <1>1 DEF vars, cartVars
  <1>2. CASE ShopperStep
    <2>1. UNCHANGED <<price, lock, budget>> /\ changes' \in 0..MaxChanges
      BY <1>2 DEF ShopperStep, AddCount, AddInsert, Update, RemoveOne, Clear, Remove, Change
    <2>2. overtaken' \subseteq Lines
      BY <1>2, ShopperEffect DEF Overtakes
    <2> QED
      BY <2>1, <2>2
  <1>3. CASE OrderStep
    <2>1. OrderChange /\ (UNCHANGED budget \/ budget' \in Budgets)
      BY <1>3 DEF OrderStep, Approve, Reject, PipelineFails, Retry, SetBudget
    <2> QED
      BY <2>1 DEF OrderChange, Change, cartVars
  <1>4. ASSUME NEW c \in Checkouts, CheckoutStep(c) \/ Crash(c) \/ TailThrows(c)
        PROVE  Rest'
    BY <1>4 DEF CheckoutStep, Read, Validate, Claim, Undo, Finish, Denied, Lock, Check, Insert,
       Build, NothingStarted, MarkFailed, Tail, Crash, TailThrows, cartVars
  <1> QED
    BY <1>1, <1>2, <1>3, <1>4 DEF Next

Nothing == [l \in Lines |-> 0]

(* What a checkout says it owns it has read, within the limit.             *)
LEMMA OwnedEffect ==
  ASSUME OInv, NEW c \in Checkouts, CheckoutStep(c) \/ Crash(c) \/ TailThrows(c)
  PROVE  \/ req'[c].owned = req[c].owned
         \/ req'[c].owned = Nothing
         \/ \E ids \in SUBSET Lines :
              /\ Elements(ids) \leq MaxElements
              /\ req'[c].owned = [l \in Lines |-> IF l \in ids THEN cart[l] ELSE 0]
  <1>0. /\ TInv /\ Hands /\ req \in [Checkouts -> RequestRecord] /\ req[c] \in RequestRecord
        /\ req[c].held \subseteq Lines
    BY DEF OInv, TInv, Typed, RequestRecord
  <1>1. Over.owned = Nothing
    BY DEF Over, Idle, Nothing
  <1>2. CASE req' = [req EXCEPT ![c] = Over]
    BY <1>0, <1>1, <1>2
  <1>3. CASE Read(c)
    <2>1. CASE \E ids \in SUBSET Lines \ {{}} :
                 /\ Elements(ids) \leq MaxElements
                 /\ req' = [req EXCEPT ![c].pc = "validate",
                              ![c].owned = [l \in Lines |-> IF l \in ids THEN cart[l] ELSE 0]]
      <3>1. PICK ids \in SUBSET Lines :
                 /\ Elements(ids) \leq MaxElements
                 /\ req' = [req EXCEPT ![c].pc = "validate",
                              ![c].owned = [l \in Lines |-> IF l \in ids THEN cart[l] ELSE 0]]
        BY <2>1
      <3> DEFINE f == [l \in Lines |-> IF l \in ids THEN cart[l] ELSE 0]
      <3> HIDE DEF f
      <3>2. req' = [req EXCEPT ![c].pc = "validate", ![c].owned = f]
        BY <3>1 DEF f
      <3>3. req'[c].owned = f
        BY <1>0, <3>2 DEF RequestRecord
      <3> QED
        BY <3>1, <3>3 DEF f
    <2> QED
      BY <1>2, <1>3, <2>1 DEF Read
  <1>4. CASE Claim(c)
    BY <1>0, <1>4, ClaimEffect
  <1>5. CASE Lock(c) \/ Tail(c)
    BY <1>0, <1>5, LockEffect, TailEffect
  <1>6. CASE \E l \in Lines : Fails(c, l)
    BY <1>0, <1>6, FailsEffect DEF Failing
  <1>7. CASE \E p \in {"claim", "insert", "build", "void", "tail", "dead"} :
               req' = [req EXCEPT ![c].pc = p]
    BY <1>0, <1>7, Moves DEF MovesTo
  <1>8. Denied(c) \/ Check(c) \/ MarkFailed(c) \/ TailThrows(c)
          => (\E l \in Lines : Fails(c, l)) \/ req' = [req EXCEPT ![c].pc = "insert"]
    BY <1>0 DEF Denied, Check, MarkFailed, TailThrows, Hands, Ordering
  <1>9. Insert(c) => \E p \in {"build", "tail"} : req' = [req EXCEPT ![c].pc = p]
    BY DEF Insert
  <1> QED
    BY <1>2, <1>3, <1>4, <1>5, <1>6, <1>7, <1>8, <1>9
    DEF CheckoutStep, Validate, Undo, Finish, Build, NothingStarted, Crash

LEMMA NothingIsSmall == SumFunctionOnSet(Nothing, Lines) \leq MaxElements
  <1>1. SumFunctionOnSet(Nothing, Lines) \leq SumFunctionOnSet(Nothing, {})
    BY SumAtMost, CheckoutAssumption, FS_EmptySet DEF Nothing
  <1>2. SumFunctionOnSet(Nothing, {}) = 0
    BY SumStep, FS_EmptySet
  <1>3. SumFunctionOnSet(Nothing, Lines) \in Nat
    BY SumIsNat, CheckoutAssumption DEF Nothing
  <1> QED
    BY <1>1, <1>2, <1>3, CheckoutAssumption

LEMMA InitSmall == Init => Small
  BY NothingIsSmall DEF Init, Small, Idle, Nothing

LEMMA NextSmall == ASSUME OInv, Small, [Next]_vars PROVE Small'
  <1>0. cart \in [Lines -> Quantity] /\ Quantity \subseteq Nat
    BY DEF OInv, TInv, Typed, Quantity
  <1>1. CASE UNCHANGED req
    BY <1>1 DEF Small
  <1>2. ASSUME NEW c \in Checkouts, CheckoutStep(c) \/ Crash(c) \/ TailThrows(c)
        PROVE  Small'
    <2>1. \A d \in Checkouts \ {c} : req'[d] = req[d]
      BY <1>2, CheckoutFrame DEF Others
    <2>2. SumFunctionOnSet(req'[c].owned, Lines) \leq MaxElements
      <3>1. CASE req'[c].owned = req[c].owned
        BY <3>1 DEF Small
      <3>2. CASE req'[c].owned = Nothing
        BY <3>2, NothingIsSmall
      <3>3. ASSUME NEW ids \in SUBSET Lines, Elements(ids) \leq MaxElements,
                   req'[c].owned = [l \in Lines |-> IF l \in ids THEN cart[l] ELSE 0]
            PROVE  SumFunctionOnSet(req'[c].owned, Lines) \leq MaxElements
        <4> DEFINE f == req'[c].owned
        <4>1. IsFiniteSet(ids) /\ IsFiniteSet(Lines)
          BY CheckoutAssumption, FS_Subset
        <4>a. \A l \in Lines : f[l] = IF l \in ids THEN cart[l] ELSE 0
          BY <3>3
        <4>b. \A l \in Lines : cart[l] \in Nat
          BY <1>0
        <4> HIDE DEF f
        <4>2. /\ \A l \in Lines : f[l] \in Nat
              /\ \A l \in ids : cart[l] \in Nat
              /\ \A l \in Lines : f[l] = 0 \/ (l \in ids /\ f[l] \leq cart[l])
          BY <4>a, <4>b
        <4>3. SumFunctionOnSet(f, Lines) \leq Elements(ids)
          BY <4>1, <4>2, SumAtMost DEF Elements
        <4>4. SumFunctionOnSet(f, Lines) \in Nat /\ Elements(ids) \in Nat
          BY <4>1, <4>2, SumIsNat DEF Elements
        <4> QED
          BY <3>3, <4>3, <4>4, CheckoutAssumption DEF f
      <3> QED
        BY <1>2, <3>1, <3>2, <3>3, OwnedEffect
    <2> QED
      BY <2>1, <2>2 DEF Small
  <1>3. ShopperStep \/ OrderStep \/ UNCHANGED vars => UNCHANGED req
    BY ShopperEffect DEF OInv, OrderStep, Approve, Reject, PipelineFails, Retry, SetBudget, OrderChange, vars
  <1> QED
    BY <1>1, <1>2, <1>3 DEF Next

(* A checkout's record keeps its types and never holds more elements than  *)
(* MAX_CHECKOUT_ELEMENTS: checkoutCart.                                    *)
THEOREM TypeCorrect == Spec => []TypeOK
  <1>1. Init => OInv /\ Rest /\ Small
    BY InitTInv, InitOrders, InitRest, InitSmall DEF OInv
  <1>2. OInv /\ Rest /\ Small /\ [Next]_vars => (OInv /\ Rest /\ Small)'
    BY NextOInv, NextRest, NextSmall DEF OInv
  <1>3. OInv /\ Rest /\ Small => TypeOK
    BY TypesAreEnough DEF OInv
  <1> QED
    BY <1>1, <1>2, <1>3, PTL DEF Spec

-----------------------------------------------------------------------------
(* What the budget has given away.                                         *)

Asking == {"check", "insert"}

(* The lock is the asking checkout's, and what it was told is still so     *)
(* when it places its order.                                               *)
Room ==
  /\ IsFiniteSet(Counted)
  /\ \A c \in Checkouts : req[c].pc \in Asking => lock = c
  /\ \A c \in Checkouts :
       req[c].pc = "insert" /\ budget.blocks
         => Committed < budget.amount /\ Committed + Cost(c) \leq budget.amount

(* Numbers are naturals.                                                   *)
Counts ==
  /\ \A o \in OrderIds : Worth[o] = price * order[o].quantity /\ Worth[o] \in Nat
  /\ Counted \subseteq OrderIds /\ price \in Nat /\ budget.amount \in Nat
  /\ IsFiniteSet(Counted) => Committed \in Nat

LEMMA Worths == OInv /\ Rest => Counts
  <1> SUFFICES ASSUME OInv, Rest PROVE Counts
    OBVIOUS
  <1>1. price \in Nat /\ \A o \in OrderIds : order[o].quantity \in Nat
    BY CheckoutAssumption DEF OInv, TInv, Typed, Rest, OrderRecord, Quantity
  <1>2. \A p, q \in Nat : p * q \in Nat
    OBVIOUS
  <1>3. \A o \in OrderIds : Worth[o] = price * order[o].quantity /\ Worth[o] \in Nat
    BY <1>1, <1>2 DEF Worth
  <1>4. Counted \subseteq OrderIds
    BY DEF Counted
  <1>5. budget.amount \in Nat
    <2>1. Amounts \subseteq Nat /\ budget \in Budgets
      BY CheckoutAssumption DEF Rest
    <2>2. CASE budget = NoLimit
      BY <2>2 DEF NoLimit
    <2>3. CASE budget \in [amount : Amounts, blocks : {TRUE}]
      <3>1. budget.amount \in Amounts
        BY <2>3
      <3> QED
        BY <2>1, <3>1
    <2> QED
      BY <2>1, <2>2, <2>3 DEF Budgets
  <1> QED
    BY <1>1, <1>3, <1>4, <1>5, SumIsNat DEF Counts, Committed

LEMMA WorthsAfter == (OInv /\ Rest)' => Counts'
  BY Worths, PTL

(* Steps after which no order counts that did not count before.            *)
LEMMA LessCommitted ==
  ASSUME OInv, Rest, OInv', Rest', IsFiniteSet(Counted), UNCHANGED price,
         \A o \in OrderIds : order'[o].quantity = order[o].quantity,
         Counted' \subseteq Counted
  PROVE  IsFiniteSet(Counted') /\ Committed' \in Nat /\ Committed' \leq Committed
  <1>1. IsFiniteSet(Counted')
    BY FS_Subset
  <1>2. /\ \A o \in OrderIds : Worth[o] = price * order[o].quantity /\ Worth[o] \in Nat
        /\ Counted \subseteq OrderIds
    BY Worths DEF Counts
  <1>3. /\ \A o \in OrderIds : Worth'[o] = price' * order'[o].quantity /\ Worth'[o] \in Nat
        /\ Committed' \in Nat
    BY <1>1, WorthsAfter DEF Counts
  <1>4. \A o \in OrderIds : Worth'[o] = Worth[o]
    BY <1>2, <1>3
  <1>5. \A o \in Counted' : Worth'[o] \in Nat /\ (Worth'[o] = 0 \/ (o \in Counted /\ Worth'[o] \leq Worth[o]))
    BY <1>2, <1>3, <1>4
  <1>6. SumFunctionOnSet(Worth', Counted') \leq SumFunctionOnSet(Worth, Counted)
    BY <1>1, <1>2, <1>5, SumAtMost
  <1> QED
    BY <1>1, <1>3, <1>6 DEF Committed

(* A new order commits its own cost and no more.                           *)
LEMMA InsertCommits ==
  ASSUME OInv, Rest, OInv', Rest', IsFiniteSet(Counted), NEW c \in Checkouts, Insert(c)
  PROVE  /\ IsFiniteSet(Counted') /\ Committed' \in Nat /\ Cost(c) \in Nat
         /\ Committed' \leq Committed + Cost(c)
  <1> DEFINE o == <<c, req[c].cur>>
  <1>1. /\ req[c].cur \in Lines /\ o \in OrderIds
        /\ \E s \in {"pending", "provisioning"} : Becomes(o, s, FALSE, req[c].owned[req[c].cur])
    BY InsertEffect DEF OInv, OrderIds
  <1>2. /\ \A p \in OrderIds \ {o} : order'[p] = order[p]
        /\ order'[o].status \in {"pending", "provisioning"}
        /\ order'[o].quantity = req[c].owned[req[c].cur]
    BY <1>1 DEF Becomes
  <1>3. UNCHANGED price
    BY DEF Insert
  <1> HIDE DEF o
  <1>4. o \in Counted' /\ Counted' \subseteq Counted \cup {o}
    BY <1>1, <1>2 DEF Counted
  <1>5. IsFiniteSet(Counted \cup {o})
    BY FS_AddElement
  <1>6. IsFiniteSet(Counted') /\ IsFiniteSet(Counted' \ {o})
    BY <1>4, <1>5, FS_Subset
  <1>7. /\ \A p \in OrderIds : Worth[p] = price * order[p].quantity /\ Worth[p] \in Nat
        /\ Counted \subseteq OrderIds /\ Committed \in Nat
    BY Worths DEF Counts
  <1>8. /\ \A p \in OrderIds : Worth'[p] = price' * order'[p].quantity /\ Worth'[p] \in Nat
        /\ Counted' \subseteq OrderIds /\ Committed' \in Nat
    BY <1>6, WorthsAfter DEF Counts
  <1>9. Worth'[o] = Cost(c) /\ Cost(c) \in Nat
    BY <1>1, <1>2, <1>3, <1>8 DEF Cost
  <1>10. Committed' = Worth'[o] + SumFunctionOnSet(Worth', Counted' \ {o})
    <2>1. \A p \in Counted' : Worth'[p] \in Nat
      BY <1>8
    <2> QED
      BY <1>4, <1>6, <2>1, SumWithout DEF Committed
  <1>11. SumFunctionOnSet(Worth', Counted' \ {o}) \leq Committed
    <2>1. \A p \in Counted' \ {o} : p \in Counted /\ Worth'[p] = Worth[p] /\ Worth'[p] \in Nat
      BY <1>2, <1>3, <1>4, <1>7, <1>8
    <2>2. \A p \in Counted' \ {o} :
            Worth'[p] \in Nat /\ (Worth'[p] = 0 \/ (p \in Counted /\ Worth'[p] \leq Worth[p]))
      BY <2>1
    <2>3. \A p \in Counted : Worth[p] \in Nat
      BY <1>7
    <2> QED
      BY <1>6, <2>2, <2>3, SumAtMost DEF Committed
  <1>12. SumFunctionOnSet(Worth', Counted' \ {o}) \in Nat
    BY <1>6, <1>8, SumIsNat
  <1> QED
    BY <1>6, <1>7, <1>8, <1>9, <1>10, <1>11, <1>12

(* Of the steps of placed orders only a retry makes one count again.       *)
LEMMA OrderCounts ==
  ASSUME OInv, OrderStep
  PROVE  /\ UNCHANGED <<price, req, lock>>
         /\ \A o \in OrderIds : order'[o].quantity = order[o].quantity
         /\ \E o : Counted' \subseteq Counted \cup {o}
         /\ Unguarded \/ (Counted' \subseteq Counted /\ UNCHANGED budget)
  <1>0. order \in [OrderIds -> OrderRecord] /\ TInv
    BY DEF OInv, TInv, Typed
  <1>1. UNCHANGED <<price, req, lock>>
    BY DEF OrderStep, Approve, Reject, PipelineFails, Retry, SetBudget, OrderChange
  <1>2. CASE SetBudget
    BY <1>1, <1>2 DEF SetBudget, Counted
  <1>3. ASSUME NEW o \in OrderIds, NEW s \in {"pending", "provisioning", "failed", "rejected"},
               NEW e, Becomes(o, s, e, order[o].quantity)
        PROVE  /\ \A p \in OrderIds : order'[p].quantity = order[p].quantity
               /\ Counted' \subseteq Counted \cup {o}
               /\ o \in Counted => Counted' \subseteq Counted
               /\ s \notin {"pending", "provisioning"} => Counted' \subseteq Counted
    BY <1>3 DEF Becomes, Counted
  <1>4. ASSUME NEW o \in OrderIds, Approve(o) \/ Reject(o) \/ PipelineFails(o) \/ Retry(o)
        PROVE  /\ \A p \in OrderIds : order'[p].quantity = order[p].quantity
               /\ Counted' \subseteq Counted \cup {o}
               /\ Unguarded \/ (Counted' \subseteq Counted /\ UNCHANGED budget)
    <2>1. CASE Approve(o)
      <3>1. \E s \in {"pending", "provisioning"} : Becomes(o, s, TRUE, order[o].quantity)
        BY <1>0, <2>1, ElementsSet DEF Approve
      <3>2. o \in Counted /\ UNCHANGED budget
        BY <2>1 DEF Approve, Counted
      <3> QED
        BY <1>3, <3>1, <3>2
    <2>2. CASE Reject(o)
      <3>1. Becomes(o, "rejected", order[o].elements, order[o].quantity) /\ UNCHANGED budget
        BY <1>0, <2>2, StatusSet DEF Reject
      <3> QED
        BY <1>3, <3>1
    <2>3. CASE PipelineFails(o)
      <3>1. Becomes(o, "failed", order[o].elements, order[o].quantity) /\ UNCHANGED budget
        BY <1>0, <2>3, StatusSet DEF PipelineFails
      <3> QED
        BY <1>3, <3>1
    <2>4. CASE Retry(o)
      <3>1. Becomes(o, "provisioning", order[o].elements, order[o].quantity) /\ Unguarded
        BY <1>0, <2>4, StatusSet DEF Retry
      <3> QED
        BY <1>3, <3>1
    <2> QED
      BY <1>4, <2>1, <2>2, <2>3, <2>4
  <1> QED
    BY <1>1, <1>2, <1>4 DEF OrderStep

(* A checkout asks under the lock, and goes on only if it was let through. *)
LEMMA AskingEffect ==
  ASSUME OInv, NEW c \in Checkouts, CheckoutStep(c) \/ Crash(c) \/ TailThrows(c)
  PROVE  /\ UNCHANGED <<price, budget>>
         /\ req'[c].pc \in Asking =>
              \/ req'[c].pc = "check" /\ lock' = c
              \/ Check(c) /\ ~Blocked(c) /\ MovesTo(c, {"insert"}) /\ UNCHANGED <<lock, order>>
         /\ lock' # lock => lock \in {Nobody, c} \/ req[c].pc \in Asking
         /\ Insert(c) => req[c].pc = "insert"
         /\ ~Insert(c) => \A o \in OrderIds : order'[o].quantity = order[o].quantity
         /\ ~Insert(c) => Counted' \subseteq Counted
         /\ ~Insert(c) => \A o \in OrderIds : order[o].status = "none" => order'[o].status = "none"
  <1>0. /\ TInv /\ Hands /\ Orders /\ req[c] \in RequestRecord /\ req \in [Checkouts -> RequestRecord]
        /\ order \in [OrderIds -> OrderRecord]
    BY DEF OInv, TInv, Typed
  <1>1. UNCHANGED <<price, budget>> /\ (Insert(c) => req[c].pc = "insert")
    BY DEF CheckoutStep, Read, Validate, Claim, Undo, Finish, Denied, Lock, Check, Insert,
       Build, NothingStarted, MarkFailed, Tail, Crash, TailThrows
  <1>2. lock' # lock => lock \in {Nobody, c} \/ req[c].pc \in Asking
    BY DEF CheckoutStep, Read, Validate, Claim, Undo, Finish, Denied, Lock, BudgetIsFree, Check,
       Insert, Build, NothingStarted, MarkFailed, Tail, Crash, TailThrows, Asking
  <1>3. ~Insert(c) =>
          /\ \A o \in OrderIds : order'[o].quantity = order[o].quantity
          /\ Counted' \subseteq Counted
          /\ \A o \in OrderIds : order[o].status = "none" => order'[o].status = "none"
    <2>1. CASE Build(c)
      <3>1. req[c].cur \in Lines /\ <<c, req[c].cur>> \in OrderIds
            /\ order[<<c, req[c].cur>>].status = "provisioning"
        BY <1>0, <2>1, CheckoutFrame DEF OrderIds, Orders, Build
      <3>2. Becomes(<<c, req[c].cur>>, "provisioning", TRUE, order[<<c, req[c].cur>>].quantity)
        BY <1>0, <2>1, <3>1, ElementsSet DEF Build
      <3> QED
        BY <3>1, <3>2 DEF Becomes, Counted
    <2>2. CASE MarkFailed(c)
      <3>1. req[c].cur \in Lines /\ <<c, req[c].cur>> \in OrderIds
            /\ order[<<c, req[c].cur>>].status = "provisioning"
        BY <1>0, <2>2, CheckoutFrame DEF OrderIds, Orders, MarkFailed
      <3>2. \E e : Becomes(<<c, req[c].cur>>, "failed", e, order[<<c, req[c].cur>>].quantity)
        BY <1>0, <2>2, <3>1, StatusSet DEF MarkFailed
      <3> QED
        BY <3>1, <3>2 DEF Becomes, Counted
    <2>3. CASE ~(Insert(c) \/ Build(c) \/ MarkFailed(c))
      <3>1. UNCHANGED order
        BY <2>3, CheckoutFrame
      <3> QED
        BY <3>1 DEF Counted
    <2> QED
      BY <2>1, <2>2, <2>3
  <1>4. req'[c].pc \in Asking =>
              \/ req'[c].pc = "check" /\ lock' = c
              \/ Check(c) /\ ~Blocked(c) /\ MovesTo(c, {"insert"}) /\ UNCHANGED <<lock, order>>
    <2>1. CASE Read(c)
      BY <1>0, <2>1, ReadEffect DEF Ends, Asking
    <2>2. CASE Validate(c)
      BY <1>0, <2>2, Ended, Moves DEF Validate, Ends, MovesTo, Asking
    <2>3. CASE Claim(c)
      BY <1>0, <2>3, ClaimEffect DEF Asking
    <2>4. CASE Undo(c) \/ Finish(c)
      BY <1>0, <2>4, Ended DEF Undo, Finish, Ends, Asking
    <2>5. CASE Denied(c) \/ MarkFailed(c) \/ TailThrows(c)
      <3>1. \E l \in Lines : Fails(c, l)
        BY <1>0, <2>5 DEF Denied, MarkFailed, TailThrows, Hands, Ordering, RequestRecord
      <3> QED
        BY <1>0, <3>1, FailsEffect DEF Failing, Asking
    <2>6. CASE Lock(c)
      BY <1>0, <2>6, LockEffect DEF Lock
    <2>7. CASE Tail(c)
      BY <1>0, <2>7, TailEffect DEF Asking
    <2>8. CASE Check(c)
      <3>1. req[c].cur \in Lines
        BY <1>0, <2>8 DEF Check, Hands, Ordering, RequestRecord
      <3>2. CASE Blocked(c)
        BY <1>0, <2>8, <3>1, <3>2, FailsEffect DEF Check, Failing, Asking
      <3>3. CASE ~Blocked(c)
        BY <1>0, <2>8, <3>3, Moves DEF Check
      <3> QED
        BY <3>2, <3>3
    <2>9. CASE Insert(c)
      BY <1>0, <2>9, InsertEffect DEF MovesTo, Asking
    <2>10. CASE Build(c) \/ NothingStarted(c) \/ Crash(c)
      BY <1>0, <2>10, Moves DEF Build, NothingStarted, Crash, MovesTo, Asking
    <2> QED
      BY <2>1, <2>2, <2>3, <2>4, <2>5, <2>6, <2>7, <2>8, <2>9, <2>10 DEF CheckoutStep
  <1> QED
    BY <1>1, <1>2, <1>3, <1>4

LEMMA InitRoom == Init => Room
  <1> SUFFICES ASSUME Init PROVE Room
    OBVIOUS
  <1>1. Counted = {} /\ \A c \in Checkouts : req[c].pc = "idle"
    BY Records DEF Init, Counted
  <1> QED
    BY <1>1, FS_EmptySet DEF Room, Asking

LEMMA CheckoutRoom ==
  ASSUME OInv, Rest, OInv', Rest', Room, NEW c \in Checkouts,
         CheckoutStep(c) \/ Crash(c) \/ TailThrows(c)
  PROVE  Room'
  <1>0. /\ IsFiniteSet(Counted) /\ Committed \in Nat /\ budget.amount \in Nat
        /\ \A d \in Checkouts \ {c} : req'[d] = req[d] /\ Cost(d)' = Cost(d)
        /\ UNCHANGED <<price, budget>>
    BY CheckoutFrame, AskingEffect, Worths DEF Counts, Room, Others, Cost
  <1>1. IsFiniteSet(Counted') /\ Committed' \in Nat
    BY <1>0, InsertCommits, LessCommitted, AskingEffect
  <1>2. ASSUME NEW d \in Checkouts, req'[d].pc \in Asking
        PROVE  lock' = d
    <2>1. CASE d = c
      BY <1>2, <2>1, AskingEffect DEF Room, Asking, Check
    <2>2. CASE d # c
      BY <1>0, <1>2, <2>2, AskingEffect, CheckoutAssumption DEF Room
    <2> QED
      BY <2>1, <2>2
  <1>3. ASSUME NEW d \in Checkouts, req'[d].pc = "insert", budget'.blocks
        PROVE  Committed' < budget'.amount /\ Committed' + Cost(d)' \leq budget'.amount
    <2>1. CASE d = c
      <3>1. Check(c) /\ ~Blocked(c) /\ MovesTo(c, {"insert"}) /\ UNCHANGED <<lock, order>>
        BY <1>3, <2>1, AskingEffect DEF Asking
      <3>2. Committed' = Committed /\ Cost(c)' = Cost(c)
        BY <1>0, <3>1 DEF Committed, Counted, Worth, Cost, MovesTo
      <3>3. Cost(c) \in Nat
        <4>1. price \in Nat /\ req[c].cur \in Lines /\ req[c].owned \in [Lines -> Quantity]
          BY <3>1, Worths DEF Counts, OInv, TInv, Typed, Hands, RequestRecord, Ordering, Check
        <4>2. req[c].owned[req[c].cur] \in Nat
          BY <4>1 DEF Quantity
        <4>3. \A p, q \in Nat : p * q \in Nat
          OBVIOUS
        <4> QED
          BY <4>1, <4>2, <4>3 DEF Cost
      <3> QED
        BY <1>0, <1>3, <2>1, <3>1, <3>2, <3>3 DEF Blocked
    <2>2. CASE d # c
      <3>1. req[d].pc = "insert" /\ lock = d
        BY <1>0, <1>3, <2>2 DEF Room, Asking
      <3>2. ~Insert(c)
        BY <2>2, <3>1, AskingEffect DEF Room, Asking
      <3>3. Committed' \leq Committed /\ Cost(d)' = Cost(d)
        BY <1>0, <2>2, <3>2, AskingEffect, LessCommitted
      <3>4. Committed < budget.amount /\ Committed + Cost(d) \leq budget.amount
        BY <1>0, <1>3, <3>1 DEF Room
      <3>5. Cost(d) \in Nat
        <4>1. price \in Nat /\ req[d].cur \in Lines /\ req[d].owned \in [Lines -> Quantity]
          BY <3>1, Worths DEF Counts, OInv, TInv, Typed, Hands, RequestRecord, Ordering
        <4>2. req[d].owned[req[d].cur] \in Nat
          BY <4>1 DEF Quantity
        <4>3. \A p, q \in Nat : p * q \in Nat
          OBVIOUS
        <4> QED
          BY <4>1, <4>2, <4>3 DEF Cost
      <3> QED
        BY <1>0, <1>1, <3>3, <3>4, <3>5
    <2> QED
      BY <2>1, <2>2
  <1> QED
    BY <1>1, <1>2, <1>3 DEF Room

LEMMA NextRoom ==
  ASSUME OInv, Rest, Room, [Next]_vars, "budget" \notin Races
  PROVE  Room'
  <1>0. OInv' /\ Rest'
    BY NextOInv, NextRest DEF OInv
  <1>1. CASE UNCHANGED <<price, req, lock, order, budget>>
    BY <1>1 DEF Room, Committed, Counted, Worth, Cost
  <1>2. CASE OrderStep
    <2>1. /\ UNCHANGED <<price, req, lock>>
          /\ \A o \in OrderIds : order'[o].quantity = order[o].quantity
          /\ \E o : Counted' \subseteq Counted \cup {o}
          /\ Unguarded \/ (Counted' \subseteq Counted /\ UNCHANGED budget)
      BY <1>2, OrderCounts
    <2>2. IsFiniteSet(Counted')
      <3>1. PICK o : Counted' \subseteq Counted \cup {o}
        BY <2>1
      <3>2. IsFiniteSet(Counted \cup {o})
        BY FS_AddElement DEF Room
      <3> QED
        BY <3>1, <3>2, FS_Subset
    <2>3. CASE Unguarded
      <3>1. \A c \in Checkouts : req[c].pc \notin Asking
        BY <2>3, CheckoutAssumption DEF Unguarded, Room
      <3> QED
        BY <2>1, <2>2, <3>1 DEF Room, Asking
    <2>4. CASE Counted' \subseteq Counted /\ UNCHANGED budget
      <3>1. Committed' \leq Committed /\ Committed' \in Nat
        BY <1>0, <2>1, <2>4, LessCommitted DEF Room
      <3>2. Committed \in Nat /\ budget.amount \in Nat
        BY Worths DEF Counts, Room
      <3>3. ASSUME NEW c \in Checkouts, req[c].pc = "insert", budget.blocks
            PROVE  Committed' < budget.amount /\ Committed' + Cost(c)' \leq budget.amount
        <4>1. price \in Nat /\ req[c].cur \in Lines /\ req[c].owned \in [Lines -> Quantity]
          BY <3>3, Worths DEF Counts, OInv, TInv, Typed, Hands, RequestRecord, Ordering
        <4>2. req[c].owned[req[c].cur] \in Nat
          BY <4>1 DEF Quantity
        <4>3. \A p, q \in Nat : p * q \in Nat
          OBVIOUS
        <4>4. Cost(c) \in Nat /\ Cost(c)' = Cost(c)
          BY <2>1, <4>1, <4>2, <4>3 DEF Cost
        <4>5. Committed < budget.amount /\ Committed + Cost(c) \leq budget.amount
          BY <3>3 DEF Room
        <4> QED
          BY <3>1, <3>2, <4>4, <4>5
      <3> QED
        BY <2>1, <2>2, <2>4, <3>3 DEF Room
    <2> QED
      BY <2>1, <2>3, <2>4
  <1>3. ShopperStep \/ UNCHANGED vars => UNCHANGED <<price, req, lock, order, budget>>
    BY DEF ShopperStep, AddCount, AddInsert, Update, RemoveOne, Clear, Remove, vars
  <1> QED
    BY <1>0, <1>1, <1>2, <1>3, CheckoutRoom DEF Next

(* An order is placed against a blocking budget only while something is    *)
(* left of it, and never takes it over: lockCostCentreBudget is held from  *)
(* checkBudget to the commit.                                              *)
THEOREM BudgetHolds ==
  ASSUME "budget" \notin Races
  PROVE  Spec => NeverPlacedOverBudget
  <1> DEFINE Within ==
        \A o \in OrderIds :
          order[o].status = "none" /\ order'[o].status # "none" /\ budget.blocks
            => Committed < budget.amount /\ Committed' \leq budget.amount
  <1>1. Init => OInv /\ Rest /\ Room
    BY InitTInv, InitOrders, InitRest, InitRoom DEF OInv
  <1>2. OInv /\ Rest /\ Room /\ [Next]_vars => (OInv /\ Rest /\ Room)'
    BY NextOInv, NextRest, NextRoom DEF OInv
  <1>3. OInv /\ Rest /\ Room /\ [Next]_vars => [Within]_vars
    <2> SUFFICES ASSUME OInv, Rest, Room, Next,
                        NEW o \in OrderIds,
                        order[o].status = "none", order'[o].status # "none", budget.blocks
                 PROVE  Committed < budget.amount /\ Committed' \leq budget.amount
      OBVIOUS
    <2>1. ~ShopperStep
      BY ShopperEffect DEF ShopperStep, AddCount, AddInsert, Update, RemoveOne, Clear, Remove
    <2>2. ~OrderStep
      <3>1. OrderStep => order'[o].status = "none"
        BY OrderKept DEF OInv, Kept, OrderIds
      <3> QED
        BY <3>1
    <2>3. PICK c \in Checkouts : CheckoutStep(c) \/ Crash(c) \/ TailThrows(c)
      BY <2>1, <2>2 DEF Next
    <2>4. Insert(c) /\ req[c].pc = "insert"
      BY <2>3, AskingEffect
    <2>5. OInv' /\ Rest'
      BY <1>2
    <2>6. /\ Committed' \in Nat /\ Cost(c) \in Nat
          /\ Committed' \leq Committed + Cost(c)
      BY <2>4, <2>5, InsertCommits DEF Room
    <2>7. Committed < budget.amount /\ Committed + Cost(c) \leq budget.amount
      BY <2>4 DEF Room
    <2>8. Committed \in Nat /\ budget.amount \in Nat
      BY Worths DEF Counts, Room
    <2> QED
      BY <2>6, <2>7, <2>8
  <1> HIDE DEF Within
  <1>4. Spec => [][Within]_vars
    BY <1>1, <1>2, <1>3, PTL DEF Spec
  <1> QED
    BY <1>4 DEF NeverPlacedOverBudget, Within

=============================================================================
