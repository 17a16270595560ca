---------------------------- MODULE MCCheckout ----------------------------
(* Instances of Checkout for TLC.  Its lines, its checkouts and its adders *)
(* are each interchangeable.                                               *)
EXTENDS Checkout, TLC

CONSTANTS l1, l2, l3, c1, c2, a1, a2

Symmetry == Permutations({l1, l2, l3}) \cup Permutations({c1, c2}) \cup Permutations({a1, a2})

=============================================================================
