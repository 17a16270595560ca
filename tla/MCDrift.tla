------------------------------ MODULE MCDrift ------------------------------
(* An instance of Drift: one element and its two states, which are         *)
(* nobody's before it is built and after it is deleted.                    *)
EXTENDS Drift, TLC

CONSTANTS e1, k1, k2, d1, d2

OwnsTwo == (e1 :> {k1, k2})

Finding(a, b, complete) == [of |-> (k1 :> a @@ k2 :> b), complete |-> complete]

(* Its states agree, or they disagree, or one is missing: planned no more, *)
(* or not in this run.                                                     *)
Findings ==
  {Finding("clean", "clean", TRUE), Finding("locked", "drifted", FALSE),
   Finding("error", "clean", FALSE), Finding("none", "clean", TRUE)}

(* The first state drifts, and another run reports the second one alone.   *)
OneAtATime == {Finding("drifted", "none", FALSE), Finding("none", "clean", FALSE)}

Symmetry == Permutations(Deliveries)
=============================================================================
