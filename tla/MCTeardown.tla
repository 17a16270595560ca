----------------------------- MODULE MCTeardown -----------------------------
(* Bounded instances of Teardown.                                          *)
EXTENDS Teardown, TLC

CONSTANTS e1, e2, h1, h2   \* elements and callback requests

TeardownSymmetry == Permutations(Handlers) \cup Permutations(Elements)
=============================================================================
