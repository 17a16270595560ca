---------------------------- MODULE MCCatalogue -----------------------------
(* Bounded instances of Catalogue.                                         *)
EXTENDS Catalogue, TLC

CONSTANTS p1, p2, c1, c2, j1, o1, o2, d1, d2   \* rows and requests

Symmetry ==
  Permutations(Products) \cup Permutations(Categories)
    \cup Permutations(Orders) \cup Permutations(Deletions)
=============================================================================
