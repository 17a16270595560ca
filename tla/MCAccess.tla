----------------------------- MODULE MCAccess -----------------------------
(* Instances of Access for TLC.  Accounts, sessions and requests of a kind *)
(* are interchangeable.                                                    *)
EXTENDS Access, TLC

CONSTANTS u1, u2, s1, s2, s3, q1, q2, p1, p2, w1, w2

Symmetry ==
  Permutations({u1, u2}) \cup Permutations({s1, s2, s3}) \cup Permutations({q1, q2})
    \cup Permutations({p1, p2}) \cup Permutations({w1, w2})

=============================================================================
