----------------------------- MODULE MCTwoFactor -----------------------------
(* An instance of TwoFactor with interchangeable requests and keys.        *)
EXTENDS TwoFactor, TLC

Symmetry == Permutations(Requests) \cup Permutations(Keys)

=============================================================================
