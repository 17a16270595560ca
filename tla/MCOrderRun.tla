----------------------------- MODULE MCOrderRun -----------------------------
(* Bounded instances of OrderRun.                                          *)
EXTENDS OrderRunProofs, TLC

CONSTANTS h1, h2, h3   \* callback requests

HandlerSymmetry == Permutations(Handlers)
=============================================================================
