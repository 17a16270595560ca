---------------------------- MODULE MCOrderQueue ----------------------------
(* A bounded instance of OrderQueue.                                       *)
EXTENDS OrderQueue

CONSTANTS a1, a2, s1, d1   \* requests
=============================================================================
