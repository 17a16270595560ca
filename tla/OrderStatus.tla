---------------------------- MODULE OrderStatus ----------------------------
(***************************************************************************)
(* What an order's status promises to whoever reads it - the requester,    *)
(* the approvers, the retry button - with the trigger runs and callbacks   *)
(* behind it left out.                                                     *)
(*                                                                         *)
(* An order is built by at most one claim at a time; it is completed only  *)
(* when nobody holds a claim on it, and for good; it is offered for        *)
(* approval again only if nothing was ever fired for it.                   *)
(***************************************************************************)
VARIABLES
  status,    \* orders.status
  claimed,   \* somebody is firing the order's triggers
  fired      \* some pipeline has been started for the order

statusVars == <<status, claimed, fired>>

OrderInit ==
  /\ \/ status = "pending" /\ claimed = FALSE
     \/ status = "provisioning" /\ claimed = TRUE
  /\ fired = FALSE

(* An approval, the window sweep, a deployment ahead of it, or a retry.    *)
Claim ==
  /\ ~claimed
  /\ status \in {"pending", "failed"}
  /\ status' = "provisioning"
  /\ claimed' = TRUE
  /\ UNCHANGED fired

Fire ==
  /\ claimed
  /\ fired' = TRUE
  /\ UNCHANGED <<status, claimed>>

(* The claim ends with the order left to its pipelines.                    *)
HandOver ==
  /\ claimed
  /\ claimed' = FALSE
  /\ UNCHANGED <<status, fired>>

(* The claim ends with the order given back.                               *)
GiveBack ==
  /\ claimed
  /\ claimed' = FALSE
  /\ status' \in {"failed"} \cup (IF fired THEN {} ELSE {"pending"})
  /\ UNCHANGED fired

(* A pipeline failed, or root wrote the order off.                         *)
Fail ==
  /\ status = "provisioning"
  /\ status' = "failed"
  /\ UNCHANGED <<claimed, fired>>

(* An approver rejects the request.                                        *)
Reject ==
  /\ ~claimed
  /\ status = "pending"
  /\ status' = "rejected"
  /\ UNCHANGED <<claimed, fired>>

Complete ==
  /\ ~claimed
  /\ fired
  /\ status \in {"provisioning", "failed"}
  /\ status' = "completed"
  /\ UNCHANGED <<claimed, fired>>

OrderNext ==
  Claim \/ Fire \/ HandOver \/ GiveBack \/ Fail \/ Reject \/ Complete

OrderSpec == OrderInit /\ [][OrderNext]_statusVars
=============================================================================
