--------------------------- MODULE ElementStatus ---------------------------
(***************************************************************************)
(* What an element's status promises to whoever reads it - the owner, the  *)
(* sweep, a Retry, a deletion - with the triggering entries, the callbacks *)
(* and the settlements behind it left out.                                 *)
(*                                                                         *)
(* Destroys are fired at an element by one attempt at most, and only while *)
(* it is on its way out; it is given back only if none ever was; it is     *)
(* gone only when one attempt's destroys have all been confirmed, and then *)
(* for good.                                                               *)
(***************************************************************************)
CONSTANTS
  Elements,
  Attempts   \* teardown requests

VARIABLES
  status,    \* infrastructure_elements.status
  needed,    \* the destroys an element takes: the triggers configured
  fired,     \* <<attempt, element, trigger>>: destroys started
  confirmed  \* those that have reported success

elementVars == <<status, needed, fired, confirmed>>

FiredAt(e) == {p \in fired : p[2] = e}

ElementInit ==
  /\ status \in [Elements -> {"active", "decommissioned"}]
  /\ fired = {}
  /\ confirmed = {}

(* Decommission, the sweep, or a deletion.                                 *)
Claim(e) ==
  /\ status[e] = "active"
  /\ status' = [status EXCEPT ![e] = "decommissioning"]
  /\ UNCHANGED <<needed, fired, confirmed>>

Fire(a, e, t) ==
  /\ status[e] = "decommissioning"
  /\ t \in needed
  /\ \A p \in FiredAt(e) : p[1] = a
  /\ fired' = fired \cup {<<a, e, t>>}
  /\ UNCHANGED <<status, needed, confirmed>>

(* A destroy reports, while its element is still on its way out.           *)
Confirm(p) ==
  /\ p \in fired
  /\ status[p[2]] = "decommissioning"
  /\ confirmed' = confirmed \cup {p}
  /\ UNCHANGED <<status, needed, fired>>

GiveBack(e) ==
  /\ status[e] = "decommissioning"
  /\ FiredAt(e) = {}
  /\ status' = [status EXCEPT ![e] = "active"]
  /\ UNCHANGED <<needed, fired, confirmed>>

Retire(e) ==
  /\ status[e] = "decommissioning"
  /\ \E a \in Attempts : \A t \in needed : <<a, e, t>> \in confirmed
  /\ status' = [status EXCEPT ![e] = "decommissioned"]
  /\ UNCHANGED <<needed, fired, confirmed>>

ElementNext ==
  \/ \E e \in Elements : Claim(e) \/ GiveBack(e) \/ Retire(e)
  \/ \E a \in Attempts, e \in Elements, t \in needed : Fire(a, e, t)
  \/ \E p \in fired : Confirm(p)

ElementSpec == ElementInit /\ [][ElementNext]_elementVars
=============================================================================
