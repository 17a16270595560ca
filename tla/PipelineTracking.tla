-------------------------- MODULE PipelineTracking --------------------------
(***************************************************************************)
(* The tracking fields of an order or an infrastructure element: which     *)
(* pipelines the row waits for (pipeline_id) and what has been reported    *)
(* about them (pipeline_status).                                           *)
(*                                                                         *)
(* pipeline_status is a JSON map.  Its entries are of three sorts, kept    *)
(* here as three sets: the pipelines whose entry is 'success' (ok), those  *)
(* whose entry is 'failed' or 'canceled' (bad), and the two keys that name *)
(* no pipeline and never hold 'success' (blocks).  The entries             *)
(* trigger-failed:0, trigger-failed:1, ... differ only in their text and   *)
(* are one member of blocks.  The list pipeline_id is a set: nothing       *)
(* decided from it depends on order or repetition.                         *)
(***************************************************************************)

Triggering    == "triggering"       \* a trigger run is still firing
TriggerFailed == "trigger-failed"   \* some trigger of the run never started

Blocks == {Triggering, TriggerFailed}

Tracking(P) ==
  [ids : SUBSET P, ok : SUBSET P, bad : SUBSET P, blocks : SUBSET Blocks]

Untracked == [ids |-> {}, ok |-> {}, bad |-> {}, blocks |-> {}]

(* Faulty variants of the operators below, one for each.                   *)

UnguardedRun == Untracked                                  \* no triggering entry

ForgetfulClose(t, started, failures) ==                    \* no reconciliation
  [t EXCEPT !.blocks = (@ \ {Triggering})
                         \cup (IF failures THEN {TriggerFailed} ELSE {})]

SilentClose(t, started, failures) ==                       \* no sentinel (#134)
  [t EXCEPT !.ids = @ \cup started, !.blocks = @ \ {Triggering}]

AnyStatus(t, u) == TRUE                                    \* status alone (#195)

(* What begin*TriggerRun writes: no pipeline yet, and the entry that keeps *)
(* the row from settling while triggers are still being fired.             *)
OpenRun == [Untracked EXCEPT !.blocks = {Triggering}]

(* record*PipelineId: append one id, whatever else the row holds.          *)
RecordId(t, p) == [t EXCEPT !.ids = @ \cup {p}]

(* finish*TriggerRun: append the ids that are missing, drop the triggering *)
(* entry, add the sentinels of the triggers that failed.                   *)
CloseRun(t, started, failures) ==
  [t EXCEPT !.ids = @ \cup started,
            !.blocks = (@ \ {Triggering})
                         \cup (IF failures THEN {TriggerFailed} ELSE {})]

(* A pipeline's report merged into the map replaces its earlier entry.     *)
MergeSuccess(t, p) == [t EXCEPT !.ok = @ \cup {p}, !.bad = @ \ {p}]

MergeFailure(t, p) == [t EXCEPT !.ok = @ \ {p}, !.bad = @ \cup {p}]

(* Something was started, all of it succeeded, and no entry is anything    *)
(* but a success.                                                          *)
IsSettled(t) ==
  /\ t.ids # {}
  /\ t.ids \subseteq t.ok
  /\ t.bad = {}
  /\ t.blocks = {}

(* Equality of the two pipeline_status maps, as the compare-and-swap of a  *)
(* settlement tests it: the id list is not part of it.                     *)
SameStatus(t, u) ==
  /\ t.ok = u.ok
  /\ t.bad = u.bad
  /\ t.blocks = u.blocks
=============================================================================
