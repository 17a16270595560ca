-------------------------- MODULE OrderRunProofs --------------------------
(***************************************************************************)
(* Theorems about OrderRun for any quantity, any triggers, any number of   *)
(* runs and callbacks.                                                     *)
(***************************************************************************)
EXTENDS OrderRun, TLAPS

(* The conditions under which the invariant below holds: a retry does not  *)
(* overlap a run that still holds its claim, nothing throws in a run, and  *)
(* a trigger call that fails has not started its pipeline.  Crashes, lost  *)
(* records, and a retry overlapping callbacks and settlements are allowed. *)
Orderly ==
  /\ "run" \notin Overlaps
  /\ Faults \cap {"query", "lookup", "answer"} = {}

-----------------------------------------------------------------------------
(* The inductive invariant.                                                *)

OneClaim == \A q, r \in Runs : Claimed(q) /\ Claimed(r) => q = r

ClaimedIsOpen ==
  \A r \in Runs : Claimed(r) => status \in {"provisioning", "failed"}

PendingIsQuiet ==
  status = "pending" => ran = {} /\ \A r \in Runs : ~Claimed(r)

(* Before a run has opened the tracking nothing can disturb the order.     *)
BeginIsQuiet ==
  \A r \in Runs :
    run[r].pc = "begin" => status = "provisioning" /\ Provisions(r) /\ ran = {}

PcFitsKind ==
  \A r \in Runs :
    /\ run[r].pc = "read" => ~Provisions(r)
    /\ run[r].pc \in {"undo", "clear"} => Provisions(r)

(* From there on its triggering entry stays.                               *)
GuardedPcs ==
  {"read", "next", "webhooks", "stacks", "record", "rewrite", "close", "undo",
   "clear"}

RunIsGuarded ==
  \A r \in Runs :
    run[r].pc \in GuardedPcs \/ (run[r].pc = "release" /\ ~Provisions(r))
      => Triggering \in track.blocks

(* What a run has started it has counted, and what it has counted runs.    *)
CountedRuns ==
  \A r \in Runs :
    /\ run[r].got \cup run[r].started \subseteq ran
    /\ run[r].pc = "record" => run[r].sent \in ran

RunsAreCounted ==
  \A r \in Runs :
    Provisions(r) =>
      /\ run[r].pc = "next" => ran \subseteq run[r].started
      /\ run[r].pc \in {"webhooks", "stacks"}
           => ran \subseteq run[r].started \cup run[r].got
      /\ run[r].pc = "record"
           => ran \subseteq run[r].started \cup run[r].got \cup {run[r].sent}
      /\ run[r].pc \in {"undo", "clear", "release"} => ran = {}

(* Callbacks and settlements are about pipelines that run.                 *)
EventsAreReal ==
  /\ track.ids \subseteq ran
  /\ \A h \in Handlers : hand[h].pc = "merge" => ran # {}
  /\ \A x \in Requests :
       settle[x].pc # "none" => ran # {} /\ settle[x].decided.blocks = {}

ClaimsInOrder ==
  /\ OneClaim
  /\ ClaimedIsOpen
  /\ PendingIsQuiet
  /\ BeginIsQuiet
  /\ PcFitsKind

IInv ==
  /\ TypeOK
  /\ ClaimsInOrder
  /\ RunIsGuarded
  /\ CountedRuns
  /\ RunsAreCounted
  /\ EventsAreReal

-----------------------------------------------------------------------------
(* Types.                                                                  *)

(* Whatever the code writes into the tracking fields is a tracking record. *)
LEMMA Trackings ==
  /\ Untracked \in Tracking(Pipelines)
  /\ OpenRun \in Tracking(Pipelines)
  /\ \A t \in Tracking(Pipelines), p \in Pipelines :
       /\ RecordId(t, p) \in Tracking(Pipelines)
       /\ MergeSuccess(t, p) \in Tracking(Pipelines)
       /\ MergeFailure(t, p) \in Tracking(Pipelines)
  /\ \A t \in Tracking(Pipelines), S \in SUBSET Pipelines, f \in BOOLEAN :
       CloseRun(t, S, f) \in Tracking(Pipelines)
  BY DEF Tracking, Untracked, OpenRun, RecordId, MergeSuccess, MergeFailure,
         CloseRun, Blocks

(* The values the variables start with are of their types.                 *)
LEMMA Starts ==
  /\ <<1, 1>> \in Rows
  /\ Idle \in RunRecord
  /\ NoHand \in HandRecord
  /\ NoSettle \in SettleRecord
  /\ NoRowIds \in [Rows -> SUBSET Pipelines]
  BY OrderRunAssumption, Trackings
     DEF Rows, Runs, Idle, RunRecord, RunPc, NoHand, HandRecord, NoSettle,
         SettleRecord, NoRowIds

(* The types hold initially.                                               *)
LEMMA TypeInit == Init => TypeOK
  <1> SUFFICES ASSUME Init PROVE TypeOK
    OBVIOUS
  <1>1. run \in [Runs -> RunRecord]
    <2>1. [Idle EXCEPT !.pc = "begin", !.kind = "create"] \in RunRecord
      BY Starts DEF RunRecord, RunPc
    <2> QED
      BY <2>1, Starts DEF Init
  <1>2. /\ Idle.pc = "idle"
        /\ [Idle EXCEPT !.pc = "begin", !.kind = "create"].pc = "begin"
        /\ NoHand.pc = "idle"
    BY DEF Idle, NoHand
  <1>3. /\ \A r \in Runs : run[r].pc # "record"
        /\ \A h \in Handlers : hand[h].pc # "merge"
    BY <1>2 DEF Init
  <1> QED
    BY <1>1, <1>3, Starts, Trackings DEF Init, TypeOK, Statuses

(* What a run starts for an element is a pipeline.                         *)
LEMMA PipelineOf ==
  \A r \in Runs, e \in Rows, t \in Triggers : <<r, e, t>> \in Pipelines
  BY DEF Pipelines

(* The elements a run inserts are rows.                                    *)
LEMMA Rectangle == \A r \in Runs : {r} \X (1..Quantity) \subseteq Rows
  BY DEF Rows

(* A settlement that ends leaves the types alone.                          *)
LEMMA NoSettleType ==
  ASSUME TypeOK, NEW x \in Requests
  PROVE  [settle EXCEPT ![x] = NoSettle] \in [Requests -> SettleRecord]
  BY Starts DEF TypeOK

(* So does one that starts, on the map just written.                       *)
LEMMA SettleFromType ==
  ASSUME TypeOK, NEW x \in Requests, NEW t \in Tracking(Pipelines),
         SettleFrom(x, t)
  PROVE  settle' \in [Requests -> SettleRecord]
  <1>1. [NoSettle EXCEPT !.pc = "read", !.decided = t] \in SettleRecord
    BY Starts DEF NoSettle, SettleRecord
  <1> QED
    BY <1>1 DEF SettleFrom, TypeOK

(* Every step of a run keeps the types.                                    *)
LEMMA TypeRun ==
  ASSUME TypeOK, NEW r \in Runs,
         Approve(r) \/ Retry(r) \/ RunStep(r) \/ RunFault(r)
  PROVE  TypeOK'
  <1>0. run[r] \in RunRecord
    BY DEF TypeOK
  <1>1. CASE Approve(r)
    <2>1. run' \in [Runs -> RunRecord]
      BY <1>0, <1>1 DEF Approve, TypeOK, RunRecord, RunPc
    <2> QED
      BY <1>0, <1>1, <2>1
         DEF Approve, Statuses, TypeOK, RunRecord, orderVars, rowVars
  <1>2. CASE Retry(r)
    <2>1. PICK e \in rows :
            run' = [run EXCEPT ![r].pc = "read", ![r].kind = "retry", ![r].cur = e]
      BY <1>2 DEF Retry
    <2>2. run' \in [Runs -> RunRecord]
      BY <1>0, <2>1 DEF TypeOK, RunRecord, RunPc
    <2> QED
      BY <1>0, <1>2, <2>1, <2>2, Trackings
         DEF Retry, TypeOK, RunRecord, Statuses, rowVars
  <1>3. CASE ReadSiblings(r)
    <2>0. PICK elements \in SUBSET Rows :
            run' = [run EXCEPT ![r].pc = "next", ![r].elems = elements,
                               ![r].todo = elements]
      BY <1>0, <1>3 DEF ReadSiblings, TypeOK, RunRecord
    <2>1. run' \in [Runs -> RunRecord]
      BY <1>0, <2>0 DEF TypeOK, RunRecord, RunPc
    <2> QED
      BY <1>0, <1>3, <2>1
         DEF ReadSiblings, TypeOK, RunRecord, orderVars, rowVars
  <1>4. CASE Begin(r)
    <2>1. run' \in [Runs -> RunRecord]
      BY <1>0, <1>4, Rectangle DEF Begin, TypeOK, RunRecord, RunPc
    <2> QED
      BY <1>0, <1>4, <2>1, Trackings
         DEF Begin, TypeOK, RunRecord, orderVars, rowVars
  <1>5. CASE NextElement(r)
    <2>1. PICK e \in run[r].todo :
            /\ run' = [run EXCEPT ![r].pc = "webhooks", ![r].todo = @ \ {e},
                                  ![r].cur = e, ![r].left = Webhooks, ![r].got = {}]
            /\ rows' = IF Provisions(r) THEN rows \cup {e} ELSE rows
      BY <1>5 DEF NextElement
    <2>2. run' \in [Runs -> RunRecord] /\ e \in Rows
      BY <1>0, <2>1 DEF TypeOK, RunRecord, RunPc, Triggers
    <2> QED
      BY <1>0, <1>5, <2>1, <2>2 DEF NextElement, TypeOK, RunRecord, orderVars
  <1>6. CASE TriggerStarts(r)
    <2>1. PICK t \in run[r].left :
            /\ ran' = ran \cup {<<r, run[r].cur, t>>}
            /\ run' = [run EXCEPT ![r].pc = "record", ![r].left = @ \ {t},
                                  ![r].sent = <<r, run[r].cur, t>>]
      BY <1>6 DEF TriggerStarts
    <2>2. <<r, run[r].cur, t>> \in Pipelines
      BY <1>0, PipelineOf DEF RunRecord
    <2>3. run' \in [Runs -> RunRecord]
      BY <1>0, <2>1, <2>2 DEF TypeOK, RunRecord, RunPc
    <2> QED
      BY <1>0, <1>6, <2>1, <2>2, <2>3
         DEF TriggerStarts, TypeOK, RunRecord, orderVars, rowVars
  <1>7. CASE TriggerFails(r)
    <2>1. PICK t \in run[r].left :
            run' = [run EXCEPT ![r].left = @ \ {t}, ![r].failures = TRUE]
      BY <1>7 DEF TriggerFails, Unanswered
    <2>2. run' \in [Runs -> RunRecord]
      BY <1>0, <2>1 DEF TypeOK, RunRecord, RunPc
    <2> QED
      BY <1>0, <1>7, <2>1, <2>2
         DEF TriggerFails, TypeOK, RunRecord, orderVars, rowVars
  <1>8. CASE Record(r)
    <2>1. run[r].sent \in Pipelines
      BY <1>8 DEF Record, TypeOK
    <2>2. PICK pc \in {"webhooks", "stacks"} :
            run' = [run EXCEPT ![r].pc = pc, ![r].sent = NoPipeline,
                               ![r].got = @ \cup {run[r].sent}]
      BY <1>8 DEF Record, Recorded
    <2> DEFINE recorded == [run[r] EXCEPT !.pc = pc, !.sent = NoPipeline,
                                          !.got = @ \cup {run[r].sent}]
    <2>a. recorded \in RunRecord
      BY <1>0, <2>1, <2>2 DEF RunRecord, RunPc
    <2>3. run' \in [Runs -> RunRecord]
      BY <2>a, <2>2 DEF TypeOK
    <2>4. track' \in Tracking(Pipelines)
      BY <1>8, <2>1, Trackings DEF Record, TypeOK
    <2>5. \A q \in Runs : run'[q].pc = "record" => run'[q].sent \in Pipelines
      BY <2>2 DEF TypeOK
    <2> QED
      BY <1>8, <2>3, <2>4, <2>5 DEF Record, TypeOK, rowVars
  <1>9. CASE LookupStacks(r)
    <2>1. run' \in [Runs -> RunRecord]
      BY <1>0, <1>9 DEF LookupStacks, Triggers, TypeOK, RunRecord, RunPc
    <2> QED
      BY <1>0, <1>9, <2>1
         DEF LookupStacks, TypeOK, RunRecord, orderVars, rowVars
  <1>10. CASE EndElement(r)
    <2>1. run' \in [Runs -> RunRecord]
      BY <1>0, <1>10 DEF EndElement, TypeOK, RunRecord, RunPc
    <2>2. run[r].got \in SUBSET Pipelines
      BY <1>0 DEF RunRecord
    <2>3. rowIds' \in [Rows -> SUBSET Pipelines]
      BY <1>10, <2>2 DEF EndElement, TypeOK
    <2> QED
      BY <1>0, <1>10, <2>1, <2>3 DEF EndElement, TypeOK, RunRecord, orderVars
  <1>11. CASE EndLoop(r)
    <2>1. run' \in [Runs -> RunRecord]
      BY <1>0, <1>11 DEF EndLoop, TypeOK, RunRecord, RunPc
    <2> QED
      BY <1>0, <1>11, <2>1 DEF EndLoop, TypeOK, RunRecord, orderVars, rowVars
  <1>12. CASE Rewrite(r)
    <2>1. PICK e \in run[r].todo :
            /\ run' = [run EXCEPT
                         ![r].pc = IF run[r].todo = {e} THEN "close" ELSE "rewrite",
                         ![r].todo = @ \ {e}]
            /\ rowIds' = [rowIds EXCEPT ![e] = IF e \in rows
                                                 THEN {p \in run[r].started : p[2] = e}
                                                 ELSE @]
            /\ outputs' = [outputs EXCEPT ![e] = IF e \in rows THEN {} ELSE @]
      BY <1>12 DEF Rewrite
    <2>2. run' \in [Runs -> RunRecord]
      BY <1>0, <2>1 DEF TypeOK, RunRecord, RunPc
    <2>3. {p \in run[r].started : p[2] = e} \in SUBSET Pipelines
      BY <1>0 DEF RunRecord
    <2>4. rowIds' \in [Rows -> SUBSET Pipelines] /\ outputs' \in [Rows -> SUBSET Pipelines]
      BY <2>1, <2>3 DEF TypeOK
    <2>5. \A q \in Runs : run'[q].pc = "record" => run'[q].sent \in Pipelines
      BY <1>0, <2>1 DEF TypeOK, RunRecord
    <2> QED
      BY <1>12, <2>2, <2>4, <2>5 DEF Rewrite, TypeOK, orderVars
  <1>13. CASE Close(r)
    <2>1. run' \in [Runs -> RunRecord]
      BY <1>0, <1>13 DEF Close, Goto, TypeOK, RunRecord, RunPc
    <2>2. track' \in Tracking(Pipelines)
      BY <1>0, <1>13, Trackings DEF Close, TypeOK, RunRecord
    <2>3. settle' \in [Requests -> SettleRecord]
      BY <1>13, <2>2, SettleFromType DEF Close, Requests
    <2> QED
      BY <1>0, <1>13, <2>1, <2>2, <2>3
         DEF Close, Goto, TypeOK, RunRecord, rowVars
  <1>14. CASE Undo(r)
    <2>1. run' \in [Runs -> RunRecord]
      BY <1>0, <1>14 DEF Undo, Goto, TypeOK, RunRecord, RunPc
    <2> QED
      BY <1>0, <1>14, <2>1
         DEF Undo, TypeOK, RunRecord, orderVars, rowVars, Goto
  <1>15. CASE Clear(r)
    <2>1. run' \in [Runs -> RunRecord]
      BY <1>0, <1>15 DEF Clear, Goto, TypeOK, RunRecord, RunPc
    <2> QED
      BY <1>0, <1>15, <2>1, Trackings
         DEF Clear, TypeOK, RunRecord, orderVars, rowVars, Goto
  <1>16. CASE Release(r)
    <2>1. run' \in [Runs -> RunRecord]
      BY <1>0, <1>16 DEF Release, Goto, TypeOK, RunRecord, RunPc
    <2> QED
      BY <1>0, <1>16, <2>1, Trackings
         DEF Release, Statuses, TypeOK, RunRecord, orderVars, rowVars, Goto
  <1>17. CASE Return(r)
    <2>1. run' \in [Runs -> RunRecord]
      BY <1>0, <1>17 DEF Return, Goto, TypeOK, RunRecord, RunPc
    <2> QED
      BY <1>0, <1>17, <2>1
         DEF Return, TypeOK, RunRecord, orderVars, rowVars, Goto
  <1>18. CASE AnswerLost(r)
    <2>1. PICK t \in run[r].left :
            /\ run' = [run EXCEPT ![r].left = @ \ {t}, ![r].failures = TRUE]
            /\ ran' = ran \cup {<<r, run[r].cur, t>>}
      BY <1>18 DEF AnswerLost, Unanswered
    <2>2. <<r, run[r].cur, t>> \in Pipelines
      BY <1>0, PipelineOf DEF RunRecord
    <2>3. run' \in [Runs -> RunRecord]
      BY <1>0, <2>1 DEF TypeOK, RunRecord, RunPc
    <2>4. \A q \in Runs : run'[q].pc = "record" => run'[q].sent \in Pipelines
      BY <1>0, <2>1 DEF TypeOK, RunRecord
    <2>5. ran' \subseteq Pipelines /\ faults' \in Nat
      BY <1>18, <2>1, <2>2 DEF AnswerLost, Fault, TypeOK
    <2> QED
      BY <1>18, <2>3, <2>4, <2>5 DEF AnswerLost, TypeOK, orderVars, rowVars
  <1>19. CASE RecordLost(r)
    <2>1. run[r].sent \in Pipelines
      BY <1>19 DEF RecordLost, TypeOK
    <2>2. PICK pc \in {"webhooks", "stacks"} :
            run' = [run EXCEPT ![r].pc = pc, ![r].sent = NoPipeline,
                               ![r].got = @ \cup {run[r].sent}]
      BY <1>19 DEF RecordLost, Recorded
    <2> DEFINE recorded == [run[r] EXCEPT !.pc = pc, !.sent = NoPipeline,
                                          !.got = @ \cup {run[r].sent}]
    <2>a. recorded \in RunRecord
      BY <1>0, <2>1, <2>2 DEF RunRecord, RunPc
    <2>3. run' \in [Runs -> RunRecord]
      BY <2>a, <2>2 DEF TypeOK
    <2>4. faults' \in Nat
      BY <1>19 DEF RecordLost, Fault, TypeOK
    <2>5. \A q \in Runs : run'[q].pc = "record" => run'[q].sent \in Pipelines
      BY <2>2 DEF TypeOK
    <2> QED
      BY <1>19, <2>3, <2>4, <2>5 DEF RecordLost, TypeOK, orderVars, rowVars
  <1>20. CASE LookupThrows(r)
    <2>0. PICK pc \in {"release", "next"} :
            run' = [run EXCEPT ![r].pc = pc, ![r].left = {}, ![r].got = {},
                               ![r].failures = TRUE]
      BY <1>20 DEF LookupThrows
    <2>1. run' \in [Runs -> RunRecord]
      BY <1>0, <2>0 DEF TypeOK, RunRecord, RunPc
    <2> QED
      BY <1>0, <1>20, <2>1
         DEF LookupThrows, Fault, TypeOK, RunRecord, orderVars, rowVars
  <1>21. CASE Crash(r)
    <2>1. run' \in [Runs -> RunRecord]
      BY <1>0, <1>21 DEF Crash, Goto, TypeOK, RunRecord, RunPc
    <2> QED
      BY <1>0, <1>21, <2>1, NoSettleType
         DEF Crash, Fault, Requests, TypeOK, RunRecord, orderVars, rowVars,
             Goto
  <1>22. CASE QueryThrows(r)
    <2>1. run' \in [Runs -> RunRecord]
      BY <1>0, <1>22 DEF QueryThrows, Goto, TypeOK, RunRecord, RunPc
    <2> QED
      BY <1>0, <1>22, <2>1, NoSettleType
         DEF QueryThrows, Fault, Requests, TypeOK, RunRecord, orderVars,
             rowVars, Goto
  <1> QED
    BY <1>1, <1>2, <1>3, <1>4, <1>5, <1>6, <1>7, <1>8, <1>9, <1>10, <1>11,
       <1>12, <1>13, <1>14, <1>15, <1>16, <1>17, <1>18, <1>19, <1>20, <1>21,
       <1>22
       DEF RunStep, RunFault

(* So does every step of a callback, ...                                   *)
LEMMA TypeHandler ==
  ASSUME TypeOK, NEW h \in Handlers,
         \/ \E p \in Pipelines, s \in Reports : Receive(h, p, s)
         \/ HandlerStep(h)
         \/ HandlerFails(h)
  PROVE  TypeOK'
  <1>0. h \in Requests /\ hand[h] \in HandRecord
    BY DEF TypeOK, Requests
  <1>1. ASSUME NEW p \in Pipelines, NEW s \in Reports, Receive(h, p, s)
        PROVE  TypeOK'
    <2>1. [pc |-> "merge", pipeline |-> p, report |-> s] \in HandRecord
      BY OrderRunAssumption DEF HandRecord
    <2>2. hand' \in [Handlers -> HandRecord]
      BY <1>1, <2>1 DEF Receive, TypeOK
    <2>3. \A k \in Handlers : hand'[k].pc = "merge" => hand'[k].pipeline \in Pipelines
      BY <1>1 DEF Receive, TypeOK
    <2> QED
      BY <1>1, <2>2, <2>3 DEF Receive, TypeOK, orderVars, rowVars
  <1>2. CASE HandleSuccess(h)
    <2>1. hand[h].pipeline \in Pipelines
      BY <1>2 DEF HandleSuccess, TypeOK
    <2>2. /\ hand' \in [Handlers -> HandRecord]
          /\ \A k \in Handlers :
               hand'[k].pc = "merge" => hand'[k].pipeline \in Pipelines
      BY <1>2, Starts DEF HandleSuccess, TypeOK, NoHand
    <2>3. track' \in Tracking(Pipelines)
      BY <1>2, <2>1, Trackings DEF HandleSuccess, TypeOK
    <2>4. settle' \in [Requests -> SettleRecord]
      BY <1>0, <1>2, <2>3, SettleFromType DEF HandleSuccess, TypeOK
    <2> QED
      BY <1>2, <2>2, <2>3, <2>4 DEF HandleSuccess, TypeOK, rowVars
  <1>3. CASE HandleFailure(h)
    <2>1. hand[h].pipeline \in Pipelines
      BY <1>3 DEF HandleFailure, TypeOK
    <2>2. /\ hand' \in [Handlers -> HandRecord]
          /\ \A k \in Handlers :
               hand'[k].pc = "merge" => hand'[k].pipeline \in Pipelines
      BY <1>3, Starts DEF HandleFailure, TypeOK, NoHand
    <2>3. track' \in Tracking(Pipelines) /\ status' \in Statuses
      BY <1>3, <2>1, Trackings DEF HandleFailure, TypeOK, Statuses, orderVars
    <2> QED
      BY <1>3, <2>2, <2>3 DEF HandleFailure, TypeOK, rowVars
  <1>4. CASE HandlerFails(h)
    <2>1. /\ hand' \in [Handlers -> HandRecord]
          /\ \A k \in Handlers :
               hand'[k].pc = "merge" => hand'[k].pipeline \in Pipelines
      BY <1>4, Starts DEF HandlerFails, TypeOK, NoHand
    <2>2. settle' \in [Requests -> SettleRecord]
      BY <1>0, <1>4, NoSettleType DEF HandlerFails
    <2>3. faults' \in Nat
      BY <1>4 DEF HandlerFails, Fault, TypeOK
    <2> QED
      BY <1>4, <2>1, <2>2, <2>3 DEF HandlerFails, TypeOK, orderVars, rowVars
  <1> QED
    BY <1>1, <1>2, <1>3, <1>4 DEF HandlerStep

(* ... of a settlement, ...                                                *)
LEMMA TypeSettle ==
  ASSUME TypeOK, NEW x \in Requests, SettleStep(x)
  PROVE  TypeOK'
  <1>0. settle[x] \in SettleRecord
    BY DEF TypeOK
  <1>1. CASE SettleRead(x)
    <2>1. [e \in Rows |-> IF e \in rows THEN rowIds[e] ELSE {}]
            \in [Rows -> SUBSET Pipelines]
      BY DEF TypeOK
    <2>2. settle' \in [Requests -> SettleRecord]
      BY <1>0, <1>1, <2>1 DEF SettleRead, TypeOK, SettleRecord
    <2> QED
      BY <1>1, <2>2 DEF SettleRead, TypeOK, orderVars, rowVars
  <1>2. CASE SettleWrite(x)
    <2>1. PICK e \in settle[x].seen, readable \in BOOLEAN :
            /\ outputs' = IF readable /\ e \in rows
                            THEN [outputs EXCEPT ![e] = LogsOf(x, e)]
                            ELSE outputs
            /\ settle' = [settle EXCEPT
                           ![x].pc = IF settle[x].seen = {e} THEN "swap" ELSE "write",
                           ![x].seen = @ \ {e}]
      BY <1>2 DEF SettleWrite
    <2>2. settle' \in [Requests -> SettleRecord]
      BY <1>0, <2>1 DEF TypeOK, SettleRecord
    <2>3. e \in Rows /\ LogsOf(x, e) \in SUBSET Pipelines
      BY <1>0, <2>1 DEF SettleRecord, LogsOf
    <2>4. outputs' \in [Rows -> SUBSET Pipelines]
      BY <2>1, <2>3 DEF TypeOK
    <2> QED
      BY <1>2, <2>2, <2>4 DEF SettleWrite, TypeOK, orderVars
  <1>3. CASE SettleSwap(x)
    <2>1. \/ settle' = [settle EXCEPT ![x].pc = "audit"]
          \/ settle' = [settle EXCEPT ![x] = NoSettle]
      BY <1>3 DEF SettleSwap
    <2>2. [settle EXCEPT ![x].pc = "audit"] \in [Requests -> SettleRecord]
      BY <1>0 DEF TypeOK, SettleRecord
    <2>3. settle' \in [Requests -> SettleRecord]
      BY <2>1, <2>2, NoSettleType
    <2> QED
      BY <1>3, <2>3 DEF SettleSwap, TypeOK, Statuses, rowVars
  <1>4. CASE SettleAudit(x)
    BY <1>4, NoSettleType DEF SettleAudit, TypeOK, orderVars, rowVars
  <1> QED
    BY <1>1, <1>2, <1>3, <1>4 DEF SettleStep

(* ... and every step there is.                                            *)
LEMMA TypeStep == TypeOK /\ [Next]_vars => TypeOK'
  <1> SUFFICES ASSUME TypeOK, [Next]_vars PROVE TypeOK'
    OBVIOUS
  <1>1. CASE MarkFailed
    BY <1>1 DEF MarkFailed, TypeOK, Statuses, rowVars
  <1>2. CASE UNCHANGED vars
    BY <1>2 DEF vars, orderVars, rowVars, TypeOK
  <1> QED
    BY <1>1, <1>2, TypeRun, TypeHandler, TypeSettle DEF Next

(* The variables hold what their declarations say, for every order.        *)
THEOREM TypeCorrect == Spec => []TypeOK
  BY TypeInit, TypeStep, PTL DEF Spec

-----------------------------------------------------------------------------
(* The invariant is kept by every step of a run: what the step does to the *)
(* run is stated first, the other runs are left alone.                     *)

LEMMA InvRun ==
  ASSUME IInv, TypeOK', Orderly, NEW r \in Runs,
         Approve(r) \/ Retry(r) \/ RunStep(r) \/ RunFault(r)
  PROVE  IInv'
  <1>0. /\ run[r] \in RunRecord
        /\ run \in [Runs -> RunRecord]
        /\ run' \in [Runs -> RunRecord]
        /\ track \in Tracking(Pipelines)
    BY DEF IInv, TypeOK
  <1> USE <1>0 DEF IInv, ClaimsInOrder, OneClaim, ClaimedIsOpen, PendingIsQuiet,
           BeginIsQuiet, PcFitsKind, RunIsGuarded, CountedRuns, RunsAreCounted,
           EventsAreReal,
           GuardedPcs, Claimed, InFlight, Provisions, Orderly, RunRecord,
           orderVars, rowVars
  <1>1. CASE Approve(r)
    <2>1. \A q \in Runs : q # r => run'[q] = run[q]
      BY <1>1 DEF Approve, NextRun
    <2>2. /\ run'[r].pc = "begin"
          /\ run'[r].kind = "approve"
          /\ run[r].pc = "idle"
          /\ run'[r].got = run[r].got
          /\ run'[r].started = run[r].started
          /\ run'[r].sent = run[r].sent
      BY <1>1 DEF Approve, NextRun
    <2> QED
      BY <1>1, <2>1, <2>2 DEF Approve, NextRun, OpenRun, Untracked
  <1>2. CASE Retry(r)
    <2>0. PICK e \in rows :
            run' = [run EXCEPT ![r].pc = "read", ![r].kind = "retry", ![r].cur = e]
      BY <1>2 DEF Retry
    <2>1. \A q \in Runs : q # r => run'[q] = run[q]
      BY <2>0
    <2>2. /\ run'[r].pc = "read"
          /\ run'[r].kind = "retry"
          /\ run[r].pc = "idle"
          /\ run'[r].got = run[r].got
          /\ run'[r].started = run[r].started
          /\ run'[r].sent = run[r].sent
      BY <1>2, <2>0 DEF Retry, NextRun
    <2>3. /\ status' = "provisioning" /\ track' = OpenRun
          /\ UNCHANGED <<hand, settle, ran>>
          /\ \A q \in Runs : ~Claimed(q)
      BY <1>2 DEF Retry
    <2>4. ClaimsInOrder'
      BY <2>1, <2>2, <2>3 DEF OpenRun, Untracked
    <2>5. RunIsGuarded'
      BY <2>1, <2>2, <2>3 DEF OpenRun, Untracked
    <2>6. CountedRuns'
      BY <2>1, <2>2, <2>3 DEF OpenRun, Untracked
    <2>7. RunsAreCounted'
      BY <2>1, <2>2, <2>3 DEF OpenRun, Untracked
    <2>8. EventsAreReal'
      BY <2>1, <2>2, <2>3 DEF OpenRun, Untracked
    <2> QED
      BY <2>4, <2>5, <2>6, <2>7, <2>8
  <1>3. CASE ReadSiblings(r)
    <2>1. \A q \in Runs : q # r => run'[q] = run[q]
      BY <1>3 DEF ReadSiblings
    <2>2. /\ run'[r].pc = "next"
          /\ run[r].pc = "read"
          /\ run'[r].kind = run[r].kind
          /\ run'[r].got = run[r].got
          /\ run'[r].started = run[r].started
          /\ run'[r].sent = run[r].sent
      BY <1>3 DEF ReadSiblings
    <2>3. UNCHANGED <<status, track, hand, settle, ran>>
      BY <1>3 DEF ReadSiblings
    <2>4. ClaimsInOrder'
      BY <2>1, <2>2, <2>3
    <2>5. RunIsGuarded'
      BY <2>1, <2>2, <2>3
    <2>6. CountedRuns'
      BY <2>1, <2>2, <2>3
    <2>7. RunsAreCounted'
      BY <2>1, <2>2, <2>3
    <2>8. EventsAreReal'
      BY <2>1, <2>2, <2>3
    <2> QED
      BY <2>4, <2>5, <2>6, <2>7, <2>8
  <1>4. CASE Begin(r)
    <2>1. \A q \in Runs : q # r => run'[q] = run[q]
      BY <1>4 DEF Begin
    <2>2. /\ run'[r].pc = "next"
          /\ run[r].pc = "begin"
          /\ run'[r].kind = run[r].kind
          /\ run'[r].got = run[r].got
          /\ run'[r].started = run[r].started
          /\ run'[r].sent = run[r].sent
      BY <1>4 DEF Begin
    <2> QED
      BY SMTT(20), <1>4, <2>1, <2>2 DEF Begin, OpenRun, Untracked
  <1>5. CASE NextElement(r)
    <2>1. \A q \in Runs : q # r => run'[q] = run[q]
      BY <1>5 DEF NextElement
    <2>2. /\ run'[r].pc = "webhooks"
          /\ run[r].pc = "next"
          /\ run'[r].got = {}
          /\ run'[r].kind = run[r].kind
          /\ run'[r].started = run[r].started
          /\ run'[r].sent = run[r].sent
      BY <1>5 DEF NextElement
    <2>3. UNCHANGED <<status, track, hand, settle, ran>>
      BY <1>5 DEF NextElement
    <2>4. ClaimsInOrder'
      BY <2>1, <2>2, <2>3
    <2>5. RunIsGuarded'
      BY <2>1, <2>2, <2>3
    <2>6. CountedRuns'
      BY <2>1, <2>2, <2>3
    <2>7. RunsAreCounted'
      BY <2>1, <2>2, <2>3
    <2>8. EventsAreReal'
      BY <2>1, <2>2, <2>3
    <2> QED
      BY <2>4, <2>5, <2>6, <2>7, <2>8
  <1>6. CASE TriggerStarts(r)
    <2>1. \A q \in Runs : q # r => run'[q] = run[q]
      BY <1>6 DEF TriggerStarts
    <2>2. /\ run'[r].pc = "record"
          /\ run[r].pc \in {"webhooks", "stacks"}
          /\ ran' = ran \cup {run'[r].sent}
          /\ run'[r].kind = run[r].kind
          /\ run'[r].started = run[r].started
          /\ run'[r].got = run[r].got
      BY <1>6 DEF TriggerStarts
    <2>3. UNCHANGED <<status, track, hand, settle>>
      BY <1>6 DEF TriggerStarts
    <2> QED
      BY <2>1, <2>2, <2>3
  <1>7. CASE TriggerFails(r)
    <2>1. \A q \in Runs : q # r => run'[q] = run[q]
      BY <1>7 DEF TriggerFails, Unanswered
    <2>2. /\ run'[r].pc = run[r].pc
          /\ run[r].pc \in {"webhooks", "stacks"}
          /\ run'[r].kind = run[r].kind
          /\ run'[r].started = run[r].started
          /\ run'[r].got = run[r].got
          /\ run'[r].sent = run[r].sent
      BY <1>7 DEF TriggerFails, Unanswered
    <2>3. UNCHANGED <<status, track, hand, settle, ran>>
      BY <1>7 DEF TriggerFails
    <2> QED
      BY <2>1, <2>2, <2>3
  <1>8. CASE Record(r)
    <2>1. \A q \in Runs : q # r => run'[q] = run[q]
      BY <1>8 DEF Record, Recorded
    <2>2. /\ run'[r].pc \in {"webhooks", "stacks"}
          /\ run[r].pc = "record"
          /\ run'[r].got = run[r].got \cup {run[r].sent}
          /\ run'[r].kind = run[r].kind
          /\ run'[r].started = run[r].started
      BY <1>8 DEF Record, Recorded
    <2>3. track'.blocks = track.blocks /\ track'.ids = track.ids \cup {run[r].sent}
      BY <1>8 DEF Record, RecordId, Tracking
    <2>4. UNCHANGED <<status, hand, settle, ran>>
      BY <1>8 DEF Record
    <2>5. ClaimsInOrder'
      BY <2>1, <2>2, <2>3, <2>4
    <2>6. RunIsGuarded'
      BY <2>1, <2>2, <2>3, <2>4
    <2>7. CountedRuns'
      BY <2>1, <2>2, <2>3, <2>4
    <2>8. RunsAreCounted'
      BY <2>1, <2>2, <2>3, <2>4
    <2>9. EventsAreReal'
      BY <2>1, <2>2, <2>3, <2>4
    <2> QED
      BY <2>5, <2>6, <2>7, <2>8, <2>9
  <1>9. CASE LookupStacks(r)
    <2>1. \A q \in Runs : q # r => run'[q] = run[q]
      BY <1>9 DEF LookupStacks
    <2>2. /\ run'[r].pc = "stacks"
          /\ run[r].pc = "webhooks"
          /\ run'[r].kind = run[r].kind
          /\ run'[r].started = run[r].started
          /\ run'[r].got = run[r].got
          /\ run'[r].sent = run[r].sent
      BY <1>9 DEF LookupStacks
    <2> QED
      BY <1>9, <2>1, <2>2 DEF LookupStacks, OpenRun, Untracked
  <1>10. CASE EndElement(r)
    <2>1. \A q \in Runs : q # r => run'[q] = run[q]
      BY <1>10 DEF EndElement
    <2>2. /\ run'[r].pc = "next"
          /\ run[r].pc = "stacks"
          /\ run'[r].got = {}
          /\ run'[r].started = run[r].started \cup run[r].got
          /\ run'[r].kind = run[r].kind
          /\ run'[r].sent = run[r].sent
      BY <1>10 DEF EndElement
    <2>3. UNCHANGED <<status, track, hand, settle, ran>>
      BY <1>10 DEF EndElement
    <2> QED
      BY <2>1, <2>2, <2>3
  <1>11. CASE EndLoop(r)
    <2>1. \A q \in Runs : q # r => run'[q] = run[q]
      BY <1>11 DEF EndLoop, NothingStarted
    <2>2. /\ run'[r].pc = IF run[r].started = {}
                         THEN IF Provisions(r) THEN "undo" ELSE "release"
                         ELSE IF Provisions(r) THEN "close" ELSE "rewrite"
          /\ run[r].pc = "next"
          /\ run'[r].kind = run[r].kind
          /\ run'[r].got = run[r].got
          /\ run'[r].started = run[r].started
          /\ run'[r].sent = run[r].sent
      BY <1>11 DEF EndLoop, NothingStarted
    <2>3. UNCHANGED <<status, track, hand, settle, ran>>
      BY <1>11 DEF EndLoop
    <2>4. ClaimsInOrder'
      BY <2>1, <2>2, <2>3
    <2>5. RunIsGuarded'
      BY <2>1, <2>2, <2>3
    <2>6. CountedRuns'
      BY <2>1, <2>2, <2>3
    <2>7. RunsAreCounted'
      BY <2>1, <2>2, <2>3
    <2>8. EventsAreReal'
      BY <2>1, <2>2, <2>3
    <2> QED
      BY <2>4, <2>5, <2>6, <2>7, <2>8
  <1>12. CASE Rewrite(r)
    <2>0. PICK e \in run[r].todo :
            run' = [run EXCEPT
                     ![r].pc = IF run[r].todo = {e} THEN "close" ELSE "rewrite",
                     ![r].todo = @ \ {e}]
      BY <1>12 DEF Rewrite
    <2>1. \A q \in Runs : q # r => run'[q] = run[q]
      BY <1>12, <2>0 DEF Rewrite
    <2>2. /\ run'[r].pc \in {"close", "rewrite"}
          /\ run[r].pc = "rewrite"
          /\ run'[r].kind = run[r].kind
          /\ run'[r].got = run[r].got
          /\ run'[r].started = run[r].started
          /\ run'[r].sent = run[r].sent
      BY <1>12, <2>0 DEF Rewrite
    <2>3. UNCHANGED <<status, track, hand, settle, ran>>
      BY <1>12 DEF Rewrite
    <2>4. ClaimsInOrder'
      BY <2>1, <2>2, <2>3
    <2>5. RunIsGuarded'
      BY <2>1, <2>2, <2>3
    <2>6. CountedRuns'
      BY <2>1, <2>2, <2>3
    <2>7. RunsAreCounted'
      BY <2>1, <2>2, <2>3
    <2>8. EventsAreReal'
      BY <2>1, <2>2, <2>3
    <2> QED
      BY <2>4, <2>5, <2>6, <2>7, <2>8
  <1>13. CASE Close(r)
    <2>1. \A q \in Runs : q # r => run'[q] = run[q]
      BY <1>13 DEF Close, Goto
    <2>2. /\ run'[r].pc = "settling"
          /\ run[r].pc = "close"
          /\ run'[r].kind = run[r].kind
          /\ run'[r].got = run[r].got
          /\ run'[r].started = run[r].started
          /\ run'[r].sent = run[r].sent
      BY <1>13 DEF Close, Goto
    <2>3. track'.ids = track.ids \cup run[r].started
      BY <1>13 DEF Close, CloseRun, Tracking
    <2>4. \A x \in Requests : settle'[x].pc # "none"
            => \/ settle'[x] = settle[x]
               \/ track'.ids # {} /\ settle'[x].decided.blocks = {}
      BY <1>13 DEF Close, SettleFrom, IsSettled, NoSettle, TypeOK
    <2>5. ClaimsInOrder'
      BY <1>13, <2>1, <2>2, <2>3, <2>4 DEF Close, Goto, OpenRun, Untracked
    <2>6. RunIsGuarded'
      BY <1>13, <2>1, <2>2, <2>3, <2>4 DEF Close, Goto, OpenRun, Untracked
    <2>7. CountedRuns'
      BY <1>13, <2>1, <2>2, <2>3, <2>4 DEF Close, Goto, OpenRun, Untracked
    <2>8. RunsAreCounted'
      BY <1>13, <2>1, <2>2, <2>3, <2>4 DEF Close, Goto, OpenRun, Untracked
    <2>9. EventsAreReal'
      BY <1>13, <2>1, <2>2, <2>3, <2>4 DEF Close, Goto, OpenRun, Untracked
    <2> QED
      BY <2>5, <2>6, <2>7, <2>8, <2>9
  <1>14. CASE Undo(r)
    <2>1. \A q \in Runs : q # r => run'[q] = run[q]
      BY <1>14 DEF Undo, Goto
    <2>2. /\ run'[r].pc = "clear"
          /\ run[r].pc = "undo"
          /\ run'[r].kind = run[r].kind
          /\ run'[r].got = run[r].got
          /\ run'[r].started = run[r].started
          /\ run'[r].sent = run[r].sent
      BY <1>14 DEF Undo, Goto
    <2> QED
      BY <1>14, <2>1, <2>2 DEF Undo, Goto, OpenRun, Untracked
  <1>15. CASE Clear(r)
    <2>1. \A q \in Runs : q # r => run'[q] = run[q]
      BY <1>15 DEF Clear, Goto
    <2>2. /\ run'[r].pc = "release"
          /\ run[r].pc = "clear"
          /\ run'[r].kind = run[r].kind
          /\ run'[r].got = run[r].got
          /\ run'[r].started = run[r].started
          /\ run'[r].sent = run[r].sent
      BY <1>15 DEF Clear, Goto
    <2>3. ClaimsInOrder'
      BY <1>15, <2>1, <2>2 DEF Clear, Goto, OpenRun, Untracked
    <2>4. RunIsGuarded'
      BY <1>15, <2>1, <2>2 DEF Clear, Goto, OpenRun, Untracked
    <2>5. CountedRuns'
      BY <1>15, <2>1, <2>2 DEF Clear, Goto, OpenRun, Untracked
    <2>6. RunsAreCounted'
      BY <1>15, <2>1, <2>2 DEF Clear, Goto, OpenRun, Untracked
    <2>7. EventsAreReal'
      BY <1>15, <2>1, <2>2 DEF Clear, Goto, OpenRun, Untracked
    <2> QED
      BY <2>3, <2>4, <2>5, <2>6, <2>7
  <1>16. CASE Release(r)
    <2>1. \A q \in Runs : q # r => run'[q] = run[q]
      BY <1>16 DEF Release, Goto
    <2>2. /\ run'[r].pc = "done"
          /\ run[r].pc = "release"
          /\ run'[r].kind = run[r].kind
          /\ run'[r].got = run[r].got
          /\ run'[r].started = run[r].started
          /\ run'[r].sent = run[r].sent
      BY <1>16 DEF Release, Goto
    <2> QED
      BY <1>16, <2>1, <2>2 DEF Release, Goto, OpenRun, Untracked
  <1>17. CASE Return(r)
    <2>1. \A q \in Runs : q # r => run'[q] = run[q]
      BY <1>17 DEF Return, Goto
    <2>2. /\ run'[r].pc = "done"
          /\ run[r].pc = "settling"
          /\ run'[r].kind = run[r].kind
          /\ run'[r].got = run[r].got
          /\ run'[r].started = run[r].started
          /\ run'[r].sent = run[r].sent
      BY <1>17 DEF Return, Goto
    <2> QED
      BY <1>17, <2>1, <2>2 DEF Return, Goto, OpenRun, Untracked
  <1>18. CASE RecordLost(r)
    <2>1. \A q \in Runs : q # r => run'[q] = run[q]
      BY <1>18 DEF RecordLost, Recorded
    <2>2. /\ run'[r].pc \in {"webhooks", "stacks"}
          /\ run[r].pc = "record"
          /\ run'[r].got = run[r].got \cup {run[r].sent}
          /\ run'[r].kind = run[r].kind
          /\ run'[r].started = run[r].started
      BY <1>18 DEF RecordLost, Recorded
    <2>3. UNCHANGED <<status, track, hand, settle, ran>>
      BY <1>18 DEF RecordLost
    <2>4. ClaimsInOrder'
      BY <2>1, <2>2, <2>3
    <2>5. RunIsGuarded'
      BY <2>1, <2>2, <2>3
    <2>6. CountedRuns'
      BY <2>1, <2>2, <2>3
    <2>7. RunsAreCounted'
      BY <2>1, <2>2, <2>3
    <2>8. EventsAreReal'
      BY <2>1, <2>2, <2>3
    <2> QED
      BY <2>4, <2>5, <2>6, <2>7, <2>8
  <1>19. CASE Crash(r)
    <2>1. \A q \in Runs : q # r => run'[q] = run[q]
      BY <1>19 DEF Crash, InFlight, Goto
    <2>2. /\ run'[r].pc = "done"
          /\ run[r].pc \notin {"idle", "done"}
          /\ run'[r].kind = run[r].kind
          /\ run'[r].got = run[r].got
          /\ run'[r].started = run[r].started
          /\ run'[r].sent = run[r].sent
      BY <1>19 DEF Crash, InFlight, Goto
    <2>3. \A x \in Requests : settle'[x].pc # "none" => settle'[x] = settle[x]
      BY <1>19 DEF Crash, NoSettle, TypeOK
    <2>4. ClaimsInOrder'
      BY <1>19, <2>1, <2>2, <2>3 DEF Crash, InFlight, Goto, OpenRun, Untracked
    <2>5. RunIsGuarded'
      BY <1>19, <2>1, <2>2, <2>3 DEF Crash, InFlight, Goto, OpenRun, Untracked
    <2>6. CountedRuns'
      BY <1>19, <2>1, <2>2, <2>3 DEF Crash, InFlight, Goto, OpenRun, Untracked
    <2>7. RunsAreCounted'
      BY <1>19, <2>1, <2>2, <2>3 DEF Crash, InFlight, Goto, OpenRun, Untracked
    <2>8. EventsAreReal'
      BY <1>19, <2>1, <2>2, <2>3 DEF Crash, InFlight, Goto, OpenRun, Untracked
    <2> QED
      BY <2>4, <2>5, <2>6, <2>7, <2>8
  <1>20. ~LookupThrows(r) /\ ~QueryThrows(r) /\ ~AnswerLost(r)
    BY DEF LookupThrows, QueryThrows, AnswerLost, Fault, Orderly
  <1> QED
    BY <1>1, <1>2, <1>3, <1>4, <1>5, <1>6, <1>7, <1>8, <1>9, <1>10, <1>11,
       <1>12, <1>13, <1>14, <1>15, <1>16, <1>17, <1>18, <1>19, <1>20
       DEF RunStep, RunFault

(* A settlement that starts was decided on a map that blocks nothing.      *)
LEMMA SettleFromEffect ==
  ASSUME TypeOK, NEW x \in Requests, NEW t, SettleFrom(x, t)
  PROVE  \A y \in Requests : settle'[y].pc # "none"
           => \/ settle'[y] = settle[y]
              \/ t.ids # {} /\ settle'[y].decided.blocks = {}
  <1>1. CASE IsSettled(t)
    <2>1. [NoSettle EXCEPT !.pc = "read", !.decided = t].decided = t
      BY DEF NoSettle
    <2> QED
      BY <1>1, <2>1 DEF SettleFrom, IsSettled, TypeOK
  <1>2. CASE ~IsSettled(t)
    BY <1>2 DEF SettleFrom
  <1> QED
    BY <1>1, <1>2

(* The invariant is kept by every step of a callback, ...                  *)
LEMMA InvHandler ==
  ASSUME IInv, TypeOK', NEW h \in Handlers,
         \/ \E p \in Pipelines, s \in Reports : Receive(h, p, s)
         \/ HandlerStep(h)
         \/ HandlerFails(h)
  PROVE  IInv'
  <1>0. run \in [Runs -> RunRecord] /\ track \in Tracking(Pipelines)
    BY DEF IInv, TypeOK
  <1> USE <1>0 DEF IInv, ClaimsInOrder, OneClaim, ClaimedIsOpen, PendingIsQuiet,
           BeginIsQuiet, PcFitsKind, RunIsGuarded, CountedRuns, RunsAreCounted,
           EventsAreReal,
           GuardedPcs, Claimed, InFlight, Provisions, orderVars, rowVars
  <1>1. ASSUME NEW p \in Pipelines, NEW s \in Reports, Receive(h, p, s)
        PROVE  IInv'
    <2>1. UNCHANGED <<status, track, run, settle, ran>> /\ ran # {}
      BY <1>1 DEF Receive
    <2> QED
      BY <2>1
  <1>2. CASE HandleSuccess(h)
    <2>1. /\ UNCHANGED <<status, run, ran>>
          /\ track'.ids = track.ids /\ track'.blocks = track.blocks
      BY <1>2 DEF HandleSuccess, MergeSuccess, Tracking
    <2>2. \A k \in Handlers : hand'[k].pc = "merge" => hand[k].pc = "merge"
      BY <1>2 DEF HandleSuccess, NoHand, TypeOK
    <2>3. \A x \in Requests : settle'[x].pc # "none"
            => \/ settle'[x] = settle[x]
               \/ track'.ids # {} /\ settle'[x].decided.blocks = {}
      BY <1>2, SettleFromEffect DEF HandleSuccess, Requests
    <2> QED
      BY <2>1, <2>2, <2>3
  <1>3. CASE HandleFailure(h)
    <2>1. /\ UNCHANGED <<run, settle, ran>>
          /\ track'.ids = track.ids /\ track'.blocks = track.blocks
          /\ status' = status \/ status' = "failed"
          /\ ran # {}
      BY <1>3 DEF HandleFailure, MergeFailure, Tracking
    <2>2. \A k \in Handlers : hand'[k].pc = "merge" => hand[k].pc = "merge"
      BY <1>3 DEF HandleFailure, NoHand, TypeOK
    <2> QED
      BY <2>1, <2>2
  <1>4. CASE HandlerFails(h)
    <2>1. UNCHANGED <<status, track, run, ran>>
      BY <1>4 DEF HandlerFails
    <2>2. \A k \in Handlers : hand'[k].pc = "merge" => hand[k].pc = "merge"
      BY <1>4 DEF HandlerFails, NoHand, TypeOK
    <2>3. \A x \in Requests : settle'[x].pc # "none" => settle'[x] = settle[x]
      BY <1>4 DEF HandlerFails, NoSettle, TypeOK
    <2> QED
      BY <2>1, <2>2, <2>3
  <1> QED
    BY <1>1, <1>2, <1>3, <1>4 DEF HandlerStep

(* ... of a settlement, whose swap needs a map with nothing in it that     *)
(* blocks, which no run that is guarded has, ...                           *)
LEMMA InvSettle ==
  ASSUME IInv, TypeOK', NEW x \in Requests, SettleStep(x)
  PROVE  IInv'
  <1>0. run \in [Runs -> RunRecord] /\ settle \in [Requests -> SettleRecord]
    BY DEF IInv, TypeOK
  <1>1. /\ UNCHANGED <<track, run, hand, ran>>
        /\ \A y \in Requests : settle'[y].pc # "none"
             => settle[y].pc # "none" /\ settle'[y].decided = settle[y].decided
    <2>1. CASE SettleRead(x)
      BY <1>0, <2>1 DEF SettleRead, SettleRecord, orderVars, rowVars
    <2>2. CASE SettleWrite(x)
      BY <1>0, <2>2 DEF SettleWrite, SettleRecord, orderVars
    <2>3. CASE SettleSwap(x)
      BY <1>0, <2>3 DEF SettleSwap, SettleRecord, NoSettle, rowVars
    <2>4. CASE SettleAudit(x)
      BY <1>0, <2>4 DEF SettleAudit, SettleRecord, NoSettle, orderVars, rowVars
    <2> QED
      BY <2>1, <2>2, <2>3, <2>4 DEF SettleStep
  <1> USE <1>0 DEF IInv, ClaimsInOrder, OneClaim, ClaimedIsOpen, PendingIsQuiet,
           BeginIsQuiet, PcFitsKind, RunIsGuarded, CountedRuns, RunsAreCounted,
           EventsAreReal,
           GuardedPcs, Claimed, InFlight, Provisions, orderVars, rowVars
  <1>2. CASE status' = status
    BY <1>1, <1>2
  <1>3. CASE status' # status
    <2>1. /\ settle[x].pc = "swap" /\ SameStatus(track, settle[x].decided)
          /\ status' = "completed"
      BY <1>3 DEF SettleStep, SettleRead, SettleWrite, SettleSwap, SettleAudit
    <2>2. track.blocks = {} /\ ran # {}
      BY <2>1 DEF SameStatus
    <2>3. \A r \in Runs : ~Claimed(r)
      BY <2>2 DEF RunRecord, RunPc
    <2> QED
      BY <1>1, <2>1, <2>2, <2>3
  <1> QED
    BY <1>2, <1>3

(* ... and every step there is.                                            *)
LEMMA InvStep == Orderly /\ IInv /\ [Next]_vars => IInv'
  <1> SUFFICES ASSUME Orderly, IInv, [Next]_vars PROVE IInv'
    OBVIOUS
  <1>1. TypeOK'
    BY TypeStep DEF IInv
  <1>2. CASE MarkFailed
    BY <1>1, <1>2
       DEF MarkFailed, IInv, ClaimsInOrder, OneClaim, ClaimedIsOpen,
           PendingIsQuiet, BeginIsQuiet, PcFitsKind, RunIsGuarded, CountedRuns,
           RunsAreCounted, EventsAreReal, Claimed, InFlight, Provisions, rowVars
  <1>3. CASE UNCHANGED vars
    BY <1>1, <1>3
       DEF vars, orderVars, rowVars, IInv, ClaimsInOrder, OneClaim,
           ClaimedIsOpen, PendingIsQuiet, BeginIsQuiet, PcFitsKind,
           RunIsGuarded, CountedRuns, RunsAreCounted, EventsAreReal, Claimed,
           InFlight, Provisions
  <1> QED
    BY <1>1, <1>2, <1>3, InvRun, InvHandler, InvSettle DEF Next

(* The invariant holds initially: an order that waits has nothing at work, *)
(* an admin's order has the one request that inserted it.                  *)
LEMMA InvInit == Init => IInv
  <1> SUFFICES ASSUME Init PROVE IInv
    OBVIOUS
  <1>1. TypeOK
    BY TypeInit
  <1>2. \A r \in Runs :
          /\ run[r].got = {} /\ run[r].started = {}
          /\ \/ run[r].pc = "idle"
             \/ /\ r = 1 /\ status = "provisioning"
                /\ run[r].pc = "begin" /\ run[r].kind = "create"
    <2>1. /\ Idle.pc = "idle" /\ Idle.got = {} /\ Idle.started = {}
          /\ LET C == [Idle EXCEPT !.pc = "begin", !.kind = "create"]
             IN C.pc = "begin" /\ C.kind = "create" /\ C.got = {} /\ C.started = {}
      BY DEF Idle
    <2> QED
      BY <2>1 DEF Init
  <1>3. status = "pending" => \A r \in Runs : run[r].pc = "idle"
    BY DEF Init, Idle
  <1>4. /\ ran = {} /\ track.ids = {}
        /\ \A h \in Handlers : hand[h].pc = "idle"
        /\ \A x \in Requests : settle[x].pc = "none"
    BY DEF Init, Untracked, NoHand, NoSettle
  <1> QED
    BY <1>1, <1>2, <1>3, <1>4
       DEF IInv, ClaimsInOrder, OneClaim, ClaimedIsOpen, PendingIsQuiet,
       BeginIsQuiet, PcFitsKind, RunIsGuarded, CountedRuns, RunsAreCounted,
       EventsAreReal, GuardedPcs, Claimed, InFlight, Provisions

-----------------------------------------------------------------------------
(* The theorems.                                                           *)

(* The invariant holds of every order that is treated in an orderly way.   *)
THEOREM Invariant ==
  ASSUME Orderly
  PROVE  Spec => []IInv
  BY InvInit, InvStep, PTL DEF Spec

(* An order is never completed while a run is firing triggers for it: the  *)
(* triggering entry a run writes keeps every settlement out until the run  *)
(* closes (settle.ts, pipelineTracking.ts).                                *)
THEOREM FiringIsNeverCompleted ==
  ASSUME Orderly
  PROVE  Spec => []NoCompletionWhileFiring
  <1>1. IInv => NoCompletionWhileFiring
    BY DEF IInv, ClaimsInOrder, ClaimedIsOpen, NoCompletionWhileFiring, Firing
  <1> QED
    BY <1>1, Invariant, PTL

(* An order offered for approval has no pipeline running: what a run that  *)
(* gives its claim back counts as nothing started is nothing started       *)
(* (orders.ts, approvals.ts).                                              *)
THEOREM PendingIsFresh ==
  ASSUME Orderly
  PROVE  Spec => []PendingMeansNothingRan
  <1>1. IInv => PendingMeansNothingRan
    BY DEF IInv, ClaimsInOrder, PendingIsQuiet, PendingMeansNothingRan
  <1> QED
    BY <1>1, Invariant, PTL

-----------------------------------------------------------------------------
(* OrderRun implements OrderStatus, for any quantity, any triggers and any *)
(* number of runs and callbacks that are treated in an orderly way.        *)

SomeClaim == \E q \in Runs : Claimed(q)

(* The two ways in which a step shows nothing of itself: no claim changes  *)
(* hands, no pipeline starts, the status stays.                            *)
Hidden ==
  /\ status' = status
  /\ ran' = ran
  /\ SomeClaim' <=> SomeClaim

(* A hidden step is a stutter of the promise.                              *)
LEMMA HiddenStutters ==
  ASSUME Hidden
  PROVE  [Promise!OrderNext]_(Promise!statusVars)
  <1>1. SomeClaim' = SomeClaim
    BY DEF Hidden
  <1> QED
    BY <1>1 DEF Hidden, SomeClaim, Promise!statusVars

(* A step that leaves the claim of its run in place is hidden if status and *)
(* pipelines stay.                                                         *)
LEMMA ClaimStays ==
  ASSUME NEW r \in Runs, Claimed(r), status' = status, ran' = ran,
         run'[r].pc \notin {"idle", "done", "settling"}
  PROVE  Hidden
  <1>1. SomeClaim /\ SomeClaim'
    BY DEF SomeClaim, Claimed, InFlight
  <1> QED
    BY <1>1 DEF Hidden

(* Inside a run, between its claim and its end, only a pipeline that       *)
(* starts can be seen.                                                     *)
LEMMA RunHides ==
  ASSUME IInv, NEW r \in Runs,
         \/ ReadSiblings(r) \/ Begin(r) \/ NextElement(r) \/ TriggerFails(r)
         \/ Record(r) \/ RecordLost(r) \/ LookupStacks(r) \/ EndElement(r)
         \/ EndLoop(r) \/ Rewrite(r) \/ Undo(r) \/ Clear(r)
  PROVE  Hidden
  <1>0. run \in [Runs -> RunRecord] /\ run[r] \in RunRecord
    BY DEF IInv, TypeOK
  <1> USE <1>0 DEF RunRecord
  <1>1. status' = status /\ ran' = ran
    BY DEF ReadSiblings, Begin, NextElement, TriggerFails, Record, RecordLost,
       LookupStacks, EndElement, EndLoop, Rewrite, Undo, Clear, orderVars
  <1>2. Claimed(r)
    BY DEF Claimed, InFlight, ReadSiblings, Begin, NextElement, TriggerFails,
       Record, RecordLost, LookupStacks, EndElement, EndLoop, Rewrite, Undo,
       Clear
  <1>3. run'[r].pc \notin {"idle", "done", "settling"}
    <2>1. CASE ReadSiblings(r)
      BY <2>1 DEF ReadSiblings
    <2>2. CASE Begin(r)
      BY <2>2 DEF Begin
    <2>3. CASE NextElement(r)
      <3>1. PICK e \in run[r].todo :
              run' = [run EXCEPT ![r].pc = "webhooks", ![r].todo = @ \ {e},
                                 ![r].cur = e, ![r].left = Webhooks,
                                 ![r].got = {}]
        BY <2>3 DEF NextElement
      <3> QED
        BY <3>1
    <2>4. CASE TriggerFails(r)
      BY <2>4 DEF TriggerFails, Unanswered
    <2>5. CASE Record(r) \/ RecordLost(r)
      BY <2>5 DEF Record, RecordLost, Recorded
    <2>6. CASE LookupStacks(r)
      BY <2>6 DEF LookupStacks
    <2>7. CASE EndElement(r)
      BY <2>7 DEF EndElement
    <2>8. CASE EndLoop(r)
      BY <2>8 DEF EndLoop
    <2>9. CASE Rewrite(r)
      <3>1. PICK e \in run[r].todo :
              run' = [run EXCEPT
                        ![r].pc = IF run[r].todo = {e} THEN "close"
                                                       ELSE "rewrite",
                        ![r].todo = @ \ {e}]
        BY <2>9 DEF Rewrite
      <3> QED
        BY <3>1
    <2>10. CASE Undo(r) \/ Clear(r)
      BY <2>10 DEF Undo, Clear, Goto
    <2> QED
      BY <2>1, <2>2, <2>3, <2>4, <2>5, <2>6, <2>7, <2>8, <2>9, <2>10
  <1> QED
    BY <1>1, <1>2, <1>3, ClaimStays

(* Every step of a run is one the promise allows.                          *)
LEMMA RunKeeps ==
  ASSUME IInv, Orderly, NEW r \in Runs,
         Approve(r) \/ Retry(r) \/ RunStep(r) \/ RunFault(r)
  PROVE  [Promise!OrderNext]_(Promise!statusVars)
  <1>0. run \in [Runs -> RunRecord] /\ run[r] \in RunRecord
    BY DEF IInv, TypeOK
  <1> USE <1>0 DEF RunRecord
  <1>1. CASE Approve(r) \/ Retry(r)
    <2>1. /\ status \in {"pending", "failed"}
          /\ status' = "provisioning"
          /\ ran' = ran
          /\ ~SomeClaim
      BY <1>1 DEF Approve, Retry, SomeClaim, IInv, ClaimsInOrder,
         PendingIsQuiet, Orderly
    <2>2. SomeClaim'
      <3>1. run'[r].pc \in {"begin", "read"}
        BY <1>1 DEF Approve, Retry
      <3> QED
        BY <3>1 DEF SomeClaim, Claimed, InFlight
    <2>3. SomeClaim' = TRUE
      BY <2>2
    <2> QED
      BY <2>1, <2>3 DEF SomeClaim, Promise!OrderNext, Promise!Claim
  <1>2. CASE TriggerStarts(r)
    <2>1. /\ status' = status
          /\ ran' # {}
          /\ SomeClaim /\ SomeClaim'
      BY <1>2 DEF TriggerStarts, SomeClaim, Claimed, InFlight, orderVars
    <2>2. (ran # {})' = TRUE /\ SomeClaim' = SomeClaim
      BY <2>1
    <2> QED
      BY <2>1, <2>2 DEF SomeClaim, Promise!OrderNext, Promise!Fire
  <1>3. ASSUME Claimed(r), \A q \in Runs \ {r} : run'[q] = run[q],
               run'[r].pc \in {"settling", "done"}
        PROVE  SomeClaim /\ SomeClaim' = FALSE
    BY <1>3 DEF SomeClaim, Claimed, InFlight, IInv, ClaimsInOrder, OneClaim
  <1>4. CASE Close(r) \/ (Crash(r) /\ Claimed(r))
    <2>1. SomeClaim /\ SomeClaim' = FALSE
      <3>1. /\ Claimed(r)
            /\ run'[r].pc \in {"settling", "done"}
            /\ \A q \in Runs \ {r} : run'[q] = run[q]
        BY <1>4 DEF Close, Crash, Goto, Claimed, InFlight
      <3> QED
        BY <1>3, <3>1
    <2>2. status' = status /\ ran' = ran
      BY <1>4 DEF Close, Crash, orderVars
    <2> QED
      BY <2>1, <2>2 DEF SomeClaim, Promise!OrderNext, Promise!HandOver
  <1>5. CASE Return(r) \/ (Crash(r) /\ ~Claimed(r))
    <2>1. /\ run[r].pc = "settling" /\ run'[r].pc = "done"
          /\ \A q \in Runs \ {r} : run'[q] = run[q]
      BY <1>5 DEF Return, Crash, Claimed, Goto
    <2>2. SomeClaim' <=> SomeClaim
      BY <2>1 DEF SomeClaim, Claimed, InFlight
    <2>3. Hidden
      BY <1>5, <2>2 DEF Hidden, Return, Crash, orderVars
    <2> QED
      BY <2>3, HiddenStutters
  <1>6. CASE Release(r)
    <2>1. SomeClaim /\ SomeClaim' = FALSE
      BY <1>3, <1>6 DEF Release, Goto, Claimed, InFlight
    <2>2. ran' = ran
      BY <1>6 DEF Release
    <2>3. CASE status' = status
      BY <2>1, <2>2, <2>3 DEF SomeClaim, Promise!OrderNext, Promise!HandOver
    <2>4. CASE status' # status
      <3>1. status' = "failed" \/ (status' = "pending" /\ ran = {})
        BY <1>6, <2>4 DEF Release, IInv, RunsAreCounted, Provisions
      <3> QED
        BY <2>1, <2>2, <3>1
           DEF SomeClaim, Promise!OrderNext, Promise!GiveBack
    <2> QED
      BY <2>3, <2>4
  <1>7. ~LookupThrows(r) /\ ~QueryThrows(r) /\ ~AnswerLost(r)
    BY DEF LookupThrows, QueryThrows, AnswerLost, Fault, Orderly
  <1> QED
    BY <1>1, <1>2, <1>4, <1>5, <1>6, <1>7, RunHides, HiddenStutters
       DEF RunStep, RunFault

(* Of a callback only the failure it merges can be seen.                   *)
LEMMA HandlerKeeps ==
  ASSUME IInv, NEW h \in Handlers,
         \/ \E p \in Pipelines, s \in Reports : Receive(h, p, s)
         \/ HandlerStep(h)
         \/ HandlerFails(h)
  PROVE  [Promise!OrderNext]_(Promise!statusVars)
  <1>1. /\ ran' = ran /\ run' = run
        /\ \/ status' = status
           \/ status = "provisioning" /\ status' = "failed"
    BY DEF Receive, HandlerStep, HandleSuccess, HandleFailure, HandlerFails,
       Failable, orderVars
  <1>2. SomeClaim' = SomeClaim
    BY <1>1 DEF SomeClaim, Claimed, InFlight
  <1> QED
    BY <1>1, <1>2 DEF SomeClaim, Promise!OrderNext, Promise!Fail,
       Promise!statusVars

(* A settlement completes only what nobody claims and something was fired  *)
(* for.                                                                    *)
LEMMA SettleKeeps ==
  ASSUME IInv, NEW x \in Requests, SettleStep(x)
  PROVE  [Promise!OrderNext]_(Promise!statusVars)
  <1>1. /\ ran' = ran /\ run' = run
        /\ \/ status' = status
           \/ /\ settle[x].pc = "swap" /\ SameStatus(track, settle[x].decided)
              /\ status \in {"provisioning", "failed"} /\ status' = "completed"
    BY DEF SettleStep, SettleRead, SettleWrite, SettleSwap, SettleAudit,
       orderVars
  <1>2. SomeClaim' = SomeClaim
    BY <1>1 DEF SomeClaim, Claimed, InFlight
  <1>3. CASE status' = status
    BY <1>1, <1>2, <1>3 DEF SomeClaim, Promise!statusVars
  <1>4. CASE status' # status
    <2>1. track.blocks = {} /\ ran # {}
      BY <1>1, <1>4 DEF SameStatus, IInv, EventsAreReal
    <2>2. \A r \in Runs : run[r].pc # "begin"
      BY <2>1 DEF IInv, ClaimsInOrder, BeginIsQuiet
    <2>3. \A r \in Runs : ~(run[r].pc = "release" /\ Provisions(r))
      BY <2>1 DEF IInv, RunsAreCounted
    <2>4. run \in [Runs -> RunRecord]
      BY DEF IInv, TypeOK
    <2>5. ~SomeClaim
      BY <2>1, <2>2, <2>3, <2>4 DEF SomeClaim, Claimed, InFlight, RunRecord,
         RunPc, IInv, RunIsGuarded, GuardedPcs
    <2> QED
      BY <1>1, <1>2, <1>4, <2>1, <2>5
         DEF SomeClaim, Promise!OrderNext, Promise!Complete
  <1> QED
    BY <1>3, <1>4

(* Every step is one the promise allows.                                   *)
LEMMA StepKeeps ==
  Orderly /\ IInv /\ [Next]_vars => [Promise!OrderNext]_(Promise!statusVars)
  <1> SUFFICES ASSUME Orderly, IInv, [Next]_vars
               PROVE  [Promise!OrderNext]_(Promise!statusVars)
    OBVIOUS
  <1>1. CASE MarkFailed
    <2>1. /\ status = "provisioning" /\ status' = "failed"
          /\ ran' = ran /\ run' = run
      BY <1>1 DEF MarkFailed
    <2>2. SomeClaim' = SomeClaim
      BY <2>1 DEF SomeClaim, Claimed, InFlight
    <2> QED
      BY <2>1, <2>2 DEF SomeClaim, Promise!OrderNext, Promise!Fail
  <1>2. CASE UNCHANGED vars
    <2>1. Hidden
      BY <1>2 DEF Hidden, vars, orderVars, SomeClaim, Claimed, InFlight
    <2> QED
      BY <2>1, HiddenStutters
  <1> QED
    BY <1>1, <1>2, RunKeeps, HandlerKeeps, SettleKeeps DEF Next

(* What an order's status says to its readers is kept by the runs, the     *)
(* callbacks and the settlements behind it: one claim at a time, no        *)
(* completion under a claim, completed for good, offered for approval      *)
(* again only if nothing was fired.                                        *)
THEOREM PromiseIsKept ==
  ASSUME Orderly
  PROVE  Spec => KeepsPromise
  <1>1. Init => Promise!OrderInit
    <2> SUFFICES ASSUME Init PROVE Promise!OrderInit
      OBVIOUS
    <2>1. (ran # {}) = FALSE
      BY DEF Init
    <2>2. CASE status = "pending"
      <3>1. SomeClaim = FALSE
        BY <2>2 DEF Init, SomeClaim, Claimed, InFlight, Idle
      <3> QED
        BY <2>1, <2>2, <3>1 DEF SomeClaim, Promise!OrderInit
    <2>3. CASE status # "pending"
      <3>1. status = "provisioning" /\ run[1].pc = "begin" /\ 1 \in Runs
        <4> DEFINE first == [Idle EXCEPT !.pc = "begin", !.kind = "create"]
        <4>1. first.pc = "begin"
          BY DEF Idle
        <4>2. 1 \in Runs
          BY OrderRunAssumption DEF Runs
        <4>3. status = "provisioning"
              /\ run = [r \in Runs |-> IF r = 1 THEN first ELSE Idle]
          BY <2>3 DEF Init
        <4> QED
          BY <4>1, <4>2, <4>3
      <3>2. SomeClaim = TRUE
        BY <3>1 DEF SomeClaim, Claimed, InFlight
      <3> QED
        BY <2>1, <3>1, <3>2 DEF SomeClaim, Promise!OrderInit
    <2> QED
      BY <2>2, <2>3
  <1> QED
    BY <1>1, StepKeeps, Invariant, PTL DEF Spec, KeepsPromise, Promise!OrderSpec

(* A completed order stays completed: no late release, stale event or      *)
(* write-off takes it back, for the only steps that move a status need a   *)
(* claim, or an order that is not completed (orders.ts, handler.ts).       *)
THEOREM CompletedStays ==
  ASSUME Orderly
  PROVE  Spec => CompletedIsFinal
  <1>1. IInv /\ [Next]_vars
          => [status = "completed" => status' = "completed"]_vars
    <2> SUFFICES ASSUME IInv, [Next]_vars, status = "completed"
                 PROVE  status' = "completed"
      OBVIOUS
    <2>1. \A q \in Runs : ~Claimed(q)
      BY DEF IInv, ClaimsInOrder, ClaimedIsOpen
    <2> QED
      BY <2>1, StepKeeps DEF Promise!OrderNext, Promise!Claim, Promise!Fire,
         Promise!HandOver, Promise!GiveBack, Promise!Fail, Promise!Reject,
         Promise!Complete, Promise!statusVars
  <1> QED
    BY <1>1, Invariant, PTL DEF Spec, CompletedIsFinal

-----------------------------------------------------------------------------
(* What a completed order stands for: the whole newest run.  A second      *)
(* invariant, which stands on its own, for orders on which Retry finds no  *)
(* run and no settlement still at work; callbacks it may find.  Statements *)
(* may throw, and trigger calls fail after their pipeline has started:     *)
(* what a run has fired is not what is counted on here, as it is above,    *)
(* but what the order has been told.  A lookup may throw where nothing has *)
(* been fired for the element by then.                                     *)

Unhurried ==
  /\ Overlaps \subseteq {"event"}
  /\ "lookup" \in Faults => Webhooks = {}

(* Holding the claim in earnest.  The release of an order on which its     *)
(* build threw is left out: it may come after the run has closed.          *)
Building(r) == Firing(r) \/ (run[r].pc = "release" /\ ~Provisions(r))

BuildingIsOpen ==
  \A r \in Runs :
    Building(r) => /\ status \in {"provisioning", "failed"}
                   /\ run[r].pc # "begin" => Triggering \in track.blocks

(* No pipeline can report on the order, and no report is on its way.       *)
Unheard == track.ids = {} /\ \A h \in Handlers : hand[h].pc = "idle"

(* An order that may be approved is such, and stays so for the run that    *)
(* takes it until that one has recorded something.                         *)
UnheardAtFirst ==
  /\ status = "pending" => Unheard /\ \A r \in Runs : ~Claimed(r)
  /\ \A r \in Runs :
       /\ run[r].pc = "begin" => status = "provisioning" /\ Provisions(r)
       /\ run[r].pc \in {"begin", "undo", "clear"} => track.ids = {}
       /\ Provisions(r) /\ Claimed(r) /\ track.ids = {} => Unheard

AtElement == {"webhooks", "stacks", "record"}

(* What the order waits for during a first run is what that run knows.     *)
ListsItsOwn(r) ==
  Provisions(r) =>
    /\ run[r].pc = "next" => track.ids \subseteq run[r].started
    /\ run[r].pc \in AtElement => track.ids \subseteq run[r].started \cup run[r].got

ClaimInv ==
  /\ OneClaim
  /\ PcFitsKind
  /\ BuildingIsOpen
  /\ UnheardAtFirst
  /\ \A r \in Runs : ListsItsOwn(r)

(* The newest run is the only one that may hold the claim.                 *)
RunsInTurn ==
  \A q, r \in Runs :
    q < r /\ (run[q].pc = "idle" \/ Claimed(q)) => run[r].pc = "idle"

FiresWebhooks(r) ==
  run[r].pc = "webhooks" \/ (run[r].pc = "record" /\ run[r].sent[3] \in Webhooks)

(* A run's elements are rows it inserted itself, unless it is a retry.     *)
WorksOnItsElements(r) ==
  /\ run[r].pc \in AtElement \cup {"next", "rewrite", "close"}
       => /\ run[r].todo \subseteq run[r].elems
          /\ Provisions(r) => \A e \in run[r].elems : e[1] = r
  /\ run[r].pc \in AtElement
       => /\ run[r].cur \in run[r].elems
          /\ run[r].left \subseteq IF FiresWebhooks(r) THEN Webhooks ELSE Stacks
          /\ FiresWebhooks(r) => \A p \in run[r].got : p[3] \in Webhooks

(* Unless a trigger failed, each trigger of each element gone through has  *)
(* been started, and of the current one those not left to fire.            *)
FullyFired(r, e) == \A t \in Triggers : <<r, e, t>> \in run[r].started

FiredOrLeft(r, T) ==
  \A t \in T :
    \/ t \in run[r].left
    \/ <<r, run[r].cur, t>> \in run[r].got
    \/ run[r].pc = "record" /\ run[r].sent = <<r, run[r].cur, t>>

SkipsNothing(r) ==
  /\ run[r].pc = "next"
       => \A e \in run[r].elems \ run[r].todo : FullyFired(r, e)
  /\ run[r].pc \in AtElement
       => /\ \A e \in run[r].elems \ (run[r].todo \cup {run[r].cur}) : FullyFired(r, e)
          /\ FiredOrLeft(r, IF FiresWebhooks(r) THEN Webhooks ELSE Triggers)
  /\ run[r].pc \in {"rewrite", "close"} => \A e \in run[r].elems : FullyFired(r, e)

(* A run knows every pipeline it has started and had an answer of, until   *)
(* it closes, ...                                                          *)
Own(r) == {p \in ran : p[1] = r}

KnowsItsOwn(r) ==
  /\ run[r].pc \in {"idle", "begin", "read"} => Own(r) = {}
  /\ run[r].pc \in {"next", "rewrite", "close"} => Own(r) \subseteq run[r].started
  /\ run[r].pc \in {"webhooks", "stacks"}
       => Own(r) \subseteq run[r].started \cup run[r].got
  /\ run[r].pc = "record"
       => Own(r) \subseteq run[r].started \cup run[r].got \cup {run[r].sent}

RunFacts(r) ==
  /\ WorksOnItsElements(r)
  /\ ~run[r].failures => SkipsNothing(r)
  /\ "answer" \notin Faults => KnowsItsOwn(r)

(* ... and once it is over the order waits for nothing, is blocked, or     *)
(* waits for every trigger of every element of that run.                   *)
WaitsForAll ==
  \A r \in Runs :
    Newest(r) /\ run[r].pc \in {"settling", "release", "done"}
      => \/ track.blocks # {}
         \/ track.ids = {}
         \/ \A e \in run[r].elems, t \in Triggers : <<r, e, t>> \in track.ids

(* Nothing but reports reaches an order that is being settled.             *)
SettlesTheNewest ==
  \A x \in Requests : settle[x].pc # "none" =>
    /\ \A r \in Runs : ~Building(r)
    /\ x \in Runs => Newest(x)
    /\ IsSettled(settle[x].decided)
    /\ settle[x].decided.ids = track.ids
    /\ settle[x].pc \in {"write", "swap"}
         => \A e \in Rows : settle[x].ids[e] \subseteq rowIds[e]

(* Outputs come from the element's own pipelines, and there are none while *)
(* its first run may still name those.                                     *)
OutputsAreOwn ==
  /\ \A e \in Rows : outputs[e] \subseteq rowIds[e]
  /\ \A e \in rows : run[e[1]].pc # "idle"
  /\ \A r \in Runs :
       run[r].pc = "idle" \/ (Provisions(r) /\ Firing(r))
         => \A e \in Rows : e[1] = r => outputs[e] = {}

OrderFacts ==
  /\ WaitsForAll
  /\ SettlesTheNewest
  /\ OutputsAreOwn
  /\ CompletedMeansWholeRun
  /\ "answer" \notin Faults => NothingStartedIsForgotten

WholeInv ==
  /\ TypeOK
  /\ ClaimInv
  /\ RunsInTurn
  /\ \A r \in Runs : RunFacts(r)
  /\ OrderFacts

(* A run that holds the claim is the newest and the only one that does,    *)
(* nothing is being settled while it builds, and the order is not          *)
(* completed.                                                              *)
LEMMA ClaimIsAlone ==
  ASSUME WholeInv, NEW r \in Runs, Claimed(r)
  PROVE  /\ \A q \in Runs : q # r => ~Claimed(q)
         /\ \A q \in Runs : q > r => run[q].pc = "idle"
         /\ \A q \in Runs : q < r => run[q].pc # "idle"
         /\ Building(r) => \A x \in Requests : settle[x].pc = "none"
         /\ Building(r) => status # "completed"
         /\ status # "pending"
  <1>1. run[r].pc # "idle"
    BY DEF Claimed, InFlight
  <1>2. \A q \in Runs : q \in Nat
    BY DEF Runs
  <1> QED
    BY <1>1, <1>2
       DEF WholeInv, ClaimInv, OneClaim, BuildingIsOpen, UnheardAtFirst, RunsInTurn,
           OrderFacts, SettlesTheNewest

(* Who builds holds the claim.                                             *)
LEMMA BuildingIsClaiming ==
  ASSUME NEW r \in Runs
  PROVE  Building(r) => Claimed(r)
  BY DEF Building, Firing, Claimed, InFlight

(* What a step of the run that holds the claim must keep, for the claims   *)
(* to stay in order.                                                       *)
LEMMA ClaimedStep ==
  ASSUME WholeInv, NEW r \in Runs, Claimed(r),
         \A q \in Runs : q # r => run'[q] = run[q],
         run'[r].kind = run[r].kind,
         run'[r].pc \notin {"idle", "begin", "read"},
         hand' = hand,
         status' = status \/ (~Claimed(r)' /\ status' # "pending")
           \/ (~Claimed(r)' /\ track.ids = {} /\ track' = track /\ Provisions(r)),
         Building(r)' => Building(r) /\ status' = status /\ Triggering \in track'.blocks,
         run'[r].pc \in {"undo", "clear"} => Provisions(r) /\ track'.ids = {},
         Provisions(r) /\ Claimed(r)' /\ track'.ids = {} => track.ids = {},
         ListsItsOwn(r)'
  PROVE  ClaimInv'
  <1>1. /\ \A q \in Runs : q # r => ~Claimed(q)
        /\ \A q \in Runs : q # r => ~Claimed(q)'
        /\ status # "pending"
    BY ClaimIsAlone DEF Claimed, InFlight
  <1>2. /\ ClaimInv
        /\ \A q \in Runs : q # r => run'[q].pc \in {"idle", "settling", "done"}
    BY <1>1 DEF WholeInv, Claimed, InFlight
  <1>3. \A q \in Runs : Building(q)' => q = r
    BY <1>2 DEF Building, Firing, Claimed, InFlight
  <1>4. OneClaim'
    BY <1>1 DEF OneClaim
  <1>5. PcFitsKind'
    BY <1>2 DEF PcFitsKind, Provisions
  <1>6. BuildingIsOpen'
    BY <1>2, <1>3 DEF BuildingIsOpen, ClaimInv
  <1>7. UnheardAtFirst'
    <2>1. ASSUME status' = "pending" PROVE Unheard' /\ \A q \in Runs : ~Claimed(q)'
      BY <1>1, <1>2, <2>1 DEF ClaimInv, UnheardAtFirst, Unheard
    <2>2. ASSUME Provisions(r)', Claimed(r)', track'.ids = {} PROVE Unheard'
      BY <1>2, <2>2 DEF ClaimInv, UnheardAtFirst, Unheard, Provisions
    <2> QED
      BY <1>1, <1>2, <2>1, <2>2 DEF UnheardAtFirst
  <1>8. \A q \in Runs : ListsItsOwn(q)'
    BY <1>2 DEF ListsItsOwn, AtElement
  <1> QED
    BY <1>4, <1>5, <1>6, <1>7, <1>8 DEF ClaimInv

(* A run that does not hold the claim ends, or comes to release an order   *)
(* that is not unheard of, and nobody else is building.                    *)
LEMMA UnclaimedStep ==
  ASSUME WholeInv, NEW r \in Runs, run[r].pc = "settling",
         \A q \in Runs : q # r => run'[q] = run[q],
         run'[r].kind = run[r].kind, UNCHANGED <<track, status, hand>>,
         \/ run'[r].pc = "done"
         \/ /\ run'[r].pc = "release" /\ Provisions(r)
            /\ track.ids # {} /\ \A q \in Runs : ~Claimed(q)
  PROVE  ClaimInv'
  <1>1. ClaimInv /\ ~Building(r) /\ ~Claimed(r)
    BY DEF WholeInv, Building, Firing, Claimed, InFlight
  <1>2. \A q \in Runs : Building(q)' => q # r /\ Building(q)
    BY DEF Building, Firing, Claimed, InFlight, Provisions
  <1>3. \A q \in Runs :
          Claimed(q)' => (q # r /\ Claimed(q)) \/ (q = r /\ run'[r].pc = "release")
    BY DEF Claimed, InFlight
  <1>4. OneClaim'
    BY <1>1, <1>3 DEF ClaimInv, OneClaim
  <1>5. PcFitsKind'
    BY <1>1 DEF ClaimInv, PcFitsKind, Provisions
  <1>6. BuildingIsOpen'
    BY <1>1, <1>2 DEF BuildingIsOpen, ClaimInv
  <1>7. UnheardAtFirst'
    <2>1. status # "pending" \/ run'[r].pc = "done"
      BY <1>1 DEF ClaimInv, UnheardAtFirst, Unheard
    <2>2. \A q \in Runs : Provisions(q)' <=> Provisions(q)
      BY DEF Provisions
    <2> QED
      BY <1>1, <1>3, <2>1, <2>2 DEF ClaimInv, UnheardAtFirst, Unheard
  <1>8. \A q \in Runs : ListsItsOwn(q)'
    BY <1>1 DEF ClaimInv, ListsItsOwn, AtElement, Provisions
  <1> QED
    BY <1>4, <1>5, <1>6, <1>7, <1>8 DEF ClaimInv

(* A claim is taken on an order that nobody holds.                         *)
LEMMA NewClaim ==
  ASSUME WholeInv, TypeOK', NEW r \in Runs,
         \A q \in Runs : ~Claimed(q),
         \A q \in Runs : q # r => run'[q] = run[q],
         status' = "provisioning", hand' = hand,
         \/ run'[r].pc = "begin" /\ Provisions(r)' /\ Unheard /\ track' = track
         \/ run'[r].pc = "read" /\ ~Provisions(r)' /\ Triggering \in track'.blocks
  PROVE  ClaimInv'
  <1>1. \A q \in Runs : Claimed(q)' => q = r
    BY DEF Claimed, InFlight
  <1>2. \A q \in Runs : Building(q)' => q = r
    BY <1>1 DEF Building, Firing, Claimed, InFlight
  <1>3. \A q \in Runs : q # r => run'[q].pc \in {"idle", "settling", "done"}
    BY DEF Claimed, InFlight
  <1>4. OneClaim' /\ PcFitsKind'
    BY <1>1, <1>3 DEF OneClaim, PcFitsKind
  <1>5. BuildingIsOpen'
    BY <1>2 DEF BuildingIsOpen
  <1>6. UnheardAtFirst'
    BY <1>1, <1>3 DEF UnheardAtFirst, Unheard
  <1>7. \A q \in Runs : ListsItsOwn(q)'
    BY <1>3 DEF ListsItsOwn, AtElement
  <1> QED
    BY <1>4, <1>5, <1>6, <1>7 DEF ClaimInv

(* The claims stay in order in every step of a run.                        *)
LEMMA ClaimRun ==
  ASSUME WholeInv, TypeOK', Unhurried, NEW r \in Runs,
         Approve(r) \/ Retry(r) \/ RunStep(r) \/ RunFault(r)
  PROVE  ClaimInv'
  <1>0. /\ run[r] \in RunRecord /\ run \in [Runs -> RunRecord]
        /\ track \in Tracking(Pipelines)
        /\ ClaimInv
        /\ RunFacts(r)
    BY DEF WholeInv, TypeOK
  <1>b. Building(r) /\ run[r].pc # "begin" => Triggering \in track.blocks
    BY <1>0 DEF ClaimInv, BuildingIsOpen
  <1>l. ListsItsOwn(r)
    BY <1>0 DEF ClaimInv
  <1> DEFINE Others == \A q \in Runs : q # r => run'[q] = run[q]
             Same == Others /\ run'[r].kind = run[r].kind /\ hand' = hand
  <1>1. CASE Approve(r)
    <2>1. Unheard /\ \A q \in Runs : ~Claimed(q)
      BY <1>0, <1>1 DEF Approve, ClaimInv, UnheardAtFirst
    <2>2. /\ run'[r].pc = "begin" /\ Provisions(r)' /\ Others
          /\ status' = "provisioning" /\ UNCHANGED <<track, hand>>
      BY <1>0, <1>1 DEF Approve, Provisions, RunRecord
    <2> QED
      BY <2>1, <2>2, NewClaim
  <1>2. CASE Retry(r)
    <2>1. \A q \in Runs : ~Claimed(q)
      BY <1>2 DEF Retry, Unhurried
    <2>2. PICK e \in rows :
            run' = [run EXCEPT ![r].pc = "read", ![r].kind = "retry", ![r].cur = e]
      BY <1>2 DEF Retry
    <2>3. /\ run'[r].pc = "read" /\ ~Provisions(r)' /\ Others
          /\ status' = "provisioning" /\ hand' = hand /\ Triggering \in track'.blocks
      BY <1>0, <1>2, <2>2 DEF Retry, Provisions, RunRecord, OpenRun, Untracked
    <2> QED
      BY <2>1, <2>3, NewClaim
  <1> USE DEF RunRecord, Provisions
  <1>3. ASSUME Firing(r), run[r].pc # "begin", Same, UNCHANGED <<status, track>>,
               \/ run'[r].pc \in {"next", "webhooks", "stacks", "record", "rewrite",
                                 "close", "done"}
               \/ run'[r].pc = "release"
               \/ run'[r].pc \in {"undo", "clear"} /\ Provisions(r) /\ track.ids = {},
               ListsItsOwn(r)'
        PROVE  ClaimInv'
    BY <1>3, <1>b, ClaimedStep DEF Building, Firing, Claimed, InFlight
  <1>4. CASE ReadSiblings(r)
    <2>1. ~Provisions(r)
      BY <1>0, <1>4 DEF ReadSiblings, ClaimInv, PcFitsKind
    <2>2. /\ run[r].pc = "read" /\ run'[r].pc = "next" /\ Same
          /\ UNCHANGED <<status, track>>
      BY <1>0, <1>4 DEF ReadSiblings, orderVars
    <2> QED
      BY <1>3, <2>1, <2>2 DEF Firing, Claimed, InFlight, ListsItsOwn
  <1>5. CASE Begin(r)
    <2>1. track.ids = {} /\ status = "provisioning"
      BY <1>0, <1>5 DEF Begin, ClaimInv, UnheardAtFirst
    <2>2. /\ run[r].pc = "begin" /\ run'[r].pc = "next" /\ Same
          /\ status' = status /\ track' = OpenRun
      BY <1>0, <1>5, <2>1 DEF Begin
    <2>3. track'.ids = {} /\ Triggering \in track'.blocks
      BY <2>2 DEF OpenRun, Untracked
    <2> QED
      BY <2>1, <2>2, <2>3, ClaimedStep
         DEF Building, Firing, Claimed, InFlight, ListsItsOwn, AtElement
  <1>6. CASE NextElement(r)
    <2>0. PICK e \in run[r].todo :
            run' = [run EXCEPT ![r].pc = "webhooks",
                               ![r].todo = @ \ {e},
                               ![r].cur = e,
                               ![r].left = Webhooks,
                               ![r].got = {}]
      BY <1>6 DEF NextElement
    <2>1. /\ run[r].pc = "next" /\ run'[r].pc = "webhooks" /\ Same
          /\ run'[r].started = run[r].started
          /\ UNCHANGED <<status, track>>
      BY <1>0, <1>6, <2>0 DEF NextElement, orderVars
    <2> QED
      BY <1>3, <1>l, <2>1 DEF Firing, Claimed, InFlight, ListsItsOwn, AtElement
  <1>7. CASE TriggerStarts(r)
    <2>0. PICK t \in run[r].left :
            run' = [run EXCEPT ![r].pc = "record",
                               ![r].left = @ \ {t},
                               ![r].sent = <<r, run[r].cur, t>>]
      BY <1>7 DEF TriggerStarts
    <2>1. /\ run[r].pc \in {"webhooks", "stacks"} /\ run'[r].pc = "record" /\ Same
          /\ run'[r].started = run[r].started /\ run'[r].got = run[r].got
          /\ UNCHANGED <<status, track>>
      BY <1>0, <1>7, <2>0 DEF TriggerStarts, orderVars
    <2> QED
      BY <1>3, <1>l, <2>1 DEF Firing, Claimed, InFlight, ListsItsOwn, AtElement
  <1>8. CASE TriggerFails(r) \/ AnswerLost(r)
    <2>0. PICK t \in run[r].left : Unanswered(r, t)
      BY <1>8 DEF TriggerFails, AnswerLost
    <2>1. /\ run[r].pc \in {"webhooks", "stacks"} /\ run'[r].pc = run[r].pc /\ Same
          /\ run'[r].started = run[r].started /\ run'[r].got = run[r].got
          /\ UNCHANGED <<status, track>>
      BY <1>0, <1>8, <2>0 DEF TriggerFails, AnswerLost, Unanswered, orderVars
    <2> QED
      BY <1>3, <1>l, <2>1 DEF Firing, Claimed, InFlight, ListsItsOwn, AtElement
  <1>9. CASE Record(r) \/ RecordLost(r)
    <2>1. /\ run[r].pc = "record" /\ run'[r].pc \in {"webhooks", "stacks"} /\ Same
          /\ run'[r].started = run[r].started
          /\ run'[r].got = run[r].got \cup {run[r].sent}
          /\ status' = status
      BY <1>0, <1>9 DEF Record, RecordLost, Recorded, orderVars
    <2>2. track'.ids \subseteq track.ids \cup {run[r].sent}
          /\ track.ids \subseteq track'.ids /\ track'.blocks = track.blocks
      BY <1>0, <1>9 DEF Record, RecordLost, RecordId, orderVars, Tracking
    <2>3. ListsItsOwn(r)'
      BY <1>l, <2>1, <2>2 DEF ListsItsOwn, AtElement
    <2> QED
      BY <1>b, <2>1, <2>2, <2>3, ClaimedStep DEF Building, Firing, Claimed, InFlight
  <1>10. CASE LookupStacks(r)
    <2>1. /\ run[r].pc = "webhooks" /\ run'[r].pc = "stacks" /\ Same
          /\ run'[r].started = run[r].started /\ run'[r].got = run[r].got
          /\ UNCHANGED <<status, track>>
      BY <1>0, <1>10 DEF LookupStacks, orderVars
    <2> QED
      BY <1>3, <1>l, <2>1 DEF Firing, Claimed, InFlight, ListsItsOwn, AtElement
  <1>11. CASE EndElement(r)
    <2>1. /\ run[r].pc = "stacks" /\ run'[r].pc = "next" /\ Same
          /\ run'[r].started = run[r].started \cup run[r].got
          /\ UNCHANGED <<status, track>>
      BY <1>0, <1>11 DEF EndElement, orderVars
    <2> QED
      BY <1>3, <1>l, <2>1 DEF Firing, Claimed, InFlight, ListsItsOwn, AtElement
  <1>12. CASE LookupThrows(r)
    <2>1. /\ run[r].pc = "webhooks" /\ run'[r].pc \in {"next", "release"} /\ Same
          /\ run'[r].started = run[r].started
          /\ UNCHANGED <<status, track>>
      BY <1>0, <1>12 DEF LookupThrows, orderVars
    <2>2. run[r].got = {}
      <3>1. Webhooks = {}
        BY <1>12 DEF LookupThrows, Fault, Unhurried
      <3> QED
        BY <1>0, <2>1, <3>1 DEF RunFacts, WorksOnItsElements, AtElement, FiresWebhooks
    <2> QED
      BY <1>3, <1>l, <2>1, <2>2 DEF Firing, Claimed, InFlight, ListsItsOwn, AtElement
  <1>13. CASE EndLoop(r)
    <2>1. /\ run[r].pc = "next" /\ Same
          /\ \/ run'[r].pc \in {"close", "rewrite", "release"}
             \/ run'[r].pc = "undo" /\ Provisions(r) /\ run[r].started = {}
          /\ UNCHANGED <<status, track>>
      BY <1>0, <1>13 DEF EndLoop, NothingStarted, orderVars
    <2> QED
      BY <1>3, <1>l, <2>1 DEF Firing, Claimed, InFlight, ListsItsOwn, AtElement
  <1>14. CASE Rewrite(r)
    <2>0. PICK e \in run[r].todo :
            run' = [run EXCEPT
                     ![r].pc = IF run[r].todo = {e} THEN "close" ELSE "rewrite",
                     ![r].todo = @ \ {e}]
      BY <1>14 DEF Rewrite
    <2>1. /\ run[r].pc = "rewrite" /\ run'[r].pc \in {"close", "rewrite"} /\ Same
          /\ UNCHANGED <<status, track>>
      BY <1>0, <1>14, <2>0 DEF Rewrite, orderVars
    <2> QED
      BY <1>3, <2>1 DEF Firing, Claimed, InFlight, ListsItsOwn, AtElement
  <1>15. CASE Close(r)
    <2>1. /\ run[r].pc = "close" /\ run'[r].pc = "settling" /\ Same /\ status' = status
      BY <1>0, <1>15 DEF Close, Goto
    <2> QED
      BY <2>1, ClaimedStep
         DEF Building, Firing, Claimed, InFlight, ListsItsOwn, AtElement
  <1>16. CASE Undo(r)
    <2>1. /\ run[r].pc = "undo" /\ run'[r].pc = "clear" /\ Same
          /\ UNCHANGED <<status, track>>
      BY <1>0, <1>16 DEF Undo, Goto, orderVars
    <2>2. Provisions(r) /\ track.ids = {}
      BY <1>0, <2>1 DEF ClaimInv, UnheardAtFirst, PcFitsKind
    <2> QED
      BY <1>3, <2>1, <2>2 DEF Firing, Claimed, InFlight, ListsItsOwn, AtElement
  <1>17. CASE Clear(r)
    <2>1. /\ run[r].pc = "clear" /\ run'[r].pc = "release" /\ Same /\ status' = status
          /\ Provisions(r) /\ track.ids = {}
      BY <1>0, <1>17 DEF Clear, Goto, ClaimInv, UnheardAtFirst, PcFitsKind
    <2> QED
      BY <2>1, ClaimedStep
         DEF Building, Firing, Claimed, InFlight, ListsItsOwn, AtElement
  <1>18. CASE Release(r)
    <2>1. /\ run[r].pc = "release" /\ run'[r].pc = "done" /\ Same
          /\ \/ status' \in {status, "failed"}
             \/ track.ids = {} /\ track' = track /\ Provisions(r)
      BY <1>0, <1>18 DEF Release, Goto
    <2> QED
      BY <2>1, ClaimedStep
         DEF Building, Firing, Claimed, InFlight, ListsItsOwn, AtElement
  <1>19. CASE Return(r)
    <2>1. /\ run[r].pc = "settling" /\ run'[r].pc = "done" /\ Same
          /\ UNCHANGED <<status, track>>
      BY <1>0, <1>19 DEF Return, Goto, orderVars
    <2> QED
      BY <2>1, UnclaimedStep
  <1>20. CASE Crash(r) \/ QueryThrows(r)
    <2>1. /\ run[r].pc \notin {"idle", "done"} /\ Same
          /\ UNCHANGED <<status, track>>
          /\ \/ run'[r].pc = "done"
             \/ run'[r].pc = "release" /\ Provisions(r)
          /\ run[r].pc = "release" => run'[r].pc = "done"
      BY <1>0, <1>20 DEF Crash, QueryThrows, AtStatement, Goto, InFlight, orderVars
    <2>2. CASE run[r].pc = "settling"
      <3>1. CASE run'[r].pc = "done"
        BY <2>1, <2>2, <3>1, UnclaimedStep
      <3>2. CASE run'[r].pc # "done"
        <4>1. settle[r].pc # "none" /\ r \in Requests
          BY <1>0, <1>20, <2>2, <3>2 DEF Crash, QueryThrows, AtStatement, Goto, Requests
        <4>2. /\ \A q \in Runs : ~Building(q)
              /\ Newest(r)
              /\ track.ids # {}
          BY <4>1 DEF WholeInv, OrderFacts, SettlesTheNewest, IsSettled
        <4>3. \A q \in Runs : ~Claimed(q)
          <5> SUFFICES ASSUME NEW q \in Runs, Claimed(q) PROVE FALSE
            OBVIOUS
          <5>1. q # r /\ run[q].pc # "idle"
            BY <2>2 DEF Claimed, InFlight
          <5>2. q \in Nat /\ r \in Nat
            BY DEF Runs
          <5> QED
            BY <2>2, <4>2, <5>1, <5>2, ClaimIsAlone DEF Newest
        <4> QED
          BY <2>1, <2>2, <3>2, <4>2, <4>3, UnclaimedStep
      <3> QED
        BY <3>1, <3>2
    <2>3. CASE run[r].pc # "settling"
      BY <2>1, <2>3, ClaimedStep
         DEF Building, Firing, Claimed, InFlight, ListsItsOwn, AtElement
    <2> QED
      BY <2>2, <2>3
  <1> QED
    BY <1>1, <1>2, <1>4, <1>5, <1>6, <1>7, <1>8, <1>9, <1>10, <1>11, <1>12, <1>13,
       <1>14, <1>15, <1>16, <1>17, <1>18, <1>19, <1>20 DEF RunStep, RunFault

(* What a step of one run does leaves what is known of the others.         *)
LEMMA OthersKept ==
  ASSUME WholeInv, NEW r \in Runs,
         \A q \in Runs : q # r => run'[q] = run[q],
         ran \subseteq ran', \A p \in ran' \ ran : p[1] = r
  PROVE  \A q \in Runs : q # r => RunFacts(q)'
  <1> SUFFICES ASSUME NEW q \in Runs, q # r PROVE RunFacts(q)'
    OBVIOUS
  <1>1. run'[q] = run[q] /\ Own(q)' = Own(q)
    BY DEF Own
  <1>2. RunFacts(q)
    BY DEF WholeInv
  <1> QED
    BY <1>1, <1>2
       DEF RunFacts, WorksOnItsElements, SkipsNothing, KnowsItsOwn, FullyFired,
           FiredOrLeft, FiresWebhooks, Provisions
(* The turns are kept by a step of a run that is not idle and claims       *)
(* nothing anew, unless it is the newest.                                  *)
LEMMA TurnsKept ==
  ASSUME RunsInTurn, NEW r \in Runs,
         \A q \in Runs : q # r => run'[q] = run[q],
         run[r].pc # "idle", run'[r].pc # "idle",
         Claimed(r)' => Claimed(r) \/ Newest(r)
  PROVE  RunsInTurn'
  BY DEF RunsInTurn, Claimed, InFlight, Newest

(* Each step of a run keeps the turns and what is known of the runs.       *)
LEMMA FactsRun ==
  ASSUME WholeInv, TypeOK', Unhurried, NEW r \in Runs,
         Approve(r) \/ Retry(r) \/ RunStep(r) \/ RunFault(r)
  PROVE  RunsInTurn' /\ \A q \in Runs : RunFacts(q)'
  <1>0. /\ run[r] \in RunRecord
        /\ run \in [Runs -> RunRecord]
        /\ run' \in [Runs -> RunRecord]
        /\ track \in Tracking(Pipelines)
        /\ RunsInTurn
        /\ RunFacts(r)
    BY DEF WholeInv, TypeOK
  <1> USE <1>0 DEF Claimed, InFlight, Provisions, RunRecord
  <1> DEFINE Others == \A q \in Runs : q # r => run'[q] = run[q]
             Keeps  == /\ run[r].pc # "idle" /\ run'[r].pc # "idle"
                       /\ Claimed(r)' => Claimed(r) \/ Newest(r)
             StartsOwn == ran \subseteq ran' /\ \A p \in ran' \ ran : p[1] = r
  <1>1. ASSUME Others, Keeps, StartsOwn, RunFacts(r)'
        PROVE  RunsInTurn' /\ \A q \in Runs : RunFacts(q)'
    <2>1. RunsInTurn'
      BY <1>1, TurnsKept
    <2>2. \A q \in Runs : q # r => RunFacts(q)'
      BY <1>1, OthersKept
    <2> QED
      BY <1>1, <2>1, <2>2
  <1>2. ASSUME Others, run[r].pc = "idle", \A q \in Runs : ~Claimed(q),
               \A q \in Runs : q < r => run[q].pc # "idle",
               ran' = ran, run'[r].pc \in {"begin", "read"}
        PROVE  RunsInTurn' /\ \A q \in Runs : RunFacts(q)'
    <2>1. RunsInTurn'
      <3> SUFFICES ASSUME NEW q \in Runs, NEW s \in Runs, q < s,
                          run'[q].pc = "idle" \/ Claimed(q)'
                   PROVE  run'[s].pc = "idle"
        BY DEF RunsInTurn
      <3>0. q \in Nat /\ s \in Nat /\ r \in Nat
        BY DEF Runs
      <3>1. CASE q = r
        BY <1>2, <3>1 DEF RunsInTurn
      <3>2. CASE q # r
        BY <1>2, <3>0, <3>2 DEF RunsInTurn
      <3> QED
        BY <3>1, <3>2
    <2>2. \A q \in Runs : q # r => RunFacts(q)'
      BY <1>2, OthersKept
    <2>3. RunFacts(r)'
      <3>1. "answer" \notin Faults => Own(r)' = Own(r) /\ Own(r) = {}
        BY <1>2 DEF Own, RunFacts, KnowsItsOwn
      <3> QED
        BY <1>2, <3>1
           DEF RunFacts, WorksOnItsElements, SkipsNothing, KnowsItsOwn, AtElement
    <2> QED
      BY <2>1, <2>2, <2>3
  <1>3. CASE Approve(r)
    <2>1. status = "pending"
      BY <1>3 DEF Approve
    <2>2. \A q \in Runs : ~Claimed(q)
      BY <2>1 DEF WholeInv, ClaimInv, UnheardAtFirst
    <2>3. /\ Others /\ run[r].pc = "idle" /\ run'[r].pc = "begin" /\ ran' = ran
          /\ \A q \in Runs : q < r => run[q].pc # "idle"
      BY <1>3 DEF Approve, NextRun
    <2> QED
      BY <1>2, <2>2, <2>3
  <1>4. CASE Retry(r)
    <2>1. \A q \in Runs : ~Claimed(q)
      BY <1>4 DEF Retry, Unhurried
    <2>2. PICK e \in rows :
            run' = [run EXCEPT ![r].pc = "read", ![r].kind = "retry", ![r].cur = e]
      BY <1>4 DEF Retry
    <2>3. /\ Others /\ run[r].pc = "idle" /\ run'[r].pc = "read" /\ ran' = ran
          /\ \A q \in Runs : q < r => run[q].pc # "idle"
      BY <1>4, <2>2 DEF Retry, NextRun
    <2> QED
      BY <1>2, <2>1, <2>3
  <1> USE DEF RunFacts, WorksOnItsElements, SkipsNothing, KnowsItsOwn, AtElement,
              FiresWebhooks
  <1>5. CASE ReadSiblings(r)
    <2>1. /\ Others /\ Keeps /\ Own(r)' = Own(r) /\ ran' = ran
          /\ run[r].pc = "read" /\ run'[r].pc = "next"
          /\ run'[r].elems = run'[r].todo
          /\ run'[r].kind = run[r].kind
      BY <1>5 DEF ReadSiblings, Own
    <2>2. ~Provisions(r)
      BY <2>1 DEF WholeInv, ClaimInv, PcFitsKind
    <2>3. RunFacts(r)'
      BY <2>1, <2>2
    <2> QED
      BY <1>1, <2>1, <2>3
  <1>6. CASE Begin(r)
    <2>1. /\ Others /\ Keeps /\ Own(r)' = Own(r) /\ ran' = ran
          /\ run[r].pc = "begin" /\ run'[r].pc = "next"
          /\ run'[r].elems = run'[r].todo
          /\ \A e \in run'[r].elems : e[1] = r
      BY <1>6 DEF Begin, Own
    <2>3. RunFacts(r)'
      BY <2>1
    <2> QED
      BY <1>1, <2>1, <2>3
  <1>7. CASE NextElement(r)
    <2>0. PICK e \in run[r].todo :
            run' = [run EXCEPT ![r].pc = "webhooks",
                               ![r].todo = @ \ {e},
                               ![r].cur = e,
                               ![r].left = Webhooks,
                               ![r].got = {}]
      BY <1>7 DEF NextElement
    <2>1. /\ Others /\ Keeps /\ Own(r)' = Own(r) /\ ran' = ran
          /\ run[r].pc = "next" /\ run'[r].pc = "webhooks"
          /\ run'[r].todo = run[r].todo \ {e} /\ run'[r].cur = e
          /\ run'[r].left = Webhooks /\ run'[r].got = {}
          /\ UNCHANGED <<run[r].elems, run[r].kind, run[r].started, run[r].failures>>
      BY <1>7, <2>0 DEF NextElement, Own
    <2>2. SkipsNothing(r) => SkipsNothing(r)'
      <3>1. FiresWebhooks(r)' /\ FiredOrLeft(r, Webhooks)'
        BY <2>1 DEF FiredOrLeft, FiresWebhooks
      <3>2. run'[r].elems \ (run'[r].todo \cup {run'[r].cur})
              \subseteq run[r].elems \ run[r].todo
        BY <2>1
      <3> QED
        BY <2>1, <3>1, <3>2 DEF FullyFired
    <2>3. RunFacts(r)'
      BY <2>1, <2>2
    <2> QED
      BY <1>1, <2>1, <2>3
  <1>8. CASE TriggerStarts(r)
    <2>0. PICK t \in run[r].left :
            /\ ran' = ran \cup {<<r, run[r].cur, t>>}
            /\ run' = [run EXCEPT ![r].pc = "record",
                                  ![r].left = @ \ {t},
                                  ![r].sent = <<r, run[r].cur, t>>]
      BY <1>8 DEF TriggerStarts
    <2>1. /\ Others /\ Keeps
          /\ run[r].pc \in {"webhooks", "stacks"} /\ run'[r].pc = "record"
          /\ run'[r].left = run[r].left \ {t}
          /\ run'[r].sent = <<r, run[r].cur, t>>
          /\ UNCHANGED <<run[r].elems, run[r].todo, run[r].cur, run[r].kind,
                         run[r].got, run[r].started, run[r].failures>>
      BY <1>8, <2>0 DEF TriggerStarts
    <2>2. Own(r)' = Own(r) \cup {<<r, run[r].cur, t>>}
      BY <2>0 DEF Own
    <2>3. SkipsNothing(r) => SkipsNothing(r)'
      <3>1. ASSUME FiredOrLeft(r, IF FiresWebhooks(r) THEN Webhooks ELSE Triggers)
            PROVE  FiredOrLeft(r, IF FiresWebhooks(r) THEN Webhooks ELSE Triggers)'
        <4>1. (IF FiresWebhooks(r) THEN Webhooks ELSE Triggers)'
                = IF FiresWebhooks(r) THEN Webhooks ELSE Triggers
          BY <2>1, OrderRunAssumption
        <4>2. ASSUME NEW T, FiredOrLeft(r, T)
              PROVE  FiredOrLeft(r, T)'
          BY <2>1, <4>2 DEF FiredOrLeft
        <4> QED
          BY <3>1, <4>1, <4>2
      <3> QED
        BY <2>1, <3>1 DEF FullyFired
    <2>4. RunFacts(r)'
      <3>1. WorksOnItsElements(r)'
        BY <2>1, OrderRunAssumption
      <3> QED
        BY <2>1, <2>2, <2>3, <3>1
    <2>5. StartsOwn
      BY <2>0
    <2> QED
      BY <1>1, <2>1, <2>4, <2>5
  <1>9. CASE TriggerFails(r) \/ AnswerLost(r)
    <2>0. PICK t \in run[r].left :
            /\ Unanswered(r, t)
            /\ ran' = ran \/ ("answer" \in Faults /\ ran' = ran \cup {<<r, run[r].cur, t>>})
      BY <1>9 DEF TriggerFails, AnswerLost, Fault
    <2>1. /\ Others /\ Keeps
          /\ run[r].pc \in {"webhooks", "stacks"} /\ run'[r].failures
          /\ run'[r].left \subseteq run[r].left
          /\ UNCHANGED <<run[r].elems, run[r].todo, run[r].cur, run[r].kind,
                         run[r].pc, run[r].got, run[r].started>>
      BY <1>9, <2>0 DEF TriggerFails, AnswerLost, Unanswered
    <2>2. StartsOwn /\ ("answer" \notin Faults => Own(r)' = Own(r))
      BY <2>0 DEF Own
    <2>3. RunFacts(r)'
      BY <2>1, <2>2
    <2> QED
      BY <1>1, <2>1, <2>2, <2>3
  <1>10. CASE Record(r) \/ RecordLost(r)
    <2>1. /\ Others /\ Keeps /\ Own(r)' = Own(r) /\ ran' = ran
          /\ run[r].pc = "record"
          /\ run'[r].pc = IF run[r].sent[3] \in Webhooks THEN "webhooks" ELSE "stacks"
          /\ run'[r].got = run[r].got \cup {run[r].sent}
          /\ UNCHANGED <<run[r].elems, run[r].todo, run[r].cur, run[r].kind,
                         run[r].left, run[r].started, run[r].failures>>
      BY <1>10 DEF Record, RecordLost, Recorded, Own
    <2>2. SkipsNothing(r) => SkipsNothing(r)'
      <3>1. FiresWebhooks(r)' <=> FiresWebhooks(r)
        BY <2>1 DEF FiresWebhooks
      <3>2. ASSUME NEW T, FiredOrLeft(r, T)
            PROVE  FiredOrLeft(r, T)'
        BY <2>1, <3>2 DEF FiredOrLeft
      <3> QED
        BY <2>1, <3>1, <3>2 DEF FullyFired
    <2>3. RunFacts(r)'
      BY <2>1, <2>2
    <2> QED
      BY <1>1, <2>1, <2>3
  <1>11. CASE LookupStacks(r)
    <2>1. /\ Others /\ Keeps /\ Own(r)' = Own(r) /\ ran' = ran
          /\ run[r].pc = "webhooks" /\ run[r].left = {}
          /\ run'[r].pc = "stacks" /\ run'[r].left = Stacks
          /\ UNCHANGED <<run[r].elems, run[r].todo, run[r].cur, run[r].kind,
                         run[r].got, run[r].started, run[r].failures>>
      BY <1>11 DEF LookupStacks, Own
    <2>2. SkipsNothing(r) => SkipsNothing(r)'
      BY <2>1 DEF FullyFired, FiredOrLeft, FiresWebhooks, Triggers
    <2>3. RunFacts(r)'
      BY <2>1, <2>2
    <2> QED
      BY <1>1, <2>1, <2>3
  <1>12. CASE EndElement(r)
    <2>1. /\ Others /\ Keeps /\ Own(r)' = Own(r) /\ ran' = ran
          /\ run[r].pc = "stacks" /\ run[r].left = {}
          /\ run'[r].pc = "next"
          /\ run'[r].started = run[r].started \cup run[r].got
          /\ UNCHANGED <<run[r].elems, run[r].todo, run[r].kind, run[r].failures>>
      BY <1>12 DEF EndElement, Own
    <2>2. SkipsNothing(r) => SkipsNothing(r)'
      BY <2>1 DEF FullyFired, FiredOrLeft, FiresWebhooks
    <2>3. RunFacts(r)'
      BY <2>1, <2>2
    <2> QED
      BY <1>1, <2>1, <2>3
  <1>13. CASE EndLoop(r)
    <2>1. /\ Others /\ Keeps /\ Own(r)' = Own(r) /\ ran' = ran
          /\ run[r].pc = "next" /\ run[r].todo = {}
          /\ run'[r].pc \in {"undo", "release", "close", "rewrite"}
          /\ run'[r].todo = run[r].elems
          /\ UNCHANGED <<run[r].elems, run[r].kind, run[r].started, run[r].failures>>
      BY <1>13 DEF EndLoop, NothingStarted, Own
    <2>2. SkipsNothing(r) => SkipsNothing(r)'
      BY <2>1 DEF FullyFired
    <2>3. RunFacts(r)'
      BY <2>1, <2>2
    <2> QED
      BY <1>1, <2>1, <2>3
  <1>14. CASE Rewrite(r)
    <2>0. PICK e \in run[r].todo :
            run' = [run EXCEPT
                     ![r].pc = IF run[r].todo = {e} THEN "close" ELSE "rewrite",
                     ![r].todo = @ \ {e}]
      BY <1>14 DEF Rewrite
    <2>1. /\ Others /\ Keeps /\ Own(r)' = Own(r) /\ ran' = ran
          /\ run[r].pc = "rewrite" /\ run'[r].pc \in {"close", "rewrite"}
          /\ run'[r].todo = run[r].todo \ {e}
          /\ UNCHANGED <<run[r].elems, run[r].kind, run[r].started, run[r].failures>>
      BY <1>14, <2>0 DEF Rewrite, Own
    <2>2. SkipsNothing(r) => SkipsNothing(r)'
      BY <2>1 DEF FullyFired
    <2>3. RunFacts(r)'
      BY <2>1, <2>2
    <2> QED
      BY <1>1, <2>1, <2>3
  <1>15. CASE \/ Close(r) \/ Undo(r) \/ Clear(r) \/ Release(r) \/ Return(r)
              \/ Crash(r) \/ QueryThrows(r)
    <2>1. /\ Others /\ ran' = ran
          /\ run'[r].pc \in {"settling", "clear", "release", "done"}
          /\ run[r].pc \notin {"idle", "done"}
      BY <1>15 DEF Close, Undo, Clear, Release, Return, Crash, QueryThrows,
                   AtStatement, Goto
    <2>2. Claimed(r)' => Claimed(r) \/ Newest(r)
      <3>1. CASE run[r].pc # "settling"
        BY <2>1, <3>1
      <3>2. CASE run[r].pc = "settling" /\ Claimed(r)'
        <4>1. settle[r].pc # "none" /\ r \in Requests
          BY <1>15, <3>2 DEF Close, Undo, Clear, Release, Return, Crash, QueryThrows,
                             AtStatement, Goto, Requests
        <4> QED
          BY <4>1 DEF WholeInv, OrderFacts, SettlesTheNewest
      <3> QED
        BY <3>1, <3>2
    <2>3. RunFacts(r)'
      BY <2>1
    <2> QED
      BY <1>1, <2>1, <2>2, <2>3
  <1>16. CASE LookupThrows(r)
    <2>1. /\ Others /\ Keeps /\ Own(r)' = Own(r) /\ ran' = ran
          /\ run[r].pc = "webhooks" /\ run'[r].pc \in {"next", "release"}
          /\ run'[r].failures
          /\ UNCHANGED <<run[r].elems, run[r].todo, run[r].kind, run[r].started>>
      BY <1>16 DEF LookupThrows, Own
    <2>2. run[r].got = {}
      BY <1>16, <2>1 DEF LookupThrows, Fault, Unhurried
    <2>3. RunFacts(r)'
      BY <2>1, <2>2
    <2> QED
      BY <1>1, <2>1, <2>3
  <1> QED
    BY <1>3, <1>4, <1>5, <1>6, <1>7, <1>8, <1>9, <1>10, <1>11, <1>12, <1>13,
       <1>14, <1>15, <1>16 DEF RunStep, RunFault

(* Outputs stay right when a step of one run adds none, ...                *)
LEMMA OutputsKept ==
  ASSUME WholeInv, NEW r \in Runs,
         \A q \in Runs : q # r => run'[q] = run[q],
         run'[r].pc # "idle",
         Provisions(r)' /\ Firing(r)' => run[r].pc = "idle" \/ (Provisions(r) /\ Firing(r)),
         rows' \subseteq rows \/ (rows' \subseteq rows \cup {run'[r].cur} /\ run'[r].cur[1] = r),
         \A e \in Rows : outputs'[e] \subseteq rowIds'[e] /\ outputs'[e] \subseteq outputs[e]
  PROVE  OutputsAreOwn'
  BY DEF WholeInv, OrderFacts, OutputsAreOwn, Firing, Claimed, InFlight, Provisions,
         TypeOK, Rows

(* ... and all that is said of the order when the run is the newest and    *)
(* there is nothing to be settled.                                         *)
LEMMA NewestStep ==
  ASSUME TypeOK, NEW r \in Runs,
         \A q \in Runs : q > r => run[q].pc = "idle",
         \A q \in Runs : q # r => run'[q] = run[q],
         run'[r].pc \notin {"idle", "settling"},
         run'[r].pc \in {"release", "done"} => track'.blocks # {} \/ track'.ids = {},
         \A x \in Requests : settle'[x].pc = "none",
         status' # "completed", OutputsAreOwn'
  PROVE  OrderFacts'
  <1>1. \A q \in Runs : q # r => ~Newest(q)'
    <2> SUFFICES ASSUME NEW q \in Runs, q # r, Newest(q)' PROVE FALSE
      OBVIOUS
    <2>1. q \in Nat /\ r \in Nat
      BY DEF Runs
    <2>2. CASE q < r
      BY <2>2 DEF Newest
    <2>3. CASE q > r
      BY <2>3 DEF Newest
    <2> QED
      BY <2>1, <2>2, <2>3
  <1>2. WaitsForAll'
    <2> SUFFICES ASSUME NEW q \in Runs, Newest(q)',
                        run'[q].pc \in {"settling", "release", "done"},
                        track'.blocks = {}, track'.ids # {}
                 PROVE  FALSE
      BY DEF WaitsForAll
    <2>1. q = r
      BY <1>1
    <2> QED
      BY <2>1
  <1>3. SettlesTheNewest'
    BY DEF SettlesTheNewest
  <1>4. CompletedMeansWholeRun' /\ NothingStartedIsForgotten'
    BY <1>1 DEF CompletedMeansWholeRun, NothingStartedIsForgotten
  <1> QED
    BY <1>2, <1>3, <1>4 DEF OrderFacts

(* The end of a run that is not building any more changes nothing that is  *)
(* said of the order.                                                      *)
LEMMA QuietEnd ==
  ASSUME WholeInv, NEW r \in Runs,
         run[r].pc = "settling" \/ (run[r].pc = "release" /\ Provisions(r)),
         run'[r].pc = "done" \/ (run'[r].pc = "release" /\ Provisions(r)),
         \A q \in Runs : q # r => run'[q] = run[q],
         run'[r].elems = run[r].elems, run'[r].kind = run[r].kind,
         UNCHANGED <<track, rows, rowIds, outputs, ran>>,
         status' = status \/ status' # "completed",
         \A x \in Requests : settle'[x] = settle[x] \/ settle'[x].pc = "none"
  PROVE  OrderFacts'
  <1>0. OrderFacts
    BY DEF WholeInv
  <1>1. /\ \A q \in Runs : Newest(q)' <=> Newest(q)
        /\ \A q \in Runs : run'[q].elems = run[q].elems
        /\ \A q \in Runs : Provisions(q)' <=> Provisions(q)
        /\ \A q \in Runs : Building(q)' => Building(q)
        /\ \A q \in Runs : Firing(q)' => Firing(q)
    BY DEF Newest, Building, Firing, Claimed, InFlight, Provisions
  <1>2. WaitsForAll'
    BY <1>0, <1>1 DEF OrderFacts, WaitsForAll
  <1>3. SettlesTheNewest'
    BY <1>0, <1>1 DEF OrderFacts, SettlesTheNewest
  <1>4. CompletedMeansWholeRun'
    BY <1>0, <1>1 DEF OrderFacts, CompletedMeansWholeRun, WholeRunSucceeded
  <1>5. "answer" \notin Faults => NothingStartedIsForgotten'
    BY <1>0, <1>1 DEF OrderFacts, NothingStartedIsForgotten
  <1>6. OutputsAreOwn'
    <2>1. /\ \A q \in Runs : run'[q].pc = "idle" => run[q].pc = "idle"
          /\ \A q \in Runs : run'[q].pc # "idle" <=> run[q].pc # "idle"
      OBVIOUS
    <2>2. \A e \in rows : e[1] \in Runs
      BY DEF WholeInv, TypeOK, Rows
    <2> QED
      BY <1>0, <1>1, <2>1, <2>2 DEF OrderFacts, OutputsAreOwn
  <1> QED
    BY <1>2, <1>3, <1>4, <1>5, <1>6 DEF OrderFacts

(* Each step of a run keeps what is said of the order.                     *)
LEMMA OrderRunStep ==
  ASSUME WholeInv, ClaimInv', TypeOK', Unhurried, NEW r \in Runs,
         Approve(r) \/ Retry(r) \/ RunStep(r) \/ RunFault(r)
  PROVE  OrderFacts'
  <1>0. /\ run[r] \in RunRecord
        /\ run \in [Runs -> RunRecord]
        /\ run' \in [Runs -> RunRecord]
        /\ track \in Tracking(Pipelines)
        /\ TypeOK
        /\ OrderFacts
        /\ RunsInTurn
        /\ RunFacts(r)
        /\ ClaimInv
    BY DEF WholeInv, TypeOK
  <1> USE <1>0 DEF RunRecord, orderVars, rowVars
  <1> DEFINE Others == \A q \in Runs : q # r => run'[q] = run[q]
             Goes   == /\ run'[r].pc \notin {"idle", "settling"}
                       /\ run'[r].kind = run[r].kind
             Leaves == run'[r].pc \in {"release", "done"}
                         => track'.blocks # {} \/ track'.ids = {}
  <1>1. ASSUME Building(r), Others, Goes, Leaves, OutputsAreOwn',
               \A x \in Requests : settle'[x] = settle[x] \/ settle'[x].pc = "none",
               status' = status \/ status' = "failed"
        PROVE  OrderFacts'
    <2>1. /\ \A q \in Runs : q > r => run[q].pc = "idle"
          /\ \A x \in Requests : settle[x].pc = "none"
          /\ status # "completed"
      BY <1>1, ClaimIsAlone, BuildingIsClaiming
    <2> QED
      BY <1>1, <2>1, NewestStep
  <1>2. ASSUME Building(r), Others, Goes, Leaves,
               \A x \in Requests : settle'[x] = settle[x] \/ settle'[x].pc = "none",
               rows' = rows, rowIds' = rowIds, outputs' = outputs,
               status' = status \/ status' = "failed"
        PROVE  OrderFacts'
    <2>1. OutputsAreOwn'
      <3>1. Firing(r) \/ ~Provisions(r)
        BY <1>2 DEF Building
      <3> QED
        BY <1>2, <3>1, OutputsKept DEF Provisions, OrderFacts, OutputsAreOwn
    <2> QED
      BY <1>1, <1>2, <2>1
  <1>3. ASSUME NextRun(r), Others, run'[r].pc \in {"begin", "read"},
               settle' = settle, status' = "provisioning",
               \A q \in Runs : ~Claimed(q), \A x \in Requests : settle[x].pc = "none",
               rows' = rows, rowIds' = rowIds, outputs' = outputs
        PROVE  OrderFacts'
    <2>1. \A q \in Runs : q > r => run[q].pc = "idle"
      BY <1>3 DEF NextRun, RunsInTurn
    <2>2. OutputsAreOwn'
      BY <1>3, OutputsKept DEF NextRun, OrderFacts, OutputsAreOwn
    <2> QED
      BY <1>3, <2>1, <2>2, NewestStep
  <1>g. Building(r) => Triggering \in track.blocks \/ (run[r].pc = "begin" /\ track.ids = {})
    BY DEF ClaimInv, BuildingIsOpen, UnheardAtFirst
  <1>4. CASE Approve(r)
    <2>1. track.ids = {} /\ \A q \in Runs : ~Claimed(q)
      BY <1>4 DEF Approve, ClaimInv, UnheardAtFirst, Unheard
    <2>2. \A x \in Requests : settle[x].pc = "none"
      BY <2>1 DEF OrderFacts, SettlesTheNewest, IsSettled
    <2> QED
      BY <1>3, <1>4, <2>1, <2>2 DEF Approve
  <1>5. CASE Retry(r)
    <2>1. /\ \A q \in Runs : ~Claimed(q)
          /\ \A x \in Requests : settle[x].pc = "none"
      BY <1>5 DEF Retry, Unhurried
    <2>2. PICK e \in rows :
            run' = [run EXCEPT ![r].pc = "read", ![r].kind = "retry", ![r].cur = e]
      BY <1>5 DEF Retry
    <2>3. Others /\ run'[r].pc = "read"
      BY <2>2
    <2> QED
      BY <1>3, <1>5, <2>1, <2>3 DEF Retry
  <1> USE DEF Building, Firing, Claimed, InFlight
  <1>6. CASE ReadSiblings(r)
    BY <1>2, <1>6 DEF ReadSiblings
  <1>7. CASE Begin(r)
    BY <1>2, <1>7 DEF Begin
  <1>8. CASE NextElement(r)
    <2>0. PICK e \in run[r].todo :
            run' = [run EXCEPT ![r].pc = "webhooks",
                               ![r].todo = @ \ {e},
                               ![r].cur = e,
                               ![r].left = Webhooks,
                               ![r].got = {}]
      BY <1>8 DEF NextElement
    <2>1. /\ run[r].pc = "next" /\ run'[r].pc = "webhooks" /\ run'[r].cur = e
          /\ Others /\ Goes /\ Provisions(r)' = Provisions(r)
          /\ UNCHANGED <<status, settle, rowIds, outputs>>
          /\ rows' = IF Provisions(r) THEN rows \cup {e} ELSE rows
      BY <1>8, <2>0 DEF NextElement, Provisions
    <2>2. Provisions(r) => e[1] = r
      BY <2>1 DEF RunFacts, WorksOnItsElements
    <2>3. OutputsAreOwn'
      BY <2>1, <2>2, OutputsKept DEF OrderFacts, OutputsAreOwn
    <2> QED
      BY <1>1, <2>1, <2>3
  <1>9. CASE TriggerStarts(r)
    <2>1. PICK t \in run[r].left :
            run' = [run EXCEPT ![r].pc = "record",
                               ![r].left = @ \ {t},
                               ![r].sent = <<r, run[r].cur, t>>]
      BY <1>9 DEF TriggerStarts
    <2> QED
      BY <1>2, <1>9, <2>1 DEF TriggerStarts
  <1>10. CASE TriggerFails(r) \/ AnswerLost(r)
    <2>1. PICK t \in run[r].left : Unanswered(r, t)
      BY <1>10 DEF TriggerFails, AnswerLost
    <2> QED
      BY <1>2, <1>10, <2>1 DEF TriggerFails, AnswerLost, Unanswered
  <1>11. CASE Record(r) \/ RecordLost(r)
    BY <1>2, <1>11 DEF Record, RecordLost, Recorded
  <1>12. CASE LookupStacks(r)
    BY <1>2, <1>12 DEF LookupStacks
  <1>13. CASE EndElement(r)
    <2>1. /\ run[r].pc = "stacks" /\ run'[r].pc = "next"
          /\ Others /\ Goes /\ Provisions(r)' = Provisions(r)
          /\ UNCHANGED <<status, settle, rows, outputs>>
      BY <1>13 DEF EndElement, Provisions
    <2>2. \A e \in Rows : outputs'[e] \subseteq rowIds'[e] /\ outputs'[e] \subseteq outputs[e]
      <3>1. Provisions(r) => outputs[run[r].cur] = {}
        BY <2>1 DEF RunFacts, WorksOnItsElements, AtElement, OrderFacts, OutputsAreOwn
      <3> QED
        BY <1>13, <3>1 DEF EndElement, OrderFacts, OutputsAreOwn, TypeOK
    <2>3. OutputsAreOwn'
      BY <2>1, <2>2, OutputsKept
    <2> QED
      BY <1>1, <2>1, <2>3
  <1>14. CASE EndLoop(r)
    BY <1>2, <1>g, <1>14 DEF EndLoop
  <1>15. CASE Rewrite(r)
    <2>0. PICK e \in run[r].todo :
            /\ run' = [run EXCEPT
                        ![r].pc = IF run[r].todo = {e} THEN "close" ELSE "rewrite",
                        ![r].todo = @ \ {e}]
            /\ rowIds' = [rowIds EXCEPT ![e] =
                           IF e \in rows THEN {p \in run[r].started : p[2] = e} ELSE @]
            /\ outputs' = [outputs EXCEPT ![e] = IF e \in rows THEN {} ELSE @]
      BY <1>15 DEF Rewrite
    <2>1. /\ run[r].pc = "rewrite" /\ run'[r].pc \in {"close", "rewrite"}
          /\ Others /\ Goes /\ Provisions(r)' = Provisions(r)
          /\ UNCHANGED <<status, settle, rows>>
      BY <1>15, <2>0 DEF Rewrite, Provisions
    <2>2. \A f \in Rows : outputs'[f] \subseteq rowIds'[f] /\ outputs'[f] \subseteq outputs[f]
      BY <2>0 DEF OrderFacts, OutputsAreOwn, TypeOK
    <2>3. OutputsAreOwn'
      BY <2>1, <2>2, OutputsKept
    <2> QED
      BY <1>1, <2>1, <2>3
  <1>17. CASE Undo(r)
    <2>1. /\ run[r].pc = "undo" /\ run'[r].pc = "clear"
          /\ Others /\ Goes /\ Provisions(r)' = Provisions(r)
          /\ UNCHANGED <<status, settle>> /\ rows' \subseteq rows
      BY <1>17 DEF Undo, Goto, Provisions
    <2>2. \A f \in Rows : outputs'[f] \subseteq rowIds'[f] /\ outputs'[f] \subseteq outputs[f]
      BY <1>17 DEF Undo, OrderFacts, OutputsAreOwn
    <2>3. OutputsAreOwn'
      BY <2>1, <2>2, OutputsKept
    <2> QED
      BY <1>1, <2>1, <2>3
  <1>18. CASE Clear(r)
    BY <1>2, <1>18 DEF Clear, Goto, Untracked
  <1>19. CASE Release(r)
    <2>1. /\ run[r].pc = "release" /\ run'[r].pc = "done" /\ Others /\ Goes
          /\ run'[r].elems = run[r].elems
          /\ UNCHANGED <<rows, rowIds, outputs, settle, ran>>
          /\ status' \in {status, "failed", "pending"}
          /\ Provisions(r) => track' = track
          /\ ~Provisions(r) => track' = Untracked /\ status' = "failed"
      BY <1>19 DEF Release, Goto, Provisions
    <2>2. CASE Provisions(r)
      BY <2>1, <2>2, QuietEnd
    <2>3. CASE ~Provisions(r)
      BY <1>2, <2>1, <2>3 DEF Untracked
    <2> QED
      BY <2>2, <2>3
  <1>16. CASE Crash(r) \/ QueryThrows(r)
    <2>1. /\ run[r].pc \notin {"idle", "done"} /\ Others /\ Goes
          /\ run'[r].elems = run[r].elems
          /\ UNCHANGED <<rows, rowIds, outputs, status, track, ran>>
          /\ settle' = [settle EXCEPT ![r] = NoSettle]
          /\ run'[r].pc = "done" \/ (run'[r].pc = "release" /\ Provisions(r))
      BY <1>16 DEF Crash, QueryThrows, AtStatement, Goto, Provisions
    <2>2. \A x \in Requests : settle'[x] = settle[x] \/ settle'[x].pc = "none"
      BY <2>1 DEF NoSettle, TypeOK
    <2>3. CASE Building(r)
      BY <1>2, <1>g, <2>1, <2>2, <2>3
    <2>4. CASE ~Building(r)
      <3>1. run[r].pc = "settling" \/ (run[r].pc = "release" /\ Provisions(r))
        BY <2>1, <2>4 DEF Provisions
      <3> QED
        BY <2>1, <2>2, <3>1, QuietEnd
    <2> QED
      BY <2>3, <2>4
  <1>21. CASE Return(r)
    <2>1. /\ run[r].pc = "settling" /\ run'[r].pc = "done"
          /\ run'[r].elems = run[r].elems /\ Others /\ Goes
          /\ UNCHANGED <<rows, rowIds, outputs, status, track, settle, ran>>
      BY <1>21 DEF Return, Goto, orderVars, rowVars
    <2> QED
      BY <2>1, QuietEnd
  <1>22. CASE Close(r)
    <2>1. /\ run[r].pc = "close" /\ run'[r].pc = "settling"
          /\ run'[r].elems = run[r].elems /\ run'[r].kind = run[r].kind /\ Others
          /\ UNCHANGED <<rows, rowIds, outputs, status, ran>>
      BY <1>22 DEF Close, Goto
    <2>2. /\ \A q \in Runs : q # r => ~Claimed(q)
          /\ \A q \in Runs : q > r => run[q].pc = "idle"
          /\ \A x \in Requests : settle[x].pc = "none"
          /\ status # "completed"
          /\ \A q \in Runs : ~Building(q)'
          /\ Newest(r)'
      BY <2>1, ClaimIsAlone DEF Newest
    <2>3. /\ run[r].started \subseteq track'.ids
          /\ track'.blocks = {} => ~run[r].failures
      BY <1>22 DEF Close, CloseRun, Tracking
    <2>4. \A q \in Runs : Newest(q)' => q = r
      <3> SUFFICES ASSUME NEW q \in Runs, q # r, Newest(q)' PROVE FALSE
        OBVIOUS
      <3>1. q \in Nat /\ r \in Nat
        BY DEF Runs
      <3>2. CASE q < r
        BY <2>1, <3>2 DEF Newest
      <3>3. CASE q > r
        BY <2>1, <2>2, <3>3 DEF Newest
      <3> QED
        BY <3>1, <3>2, <3>3
    <2>5. WaitsForAll'
      <3> SUFFICES ASSUME track'.blocks = {}
                   PROVE  \A e \in run[r].elems, t \in Triggers : <<r, e, t>> \in track'.ids
        BY <2>1, <2>4 DEF WaitsForAll
      <3> QED
        BY <2>1, <2>3 DEF RunFacts, SkipsNothing, FullyFired
    <2>6. SettlesTheNewest'
      <3> SUFFICES ASSUME NEW x \in Requests, settle'[x].pc # "none"
                   PROVE  /\ IsSettled(settle'[x].decided)
                          /\ settle'[x].decided.ids = track'.ids
                          /\ settle'[x].pc = "read"
                          /\ x = r
        BY <2>1, <2>2 DEF SettlesTheNewest
      <3>1. IsSettled(track') /\ x = r
            /\ settle'[x] = [NoSettle EXCEPT !.pc = "read", !.decided = track']
        BY <1>22, <2>2 DEF Close, SettleFrom, TypeOK, Requests
      <3> QED
        BY <3>1 DEF NoSettle
    <2>7. "answer" \notin Faults => NothingStartedIsForgotten'
      <3> SUFFICES ASSUME "answer" \notin Faults PROVE NothingStartedIsForgotten'
        OBVIOUS
      <3>1. Own(r) \subseteq track'.ids
        BY <2>1, <2>3 DEF RunFacts, KnowsItsOwn
      <3> QED
        BY <2>1, <2>4, <3>1 DEF NothingStartedIsForgotten, Own
    <2>8. OutputsAreOwn'
      BY <2>1, OutputsKept DEF OrderFacts, OutputsAreOwn
    <2>9. CompletedMeansWholeRun'
      BY <2>1, <2>2 DEF CompletedMeansWholeRun
    <2> QED
      BY <2>5, <2>6, <2>7, <2>8, <2>9 DEF OrderFacts
  <1>23. CASE LookupThrows(r)
    BY <1>2, <1>g, <1>23 DEF LookupThrows
  <1> QED
    BY <1>4, <1>5, <1>6, <1>7, <1>8, <1>9, <1>10, <1>11, <1>12, <1>13, <1>14,
       <1>15, <1>16, <1>17, <1>18, <1>19, <1>21, <1>22, <1>23 DEF RunStep, RunFault

(* What is known of the runs needs nothing but the runs.                   *)
LEMMA FactsStay ==
  ASSUME WholeInv, UNCHANGED <<run, ran>>
  PROVE  RunsInTurn' /\ \A q \in Runs : RunFacts(q)'
  <1>1. RunsInTurn'
    BY DEF WholeInv, RunsInTurn, Claimed, InFlight
  <1>2. \A q \in Runs : RunFacts(q)'
    <2> SUFFICES ASSUME NEW q \in Runs PROVE RunFacts(q)'
      OBVIOUS
    <2>1. Own(q)' = Own(q) /\ RunFacts(q)
      BY DEF Own, WholeInv
    <2> QED
      BY <2>1
         DEF RunFacts, WorksOnItsElements, SkipsNothing, KnowsItsOwn, FullyFired,
             FiredOrLeft, FiresWebhooks, Provisions
  <1> QED
    BY <1>1, <1>2

(* A map that is settled is nobody's who builds.                           *)
LEMMA SettledIsLeftAlone ==
  ASSUME ClaimInv, track.blocks = {}, track.ids # {}, NEW r \in Runs
  PROVE  ~Building(r)
  BY DEF ClaimInv, BuildingIsOpen, UnheardAtFirst

(* Each step of a callback keeps what is said of the order: a report       *)
(* leaves the list alone, and a completed order listens to none.           *)
LEMMA OrderHandler ==
  ASSUME WholeInv, TypeOK', NEW h \in Handlers,
         \/ \E p \in Pipelines, s \in Reports : Receive(h, p, s)
         \/ HandlerStep(h)
         \/ HandlerFails(h)
  PROVE  OrderFacts'
  <1>0. TypeOK /\ OrderFacts /\ ClaimInv /\ h \in Requests /\ h \notin Runs
    BY OrderRunAssumption DEF WholeInv, Requests, Runs
  <1>1. /\ UNCHANGED <<run, ran, rows, rowIds, outputs>>
        /\ track'.ids = track.ids /\ track'.blocks = track.blocks
        /\ status' = "completed" => status = "completed" /\ track' = track
    <2>1. ASSUME NEW p \in Pipelines, NEW s \in Reports, Receive(h, p, s)
          PROVE  UNCHANGED <<run, ran, rows, rowIds, outputs, track, status>>
      BY <2>1 DEF Receive, orderVars, rowVars
    <2>2. CASE HandleSuccess(h)
      BY <1>0, <2>2 DEF HandleSuccess, Listening, MergeSuccess, TypeOK, Tracking, rowVars
    <2>3. CASE HandleFailure(h)
      BY <1>0, <2>3
         DEF HandleFailure, Failable, MergeFailure, TypeOK, Tracking, orderVars, rowVars
    <2>4. CASE HandlerFails(h)
      BY <2>4 DEF HandlerFails, orderVars, rowVars
    <2> QED
      BY <2>1, <2>2, <2>3, <2>4 DEF HandlerStep
  <1>2. \A x \in Requests :
          \/ settle'[x] = settle[x]
          \/ settle'[x].pc = "none"
          \/ /\ IsSettled(track') /\ settle'[x].decided = track'
             /\ settle'[x].pc = "read" /\ x = h
    <2>1. [NoSettle EXCEPT !.pc = "read", !.decided = track'].decided = track'
          /\ [NoSettle EXCEPT !.pc = "read", !.decided = track'].pc = "read"
          /\ NoSettle.pc = "none"
      BY DEF NoSettle
    <2>2. CASE HandleSuccess(h)
      BY <1>0, <2>1, <2>2 DEF HandleSuccess, SettleFrom, TypeOK
    <2>3. CASE HandlerFails(h)
      BY <1>0, <2>1, <2>3 DEF HandlerFails, TypeOK
    <2> QED
      BY <2>2, <2>3 DEF HandlerStep, HandleFailure, Receive
  <1>3. /\ \A q \in Runs : Newest(q)' <=> Newest(q)
        /\ \A q \in Runs : Building(q)' <=> Building(q)
        /\ \A q \in Runs : Firing(q)' <=> Firing(q)
        /\ \A q \in Runs : Provisions(q)' <=> Provisions(q)
    BY <1>1 DEF Newest, Building, Firing, Claimed, InFlight, Provisions
  <1>4. WaitsForAll'
    BY <1>0, <1>1, <1>3 DEF OrderFacts, WaitsForAll
  <1>5. SettlesTheNewest'
    <2> SUFFICES ASSUME NEW x \in Requests, settle'[x].pc # "none"
                 PROVE  /\ \A r \in Runs : ~Building(r)
                        /\ x \in Runs => Newest(x)
                        /\ IsSettled(settle'[x].decided)
                        /\ settle'[x].decided.ids = track'.ids
                        /\ settle'[x].pc \in {"write", "swap"}
                             => \A e \in Rows : settle'[x].ids[e] \subseteq rowIds'[e]
      BY <1>3 DEF SettlesTheNewest
    <2>1. CASE settle'[x] = settle[x]
      BY <1>0, <1>1, <2>1 DEF OrderFacts, SettlesTheNewest
    <2>2. CASE settle'[x] # settle[x]
      <3>1. track.blocks = {} /\ track.ids # {}
        BY <1>1, <1>2, <2>2 DEF IsSettled
      <3> QED
        BY <1>0, <1>2, <2>2, <3>1, SettledIsLeftAlone
    <2> QED
      BY <2>1, <2>2
  <1>6. OutputsAreOwn'
    BY <1>0, <1>1, <1>3 DEF OrderFacts, OutputsAreOwn
  <1>7. CompletedMeansWholeRun'
    BY <1>0, <1>1, <1>3 DEF OrderFacts, CompletedMeansWholeRun, WholeRunSucceeded
  <1>8. "answer" \notin Faults => NothingStartedIsForgotten'
    BY <1>0, <1>1, <1>3 DEF OrderFacts, NothingStartedIsForgotten
  <1> QED
    BY <1>4, <1>5, <1>6, <1>7, <1>8 DEF OrderFacts

(* Each step of a settlement does.  The swap finds the map it was decided  *)
(* on, the list has not changed since, and nobody is blocking: the whole   *)
(* newest run has succeeded.                                               *)
LEMMA OrderSettle ==
  ASSUME WholeInv, NEW x \in Requests, SettleStep(x)
  PROVE  OrderFacts'
  <1>0. TypeOK /\ OrderFacts /\ ClaimInv
    BY DEF WholeInv
  <1>1. UNCHANGED <<track, run, ran, rows, rowIds>> /\ settle[x].pc # "none"
    BY DEF SettleStep, SettleRead, SettleWrite, SettleSwap, SettleAudit,
           orderVars, rowVars
  <1>2. /\ \A q \in Runs : Newest(q)' <=> Newest(q)
        /\ \A q \in Runs : Building(q)' <=> Building(q)
        /\ \A q \in Runs : Firing(q)' <=> Firing(q)
        /\ \A q \in Runs : Provisions(q)' <=> Provisions(q)
        /\ \A q \in Runs : ~Building(q)
    BY <1>0, <1>1
       DEF Newest, Building, Firing, Claimed, InFlight, Provisions, OrderFacts,
           SettlesTheNewest
  <1>3. \A y \in Requests :
          \/ settle'[y] = settle[y]
          \/ settle'[y].pc = "none"
          \/ /\ y = x /\ settle'[x].decided = settle[x].decided
             /\ \/ settle'[x].pc = "audit"
                \/ settle[x].pc = "write" /\ settle'[x].ids = settle[x].ids
                \/ \A e \in Rows : settle'[x].ids[e] \subseteq rowIds[e]
    <2>0. settle \in [Requests -> SettleRecord]
      BY <1>0 DEF TypeOK
    <2>1. CASE SettleRead(x)
      <3>1. \A y \in Requests : y # x => settle'[y] = settle[y]
        BY <2>0, <2>1 DEF SettleRead
      <3>2. settle'[x].decided = settle[x].decided
            /\ settle'[x].ids = [e \in Rows |-> IF e \in rows THEN rowIds[e] ELSE {}]
        BY <2>0, <2>1 DEF SettleRead, SettleRecord
      <3> QED
        BY <3>1, <3>2
    <2>2. CASE SettleWrite(x)
      <3>1. PICK e \in settle[x].seen :
              settle' = [settle EXCEPT
                          ![x].pc = IF settle[x].seen = {e} THEN "swap" ELSE "write",
                          ![x].seen = @ \ {e}]
        BY <2>2 DEF SettleWrite
      <3>2. settle[x].pc = "write"
        BY <2>2 DEF SettleWrite
      <3>3. \A y \in Requests : y # x => settle'[y] = settle[y]
        BY <2>0, <3>1
      <3>4. settle'[x].decided = settle[x].decided /\ settle'[x].ids = settle[x].ids
        BY <2>0, <3>1 DEF SettleRecord
      <3> QED
        BY <3>2, <3>3, <3>4
    <2>3. CASE SettleSwap(x)
      BY <2>0, <2>3 DEF SettleSwap, SettleRecord, NoSettle
    <2>4. CASE SettleAudit(x)
      BY <2>0, <2>4 DEF SettleAudit, NoSettle
    <2> QED
      BY <2>1, <2>2, <2>3, <2>4 DEF SettleStep
  <1>4. WaitsForAll'
    BY <1>0, <1>1, <1>2 DEF OrderFacts, WaitsForAll
  <1>5. SettlesTheNewest'
    BY <1>0, <1>1, <1>2, <1>3 DEF OrderFacts, SettlesTheNewest
  <1>6. OutputsAreOwn'
    <2>1. \A e \in Rows : outputs'[e] \subseteq rowIds'[e]
      <3>1. CASE SettleWrite(x)
        <4>1. \A e \in Rows : settle[x].ids[e] \subseteq rowIds[e]
          BY <1>0, <3>1 DEF SettleWrite, OrderFacts, SettlesTheNewest
        <4>2. \A e \in Rows :
                outputs'[e] = outputs[e] \/ outputs'[e] = settle[x].ids[e]
          BY <1>0, <3>1 DEF SettleWrite, LogsOf, TypeOK
        <4> QED
          BY <1>0, <1>1, <4>1, <4>2 DEF OrderFacts, OutputsAreOwn
      <3>2. CASE ~SettleWrite(x)
        BY <1>0, <1>1, <3>2
           DEF SettleStep, SettleRead, SettleSwap, SettleAudit, rowVars, OrderFacts,
               OutputsAreOwn
      <3> QED
        BY <3>1, <3>2
    <2>2. \A e \in Rows : run[e[1]].pc = "idle" => outputs'[e] = outputs[e]
      <3>1. CASE SettleWrite(x)
        BY <1>0, <3>1 DEF SettleWrite, TypeOK, OrderFacts, OutputsAreOwn
      <3>2. CASE ~SettleWrite(x)
        BY <3>2 DEF SettleStep, SettleRead, SettleSwap, SettleAudit, rowVars
      <3> QED
        BY <3>1, <3>2
    <2>3. \A q \in Runs : ~Firing(q)'
      BY <1>2 DEF Building
    <2> QED
      BY <1>0, <1>1, <1>2, <2>1, <2>2, <2>3 DEF OrderFacts, OutputsAreOwn
  <1>7. CompletedMeansWholeRun'
    <2>1. CASE status' = status
      BY <1>0, <1>1, <1>2, <2>1
         DEF OrderFacts, CompletedMeansWholeRun, WholeRunSucceeded
    <2>2. CASE status' # status
      <3>1. settle[x].pc = "swap" /\ SameStatus(track, settle[x].decided)
        BY <2>2 DEF SettleStep, SettleRead, SettleWrite, SettleSwap, SettleAudit,
                    orderVars
      <3>2. /\ track.blocks = {} /\ track.ids # {} /\ track.ids \subseteq track.ok
        BY <1>0, <3>1 DEF SameStatus, IsSettled, OrderFacts, SettlesTheNewest
      <3>3. ASSUME NEW r \in Runs, Newest(r)
            PROVE  WholeRunSucceeded(r)
        <4>1. run[r].pc \in {"settling", "release", "done"}
          BY <1>2, <3>3 DEF Newest, Building, Firing, Claimed, InFlight
        <4> QED
          BY <1>0, <3>2, <3>3, <4>1 DEF OrderFacts, WaitsForAll, WholeRunSucceeded
      <3> QED
        BY <1>1, <1>2, <3>3 DEF CompletedMeansWholeRun, WholeRunSucceeded
    <2> QED
      BY <2>1, <2>2
  <1>8. "answer" \notin Faults => NothingStartedIsForgotten'
    BY <1>0, <1>1, <1>2 DEF OrderFacts, NothingStartedIsForgotten
  <1> QED
    BY <1>4, <1>5, <1>6, <1>7, <1>8 DEF OrderFacts

(* The claims stay in order when somebody else takes a step: a callback    *)
(* adds no pipeline to the list and no block to the map, and finds no      *)
(* order that is unheard of; a settlement finds nobody building.           *)
LEMMA ClaimHandler ==
  ASSUME WholeInv, TypeOK', NEW h \in Handlers,
         \/ \E p \in Pipelines, s \in Reports : Receive(h, p, s)
         \/ HandlerStep(h)
         \/ HandlerFails(h)
  PROVE  ClaimInv'
  <1>0. TypeOK /\ ClaimInv
    BY DEF WholeInv
  <1>1. /\ run' = run
        /\ track'.ids = track.ids /\ track'.blocks = track.blocks
        /\ \/ status' = status
           \/ /\ status = "provisioning" /\ status' = "failed"
              /\ hand[h].pc = "merge"
    <2>1. ASSUME NEW p \in Pipelines, NEW s \in Reports, Receive(h, p, s)
          PROVE  UNCHANGED <<run, track, status>>
      BY <2>1 DEF Receive, orderVars
    <2>2. CASE HandleSuccess(h)
      BY <1>0, <2>2 DEF HandleSuccess, MergeSuccess, TypeOK, Tracking
    <2>3. CASE HandleFailure(h)
      BY <1>0, <2>3 DEF HandleFailure, Failable, MergeFailure, TypeOK, Tracking, orderVars
    <2>4. CASE HandlerFails(h)
      BY <2>4 DEF HandlerFails, orderVars
    <2> QED
      BY <2>1, <2>2, <2>3, <2>4 DEF HandlerStep
  <1>2. Unheard => Unheard' /\ status' = status
    <2> SUFFICES ASSUME Unheard PROVE Unheard' /\ status' = status
      OBVIOUS
    <2>1. hand[h].pc = "idle" /\ track.ids = {}
      BY DEF Unheard
    <2>2. hand' = [hand EXCEPT ![h] = NoHand] \/ hand' = hand
      BY <2>1 DEF Receive, HandlerStep, HandleSuccess, HandleFailure, HandlerFails
    <2>3. \A g \in Handlers : hand'[g].pc = "idle"
      BY <1>0, <2>2 DEF Unheard, NoHand, TypeOK
    <2> QED
      BY <1>1, <2>1, <2>3 DEF Unheard
  <1>3. /\ \A q \in Runs : Building(q)' <=> Building(q)
        /\ \A q \in Runs : Claimed(q)' <=> Claimed(q)
        /\ \A q \in Runs : Provisions(q)' <=> Provisions(q)
    BY <1>1 DEF Building, Firing, Claimed, InFlight, Provisions
  <1>4. OneClaim' /\ PcFitsKind' /\ BuildingIsOpen' /\ \A q \in Runs : ListsItsOwn(q)'
    BY <1>0, <1>1, <1>3
       DEF ClaimInv, OneClaim, PcFitsKind, BuildingIsOpen, ListsItsOwn
  <1>5. UnheardAtFirst'
    <2>1. \A q \in Runs : run[q].pc = "begin" => Unheard
      BY <1>0 DEF ClaimInv, UnheardAtFirst, Claimed, InFlight
    <2> QED
      BY <1>0, <1>1, <1>2, <1>3, <2>1 DEF ClaimInv, UnheardAtFirst
  <1> QED
    BY <1>4, <1>5 DEF ClaimInv

LEMMA ClaimSettle ==
  ASSUME WholeInv, NEW x \in Requests, SettleStep(x)
  PROVE  ClaimInv'
  <1>0. ClaimInv /\ OrderFacts
    BY DEF WholeInv
  <1>1. /\ UNCHANGED <<track, run, hand>> /\ settle[x].pc # "none"
        /\ status' = status \/ status' = "completed"
    BY DEF SettleStep, SettleRead, SettleWrite, SettleSwap, SettleAudit, orderVars
  <1>2. \A q \in Runs : ~Building(q)
    BY <1>0, <1>1 DEF OrderFacts, SettlesTheNewest
  <1>3. /\ \A q \in Runs : ~Building(q)' /\ run[q].pc # "begin"
        /\ \A q \in Runs : Claimed(q)' <=> Claimed(q)
        /\ \A q \in Runs : Provisions(q)' <=> Provisions(q)
    BY <1>1, <1>2 DEF Building, Firing, Claimed, InFlight, Provisions
  <1>4. OneClaim' /\ PcFitsKind' /\ BuildingIsOpen' /\ \A q \in Runs : ListsItsOwn(q)'
    BY <1>0, <1>1, <1>3
       DEF ClaimInv, OneClaim, PcFitsKind, BuildingIsOpen, ListsItsOwn
  <1>5. UnheardAtFirst'
    BY <1>0, <1>1, <1>3 DEF ClaimInv, UnheardAtFirst, Unheard
  <1> QED
    BY <1>4, <1>5 DEF ClaimInv

(* Root writes an order off when nobody is at work for it.                 *)
LEMMA ClaimRest ==
  ASSUME WholeInv, MarkFailed \/ UNCHANGED vars
  PROVE  ClaimInv'
  <1>0. ClaimInv
    BY DEF WholeInv
  <1>1. /\ UNCHANGED <<track, run, hand>>
        /\ \/ status' = status
           \/ status' = "failed" /\ \A q \in Runs : ~InFlight(q)
    BY DEF MarkFailed, vars, orderVars
  <1>2. /\ \A q \in Runs : Building(q)' <=> Building(q)
        /\ \A q \in Runs : Claimed(q)' <=> Claimed(q)
        /\ \A q \in Runs : Provisions(q)' <=> Provisions(q)
        /\ \A q \in Runs : ~InFlight(q) => ~Building(q) /\ run[q].pc # "begin"
    BY <1>1 DEF Building, Firing, Claimed, InFlight, Provisions
  <1>3. OneClaim' /\ PcFitsKind' /\ BuildingIsOpen' /\ \A q \in Runs : ListsItsOwn(q)'
    BY <1>0, <1>1, <1>2
       DEF ClaimInv, OneClaim, PcFitsKind, BuildingIsOpen, ListsItsOwn
  <1>4. UnheardAtFirst'
    BY <1>0, <1>1, <1>2 DEF ClaimInv, UnheardAtFirst, Unheard
  <1> QED
    BY <1>3, <1>4 DEF ClaimInv

(* The second invariant is kept by every step, ...                         *)
LEMMA WholeStep == Unhurried /\ WholeInv /\ [Next]_vars => WholeInv'
  <1> SUFFICES ASSUME Unhurried, WholeInv, [Next]_vars PROVE WholeInv'
    OBVIOUS
  <1>0. TypeOK'
    BY TypeStep DEF WholeInv
  <1>1. ASSUME NEW r \in Runs, Approve(r) \/ Retry(r) \/ RunStep(r) \/ RunFault(r)
        PROVE  WholeInv'
    <2>1. ClaimInv'
      BY <1>0, <1>1, ClaimRun
    <2> QED
      BY <1>0, <1>1, <2>1, FactsRun, OrderRunStep DEF WholeInv
  <1>2. ASSUME NEW h \in Handlers,
               \/ \E p \in Pipelines, s \in Reports : Receive(h, p, s)
               \/ HandlerStep(h)
               \/ HandlerFails(h)
        PROVE  WholeInv'
    <2>1. UNCHANGED <<run, ran>>
      BY <1>2 DEF Receive, HandlerStep, HandleSuccess, HandleFailure, HandlerFails
    <2> QED
      BY <1>0, <1>2, <2>1, ClaimHandler, FactsStay, OrderHandler DEF WholeInv
  <1>3. ASSUME NEW x \in Requests, SettleStep(x)
        PROVE  WholeInv'
    <2>1. UNCHANGED <<run, ran>>
      BY <1>3 DEF SettleStep, SettleRead, SettleWrite, SettleSwap, SettleAudit
    <2> QED
      BY <1>0, <1>3, <2>1, ClaimSettle, FactsStay, OrderSettle DEF WholeInv
  <1>4. CASE MarkFailed \/ UNCHANGED vars
    <2>1. UNCHANGED <<run, ran, track, settle, rows, rowIds, outputs>>
          /\ (status' = "completed" => status = "completed")
      BY <1>4 DEF MarkFailed, vars, orderVars, rowVars
    <2>2. OrderFacts'
      BY <2>1
         DEF WholeInv, OrderFacts, WaitsForAll, SettlesTheNewest, OutputsAreOwn,
             CompletedMeansWholeRun, WholeRunSucceeded, NothingStartedIsForgotten,
             Newest, Building, Firing, Claimed, InFlight, Provisions
    <2> QED
      BY <1>0, <1>4, <2>1, <2>2, ClaimRest, FactsStay DEF WholeInv
  <1> QED
    BY <1>1, <1>2, <1>3, <1>4 DEF Next

(* ... and holds of the order as it is placed.                             *)
LEMMA WholeInit == Init => WholeInv
  <1> SUFFICES ASSUME Init PROVE WholeInv
    OBVIOUS
  <1>0. TypeOK
    BY TypeInit
  <1>1. /\ Idle.pc = "idle"
        /\ [Idle EXCEPT !.pc = "begin", !.kind = "create"].pc = "begin"
        /\ [Idle EXCEPT !.pc = "begin", !.kind = "create"].kind = "create"
        /\ NoHand.pc = "idle"
    BY DEF Idle, NoHand
  <1>2. \A r \in Runs :
          \/ run[r].pc = "idle"
          \/ /\ r = 1 /\ run[r].pc = "begin" /\ Provisions(r)
             /\ status = "provisioning"
    BY <1>1 DEF Init, Provisions
  <1>3. /\ ran = {} /\ rows = {} /\ outputs = NoRowIds /\ rowIds = NoRowIds
        /\ status # "completed" /\ track = Untracked
        /\ status = "pending" => \A r \in Runs : run[r].pc = "idle"
        /\ \A x \in Requests : settle[x].pc = "none"
        /\ \A h \in Handlers : hand[h].pc = "idle"
    BY <1>1 DEF Init, NoSettle
  <1>4. ClaimInv
    BY <1>2, <1>3
       DEF ClaimInv, OneClaim, PcFitsKind, BuildingIsOpen, UnheardAtFirst, Unheard,
           ListsItsOwn, AtElement, Building, Firing, Claimed, InFlight, Untracked
  <1>5. RunsInTurn
    <2>1. \A q \in Runs : q \in Nat /\ q >= 1
      BY DEF Runs
    <2> QED
      BY <1>2, <2>1 DEF RunsInTurn
  <1>6. \A r \in Runs : RunFacts(r)
    BY <1>2, <1>3
       DEF RunFacts, WorksOnItsElements, SkipsNothing, KnowsItsOwn, Own, AtElement
  <1>7. OrderFacts
    BY <1>2, <1>3
       DEF OrderFacts, WaitsForAll, SettlesTheNewest, OutputsAreOwn, NoRowIds,
           CompletedMeansWholeRun, NothingStartedIsForgotten
  <1> QED
    BY <1>0, <1>4, <1>5, <1>6, <1>7 DEF WholeInv

(* While a run is firing the order is not completed, whatever throws: the  *)
(* triggering entry stays until the run that wrote it closes               *)
(* (pipelineTracking.ts, settle.ts).                                       *)
THEOREM ThrowsDoNotComplete ==
  ASSUME Unhurried
  PROVE  Spec => []NoCompletionWhileFiring
  <1>1. WholeInv => NoCompletionWhileFiring
    BY DEF WholeInv, ClaimInv, BuildingIsOpen, Building, NoCompletionWhileFiring
  <1> QED
    BY <1>1, WholeInit, WholeStep, PTL DEF Spec

(* An order is completed by its whole newest run or not at all: no trigger *)
(* that failed to start, no report on an earlier attempt and no statement  *)
(* that threw completes it (orders.ts, pipelineTracking.ts, settle.ts).    *)
THEOREM CompletionIsWhole ==
  ASSUME Unhurried
  PROVE  Spec => []CompletedMeansWholeRun
  <1>1. WholeInv => CompletedMeansWholeRun
    BY DEF WholeInv, OrderFacts
  <1> QED
    BY <1>1, WholeInit, WholeStep, PTL DEF Spec

(* A run that has closed has left no pipeline of its own that the order    *)
(* does not wait for, though a record may have been lost on the way: the   *)
(* closing write reconciles the list (pipelineTracking.ts).  A pipeline    *)
(* whose trigger call failed has no id that could be written.              *)
THEOREM NothingIsForgotten ==
  ASSUME Unhurried, "answer" \notin Faults
  PROVE  Spec => []NothingStartedIsForgotten
  <1>1. WholeInv => NothingStartedIsForgotten
    BY DEF WholeInv, OrderFacts
  <1> QED
    BY <1>1, WholeInit, WholeStep, PTL DEF Spec

(* What an element of a completed order shows was read from the pipelines  *)
(* that built it last (settle.ts, orders.ts).                              *)
THEOREM OutputsBelong ==
  ASSUME Unhurried
  PROVE  Spec => []OutputsOfOwnPipelines
  <1>1. WholeInv => OutputsOfOwnPipelines
    BY DEF WholeInv, OrderFacts, OutputsAreOwn, OutputsOfOwnPipelines, TypeOK
  <1> QED
    BY <1>1, WholeInit, WholeStep, PTL DEF Spec

-----------------------------------------------------------------------------
(* Statements that throw do not make a pending order stale either, as long *)
(* as what is started is recorded: then a run that gives its order back    *)
(* finds nothing on record because it fired nothing.                       *)

OnRecord ==
  /\ status = "pending" => ran = {}
  /\ \A r \in Runs :
       Provisions(r) /\ Claimed(r) /\ run[r].pc # "record" /\ track.ids = {} => ran = {}

(* A step of the run that holds the claim fires nothing that it does not   *)
(* come to record.                                                         *)
LEMMA RecordStep ==
  ASSUME WholeInv, OnRecord, NEW r \in Runs, Claimed(r),
         \A q \in Runs : q # r => run'[q] = run[q],
         run'[r].kind = run[r].kind,
         \/ run'[r].pc = "record" /\ status' = status
         \/ /\ ran' = ran
            /\ Provisions(r) /\ track'.ids = {}
                 => (run[r].pc # "record" /\ track.ids = {}) \/ run'[r].pc = "done"
            /\ status' = "pending" =>
                 status = "pending" \/
                   (Provisions(r) /\ track.ids = {} /\ run[r].pc = "release")
  PROVE  OnRecord'
  <1>1. \A q \in Runs : q # r => ~Claimed(q)
    BY ClaimIsAlone
  <1>2. status # "pending"
    BY ClaimIsAlone
  <1>3. \A q \in Runs : q # r => ~Claimed(q)'
    BY <1>1 DEF Claimed, InFlight
  <1>4. status' = "pending" => ran' = {}
    BY <1>2 DEF OnRecord
  <1>5. ASSUME Provisions(r)', Claimed(r)', run'[r].pc # "record", track'.ids = {}
        PROVE  ran' = {}
    BY <1>5 DEF OnRecord, Provisions, Claimed, InFlight
  <1> QED
    BY <1>3, <1>4, <1>5 DEF OnRecord

LEMMA RecordRun ==
  ASSUME WholeInv, OnRecord, Unhurried, Faults \cap {"answer", "record"} = {},
         NEW r \in Runs, Approve(r) \/ Retry(r) \/ RunStep(r) \/ RunFault(r)
  PROVE  OnRecord'
  <1>0. /\ run[r] \in RunRecord /\ run \in [Runs -> RunRecord]
        /\ track \in Tracking(Pipelines)
        /\ ClaimInv
    BY DEF WholeInv, TypeOK
  <1> DEFINE Others == \A q \in Runs : q # r => run'[q] = run[q]
  <1>1. CASE Approve(r)
    <2>1. ran = {} /\ ran' = ran
      BY <1>1 DEF Approve, OnRecord
    <2> QED
      BY <2>1 DEF OnRecord
  <1>2. CASE Retry(r)
    <2>1. \A q \in Runs : ~Claimed(q)
      BY <1>2 DEF Retry, Unhurried
    <2>2. PICK e \in rows :
            run' = [run EXCEPT ![r].pc = "read", ![r].kind = "retry", ![r].cur = e]
      BY <1>2 DEF Retry
    <2>3. status' = "provisioning" /\ Others /\ ~Provisions(r)'
      BY <1>0, <1>2, <2>2 DEF Retry, Provisions, RunRecord
    <2> QED
      BY <2>1, <2>3 DEF OnRecord, Claimed, InFlight
  <1> USE DEF RunRecord, orderVars
  <1> DEFINE Same == Others /\ run'[r].kind = run[r].kind
             Still == ran' = ran /\ status' = status /\ track' = track
  <1>3. ASSUME run[r].pc \notin {"idle", "done", "settling", "record"}, Same, Still
        PROVE  OnRecord'
    <2>1. Claimed(r)
      BY <1>3 DEF Claimed, InFlight
    <2> QED
      BY <1>3, <2>1, RecordStep
  <1>4. CASE ReadSiblings(r)
    BY <1>0, <1>3, <1>4 DEF ReadSiblings
  <1>5. CASE Begin(r)
    <2>1. /\ Claimed(r) /\ Same /\ ran' = ran /\ status' = status
          /\ run[r].pc = "begin" /\ track.ids = {}
      BY <1>0, <1>5 DEF Begin, Claimed, InFlight, ClaimInv, UnheardAtFirst
    <2> QED
      BY <2>1, RecordStep
  <1>6. CASE NextElement(r)
    <2>1. PICK e \in run[r].todo :
            run' = [run EXCEPT ![r].pc = "webhooks",
                               ![r].todo = @ \ {e},
                               ![r].cur = e,
                               ![r].left = Webhooks,
                               ![r].got = {}]
      BY <1>6 DEF NextElement
    <2> QED
      BY <1>0, <1>3, <1>6, <2>1 DEF NextElement
  <1>7. CASE TriggerStarts(r)
    <2>1. PICK t \in run[r].left :
            run' = [run EXCEPT ![r].pc = "record",
                               ![r].left = @ \ {t},
                               ![r].sent = <<r, run[r].cur, t>>]
      BY <1>7 DEF TriggerStarts
    <2>2. /\ Claimed(r) /\ Same /\ status' = status /\ run'[r].pc = "record"
      BY <1>0, <1>7, <2>1 DEF TriggerStarts, Claimed, InFlight
    <2> QED
      BY <2>2, RecordStep
  <1>8. CASE TriggerFails(r)
    <2>1. PICK t \in run[r].left : Unanswered(r, t)
      BY <1>8 DEF TriggerFails
    <2> QED
      BY <1>0, <1>3, <1>8, <2>1 DEF TriggerFails, Unanswered
  <1>9. CASE Record(r)
    <2>1. /\ Claimed(r) /\ Same /\ ran' = ran /\ status' = status
          /\ track'.ids # {}
      BY <1>0, <1>9 DEF Record, Recorded, RecordId, Tracking, Claimed, InFlight
    <2>2. status # "pending"
      BY <2>1, ClaimIsAlone
    <2> QED
      BY <2>1, <2>2, RecordStep
  <1>10. CASE LookupStacks(r)
    BY <1>0, <1>3, <1>10 DEF LookupStacks
  <1>11. CASE EndElement(r)
    BY <1>0, <1>3, <1>11 DEF EndElement
  <1>12. CASE LookupThrows(r)
    BY <1>0, <1>3, <1>12 DEF LookupThrows
  <1>13. CASE EndLoop(r)
    BY <1>0, <1>3, <1>13 DEF EndLoop
  <1>14. CASE Rewrite(r)
    <2>1. PICK e \in run[r].todo :
            run' = [run EXCEPT
                     ![r].pc = IF run[r].todo = {e} THEN "close" ELSE "rewrite",
                     ![r].todo = @ \ {e}]
      BY <1>14 DEF Rewrite
    <2> QED
      BY <1>0, <1>3, <1>14, <2>1 DEF Rewrite
  <1>15. CASE Close(r)
    <2>1. /\ Claimed(r) /\ Same /\ ran' = ran /\ status' = status /\ ~Claimed(r)'
      BY <1>0, <1>15 DEF Close, Goto, Claimed, InFlight
    <2>2. /\ \A q \in Runs : ~Claimed(q)'
          /\ status # "pending"
      BY <2>1, ClaimIsAlone DEF Claimed, InFlight
    <2> QED
      BY <2>1, <2>2 DEF OnRecord
  <1>16. CASE Undo(r)
    BY <1>0, <1>3, <1>16 DEF Undo, Goto
  <1>17. CASE Clear(r)
    <2>1. /\ Claimed(r) /\ Same /\ ran' = ran /\ status' = status
          /\ run[r].pc = "clear" /\ track.ids = {}
      BY <1>0, <1>17 DEF Clear, Goto, Claimed, InFlight, ClaimInv, UnheardAtFirst
    <2> QED
      BY <2>1, RecordStep
  <1>18. CASE Release(r)
    <2>1. /\ Claimed(r) /\ Same /\ ran' = ran
          /\ run[r].pc = "release" /\ run'[r].pc = "done"
          /\ status' = "pending" => status = "pending" \/ (Provisions(r) /\ track.ids = {})
      BY <1>0, <1>18 DEF Release, Goto, Claimed, InFlight, Provisions
    <2> QED
      BY <2>1, RecordStep
  <1>19. CASE Return(r) \/ Crash(r) \/ QueryThrows(r)
    <2>1. /\ Same /\ Still
          /\ run[r].pc \notin {"idle", "done"}
          /\ run'[r].pc \in {"release", "done"}
          /\ run[r].pc = "record" => run'[r].pc = "done"
          /\ run'[r].pc = "release" => QueryThrows(r)
      BY <1>0, <1>19 DEF Return, Crash, QueryThrows, AtStatement, Goto, InFlight
    <2>2. CASE run[r].pc = "settling"
      <3>1. ASSUME run'[r].pc = "release" PROVE track.ids # {}
        <4>1. settle[r].pc # "none" /\ r \in Requests
          BY <2>1, <2>2, <3>1 DEF QueryThrows, AtStatement, Requests
        <4> QED
          BY <4>1 DEF WholeInv, OrderFacts, SettlesTheNewest, IsSettled
      <3> QED
        BY <2>1, <2>2, <3>1 DEF OnRecord, Claimed, InFlight, Provisions
    <2>3. CASE run[r].pc # "settling"
      <3>1. Claimed(r)
        BY <2>1, <2>3 DEF Claimed, InFlight
      <3> QED
        BY <2>1, <3>1, RecordStep
    <2> QED
      BY <2>2, <2>3
  <1>20. ~AnswerLost(r) /\ ~RecordLost(r)
    BY DEF AnswerLost, RecordLost, Fault
  <1> QED
    BY <1>1, <1>2, <1>4, <1>5, <1>6, <1>7, <1>8, <1>9, <1>10, <1>11, <1>12, <1>13,
       <1>14, <1>15, <1>16, <1>17, <1>18, <1>19, <1>20 DEF RunStep, RunFault

LEMMA RecordInv ==
  Unhurried /\ Faults \cap {"answer", "record"} = {} /\ WholeInv /\ OnRecord /\ [Next]_vars
    => OnRecord'
  <1> SUFFICES ASSUME Unhurried, Faults \cap {"answer", "record"} = {}, WholeInv, OnRecord,
                      [Next]_vars
               PROVE  OnRecord'
    OBVIOUS
  <1>1. ASSUME NEW r \in Runs, Approve(r) \/ Retry(r) \/ RunStep(r) \/ RunFault(r)
        PROVE  OnRecord'
    BY <1>1, RecordRun
  <1>2. ASSUME UNCHANGED <<run, ran>>, track'.ids = track.ids,
               status' = "pending" => status = "pending"
        PROVE  OnRecord'
    BY <1>2 DEF OnRecord, Provisions, Claimed, InFlight
  <1>3. ASSUME NEW h \in Handlers,
               \/ \E p \in Pipelines, s \in Reports : Receive(h, p, s)
               \/ HandlerStep(h)
               \/ HandlerFails(h)
        PROVE  OnRecord'
    BY <1>2, <1>3
       DEF Receive, HandlerStep, HandleSuccess, HandleFailure, HandlerFails,
           MergeSuccess, MergeFailure, orderVars, WholeInv, TypeOK, Tracking
  <1>4. ASSUME NEW x \in Requests, SettleStep(x)
        PROVE  OnRecord'
    BY <1>2, <1>4
       DEF SettleStep, SettleRead, SettleWrite, SettleSwap, SettleAudit, orderVars
  <1>5. CASE MarkFailed \/ UNCHANGED vars
    BY <1>2, <1>5 DEF MarkFailed, vars, orderVars
  <1> QED
    BY <1>1, <1>3, <1>4, <1>5 DEF Next

(* An order that is given back after a statement threw has fired nothing:  *)
(* what a run fired is on record, and then the order is not given back     *)
(* (approvals.ts, anythingStarted).                                        *)
THEOREM GivenBackIsFresh ==
  ASSUME Unhurried, Faults \cap {"answer", "record"} = {}
  PROVE  Spec => []PendingMeansNothingRan
  <1>1. Init => OnRecord
    BY DEF Init, OnRecord
  <1>2. WholeInv /\ OnRecord => PendingMeansNothingRan
    BY DEF OnRecord, PendingMeansNothingRan
  <1> QED
    BY <1>1, <1>2, WholeInit, WholeStep, RecordInv, PTL DEF Spec
=============================================================================
