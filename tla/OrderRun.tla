------------------------------ MODULE OrderRun ------------------------------
(***************************************************************************)
(* One order from the moment something may be built for it: the trigger    *)
(* runs that fire its pipelines, the callbacks that report on them, and    *)
(* the settlement that completes it.                                       *)
(*                                                                         *)
(* Every step is one database statement, or one call to the CI system, of  *)
(* a request the backend is serving; requests interleave freely between    *)
(* their steps, as the awaits of the handlers allow.  A request is either  *)
(* a trigger run (an admin placing an order, an approval, a retry) or the  *)
(* delivery of one pipeline event.                                         *)
(*                                                                         *)
(* Rows of other orders share nothing with this one: a pipeline id belongs *)
(* to one environment and one run.                                         *)
(***************************************************************************)
EXTENDS Naturals, PipelineTracking

CONSTANTS
  Quantity,   \* elements the order asks for
  Webhooks,   \* product webhooks configured for the product and environment
  Stacks,     \* pipeline stacks configured for them
  MaxRuns,    \* trigger runs of the order: the bound on approvals and retries
  Handlers,   \* callback requests that may be served at once
  Reports,    \* what the CI system may report, within {"success", "failed"}
  Overlaps,   \* requests about the order that Retry may find still at work
  Faults,     \* kinds of fault that may strike a request
  MaxFaults   \* how many faults may strike, all kinds together

FaultKinds ==
  {"crash",    \* the process dies and its request goes no further
   "query",    \* a database statement of the request throws
   "lookup",   \* reading the webhook or stack rows throws
   "answer",   \* a pipeline starts, and the call that started it fails
   "record"}   \* writing down a started pipeline throws, and is swallowed

OverlapKinds ==
  {"run",      \* a trigger run that still holds its claim
   "event",    \* a callback that has matched the order and not merged its report
   "settle"}   \* a settlement that has not reached its compare-and-swap

ASSUME OrderRunAssumption ==
  /\ Quantity \in Nat \ {0}
  /\ MaxRuns \in Nat \ {0}
  /\ Webhooks \cap Stacks = {}
  /\ (1..MaxRuns) \cap Handlers = {}
  /\ Reports \subseteq {"success", "failed"}
  /\ Overlaps \subseteq OverlapKinds
  /\ Faults \subseteq FaultKinds
  /\ MaxFaults \in Nat

Runs      == 1..MaxRuns
Triggers  == Webhooks \cup Stacks
Rows      == Runs \X (1..Quantity)       \* the run that inserts it, its sequence
Pipelines == Runs \X Rows \X Triggers    \* the run, element and trigger it is for
Requests  == Runs \cup Handlers

NoPipeline == <<>>

VARIABLES
  status,    \* orders.status
  track,     \* orders.pipeline_id and orders.pipeline_status
  rows,      \* the order's infrastructure_elements rows
  rowIds,    \* their pipeline_id: the pipelines of the run that last built each
  outputs,   \* the pipelines whose logs each row's outputs were parsed from
  run,       \* the trigger runs
  hand,      \* callback requests, between their SELECT and their UPDATE
  settle,    \* settlements, between their decision and their compare-and-swap
  ran,       \* pipelines the CI system has started
  faults     \* faults that have struck

orderVars == <<status, track>>
rowVars   == <<rows, rowIds, outputs>>
vars      == <<orderVars, rowVars, run, hand, settle, ran, faults>>

-----------------------------------------------------------------------------
(* Types.                                                                  *)

Statuses == {"pending", "provisioning", "completed", "failed"}

RunPc ==
  {"idle", "begin", "read", "next", "webhooks", "stacks", "record", "rewrite",
   "close", "undo", "clear", "release", "settling", "done"}

RunRecord ==
  [pc : RunPc,
   kind : {"none", "create", "approve", "retry"},
   elems : SUBSET Rows,        \* the elements the run is for
   todo : SUBSET Rows,         \* those it has not come to yet
   cur : Rows,                 \* the one it is at
   left : SUBSET Triggers,     \* triggers of this stage not fired yet
   sent : Pipelines \cup {NoPipeline},   \* started, not recorded yet
   got : SUBSET Pipelines,     \* ids this element's triggers returned so far
   started : SUBSET Pipelines, \* ids of the elements gone through
   failures : BOOLEAN]         \* did any trigger fail to start?

HandRecord ==
  [pc : {"idle", "merge"},
   pipeline : Pipelines \cup {NoPipeline},
   report : {"success", "failed"}]

SettleRecord ==
  [pc : {"none", "read", "write", "swap", "audit"},
   decided : Tracking(Pipelines),
   seen : SUBSET Rows,
   ids : [Rows -> SUBSET Pipelines]]

TypeOK ==
  /\ status \in Statuses
  /\ track \in Tracking(Pipelines)
  /\ rows \subseteq Rows
  /\ rowIds \in [Rows -> SUBSET Pipelines]
  /\ outputs \in [Rows -> SUBSET Pipelines]
  /\ run \in [Runs -> RunRecord]
  /\ hand \in [Handlers -> HandRecord]
  /\ settle \in [Requests -> SettleRecord]
  /\ ran \subseteq Pipelines
  /\ faults \in Nat
  /\ \A r \in Runs : run[r].pc = "record" => run[r].sent \in Pipelines
  /\ \A h \in Handlers : hand[h].pc = "merge" => hand[h].pipeline \in Pipelines

-----------------------------------------------------------------------------
(* Initial states: a request that waits for approval, or an admin's order, *)
(* inserted 'provisioning' by the request that now builds it.              *)

NoRowIds == [e \in Rows |-> {}]

Idle ==
  [pc |-> "idle", kind |-> "none", elems |-> {}, todo |-> {}, cur |-> <<1, 1>>,
   left |-> {}, sent |-> NoPipeline, got |-> {}, started |-> {},
   failures |-> FALSE]

NoHand == [pc |-> "idle", pipeline |-> NoPipeline, report |-> "success"]

NoSettle ==
  [pc |-> "none", decided |-> Untracked, seen |-> {}, ids |-> NoRowIds]

Init ==
  /\ \/ /\ status = "pending"
        /\ run = [r \in Runs |-> Idle]
     \/ /\ status = "provisioning"
        /\ run = [r \in Runs |-> IF r = 1
                                   THEN [Idle EXCEPT !.pc = "begin", !.kind = "create"]
                                   ELSE Idle]
  /\ track = Untracked
  /\ rows = {}
  /\ rowIds = NoRowIds
  /\ outputs = NoRowIds
  /\ hand = [h \in Handlers |-> NoHand]
  /\ settle = [x \in Requests |-> NoSettle]
  /\ ran = {}
  /\ faults = 0

-----------------------------------------------------------------------------
(* Where a run is.                                                         *)

InFlight(r) == run[r].pc \notin {"idle", "done"}

(* Holding the claim: not yet come to leave the decision to the callbacks. *)
Claimed(r) == InFlight(r) /\ run[r].pc # "settling"

(* Holding it, and not on the way to give it back.                         *)
Firing(r) == Claimed(r) /\ run[r].pc # "release"

(* Runs are used in order, so the newest claim is the greatest used one.   *)
NextRun(r) ==
  /\ run[r].pc = "idle"
  /\ \A q \in Runs : q < r => run[q].pc # "idle"

Newest(r) ==
  /\ run[r].pc # "idle"
  /\ \A q \in Runs : q > r => run[q].pc = "idle"

Provisions(r) == run[r].kind \in {"create", "approve"}

(* A faulty variant of NothingStarted: a failed trigger counts for nothing *)
(* having been started.                                                    *)
SomethingFailed(r) == run[r].failures

NothingStarted(r) == run[r].started = {}

Goto(r, pc) == run' = [run EXCEPT ![r].pc = pc]

Fault(kind) ==
  /\ kind \in Faults
  /\ faults < MaxFaults
  /\ faults' = faults + 1

-----------------------------------------------------------------------------
(* Claims.                                                                 *)

(* approveOrder takes a pending order; of two approvals one gets the row.  *)
Approve(r) ==
  /\ NextRun(r)
  /\ status = "pending"
  /\ status' = "provisioning"
  /\ run' = [run EXCEPT ![r].pc = "begin", ![r].kind = "approve"]
  /\ UNCHANGED <<track, rowVars, hand, settle, ran, faults>>

(* retryProvisioning takes a failed order and opens its own run in the     *)
(* same statement.  It is reached from an element of the order.            *)
Retry(r) ==
  /\ NextRun(r)
  /\ "run" \in Overlaps \/ \A q \in Runs : ~Claimed(q)
  /\ "event" \in Overlaps \/ \A h \in Handlers : hand[h].pc = "idle"
  /\ "settle" \in Overlaps \/ \A x \in Requests : settle[x].pc = "none"
  /\ status = "failed"
  /\ status' = "provisioning"
  /\ track' = OpenRun
  /\ \E e \in rows :
       run' = [run EXCEPT ![r].pc = "read", ![r].kind = "retry", ![r].cur = e]
  /\ UNCHANGED <<rowVars, hand, settle, ran, faults>>

(* Every active element of the order, or the one Retry was pressed on.     *)
ReadSiblings(r) ==
  /\ run[r].pc = "read"
  /\ LET elements == IF rows # {} THEN rows ELSE {run[r].cur}
     IN run' = [run EXCEPT ![r].pc = "next",
                           ![r].elems = elements,
                           ![r].todo = elements]
  /\ UNCHANGED <<orderVars, rowVars, hand, settle, ran, faults>>

-----------------------------------------------------------------------------
(* The fan-out.                                                            *)

(* beginOrderTriggerRun, which leaves an order alone that somebody has     *)
(* already taken out of 'provisioning'.                                    *)
Begin(r) ==
  /\ run[r].pc = "begin"
  /\ track' = IF status = "provisioning" THEN OpenRun ELSE track
  /\ run' = [run EXCEPT ![r].pc = "next",
                        ![r].elems = {r} \X (1..Quantity),
                        ![r].todo = {r} \X (1..Quantity)]
  /\ UNCHANGED <<status, rowVars, hand, settle, ran, faults>>

(* Elements are gone through in the order of their sequence.               *)
Foremost(e, elements) == \A f \in elements : e[2] <= f[2]

(* Turn to the next element in sequence.  A provisioning run inserts its   *)
(* row first, before anything is fired for it.                             *)
NextElement(r) ==
  /\ run[r].pc = "next"
  /\ \E e \in run[r].todo :
       /\ Foremost(e, run[r].todo)
       /\ run' = [run EXCEPT ![r].pc = "webhooks",
                             ![r].todo = @ \ {e},
                             ![r].cur = e,
                             ![r].left = Webhooks,
                             ![r].got = {}]
       /\ rows' = IF Provisions(r) THEN rows \cup {e} ELSE rows
  /\ UNCHANGED <<orderVars, rowIds, outputs, hand, settle, ran, faults>>

(* The CI system starts a pipeline.  From here on it can report back.      *)
TriggerStarts(r) ==
  /\ run[r].pc \in {"webhooks", "stacks"}
  /\ \E t \in run[r].left :
       LET p == <<r, run[r].cur, t>>
       IN /\ ran' = ran \cup {p}
          /\ run' = [run EXCEPT ![r].pc = "record",
                                ![r].left = @ \ {t},
                                ![r].sent = p]
  /\ UNCHANGED <<orderVars, rowVars, hand, settle, faults>>

(* The trigger call fails; the others of the run are still fired.          *)
Unanswered(r, t) ==
  run' = [run EXCEPT ![r].left = @ \ {t}, ![r].failures = TRUE]

TriggerFails(r) ==
  /\ run[r].pc \in {"webhooks", "stacks"}
  /\ \E t \in run[r].left : Unanswered(r, t)
  /\ UNCHANGED <<orderVars, rowVars, hand, settle, ran, faults>>

(* It fails, but the pipeline runs: its id is never known here.            *)
AnswerLost(r) ==
  /\ run[r].pc \in {"webhooks", "stacks"}
  /\ Fault("answer")
  /\ \E t \in run[r].left :
       /\ Unanswered(r, t)
       /\ ran' = ran \cup {<<r, run[r].cur, t>>}
  /\ UNCHANGED <<orderVars, rowVars, hand, settle>>

(* recordOrderPipelineId, once per started pipeline, on the order whatever *)
(* its status.  reportStarted swallows its failure.                        *)
Recorded(r) ==
  run' = [run EXCEPT ![r].pc = IF run[r].sent[3] \in Webhooks THEN "webhooks" ELSE "stacks",
                     ![r].sent = NoPipeline,
                     ![r].got = @ \cup {run[r].sent}]

Record(r) ==
  /\ run[r].pc = "record"
  /\ track' = RecordId(track, run[r].sent)
  /\ Recorded(r)
  /\ UNCHANGED <<status, rowVars, hand, settle, ran, faults>>

RecordLost(r) ==
  /\ run[r].pc = "record"
  /\ Fault("record")
  /\ Recorded(r)
  /\ UNCHANGED <<orderVars, rowVars, hand, settle, ran>>

(* All webhooks fired: read the stack rows and go on to those.             *)
LookupStacks(r) ==
  /\ run[r].pc = "webhooks"
  /\ run[r].left = {}
  /\ run' = [run EXCEPT ![r].pc = "stacks", ![r].left = Stacks]
  /\ UNCHANGED <<orderVars, rowVars, hand, settle, ran, faults>>

(* All stacks fired.  A provisioning run writes the element's own ids now. *)
EndElement(r) ==
  /\ run[r].pc = "stacks"
  /\ run[r].left = {}
  /\ run' = [run EXCEPT ![r].pc = "next",
                        ![r].started = @ \cup run[r].got,
                        ![r].got = {}]
  /\ rowIds' = IF /\ Provisions(r)
                  /\ run[r].got # {}
                  /\ run[r].cur \in rows
                 THEN [rowIds EXCEPT ![run[r].cur] = run[r].got]
                 ELSE rowIds
  /\ UNCHANGED <<orderVars, rows, outputs, hand, settle, ran, faults>>

(* Reading the webhook or the stack rows throws, and with it goes what     *)
(* this element's triggers had returned.  A retry that has counted no      *)
(* pipeline yet gives its claim back; any other run goes on to the next    *)
(* element.                                                                *)
LookupThrows(r) ==
  /\ run[r].pc = "webhooks"
  /\ run[r].left \in {Webhooks, {}}
  /\ Fault("lookup")
  /\ run' = [run EXCEPT ![r].pc = IF run[r].kind = "retry" /\ NothingStarted(r)
                                    THEN "release" ELSE "next",
                        ![r].left = {},
                        ![r].got = {},
                        ![r].failures = TRUE]
  /\ UNCHANGED <<orderVars, rowVars, hand, settle, ran>>

-----------------------------------------------------------------------------
(* The end of a run.                                                       *)

(* The loop is over: did any pipeline start?                               *)
EndLoop(r) ==
  /\ run[r].pc = "next"
  /\ run[r].todo = {}
  /\ LET pc == CASE NothingStarted(r) /\ Provisions(r)   -> "undo"
                 [] NothingStarted(r) /\ ~Provisions(r)  -> "release"
                 [] ~NothingStarted(r) /\ Provisions(r)  -> "close"
                 [] ~NothingStarted(r) /\ ~Provisions(r) -> "rewrite"
     IN run' = [run EXCEPT ![r].pc = pc, ![r].todo = run[r].elems]
  /\ UNCHANGED <<orderVars, rowVars, hand, settle, ran, faults>>

(* A retry gives each element it was for its own new ids and forgets the   *)
(* outputs of the attempt it replaces.                                     *)
Rewrite(r) ==
  /\ run[r].pc = "rewrite"
  /\ \E e \in run[r].todo :
       /\ Foremost(e, run[r].todo)
       /\ run' = [run EXCEPT ![r].pc = IF run[r].todo = {e} THEN "close" ELSE "rewrite",
                             ![r].todo = @ \ {e}]
       /\ rowIds' = [rowIds EXCEPT ![e] = IF e \in rows
                                            THEN {p \in run[r].started : p[2] = e}
                                            ELSE @]
       /\ outputs' = [outputs EXCEPT ![e] = IF e \in rows THEN {} ELSE @]
  /\ UNCHANGED <<orderVars, rows, hand, settle, ran, faults>>

(* A faulty variant of SettleFrom: only callbacks ask.                     *)
SettleFromCallback(x, t) ==
  settle' = IF x \in Handlers /\ IsSettled(t)
              THEN [settle EXCEPT ![x] = [NoSettle EXCEPT !.pc = "read",
                                                          !.decided = t]]
              ELSE settle

(* A settlement starts when the row just written is settled.               *)
SettleFrom(x, t) ==
  settle' = IF IsSettled(t)
              THEN [settle EXCEPT ![x] = [NoSettle EXCEPT !.pc = "read",
                                                          !.decided = t]]
              ELSE settle

(* finishOrderTriggerRun, and the question the callbacks were refused.     *)
Close(r) ==
  /\ run[r].pc = "close"
  /\ track' = CloseRun(track, run[r].started, run[r].failures)
  /\ SettleFrom(r, track')
  /\ Goto(r, "settling")
  /\ UNCHANGED <<status, rowVars, hand, ran, faults>>

(* Nothing started: the rows go, then the tracking is cleared, and the     *)
(* caller hears of it by an exception.                                     *)
Undo(r) ==
  /\ run[r].pc = "undo"
  /\ rows' = {e \in rows : e[1] # r}
  /\ rowIds' = [e \in Rows |-> IF e[1] = r THEN {} ELSE rowIds[e]]
  /\ outputs' = [e \in Rows |-> IF e[1] = r THEN {} ELSE outputs[e]]
  /\ Goto(r, "clear")
  /\ UNCHANGED <<orderVars, hand, settle, ran, faults>>

Clear(r) ==
  /\ run[r].pc = "clear"
  /\ track' = Untracked
  /\ Goto(r, "release")
  /\ UNCHANGED <<status, rowVars, hand, settle, ran, faults>>

(* What the caller does about the exception: an admin's order is failed,   *)
(* an approval is given back unless a pipeline is on record, and a retry   *)
(* is failed again with its tracking cleared.                              *)
Release(r) ==
  /\ run[r].pc = "release"
  /\ \/ /\ run[r].kind = "create"
        /\ status' = "failed"
        /\ UNCHANGED track
     \/ /\ run[r].kind = "approve"
        /\ status' = IF track.ids = {} THEN "pending" ELSE status
        /\ UNCHANGED track
     \/ /\ run[r].kind = "retry"
        /\ status' = "failed"
        /\ track' = Untracked
  /\ Goto(r, "done")
  /\ UNCHANGED <<rowVars, hand, settle, ran, faults>>

(* The request returns once its settlement, if it has one, is over.        *)
Return(r) ==
  /\ run[r].pc = "settling"
  /\ settle[r].pc = "none"
  /\ Goto(r, "done")
  /\ UNCHANGED <<orderVars, rowVars, hand, settle, ran, faults>>

-----------------------------------------------------------------------------
(* Pipeline events.                                                        *)

(* Two faulty variants: a failed order no longer listens, as before #500;  *)
(* a failure is written over any status.                                   *)
ListeningWhileProvisioning == status = "provisioning"
FailableAlways             == TRUE

(* Success may still move a failed order; a failure moves none but a       *)
(* provisioning one.                                                       *)
Listening == status \in {"provisioning", "failed"}
Failable  == status = "provisioning"

(* handlePipelineEvent looks for an order that waits for the pipeline; an  *)
(* event that finds none is gone.  The same event may come again, and a    *)
(* pipeline restarted in the CI system reports anew.                       *)
Receive(h, p, s) ==
  /\ hand[h].pc = "idle"
  /\ settle[h].pc = "none"
  /\ p \in ran
  /\ s \in Reports
  /\ Listening
  /\ p \in track.ids
  /\ hand' = [hand EXCEPT ![h] = [pc |-> "merge", pipeline |-> p, report |-> s]]
  /\ UNCHANGED <<orderVars, rowVars, run, settle, ran, faults>>

(* A success is merged while the order is not terminal, and may settle it. *)
HandleSuccess(h) ==
  /\ hand[h].pc = "merge"
  /\ hand[h].report = "success"
  /\ hand' = [hand EXCEPT ![h] = NoHand]
  /\ IF Listening
       THEN /\ track' = MergeSuccess(track, hand[h].pipeline)
            /\ SettleFrom(h, track')
       ELSE UNCHANGED <<track, settle>>
  /\ UNCHANGED <<status, rowVars, run, ran, faults>>

(* One failure fails an order that is provisioning, and no other.          *)
HandleFailure(h) ==
  /\ hand[h].pc = "merge"
  /\ hand[h].report = "failed"
  /\ hand' = [hand EXCEPT ![h] = NoHand]
  /\ IF Failable
       THEN /\ status' = "failed"
            /\ track' = MergeFailure(track, hand[h].pipeline)
       ELSE UNCHANGED orderVars
  /\ UNCHANGED <<rowVars, run, settle, ran, faults>>

-----------------------------------------------------------------------------
(* Settlement, by whichever request decided that the order is settled.     *)

(* Read the order's elements and the pipelines of each.                    *)
SettleRead(x) ==
  /\ settle[x].pc = "read"
  /\ settle' = [settle EXCEPT
                  ![x].pc = IF rows = {} THEN "swap" ELSE "write",
                  ![x].seen = rows,
                  ![x].ids = [e \in Rows |-> IF e \in rows THEN rowIds[e] ELSE {}]]
  /\ UNCHANGED <<orderVars, rowVars, run, hand, ran, faults>>

(* A faulty variant: the logs of the whole order, for each element (#104). *)
LogsOfOrder(x, e) == UNION {settle[x].ids[f] : f \in Rows}

LogsOf(x, e) == settle[x].ids[e]

(* Element by element, fetch and parse the logs; the outputs are stored    *)
(* unless no log could be read.                                            *)
SettleWrite(x) ==
  /\ settle[x].pc = "write"
  /\ \E e \in settle[x].seen :
       /\ Foremost(e, settle[x].seen)
       /\ \E readable \in BOOLEAN :
            outputs' = IF readable /\ e \in rows
                         THEN [outputs EXCEPT ![e] = LogsOf(x, e)]
                         ELSE outputs
       /\ settle' = [settle EXCEPT
                       ![x].pc = IF settle[x].seen = {e} THEN "swap" ELSE "write",
                       ![x].seen = @ \ {e}]
  /\ UNCHANGED <<orderVars, rows, rowIds, run, hand, ran, faults>>

(* Complete the order if its map is still the one that was decided on.     *)
SettleSwap(x) ==
  /\ settle[x].pc = "swap"
  /\ IF status \in {"provisioning", "failed"} /\ SameStatus(track, settle[x].decided)
       THEN /\ status' = "completed"
            /\ settle' = [settle EXCEPT ![x].pc = "audit"]
       ELSE /\ status' = status
            /\ settle' = [settle EXCEPT ![x] = NoSettle]
  /\ UNCHANGED <<track, rowVars, run, hand, ran, faults>>

(* The audit entry and the mail that follow a completion.                  *)
SettleAudit(x) ==
  /\ settle[x].pc = "audit"
  /\ settle' = [settle EXCEPT ![x] = NoSettle]
  /\ UNCHANGED <<orderVars, rowVars, run, hand, ran, faults>>

-----------------------------------------------------------------------------
(* Root's way out, and faults.                                             *)

(* markOrderFailed, for an order that has been silent for                  *)
(* STUCK_ORDER_SILENCE_MS: half an hour.  Runs and merged reports touch    *)
(* updated_at, and no request lives that long, so none of those that wrote *)
(* to the order is still at work; an event just matched may be.            *)
MarkFailed ==
  /\ status = "provisioning"
  /\ \A r \in Runs : ~InFlight(r)
  /\ \A x \in Requests : settle[x].pc = "none"
  /\ status' = "failed"
  /\ UNCHANGED <<track, rowVars, run, hand, settle, ran, faults>>

Crash(r) ==
  /\ InFlight(r)
  /\ Fault("crash")
  /\ Goto(r, "done")
  /\ settle' = [settle EXCEPT ![r] = NoSettle]
  /\ UNCHANGED <<orderVars, rowVars, hand, ran>>

(* The places where the next thing a run does is a database statement.     *)
AtStatement(r) ==
  \/ run[r].pc \in {"begin", "read", "rewrite", "close", "undo", "clear", "release"}
  \/ Provisions(r) /\ run[r].pc = "next" /\ run[r].todo # {}
  \/ Provisions(r) /\ run[r].pc = "stacks" /\ run[r].left = {}
       /\ (run[r].got # {} \/ Stacks # {})
  \/ run[r].pc = "settling" /\ settle[r].pc # "none"

(* It throws.  The callers of provisionOrderElements catch that and go to  *)
(* their release; a retry, or a release itself, just ends.  The audit      *)
(* entry of a completion is such a statement, after the order is already   *)
(* 'completed'.                                                            *)
QueryThrows(r) ==
  /\ AtStatement(r)
  /\ Fault("query")
  /\ Goto(r, IF Provisions(r) /\ run[r].pc # "release" THEN "release" ELSE "done")
  /\ settle' = [settle EXCEPT ![r] = NoSettle]
  /\ UNCHANGED <<orderVars, rowVars, hand, ran>>

(* A callback request ends early, by a crash or by a throw.                *)
HandlerFails(h) ==
  /\ hand[h].pc # "idle" \/ settle[h].pc # "none"
  /\ Fault("crash") \/ Fault("query")
  /\ hand' = [hand EXCEPT ![h] = NoHand]
  /\ settle' = [settle EXCEPT ![h] = NoSettle]
  /\ UNCHANGED <<orderVars, rowVars, run, ran>>

-----------------------------------------------------------------------------
RunStep(r) ==
  \/ ReadSiblings(r) \/ Begin(r) \/ NextElement(r)
  \/ TriggerStarts(r) \/ TriggerFails(r) \/ Record(r)
  \/ LookupStacks(r) \/ EndElement(r) \/ EndLoop(r)
  \/ Rewrite(r) \/ Close(r) \/ Undo(r) \/ Clear(r) \/ Release(r) \/ Return(r)

RunFault(r) ==
  \/ AnswerLost(r) \/ RecordLost(r) \/ LookupThrows(r)
  \/ Crash(r) \/ QueryThrows(r)

HandlerStep(h) == HandleSuccess(h) \/ HandleFailure(h)

SettleStep(x) ==
  SettleRead(x) \/ SettleWrite(x) \/ SettleSwap(x) \/ SettleAudit(x)

Next ==
  \/ \E r \in Runs : Approve(r) \/ Retry(r) \/ RunStep(r) \/ RunFault(r)
  \/ \E h \in Handlers : \/ \E p \in Pipelines, s \in Reports : Receive(h, p, s)
                         \/ HandlerStep(h)
                         \/ HandlerFails(h)
  \/ \E x \in Requests : SettleStep(x)
  \/ MarkFailed

Spec == Init /\ [][Next]_vars

-----------------------------------------------------------------------------
(* Safety.                                                                 *)

(* No order is reported as completed while a run is still firing triggers  *)
(* for it: the triggering entry holds the settlement shut until the run    *)
(* that wrote it closes (settle.ts, pipelineTracking.ts).                  *)
NoCompletionWhileFiring ==
  \A r \in Runs : Firing(r) => status # "completed"

(* Every trigger of every element the run was for was started, is waited   *)
(* for, and has reported success.                                          *)
WholeRunSucceeded(r) ==
  \A e \in run[r].elems, t \in Triggers :
    <<r, e, t>> \in track.ids \cap track.ok

(* A completed order is a fully built one: a trigger that could not be     *)
(* started, or a report that belongs to an earlier attempt, never lets the *)
(* newest attempt pass for complete (the trigger-failed sentinels, and the *)
(* swap on the map that was decided on).                                   *)
CompletedMeansWholeRun ==
  status = "completed" => \A r \in Runs : Newest(r) => WholeRunSucceeded(r)

(* An order that an approver may approve again has no pipeline running: a  *)
(* claim is given back only when nothing was started, or the next approval *)
(* builds the same infrastructure twice (approvals.ts, anythingStarted).   *)
PendingMeansNothingRan == status = "pending" => ran = {}

(* A pipeline the newest run started is one the order waits for once the   *)
(* run has closed, even if writing it down failed when it started: the     *)
(* closing write reconciles the list (appendMissing).                      *)
NothingStartedIsForgotten ==
  \A r \in Runs :
    Newest(r) /\ run[r].pc = "settling"
      => {p \in ran : p[1] = r} \subseteq track.ids

(* The outputs an element of a completed order shows were read from the    *)
(* pipelines that built it last.                                           *)
OutputsOfOwnPipelines ==
  status = "completed" => \A e \in rows : outputs[e] \subseteq rowIds[e]

(* A completed order stays completed: no stale event, late release or      *)
(* write-off takes it back.                                                *)
CompletedIsFinal == [][status = "completed" => status' = "completed"]_vars

-----------------------------------------------------------------------------
(* What the order's status promises (OrderStatus), kept by all of the      *)
(* above: one claim at a time, no completion under a claim, completed for  *)
(* good, back to the approvers only with nothing fired.                    *)

Promise == INSTANCE OrderStatus WITH
             claimed <- \E r \in Runs : Claimed(r),
             fired   <- ran # {}

KeepsPromise == Promise!OrderSpec

-----------------------------------------------------------------------------
(* Liveness.                                                               *)

(* A request that is being served is served to its end.                    *)
Served ==
  /\ \A r \in Runs : WF_vars(RunStep(r))
  /\ \A h \in Handlers : WF_vars(HandlerStep(h))
  /\ \A x \in Requests : WF_vars(SettleStep(x))

ServedSpec == Spec /\ Served

(* The CI system's side, assumed where it is needed: a pipeline the order  *)
(* waits for reports its success, and does so again if nobody was there to *)
(* take the report.                                                        *)
Reported ==
  \A p \in Pipelines : SF_vars(\E h \in Handlers : Receive(h, p, "success"))

(* Once every pipeline waited for has succeeded and nothing blocks, the    *)
(* order is completed by the requests at hand, without any further event,  *)
(* unless it stops being settled: whoever takes the triggering entry out,  *)
(* or merges the last success, has asked the question (settle.ts).         *)
SettledOrderCompletes ==
  status \in {"provisioning", "failed"} /\ IsSettled(track)
    ~> status = "completed" \/ ~IsSettled(track)

(* If every success is reported, an order whose newest run started every   *)
(* trigger is completed or taken by a later run; being written off in      *)
(* between does not keep it from that, for a failed order still listens    *)
(* (handler.ts, #500).                                                     *)
StartedOrderCompletes ==
  Reported =>
    \A r \in Runs :
      Newest(r) /\ run[r].pc = "settling" /\ ~run[r].failures
        ~> status = "completed" \/ ~Newest(r)
=============================================================================
