------------------------------ MODULE Teardown ------------------------------
(***************************************************************************)
(* The elements of one order from 'active' to 'decommissioned': the claims *)
(* of the Decommission button, of the sweep of due elements and of the     *)
(* deletions that cascade, the destroy triggers each claim fires, the      *)
(* callbacks that report on them, and a Retry of the order going on beside *)
(* them.                                                                   *)
(*                                                                         *)
(* Every step is one database statement, or one call to the CI system.  A  *)
(* job is a request that tears elements down, one after the other.  How    *)
(* the order itself is built is OrderRun's subject; here it is a status,   *)
(* and a Retry is what it does to the elements.                            *)
(***************************************************************************)
EXTENDS Naturals, FiniteSets, PipelineTracking

CONSTANTS
  Elements,   \* infrastructure_elements rows of the order
  Webhooks,   \* webhooks that may be configured for its product
  Stacks,     \* pipeline stacks that may be
  Setups,     \* the sets of them that are
  MaxWork,    \* destroys to fire at all active elements together: a bound
  MaxJobs,    \* teardown requests: the bound on their number
  Handlers,   \* callback requests that may be served at once
  Races,      \* the overlaps admitted
  Faults      \* what may happen besides, once in a behaviour

RaceKinds ==
  {"fails",     \* a report fails the order while a Retry of it is firing
   "cascade",   \* a deletion claims an element while a Retry is at work
   "lone",      \* a Retry finds no active element
   "handback"}  \* an element handed back is claimed before its ids are restored

FaultKinds ==
  {"crash",    \* the process dies and its request goes no further
   "throw",    \* a database statement of a teardown throws
   "late",     \* the same, when a destroy of the element is already running
   "record",   \* writing down a started pipeline throws, and is swallowed
   "failed",   \* a destroy fails, and reports it
   "edit"}     \* an element's schedule is edited

ASSUME TeardownAssumption ==
  /\ Elements # {}
  /\ Webhooks \cap Stacks = {}
  /\ Setups \subseteq SUBSET (Webhooks \cup Stacks)
  /\ MaxWork \in Nat
  /\ MaxJobs \in Nat
  /\ (1..MaxJobs) \cap Handlers = {}
  /\ Races \subseteq RaceKinds
  /\ Faults \subseteq FaultKinds

Jobs      == 1..MaxJobs
Triggers  == Webhooks \cup Stacks
Destroys  == Jobs \X Elements \X Triggers   \* the job, element and trigger it is for
Requests  == Jobs \cup Handlers

Others    == <<>>    \* pipelines of an element that none of our jobs started
NoDestroy == <<>>
NoElement == <<>>

Pipelines == Destroys \cup {Others}

VARIABLES
  configured, \* the triggers that are configured
  order,      \* orders.status
  status,     \* infrastructure_elements.status
  due,        \* has scheduled_decommission_at come?
  track,      \* pipeline_id and pipeline_status of each element
  job,        \* the teardown requests
  retry,      \* the Retry at work on the order
  hand,       \* callback requests, between their SELECT and their UPDATE
  settle,     \* settlements, between their decision and their end
  ran,        \* destroy pipelines the CI system has started
  succeeded,  \* those of them that have reported success
  fault       \* whether it has happened, and cut a request short

rowVars  == <<status, track>>
ciVars   == <<ran, succeeded>>
vars == <<configured, order, rowVars, due, job, retry, hand, settle, ciVars, fault>>

-----------------------------------------------------------------------------
(* Types.                                                                  *)

OrderStatuses == {"provisioning", "completed", "failed"}

Statuses == {"active", "decommissioning", "decommissioned"}

JobRecord ==
  [pc : {"idle", "claim", "previous", "begin", "webhooks", "stacks", "record",
         "restore", "settling", "catch", "done", "retired"},
   kind : {"none", "button", "sweep", "cascade"},
   todo : SUBSET Elements,      \* elements it has not come to yet
   cur : Elements \cup {NoElement},   \* the one it is at
   took : SUBSET Elements,      \* those a deletion claimed
   left : SUBSET Triggers,      \* triggers of this stage not fired yet
   sent : Destroys \cup {NoDestroy},  \* started, not recorded yet
   got : SUBSET Destroys,       \* ids its triggers returned for this element
   failures : BOOLEAN,          \* did any trigger of this element fail to start?
   refused : BOOLEAN,           \* did any trigger of any element?
   previous : Tracking(Pipelines)]

RetryRecord ==
  [pc : {"idle", "read", "fire", "rewrite", "done"},
   elems : SUBSET Elements,
   todo : SUBSET Elements]

HandRecord ==
  [pc : {"idle", "merge"},
   pipeline : Destroys \cup {NoDestroy},
   report : {"success", "failed"}]

SettleRecord ==
  [pc : {"none", "swap", "audit"},
   of : Elements \cup {NoElement},
   decided : Tracking(Pipelines)]

TypeOK ==
  /\ configured \subseteq Triggers
  /\ order \in OrderStatuses
  /\ status \in [Elements -> Statuses]
  /\ due \in [Elements -> BOOLEAN]
  /\ track \in [Elements -> Tracking(Pipelines)]
  /\ job \in [Jobs -> JobRecord]
  /\ retry \in RetryRecord
  /\ hand \in [Handlers -> HandRecord]
  /\ settle \in [Requests -> SettleRecord]
  /\ ran \subseteq Destroys
  /\ succeeded \subseteq ran
  /\ fault \in {"none", "cut", "other"}
  /\ \A j \in Jobs : job[j].pc = "record" => job[j].sent \in Destroys
  /\ \A h \in Handlers : hand[h].pc = "merge" => hand[h].pipeline \in Destroys

-----------------------------------------------------------------------------
(* Initial states: an element is active, its ids those of the run that     *)
(* built it, or was torn down earlier; the order may still be on the way.  *)

Built == [Untracked EXCEPT !.ids = {Others}]

Gone == [Built EXCEPT !.ok = {Others}]

Idle ==
  [pc |-> "idle", kind |-> "none", todo |-> {}, cur |-> NoElement, took |-> {},
   left |-> {}, sent |-> NoDestroy, got |-> {}, failures |-> FALSE,
   refused |-> FALSE, previous |-> Untracked]

Over == [Idle EXCEPT !.pc = "done"]

NoHand == [pc |-> "idle", pipeline |-> NoDestroy, report |-> "success"]

NoSettle == [pc |-> "none", of |-> NoElement, decided |-> Untracked]

RetryOver == [pc |-> "done", elems |-> {}, todo |-> {}]

Actives == {e \in Elements : status[e] = "active"}

Init ==
  /\ order \in OrderStatuses
  /\ configured \in Setups
  /\ status \in [Elements -> {"active", "decommissioned"}]
  /\ Cardinality(Actives) * Cardinality(configured) \leq MaxWork
  /\ due = [e \in Elements |-> TRUE]
  /\ track = [e \in Elements |-> IF status[e] = "active" THEN Built ELSE Gone]
  /\ job = [j \in Jobs |-> Idle]
  /\ retry = [pc |-> "idle", elems |-> {}, todo |-> {}]
  /\ hand = [h \in Handlers |-> NoHand]
  /\ settle = [x \in Requests |-> NoSettle]
  /\ ran = {}
  /\ succeeded = {}
  /\ fault = "none"

-----------------------------------------------------------------------------
(* Where a job is.                                                         *)

InFlight(j) == job[j].pc \notin {"idle", "done", "retired"}

NextJob(j) ==
  /\ job[j].pc = "idle"
  /\ \A i \in Jobs : i < j => job[i].pc # "idle"

Retrying == retry.pc \in {"read", "fire", "rewrite"}

Goto(j, pc) == job' = [job EXCEPT ![j].pc = pc]

Fault(kind) ==
  /\ kind \in Faults
  /\ fault = "none"
  /\ fault' = IF kind \in {"crash", "throw", "late"} THEN "cut" ELSE "other"

-----------------------------------------------------------------------------
(* Jobs begin.                                                             *)

StartJob(j, kind, elements) ==
  /\ NextJob(j)
  /\ elements # {}
  /\ job' = [job EXCEPT ![j].pc = "claim", ![j].kind = kind, ![j].todo = elements]
  /\ UNCHANGED <<configured, order, rowVars, due, retry, hand, settle, ciVars, fault>>

(* decommissionInfra: whatever status the element has, the claim decides.  *)
Press(j) == \E e \in Elements : StartJob(j, "button", {e})

(* sweepDueDecommissions reads all that is due, and claims one at a time.  *)
Sweep(j) ==
  /\ order # "provisioning"
  /\ StartJob(j, "sweep", {e \in Actives : due[e]})

(* deleteProject, deleteProduct, deleteCategory.                           *)
Cascade(j) == StartJob(j, "cascade", Actives)

-----------------------------------------------------------------------------
(* The claim.                                                              *)

(* A faulty variant: a claim that looks at the element's status only.      *)
ActiveIsEnough(j, e) == status[e] = "active"

(* Another: one that also takes an element somebody is tearing down.       *)
NotGoneIsEnough(j, e) ==
  /\ status[e] # "decommissioned"
  /\ order # "provisioning" \/ job[j].kind = "cascade"

(* active -> decommissioning, by one caller.  The button and the sweep ask *)
(* in the same statement that the order is not provisioning; a cascade     *)
(* does not.                                                               *)
Claimable(j, e) ==
  /\ status[e] = "active"
  /\ order # "provisioning" \/ job[j].kind = "cascade"

Claim(j) ==
  /\ job[j].pc = "claim"
  /\ \E e \in job[j].todo :
       IF Claimable(j, e)
         THEN /\ "cascade" \in Races \/ ~Retrying \/ job[j].kind # "cascade"
              /\ "handback" \in Races
                   \/ \A i \in Jobs : ~(job[i].pc \in {"restore", "catch"} /\ job[i].cur = e)
              /\ status' = [status EXCEPT ![e] = "decommissioning"]
              /\ job' = [job EXCEPT ![j].pc = "previous",
                                    ![j].cur = e,
                                    ![j].todo = @ \ {e},
                                    ![j].took = IF job[j].kind = "cascade"
                                                    THEN @ \cup {e} ELSE @]
         ELSE /\ job' = [job EXCEPT ![j].todo = @ \ {e}]
              /\ UNCHANGED status
  /\ UNCHANGED <<configured, order, track, due, retry, hand, settle, ciVars, fault>>

(* The list is done.  A deletion retires what it was asked to delete only  *)
(* if every destroy it fired could be started.                             *)
EndJob(j) ==
  /\ job[j].pc = "claim"
  /\ job[j].todo = {}
  /\ job' = [job EXCEPT ![j] = IF job[j].kind = "cascade" /\ ~job[j].refused
                                 THEN [Idle EXCEPT !.pc = "retired", !.took = job[j].took]
                                 ELSE Over]
  /\ UNCHANGED <<configured, order, rowVars, due, retry, hand, settle, ciVars, fault>>

-----------------------------------------------------------------------------
(* fireDestroyTriggers.                                                    *)

(* beginElementTriggerRun reads what the element has ...                   *)
Previous(j) ==
  /\ job[j].pc = "previous"
  /\ job' = [job EXCEPT ![j].pc = "begin", ![j].previous = track[job[j].cur]]
  /\ UNCHANGED <<configured, order, rowVars, due, retry, hand, settle, ciVars, fault>>

(* ... and puts the destroy run in its place, if the claim still stands.   *)
Begin(j) ==
  /\ job[j].pc = "begin"
  /\ track' = IF status[job[j].cur] = "decommissioning"
                THEN [track EXCEPT ![job[j].cur] = OpenRun]
                ELSE track
  /\ job' = [job EXCEPT ![j].pc = "webhooks", ![j].left = configured \cap Webhooks]
  /\ UNCHANGED <<configured, order, status, due, retry, hand, settle, ciVars, fault>>

(* The CI system starts a destroy.  From here on it can report back.       *)
TriggerStarts(j) ==
  /\ job[j].pc \in {"webhooks", "stacks"}
  /\ \E t \in job[j].left :
       LET p == <<j, job[j].cur, t>>
       IN /\ ran' = ran \cup {p}
          /\ job' = [job EXCEPT ![j].pc = "record", ![j].sent = p,
                                ![j].left = @ \ {t}]
  /\ UNCHANGED <<configured, order, rowVars, due, retry, hand, settle, succeeded, fault>>

(* It does not: counted, and the other triggers are fired all the same.    *)
TriggerFails(j) ==
  /\ job[j].pc \in {"webhooks", "stacks"}
  /\ \E t \in job[j].left :
       job' = [job EXCEPT ![j].left = @ \ {t}, ![j].failures = TRUE]
  /\ UNCHANGED <<configured, order, rowVars, due, retry, hand, settle, ciVars, fault>>

(* Back to the stage the started trigger belongs to, its id in hand.       *)
AfterRecord(j) ==
  job' = [job EXCEPT
            ![j].pc = IF job[j].sent[3] \in Webhooks THEN "webhooks" ELSE "stacks",
            ![j].sent = NoDestroy,
            ![j].got = @ \cup {job[j].sent}]

(* recordElementPipelineId.                                                *)
Record(j) ==
  /\ job[j].pc = "record"
  /\ track' = [track EXCEPT ![job[j].cur] = RecordId(@, job[j].sent)]
  /\ AfterRecord(j)
  /\ UNCHANGED <<configured, order, status, due, retry, hand, settle, ciVars, fault>>

RecordLost(j) ==
  /\ job[j].pc = "record"
  /\ Fault("record")
  /\ AfterRecord(j)
  /\ UNCHANGED <<configured, order, rowVars, due, retry, hand, settle, ciVars>>

(* The webhooks are through: read the stacks.                              *)
LookupStacks(j) ==
  /\ job[j].pc = "webhooks"
  /\ job[j].left = {}
  /\ job' = [job EXCEPT ![j].pc = "stacks", ![j].left = configured \cap Stacks]
  /\ UNCHANGED <<configured, order, rowVars, due, retry, hand, settle, ciVars, fault>>

NothingStarted(j) == job[j].failures /\ job[j].got = {}

AllFired(j) == job[j].pc = "stacks" /\ job[j].left = {}

(* Nothing was destroyed: the element is active again, and in a statement  *)
(* of its own has the ids back that it had.                                *)
HandBack(j) ==
  /\ AllFired(j) /\ NothingStarted(j)
  /\ status' = [status EXCEPT ![job[j].cur] = "active"]
  /\ Goto(j, "restore")
  /\ UNCHANGED <<configured, order, track, due, retry, hand, settle, ciVars, fault>>

(* A faulty variant of the next: only the last element's failure counts.   *)
ForgetfulProceed(j, failed) ==
  job' = [job EXCEPT ![j].pc = "claim", ![j].refused = failed,
                     ![j].cur = NoElement, ![j].left = {}, ![j].sent = NoDestroy,
                     ![j].got = {}, ![j].failures = FALSE,
                     ![j].previous = Untracked]

(* To the next element of the list.                                        *)
Proceed(j, failed) ==
  job' = [job EXCEPT ![j].pc = "claim", ![j].refused = @ \/ failed,
                     ![j].cur = NoElement, ![j].left = {}, ![j].sent = NoDestroy,
                     ![j].got = {}, ![j].failures = FALSE,
                     ![j].previous = Untracked]

Restore(j) ==
  /\ job[j].pc = "restore"
  /\ track' = [track EXCEPT ![job[j].cur] = job[j].previous]
  /\ Proceed(j, TRUE)
  /\ UNCHANGED <<configured, order, status, due, retry, hand, settle, ciVars, fault>>

(* A faulty variant of the next: only callbacks ask, never a run's end.    *)
CallbacksAsk(x, e, t) ==
  settle' = IF x \in Handlers /\ IsSettled(t)
              THEN [settle EXCEPT ![x] = [pc |-> "swap", of |-> e, decided |-> t]]
              ELSE settle

(* A settlement starts when the row just written is settled.               *)
SettleFrom(x, e, t) ==
  settle' = IF IsSettled(t)
              THEN [settle EXCEPT ![x] = [pc |-> "swap", of |-> e, decided |-> t]]
              ELSE settle

(* finishElementTriggerRun, and the question the callbacks were refused.   *)
Close(j) ==
  /\ AllFired(j) /\ ~NothingStarted(j)
  /\ LET t == CloseRun(track[job[j].cur], job[j].got, job[j].failures)
     IN /\ track' = [track EXCEPT ![job[j].cur] = t]
        /\ SettleFrom(j, job[j].cur, t)
  /\ Goto(j, "settling")
  /\ UNCHANGED <<configured, order, status, due, retry, hand, ciVars, fault>>

Return(j) ==
  /\ job[j].pc = "settling"
  /\ settle[j].pc = "none"
  /\ Proceed(j, job[j].failures)
  /\ UNCHANGED <<configured, order, rowVars, due, retry, hand, settle, ciVars, fault>>

-----------------------------------------------------------------------------
(* Callbacks and settlement.                                               *)

(* An event finds the element that waits for its pipeline; one that finds  *)
(* none is gone.  It may come again, and contradict what came before.      *)
Receive(h, p, s) ==
  /\ hand[h].pc = "idle"
  /\ settle[h].pc = "none"
  /\ p \in ran
  /\ IF s = "failed" THEN Fault("failed") ELSE UNCHANGED fault
  /\ status[p[2]] = "decommissioning"
  /\ p \in track[p[2]].ids
  /\ hand' = [hand EXCEPT ![h] = [pc |-> "merge", pipeline |-> p, report |-> s]]
  /\ succeeded' = IF s = "success" THEN succeeded \cup {p} ELSE succeeded
  /\ UNCHANGED <<configured, order, rowVars, due, job, retry, settle, ran>>

(* A success is merged while the element is being torn down, and may be    *)
(* the last that is missing.                                               *)
HandleSuccess(h) ==
  /\ hand[h].pc = "merge"
  /\ hand[h].report = "success"
  /\ hand' = [hand EXCEPT ![h] = NoHand]
  /\ LET p == hand[h].pipeline
         t == MergeSuccess(track[p[2]], p)
     IN IF status[p[2]] = "decommissioning"
          THEN /\ track' = [track EXCEPT ![p[2]] = t]
               /\ SettleFrom(h, p[2], t)
          ELSE UNCHANGED <<track, settle>>
  /\ UNCHANGED <<configured, order, status, due, job, retry, ciVars, fault>>

(* A failure is noted; the element has no status for it and stays as it is.*)
HandleFailure(h) ==
  /\ hand[h].pc = "merge"
  /\ hand[h].report = "failed"
  /\ hand' = [hand EXCEPT ![h] = NoHand]
  /\ LET p == hand[h].pipeline
     IN track' = IF status[p[2]] = "decommissioning"
                   THEN [track EXCEPT ![p[2]] = MergeFailure(@, p)]
                   ELSE track
  /\ UNCHANGED <<configured, order, status, due, job, retry, settle, ciVars, fault>>

(* settleElementIfComplete: swap if the map is the one decided on, then    *)
(* the audit entry and the mail.                                           *)
SettleSwap(x) ==
  /\ settle[x].pc = "swap"
  /\ LET e == settle[x].of
     IN IF status[e] = "decommissioning" /\ SameStatus(track[e], settle[x].decided)
          THEN /\ status' = [status EXCEPT ![e] = "decommissioned"]
               /\ settle' = [settle EXCEPT ![x].pc = "audit"]
          ELSE /\ settle' = [settle EXCEPT ![x] = NoSettle]
               /\ UNCHANGED status
  /\ UNCHANGED <<configured, order, track, due, job, retry, hand, ciVars, fault>>

SettleAudit(x) ==
  /\ settle[x].pc = "audit"
  /\ settle' = [settle EXCEPT ![x] = NoSettle]
  /\ UNCHANGED <<configured, order, rowVars, due, job, retry, hand, ciVars, fault>>

-----------------------------------------------------------------------------
(* The schedule.                                                           *)

(* scheduleDecommission clears the time of an active element, or sets one. *)
(* It reads the status and writes without asking again; a write that       *)
(* finds the element no longer active is one made when it is active again. *)
Schedule(e) ==
  /\ status[e] = "active"
  /\ Fault("edit")
  /\ due' = [due EXCEPT ![e] = ~@]
  /\ UNCHANGED <<configured, order, rowVars, job, retry, hand, settle, ciVars>>

-----------------------------------------------------------------------------
(* The order, and its Retry.                                               *)

(* The callbacks of its apply pipelines complete it or fail it; a failed   *)
(* one may still be completed.  A Retry's open run keeps the order from    *)
(* completing.                                                             *)
OrderReported ==
  /\ \/ order' = "completed" /\ ~Retrying
     \/ order' = "failed" /\ ("fails" \in Races \/ ~Retrying)
  /\ order = "provisioning" \/ (order = "failed" /\ order' = "completed")
  /\ UNCHANGED <<configured, rowVars, due, job, retry, hand, settle, ciVars, fault>>

(* failed -> provisioning.                                                 *)
RetryClaim ==
  /\ retry.pc = "idle"
  /\ order = "failed"
  /\ order' = "provisioning"
  /\ retry' = [retry EXCEPT !.pc = "read"]
  /\ UNCHANGED <<configured, rowVars, due, job, hand, settle, ciVars, fault>>

(* A faulty variant of the next: every element of the order (#188).        *)
EveryElement(e) == Elements

(* The active elements, or the one e that Retry was pressed on.            *)
Siblings(e) == IF Actives # {} THEN Actives ELSE {e}

RetryRead ==
  /\ retry.pc = "read"
  /\ "lone" \in Races \/ Actives # {}
  /\ \E e \in Elements :
       retry' = [pc |-> "fire", elems |-> Siblings(e), todo |-> Siblings(e)]
  /\ UNCHANGED <<configured, order, rowVars, due, job, hand, settle, ciVars, fault>>

(* Either no apply starts and the claim is released, or some do.           *)
RetryFire ==
  /\ retry.pc = "fire"
  /\ \/ /\ order' = "failed"
        /\ retry' = RetryOver
     \/ /\ retry' = [retry EXCEPT !.pc = "rewrite"]
        /\ UNCHANGED order
  /\ UNCHANGED <<configured, rowVars, due, job, hand, settle, ciVars, fault>>

(* Each element is written 'active' with the ids of its new apply.         *)
RetryRewrite ==
  /\ retry.pc = "rewrite"
  /\ \E e \in retry.todo :
       /\ status' = [status EXCEPT ![e] = "active"]
       /\ track' = [track EXCEPT ![e] = Built]
       /\ retry' = IF retry.todo = {e} THEN RetryOver
                                        ELSE [retry EXCEPT !.todo = @ \ {e}]
  /\ UNCHANGED <<configured, order, due, job, hand, settle, ciVars, fault>>

-----------------------------------------------------------------------------
(* Faults.                                                                 *)

Crash(j) ==
  /\ InFlight(j)
  /\ Fault("crash")
  /\ job' = [job EXCEPT ![j] = Over]
  /\ settle' = [settle EXCEPT ![j] = NoSettle]
  /\ UNCHANGED <<configured, order, rowVars, due, retry, hand, ciVars>>

HandlerDies(h) ==
  /\ hand[h].pc # "idle" \/ settle[h].pc # "none"
  /\ Fault("crash")
  /\ hand' = [hand EXCEPT ![h] = NoHand]
  /\ settle' = [settle EXCEPT ![h] = NoSettle]
  /\ UNCHANGED <<configured, order, rowVars, due, job, retry, ciVars>>

(* The statements of fireDestroyTriggers that may throw.                   *)
AtStatement(j) ==
  \/ job[j].pc \in {"previous", "begin", "restore"}
  \/ job[j].pc \in {"webhooks", "stacks"} /\ job[j].left = {}
  \/ job[j].pc = "settling" /\ settle[j].pc # "none"

(* A deletion notes it and goes on; claimAndDestroy takes every throw for  *)
(* "could not be started", and the sweep goes on to its next element.      *)
(* That is so unless the throw is a late one.                              *)
Throws(j) ==
  /\ AtStatement(j)
  /\ Fault(IF job[j].kind # "cascade" /\ \E p \in ran : p[1] = j /\ p[2] = job[j].cur
             THEN "late" ELSE "throw")
  /\ settle' = [settle EXCEPT ![j] = NoSettle]
  /\ IF job[j].kind = "cascade" THEN Proceed(j, TRUE) ELSE Goto(j, "catch")
  /\ UNCHANGED <<configured, order, rowVars, due, retry, hand, ciVars>>

Catch(j) ==
  /\ job[j].pc = "catch"
  /\ status' = [status EXCEPT ![job[j].cur] = "active"]
  /\ Proceed(j, TRUE)
  /\ UNCHANGED <<configured, order, track, due, retry, hand, settle, ciVars, fault>>

-----------------------------------------------------------------------------
JobStep(j) ==
  \/ Claim(j) \/ EndJob(j) \/ Previous(j) \/ Begin(j)
  \/ TriggerStarts(j) \/ TriggerFails(j) \/ Record(j)
  \/ LookupStacks(j) \/ HandBack(j) \/ Restore(j)
  \/ Close(j) \/ Return(j) \/ Catch(j)

HandlerStep(h) == HandleSuccess(h) \/ HandleFailure(h)

SettleStep(x) == SettleSwap(x) \/ SettleAudit(x)

RetryStep == RetryRead \/ RetryFire \/ RetryRewrite

Next ==
  \/ \E j \in Jobs : \/ Press(j) \/ Sweep(j) \/ Cascade(j)
                     \/ JobStep(j)
                     \/ RecordLost(j) \/ Crash(j) \/ Throws(j)
  \/ \E h \in Handlers : \/ \E p \in Destroys, s \in {"success", "failed"} : Receive(h, p, s)
                         \/ HandlerStep(h)
                         \/ HandlerDies(h)
  \/ \E x \in Requests : SettleStep(x)
  \/ \E e \in Elements : Schedule(e)
  \/ OrderReported
  \/ RetryClaim \/ RetryStep

Spec == Init /\ [][Next]_vars

-----------------------------------------------------------------------------
(* Safety.                                                                 *)

(* An element is reported as decommissioned only when one teardown of it   *)
(* fired every destroy configured and each of them reported success: a     *)
(* trigger that could not be started, a failure that a later report did    *)
(* not put right or a destroy still unfired keeps it 'decommissioning'     *)
(* (the sentinels and the triggering entry of pipelineTracking.ts).        *)
GoneMeansDestroyed ==
  \A e \in Elements :
    status[e] = "decommissioned" /\ track[e] # Gone
      => \E j \in Jobs : \A t \in configured : <<j, e, t>> \in succeeded

(* An element that shows as active has never had a destroy running at it:  *)
(* only a teardown that started nothing hands it back, and no Retry, sweep *)
(* or deletion brings one back that is on its way out (teardown.ts,        *)
(* infrastructure.ts on active siblings).                                  *)
ActiveMeansNoDestroy ==
  \A e \in Elements : status[e] = "active" => \A p \in ran : p[2] # e

(* An element whose destroys have all reported success is decommissioned,  *)
(* or some request is on its way to do it, unless that request was cut     *)
(* short: no report is the last one and yet decides nothing (#132, and     *)
(* finishElementTriggerRun asking the question the callbacks were refused).*)
SettledIsBeingSwapped ==
  \A e \in Elements :
    status[e] = "decommissioning" /\ IsSettled(track[e])
      => \/ \E x \in Requests : /\ settle[x].pc = "swap"
                                /\ settle[x].of = e
                                /\ SameStatus(track[e], settle[x].decided)
         \/ fault = "cut"

(* What a Retry is applying is not destroyed underneath it: the elements   *)
(* it has read stay active until it is done (orderNotProvisioning).        *)
RetriedStaysActive ==
  Retrying /\ retry.pc # "read"
    => \A e \in retry.elems : status[e] = "active"

(* A deletion that went through has fired every destroy of every element   *)
(* it claimed; one that could not be started refuses it (the 502 of        *)
(* deleteProject, deleteProduct and deleteCategory).                       *)
RetiredMeansFired ==
  \A j \in Jobs :
    job[j].pc = "retired"
      => \A e \in job[j].took, t \in configured : <<j, e, t>> \in ran

(* All in all an element keeps what ElementStatus promises of it: torn     *)
(* down by one attempt at a time, given back only untouched, and gone only *)
(* when it is, and for good (claimAndDestroy, settleElementIfComplete).    *)
Promise == INSTANCE ElementStatus WITH
  Attempts <- Jobs, needed <- configured, fired <- ran, confirmed <- succeeded

KeepsPromise == Promise!ElementSpec

=============================================================================
