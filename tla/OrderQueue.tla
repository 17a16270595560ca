----------------------------- MODULE OrderQueue -----------------------------
(***************************************************************************)
(* The two queues an order waits in - for an approver ('pending') and for  *)
(* a deployment window ('scheduled') - and everybody who may take it out:  *)
(* approvals, rejections, the window sweep, and root's "Deploy now".  Each *)
(* is a request that claims the order by a conditional update, asks the    *)
(* budget and policy gates, and either builds it, hands it on or gives it  *)
(* back.  What building does is OrderRun's subject; here it starts         *)
(* pipelines or it does not, and may throw either way.                     *)
(***************************************************************************)
EXTENDS Naturals

CONSTANTS
  Approvals,     \* approve or reject requests, each pressed once
  Sweeps,        \* window sweeps: the scheduler calls each again and again
  Deploys,       \* root's "Deploy now" requests, each pressed once
  Roots,         \* the approvals that are root's, who may waive a gate
  Windows,       \* the instants inside a deployment window
  MaxTime,       \* the bound on the clock
  Faults,        \* kinds of fault: the process dies, a statement throws
  MaxFaults      \* how many may strike

Gates    == {"budget", "policy"}
Requests == Approvals \cup Sweeps \cup Deploys
Times    == 0..MaxTime
NoTime   == MaxTime + 1

ASSUME OrderQueueAssumption ==
  /\ Approvals \cap Sweeps = {}
  /\ Approvals \cap Deploys = {}
  /\ Sweeps \cap Deploys = {}
  /\ Roots \subseteq Approvals
  /\ MaxTime \in Nat
  /\ Windows \subseteq Times
  /\ Faults \subseteq {"crash", "query"}
  /\ MaxFaults \in Nat

VARIABLES
  status,     \* orders.status
  due,        \* orders.scheduled_for
  started,    \* is orders.pipeline_id non-empty?
  builds,     \* fan-outs that have started pipelines
  waived,     \* requests whose waivers are in the audit log
  req,        \* where each request is
  now,        \* the time
  refusing,   \* the gates that would refuse the order at this moment
  faults      \* how many faults have struck

orderVars == <<status, due>>
vars == <<orderVars, started, builds, waived, req, now, refusing, faults>>

Statuses ==
  {"pending", "scheduled", "provisioning", "failed", "completed", "rejected"}

ReqPc ==
  {"idle", "budget", "policy", "refused", "window", "schedule", "prepare",
   "claim", "build", "fired", "check", "release", "record", "done"}

ReqRecord ==
  [pc : ReqPc,
   waives : SUBSET Gates,   \* the waivers root sent along
   until : 0..NoTime]       \* the window an approval is to wait for

TypeOK ==
  /\ status \in Statuses
  /\ due \in 0..NoTime
  /\ started \in BOOLEAN
  /\ builds \in Nat
  /\ waived \subseteq Requests
  /\ req \in [Requests -> ReqRecord]
  /\ now \in Times
  /\ refusing \subseteq Gates
  /\ faults \in Nat

Init ==
  /\ status = "pending"
  /\ due = NoTime
  /\ started = FALSE
  /\ builds = 0
  /\ waived = {}
  /\ req = [x \in Requests |-> [pc |-> "idle", waives |-> {}, until |-> NoTime]]
  /\ now = 0
  /\ refusing = {}
  /\ faults = 0

-----------------------------------------------------------------------------
(* Requests.                                                               *)

Goto(x, pc) == req' = [req EXCEPT ![x].pc = pc]

(* The scheduler calls a sweep again; a button is pressed once.            *)
Over(x) == IF x \in Sweeps THEN "idle" ELSE "done"

(* Between its claim and its hand-over, its give-back or its end.          *)
Holds(x) ==
  \/ req[x].pc \in {"refused", "window", "schedule", "prepare", "build",
                    "fired", "release"}
  \/ req[x].pc \in {"budget", "policy"} /\ x \notin Deploys
  \/ req[x].pc = "check" /\ ~started

(* approveOrder: the conditional update comes first.                       *)
Approve(a) ==
  /\ req[a].pc = "idle"
  /\ status = "pending"
  /\ status' = "provisioning"
  /\ \E w \in IF a \in Roots THEN SUBSET Gates ELSE {{}} :
       req' = [req EXCEPT ![a].pc = "budget", ![a].waives = w]
  /\ UNCHANGED <<due, started, builds, waived, now, refusing, faults>>

Reject(a) ==
  /\ req[a].pc = "idle"
  /\ status = "pending"
  /\ status' = "rejected"
  /\ Goto(a, "done")
  /\ UNCHANGED <<due, started, builds, waived, now, refusing, faults>>

(* A faulty variant: due strictly before now.                              *)
IsOverdue == due < now

IsDue == due <= now

(* dueScheduledOrders.  The list is worked through later, one order after  *)
(* another; this order's turn comes at "claim".                            *)
List(s) ==
  /\ req[s].pc = "idle"
  /\ status = "scheduled"
  /\ IsDue
  /\ Goto(s, "claim")
  /\ UNCHANGED <<orderVars, started, builds, waived, now, refusing, faults>>

(* deployScheduledOrderNow asks the gates before it claims anything.       *)
DeployNow(d) ==
  /\ req[d].pc = "idle"
  /\ \E w \in SUBSET Gates :
       req' = [req EXCEPT ![d].pc = "budget", ![d].waives = w]
  /\ UNCHANGED <<orderVars, started, builds, waived, now, refusing, faults>>

(* Scheduled to provisioning, if it still is scheduled.  Root's override   *)
(* and waivers are logged in the same transaction.                         *)
Claim(x) ==
  /\ req[x].pc = "claim"
  /\ IF status = "scheduled"
       THEN /\ status' = "provisioning"
            /\ Goto(x, IF x \in Sweeps THEN "budget" ELSE "build")
            /\ waived' = IF x \in Deploys THEN waived \cup {x} ELSE waived
       ELSE /\ Goto(x, Over(x))
            /\ UNCHANGED <<status, waived>>
  /\ UNCHANGED <<due, started, builds, now, refusing, faults>>

-----------------------------------------------------------------------------
(* The gates (recheckOrderGates): the budget first, then the policy.       *)

Passes(x, gate) == gate \notin refusing \ req[x].waives

(* A faulty variant: the refusal is reported and the claim kept (#511).    *)
RefusalKeepsTheClaim(x) == Over(x)

AfterRefusal(x) == IF x \in Deploys THEN Over(x) ELSE "refused"

AskBudget(x) ==
  /\ req[x].pc = "budget"
  /\ Goto(x, IF Passes(x, "budget") THEN "policy" ELSE AfterRefusal(x))
  /\ UNCHANGED <<orderVars, started, builds, waived, now, refusing, faults>>

Passed(x) ==
  CASE x \in Approvals -> "window"
    [] x \in Sweeps    -> "build"
    [] x \in Deploys   -> "claim"

(* A faulty variant: waivers are logged as the gate accepts them (#527).   *)
AskPolicyAndLog(x) ==
  /\ req[x].pc = "policy"
  /\ Goto(x, IF Passes(x, "policy") THEN Passed(x) ELSE AfterRefusal(x))
  /\ waived' = IF Passes(x, "policy") THEN waived \cup {x} ELSE waived
  /\ UNCHANGED <<orderVars, started, builds, now, refusing, faults>>

AskPolicy(x) ==
  /\ req[x].pc = "policy"
  /\ Goto(x, IF Passes(x, "policy") THEN Passed(x) ELSE AfterRefusal(x))
  /\ UNCHANGED <<orderVars, started, builds, waived, now, refusing, faults>>

(* A faulty variant: the release time stays on an order given back.        *)
DueKept(x) == due

(* The sweep clears the release time, which a pending order may not carry. *)
DueAfterRefusal(x) == IF x \in Sweeps THEN NoTime ELSE due

GiveBackRefused(x) ==
  /\ req[x].pc = "refused"
  /\ status' = "pending"
  /\ due' = DueAfterRefusal(x)
  /\ Goto(x, Over(x))
  /\ UNCHANGED <<started, builds, waived, now, refusing, faults>>

-----------------------------------------------------------------------------
(* Deployment windows.                                                     *)

(* The first instant after t at which a window starts.                     *)
IsNextStart(t, u) ==
  /\ u > t
  /\ u \in Windows
  /\ \A v \in Windows : v > t => u <= v

(* whenMayItDeploy: at once inside a window, or where windows do not apply *)
(* (the environment's switch is off, no holiday data), or where none ever  *)
(* opens; otherwise at the next start.                                     *)
ReadWindow(a) ==
  /\ req[a].pc = "window"
  /\ \E applies \in BOOLEAN :
       IF applies /\ now \notin Windows /\ \E u \in Times : IsNextStart(now, u)
         THEN \E u \in Times :
                /\ IsNextStart(now, u)
                /\ req' = [req EXCEPT ![a].pc = "schedule", ![a].until = u]
         ELSE Goto(a, "prepare")
  /\ UNCHANGED <<orderVars, started, builds, waived, now, refusing, faults>>

(* Status, time and waivers in one transaction.                            *)
Schedule(a) ==
  /\ req[a].pc = "schedule"
  /\ status' = "scheduled"
  /\ due' = req[a].until
  /\ waived' = waived \cup {a}
  /\ Goto(a, "done")
  /\ UNCHANGED <<started, builds, now, refusing, faults>>

(* The approver's delegations and the trial's length are read.             *)
Prepare(a) ==
  /\ req[a].pc = "prepare"
  /\ Goto(a, "build")
  /\ UNCHANGED <<orderVars, started, builds, waived, now, refusing, faults>>

-----------------------------------------------------------------------------
(* Building.                                                               *)

(* provisionOrderElements starts something, ...                            *)
Fire(x) ==
  /\ req[x].pc = "build"
  /\ started' = TRUE
  /\ builds' = builds + 1
  /\ Goto(x, "fired")
  /\ UNCHANGED <<orderVars, waived, now, refusing, faults>>

(* ... or nothing, and throws.                                             *)
NothingStarts(x) ==
  /\ req[x].pc = "build"
  /\ started' = FALSE
  /\ Goto(x, "check")
  /\ UNCHANGED <<orderVars, builds, waived, now, refusing, faults>>

(* It returns, and an approval logs its waivers; or the bracket that       *)
(* closes the run throws, before or after closing it, with the pipelines   *)
(* already running.                                                        *)
Returns(x) ==
  /\ req[x].pc = "fired"
  /\ Goto(x, IF x \in Approvals THEN "record" ELSE Over(x))
  /\ UNCHANGED <<orderVars, started, builds, waived, now, refusing, faults>>

CloseThrows(x) ==
  /\ req[x].pc = "fired"
  /\ Goto(x, "check")
  /\ UNCHANGED <<orderVars, started, builds, waived, now, refusing, faults>>

Record(a) ==
  /\ req[a].pc = "record"
  /\ waived' = waived \cup {a}
  /\ Goto(a, "done")
  /\ UNCHANGED <<orderVars, started, builds, now, refusing, faults>>

(* A faulty variant: whatever throws has started nothing.                  *)
NothingEverStarted == FALSE

AnythingStarted == started

(* The catch around it: give the claim back only if nothing was started.   *)
Check(x) ==
  /\ req[x].pc = "check"
  /\ Goto(x, IF AnythingStarted THEN Over(x) ELSE "release")
  /\ UNCHANGED <<orderVars, started, builds, waived, now, refusing, faults>>

QueueOf(x) == IF x \in Approvals THEN "pending" ELSE "scheduled"

Release(x) ==
  /\ req[x].pc = "release"
  /\ status' = QueueOf(x)
  /\ Goto(x, Over(x))
  /\ UNCHANGED <<due, started, builds, waived, now, refusing, faults>>

-----------------------------------------------------------------------------
(* The surroundings: the order's pipelines report (OrderRun), time passes, *)
(* somebody edits a budget or a rule, requests break off.                  *)

Report ==
  /\ status = "provisioning"
  /\ started
  /\ status' \in {"failed"}
       \cup (IF \E x \in Requests : Holds(x) THEN {} ELSE {"completed"})
  /\ UNCHANGED <<due, started, builds, waived, req, now, refusing, faults>>

Tick ==
  /\ now < MaxTime
  /\ now' = now + 1
  /\ UNCHANGED <<orderVars, started, builds, waived, req, refusing, faults>>

EditGate ==
  /\ \E gate \in Gates :
       refusing' = IF gate \in refusing THEN refusing \ {gate}
                                        ELSE refusing \cup {gate}
  /\ UNCHANGED <<orderVars, started, builds, waived, req, now, faults>>

Fault(kind) ==
  /\ kind \in Faults
  /\ faults < MaxFaults
  /\ faults' = faults + 1

Crash(x) ==
  /\ req[x].pc \notin {"idle", "done"}
  /\ Fault("crash")
  /\ Goto(x, Over(x))
  /\ UNCHANGED <<orderVars, started, builds, waived, now, refusing>>

(* A statement throws.  Reading the window policy is caught, and the order *)
(* given back; every other one ends the request there.                     *)
QueryThrows(x) ==
  /\ req[x].pc \notin {"idle", "build", "fired", "done"}
  /\ Fault("query")
  /\ Goto(x, IF req[x].pc = "window" THEN "release" ELSE Over(x))
  /\ UNCHANGED <<orderVars, started, builds, waived, now, refusing>>

-----------------------------------------------------------------------------
ApprovalStep(a) ==
  ReadWindow(a) \/ Schedule(a) \/ Prepare(a) \/ Record(a)

CommonStep(x) ==
  \/ Claim(x) \/ AskBudget(x) \/ AskPolicy(x) \/ GiveBackRefused(x)
  \/ NothingStarts(x) \/ Returns(x) \/ CloseThrows(x) \/ Check(x) \/ Release(x)

Next ==
  \/ \E a \in Approvals : Approve(a) \/ Reject(a) \/ ApprovalStep(a)
  \/ \E s \in Sweeps : List(s)
  \/ \E d \in Deploys : DeployNow(d)
  \/ \E x \in Requests : CommonStep(x) \/ Fire(x) \/ Crash(x) \/ QueryThrows(x)
  \/ Report \/ Tick \/ EditGate

Spec == Init /\ [][Next]_vars

-----------------------------------------------------------------------------
(* Safety.                                                                 *)

(* However approvals, sweeps and root race for an order, and whatever      *)
(* throws where, it is built once: a claim is given back only when its     *)
(* fan-out started nothing (approvals.ts and windowPolicy.ts, the catch    *)
(* around provisionOrderElements).                                         *)
BuiltOnce == builds <= 1

(* An order waiting for its window says until when, or no sweep would find *)
(* it; an order back with the approvers does not, or the database refuses  *)
(* the row (schema.ts, orders_scheduled_consistency).                      *)
ScheduleIsConsistent ==
  /\ status = "scheduled" => due # NoTime
  /\ status \in {"pending", "rejected"} => due = NoTime

(* As long as nothing died and nothing threw, an order in 'provisioning'   *)
(* with nothing started is in some request's hands: no approval and no     *)
(* sweep would ever look at it again (approvals.ts, on releasing a refused *)
(* claim).                                                                 *)
ProvisioningIsAtWork ==
  faults = 0 /\ status = "provisioning" /\ ~started => \E x \in Requests : Holds(x)

(* The audit log never says that root waived a gate for an approval that   *)
(* can still be undone (approvals.ts, #521 and #527).                      *)
WaiverMeansCommitted ==
  \A a \in Approvals \cap waived : ~Holds(a)

(* The queues keep the promise of the order's status: here an order that   *)
(* waits for its window is one that waits to be claimed.                   *)
Promise == INSTANCE OrderStatus WITH
             status  <- IF status = "scheduled" THEN "pending" ELSE status,
             claimed <- \E x \in Requests : Holds(x),
             fired   <- builds > 0

KeepsPromise == [][Promise!OrderNext]_(Promise!statusVars)

-----------------------------------------------------------------------------
(* Liveness.                                                               *)

(* Requests are served to their end, the scheduler keeps calling, and the  *)
(* CI system does not refuse every trigger for ever.                       *)
Swept ==
  /\ WF_vars(Tick)
  /\ \A a \in Approvals : WF_vars(ApprovalStep(a))
  /\ \A s \in Sweeps : WF_vars(List(s))
  /\ \A x \in Requests : WF_vars(CommonStep(x)) /\ SF_vars(Fire(x))

SweptSpec == Spec /\ Swept

(* An approved order that waits for its window is built, or is back with   *)
(* the approvers because a gate refused it, unless a request dies or       *)
(* throws on the way (windowPolicy.ts).                                    *)
ScheduledIsDecided ==
  status = "scheduled" ~> builds > 0 \/ status \in {"pending", "rejected"} \/ faults > 0
=============================================================================
