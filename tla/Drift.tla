------------------------------- MODULE Drift -------------------------------
(***************************************************************************)
(* What a scheduled pipeline found when it compared the estate with its    *)
(* Terraform states: reports that arrive late, twice, out of order or side *)
(* by side, while elements are built, torn down and handed back.           *)
(*                                                                         *)
(* A report is identified by the time of its run, checkedAt, and says the  *)
(* same whenever it is sent.  Every step is one statement of a request     *)
(* that delivers one.                                                      *)
(***************************************************************************)
EXTENDS Naturals

CONSTANTS
  Elements,    \* infrastructure_elements rows
  Keys,        \* names of Terraform states
  Owns,        \* the keys that are each element's
  MaxTime,     \* runs of the reporting pipeline: a bound
  Contents,    \* what a run may find
  Deliveries,  \* requests at work that deliver a report
  Engines,     \* elements whose environment has a policy engine
  MaxCrashes   \* a bound

Times == 1..MaxTime    \* of runs; 0 is never

Outcomes == {"clean", "locked", "error", "drifted"}

(* "none" where the run says nothing of a key.                             *)
Content == [of : [Keys -> Outcomes \cup {"none"}], complete : BOOLEAN]

Nothing == [of |-> [k \in Keys |-> "none"], complete |-> FALSE]

ASSUME DriftAssumption ==
  /\ Owns \in [Elements -> SUBSET Keys]
  /\ MaxTime \in Nat
  /\ Contents \subseteq Content \ {Nothing}
  /\ Engines \subseteq Elements
  /\ MaxCrashes \in Nat

VARIABLES
  status,     \* infrastructure_elements.status, and "none" without a row
  row,        \* its columns about drift and policy
  unclaimed,  \* unclaimed_states
  heard,      \* drift_report_state.last_report_at
  sent,       \* what each run found
  req,        \* the requests
  crashes,    \* counted
  offered,    \* runs that have asked to write each element while it was active
  accepted,   \* those that did
  departed    \* elements ever torn down or deleted

history == <<offered, accepted, departed>>
vars == <<status, row, unclaimed, heard, sent, req, crashes, history>>

-----------------------------------------------------------------------------
(* Types.                                                                  *)

Stamp == {0} \cup Times

RowRecord ==
  [at : Stamp,                         \* last_refreshed_at
   outcome : Outcomes \cup {"none"},
   drift : Stamp,                      \* drift_detected_at
   policy : Stamp]                     \* policy_checked_at

Observation == [first : Stamp, last : Stamp, outcome : Outcomes \cup {"none"}]

RequestRecord ==
  [pc : {"idle", "owners", "write", "judge", "unseen", "state"},
   at : Stamp,
   todo : SUBSET Elements,      \* to be written
   matched : SUBSET Elements,   \* written, and to be judged
   unknown : SUBSET Keys,       \* keys of nobody
   upserts : SUBSET Keys]       \* those of them not recorded yet

Unheard == [at |-> 0, outcome |-> "none", drift |-> 0, policy |-> 0]

NoObservation == [first |-> 0, last |-> 0, outcome |-> "none"]

Idle == [pc |-> "idle", at |-> 0, todo |-> {}, matched |-> {}, unknown |-> {}, upserts |-> {}]

TypeOK ==
  /\ status \in [Elements -> {"none", "active", "leaving", "removed"}]
  /\ row \in [Elements -> RowRecord]
  /\ unclaimed \in [Keys -> Observation]
  /\ heard \in Stamp
  /\ sent \in [Times -> Content]
  /\ req \in [Deliveries -> RequestRecord]
  /\ crashes \in 0..MaxCrashes
  /\ offered \in [Elements -> SUBSET Times]
  /\ accepted \in [Elements -> SUBSET Times]
  /\ departed \subseteq Elements

Init ==
  /\ status \in [Elements -> {"none", "active"}]
  /\ row = [e \in Elements |-> Unheard]
  /\ unclaimed = [k \in Keys |-> NoObservation]
  /\ heard = 0
  /\ sent = [t \in Times |-> Nothing]
  /\ req = [d \in Deliveries |-> Idle]
  /\ crashes = 0
  /\ offered = [e \in Elements |-> {}]
  /\ accepted = [e \in Elements |-> {}]
  /\ departed = {}

-----------------------------------------------------------------------------
(* A report arrives.                                                       *)

Reported(t) == {k \in Keys : sent[t].of[k] # "none"}

Goto(d, pc) == req' = [req EXCEPT ![d].pc = pc]

(* For the first time, or once more, whatever came of the other times.     *)
Receive(d) ==
  /\ req[d].pc = "idle"
  /\ \E t \in Times :
       /\ sent' \in IF sent[t] = Nothing
                      THEN {[sent EXCEPT ![t] = c] : c \in Contents}
                      ELSE {sent}
       /\ req' = [req EXCEPT ![d].pc = "owners", ![d].at = t]
  /\ UNCHANGED <<status, row, unclaimed, heard, crashes, history>>

(* stateKeyOwners, and the partition that follows: an element on its way   *)
(* out still owns its keys, but has nothing written.                       *)
ReadOwners(d) ==
  LET keys    == Reported(req[d].at)
      owners  == {e \in Elements : status[e] \in {"active", "leaving"}}
      unknown == {k \in keys : \A e \in owners : k \notin Owns[e]}
  IN /\ req[d].pc = "owners"
     /\ req' = [req EXCEPT
                  ![d].pc = "write",
                  ![d].todo = {e \in owners : status[e] = "active" /\ Owns[e] \cap keys # {}},
                  ![d].unknown = unknown,
                  ![d].upserts = unknown]
     /\ UNCHANGED <<status, row, unclaimed, heard, sent, crashes, history>>

-----------------------------------------------------------------------------
(* An element is written once for all of its states.                       *)

Results(t, e) == {sent[t].of[k] : k \in Owns[e] \cap Reported(t)}

(* OUTCOME_RANK, over what the report says of the element's states: one it *)
(* is silent about counts for nothing.                                     *)
Aggregate(results) ==
  IF "drifted" \in results THEN "drifted"
  ELSE IF "error" \in results THEN "error"
  ELSE IF "locked" \in results THEN "locked"
  ELSE "clean"

(* A faulty variant of the next: any report that saw no drift clears it.   *)
RefreshedTo(r, t, outcome) ==
  [r EXCEPT !.at = t, !.outcome = outcome, !.drift = IF outcome = "drifted" THEN t ELSE 0]

(* Drift stays while a plan could not establish that it went away.         *)
Refreshed(r, t, outcome) ==
  [r EXCEPT !.at = t,
            !.outcome = outcome,
            !.drift = IF outcome = "drifted" THEN t ELSE IF outcome = "clean" THEN 0 ELSE @]

(* A faulty variant of the next: a late report is taken for news.          *)
AnyTime(e, t) == TRUE

Newer(e, t) == row[e].at < t

WriteElement(d) ==
  LET t == req[d].at IN
  /\ req[d].pc = "write"
  /\ \E e \in req[d].todo :
       IF status[e] = "active" /\ Newer(e, t)
         THEN /\ row' = [row EXCEPT ![e] = Refreshed(@, t, Aggregate(Results(t, e)))]
              /\ req' = [req EXCEPT ![d].todo = @ \ {e}, ![d].matched = @ \cup {e}]
              /\ offered' = [offered EXCEPT ![e] = @ \cup {t}]
              /\ accepted' = [accepted EXCEPT ![e] = @ \cup {t}]
         ELSE /\ req' = [req EXCEPT ![d].todo = @ \ {e}]
              /\ offered' = IF status[e] = "active"
                              THEN [offered EXCEPT ![e] = @ \cup {t}] ELSE offered
              /\ UNCHANGED <<row, accepted>>
  /\ UNCHANGED <<status, unclaimed, heard, sent, crashes, departed>>

-----------------------------------------------------------------------------
(* evaluateElementPolicies.                                                *)

(* It reads the elements written, and asks the engine about each.          *)
AskPolicy(d) ==
  /\ req[d].pc = "write" /\ req[d].todo = {}
  /\ req' = [req EXCEPT ![d].pc = "judge", ![d].matched = @ \cap Engines]
  /\ UNCHANGED <<status, row, unclaimed, heard, sent, crashes, history>>

(* A faulty variant of the next: a late verdict replaces a newer one.      *)
AnyVerdict(e, t) == TRUE

NewVerdict(e, t) == row[e].policy < t

WriteVerdict(d) ==
  /\ req[d].pc = "judge"
  /\ \E e \in req[d].matched :
       /\ row' = IF status[e] = "active" /\ NewVerdict(e, req[d].at)
                   THEN [row EXCEPT ![e].policy = req[d].at] ELSE row
       /\ req' = [req EXCEPT ![d].matched = @ \ {e}]
  /\ UNCHANGED <<status, unclaimed, heard, sent, crashes, history>>

-----------------------------------------------------------------------------
(* The states that are nobody's.                                           *)

RecordUnknown(d) ==
  /\ req[d].pc = "judge" /\ req[d].matched = {}
  /\ \E k \in req[d].upserts :
       /\ unclaimed' = [unclaimed EXCEPT ![k] =
            [first |-> IF @ = NoObservation THEN req[d].at ELSE @.first,
             last |-> req[d].at, outcome |-> sent[req[d].at].of[k]]]
       /\ req' = [req EXCEPT ![d].upserts = @ \ {k}]
  /\ UNCHANGED <<status, row, heard, sent, crashes, history>>

Forget(keys) == unclaimed' = [k \in Keys |-> IF k \in keys THEN NoObservation ELSE unclaimed[k]]

(* What has an owner by now is no observation any more.                    *)
ForgetClaimed(d) ==
  /\ req[d].pc = "judge" /\ req[d].matched = {} /\ req[d].upserts = {}
  /\ Forget(Reported(req[d].at) \ req[d].unknown)
  /\ Goto(d, "unseen")
  /\ UNCHANGED <<status, row, heard, sent, crashes, history>>

(* Nor is what a complete run is silent about.                             *)
ForgetUnseen(d) ==
  /\ req[d].pc = "unseen"
  /\ Forget(IF sent[req[d].at].complete THEN Keys \ Reported(req[d].at) ELSE {})
  /\ Goto(d, "state")
  /\ UNCHANGED <<status, row, heard, sent, crashes, history>>

(* The one row about all reports, and the audit entry.                     *)
Conclude(d) ==
  /\ req[d].pc = "state"
  /\ heard' = IF heard < req[d].at THEN req[d].at ELSE heard
  /\ req' = [req EXCEPT ![d] = Idle]
  /\ UNCHANGED <<status, row, unclaimed, sent, crashes, history>>

Crash(d) ==
  /\ crashes < MaxCrashes
  /\ crashes' = crashes + 1
  /\ req[d].pc # "idle"
  /\ req' = [req EXCEPT ![d] = Idle]
  /\ UNCHANGED <<status, row, unclaimed, heard, sent, history>>

-----------------------------------------------------------------------------
(* What becomes of the elements meanwhile: inserted, and deleted again when *)
(* none of their pipelines started (OrderRun), torn down or handed back    *)
(* (Teardown).                                                             *)

Becomes(e, new) ==
  /\ status' = [status EXCEPT ![e] = new]
  /\ departed' = IF new = "active" THEN departed ELSE departed \cup {e}
  /\ UNCHANGED <<row, unclaimed, heard, sent, req, crashes, offered, accepted>>

Provision(e) == status[e] = "none" /\ Becomes(e, "active")
TearDown(e)  == status[e] = "active" /\ Becomes(e, "leaving")
HandBack(e)  == status[e] = "leaving" /\ Becomes(e, "active")
Remove(e)    == status[e] = "active" /\ Becomes(e, "removed")

-----------------------------------------------------------------------------
Next ==
  \/ \E d \in Deliveries :
       \/ Receive(d) \/ ReadOwners(d) \/ WriteElement(d) \/ AskPolicy(d) \/ WriteVerdict(d)
       \/ RecordUnknown(d) \/ ForgetClaimed(d) \/ ForgetUnseen(d) \/ Conclude(d)
       \/ Crash(d)
  \/ \E e \in Elements : Provision(e) \/ TearDown(e) \/ HandBack(e) \/ Remove(e)

Spec == Init /\ [][Next]_vars

-----------------------------------------------------------------------------
(* Safety.                                                                 *)

IsNewest(t, times) == (t = 0 /\ times = {}) \/ (t \in times /\ \A u \in times : u \leq t)

(* Whatever order the reports come in and however often, an element shows  *)
(* the newest of those that came while it was active ("it may only move an *)
(* element's refresh state FORWARD in time"), and shows it clean only if   *)
(* that one found nothing else in what it said of the element.             *)
ShowsTheNewest ==
  \A e \in Elements :
    /\ IsNewest(row[e].at, offered[e])
    /\ row[e].outcome = "clean" => Results(row[e].at, e) = {"clean"}

FoundDrift(e, t) == t \in accepted[e] /\ "drifted" \in Results(t, e)

(* Drift that an element was found to have shows through any number of     *)
(* locked or failed plans, of older reports and of reports that leave the  *)
(* element out: only a newer one that found nothing but clean clears it.   *)
(* What shows was found, and is gone once every state was read clean.      *)
(* (driftReports.ts, the CASE around drift_detected_at.)                   *)
DriftIsNotForgotten ==
  \A e \in Elements :
    /\ \A t \in Times : FoundDrift(e, t) =>
         row[e].drift \geq t \/ \E u \in accepted[e] : u > t /\ Results(u, e) = {"clean"}
    /\ row[e].drift # 0 =>
         /\ FoundDrift(e, row[e].drift)
         /\ \A u \in accepted[e] : u > row[e].drift => \E k \in Owns[e] : sent[u].of[k] # "clean"

(* An element shows as clean only if the report it shows had read every    *)
(* one of its states ("Silence must not read as health", driftReports.ts). *)
SilenceIsNotHealth ==
  \A e \in Elements : row[e].outcome = "clean" =>
    \A k \in Owns[e] : sent[row[e].at].of[k] = "clean"

(* The verdict an element shows is about its newest refresh, or a request  *)
(* is about to write that one, unless the request died or a teardown came  *)
(* in between: no late verdict stays (elementPolicy.ts).                   *)
VerdictIsCurrent ==
  \A e \in Engines \ departed :
    row[e].policy # row[e].at =>
      \/ crashes > 0
      \/ \E d \in Deliveries : req[d].at = row[e].at /\ e \in req[d].matched
=============================================================================
