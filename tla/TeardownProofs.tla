--------------------------- MODULE TeardownProofs ---------------------------
(***************************************************************************)
(* Theorems about Teardown, for any number of elements, triggers, teardown *)
(* requests and callbacks.                                                 *)
(***************************************************************************)
EXTENDS Teardown, TLAPS

(* A job between its claim of an element and its next one.                 *)
Working == {"previous", "begin", "webhooks", "stacks", "record", "restore",
            "settling", "catch"}

Placed(q) ==
  /\ q.pc \in Working => q.cur \in Elements
  /\ q.pc = "record" => q.sent \in Destroys

Aimed(s) == s.pc # "none" => s.of \in Elements

TInv ==
  /\ TypeOK
  /\ \A j \in Jobs : Placed(job[j])
  /\ \A x \in Requests : Aimed(settle[x])

-----------------------------------------------------------------------------
(* Types of the records.                                                   *)
LEMMA Trackings ==
  /\ Untracked \in Tracking(Pipelines)
  /\ Built \in Tracking(Pipelines)
  /\ Gone \in Tracking(Pipelines)
  /\ OpenRun \in Tracking(Pipelines)
  BY DEF Tracking, Untracked, Built, Gone, OpenRun, Pipelines, Blocks

LEMMA TrackingSteps ==
  ASSUME NEW t \in Tracking(Pipelines), NEW p \in Destroys, NEW S \in SUBSET Destroys,
         NEW b \in BOOLEAN
  PROVE  /\ RecordId(t, p) \in Tracking(Pipelines)
         /\ CloseRun(t, S, b) \in Tracking(Pipelines)
         /\ MergeSuccess(t, p) \in Tracking(Pipelines)
         /\ MergeFailure(t, p) \in Tracking(Pipelines)
  BY DEF Tracking, RecordId, CloseRun, MergeSuccess, MergeFailure, Pipelines, Blocks

LEMMA Records ==
  /\ Idle \in JobRecord /\ Idle.pc = "idle"
  /\ Over \in JobRecord /\ Over.pc = "done"
  /\ NoHand \in HandRecord /\ NoHand.pc = "idle"
  /\ NoSettle \in SettleRecord /\ NoSettle.pc = "none"
  /\ RetryOver \in RetryRecord /\ RetryOver.pc = "done"
  BY Trackings DEF Idle, Over, NoHand, NoSettle, RetryOver, JobRecord, HandRecord,
     SettleRecord, RetryRecord

LEMMA InitTInv == Init => TInv
  <1> SUFFICES ASSUME Init PROVE TInv
    OBVIOUS
  <1> USE TeardownAssumption DEF Init
  <1>1. job \in [Jobs -> JobRecord] /\ hand \in [Handlers -> HandRecord]
        /\ settle \in [Requests -> SettleRecord]
    BY Records
  <1>2. retry \in RetryRecord
    BY DEF RetryRecord
  <1>3. track \in [Elements -> Tracking(Pipelines)]
    BY Trackings
  <1>4. status \in [Elements -> Statuses]
    BY DEF Statuses
  <1>5. configured \subseteq Triggers
    BY DEF Triggers
  <1> QED
    BY <1>1, <1>2, <1>3, <1>4, <1>5, Records
       DEF TInv, TypeOK, Placed, Aimed, Working, OrderStatuses

(* The job that goes on to its next element.                               *)
Onward(q, failed) ==
  [q EXCEPT !.pc = "claim", !.refused = @ \/ failed, !.cur = NoElement, !.left = {},
            !.sent = NoDestroy, !.got = {}, !.failures = FALSE, !.previous = Untracked]

LEMMA OnwardType ==
  ASSUME NEW q \in JobRecord, NEW b \in BOOLEAN
  PROVE  Onward(q, b) \in JobRecord /\ Placed(Onward(q, b))
  <1>1. Onward(q, b) \in JobRecord /\ Onward(q, b).pc = "claim"
    BY Trackings DEF Onward, JobRecord
  <1> QED
    BY <1>1 DEF Placed, Working

LEMMA Proceeding ==
  ASSUME job \in [Jobs -> JobRecord], NEW j \in Jobs, NEW b \in BOOLEAN, Proceed(j, b)
  PROVE  job' = [job EXCEPT ![j] = Onward(job[j], b)]
  BY DEF Proceed, Onward

(* The steps of a job change its own record only, to a proper one.         *)
LEMMA JobType ==
  ASSUME TInv, NEW j \in Jobs,
         \/ Press(j) \/ Sweep(j) \/ Cascade(j) \/ JobStep(j)
         \/ RecordLost(j) \/ Crash(j) \/ Throws(j)
  PROVE  /\ job' \in [Jobs -> JobRecord]
         /\ job' = [job EXCEPT ![j] = job'[j]]
         /\ Placed(job'[j])
  <1>0. /\ job \in [Jobs -> JobRecord] /\ job[j] \in JobRecord /\ Placed(job[j])
        /\ track \in [Elements -> Tracking(Pipelines)]
        /\ configured \subseteq Triggers
    BY DEF TInv, TypeOK
  <1>s. SUFFICES \E q \in JobRecord : job' = [job EXCEPT ![j] = q] /\ Placed(q)
    BY <1>0
  <1>1. CASE Press(j) \/ Sweep(j) \/ Cascade(j)
    <2>1. PICK kind \in {"button", "sweep", "cascade"}, S \in SUBSET Elements :
            StartJob(j, kind, S)
      BY <1>1 DEF Press, Sweep, Cascade, Actives
    <2> DEFINE q == [job[j] EXCEPT !.pc = "claim", !.kind = kind, !.todo = S]
    <2>2. q \in JobRecord
      BY <1>0 DEF JobRecord
    <2>3. q.pc = "claim"
      BY <1>0 DEF JobRecord
    <2>4. job' = [job EXCEPT ![j] = q]
      BY <2>1, <1>0 DEF StartJob
    <2> QED
      BY <2>2, <2>3, <2>4 DEF Placed, Working
  <1>2. CASE Claim(j)
    <2>1. PICK e \in job[j].todo :
            \/ job' = [job EXCEPT ![j].pc = "previous", ![j].cur = e,
                                  ![j].todo = @ \ {e},
                                  ![j].took = IF job[j].kind = "cascade"
                                                THEN @ \cup {e} ELSE @]
            \/ job' = [job EXCEPT ![j].todo = @ \ {e}]
      BY <1>2 DEF Claim
    <2>2. e \in Elements /\ job[j].pc = "claim"
      BY <1>2, <1>0 DEF JobRecord, Claim
    <2> DEFINE q1 == [job[j] EXCEPT !.pc = "previous", !.cur = e, !.todo = @ \ {e},
                              !.took = IF job[j].kind = "cascade" THEN @ \cup {e} ELSE @]
               q2 == [job[j] EXCEPT !.todo = @ \ {e}]
    <2>3. q1 \in JobRecord /\ q2 \in JobRecord
      BY <2>2, <1>0 DEF JobRecord
    <2>4. q1.pc = "previous" /\ q1.cur = e /\ q2.pc = "claim"
      BY <2>2, <1>0 DEF JobRecord
    <2>5. job' = [job EXCEPT ![j] = q1] \/ job' = [job EXCEPT ![j] = q2]
      BY <2>1, <1>0
    <2> HIDE DEF q1, q2
    <2>6. Placed(q1) /\ Placed(q2)
      BY <2>2, <2>4 DEF Placed, Working
    <2> QED
      BY <2>3, <2>5, <2>6
  <1>3. CASE EndJob(j)
    <2> DEFINE q == [Idle EXCEPT !.pc = "retired", !.took = job[j].took]
    <2>1. q \in JobRecord /\ q.pc = "retired"
      BY <1>0, Records DEF JobRecord
    <2>2. job' = [job EXCEPT ![j] = q] \/ job' = [job EXCEPT ![j] = Over]
      BY <1>3, <1>0 DEF EndJob
    <2> QED
      BY <2>1, <2>2, Records DEF Placed, Working
  <1>4. CASE Previous(j)
    <2> DEFINE q == [job[j] EXCEPT !.pc = "begin", !.previous = track[job[j].cur]]
    <2>1. job[j].cur \in Elements
      BY <1>4, <1>0 DEF Previous, Placed, Working
    <2>2. q \in JobRecord /\ q.pc = "begin" /\ q.cur = job[j].cur
      BY <2>1, <1>0 DEF JobRecord
    <2>3. job' = [job EXCEPT ![j] = q]
      BY <1>4, <1>0 DEF Previous
    <2> QED
      BY <2>1, <2>2, <2>3 DEF Placed, Working
  <1>5. CASE Begin(j)
    <2> DEFINE q == [job[j] EXCEPT !.pc = "webhooks", !.left = configured \cap Webhooks]
    <2>1. job[j].cur \in Elements
      BY <1>5, <1>0 DEF Begin, Placed, Working
    <2>2. q \in JobRecord /\ q.pc = "webhooks" /\ q.cur = job[j].cur
      BY <2>1, <1>0 DEF JobRecord, Triggers
    <2>3. job' = [job EXCEPT ![j] = q]
      BY <1>5, <1>0 DEF Begin
    <2> QED
      BY <2>1, <2>2, <2>3 DEF Placed, Working
  <1>6. CASE TriggerStarts(j)
    <2>1. PICK t \in job[j].left :
            job' = [job EXCEPT ![j].pc = "record", ![j].sent = <<j, job[j].cur, t>>,
                               ![j].left = @ \ {t}]
      BY <1>6 DEF TriggerStarts
    <2>2. job[j].cur \in Elements /\ t \in Triggers
      BY <1>6, <1>0 DEF TriggerStarts, Placed, Working, JobRecord
    <2>3. <<j, job[j].cur, t>> \in Destroys
      BY <2>2 DEF Destroys
    <2> DEFINE q == [job[j] EXCEPT !.pc = "record", !.sent = <<j, job[j].cur, t>>,
                                   !.left = @ \ {t}]
    <2>4. q \in JobRecord
      BY <2>3, <1>0 DEF JobRecord
    <2>5. q.cur = job[j].cur /\ q.sent = <<j, job[j].cur, t>>
      BY <1>0 DEF JobRecord
    <2>6. job' = [job EXCEPT ![j] = q]
      BY <2>1, <1>0
    <2> HIDE DEF q
    <2> QED
      BY <2>2, <2>3, <2>4, <2>5, <2>6 DEF Placed
  <1>7. CASE TriggerFails(j)
    <2>1. PICK t \in job[j].left :
            job' = [job EXCEPT ![j].left = @ \ {t}, ![j].failures = TRUE]
      BY <1>7 DEF TriggerFails
    <2> DEFINE q == [job[j] EXCEPT !.left = @ \ {t}, !.failures = TRUE]
    <2>2. q \in JobRecord
      BY <1>0 DEF JobRecord
    <2>3. q.pc = job[j].pc /\ q.cur = job[j].cur /\ q.sent = job[j].sent
      BY <1>0 DEF JobRecord
    <2>4. job' = [job EXCEPT ![j] = q]
      BY <2>1, <1>0
    <2> QED
      BY <2>2, <2>3, <2>4, <1>0 DEF Placed
  <1>8. CASE Record(j) \/ RecordLost(j)
    <2> DEFINE q == [job[j] EXCEPT !.pc = IF job[j].sent[3] \in Webhooks
                                            THEN "webhooks" ELSE "stacks",
                                   !.sent = NoDestroy,
                                   !.got = @ \cup {job[j].sent}]
    <2>1. job[j].pc = "record" /\ job[j].sent \in Destroys /\ job[j].cur \in Elements
      BY <1>8, <1>0 DEF Record, RecordLost, Placed, Working
    <2>2. q \in JobRecord
      BY <2>1, <1>0 DEF JobRecord
    <2>3. q.pc \in {"webhooks", "stacks"} /\ q.cur = job[j].cur
      BY <1>0 DEF JobRecord
    <2>4. job' = [job EXCEPT ![j] = q]
      BY <1>8, <1>0 DEF Record, RecordLost, AfterRecord
    <2> QED
      BY <2>1, <2>2, <2>3, <2>4 DEF Placed
  <1>9. CASE LookupStacks(j)
    <2> DEFINE q == [job[j] EXCEPT !.pc = "stacks", !.left = configured \cap Stacks]
    <2>1. job[j].cur \in Elements
      BY <1>9, <1>0 DEF LookupStacks, Placed, Working
    <2>2. q \in JobRecord /\ q.pc = "stacks" /\ q.cur = job[j].cur
      BY <2>1, <1>0 DEF JobRecord, Triggers
    <2>3. job' = [job EXCEPT ![j] = q]
      BY <1>9, <1>0 DEF LookupStacks
    <2> QED
      BY <2>1, <2>2, <2>3 DEF Placed, Working
  <1>10. ASSUME NEW pc \in {"restore", "settling", "catch"}, Goto(j, pc), job[j].pc \in Working
         PROVE  \E q \in JobRecord : job' = [job EXCEPT ![j] = q] /\ Placed(q)
    <2> DEFINE q == [job[j] EXCEPT !.pc = pc]
    <2>1. q \in JobRecord /\ q.pc = pc /\ q.cur = job[j].cur
      BY <1>0 DEF JobRecord
    <2>2. job' = [job EXCEPT ![j] = q]
      BY <1>10, <1>0 DEF Goto
    <2> QED
      BY <2>1, <2>2, <1>10, <1>0 DEF Placed
  <1>11. ASSUME NEW b \in BOOLEAN, Proceed(j, b)
         PROVE  \E q \in JobRecord : job' = [job EXCEPT ![j] = q] /\ Placed(q)
    BY <1>11, <1>0, OnwardType, Proceeding
  <1>12. CASE HandBack(j) \/ Close(j)
    BY <1>12, <1>10 DEF HandBack, Close, AllFired, Working
  <1>13. CASE Restore(j) \/ Catch(j)
    BY <1>13, <1>11 DEF Restore, Catch
  <1>14. CASE Return(j)
    <2>1. job[j].failures \in BOOLEAN
      BY <1>0 DEF JobRecord
    <2> QED
      BY <2>1, <1>14, <1>11 DEF Return
  <1>15. CASE Crash(j)
    <2>1. job' = [job EXCEPT ![j] = Over]
      BY <1>15 DEF Crash
    <2> QED
      BY <2>1, Records DEF Placed, Working
  <1>16. CASE Throws(j)
    BY <1>16, <1>10, <1>11 DEF Throws, AtStatement, Working
  <1> QED
    BY <1>1, <1>2, <1>3, <1>4, <1>5, <1>6, <1>7, <1>8, <1>9, <1>12, <1>13, <1>14,
       <1>15, <1>16 DEF JobStep

Settlings == settle \in [Requests -> SettleRecord] /\ \A x \in Requests : Aimed(settle[x])

LEMMA SettleType ==
  ASSUME TInv, NEW x \in Requests, NEW e \in Elements, NEW t \in Tracking(Pipelines)
  PROVE  /\ SettleFrom(x, e, t) => Settlings'
         /\ settle' = [settle EXCEPT ![x] = NoSettle] => Settlings'
         /\ (settle[x].pc = "swap" /\ settle' = [settle EXCEPT ![x].pc = "audit"])
              => Settlings'
         /\ UNCHANGED settle => Settlings'
  <1>0. settle \in [Requests -> SettleRecord] /\ \A y \in Requests : Aimed(settle[y])
    BY DEF TInv, TypeOK
  <1> DEFINE q == [pc |-> "swap", of |-> e, decided |-> t]
             u == [settle[x] EXCEPT !.pc = "audit"]
  <1>1. q \in SettleRecord /\ Aimed(q)
    BY DEF SettleRecord, Aimed
  <1>2. settle[x].pc = "swap" => u \in SettleRecord /\ Aimed(u)
    BY <1>0 DEF SettleRecord, Aimed
  <1>3. NoSettle \in SettleRecord /\ Aimed(NoSettle)
    BY Records DEF Aimed
  <1>4. SettleFrom(x, e, t) => settle' = [settle EXCEPT ![x] = q] \/ settle' = settle
    BY DEF SettleFrom
  <1>5. settle' = [settle EXCEPT ![x].pc = "audit"] => settle' = [settle EXCEPT ![x] = u]
    BY <1>0
  <1> HIDE DEF q, u
  <1> QED
    BY <1>0, <1>1, <1>2, <1>3, <1>4, <1>5 DEF Settlings

(* The rest of TInv, for a step of a job.                                  *)
LEMMA JobStepTypes ==
  ASSUME TInv, NEW j \in Jobs,
         \/ Press(j) \/ Sweep(j) \/ Cascade(j) \/ JobStep(j)
         \/ RecordLost(j) \/ Crash(j) \/ Throws(j)
  PROVE  TInv'
  <1>0. /\ job \in [Jobs -> JobRecord] /\ job[j] \in JobRecord
        /\ track \in [Elements -> Tracking(Pipelines)]
        /\ status \in [Elements -> Statuses]
        /\ configured \subseteq Triggers
        /\ ran \subseteq Destroys /\ succeeded \subseteq ran
        /\ fault \in {"none", "cut", "other"}
        /\ j \in Requests
    BY DEF TInv, TypeOK, Requests
  <1>1. /\ job' \in [Jobs -> JobRecord] /\ \A i \in Jobs : Placed(job'[i])
    <2>1. \A i \in Jobs : i # j => job'[i] = job[i]
      BY JobType, <1>0
    <2> QED
      BY <2>1, JobType DEF TInv
  <1>2. UNCHANGED <<configured, order, due, retry, hand>>
    BY DEF Press, Sweep, Cascade, StartJob, JobStep, Claim, EndJob, Previous, Begin,
       TriggerStarts, TriggerFails, Record, LookupStacks, HandBack, Restore, Close,
       Return, Catch, RecordLost, Crash, Throws
  <1>3. job[j].pc \in Working => job[j].cur \in Elements
    BY DEF TInv, Placed
  <1>4. job[j].pc = "record" => job[j].sent \in Destroys /\ job[j].sent \in Pipelines
    BY DEF TInv, Placed, Pipelines
  <1>5. status' \in [Elements -> Statuses]
    <2>1. CASE UNCHANGED status
      BY <2>1, <1>0
    <2>2. CASE Claim(j)
      BY <2>2, <1>0 DEF Claim, Statuses
    <2>3. CASE HandBack(j) \/ Catch(j)
      BY <2>3, <1>0 DEF HandBack, Catch, Statuses
    <2> QED
      BY <2>1, <2>2, <2>3
         DEF Press, Sweep, Cascade, StartJob, JobStep, EndJob, Previous, Begin,
         TriggerStarts, TriggerFails, Record, LookupStacks, Restore, Close,
         Return, RecordLost, Crash, Throws, rowVars
  <1>6. track' \in [Elements -> Tracking(Pipelines)]
    <2>1. CASE UNCHANGED track
      BY <2>1, <1>0
    <2>2. CASE Begin(j)
      BY <2>2, <1>0, Trackings DEF Begin
    <2>3. CASE Record(j)
      <3>1. job[j].cur \in Elements /\ job[j].sent \in Destroys
        BY <2>3, <1>3, <1>4 DEF Record, Working
      <3>2. RecordId(track[job[j].cur], job[j].sent) \in Tracking(Pipelines)
        BY <3>1, <1>0, TrackingSteps
      <3> QED
        BY <3>1, <3>2, <2>3, <1>0 DEF Record
    <2>4. CASE Restore(j)
      <3>1. job[j].previous \in Tracking(Pipelines)
        BY <1>0 DEF JobRecord
      <3> QED
        BY <3>1, <2>4, <1>0 DEF Restore
    <2>5. CASE Close(j)
      <3>1. job[j].cur \in Elements /\ job[j].got \in SUBSET Destroys /\ job[j].failures \in BOOLEAN
        BY <2>5, <1>3, <1>0 DEF Close, AllFired, Working, JobRecord
      <3>2. CloseRun(track[job[j].cur], job[j].got, job[j].failures) \in Tracking(Pipelines)
        <4>1. track[job[j].cur] \in Tracking(Pipelines)
          BY <3>1, <1>0
        <4> QED
          BY <3>1, <4>1 DEF Tracking, CloseRun, Pipelines, Blocks
      <3> QED
        BY <3>1, <3>2, <2>5, <1>0 DEF Close
    <2> QED
      BY <2>1, <2>2, <2>3, <2>4, <2>5
         DEF Press, Sweep, Cascade, StartJob, JobStep, Claim, EndJob, Previous,
         TriggerStarts, TriggerFails, LookupStacks, HandBack, Catch,
         Return, RecordLost, Crash, Throws, rowVars
  <1>7. Settlings'
    <2>1. CASE Close(j)
      <3>1. job[j].cur \in Elements
        BY <2>1, <1>3 DEF Close, AllFired, Working
      <3> DEFINE t == CloseRun(track[job[j].cur], job[j].got, job[j].failures)
      <3>2. t \in Tracking(Pipelines)
        <4>1. /\ track[job[j].cur] \in Tracking(Pipelines)
              /\ job[j].got \in SUBSET Destroys /\ job[j].failures \in BOOLEAN
          BY <3>1, <1>0 DEF JobRecord
        <4> QED
          BY <4>1 DEF Tracking, CloseRun, Pipelines, Blocks
      <3>3. SettleFrom(j, job[j].cur, t)
        BY <2>1 DEF Close
      <3> HIDE DEF t
      <3> QED
        BY <3>1, <3>2, <3>3, <1>0, SettleType
    <2>2. CASE UNCHANGED settle
      BY <2>2 DEF TInv, TypeOK, Settlings
    <2>3. CASE settle' = [settle EXCEPT ![j] = NoSettle]
      BY <2>3, <1>0, SettleType, Trackings, TeardownAssumption
    <2> QED
      BY <2>1, <2>2, <2>3
         DEF Press, Sweep, Cascade, StartJob, JobStep, Claim, EndJob, Previous, Begin,
         TriggerStarts, TriggerFails, Record, LookupStacks, HandBack, Restore,
         Return, Catch, RecordLost, Crash, Throws
  <1>8. ran' \subseteq Destroys /\ succeeded' = succeeded /\ ran \subseteq ran'
    <2>1. CASE TriggerStarts(j)
      <3>1. PICK t \in job[j].left : ran' = ran \cup {<<j, job[j].cur, t>>}
        BY <2>1 DEF TriggerStarts
      <3>2. t \in Triggers /\ job[j].cur \in Elements
        BY <2>1, <1>0, <1>3 DEF TriggerStarts, Working, JobRecord
      <3>3. <<j, job[j].cur, t>> \in Destroys
        BY <3>2 DEF Destroys
      <3> QED
        BY <3>1, <3>3, <2>1, <1>0 DEF TriggerStarts
    <2>2. CASE UNCHANGED ciVars
      BY <2>2, <1>0 DEF ciVars
    <2> QED
      BY <2>1, <2>2
         DEF Press, Sweep, Cascade, StartJob, JobStep, Claim, EndJob, Previous, Begin,
         TriggerFails, Record, LookupStacks, HandBack, Restore, Close,
         Return, Catch, RecordLost, Crash, Throws
  <1>9. fault' \in {"none", "cut", "other"}
    <2>1. CASE UNCHANGED fault
      BY <2>1, <1>0
    <2>2. ASSUME NEW kind, Fault(kind) PROVE fault' \in {"none", "cut", "other"}
      BY <2>2 DEF Fault
    <2> QED
      BY <2>1, <2>2
         DEF Press, Sweep, Cascade, StartJob, JobStep, Claim, EndJob, Previous, Begin,
         TriggerStarts, TriggerFails, Record, LookupStacks, HandBack, Restore, Close,
         Return, Catch, RecordLost, Crash, Throws
  <1>10. \A h \in Handlers : hand'[h].pc = "merge" => hand'[h].pipeline \in Destroys
    BY <1>2 DEF TInv, TypeOK
  <1>11. \A i \in Jobs : job'[i].pc = "record" => job'[i].sent \in Destroys
    BY <1>1 DEF Placed
  <1>12. TypeOK'
    BY <1>1, <1>2, <1>5, <1>6, <1>7, <1>8, <1>9, <1>10, <1>11 DEF TypeOK, TInv, Settlings
  <1> QED
    BY <1>1, <1>7, <1>12 DEF TInv, Settlings

LEMMA HandType ==
  ASSUME TInv, NEW h \in Handlers,
         \/ \E p \in Destroys, s \in {"success", "failed"} : Receive(h, p, s)
         \/ HandlerStep(h) \/ HandlerDies(h)
  PROVE  TInv'
  <1>0. /\ track \in [Elements -> Tracking(Pipelines)]
        /\ hand \in [Handlers -> HandRecord] /\ hand[h] \in HandRecord
        /\ ran \subseteq Destroys /\ succeeded \subseteq ran
        /\ fault \in {"none", "cut", "other"}
        /\ h \in Requests
        /\ \A i \in Handlers : hand[i].pc = "merge" => hand[i].pipeline \in Destroys
    BY DEF TInv, TypeOK, Requests
  <1>1. UNCHANGED <<configured, order, status, due, job, retry, ran>>
    BY DEF Receive, HandlerStep, HandleSuccess, HandleFailure, HandlerDies, rowVars, ciVars
  <1>2. fault' \in {"none", "cut", "other"}
    BY <1>0 DEF Receive, HandlerStep, HandleSuccess, HandleFailure, HandlerDies, Fault
  <1>3. CASE \E p \in Destroys, s \in {"success", "failed"} : Receive(h, p, s)
    <2>1. PICK p \in Destroys, s \in {"success", "failed"} : Receive(h, p, s)
      BY <1>3
    <2> DEFINE q == [pc |-> "merge", pipeline |-> p, report |-> s]
    <2>2. q \in HandRecord /\ q.pc = "merge" /\ q.pipeline = p
      BY DEF HandRecord
    <2>3. hand' = [hand EXCEPT ![h] = q]
      BY <2>1 DEF Receive
    <2>4. succeeded' \subseteq ran /\ UNCHANGED <<track, settle>>
      BY <2>1, <1>0 DEF Receive, rowVars
    <2> HIDE DEF q
    <2>5. hand' \in [Handlers -> HandRecord]
          /\ \A i \in Handlers : hand'[i].pc = "merge" => hand'[i].pipeline \in Destroys
      BY <2>2, <2>3, <1>0
    <2> QED
      BY <2>4, <2>5, <1>1, <1>2 DEF TInv, TypeOK
  <1>4. CASE hand' = [hand EXCEPT ![h] = NoHand] /\ Settlings'
             /\ track' \in [Elements -> Tracking(Pipelines)] /\ UNCHANGED succeeded
    <2>1. hand' \in [Handlers -> HandRecord]
          /\ \A i \in Handlers : hand'[i].pc = "merge" => hand'[i].pipeline \in Destroys
      BY <1>4, <1>0, Records
    <2> QED
      BY <2>1, <1>1, <1>2, <1>4 DEF TInv, TypeOK, Settlings
  <1>5. CASE HandlerStep(h)
    <2> DEFINE p == hand[h].pipeline
    <2>1. p \in Destroys /\ p[2] \in Elements
      BY <1>5, <1>0 DEF HandlerStep, HandleSuccess, HandleFailure, Destroys
    <2>2. track[p[2]] \in Tracking(Pipelines)
      BY <2>1, <1>0
    <2> HIDE DEF p
    <2>3. /\ MergeSuccess(track[p[2]], p) \in Tracking(Pipelines)
          /\ MergeFailure(track[p[2]], p) \in Tracking(Pipelines)
      BY <2>1, <2>2, TrackingSteps
    <2>4. track' \in [Elements -> Tracking(Pipelines)]
      BY <2>1, <2>3, <1>5, <1>0 DEF HandlerStep, HandleSuccess, HandleFailure, p
    <2>5. \/ UNCHANGED settle
          \/ SettleFrom(h, p[2], MergeSuccess(track[p[2]], p))
      BY <1>5 DEF HandlerStep, HandleSuccess, HandleFailure, p
    <2>6. Settlings'
      BY <2>1, <2>3, <2>5, <1>0, SettleType
    <2> QED
      BY <2>4, <2>6, <1>4, <1>5 DEF HandlerStep, HandleSuccess, HandleFailure, ciVars
  <1>6. CASE HandlerDies(h)
    <2>1. Settlings'
      BY <1>6, <1>0, SettleType, Trackings, TeardownAssumption DEF HandlerDies
    <2> QED
      BY <2>1, <1>4, <1>6, <1>0 DEF HandlerDies, rowVars, ciVars
  <1> QED
    BY <1>3, <1>5, <1>6

LEMMA OtherTypes ==
  ASSUME TInv,
         \/ \E x \in Requests : SettleStep(x)
         \/ \E e \in Elements : Schedule(e)
         \/ OrderReported \/ RetryClaim \/ RetryStep
  PROVE  TInv'
  <1>0. /\ track \in [Elements -> Tracking(Pipelines)]
        /\ status \in [Elements -> Statuses]
        /\ due \in [Elements -> BOOLEAN]
        /\ retry \in RetryRecord
        /\ fault \in {"none", "cut", "other"}
        /\ order \in OrderStatuses
        /\ settle \in [Requests -> SettleRecord]
    BY DEF TInv, TypeOK
  <1>1. CASE \E x \in Requests : SettleStep(x)
    <2>1. PICK x \in Requests : SettleStep(x)
      BY <1>1
    <2>2. Settlings'
      BY <2>1, SettleType, Trackings, TeardownAssumption DEF SettleStep, SettleSwap, SettleAudit
    <2>3. status' \in [Elements -> Statuses]
      BY <2>1, <1>0 DEF SettleStep, SettleSwap, SettleAudit, rowVars, Statuses
    <2>4. UNCHANGED <<configured, order, track, due, job, retry, hand, ran, succeeded, fault>>
      BY <2>1 DEF SettleStep, SettleSwap, SettleAudit, rowVars, ciVars
    <2> QED
      BY <2>2, <2>3, <2>4 DEF TInv, TypeOK, Settlings
  <1>2. CASE \E e \in Elements : Schedule(e)
    <2>1. due' \in [Elements -> BOOLEAN] /\ fault' \in {"none", "cut", "other"}
      BY <1>2, <1>0 DEF Schedule, Fault
    <2>2. UNCHANGED <<configured, order, status, track, job, retry, hand, settle, ran, succeeded>>
      BY <1>2 DEF Schedule, rowVars, ciVars
    <2> QED
      BY <2>1, <2>2 DEF TInv, TypeOK
  <1>3. CASE OrderReported
    BY <1>3 DEF OrderReported, TInv, TypeOK, OrderStatuses, rowVars, ciVars
  <1>4. CASE RetryClaim
    <2>1. retry' \in RetryRecord /\ order' \in OrderStatuses
      BY <1>4, <1>0 DEF RetryClaim, RetryRecord, OrderStatuses
    <2> QED
      BY <2>1, <1>4 DEF RetryClaim, TInv, TypeOK, rowVars, ciVars
  <1>5. CASE RetryRead
    <2>1. PICK e \in Elements :
            retry' = [pc |-> "fire", elems |-> Siblings(e), todo |-> Siblings(e)]
      BY <1>5 DEF RetryRead
    <2>2. Siblings(e) \subseteq Elements
      BY DEF Siblings, Actives
    <2>3. retry' \in RetryRecord
      BY <2>1, <2>2 DEF RetryRecord
    <2> QED
      BY <2>3, <1>5 DEF RetryRead, TInv, TypeOK, rowVars, ciVars
  <1>6. CASE RetryFire
    <2>1. retry' \in RetryRecord /\ order' \in OrderStatuses
      BY <1>6, <1>0, Records DEF RetryFire, RetryRecord, OrderStatuses
    <2> QED
      BY <2>1, <1>6 DEF RetryFire, TInv, TypeOK, rowVars, ciVars
  <1>7. CASE RetryRewrite
    <2>1. PICK e \in retry.todo :
            /\ status' = [status EXCEPT ![e] = "active"]
            /\ track' = [track EXCEPT ![e] = Built]
            /\ retry' = IF retry.todo = {e} THEN RetryOver
                                             ELSE [retry EXCEPT !.todo = @ \ {e}]
      BY <1>7 DEF RetryRewrite
    <2>2. retry' \in RetryRecord
      BY <2>1, <1>0, Records DEF RetryRecord
    <2>3. track' \in [Elements -> Tracking(Pipelines)]
      BY <2>1, <1>0, Trackings
    <2>4. status' \in [Elements -> Statuses]
      BY <2>1, <1>0 DEF Statuses
    <2> QED
      BY <2>2, <2>3, <2>4, <1>7 DEF RetryRewrite, TInv, TypeOK, ciVars
  <1> QED
    BY <1>1, <1>2, <1>3, <1>4, <1>5, <1>6, <1>7 DEF RetryStep

LEMMA NextTInv == TInv /\ [Next]_vars => TInv'
  <1> SUFFICES ASSUME TInv, [Next]_vars PROVE TInv'
    OBVIOUS
  <1>1. CASE UNCHANGED vars
    BY <1>1 DEF vars, rowVars, ciVars, TInv, TypeOK
  <1>2. CASE Next
    BY <1>2, JobStepTypes, HandType, OtherTypes DEF Next
  <1> QED
    BY <1>1, <1>2

LEMMA TInvAlways == Spec => []TInv
  BY InitTInv, NextTInv, PTL DEF Spec

(* Every reachable state is well typed: of jobs, retries, callbacks and    *)
(* settlements (teardown.ts, pipelineTracking.ts, handler.ts, settle.ts).  *)
THEOREM TypeCorrect == Spec => []TypeOK
  <1>1. TInv => TypeOK
    BY DEF TInv
  <1> QED
    BY <1>1, TInvAlways, PTL

-----------------------------------------------------------------------------
(* A Retry and the elements it applies.                                    *)

(* While a Retry is at work the order is 'provisioning', which stops the   *)
(* button and the sweep, and what it has read is active.                   *)
Applying ==
  /\ Retrying => order = "provisioning"
  /\ retry.todo \subseteq retry.elems
  /\ Retrying /\ retry.pc # "read" => \A e \in retry.elems : status[e] = "active"

(* Nothing else claims an element or fails the order meanwhile.            *)
Undisturbed == Races \cap {"fails", "cascade", "lone"} = {}

LEMMA ClaimedWhileIdle ==
  ASSUME Undisturbed, Applying, NEW j \in Jobs, Claim(j), Retrying
  PROVE  UNCHANGED status
  BY DEF Undisturbed, Applying, Claim, Claimable

LEMMA NextApplying ==
  ASSUME Undisturbed, TInv, Applying, [Next]_vars
  PROVE  Applying'
  <1>0. retry \in RetryRecord /\ status \in [Elements -> Statuses]
    BY DEF TInv, TypeOK
  <1>1. CASE UNCHANGED <<order, retry>>
             /\ \A e \in Elements : status[e] = "active" => status'[e] = "active" \/ ~Retrying
    BY <1>1, <1>0 DEF Applying, Retrying, RetryRecord
  <1>2. ASSUME NEW j \in Jobs,
               Press(j) \/ Sweep(j) \/ Cascade(j) \/ JobStep(j)
                 \/ RecordLost(j) \/ Crash(j) \/ Throws(j)
        PROVE  Applying'
    <2>1. UNCHANGED <<order, retry>>
      BY <1>2 DEF Press, Sweep, Cascade, StartJob, JobStep, Claim, EndJob, Previous, Begin,
         TriggerStarts, TriggerFails, Record, LookupStacks, HandBack, Restore, Close,
         Return, Catch, RecordLost, Crash, Throws
    <2>2. CASE Claim(j)
      BY <2>1, <2>2, <1>1, ClaimedWhileIdle
    <2>3. CASE HandBack(j) \/ Catch(j)
      <3>1. status' = [status EXCEPT ![job[j].cur] = "active"]
        BY <2>3 DEF HandBack, Catch
      <3> QED
        BY <3>1, <2>1, <1>0, <1>1
    <2>4. CASE UNCHANGED status
      BY <2>1, <2>4, <1>1
    <2> QED
      BY <1>2, <2>2, <2>3, <2>4
         DEF Press, Sweep, Cascade, StartJob, JobStep, EndJob, Previous, Begin,
         TriggerStarts, TriggerFails, Record, LookupStacks, Restore, Close,
         Return, RecordLost, Crash, Throws, rowVars
  <1>3. CASE \E h \in Handlers :
               \/ \E p \in Destroys, s \in {"success", "failed"} : Receive(h, p, s)
               \/ HandlerStep(h) \/ HandlerDies(h)
    BY <1>3, <1>1 DEF Receive, HandlerStep, HandleSuccess, HandleFailure, HandlerDies, rowVars
  <1>4. CASE \E x \in Requests : SettleStep(x)
    <2>1. PICK x \in Requests : SettleStep(x)
      BY <1>4
    <2>2. UNCHANGED <<order, retry>>
      BY <2>1 DEF SettleStep, SettleSwap, SettleAudit
    <2>3. \A e \in Elements : status[e] = "active" => status'[e] = "active"
      BY <2>1, <1>0 DEF SettleStep, SettleSwap, SettleAudit, rowVars
    <2> QED
      BY <2>2, <2>3, <1>1
  <1>5. CASE (\E e \in Elements : Schedule(e)) \/ UNCHANGED vars
    BY <1>5, <1>1 DEF Schedule, vars, rowVars
  <1>6. CASE OrderReported
    BY <1>6 DEF OrderReported, Undisturbed, Applying, Retrying, rowVars
  <1>7. CASE RetryClaim
    BY <1>7, <1>0 DEF RetryClaim, Applying, Retrying, RetryRecord, rowVars
  <1>8. CASE RetryRead
    <2>1. PICK e \in Elements :
            retry' = [pc |-> "fire", elems |-> Siblings(e), todo |-> Siblings(e)]
      BY <1>8 DEF RetryRead
    <2>2. Siblings(e) = Actives /\ UNCHANGED <<order, status>>
      BY <1>8 DEF RetryRead, Undisturbed, Siblings, rowVars
    <2>3. Retrying
      BY <1>8 DEF RetryRead, Retrying
    <2> QED
      BY <2>1, <2>2, <2>3 DEF Applying, Actives, Retrying
  <1>9. CASE RetryFire
    BY <1>9, <1>0 DEF RetryFire, Applying, Retrying, RetryOver, RetryRecord, rowVars
  <1>10. CASE RetryRewrite
    <2>1. PICK e \in retry.todo :
            /\ status' = [status EXCEPT ![e] = "active"]
            /\ retry' = IF retry.todo = {e} THEN RetryOver
                                             ELSE [retry EXCEPT !.todo = @ \ {e}]
      BY <1>10 DEF RetryRewrite
    <2>2. retry.pc = "rewrite" /\ order' = order
      BY <1>10 DEF RetryRewrite
    <2> QED
      BY <2>1, <2>2, <1>0 DEF Applying, Retrying, RetryOver, RetryRecord
  <1> QED
    BY <1>2, <1>3, <1>4, <1>5, <1>6, <1>7, <1>8, <1>9, <1>10 DEF Next, RetryStep

(* No element is destroyed underneath a Retry (orderNotProvisioning of     *)
(* infrastructure.ts), unless a report fails the order meanwhile, a        *)
(* deletion claims or the Retry finds no active element.                   *)
THEOREM RetriedStays ==
  ASSUME Undisturbed
  PROVE  Spec => []RetriedStaysActive
  <1>1. Init => Applying
    BY DEF Init, Applying, Retrying
  <1>2. TInv /\ Applying /\ [Next]_vars => Applying'
    BY NextApplying
  <1>3. Applying => RetriedStaysActive
    BY DEF Applying, RetriedStaysActive
  <1> QED
    BY <1>1, <1>2, <1>3, TInvAlways, PTL DEF Spec

-----------------------------------------------------------------------------
(* What the steps of a job do to it, field by field.                       *)

(* It stays with its element.                                              *)
Keeps(q, r) ==
  /\ q.cur = r.cur /\ q.kind = r.kind /\ q.todo = r.todo
  /\ q.took = r.took /\ q.refused = r.refused

(* It goes on to the next one.                                             *)
Leaves(q, r, failed) ==
  /\ q.pc = "claim" /\ q.got = {} /\ q.failures = FALSE /\ q.left = {}
  /\ q.sent = NoDestroy /\ q.previous = Untracked
  /\ q.kind = r.kind /\ q.todo = r.todo /\ q.took = r.took
  /\ q.refused = (r.refused \/ failed)

LEMMA Walking ==
  ASSUME TInv, NEW j \in Jobs
  PROVE  /\ Previous(j) =>
              /\ job'[j].pc = "begin" /\ Keeps(job'[j], job[j])
              /\ job'[j].left = job[j].left /\ job'[j].got = job[j].got
              /\ job'[j].sent = job[j].sent /\ job'[j].failures = job[j].failures
              /\ job'[j].previous = track[job[j].cur]
         /\ Begin(j) =>
              /\ job'[j].pc = "webhooks" /\ Keeps(job'[j], job[j])
              /\ job'[j].left = configured \cap Webhooks /\ job'[j].got = job[j].got
              /\ job'[j].sent = job[j].sent /\ job'[j].failures = job[j].failures
              /\ job'[j].previous = job[j].previous
         /\ LookupStacks(j) =>
              /\ job'[j].pc = "stacks" /\ Keeps(job'[j], job[j])
              /\ job'[j].left = configured \cap Stacks /\ job'[j].got = job[j].got
              /\ job'[j].sent = job[j].sent /\ job'[j].failures = job[j].failures
              /\ job'[j].previous = job[j].previous
         /\ \A pc \in Working : Goto(j, pc) =>
              /\ job'[j].pc = pc /\ Keeps(job'[j], job[j])
              /\ job'[j].left = job[j].left /\ job'[j].got = job[j].got
              /\ job'[j].sent = job[j].sent /\ job'[j].failures = job[j].failures
              /\ job'[j].previous = job[j].previous
  <1>0. job \in [Jobs -> JobRecord]
    BY DEF TInv, TypeOK
  <1> QED
    BY <1>0 DEF Previous, Begin, LookupStacks, Goto, Keeps, JobRecord, Working

LEMMA Firing ==
  ASSUME TInv, NEW j \in Jobs
  PROVE  /\ TriggerStarts(j) => \E t \in job[j].left :
              /\ job'[j].pc = "record" /\ Keeps(job'[j], job[j])
              /\ job'[j].left = job[j].left \ {t} /\ job'[j].got = job[j].got
              /\ job'[j].sent = <<j, job[j].cur, t>>
              /\ job'[j].failures = job[j].failures
              /\ job'[j].previous = job[j].previous
              /\ ran' = ran \cup {<<j, job[j].cur, t>>}
         /\ TriggerFails(j) => \E t \in job[j].left :
              /\ job'[j].pc = job[j].pc /\ Keeps(job'[j], job[j])
              /\ job'[j].left = job[j].left \ {t} /\ job'[j].got = job[j].got
              /\ job'[j].sent = job[j].sent /\ job'[j].failures = TRUE
              /\ job'[j].previous = job[j].previous
         /\ Record(j) \/ RecordLost(j) =>
              /\ job'[j].pc = IF job[j].sent[3] \in Webhooks THEN "webhooks" ELSE "stacks"
              /\ Keeps(job'[j], job[j])
              /\ job'[j].left = job[j].left /\ job'[j].got = job[j].got \cup {job[j].sent}
              /\ job'[j].sent = NoDestroy /\ job'[j].failures = job[j].failures
              /\ job'[j].previous = job[j].previous
  <1>0. job \in [Jobs -> JobRecord]
    BY DEF TInv, TypeOK
  <1>1. TriggerStarts(j) => \E t \in job[j].left :
              /\ job'[j].pc = "record" /\ Keeps(job'[j], job[j])
              /\ job'[j].left = job[j].left \ {t} /\ job'[j].got = job[j].got
              /\ job'[j].sent = <<j, job[j].cur, t>>
              /\ job'[j].failures = job[j].failures
              /\ job'[j].previous = job[j].previous
              /\ ran' = ran \cup {<<j, job[j].cur, t>>}
    <2> SUFFICES ASSUME NEW t \in job[j].left,
                        ran' = ran \cup {<<j, job[j].cur, t>>},
                        job' = [job EXCEPT ![j].pc = "record",
                                           ![j].sent = <<j, job[j].cur, t>>,
                                           ![j].left = @ \ {t}]
                 PROVE  /\ job'[j].pc = "record" /\ Keeps(job'[j], job[j])
                        /\ job'[j].left = job[j].left \ {t} /\ job'[j].got = job[j].got
                        /\ job'[j].sent = <<j, job[j].cur, t>>
                        /\ job'[j].failures = job[j].failures
                        /\ job'[j].previous = job[j].previous
      BY DEF TriggerStarts
    <2> QED
      BY <1>0 DEF Keeps, JobRecord
  <1>2. TriggerFails(j) => \E t \in job[j].left :
              /\ job'[j].pc = job[j].pc /\ Keeps(job'[j], job[j])
              /\ job'[j].left = job[j].left \ {t} /\ job'[j].got = job[j].got
              /\ job'[j].sent = job[j].sent /\ job'[j].failures = TRUE
              /\ job'[j].previous = job[j].previous
    <2> SUFFICES ASSUME NEW t \in job[j].left,
                        job' = [job EXCEPT ![j].left = @ \ {t}, ![j].failures = TRUE]
                 PROVE  /\ job'[j].pc = job[j].pc /\ Keeps(job'[j], job[j])
                        /\ job'[j].left = job[j].left \ {t} /\ job'[j].got = job[j].got
                        /\ job'[j].sent = job[j].sent /\ job'[j].failures = TRUE
                        /\ job'[j].previous = job[j].previous
      BY DEF TriggerFails
    <2> QED
      BY <1>0 DEF Keeps, JobRecord
  <1>3. AfterRecord(j) =>
              /\ job'[j].pc = IF job[j].sent[3] \in Webhooks THEN "webhooks" ELSE "stacks"
              /\ Keeps(job'[j], job[j])
              /\ job'[j].left = job[j].left /\ job'[j].got = job[j].got \cup {job[j].sent}
              /\ job'[j].sent = NoDestroy /\ job'[j].failures = job[j].failures
              /\ job'[j].previous = job[j].previous
    BY <1>0 DEF AfterRecord, Keeps, JobRecord
  <1> QED
    BY <1>1, <1>2, <1>3 DEF Record, RecordLost

LEMMA Leaving ==
  ASSUME TInv, NEW j \in Jobs, NEW b \in BOOLEAN, Proceed(j, b)
  PROVE  Leaves(job'[j], job[j], b)
  <1>0. job \in [Jobs -> JobRecord]
    BY DEF TInv, TypeOK
  <1> QED
    BY <1>0 DEF Proceed, Leaves, JobRecord

LEMMA Claiming ==
  ASSUME TInv, NEW j \in Jobs, Claim(j)
  PROVE  \E e \in job[j].todo :
           /\ job'[j].kind = job[j].kind /\ job'[j].todo = job[j].todo \ {e}
           /\ job'[j].refused = job[j].refused /\ job'[j].got = job[j].got
           /\ job'[j].left = job[j].left /\ job'[j].sent = job[j].sent
           /\ job'[j].failures = job[j].failures /\ job'[j].previous = job[j].previous
           /\ \/ /\ Claimable(j, e)
                 /\ "cascade" \in Races \/ ~Retrying \/ job[j].kind # "cascade"
                 /\ "handback" \in Races
                      \/ \A i \in Jobs : ~(job[i].pc \in {"restore", "catch"} /\ job[i].cur = e)
                 /\ status' = [status EXCEPT ![e] = "decommissioning"]
                 /\ job'[j].pc = "previous" /\ job'[j].cur = e
                 /\ job'[j].took \subseteq job[j].took \cup {e}
              \/ /\ UNCHANGED status
                 /\ job'[j].pc = "claim" /\ job'[j].took = job[j].took
  <1>0. job \in [Jobs -> JobRecord]
    BY DEF TInv, TypeOK
  <1>1. PICK e \in job[j].todo :
       IF Claimable(j, e)
         THEN /\ "cascade" \in Races \/ ~Retrying \/ job[j].kind # "cascade"
              /\ "handback" \in Races
                   \/ \A i \in Jobs : ~(job[i].pc \in {"restore", "catch"} /\ job[i].cur = e)
              /\ status' = [status EXCEPT ![e] = "decommissioning"]
              /\ job' = [job EXCEPT ![j].pc = "previous",
                                    ![j].cur = e,
                                    ![j].todo = @ \ {e},
                                    ![j].took = IF job[j].kind = "cascade"
                                                    THEN @ \cup {e} ELSE @]
         ELSE /\ job' = [job EXCEPT ![j].todo = @ \ {e}]
              /\ UNCHANGED status
    BY DEF Claim
  <1>2. CASE Claimable(j, e)
    <2>1. /\ job'[j].kind = job[j].kind /\ job'[j].todo = job[j].todo \ {e}
          /\ job'[j].refused = job[j].refused /\ job'[j].got = job[j].got
          /\ job'[j].left = job[j].left /\ job'[j].sent = job[j].sent
          /\ job'[j].failures = job[j].failures /\ job'[j].previous = job[j].previous
          /\ job'[j].pc = "previous" /\ job'[j].cur = e
          /\ job'[j].took \subseteq job[j].took \cup {e}
      BY <1>0, <1>1, <1>2 DEF JobRecord
    <2> QED
      BY <1>1, <1>2, <2>1
  <1>3. CASE ~Claimable(j, e)
    <2>1. /\ job'[j].kind = job[j].kind /\ job'[j].todo = job[j].todo \ {e}
          /\ job'[j].refused = job[j].refused /\ job'[j].got = job[j].got
          /\ job'[j].left = job[j].left /\ job'[j].sent = job[j].sent
          /\ job'[j].failures = job[j].failures /\ job'[j].previous = job[j].previous
          /\ job'[j].pc = job[j].pc /\ job'[j].took = job[j].took
      BY <1>0, <1>1, <1>3 DEF JobRecord
    <2> QED
      BY <1>1, <1>3, <2>1 DEF Claim
  <1> QED
    BY <1>2, <1>3

-----------------------------------------------------------------------------
(* What a job has fired, when the pipelines in R have been started.        *)

AtWebhooks(q) == q.pc = "webhooks" \/ (q.pc = "record" /\ q.sent[3] \in Webhooks)

(* A configured trigger is still to come, has failed, or was fired.        *)
Tracked(j, q) ==
  \A t \in configured :
    \/ t \in q.left
    \/ <<j, q.cur, t>> \in q.got
    \/ q.pc = "record" /\ q.sent = <<j, q.cur, t>>
    \/ AtWebhooks(q) /\ t \in Stacks

AllRan(j, e, R) == \A t \in configured : <<j, e, t>> \in R

Fires(j, q, R) ==
  /\ q.got \subseteq R
  /\ q.pc = "record" => q.sent \in R
  /\ q.pc \in {"webhooks", "stacks", "record"} =>
       /\ q.left \subseteq configured \cap IF AtWebhooks(q) THEN Webhooks ELSE Stacks
       /\ q.failures \/ Tracked(j, q)
  /\ q.pc = "settling" =>
       q.failures \/ \A t \in configured : <<j, q.cur, t>> \in q.got
  /\ q.pc # "retired" =>
       \A e \in q.took :
         (q.pc \in Working /\ q.cur = e) \/ q.refused \/ AllRan(j, e, R)
  /\ q.pc = "retired" => \A e \in q.took : AllRan(j, e, R)

FInv == \A j \in Jobs : Fires(j, job[j], ran)

LEMMA FiresMore ==
  ASSUME NEW j, NEW q, NEW R, NEW S, R \subseteq S, Fires(j, q, R)
  PROVE  Fires(j, q, S)
  BY DEF Fires, AllRan

(* A job that has none to be counted for.                                  *)
LEMMA FiresNothing ==
  ASSUME NEW j, NEW q, NEW R, q.got = {}, q.took = {},
         q.pc \in {"idle", "done", "claim"}
  PROVE  Fires(j, q, R)
  BY DEF Fires

LEMMA FiresStep ==
  ASSUME TInv, NEW j \in Jobs, Fires(j, job[j], ran),
         \/ Press(j) \/ Sweep(j) \/ Cascade(j) \/ JobStep(j)
         \/ RecordLost(j) \/ Crash(j) \/ Throws(j)
  PROVE  Fires(j, job'[j], ran')
  <1>0. /\ job \in [Jobs -> JobRecord] /\ job[j] \in JobRecord
        /\ configured \subseteq Webhooks \cup Stacks
        /\ Webhooks \cap Stacks = {}
        /\ job[j].left \subseteq Webhooks \cup Stacks
        /\ job[j].failures \in BOOLEAN
    BY TeardownAssumption DEF TInv, TypeOK, Triggers, JobRecord
  <1>1. CASE Press(j) \/ Sweep(j) \/ Cascade(j)
    <2>1. job[j].pc = "idle" /\ ran' = ran
      BY <1>1 DEF Press, Sweep, Cascade, StartJob, NextJob, ciVars
    <2>2. /\ job'[j].pc = "claim" /\ job'[j].got = job[j].got
          /\ job'[j].took = job[j].took /\ job'[j].refused = job[j].refused
      BY <1>1, <1>0 DEF Press, Sweep, Cascade, StartJob, JobRecord
    <2> QED
      BY <2>1, <2>2 DEF Fires, AllRan, Working
  <1>2. CASE Claim(j)
    <2>1. job[j].pc = "claim" /\ ran' = ran
      BY <1>2 DEF Claim, ciVars
    <2>2. /\ job'[j].got = job[j].got /\ job'[j].refused = job[j].refused
          /\ \/ \E e \in Elements : /\ job'[j].pc = "previous" /\ job'[j].cur = e
                                    /\ job'[j].took \subseteq job[j].took \cup {e}
             \/ job'[j].pc = "claim" /\ job'[j].took = job[j].took
      BY <1>2, <1>0, Claiming DEF JobRecord
    <2> QED
      BY <2>1, <2>2 DEF Fires, AllRan, Working
  <1>3. CASE EndJob(j)
    <2>1. job[j].pc = "claim" /\ ran' = ran
      BY <1>3 DEF EndJob, ciVars
    <2>2. CASE job' = [job EXCEPT ![j] = [Idle EXCEPT !.pc = "retired", !.took = job[j].took]]
      <3>1. job'[j].pc = "retired" /\ job'[j].got = {} /\ job'[j].took = job[j].took
            /\ ~job[j].refused
        BY <2>2, <1>3, <1>0 DEF EndJob, Idle, Over
      <3> QED
        BY <3>1, <2>1 DEF Fires, AllRan, Working
    <2>3. CASE job' = [job EXCEPT ![j] = Over]
      <3>1. job'[j].pc = "done" /\ job'[j].got = {} /\ job'[j].took = {}
        BY <2>3, <1>0 DEF Over, Idle
      <3> QED
        BY <3>1, FiresNothing
    <2> QED
      BY <1>3, <2>2, <2>3 DEF EndJob
  <1>4. CASE Previous(j)
    <2>1. job[j].pc = "previous" /\ ran' = ran
      BY <1>4 DEF Previous, ciVars
    <2>2. /\ job'[j].pc = "begin" /\ Keeps(job'[j], job[j]) /\ job'[j].got = job[j].got
      BY <1>4, Walking
    <2> QED
      BY <2>1, <2>2 DEF Fires, Keeps, Working, AllRan
  <1>5. CASE Begin(j)
    <2>1. job[j].pc = "begin" /\ ran' = ran
      BY <1>5 DEF Begin, ciVars
    <2>2. /\ job'[j].pc = "webhooks" /\ Keeps(job'[j], job[j]) /\ job'[j].got = job[j].got
          /\ job'[j].left = configured \cap Webhooks
      BY <1>5, Walking
    <2> QED
      BY <2>1, <2>2, <1>0 DEF Fires, Keeps, Working, AllRan, Tracked, AtWebhooks
  <1>6. CASE TriggerStarts(j)
    <2>1. job[j].pc \in {"webhooks", "stacks"}
      BY <1>6 DEF TriggerStarts
    <2>2. PICK t \in job[j].left :
              /\ job'[j].pc = "record" /\ Keeps(job'[j], job[j])
              /\ job'[j].left = job[j].left \ {t} /\ job'[j].got = job[j].got
              /\ job'[j].sent = <<j, job[j].cur, t>>
              /\ job'[j].failures = job[j].failures
              /\ ran' = ran \cup {<<j, job[j].cur, t>>}
      BY <1>6, Firing
    <2>3. job'[j].sent[3] = t /\ job'[j].sent = <<j, job'[j].cur, t>>
      BY <2>2 DEF Keeps
    <2>4. AtWebhooks(job'[j]) <=> AtWebhooks(job[j])
      BY <2>1, <2>2, <2>3, <1>0 DEF AtWebhooks, Fires
    <2>5. Tracked(j, job[j]) => Tracked(j, job'[j])
      BY <2>2, <2>3, <2>4, <2>1 DEF Tracked, Keeps
    <2>6. /\ job'[j].got \subseteq ran' /\ job'[j].sent \in ran' /\ ran \subseteq ran'
      BY <2>2 DEF Fires
    <2>7. job'[j].left \subseteq configured \cap IF AtWebhooks(job'[j]) THEN Webhooks ELSE Stacks
      BY <2>1, <2>2, <2>4 DEF Fires
    <2>8. \A e \in job'[j].took :
            (job'[j].cur = e) \/ job'[j].refused \/ AllRan(j, e, ran')
      BY <2>1, <2>2, <2>6 DEF Fires, Keeps, AllRan
    <2>9. job'[j].failures \/ Tracked(j, job'[j])
      BY <2>1, <2>2, <2>5 DEF Fires
    <2> QED
      BY <2>2, <2>6, <2>7, <2>8, <2>9 DEF Fires, Working
  <1>7. CASE TriggerFails(j)
    <2>1. job[j].pc \in {"webhooks", "stacks"} /\ ran' = ran
      BY <1>7 DEF TriggerFails, ciVars
    <2>2. PICK t \in job[j].left :
              /\ job'[j].pc = job[j].pc /\ Keeps(job'[j], job[j])
              /\ job'[j].left = job[j].left \ {t} /\ job'[j].got = job[j].got
              /\ job'[j].failures = TRUE
      BY <1>7, Firing
    <2> QED
      BY <2>1, <2>2 DEF Fires, Keeps, Working, AllRan, AtWebhooks
  <1>8. CASE Record(j) \/ RecordLost(j)
    <2>1. job[j].pc = "record" /\ ran' = ran
      BY <1>8 DEF Record, RecordLost, ciVars
    <2>2. /\ job'[j].pc = IF job[j].sent[3] \in Webhooks THEN "webhooks" ELSE "stacks"
          /\ Keeps(job'[j], job[j])
          /\ job'[j].left = job[j].left /\ job'[j].got = job[j].got \cup {job[j].sent}
          /\ job'[j].failures = job[j].failures
      BY <1>8, Firing
    <2>3. AtWebhooks(job'[j]) <=> AtWebhooks(job[j])
      BY <2>1, <2>2 DEF AtWebhooks
    <2>4. Tracked(j, job[j]) => Tracked(j, job'[j])
      BY <2>1, <2>2, <2>3 DEF Tracked, Keeps
    <2> QED
      BY <2>1, <2>2, <2>3, <2>4 DEF Fires, Keeps, Working, AllRan
  <1>9. CASE LookupStacks(j)
    <2>1. job[j].pc = "webhooks" /\ job[j].left = {} /\ ran' = ran
      BY <1>9 DEF LookupStacks, ciVars
    <2>2. /\ job'[j].pc = "stacks" /\ Keeps(job'[j], job[j]) /\ job'[j].got = job[j].got
          /\ job'[j].left = configured \cap Stacks /\ job'[j].failures = job[j].failures
      BY <1>9, Walking
    <2>3. Tracked(j, job[j]) => Tracked(j, job'[j])
      BY <2>1, <2>2 DEF Tracked, Keeps
    <2> QED
      BY <2>1, <2>2, <2>3 DEF Fires, Keeps, Working, AllRan, AtWebhooks
  <1>10. CASE HandBack(j)
    <2>1. job[j].pc = "stacks" /\ ran' = ran
      BY <1>10 DEF HandBack, AllFired, ciVars
    <2>2. job'[j].pc = "restore" /\ Keeps(job'[j], job[j]) /\ job'[j].got = job[j].got
      BY <1>10, Walking DEF HandBack, Working
    <2> QED
      BY <2>1, <2>2 DEF Fires, Keeps, Working, AllRan
  <1>11. CASE Close(j)
    <2>1. job[j].pc = "stacks" /\ job[j].left = {} /\ ran' = ran
      BY <1>11 DEF Close, AllFired, ciVars
    <2>2. /\ job'[j].pc = "settling" /\ Keeps(job'[j], job[j]) /\ job'[j].got = job[j].got
          /\ job'[j].failures = job[j].failures
      BY <1>11, Walking DEF Close, Working
    <2>3. job[j].failures \/ \A t \in configured : <<j, job[j].cur, t>> \in job[j].got
      BY <2>1 DEF Fires, Tracked, AtWebhooks
    <2> QED
      BY <2>1, <2>2, <2>3 DEF Fires, Keeps, Working, AllRan
  <1>12. ASSUME NEW b \in BOOLEAN, Leaves(job'[j], job[j], b), ran' = ran, job[j].pc \in Working,
                b \/ (job[j].pc = "settling" /\ ~job[j].failures)
         PROVE  Fires(j, job'[j], ran')
    <2>1. \A e \in job'[j].took : job'[j].refused \/ AllRan(j, e, ran')
      BY <1>12 DEF Fires, Leaves, AllRan, Working
    <2> QED
      BY <2>1, <1>12 DEF Fires, Leaves
  <1>13. CASE Restore(j) \/ Catch(j)
    BY <1>13, <1>12, Leaving DEF Restore, Catch, Working, ciVars
  <1>14. CASE Return(j)
    BY <1>14, <1>12, <1>0, Leaving DEF Return, Working, ciVars
  <1>15. CASE Crash(j)
    <2>1. job'[j].pc = "done" /\ job'[j].got = {} /\ job'[j].took = {}
      BY <1>15, <1>0 DEF Crash, Over, Idle
    <2> QED
      BY <2>1, FiresNothing
  <1>16. CASE Throws(j)
    <2>1. job[j].pc \in Working /\ job[j].pc # "record" /\ ran' = ran
      BY <1>16 DEF Throws, AtStatement, Working, ciVars
    <2>2. CASE Proceed(j, TRUE)
      BY <2>1, <2>2, <1>12, Leaving
    <2>3. CASE Goto(j, "catch")
      <3>1. job'[j].pc = "catch" /\ Keeps(job'[j], job[j]) /\ job'[j].got = job[j].got
        BY <2>3, Walking DEF Working
      <3> QED
        BY <2>1, <3>1 DEF Fires, Keeps, Working, AllRan
    <2> QED
      BY <1>16, <2>2, <2>3 DEF Throws
  <1> QED
    BY <1>1, <1>2, <1>3, <1>4, <1>5, <1>6, <1>7, <1>8, <1>9, <1>10, <1>11, <1>13,
       <1>14, <1>15, <1>16 DEF JobStep

(* Who starts pipelines, and who moves a job.                              *)
LEMMA JobFrame ==
  ASSUME TInv, NEW j \in Jobs,
         \/ Press(j) \/ Sweep(j) \/ Cascade(j) \/ JobStep(j)
         \/ RecordLost(j) \/ Crash(j) \/ Throws(j)
  PROVE  /\ UNCHANGED <<configured, order, due, retry, hand, succeeded>>
         /\ ran \subseteq ran'
         /\ \A i \in Jobs : i # j => job'[i] = job[i]
  <1>1. UNCHANGED <<configured, order, due, retry, hand, succeeded>> /\ ran \subseteq ran'
    BY DEF Press, Sweep, Cascade, StartJob, JobStep, Claim, EndJob, Previous, Begin,
       TriggerStarts, TriggerFails, Record, LookupStacks, HandBack, Restore, Close,
       Return, Catch, RecordLost, Crash, Throws, ciVars
  <1>2. job \in [Jobs -> JobRecord]
    BY DEF TInv, TypeOK
  <1> QED
    BY <1>1, <1>2, JobType

LEMMA OtherFrame ==
  ASSUME \/ UNCHANGED vars
         \/ \E h \in Handlers : \/ \E p \in Destroys, s \in {"success", "failed"} : Receive(h, p, s)
                                \/ HandlerStep(h) \/ HandlerDies(h)
         \/ \E x \in Requests : SettleStep(x)
         \/ \E e \in Elements : Schedule(e)
         \/ OrderReported \/ RetryClaim \/ RetryStep
  PROVE  UNCHANGED <<configured, job, ran>>
  BY DEF vars, Receive, HandlerStep, HandleSuccess, HandleFailure, HandlerDies,
     SettleStep, SettleSwap, SettleAudit, Schedule, OrderReported, RetryClaim,
     RetryStep, RetryRead, RetryFire, RetryRewrite, ciVars

LEMMA NextFInv == TInv /\ FInv /\ [Next]_vars => FInv'
  <1> SUFFICES ASSUME TInv, FInv, [Next]_vars PROVE FInv'
    OBVIOUS
  <1>1. ASSUME NEW j \in Jobs,
               Press(j) \/ Sweep(j) \/ Cascade(j) \/ JobStep(j)
                 \/ RecordLost(j) \/ Crash(j) \/ Throws(j)
        PROVE  FInv'
    <2>1. configured' = configured /\ ran \subseteq ran'
          /\ \A i \in Jobs : i # j => job'[i] = job[i]
      BY <1>1, JobFrame
    <2>2. Fires(j, job'[j], ran')
      BY <1>1, FiresStep DEF FInv
    <2>3. \A i \in Jobs : Fires(i, job'[i], ran')
      BY <2>1, <2>2, FiresMore DEF FInv
    <2> QED
      BY <2>1, <2>3 DEF FInv, Fires, AllRan, Tracked
  <1>2. CASE UNCHANGED <<configured, job, ran>>
    BY <1>2 DEF FInv, Fires, AllRan, Tracked, AtWebhooks
  <1> QED
    BY <1>1, <1>2, OtherFrame DEF Next

LEMMA FInvAlways == Spec => []FInv
  <1>1. Init => FInv
    <2> SUFFICES ASSUME Init, NEW j \in Jobs PROVE Fires(j, job[j], ran)
      BY DEF FInv
    <2>1. job[j].got = {} /\ job[j].took = {} /\ job[j].pc = "idle"
      BY DEF Init, Idle
    <2> QED
      BY <2>1, FiresNothing
  <1> QED
    BY <1>1, NextFInv, TInvAlways, PTL DEF Spec

(* A deletion that goes through has fired every destroy of every element   *)
(* it claimed: it is refused if one could not be started, or a statement   *)
(* threw (deleteProject, deleteProduct, deleteCategory), under every race  *)
(* and fault.                                                              *)
THEOREM RetiredHasFired == Spec => []RetiredMeansFired
  <1>1. FInv => RetiredMeansFired
    BY DEF FInv, Fires, AllRan, RetiredMeansFired
  <1> QED
    BY <1>1, FInvAlways, PTL

-----------------------------------------------------------------------------
(* Who holds an element, and what its row says.                            *)

(* No destroy is handed back while it runs, and an element that is handed  *)
(* back has its ids restored before it is claimed again.                   *)
Orderly == Races = {} /\ "late" \notin Faults

Ran(e) == {p \in ran : p[2] = e}

At(j, e) == job[j].pc \in Working /\ job[j].cur = e

Exclusive == \A i, j \in Jobs, e \in Elements : At(i, e) /\ At(j, e) => i = j

(* Between its claim and its close an element is on its way out, guarded   *)
(* by the triggering entry once it is there; what runs at it is its job's. *)
Holds(j) ==
  LET q == job[j]
      e == job[j].cur
  IN /\ q.previous.ok = {}
     /\ q.pc \in {"previous", "begin"} => status[e] = "decommissioning" /\ Ran(e) = {}
     /\ q.pc \in {"webhooks", "stacks", "record"} =>
          /\ status[e] = "decommissioning"
          /\ Triggering \in track[e].blocks
     /\ q.pc \in {"webhooks", "stacks"} => Ran(e) \subseteq q.got
     /\ q.pc = "record" => Ran(e) \subseteq q.got \cup {q.sent}
     /\ q.pc \in {"webhooks", "stacks", "record", "settling"} => \A p \in Ran(e) : p[1] = j
     /\ q.pc = "settling" => status[e] # "active"
     /\ q.pc = "restore" => status[e] = "active" /\ Ran(e) = {}
     /\ q.pc = "catch" => status[e] # "decommissioned" /\ Ran(e) = {}

(* One job's destroys of e, all of them, are in S.                         *)
Complete(e, S) == \E j \in Jobs : \A t \in configured : <<j, e, t>> \in S

Row(e) ==
  /\ status[e] = "active" => Ran(e) = {}
  /\ status[e] # "decommissioned" => track[e].ok \subseteq succeeded \cap Ran(e)
  /\ status[e] = "decommissioning" /\ track[e].blocks = {} =>
       Ran(e) = {} \/ Complete(e, track[e].ids)
  /\ status[e] = "decommissioned" => track[e] = Gone \/ Complete(e, succeeded)

(* A settlement is about an element whose destroys have all succeeded.     *)
Settles(x) ==
  /\ settle[x].pc # "none" => Ran(settle[x].of) # {}
  /\ settle[x].pc = "swap" =>
       settle[x].decided.blocks = {} /\ Complete(settle[x].of, succeeded)
  /\ x \in Jobs /\ settle[x].pc # "none" =>
       job[x].pc = "settling" /\ settle[x].of = job[x].cur

Hands(h) ==
  hand[h].pc = "merge" =>
    /\ hand[h].pipeline \in ran
    /\ hand[h].report = "success" => hand[h].pipeline \in succeeded
    /\ settle[h].pc = "none"

Swapped(e) ==
  status[e] = "decommissioning" /\ IsSettled(track[e])
    => \/ \E x \in Requests : /\ settle[x].pc = "swap"
                              /\ settle[x].of = e
                              /\ SameStatus(track[e], settle[x].decided)
       \/ fault = "cut"

OInv ==
  /\ Exclusive
  /\ \A j \in Jobs : Holds(j)
  /\ \A e \in Elements : Row(e) /\ Swapped(e)
  /\ \A x \in Requests : Settles(x)
  /\ \A h \in Handlers : Hands(h)

(* Rows that a step leaves alone keep what they say.                       *)
LEMMA RowStays ==
  ASSUME NEW e \in Elements, Row(e), status'[e] = status[e], track'[e] = track[e],
         Ran(e)' = Ran(e), succeeded \subseteq succeeded', configured' = configured
  PROVE  Row(e)'
  <1>1. \A S, T : S \subseteq T /\ Complete(e, S) => Complete(e, T)
    BY DEF Complete
  <1>2. \A S : Complete(e, S)' <=> Complete(e, S)
    BY DEF Complete
  <1> QED
    BY <1>1, <1>2 DEF Row, Complete

LEMMA HoldStays ==
  ASSUME NEW j \in Jobs, Holds(j), job'[j] = job[j],
         job[j].pc \in Working =>
           /\ status'[job[j].cur] = status[job[j].cur]
           /\ Ran(job[j].cur)' = Ran(job[j].cur)
           /\ Triggering \in track[job[j].cur].blocks =>
                Triggering \in track'[job[j].cur].blocks
  PROVE  Holds(j)'
  BY DEF Holds, Working, Ran

LEMMA SettleStays ==
  ASSUME NEW x \in Requests, Settles(x), settle'[x] = settle[x],
         ran \subseteq ran', succeeded \subseteq succeeded', configured' = configured,
         x \in Jobs /\ settle[x].pc # "none" => job'[x].pc = job[x].pc /\ job'[x].cur = job[x].cur
  PROVE  Settles(x)'
  BY DEF Settles, Ran, Complete

(* A step of job j at element e, which no other job is at, keeps the whole *)
(* if it keeps what is said of j, of e and of j's settlement.              *)
LEMMA JobMoves ==
  ASSUME OInv, NEW j \in Jobs, NEW e \in Elements,
         \A i \in Jobs : i # j => job'[i] = job[i] /\ ~At(i, e),
         job'[j].pc \in Working => job'[j].cur = e,
         \A f \in Elements : f # e => /\ status'[f] = status[f] /\ track'[f] = track[f]
                                      /\ Ran(f)' = Ran(f),
         UNCHANGED <<configured, hand, succeeded>>, ran \subseteq ran',
         \A x \in Requests : x # j => settle'[x] = settle[x],
         \/ settle'[j] = settle[j]
         \/ settle[j].pc = "none"
         \/ fault' = "cut",
         fault = "cut" => fault' = "cut",
         \A i \in Jobs : job[i].pc \in Working => job[i].cur \in Elements,
         Holds(j)', Row(e)', Swapped(e)', Settles(j)'
  PROVE  OInv'
  <1>1. Exclusive'
    BY DEF OInv, Exclusive, At
  <1>2. \A i \in Jobs : Holds(i)'
    <2>1. ASSUME NEW i \in Jobs, i # j PROVE Holds(i)'
      <3>1. job[i].pc \in Working => job[i].cur \in Elements /\ job[i].cur # e
        BY <2>1 DEF At
      <3> QED
        BY <3>1, <2>1, HoldStays DEF OInv
    <2> QED
      BY <2>1
  <1>3. \A f \in Elements : Row(f)'
    <2>1. ASSUME NEW f \in Elements, f # e PROVE Row(f)'
      BY <2>1, RowStays DEF OInv
    <2> QED
      BY <2>1
  <1>4. \A f \in Elements : Swapped(f)'
    <2>1. ASSUME NEW f \in Elements, f # e PROVE Swapped(f)'
      <3>1. Swapped(f) /\ status'[f] = status[f] /\ track'[f] = track[f]
        BY <2>1 DEF OInv
      <3>2. ASSUME NEW x \in Requests, settle[x].pc = "swap" PROVE settle'[x] = settle[x] \/ fault' = "cut"
        BY <3>2
      <3> QED
        BY <3>1, <3>2 DEF Swapped
    <2> QED
      BY <2>1
  <1>5. \A x \in Requests : Settles(x)'
    <2>1. ASSUME NEW x \in Requests, x # j PROVE Settles(x)'
      BY <2>1, SettleStays DEF OInv
    <2> QED
      BY <2>1
  <1>6. \A h \in Handlers : Hands(h)'
    <2>1. \A h \in Handlers : h \in Requests /\ h # j
      BY TeardownAssumption DEF Jobs, Requests
    <2> QED
      BY <2>1 DEF OInv, Hands
  <1> QED
    BY <1>1, <1>2, <1>3, <1>4, <1>5, <1>6 DEF OInv

(* A step of a job that writes no row.                                     *)
LEMMA QuietMoves ==
  ASSUME OInv, NEW j \in Jobs,
         \A i \in Jobs : i # j => job'[i] = job[i],
         job'[j].pc \in Working => At(j, job'[j].cur) /\ job'[j].cur \in Elements,
         UNCHANGED <<configured, status, track, ran, hand, succeeded>>,
         \A x \in Requests : x # j => settle'[x] = settle[x],
         settle'[j] = settle[j] \/ fault' = "cut",
         fault = "cut" => fault' = "cut",
         Holds(j)', Settles(j)'
  PROVE  OInv'
  <1>1. Exclusive'
    BY DEF OInv, Exclusive, At
  <1>2. \A i \in Jobs : Holds(i)'
    <2>1. \A e : Ran(e)' = Ran(e)
      BY DEF Ran
    <2>2. ASSUME NEW i \in Jobs, i # j PROVE Holds(i)'
      BY <2>1, <2>2, HoldStays DEF OInv
    <2> QED
      BY <2>2
  <1>3. \A f \in Elements : Row(f)'
    BY RowStays DEF OInv, Ran
  <1>4. \A f \in Elements : Swapped(f)'
    BY DEF OInv, Swapped
  <1>5. \A x \in Requests : Settles(x)'
    <2>1. ASSUME NEW x \in Requests, x # j PROVE Settles(x)'
      BY <2>1, SettleStays DEF OInv
    <2> QED
      BY <2>1
  <1>6. \A h \in Handlers : Hands(h)'
    <2>1. \A h \in Handlers : h \in Requests /\ h # j
      BY TeardownAssumption DEF Jobs, Requests
    <2> QED
      BY <2>1 DEF OInv, Hands
  <1> QED
    BY <1>1, <1>2, <1>3, <1>4, <1>5, <1>6 DEF OInv

(* What holds of a job in every good state.                                *)
LEMMA JobFacts ==
  ASSUME TInv, OInv, NEW j \in Jobs
  PROVE  /\ job \in [Jobs -> JobRecord] /\ job[j] \in JobRecord
         /\ job[j].pc \in Working => job[j].cur \in Elements
         /\ status \in [Elements -> Statuses]
         /\ track \in [Elements -> Tracking(Pipelines)]
         /\ succeeded \subseteq ran
         /\ Holds(j) /\ Settles(j)
         /\ job[j].pc # "settling" => settle[j].pc = "none"
         /\ \A e \in Elements : Row(e)
         /\ settle \in [Requests -> SettleRecord] /\ j \in Requests
         /\ NoSettle.pc = "none"
         /\ job[j].failures \in BOOLEAN
  <1>1. j \in Requests
    BY DEF Requests
  <1>2. settle \in [Requests -> SettleRecord] /\ job[j] \in JobRecord
    BY DEF TInv, TypeOK
  <1>3. Settles(j)
    BY <1>1 DEF OInv
  <1>4. settle[j].pc \in {"none", "swap", "audit"}
    BY <1>1, <1>2 DEF SettleRecord
  <1>5. job[j].failures \in BOOLEAN
    BY <1>2 DEF JobRecord
  <1> QED
    BY <1>1, <1>2, <1>3, <1>4, <1>5, Records DEF TInv, TypeOK, Placed, OInv, Settles

(* A job at rest holds nothing.                                            *)
LEMMA RestHolds ==
  ASSUME NEW j \in Jobs, job[j].pc \notin Working, job[j].previous.ok = {}
  PROVE  Holds(j)
  BY DEF Holds, Working

LEMMA QuietJobs ==
  ASSUME TInv, OInv, Orderly, NEW j \in Jobs,
         \/ Press(j) \/ Sweep(j) \/ Cascade(j) \/ EndJob(j) \/ Previous(j)
         \/ TriggerFails(j) \/ RecordLost(j) \/ LookupStacks(j) \/ Return(j)
         \/ Crash(j) \/ Throws(j)
  PROVE  OInv'
  <1>0. /\ job \in [Jobs -> JobRecord] /\ job[j] \in JobRecord
        /\ job[j].pc \in Working => job[j].cur \in Elements
        /\ succeeded \subseteq ran
        /\ Holds(j) /\ Settles(j)
        /\ job[j].pc # "settling" => settle[j].pc = "none"
        /\ \A e \in Elements : Row(e)
        /\ settle \in [Requests -> SettleRecord] /\ j \in Requests
        /\ NoSettle.pc = "none"
    BY JobFacts
  <1>1. \A i \in Jobs : i # j => job'[i] = job[i]
    BY JobFrame DEF JobStep
  <1>2. UNCHANGED <<configured, status, track, ran, hand, succeeded>>
    BY DEF Press, Sweep, Cascade, StartJob, EndJob, Previous, TriggerFails, RecordLost,
       LookupStacks, Return, Crash, Throws, rowVars, ciVars
  <1>3. fault = "cut" => fault' = "cut"
    BY DEF Press, Sweep, Cascade, StartJob, EndJob, Previous, TriggerFails, RecordLost,
       LookupStacks, Return, Crash, Throws, Fault
  <1>4. \/ settle' = settle
        \/ settle' = [settle EXCEPT ![j] = NoSettle] /\ fault' = "cut"
    BY DEF Press, Sweep, Cascade, StartJob, EndJob, Previous, TriggerFails, RecordLost,
       LookupStacks, Return, Crash, Throws, Fault
  <1>5. /\ \A x \in Requests : x # j => settle'[x] = settle[x]
        /\ settle'[j] = settle[j] \/ (settle'[j].pc = "none" /\ fault' = "cut")
    BY <1>0, <1>4
  <1>s. SUFFICES /\ Holds(j)'
                 /\ job'[j].pc \in Working => job'[j].cur = job[j].cur /\ job[j].pc \in Working
                 /\ settle'[j].pc = "none"
    <2>1. job'[j].pc \in Working => At(j, job'[j].cur) /\ job'[j].cur \in Elements
      BY <1>s, <1>0 DEF At
    <2>2. Settles(j)'
      BY <1>s DEF Settles
    <2> QED
      BY <1>s, <1>1, <1>2, <1>3, <1>5, <2>1, <2>2, QuietMoves
  <1>6. job[j].pc # "settling" => settle'[j].pc = "none"
    BY <1>0, <1>5
  <1>7. \A e : Ran(e)' = Ran(e)
    BY <1>2 DEF Ran
  <1>8. CASE Press(j) \/ Sweep(j) \/ Cascade(j)
    <2>1. /\ job[j].pc = "idle" /\ job'[j].pc = "claim"
          /\ job'[j].previous = job[j].previous
      BY <1>8, <1>0 DEF Press, Sweep, Cascade, StartJob, NextJob, JobRecord
    <2> QED
      BY <2>1, <1>0, <1>6, RestHolds DEF Holds, Working
  <1>9. CASE EndJob(j)
    <2>1. /\ job[j].pc = "claim" /\ job'[j].pc \in {"retired", "done"}
          /\ job'[j].previous = Untracked
      BY <1>9, <1>0 DEF EndJob, Over, Idle
    <2> QED
      BY <2>1, <1>0, <1>6 DEF Holds, Working, Untracked
  <1>10. CASE Previous(j)
    <2>1. /\ job[j].pc = "previous" /\ job'[j].pc = "begin"
          /\ job'[j].cur = job[j].cur /\ job'[j].previous = track[job[j].cur]
      BY <1>10, Walking DEF Keeps, Previous
    <2>2. /\ status[job[j].cur] = "decommissioning" /\ Ran(job[j].cur) = {}
          /\ job[j].cur \in Elements
      BY <2>1, <1>0 DEF Holds, Working
    <2>3. track[job[j].cur].ok = {}
      BY <2>2, <1>0 DEF Row
    <2>4. Holds(j)'
      BY <2>1, <2>2, <2>3, <1>2, <1>7 DEF Holds
    <2> QED
      BY <2>1, <2>4, <1>6 DEF Working
  <1>11. CASE TriggerFails(j)
    <2>1. /\ job[j].pc \in {"webhooks", "stacks"} /\ job'[j].pc = job[j].pc
          /\ job'[j].cur = job[j].cur /\ job'[j].previous = job[j].previous
          /\ job'[j].got = job[j].got
      BY <1>11, Firing DEF Keeps, TriggerFails
    <2>2. Holds(j)'
      BY <2>1, <1>0, <1>2, <1>7 DEF Holds
    <2> QED
      BY <2>1, <2>2, <1>6 DEF Working
  <1>12. CASE RecordLost(j)
    <2>1. /\ job[j].pc = "record" /\ job'[j].pc \in {"webhooks", "stacks"}
          /\ job'[j].cur = job[j].cur /\ job'[j].previous = job[j].previous
          /\ job'[j].got = job[j].got \cup {job[j].sent}
      BY <1>12, Firing DEF Keeps, RecordLost
    <2>2. Holds(j)'
      BY <2>1, <1>0, <1>2, <1>7 DEF Holds
    <2> QED
      BY <2>1, <2>2, <1>6 DEF Working
  <1>13. CASE LookupStacks(j)
    <2>1. /\ job[j].pc = "webhooks" /\ job'[j].pc = "stacks"
          /\ job'[j].cur = job[j].cur /\ job'[j].previous = job[j].previous
          /\ job'[j].got = job[j].got
      BY <1>13, Walking DEF Keeps, LookupStacks
    <2>2. Holds(j)'
      BY <2>1, <1>0, <1>2, <1>7 DEF Holds
    <2> QED
      BY <2>1, <2>2, <1>6 DEF Working
  <1>14. ASSUME NEW b \in BOOLEAN, Proceed(j, b), settle'[j].pc = "none"
         PROVE  /\ Holds(j)'
                /\ job'[j].pc \notin Working
                /\ settle'[j].pc = "none"
    <2>0. Leaves(job'[j], job[j], b)
      BY <1>14, Leaving
    <2>1. job'[j].pc = "claim" /\ job'[j].previous.ok = {}
      BY <2>0 DEF Leaves, Untracked
    <2> QED
      BY <2>1, <1>14 DEF Holds, Working
  <1>15. CASE Return(j)
    <2>1. settle'[j].pc = "none" /\ Proceed(j, job[j].failures) /\ job[j].failures \in BOOLEAN
      BY <1>15, JobFacts DEF Return
    <2> QED
      BY <2>1, <1>14
  <1>16. CASE Crash(j)
    <2>1. job'[j].pc = "done" /\ job'[j].previous.ok = {} /\ settle'[j].pc = "none"
      BY <1>16, <1>0 DEF Crash, Over, Idle, Untracked
    <2> QED
      BY <2>1 DEF Holds, Working
  <1>17. CASE Throws(j)
    <2>1. settle'[j].pc = "none"
      BY <1>17, <1>0 DEF Throws
    <2>2. CASE job[j].kind = "cascade"
      BY <2>1, <2>2, <1>17, <1>14 DEF Throws
    <2>3. CASE job[j].kind # "cascade"
      <3>1. Goto(j, "catch") /\ ~\E p \in ran : p[1] = j /\ p[2] = job[j].cur
        BY <2>3, <1>17 DEF Throws, Fault, Orderly
      <3>2. /\ job'[j].pc = "catch" /\ job'[j].cur = job[j].cur
            /\ job'[j].previous = job[j].previous
        BY <3>1, Walking DEF Keeps, Working
      <3>3. job[j].pc \in Working /\ job[j].pc # "record" /\ job[j].pc # "catch"
        BY <1>17 DEF Throws, AtStatement, Working
      <3>4. job[j].pc \in {"webhooks", "stacks", "settling"} => Ran(job[j].cur) = {}
        BY <3>1, <1>0 DEF Holds, Ran
      <3>5. job[j].pc # "settling"
        <4>1. SUFFICES ASSUME job[j].pc = "settling" PROVE FALSE
          OBVIOUS
        <4>2. settle[j].pc # "none"
          BY <4>1, <1>17 DEF Throws, AtStatement
        <4>3. settle[j].of = job[j].cur /\ Ran(settle[j].of) # {}
          BY <4>2, <1>0 DEF Settles
        <4> QED
          BY <4>1, <4>3, <3>4
      <3>6. status[job[j].cur] # "decommissioned" /\ Ran(job[j].cur) = {}
        BY <3>3, <3>4, <3>5, <1>0 DEF Holds, Working
      <3>7. Holds(j)'
        BY <3>2, <3>6, <1>0, <1>2, <1>7 DEF Holds
      <3> QED
        BY <3>2, <3>3, <3>7, <2>1
    <2> QED
      BY <2>2, <2>3
  <1> QED
    BY <1>8, <1>9, <1>10, <1>11, <1>12, <1>13, <1>14, <1>15, <1>16, <1>17

(* A claim takes an element that nobody holds.                             *)
LEMMA ClaimKeeps ==
  ASSUME TInv, OInv, Orderly, NEW j \in Jobs, Claim(j)
  PROVE  OInv'
  <1>0. /\ job \in [Jobs -> JobRecord] /\ job[j] \in JobRecord
        /\ status \in [Elements -> Statuses]
        /\ succeeded \subseteq ran
        /\ Holds(j) /\ Settles(j)
        /\ job[j].pc # "settling" => settle[j].pc = "none"
        /\ \A e \in Elements : Row(e)
    BY JobFacts
  <1>1. /\ \A i \in Jobs : i # j => job'[i] = job[i]
        /\ UNCHANGED <<configured, track, ran, hand, succeeded, settle, fault>>
    BY JobFrame DEF JobStep, Claim, ciVars
  <1>2. job[j].pc = "claim" /\ settle[j].pc = "none"
    BY <1>0 DEF Claim
  <1>3. PICK e \in job[j].todo :
          /\ job'[j].previous = job[j].previous
          /\ \/ /\ Claimable(j, e)
                /\ "handback" \in Races
                     \/ \A i \in Jobs : ~(job[i].pc \in {"restore", "catch"} /\ job[i].cur = e)
                /\ status' = [status EXCEPT ![e] = "decommissioning"]
                /\ job'[j].pc = "previous" /\ job'[j].cur = e
             \/ UNCHANGED status /\ job'[j].pc = "claim"
    BY Claiming
  <1>4. e \in Elements
    BY <1>0 DEF JobRecord
  <1>5. Settles(j)'
    BY <1>1, <1>2 DEF Settles
  <1>6. \A f \in Elements : Ran(f)' = Ran(f)
    BY <1>1 DEF Ran
  <1>7. CASE UNCHANGED status /\ job'[j].pc = "claim"
    <2>1. Holds(j)'
      BY <1>0, <1>3, <1>7 DEF Holds, Working
    <2>2. job'[j].pc \notin Working
      BY <1>7 DEF Working
    <2> QED
      BY <2>1, <2>2, <1>1, <1>5, <1>7, QuietMoves
  <1>8. CASE /\ Claimable(j, e)
             /\ \A i \in Jobs : ~(job[i].pc \in {"restore", "catch"} /\ job[i].cur = e)
             /\ status' = [status EXCEPT ![e] = "decommissioning"]
             /\ job'[j].pc = "previous" /\ job'[j].cur = e
    <2>1. status[e] = "active" /\ status'[e] = "decommissioning"
      BY <1>8, <1>4, <1>0 DEF Claimable
    <2>2. Ran(e) = {} /\ track[e].ok = {}
      BY <2>1, <1>4, <1>0 DEF Row
    <2>3. \A i \in Jobs : ~At(i, e)
      <3>1. ASSUME NEW i \in Jobs, At(i, e) PROVE FALSE
        <4>1. Holds(i)
          BY DEF OInv
        <4> QED
          BY <4>1, <3>1, <1>8, <2>1 DEF Holds, At, Working
      <3> QED
        BY <3>1
    <2>4. Holds(j)'
      BY <2>1, <2>2, <1>0, <1>3, <1>4, <1>6, <1>8 DEF Holds
    <2>5. Row(e)'
      BY <2>1, <2>2, <1>1, <1>4, <1>6 DEF Row
    <2>6. Swapped(e)'
      BY <2>2, <1>1 DEF Swapped, IsSettled
    <2>7. \A f \in Elements : f # e => status'[f] = status[f]
      BY <1>0, <1>8
    <2>8. \A i \in Jobs : job[i].pc \in Working => job[i].cur \in Elements
      BY DEF TInv, Placed
    <2> QED
      BY <2>3, <2>4, <2>5, <2>6, <2>7, <2>8, <1>1, <1>4, <1>5, <1>6, <1>8, JobMoves
  <1> QED
    BY <1>3, <1>7, <1>8 DEF Orderly

(* The job that writes the row it holds, or starts a pipeline at it.       *)
LEMMA HolderMoves ==
  ASSUME TInv, OInv, NEW j \in Jobs, NEW e \in Elements, At(j, e),
         \A i \in Jobs : i # j => job'[i] = job[i],
         job'[j].pc \in Working => job'[j].cur = e,
         \A f \in Elements : f # e => status'[f] = status[f] /\ track'[f] = track[f],
         \A p \in ran' : p \in ran \/ p[2] = e,
         UNCHANGED <<configured, hand, succeeded, fault>>, ran \subseteq ran',
         \A x \in Requests : x # j => settle'[x] = settle[x],
         settle'[j] = settle[j] \/ settle[j].pc = "none",
         Holds(j)', Row(e)', Swapped(e)', Settles(j)'
  PROVE  OInv'
  <1>1. \A i \in Jobs : i # j => ~At(i, e)
    BY DEF OInv, Exclusive
  <1>2. \A f \in Elements : f # e => Ran(f)' = Ran(f)
    BY DEF Ran
  <1>3. \A i \in Jobs : job[i].pc \in Working => job[i].cur \in Elements
    BY DEF TInv, Placed
  <1> QED
    BY <1>1, <1>2, <1>3, JobMoves

LEMMA RowJobs ==
  ASSUME TInv, FInv, OInv, NEW j \in Jobs,
         \/ Begin(j) \/ TriggerStarts(j) \/ Record(j) \/ HandBack(j)
         \/ Restore(j) \/ Catch(j) \/ Close(j)
  PROVE  OInv'
  <1>0. /\ job \in [Jobs -> JobRecord] /\ job[j] \in JobRecord
        /\ status \in [Elements -> Statuses]
        /\ track \in [Elements -> Tracking(Pipelines)]
        /\ succeeded \subseteq ran
        /\ Holds(j) /\ Settles(j)
        /\ settle \in [Requests -> SettleRecord] /\ j \in Requests
        /\ Fires(j, job[j], ran)
    BY JobFacts DEF FInv
  <1>1. /\ job[j].pc \in Working /\ job[j].pc # "settling"
        /\ UNCHANGED fault
    BY DEF Begin, TriggerStarts, Record, HandBack, Restore, Catch, Close, AllFired, Working
  <1>e. PICK e \in Elements : e = job[j].cur
    BY <1>1, JobFacts
  <1>2. e \in Elements /\ At(j, e) /\ Row(e) /\ settle[j].pc = "none"
    BY <1>1, <1>e, JobFacts DEF At
  <1>3. /\ \A i \in Jobs : i # j => job'[i] = job[i]
        /\ UNCHANGED <<configured, hand, succeeded>> /\ ran \subseteq ran'
    BY JobFrame DEF JobStep
  <1>4. track[e] \in Tracking(Pipelines) /\ track[e].ids \subseteq Pipelines
    BY <1>0, <1>2 DEF Tracking
  <1>s. ASSUME \A f \in Elements : f # e => status'[f] = status[f] /\ track'[f] = track[f],
               job'[j].pc \in Working => job'[j].cur = e,
               \A p \in ran' : p \in ran \/ p[2] = e,
               UNCHANGED settle, Holds(j)', Row(e)', Swapped(e)'
        PROVE  OInv'
    <2>1. Settles(j)'
      BY <1>s, <1>2 DEF Settles
    <2> QED
      BY <2>1, <1>s, <1>1, <1>2, <1>3, HolderMoves
  <1>5. CASE Begin(j)
    <2>1. /\ job[j].pc = "begin" /\ job'[j].pc = "webhooks" /\ job'[j].cur = e
          /\ job'[j].previous = job[j].previous
      BY <1>e, <1>5, Walking DEF Begin, Keeps
    <2>2. status[e] = "decommissioning" /\ Ran(e) = {}
      BY <1>e, <2>1, <1>0 DEF Holds
    <2>3. /\ track' = [track EXCEPT ![e] = OpenRun] /\ UNCHANGED <<status, settle, ran>>
      BY <1>e, <2>2, <1>5 DEF Begin, ciVars
    <2>4. track'[e] = OpenRun /\ Ran(e)' = {}
      BY <2>2, <2>3, <1>0, <1>2 DEF Ran
    <2>5. OpenRun.ok = {} /\ OpenRun.ids = {} /\ OpenRun.blocks = {Triggering}
      BY DEF OpenRun, Untracked
    <2>6. Holds(j)'
      BY <2>1, <2>2, <2>3, <2>4, <2>5, <1>0 DEF Holds
    <2>7. Row(e)'
      BY <2>2, <2>3, <2>4, <2>5 DEF Row
    <2>8. Swapped(e)'
      BY <2>4, <2>5 DEF Swapped, IsSettled
    <2> QED
      BY <2>1, <2>3, <2>6, <2>7, <2>8, <1>0, <1>s
  <1>6. CASE TriggerStarts(j)
    <2>1. PICK t \in job[j].left :
            /\ job'[j].pc = "record" /\ Keeps(job'[j], job[j])
            /\ job'[j].got = job[j].got
            /\ job'[j].sent = <<j, job[j].cur, t>>
            /\ job'[j].previous = job[j].previous
            /\ ran' = ran \cup {<<j, job[j].cur, t>>}
      BY <1>6, Firing
    <2>2. job[j].pc \in {"webhooks", "stacks"} /\ UNCHANGED <<status, track, settle>>
      BY <1>6 DEF TriggerStarts, rowVars
    <2>3. job'[j].cur = e /\ <<j, job[j].cur, t>> = <<j, e, t>>
      BY <1>e, <2>1 DEF Keeps
    <2>4. Ran(e)' = Ran(e) \cup {<<j, e, t>>}
      BY <2>1, <2>3 DEF Ran
    <2>5. /\ status[e] = "decommissioning" /\ Triggering \in track[e].blocks
          /\ Ran(e) \subseteq job[j].got /\ \A p \in Ran(e) : p[1] = j
          /\ job[j].previous.ok = {}
      BY <1>e, <2>2, <1>0 DEF Holds
    <2>6. Holds(j)'
      BY <2>1, <2>2, <2>3, <2>4, <2>5 DEF Holds
    <2>7. Row(e)'
      BY <2>2, <2>4, <2>5, <1>2, <1>3 DEF Row
    <2>8. Swapped(e)'
      BY <2>2, <2>5 DEF Swapped, IsSettled
    <2>9. \A p \in ran' : p \in ran \/ p[2] = e
      BY <2>1, <2>3
    <2> QED
      BY <2>2, <2>3, <2>6, <2>7, <2>8, <2>9, <1>s
  <1>7. CASE Record(j)
    <2>1. /\ job[j].pc = "record" /\ job'[j].pc \in {"webhooks", "stacks"}
          /\ job'[j].cur = e /\ job'[j].previous = job[j].previous
          /\ job'[j].got = job[j].got \cup {job[j].sent}
      BY <1>e, <1>7, Firing DEF Keeps, Record
    <2>2. /\ track' = [track EXCEPT ![e] = RecordId(@, job[j].sent)]
          /\ UNCHANGED <<status, settle, ran>>
      BY <1>e, <1>7 DEF Record, ciVars
    <2>3. /\ track'[e].ok = track[e].ok /\ track'[e].blocks = track[e].blocks
          /\ \A f \in Elements : f # e => track'[f] = track[f]
      BY <2>2, <1>0, <1>2, <1>4 DEF RecordId, Tracking
    <2>4. status[e] = "decommissioning" /\ Triggering \in track[e].blocks
      BY <1>e, <2>1, <1>0 DEF Holds
    <2>5. Ran(e)' = Ran(e)
      BY <2>2 DEF Ran
    <2>6. Holds(j)'
      BY <1>e, <2>1, <2>2, <2>3, <2>4, <2>5, <1>0 DEF Holds
    <2>7. Row(e)'
      BY <2>2, <2>3, <2>4, <2>5, <1>2, <1>3 DEF Row
    <2>8. Swapped(e)'
      BY <2>3, <2>4 DEF Swapped, IsSettled
    <2> QED
      BY <2>1, <2>2, <2>3, <2>6, <2>7, <2>8, <1>s
  <1>8. CASE HandBack(j) \/ Catch(j)
    <2>1. /\ job'[j].previous.ok = {}
          /\ \/ HandBack(j) /\ job'[j].pc = "restore" /\ job'[j].cur = e
             \/ job'[j].pc = "claim"
      <3>1. CASE HandBack(j)
        <4>1. /\ job'[j].pc = "restore" /\ job'[j].cur = e
              /\ job'[j].previous = job[j].previous
          BY <1>e, <3>1, Walking DEF HandBack, Keeps, Working
        <4> QED
          BY <3>1, <4>1, <1>0 DEF Holds
      <3>2. CASE Catch(j)
        <4>1. Leaves(job'[j], job[j], TRUE)
          BY <3>2, Leaving DEF Catch
        <4> QED
          BY <4>1 DEF Leaves, Untracked
      <3> QED
        BY <3>1, <3>2, <1>8
    <2>2. Ran(e) = {} /\ status[e] # "decommissioned"
      BY <1>e, <1>8, <1>0 DEF HandBack, Catch, AllFired, NothingStarted, Holds
    <2>3. /\ status' = [status EXCEPT ![e] = "active"] /\ UNCHANGED <<track, settle, ran>>
      BY <1>e, <1>8 DEF HandBack, Catch, ciVars
    <2>4. status'[e] = "active" /\ Ran(e)' = {}
      BY <2>2, <2>3, <1>0, <1>2 DEF Ran
    <2>5. Holds(j)'
      BY <2>1, <2>4 DEF Holds
    <2>6. Row(e)'
      BY <2>2, <2>3, <2>4, <1>2, <1>3 DEF Row
    <2>7. Swapped(e)'
      BY <2>4 DEF Swapped
    <2>8. job'[j].pc \in Working => job'[j].cur = e
      BY <2>1 DEF Working
    <2> QED
      BY <2>3, <2>5, <2>6, <2>7, <2>8, <1>0, <1>s
  <1>9. CASE Restore(j)
    <2>1. Leaves(job'[j], job[j], TRUE)
      BY <1>9, Leaving DEF Restore
    <2>2. /\ job'[j].pc = "claim" /\ job'[j].previous.ok = {}
          /\ job'[j].pc \notin Working
      BY <2>1 DEF Leaves, Untracked, Working
    <2>3. status[e] = "active" /\ Ran(e) = {} /\ job[j].previous.ok = {}
      BY <1>e, <1>9, <1>0 DEF Restore, Holds
    <2>4. /\ track' = [track EXCEPT ![e] = job[j].previous]
          /\ UNCHANGED <<status, settle, ran>>
      BY <1>e, <1>9 DEF Restore, ciVars
    <2>5. track'[e].ok = {} /\ \A f \in Elements : f # e => track'[f] = track[f]
      BY <2>3, <2>4, <1>0, <1>2
    <2>6. Ran(e)' = {}
      BY <2>3, <2>4 DEF Ran
    <2>7. Holds(j)'
      BY <2>2 DEF Holds, Working
    <2>8. Row(e)'
      BY <2>3, <2>4, <2>5, <2>6 DEF Row
    <2>9. Swapped(e)'
      BY <2>3, <2>4 DEF Swapped
    <2> QED
      BY <2>2, <2>4, <2>5, <2>7, <2>8, <2>9, <1>s
  <1>10. CASE Close(j)
    <2> DEFINE t == CloseRun(track[e], job[j].got, job[j].failures)
    <2>1. /\ job[j].pc = "stacks" /\ job[j].left = {}
          /\ job'[j].pc = "settling" /\ job'[j].cur = e
          /\ job'[j].previous = job[j].previous
      BY <1>e, <1>10, Walking DEF Close, AllFired, Keeps, Working
    <2>2. /\ track' = [track EXCEPT ![e] = t] /\ SettleFrom(j, e, t)
          /\ UNCHANGED <<status, ran>>
      BY <1>e, <1>10 DEF Close, ciVars
    <2>3. /\ t.ids = track[e].ids \cup job[j].got /\ t.ok = track[e].ok
          /\ t.blocks = {} => ~job[j].failures
      BY <1>4 DEF CloseRun, Tracking
    <2> HIDE DEF t
    <2>4. track'[e] = t /\ \A f \in Elements : f # e => track'[f] = track[f]
      BY <2>2, <1>0, <1>2
    <2>5. /\ status[e] = "decommissioning" /\ \A p \in Ran(e) : p[1] = j
          /\ job[j].previous.ok = {} /\ Ran(e)' = Ran(e)
      BY <1>e, <2>1, <2>2, <1>0 DEF Holds, Ran
    <2>6. t.blocks = {} => Complete(e, t.ids)
      <3>1. SUFFICES ASSUME t.blocks = {} PROVE Complete(e, t.ids)
        OBVIOUS
      <3>2. Tracked(j, job[j])
        BY <3>1, <2>1, <2>3, <1>0 DEF Fires
      <3>3. \A u \in configured : <<j, e, u>> \in job[j].got
        BY <1>e, <3>2, <2>1 DEF Tracked, AtWebhooks
      <3> QED
        BY <3>3, <2>3 DEF Complete
    <2>7. track[e].ok \subseteq succeeded \cap Ran(e)
      BY <2>5, <1>2 DEF Row
    <2>8. IsSettled(t) => Ran(e) # {} /\ Complete(e, succeeded) /\ t.blocks = {}
      <3>1. SUFFICES ASSUME IsSettled(t)
                     PROVE  Ran(e) # {} /\ Complete(e, succeeded) /\ t.blocks = {}
        OBVIOUS
      <3>2. t.ids # {} /\ t.ids \subseteq succeeded \cap Ran(e) /\ t.blocks = {}
        BY <3>1, <2>3, <2>7 DEF IsSettled
      <3> QED
        BY <3>2, <2>6 DEF Complete
    <2>9. Holds(j)'
      BY <2>1, <2>2, <2>5 DEF Holds
    <2>10. Row(e)'
      BY <2>2, <2>3, <2>4, <2>5, <2>6, <2>7, <1>3 DEF Row, Complete
    <2>11. CASE IsSettled(t)
      <3>1. settle' = [settle EXCEPT ![j] = [pc |-> "swap", of |-> e, decided |-> t]]
        BY <2>2, <2>11 DEF SettleFrom
      <3>2. /\ settle'[j] = [pc |-> "swap", of |-> e, decided |-> t]
            /\ \A x \in Requests : x # j => settle'[x] = settle[x]
        BY <3>1, <1>0
      <3>3. Settles(j)'
        <4>1. Complete(e, succeeded)'
          BY <2>8, <2>11, <1>3 DEF Complete
        <4>2. /\ settle'[j].of = e /\ settle'[j].decided.blocks = {}
          BY <3>2, <2>8, <2>11
        <4>3. Ran(e)' # {}
          BY <2>5, <2>8, <2>11
        <4> QED
          BY <4>1, <4>2, <4>3, <2>1 DEF Settles, Ran, Complete
      <3>4. Swapped(e)'
        BY <3>2, <2>4, <1>0 DEF Swapped, SameStatus
      <3> QED
        BY <3>2, <3>3, <3>4, <2>1, <2>2, <2>4, <2>9, <2>10, <1>1, <1>2, <1>3, HolderMoves
    <2>12. CASE ~IsSettled(t)
      <3>1. Swapped(e)' /\ UNCHANGED settle
        BY <2>2, <2>4, <2>12 DEF Swapped, SettleFrom
      <3> QED
        BY <3>1, <2>1, <2>2, <2>4, <2>9, <2>10, <1>s
    <2> QED
      BY <2>11, <2>12
  <1> QED
    BY <1>5, <1>6, <1>7, <1>8, <1>9, <1>10

(* Steps of callbacks and settlements move no job and start no pipeline.   *)
LEMMA HandlerMoves ==
  ASSUME TInv, OInv, NEW h \in Handlers,
         \/ \E p \in Destroys, s \in {"success", "failed"} : Receive(h, p, s)
         \/ HandlerStep(h) \/ HandlerDies(h)
  PROVE  OInv'
  <1>0. /\ hand \in [Handlers -> HandRecord] /\ hand[h] \in HandRecord
        /\ settle \in [Requests -> SettleRecord] /\ h \in Requests /\ h \notin Jobs
        /\ track \in [Elements -> Tracking(Pipelines)]
        /\ succeeded \subseteq ran
        /\ NoHand.pc = "idle" /\ NoSettle.pc = "none"
        /\ Hands(h)
        /\ hand[h].pc = "merge" => hand[h].pipeline \in Destroys
    BY Records, TeardownAssumption DEF TInv, TypeOK, OInv, Requests, Jobs
  <1>1. /\ UNCHANGED <<configured, status, job, ran>> /\ succeeded \subseteq succeeded'
        /\ succeeded' \subseteq ran
    BY <1>0 DEF Receive, HandlerStep, HandleSuccess, HandleFailure, HandlerDies, rowVars, ciVars
  <1>2. Exclusive'
    BY <1>1 DEF OInv, Exclusive, At
  <1>3. \A e : Ran(e)' = Ran(e)
    BY <1>1 DEF Ran
  <1>4. fault = "cut" => fault' = "cut"
    BY DEF Receive, HandlerStep, HandleSuccess, HandleFailure, HandlerDies, Fault
  <1>5. \A i \in Handlers : i # h => hand'[i] = hand[i] /\ settle'[i] = settle[i]
    BY <1>0 DEF Receive, HandlerStep, HandleSuccess, HandleFailure, HandlerDies, SettleFrom, Requests
  <1>6. \A x \in Requests : x # h => settle'[x] = settle[x]
    BY <1>0 DEF Receive, HandlerStep, HandleSuccess, HandleFailure, HandlerDies, SettleFrom
  <1>7. \A x \in Requests : x # h => Settles(x)'
    BY <1>1, <1>6, SettleStays DEF OInv
  <1>8. CASE \E p \in Destroys, s \in {"success", "failed"} : Receive(h, p, s)
    <2>1. PICK p \in Destroys, s \in {"success", "failed"} : Receive(h, p, s)
      BY <1>8
    <2>2. /\ settle[h].pc = "none" /\ p \in ran
          /\ UNCHANGED <<track, settle>>
          /\ s = "success" => p \in succeeded'
      BY <2>1 DEF Receive, rowVars
    <2>3. hand'[h] = [pc |-> "merge", pipeline |-> p, report |-> s]
      BY <2>1, <1>0 DEF Receive
    <2>4. Hands(h)'
      BY <2>2, <2>3, <1>1 DEF Hands
    <2>5. \A i \in Handlers : Hands(i)'
      BY <2>4, <2>2, <1>1, <1>5 DEF OInv, Hands
    <2>6. \A j \in Jobs : Holds(j)'
      BY <2>2, <1>1, <1>3, HoldStays DEF OInv
    <2>7. \A e \in Elements : Row(e)' /\ Swapped(e)'
      BY <2>2, <1>1, <1>3, <1>4, RowStays DEF OInv, Swapped
    <2>8. Settles(h)'
      BY <2>2 DEF Settles
    <2> QED
      BY <2>5, <2>6, <2>7, <2>8, <1>2, <1>7 DEF OInv
  <1>9. CASE HandlerDies(h)
    <2>1. /\ hand' = [hand EXCEPT ![h] = NoHand] /\ settle' = [settle EXCEPT ![h] = NoSettle]
          /\ UNCHANGED <<track, succeeded>> /\ fault' = "cut"
      BY <1>9 DEF HandlerDies, Fault, rowVars, ciVars
    <2>2. Settles(h)' /\ Hands(h)'
      BY <2>1, <1>0 DEF Settles, Hands
    <2>3. \A i \in Handlers : Hands(i)'
      BY <2>1, <2>2, <1>1, <1>5 DEF OInv, Hands
    <2>4. \A j \in Jobs : Holds(j)'
      BY <2>1, <1>1, <1>3, HoldStays DEF OInv
    <2>5. \A e \in Elements : Row(e)' /\ Swapped(e)'
      BY <2>1, <1>1, <1>3, RowStays DEF OInv, Swapped
    <2> QED
      BY <2>2, <2>3, <2>4, <2>5, <1>2, <1>7 DEF OInv
  <1>10. CASE HandlerStep(h)
    <2>p. PICK p \in Destroys : p = hand[h].pipeline
      BY <1>10, <1>0 DEF HandlerStep, HandleSuccess, HandleFailure
    <2>e. PICK e \in Elements : e = p[2]
      BY DEF Destroys
    <2>1. /\ hand[h].pc = "merge" /\ settle[h].pc = "none" /\ p \in ran
          /\ hand' = [hand EXCEPT ![h] = NoHand] /\ UNCHANGED <<succeeded, fault>>
      BY <1>10, <1>0, <2>p DEF HandlerStep, HandleSuccess, HandleFailure, Hands, ciVars
    <2>2. p \in Ran(e) /\ track[e] \in Tracking(Pipelines) /\ Row(e) /\ Swapped(e)
      BY <2>1, <2>e, <1>0 DEF Ran, OInv
    <2>3. Hands(h)' /\ \A i \in Handlers : Hands(i)'
      BY <2>1, <1>0, <1>1, <1>5 DEF OInv, Hands
    <2>4. CASE UNCHANGED <<track, settle>>
      <3>1. \A j \in Jobs : Holds(j)'
        BY <2>4, <1>1, <1>3, HoldStays DEF OInv
      <3>2. \A f \in Elements : Row(f)' /\ Swapped(f)'
        BY <2>1, <2>4, <1>1, <1>3, RowStays DEF OInv, Swapped
      <3>3. Settles(h)'
        BY <2>1, <2>4 DEF Settles
      <3> QED
        BY <2>3, <3>1, <3>2, <3>3, <1>2, <1>7 DEF OInv
    <2>5. ASSUME NEW t \in Tracking(Pipelines), status[e] = "decommissioning",
                 track' = [track EXCEPT ![e] = t],
                 t.ids = track[e].ids, t.blocks = track[e].blocks,
                 t.ok \subseteq succeeded \cap Ran(e),
                 \/ ~IsSettled(t) /\ UNCHANGED settle
                 \/ SettleFrom(h, e, t)
          PROVE  OInv'
      <3>1. track'[e] = t /\ \A f \in Elements : f # e => track'[f] = track[f]
        BY <2>5, <1>0
      <3>2. \A j \in Jobs : Holds(j)'
        <4>1. \A f \in Elements : Triggering \in track[f].blocks => Triggering \in track'[f].blocks
          BY <2>5, <3>1
        <4>2. \A j \in Jobs : job[j].pc \in Working => job[j].cur \in Elements
          BY DEF TInv, Placed
        <4> QED
          BY <4>1, <4>2, <1>1, <1>3, HoldStays DEF OInv
      <3>3. Row(e)'
        BY <2>1, <2>2, <2>5, <3>1, <1>1, <1>3 DEF Row, Complete
      <3>4. \A f \in Elements : Row(f)'
        <4>1. ASSUME NEW f \in Elements, f # e PROVE Row(f)'
          BY <4>1, <2>1, <3>1, <1>1, <1>3, RowStays DEF OInv
        <4> QED
          BY <4>1, <3>3
      <3>5. \A f \in Elements : f # e => Swapped(f)'
        <4>1. ASSUME NEW f \in Elements, f # e PROVE Swapped(f)'
          <5>1. Swapped(f) /\ status'[f] = status[f] /\ track'[f] = track[f]
            BY <4>1, <3>1, <1>1 DEF OInv
          <5>2. \A x \in Requests : settle[x].pc = "swap" => settle'[x] = settle[x]
            BY <2>1, <1>6
          <5> QED
            BY <5>1, <5>2, <2>1 DEF Swapped
        <4> QED
          BY <4>1
      <3>6. CASE ~IsSettled(t) /\ UNCHANGED settle
        <4>1. Swapped(e)' /\ Settles(h)'
          BY <3>6, <3>1, <2>1 DEF Swapped, Settles
        <4> QED
          BY <2>3, <3>2, <3>4, <3>5, <4>1, <1>2, <1>7 DEF OInv
      <3>7. CASE IsSettled(t) /\ SettleFrom(h, e, t)
        <4>1. settle' = [settle EXCEPT ![h] = [pc |-> "swap", of |-> e, decided |-> t]]
          BY <3>7 DEF SettleFrom
        <4>2. settle'[h] = [pc |-> "swap", of |-> e, decided |-> t]
          BY <4>1, <1>0
        <4>3. t.ids \subseteq succeeded /\ t.blocks = {}
          BY <3>7, <2>5 DEF IsSettled
        <4>4. Complete(e, succeeded)
          BY <4>3, <2>2, <2>5 DEF Row, Complete
        <4>5. Complete(e, succeeded)' /\ Ran(e)' # {}
          BY <4>4, <2>1, <2>2, <1>1, <1>3 DEF Complete
        <4>6. Settles(h)'
          BY <4>2, <4>3, <4>5, <1>0 DEF Settles, Ran, Complete
        <4>7. Swapped(e)'
          BY <4>2, <3>1, <1>0 DEF Swapped, SameStatus
        <4> QED
          BY <2>3, <3>2, <3>4, <3>5, <4>6, <4>7, <1>2, <1>7 DEF OInv
      <3> QED
        BY <2>5, <3>6, <3>7 DEF SettleFrom
    <2>6. CASE HandleSuccess(h) /\ status[e] = "decommissioning"
      <3> DEFINE t == MergeSuccess(track[e], p)
      <3>1. /\ track' = [track EXCEPT ![e] = t] /\ SettleFrom(h, e, t)
            /\ p \in succeeded
        BY <2>6, <2>e, <2>p, <1>0 DEF HandleSuccess, Hands
      <3>2. /\ t \in Tracking(Pipelines) /\ t.ids = track[e].ids
            /\ t.blocks = track[e].blocks /\ t.ok = track[e].ok \cup {p}
        BY <2>2 DEF MergeSuccess, Tracking, Pipelines
      <3>3. track[e].ok \subseteq succeeded \cap Ran(e)
        BY <2>2, <2>6 DEF Row
      <3> HIDE DEF t
      <3> QED
        BY <2>2, <2>5, <2>6, <3>1, <3>2, <3>3
    <2>7. CASE HandleFailure(h) /\ status[e] = "decommissioning"
      <3> DEFINE t == MergeFailure(track[e], p)
      <3>1. track' = [track EXCEPT ![e] = t] /\ UNCHANGED settle
        BY <2>7, <2>e, <2>p, <1>0 DEF HandleFailure
      <3>2. /\ t \in Tracking(Pipelines) /\ t.ids = track[e].ids
            /\ t.blocks = track[e].blocks /\ t.ok \subseteq track[e].ok /\ p \in t.bad
        BY <2>2 DEF MergeFailure, Tracking, Pipelines
      <3>3. track[e].ok \subseteq succeeded \cap Ran(e) /\ ~IsSettled(t)
        BY <2>2, <2>7, <3>2 DEF Row, IsSettled
      <3> HIDE DEF t
      <3> QED
        BY <2>2, <2>5, <2>7, <3>1, <3>2, <3>3
    <2>8. CASE status[e] # "decommissioning"
      BY <2>4, <2>8, <2>e, <2>p, <1>10 DEF HandlerStep, HandleSuccess, HandleFailure
    <2> QED
      BY <2>6, <2>7, <2>8, <1>10 DEF HandlerStep
  <1> QED
    BY <1>8, <1>9, <1>10

(* A settlement that swaps finds nobody firing at its element: the entry   *)
(* would be in the map, and before it there is nothing that could succeed. *)
LEMMA SettleMoves ==
  ASSUME TInv, OInv, NEW x \in Requests, SettleStep(x)
  PROVE  OInv'
  <1>0. /\ settle \in [Requests -> SettleRecord] /\ settle[x] \in SettleRecord
        /\ status \in [Elements -> Statuses]
        /\ settle[x].pc # "none" => settle[x].of \in Elements
        /\ NoSettle.pc = "none"
        /\ Settles(x)
        /\ \A j \in Jobs : job[j].pc \in Working => job[j].cur \in Elements
    BY Records DEF TInv, TypeOK, Aimed, OInv, Placed
  <1>1. UNCHANGED <<configured, track, job, hand, ran, succeeded, fault>>
    BY DEF SettleStep, SettleSwap, SettleAudit, rowVars, ciVars
  <1>2. Exclusive'
    BY <1>1 DEF OInv, Exclusive, At
  <1>3. \A e : Ran(e)' = Ran(e)
    BY <1>1 DEF Ran
  <1>4. \A y \in Requests : y # x => settle'[y] = settle[y]
    BY <1>0 DEF SettleStep, SettleSwap, SettleAudit
  <1>5. \A y \in Requests : y # x => Settles(y)'
    BY <1>1, <1>4, SettleStays DEF OInv
  <1>6. settle[x].pc # "none"
    BY DEF SettleStep, SettleSwap, SettleAudit
  <1>7. \A h \in Handlers : Hands(h)'
    <2>1. \A h \in Handlers : h \in Requests
      BY DEF Requests
    <2>2. \A h \in Handlers : hand[h].pc = "merge" => h # x
      BY <1>6 DEF OInv, Hands
    <2> QED
      BY <2>1, <2>2, <1>1, <1>4 DEF OInv, Hands
  <1>8. CASE UNCHANGED status /\ settle' = [settle EXCEPT ![x] = NoSettle]
             /\ \A e \in Elements :
                  ~(/\ settle[x].pc = "swap" /\ settle[x].of = e
                    /\ status[e] = "decommissioning" /\ SameStatus(track[e], settle[x].decided))
    <2>1. Settles(x)'
      BY <1>8, <1>0 DEF Settles
    <2>2. \A j \in Jobs : Holds(j)'
      BY <1>8, <1>1, <1>3, HoldStays DEF OInv
    <2>3. \A e \in Elements : Row(e)'
      BY <1>8, <1>1, <1>3, RowStays DEF OInv
    <2>4. ASSUME NEW e \in Elements PROVE Swapped(e)'
      <3>1. Swapped(e)
        BY DEF OInv
      <3> QED
        BY <3>1, <1>8, <1>1, <1>4 DEF Swapped
    <2> QED
      BY <2>1, <2>2, <2>3, <2>4, <1>2, <1>5, <1>7 DEF OInv
  <1>9. CASE SettleAudit(x)
    BY <1>9, <1>8 DEF SettleAudit, rowVars
  <1>10. CASE SettleSwap(x)
    <2>e. PICK e \in Elements : e = settle[x].of
      BY <1>0, <1>6
    <2>1. CASE ~(status[e] = "decommissioning" /\ SameStatus(track[e], settle[x].decided))
      BY <2>1, <2>e, <1>8, <1>10 DEF SettleSwap
    <2>2. CASE status[e] = "decommissioning" /\ SameStatus(track[e], settle[x].decided)
      <3>1. /\ status' = [status EXCEPT ![e] = "decommissioned"]
            /\ settle' = [settle EXCEPT ![x].pc = "audit"]
            /\ settle[x].pc = "swap"
        BY <2>2, <2>e, <1>10 DEF SettleSwap
      <3>2. /\ status'[e] = "decommissioned"
            /\ \A f \in Elements : f # e => status'[f] = status[f]
            /\ settle'[x].pc = "audit" /\ settle'[x].of = settle[x].of
        BY <3>1, <1>0 DEF SettleRecord
      <3>3. Ran(e) # {} /\ Complete(e, succeeded) /\ track[e].blocks = {}
        BY <3>1, <2>2, <2>e, <1>0 DEF Settles, SameStatus
      <3>4. Settles(x)'
        <4>1. Ran(e)' # {}
          BY <3>3, <1>3
        <4>2. x \in Jobs => job[x].pc = "settling" /\ settle[x].of = job[x].cur
          BY <1>0, <1>6 DEF Settles
        <4> QED
          BY <4>1, <4>2, <3>2, <2>e, <1>1 DEF Settles, Ran
      <3>5. Row(e)'
        BY <3>2, <3>3, <1>1 DEF Row, Complete
      <3>6. \A f \in Elements : Row(f)'
        <4>1. ASSUME NEW f \in Elements, f # e PROVE Row(f)'
          BY <4>1, <3>2, <1>1, <1>3, RowStays DEF OInv
        <4> QED
          BY <4>1, <3>5
      <3>7. ASSUME NEW f \in Elements PROVE Swapped(f)'
        <4>1. CASE f = e
          BY <4>1, <3>2 DEF Swapped
        <4>2. CASE f # e
          <5>1. Swapped(f)
            BY DEF OInv
          <5> QED
            BY <5>1, <4>2, <3>2, <2>e, <1>1, <1>4 DEF Swapped
        <4> QED
          BY <4>1, <4>2
      <3>8. ASSUME NEW j \in Jobs PROVE Holds(j)'
        <4>1. Holds(j)
          BY DEF OInv
        <4>2. CASE job[j].pc \in Working /\ job[j].cur = e
          <5>1. job[j].pc = "settling"
            BY <4>1, <4>2, <3>3, <2>2 DEF Holds, Working
          <5> QED
            BY <5>1, <4>1, <4>2, <3>2, <1>1, <1>3 DEF Holds
        <4>3. CASE ~(job[j].pc \in Working /\ job[j].cur = e)
          BY <4>1, <4>3, <3>2, <1>0, <1>1, <1>3, HoldStays
        <4> QED
          BY <4>2, <4>3
      <3> QED
        BY <3>4, <3>6, <3>7, <3>8, <1>2, <1>5, <1>7 DEF OInv
    <2> QED
      BY <2>1, <2>2
  <1> QED
    BY <1>9, <1>10 DEF SettleStep

(* Steps of the schedule, of the order and of its Retry.                   *)
LEMMA OrderMoves ==
  ASSUME TInv, Applying, OInv,
         \/ UNCHANGED vars
         \/ \E e \in Elements : Schedule(e)
         \/ OrderReported \/ RetryClaim \/ RetryStep
  PROVE  OInv'
  <1>0. /\ status \in [Elements -> Statuses]
        /\ track \in [Elements -> Tracking(Pipelines)]
        /\ retry \in RetryRecord
        /\ \A j \in Jobs : job[j].pc \in Working => job[j].cur \in Elements
    BY DEF TInv, TypeOK, Placed
  <1>1. UNCHANGED <<configured, job, hand, settle, ran, succeeded>>
        /\ (fault = "cut" => fault' = "cut")
    BY DEF vars, Schedule, OrderReported, RetryClaim, RetryStep, RetryRead, RetryFire,
       RetryRewrite, ciVars, Fault
  <1>2. /\ Exclusive'
        /\ \A x \in Requests : Settles(x)'
        /\ \A h \in Handlers : Hands(h)'
    BY <1>1, SettleStays DEF OInv, Exclusive, At, Hands
  <1>3. \A e : Ran(e)' = Ran(e)
    BY <1>1 DEF Ran
  <1>4. CASE UNCHANGED <<status, track>>
    <2>1. \A j \in Jobs : Holds(j)'
      BY <1>4, <1>1, <1>3, HoldStays DEF OInv
    <2>2. \A e \in Elements : Row(e)' /\ Swapped(e)'
      BY <1>4, <1>1, <1>3, RowStays DEF OInv, Swapped
    <2> QED
      BY <2>1, <2>2, <1>2 DEF OInv
  <1>5. CASE RetryRewrite
    <2>1. PICK e \in retry.todo :
            /\ status' = [status EXCEPT ![e] = "active"]
            /\ track' = [track EXCEPT ![e] = Built]
      BY <1>5 DEF RetryRewrite
    <2>2. e \in Elements /\ status[e] = "active"
      BY <1>5, <1>0 DEF RetryRewrite, Applying, Retrying, RetryRecord
    <2>3. /\ status' = status /\ track'[e] = Built
          /\ \A f \in Elements : f # e => track'[f] = track[f]
      BY <2>1, <2>2, <1>0
    <2>4. Built.ok = {}
      BY DEF Built, Untracked
    <2>5. Row(e)'
      BY <2>2, <2>3, <2>4, <1>3 DEF OInv, Row
    <2>6. \A f \in Elements : Row(f)'
      <3>1. ASSUME NEW f \in Elements, f # e PROVE Row(f)'
        BY <3>1, <2>3, <1>1, <1>3, RowStays DEF OInv
      <3> QED
        BY <3>1, <2>5
    <2>7. ASSUME NEW f \in Elements PROVE Swapped(f)'
      <3>1. Swapped(f)
        BY DEF OInv
      <3> QED
        BY <3>1, <2>2, <2>3, <1>1 DEF Swapped
    <2>8. ASSUME NEW j \in Jobs PROVE Holds(j)'
      <3>1. Holds(j)
        BY DEF OInv
      <3>2. CASE job[j].pc \in Working /\ job[j].cur = e
        BY <3>1, <3>2, <2>2, <2>3, <1>1, <1>3 DEF Holds, Working
      <3>3. CASE ~(job[j].pc \in Working /\ job[j].cur = e)
        BY <3>1, <3>3, <2>3, <1>0, <1>1, <1>3, HoldStays
      <3> QED
        BY <3>2, <3>3
    <2> QED
      BY <2>6, <2>7, <2>8, <1>2 DEF OInv
  <1> QED
    BY <1>4, <1>5 DEF vars, Schedule, OrderReported, RetryClaim, RetryStep, RetryRead,
       RetryFire, rowVars

LEMMA InitOInv == Init => OInv
  <1> SUFFICES ASSUME Init PROVE OInv
    OBVIOUS
  <1>1. /\ \A j \in Jobs : job[j] = Idle
        /\ \A h \in Handlers : hand[h] = NoHand
        /\ \A x \in Requests : settle[x] = NoSettle
        /\ ran = {}
    BY DEF Init
  <1>2. Idle.pc = "idle" /\ Idle.previous.ok = {} /\ NoHand.pc = "idle" /\ NoSettle.pc = "none"
    BY DEF Idle, NoHand, NoSettle, Untracked
  <1>3. Exclusive /\ \A j \in Jobs : Holds(j)
    BY <1>1, <1>2 DEF Exclusive, At, Holds, Working
  <1>4. (\A x \in Requests : Settles(x)) /\ (\A h \in Handlers : Hands(h))
    BY <1>1, <1>2 DEF Settles, Hands
  <1>5. ASSUME NEW e \in Elements PROVE Row(e) /\ Swapped(e)
    <2>1. \/ status[e] = "active" /\ track[e] = Built
          \/ status[e] = "decommissioned" /\ track[e] = Gone
      BY DEF Init
    <2>2. Built.ok = {}
      BY DEF Built, Untracked
    <2> QED
      BY <2>1, <2>2, <1>1 DEF Row, Swapped, Ran
  <1> QED
    BY <1>3, <1>4, <1>5 DEF OInv

LEMMA OInvAlways ==
  ASSUME Orderly
  PROVE  Spec => [](TInv /\ OInv)
  <1>1. Undisturbed
    BY DEF Orderly, Undisturbed
  <1>2. Init => Applying
    BY DEF Init, Applying, Retrying
  <1>3. TInv /\ Applying /\ [Next]_vars => Applying'
    BY <1>1, NextApplying
  <1>4. ASSUME TInv, FInv, Applying, OInv, [Next]_vars PROVE OInv'
    BY <1>4, QuietJobs, ClaimKeeps, RowJobs, HandlerMoves, SettleMoves, OrderMoves
       DEF Next, JobStep
  <1> QED
    BY <1>2, <1>3, <1>4, InitOInv, TInvAlways, FInvAlways, PTL DEF Spec

(* A destroyed element is never shown as active: only a teardown that      *)
(* started nothing hands one back, and no Retry, sweep or deletion brings  *)
(* one back (teardown.ts, infrastructure.ts on active siblings).           *)
THEOREM ActiveIsUntouched ==
  ASSUME Orderly
  PROVE  Spec => []ActiveMeansNoDestroy
  <1>1. OInv => ActiveMeansNoDestroy
    BY DEF OInv, Row, Ran, ActiveMeansNoDestroy
  <1> QED
    BY <1>1, OInvAlways, PTL

(* An element is reported gone only when one teardown has fired every      *)
(* destroy and each has succeeded (the sentinels and the triggering entry  *)
(* of pipelineTracking.ts).                                                *)
THEOREM GoneIsDestroyed ==
  ASSUME Orderly
  PROVE  Spec => []GoneMeansDestroyed
  <1>1. OInv => GoneMeansDestroyed
    BY DEF OInv, Row, Complete, GoneMeansDestroyed
  <1> QED
    BY <1>1, OInvAlways, PTL

(* No report is the last one and yet decides nothing: an element whose     *)
(* destroys have all succeeded has a request on its way to settle it       *)
(* (#132, finishElementTriggerRun), unless that was cut short.             *)
THEOREM SettledIsPickedUp ==
  ASSUME Orderly
  PROVE  Spec => []SettledIsBeingSwapped
  <1>1. OInv => SettledIsBeingSwapped
    BY DEF OInv, Swapped, SettledIsBeingSwapped
  <1> QED
    BY <1>1, OInvAlways, PTL

-----------------------------------------------------------------------------
(* The promise of ElementStatus.                                           *)

(* Everything but the claims, the destroys and what decides on them is     *)
(* hidden from whoever reads the status.                                   *)
Hidden == UNCHANGED <<status, configured, ran, succeeded>>

LEMMA HiddenStutters ==
  ASSUME Hidden
  PROVE  [Promise!ElementNext]_(Promise!elementVars)
  BY DEF Hidden, Promise!elementVars

LEMMA JobKeepsPromise ==
  ASSUME TInv, FInv, OInv, NEW j \in Jobs,
         \/ Press(j) \/ Sweep(j) \/ Cascade(j) \/ JobStep(j)
         \/ RecordLost(j) \/ Crash(j) \/ Throws(j)
  PROVE  [Promise!ElementNext]_(Promise!elementVars)
  <1>0. /\ job[j].pc \in Working => job[j].cur \in Elements
        /\ status \in [Elements -> Statuses]
        /\ Holds(j)
    BY JobFacts
  <1>1. CASE Claim(j)
    <2>1. UNCHANGED <<configured, ran, succeeded>>
      BY <1>1 DEF Claim, ciVars
    <2>2. CASE UNCHANGED status
      BY <2>1, <2>2, HiddenStutters DEF Hidden
    <2>3. ASSUME NEW e \in job[j].todo, Claimable(j, e),
                 status' = [status EXCEPT ![e] = "decommissioning"]
          PROVE  Promise!ElementNext
      <3>1. e \in Elements
        BY DEF TInv, TypeOK, JobRecord
      <3>2. Promise!Claim(e)
        BY <2>1, <2>3 DEF Claimable, Promise!Claim
      <3> QED
        BY <3>1, <3>2 DEF Promise!ElementNext
    <2> QED
      BY <1>1, <2>2, <2>3, Claiming
  <1>2. CASE TriggerStarts(j)
    <2>1. /\ job[j].pc \in {"webhooks", "stacks"}
          /\ UNCHANGED <<configured, status, succeeded>>
      BY <1>2 DEF TriggerStarts, rowVars
    <2>2. PICK t \in job[j].left : ran' = ran \cup {<<j, job[j].cur, t>>}
      BY <1>2, Firing
    <2>3. t \in configured
      BY <2>1, <2>2 DEF FInv, Fires
    <2>4. /\ job[j].cur \in Elements
          /\ status[job[j].cur] = "decommissioning"
          /\ \A p \in Ran(job[j].cur) : p[1] = j
      BY <1>0, <2>1 DEF Holds, Working
    <2>5. Promise!Fire(j, job[j].cur, t)
      BY <2>1, <2>2, <2>3, <2>4 DEF Promise!Fire, Promise!FiredAt, Ran
    <2> QED
      BY <2>3, <2>4, <2>5 DEF Promise!ElementNext
  <1>3. CASE HandBack(j) \/ Catch(j)
    <2>1. /\ UNCHANGED <<configured, ran, succeeded>>
          /\ status' = [status EXCEPT ![job[j].cur] = "active"]
      BY <1>3 DEF HandBack, Catch, ciVars
    <2>2. /\ job[j].cur \in Elements
          /\ status[job[j].cur] # "decommissioned"
          /\ Ran(job[j].cur) = {}
      BY <1>0, <1>3 DEF HandBack, AllFired, NothingStarted, Catch, Holds, Working
    <2>3. CASE status[job[j].cur] = "active"
      <3>1. status' = status
        BY <1>0, <2>1, <2>3
      <3> QED
        BY <2>1, <3>1, HiddenStutters DEF Hidden
    <2>4. CASE status[job[j].cur] = "decommissioning"
      <3>1. Promise!GiveBack(job[j].cur)
        BY <2>1, <2>2, <2>4 DEF Promise!GiveBack, Promise!FiredAt, Ran
      <3> QED
        BY <2>2, <3>1 DEF Promise!ElementNext
    <2> QED
      BY <1>0, <2>2, <2>3, <2>4 DEF Statuses
  <1>4. CASE Press(j) \/ Sweep(j) \/ Cascade(j)
    BY <1>4, HiddenStutters DEF Hidden, Press, Sweep, Cascade, StartJob, rowVars, ciVars
  <1>5. CASE EndJob(j) \/ Previous(j) \/ Begin(j) \/ TriggerFails(j) \/ Record(j)
    BY <1>5, HiddenStutters
       DEF Hidden, EndJob, Previous, Begin, TriggerFails, Record, rowVars, ciVars
  <1>6. CASE LookupStacks(j) \/ Restore(j) \/ Close(j) \/ Return(j)
    BY <1>6, HiddenStutters
       DEF Hidden, LookupStacks, Restore, Close, Return, rowVars, ciVars
  <1>7. CASE RecordLost(j) \/ Crash(j) \/ Throws(j)
    BY <1>7, HiddenStutters DEF Hidden, RecordLost, Crash, Throws, rowVars, ciVars
  <1> QED
    BY <1>1, <1>2, <1>3, <1>4, <1>5, <1>6, <1>7 DEF JobStep

LEMMA ReportKeepsPromise ==
  ASSUME TInv, NEW h \in Handlers, NEW p \in Destroys,
         NEW s \in {"success", "failed"}, Receive(h, p, s)
  PROVE  [Promise!ElementNext]_(Promise!elementVars)
  <1>1. /\ p \in ran /\ status[p[2]] = "decommissioning"
        /\ UNCHANGED <<configured, status, ran>>
        /\ succeeded' = IF s = "success" THEN succeeded \cup {p} ELSE succeeded
    BY DEF Receive, rowVars
  <1>2. CASE s = "success"
    <2>1. Promise!Confirm(p)
      BY <1>1, <1>2 DEF Promise!Confirm
    <2> QED
      BY <1>1, <2>1 DEF Promise!ElementNext
  <1>3. CASE s = "failed"
    BY <1>1, <1>3, HiddenStutters DEF Hidden
  <1> QED
    BY <1>2, <1>3

LEMMA SwapKeepsPromise ==
  ASSUME TInv, OInv, NEW x \in Requests, SettleStep(x)
  PROVE  [Promise!ElementNext]_(Promise!elementVars)
  <1>1. CASE UNCHANGED status
    BY <1>1, HiddenStutters DEF Hidden, SettleStep, SettleSwap, SettleAudit, rowVars, ciVars
  <1>2. CASE /\ settle[x].pc = "swap" /\ UNCHANGED <<configured, ran, succeeded>>
             /\ status[settle[x].of] = "decommissioning"
             /\ status' = [status EXCEPT ![settle[x].of] = "decommissioned"]
    <2>1. settle[x].of \in Elements
      BY <1>2 DEF TInv, Aimed
    <2>2. \E j \in Jobs : \A t \in configured : <<j, settle[x].of, t>> \in succeeded
      BY <1>2 DEF OInv, Settles, Complete
    <2>3. Promise!Retire(settle[x].of)
      BY <1>2, <2>2 DEF Promise!Retire
    <2> QED
      BY <2>1, <2>3 DEF Promise!ElementNext
  <1> QED
    BY <1>1, <1>2 DEF SettleStep, SettleSwap, SettleAudit, rowVars, ciVars

(* A Retry writes 'active' over what is active.                            *)
LEMMA RetryKeepsPromise ==
  ASSUME TInv, Applying,
         RetryClaim \/ RetryStep \/ OrderReported \/ \E e \in Elements : Schedule(e)
  PROVE  [Promise!ElementNext]_(Promise!elementVars)
  <1>1. UNCHANGED <<configured, ran, succeeded>>
    BY DEF RetryClaim, RetryStep, RetryRead, RetryFire, RetryRewrite, OrderReported,
       Schedule, ciVars
  <1>2. CASE RetryRewrite
    <2>1. PICK e \in retry.todo : status' = [status EXCEPT ![e] = "active"]
      BY <1>2 DEF RetryRewrite
    <2>2. status[e] = "active"
      BY <1>2, <2>1 DEF RetryRewrite, Applying, Retrying
    <2>3. status' = status
      BY <2>1, <2>2 DEF TInv, TypeOK
    <2> QED
      BY <1>1, <2>3, HiddenStutters DEF Hidden
  <1>3. CASE UNCHANGED status
    BY <1>1, <1>3, HiddenStutters DEF Hidden
  <1> QED
    BY <1>2, <1>3 DEF RetryClaim, RetryStep, RetryRead, RetryFire, OrderReported,
       Schedule, rowVars

(* Destroys are fired at an element by one teardown at most and only while *)
(* it is on its way out, one that was fired at is never handed back, and   *)
(* one that is gone had every destroy of one teardown succeed and stays    *)
(* gone: what ElementStatus promises (claimAndDestroy, fireDestroyTriggers,*)
(* settleElementIfComplete).                                               *)
THEOREM ElementsKeepPromise ==
  ASSUME Orderly
  PROVE  Spec => KeepsPromise
  <1>1. Init => Promise!ElementInit
    BY DEF Init, Promise!ElementInit
  <1>2. ASSUME TInv, FInv, Applying, OInv, [Next]_vars
        PROVE  [Promise!ElementNext]_(Promise!elementVars)
    <2>1. CASE UNCHANGED vars
      BY <2>1, HiddenStutters DEF Hidden, vars, rowVars, ciVars
    <2>2. ASSUME NEW h \in Handlers, HandlerStep(h) \/ HandlerDies(h)
          PROVE  [Promise!ElementNext]_(Promise!elementVars)
      BY <2>2, HiddenStutters
         DEF Hidden, HandlerStep, HandleSuccess, HandleFailure, HandlerDies, rowVars, ciVars
    <2> QED
      BY <1>2, <2>1, <2>2, JobKeepsPromise, ReportKeepsPromise, SwapKeepsPromise,
         RetryKeepsPromise DEF Next
  <1>3. Undisturbed
    BY DEF Orderly, Undisturbed
  <1>4. Init => Applying
    BY DEF Init, Applying, Retrying
  <1>5. TInv /\ Applying /\ [Next]_vars => Applying'
    BY <1>3, NextApplying
  <1> QED
    BY <1>1, <1>2, <1>4, <1>5, OInvAlways, FInvAlways, PTL
       DEF Spec, KeepsPromise, Promise!ElementSpec
=============================================================================
