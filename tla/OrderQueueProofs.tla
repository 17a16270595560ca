-------------------------- MODULE OrderQueueProofs --------------------------
(***************************************************************************)
(* Theorems about OrderQueue, for any requests, windows and faults.        *)
(***************************************************************************)
EXTENDS OrderQueue, TLAPS

(* Where requests of each kind can be.                                     *)
Places ==
  \A x \in Requests :
    /\ req[x].pc \in {"window", "schedule", "prepare", "record"} => x \in Approvals
    /\ req[x].pc = "claim" => x \notin Approvals
    /\ req[x].pc = "refused" => x \notin Deploys
    /\ req[x].pc = "schedule" => req[x].until # NoTime

(* A claim is one request's, it is on an order out of both queues, and it  *)
(* lasts until something is started or it is given back.                   *)
Claims ==
  /\ \A x, y \in Requests : Holds(x) /\ Holds(y) => x = y
  /\ \A x \in Requests : Holds(x) => status = "provisioning" \/ (started /\ status = "failed")
  /\ \A x \in Requests :
       Holds(x) => /\ req[x].pc = "fired" <=> started
                   /\ due = NoTime <=> x \in Approvals
  /\ status \in {"pending", "scheduled"} => ~started
  /\ builds = IF started THEN 1 ELSE 0

(* A waiver is logged with the last thing an approval does.                *)
Logged == \A a \in Approvals \cap waived : req[a].pc = "done"

QInv == TypeOK /\ Places /\ Claims /\ ScheduleIsConsistent /\ Logged

LEMMA InitQInv == Init => QInv
  <1> SUFFICES ASSUME Init PROVE QInv
    OBVIOUS
  <1> USE OrderQueueAssumption
  <1> DEFINE r == [pc |-> "idle", waives |-> {}, until |-> NoTime]
  <1>1. NoTime \in 0..NoTime /\ 0 \in Times
    BY DEF NoTime, Times
  <1>2. r \in ReqRecord /\ r.pc = "idle"
    BY <1>1 DEF ReqRecord, ReqPc
  <1>3. req = [x \in Requests |-> r]
    BY DEF Init
  <1> HIDE DEF r
  <1>4. \A x \in Requests : req[x].pc = "idle"
    BY <1>2, <1>3
  <1>5. TypeOK
    BY <1>1, <1>2, <1>3 DEF Init, TypeOK, Statuses
  <1>6. \A x \in Requests : ~Holds(x)
    BY <1>4, Zenon DEF Holds
  <1>7. Places
    BY <1>4 DEF Places
  <1>8. Claims /\ ScheduleIsConsistent /\ Logged
    BY <1>4, <1>6 DEF Init, Claims, ScheduleIsConsistent, Logged
  <1> QED
    BY <1>5, <1>7, <1>8 DEF QInv

-----------------------------------------------------------------------------
(* What a step makes of the request that takes it.                         *)

Moved(x, pc) ==
  /\ req' \in [Requests -> ReqRecord]
  /\ req'[x].pc = pc
  /\ \A y \in Requests \ {x} : req'[y] = req[y]

LEMMA GotoMoves ==
  ASSUME QInv, NEW x \in Requests, NEW pc \in ReqPc, Goto(x, pc)
  PROVE  Moved(x, pc)
  <1>1. req \in [Requests -> ReqRecord] /\ req[x] \in ReqRecord
    BY DEF QInv, TypeOK
  <1> DEFINE r == [req[x] EXCEPT !.pc = pc]
  <1>2. r \in ReqRecord /\ r.pc = pc
    BY <1>1 DEF ReqRecord
  <1>3. req' = [req EXCEPT ![x] = r]
    BY DEF Goto
  <1> HIDE DEF r
  <1> QED
    BY <1>1, <1>2, <1>3 DEF Moved

LEMMA WaivesMoves ==
  ASSUME QInv, NEW x \in Requests, NEW w \in SUBSET Gates,
         req' = [req EXCEPT ![x].pc = "budget", ![x].waives = w]
  PROVE  Moved(x, "budget")
  <1>1. req \in [Requests -> ReqRecord] /\ req[x] \in ReqRecord
    BY DEF QInv, TypeOK
  <1> DEFINE r == [req[x] EXCEPT !.pc = "budget", !.waives = w]
  <1>2. r \in ReqRecord /\ r.pc = "budget"
    BY <1>1 DEF ReqRecord, ReqPc
  <1>3. req' = [req EXCEPT ![x] = r]
    OBVIOUS
  <1> HIDE DEF r
  <1> QED
    BY <1>1, <1>2, <1>3 DEF Moved

LEMMA UntilMoves ==
  ASSUME QInv, NEW x \in Requests, NEW u \in Times,
         req' = [req EXCEPT ![x].pc = "schedule", ![x].until = u]
  PROVE  Moved(x, "schedule") /\ req'[x].until # NoTime
  <1>1. req \in [Requests -> ReqRecord] /\ req[x] \in ReqRecord
    BY DEF QInv, TypeOK
  <1>2. u \in 0..NoTime /\ u # NoTime
    BY OrderQueueAssumption DEF Times, NoTime
  <1> DEFINE r == [req[x] EXCEPT !.pc = "schedule", !.until = u]
  <1>3. r \in ReqRecord /\ r.pc = "schedule" /\ r.until = u
    BY <1>1, <1>2 DEF ReqRecord, ReqPc
  <1>4. req' = [req EXCEPT ![x] = r]
    OBVIOUS
  <1> HIDE DEF r
  <1> QED
    BY <1>1, <1>2, <1>3, <1>4 DEF Moved

LEMMA OverIsAtRest ==
  ASSUME NEW x \in Requests
  PROVE  /\ Over(x) \in ReqPc
         /\ Over(x) = "idle" \/ Over(x) = "done"
         /\ x \in Approvals => Over(x) = "done"
  BY OrderQueueAssumption DEF Over, ReqPc

(* The kinds of request are apart.                                         *)
LEMMA KindsAreApart ==
  ASSUME NEW x \in Requests
  PROVE  /\ x \in Approvals => x \notin Sweeps /\ x \notin Deploys
         /\ x \in Sweeps => x \notin Deploys
         /\ x \in Approvals \/ x \in Sweeps \/ x \in Deploys
  BY OrderQueueAssumption DEF Requests

(* Where a request moves, its place is right and nobody else's changes.    *)
LEMMA PlacesMove ==
  ASSUME QInv, NEW x \in Requests, NEW pc, Moved(x, pc),
         pc \in {"window", "schedule", "prepare", "record"} => x \in Approvals,
         pc = "claim" => x \notin Approvals,
         pc = "refused" => x \notin Deploys,
         pc = "schedule" => req'[x].until # NoTime
  PROVE  Places'
  BY DEF QInv, Places, Moved

LEMMA OthersHold ==
  ASSUME NEW x \in Requests, NEW pc, Moved(x, pc), started' = started
  PROVE  \A y \in Requests \ {x} : Holds(y)' <=> Holds(y)
  BY DEF Holds, Moved

(* What a request still on its way has logged.                             *)
LEMMA LoggedStays ==
  ASSUME QInv, NEW x \in Requests, NEW pc, Moved(x, pc),
         req[x].pc # "done",
         waived' \subseteq waived \cup {x}, x \in Approvals /\ x \in waived' => pc = "done"
  PROVE  Logged'
  BY DEF QInv, Logged, Moved, Requests

(* Steps that neither take a claim nor build, and leave the order alone.   *)
LEMMA Steps ==
  ASSUME QInv, NEW x \in Requests, NEW pc, Moved(x, pc), req[x].pc # "done",
         UNCHANGED <<orderVars, started, builds, waived, now, refusing>>,
         faults' \in Nat,
         Holds(x)' => Holds(x) /\ (pc = "fired" <=> req[x].pc = "fired"),
         Places'
  PROVE  QInv'
  <1>0. TypeOK /\ Places /\ Claims /\ ScheduleIsConsistent /\ Logged
    BY DEF QInv
  <1>1. TypeOK'
    BY <1>0 DEF Moved, TypeOK, orderVars
  <1>2. \A y \in Requests \ {x} : Holds(y)' <=> Holds(y)
    BY OthersHold
  <1>3. Claims'
    BY <1>0, <1>2 DEF Claims, Moved, orderVars
  <1>4. ScheduleIsConsistent'
    BY <1>0 DEF ScheduleIsConsistent, orderVars
  <1>5. x \in Approvals /\ x \in waived' => pc = "done"
    BY <1>0 DEF Logged
  <1>6. Logged'
    BY <1>5, LoggedStays
  <1> QED
    BY <1>1, <1>3, <1>4, <1>6 DEF QInv

-----------------------------------------------------------------------------
(* The steps, one lemma each where they change the order, one for those    *)
(* that only move a request on.                                            *)

LEMMA QuietSteps ==
  ASSUME QInv, NEW x \in Requests,
         \/ x \in Sweeps /\ List(x)
         \/ x \in Deploys /\ DeployNow(x)
         \/ AskBudget(x) \/ AskPolicy(x) \/ Returns(x) \/ CloseThrows(x) \/ Check(x)
         \/ Crash(x) \/ QueryThrows(x)
         \/ x \in Approvals /\ (ReadWindow(x) \/ Prepare(x))
  PROVE  QInv'
  <1>0. TypeOK /\ Places /\ Claims /\ faults \in Nat /\ req[x].pc \in ReqPc
    BY DEF QInv, TypeOK, ReqRecord
  <1>k. /\ x \in Approvals => x \notin Sweeps /\ x \notin Deploys
        /\ x \in Sweeps => x \notin Deploys
        /\ x \in Approvals \/ x \in Sweeps \/ x \in Deploys
    BY KindsAreApart
  <1>o. /\ Over(x) \in ReqPc
        /\ Over(x) = "idle" \/ Over(x) = "done"
    BY OverIsAtRest
  <1>1. CASE x \in Sweeps /\ List(x)
    <2>1. Moved(x, "claim")
      BY <1>1, GotoMoves DEF List, ReqPc
    <2>2. Places'
      BY <1>k, <1>1, <2>1, PlacesMove
    <2>3. ~Holds(x)'
      BY <2>1 DEF Moved, Holds
    <2> QED
      BY <1>0, <1>1, <2>1, <2>2, <2>3, Steps DEF List
  <1>2. CASE x \in Deploys /\ DeployNow(x)
    <2>1. Moved(x, "budget")
      BY <1>2, WaivesMoves DEF DeployNow
    <2>2. Places'
      BY <2>1, PlacesMove
    <2>3. ~Holds(x)'
      BY <1>2, <2>1 DEF Moved, Holds
    <2> QED
      BY <1>0, <1>2, <2>1, <2>2, <2>3, Steps DEF DeployNow
  <1>3. CASE AskBudget(x)
    <2> DEFINE pc == IF Passes(x, "budget") THEN "policy" ELSE AfterRefusal(x)
    <2>1. /\ pc = "policy" \/ pc = "done" \/ (pc = "refused" /\ x \notin Deploys)
          /\ pc \in ReqPc
      BY <1>k, <1>o DEF AfterRefusal, ReqPc, Over
    <2>2. Goto(x, pc) /\ req[x].pc = "budget"
      BY <1>3 DEF AskBudget
    <2> HIDE DEF pc
    <2>3. Moved(x, pc)
      BY <2>1, <2>2, GotoMoves
    <2>4. Places'
      BY <2>1, <2>3, PlacesMove
    <2>5. Holds(x)' => Holds(x)
      BY <2>1, <2>2, <2>3 DEF Moved, Holds
    <2> QED
      BY <1>0, <1>3, <2>1, <2>2, <2>3, <2>4, <2>5, Steps DEF AskBudget
  <1>4. CASE AskPolicy(x)
    <2> DEFINE pc == IF Passes(x, "policy") THEN Passed(x) ELSE AfterRefusal(x)
    <2>1. /\ \/ pc = "window" /\ x \in Approvals
             \/ pc = "build" /\ x \in Sweeps
             \/ pc = "claim" /\ x \in Deploys
             \/ pc = "done"
             \/ pc = "refused" /\ x \notin Deploys
          /\ pc \in ReqPc
      BY <1>k, <1>o DEF AfterRefusal, Passed, ReqPc, Over
    <2>2. Goto(x, pc) /\ req[x].pc = "policy"
      BY <1>4 DEF AskPolicy
    <2> HIDE DEF pc
    <2>3. Moved(x, pc)
      BY <2>1, <2>2, GotoMoves
    <2>4. Places'
      BY <1>k, <2>1, <2>3, PlacesMove
    <2>5. Holds(x)' => Holds(x)
      BY <1>k, <2>1, <2>2, <2>3 DEF Moved, Holds
    <2> QED
      BY <1>0, <1>4, <2>1, <2>2, <2>3, <2>4, <2>5, Steps DEF AskPolicy
  <1>5. CASE Returns(x)
    <2> DEFINE pc == IF x \in Approvals THEN "record" ELSE Over(x)
    <2>1. /\ (pc = "record" /\ x \in Approvals) \/ pc = "idle" \/ pc = "done"
          /\ pc \in ReqPc
      BY <1>o DEF ReqPc
    <2>2. Goto(x, pc) /\ req[x].pc = "fired"
      BY <1>5 DEF Returns
    <2> HIDE DEF pc
    <2>3. Moved(x, pc)
      BY <2>1, <2>2, GotoMoves
    <2>4. Places'
      BY <2>1, <2>3, PlacesMove
    <2>5. ~Holds(x)'
      BY <2>1, <2>3 DEF Moved, Holds
    <2> QED
      BY <1>0, <1>5, <2>2, <2>3, <2>4, <2>5, Steps DEF Returns
  <1>6. CASE CloseThrows(x)
    <2>1. Moved(x, "check")
      BY <1>6, GotoMoves DEF CloseThrows, ReqPc
    <2>2. Places'
      BY <2>1, PlacesMove
    <2>3. started
      BY <1>0, <1>6 DEF CloseThrows, Claims, Holds
    <2>4. ~Holds(x)'
      BY <1>6, <2>1, <2>3 DEF CloseThrows, Moved, Holds
    <2> QED
      BY <1>0, <1>6, <2>1, <2>2, <2>4, Steps DEF CloseThrows
  <1>7. CASE Check(x)
    <2> DEFINE pc == IF AnythingStarted THEN Over(x) ELSE "release"
    <2>1. /\ (pc = "release" /\ ~started) \/ pc = "idle" \/ pc = "done"
          /\ pc \in ReqPc
      BY <1>o DEF ReqPc, AnythingStarted
    <2>2. Goto(x, pc) /\ req[x].pc = "check"
      BY <1>7 DEF Check
    <2> HIDE DEF pc
    <2>3. Moved(x, pc)
      BY <2>1, <2>2, GotoMoves
    <2>4. Places'
      BY <2>1, <2>3, PlacesMove
    <2>5. Holds(x)' => Holds(x) /\ pc # "fired"
      BY <2>1, <2>2, <2>3 DEF Moved, Holds
    <2> QED
      BY <1>0, <1>7, <2>2, <2>3, <2>4, <2>5, Steps DEF Check
  <1>8. CASE Crash(x)
    <2>1. Moved(x, Over(x))
      BY <1>8, <1>o, GotoMoves DEF Crash
    <2>2. Places'
      BY <1>o, <2>1, PlacesMove
    <2>3. ~Holds(x)'
      BY <1>o, <2>1 DEF Moved, Holds
    <2>4. faults' \in Nat
      BY <1>0, <1>8 DEF Crash, Fault
    <2> QED
      BY <1>0, <1>8, <2>1, <2>2, <2>3, <2>4, Steps DEF Crash
  <1>9. CASE QueryThrows(x)
    <2> DEFINE pc == IF req[x].pc = "window" THEN "release" ELSE Over(x)
    <2>1. /\ (pc = "release" /\ req[x].pc = "window") \/ pc = "idle" \/ pc = "done"
          /\ pc \in ReqPc
      BY <1>o DEF ReqPc
    <2>2. Goto(x, pc) /\ req[x].pc \notin {"idle", "build", "fired", "done"}
      BY <1>9 DEF QueryThrows
    <2> HIDE DEF pc
    <2>3. Moved(x, pc)
      BY <2>1, <2>2, GotoMoves
    <2>4. Places'
      BY <2>1, <2>3, PlacesMove
    <2>5. Holds(x)' => Holds(x) /\ pc # "fired"
      BY <2>1, <2>2, <2>3 DEF Moved, Holds
    <2>6. faults' \in Nat
      BY <1>0, <1>9 DEF QueryThrows, Fault
    <2> QED
      BY <1>0, <1>9, <2>2, <2>3, <2>4, <2>5, <2>6, Steps DEF QueryThrows
  <1>10. CASE x \in Approvals /\ ReadWindow(x)
    <2>1. req[x].pc = "window" /\ Holds(x)
      BY <1>10 DEF ReadWindow, Holds
    <2>2. CASE Goto(x, "prepare")
      <3>1. Moved(x, "prepare")
        BY <2>2, GotoMoves DEF ReqPc
      <3>2. Places'
        BY <1>10, <3>1, PlacesMove
      <3> QED
        BY <1>0, <1>10, <2>1, <3>1, <3>2, Steps DEF ReadWindow
    <2>3. CASE \E u \in Times : req' = [req EXCEPT ![x].pc = "schedule", ![x].until = u]
      <3>1. Moved(x, "schedule") /\ req'[x].until # NoTime
        BY <2>3, UntilMoves
      <3>2. Places'
        BY <1>10, <3>1, PlacesMove
      <3> QED
        BY <1>0, <1>10, <2>1, <3>1, <3>2, Steps DEF ReadWindow
    <2> QED
      BY <1>10, <2>2, <2>3 DEF ReadWindow
  <1>11. CASE x \in Approvals /\ Prepare(x)
    <2>1. Moved(x, "build")
      BY <1>11, GotoMoves DEF Prepare, ReqPc
    <2>2. Places'
      BY <2>1, PlacesMove
    <2>3. Holds(x)
      BY <1>11 DEF Prepare, Holds
    <2> QED
      BY <1>0, <1>11, <2>1, <2>2, <2>3, Steps DEF Prepare
  <1> QED
    BY <1>1, <1>2, <1>3, <1>4, <1>5, <1>6, <1>7, <1>8, <1>9, <1>10, <1>11

(* A request takes the order out of a queue nobody else holds it from.     *)
LEMMA ClaimKeeps ==
  ASSUME QInv, NEW x \in Requests, NEW pc, Moved(x, pc), Places',
         \/ x \in Approvals /\ status = "pending"
         \/ x \notin Approvals /\ status = "scheduled",
         status' = "provisioning", req[x].pc # "done", pc \notin {"done", "fired"},
         UNCHANGED <<due, started, builds, now, refusing, faults>>,
         waived' = waived \/ (waived' = waived \cup {x} /\ x \notin Approvals)
  PROVE  QInv'
  <1>0. TypeOK /\ Places /\ Claims /\ ScheduleIsConsistent /\ Logged
    BY DEF QInv
  <1>1. TypeOK'
    BY <1>0 DEF Moved, TypeOK, Statuses
  <1>2. \A y \in Requests \ {x} : ~Holds(y)'
    <2>1. \A y \in Requests \ {x} : Holds(y)' <=> Holds(y)
      BY OthersHold
    <2>2. \A y \in Requests : ~Holds(y)
      BY <1>0 DEF Claims
    <2> QED
      BY <2>1, <2>2
  <1>3. ~started /\ builds = 0
    BY <1>0 DEF Claims
  <1>4. due = NoTime <=> x \in Approvals
    BY <1>0 DEF ScheduleIsConsistent
  <1>5. Claims'
    BY <1>2, <1>3, <1>4 DEF Claims, Moved
  <1>6. ScheduleIsConsistent'
    BY DEF ScheduleIsConsistent
  <1>7. x \in Approvals /\ x \in waived' => pc = "done"
    BY <1>0 DEF Logged
  <1>8. Logged'
    BY <1>7, LoggedStays
  <1> QED
    BY <1>1, <1>5, <1>6, <1>8, Zenon DEF QInv

LEMMA ApproveKeeps ==
  ASSUME QInv, NEW a \in Approvals, Approve(a) PROVE QInv'
  <1>1. a \in Requests
    BY DEF Requests
  <1>2. Moved(a, "budget")
    BY <1>1, WaivesMoves DEF Approve
  <1>3. Places'
    BY <1>1, <1>2, PlacesMove
  <1> QED
    BY <1>1, <1>2, <1>3, ClaimKeeps DEF Approve

LEMMA ClaimStepKeeps ==
  ASSUME QInv, NEW x \in Requests, Claim(x) PROVE QInv'
  <1>0. req[x].pc = "claim" /\ x \notin Approvals
    BY DEF Claim, QInv, Places
  <1>k. x \in Sweeps => x \notin Deploys
    BY KindsAreApart
  <1>1. CASE status = "scheduled"
    <2> DEFINE pc == IF x \in Sweeps THEN "budget" ELSE "build"
    <2>1. pc \in ReqPc /\ pc \in {"budget", "build"}
      BY DEF ReqPc
    <2>2. Goto(x, pc)
      BY <1>1 DEF Claim
    <2> HIDE DEF pc
    <2>3. Moved(x, pc)
      BY <2>1, <2>2, GotoMoves
    <2>4. Places'
      BY <2>1, <2>3, PlacesMove
    <2> QED
      BY <1>0, <1>1, <2>1, <2>3, <2>4, ClaimKeeps DEF Claim
  <1>2. CASE status # "scheduled"
    <2>1. Over(x) \in ReqPc /\ (Over(x) = "idle" \/ Over(x) = "done")
      BY OverIsAtRest
    <2>2. Moved(x, Over(x))
      BY <1>2, <2>1, GotoMoves DEF Claim
    <2>3. Places'
      BY <2>1, <2>2, PlacesMove
    <2>4. ~Holds(x)'
      BY <2>1, <2>2 DEF Moved, Holds
    <2> QED
      BY <1>0, <1>2, <2>2, <2>3, <2>4, Steps DEF Claim, orderVars, QInv, TypeOK
  <1> QED
    BY <1>1, <1>2

(* The holder puts the order where it belongs, and is done with it.        *)
LEMMA HandsBack ==
  ASSUME QInv, NEW x \in Requests, NEW pc, Moved(x, pc), Places',
         Holds(x), req[x].pc \notin {"fired", "done"}, pc = "idle" \/ pc = "done",
         status' \in {"pending", "scheduled"}, due' \in 0..NoTime,
         status' = "scheduled" => due' # NoTime,
         status' = "pending" => due' = NoTime,
         UNCHANGED <<started, builds, now, refusing, faults>>,
         waived' = waived \/ (waived' = waived \cup {x} /\ pc = "done")
  PROVE  QInv'
  <1>0. TypeOK /\ Places /\ Claims /\ ScheduleIsConsistent /\ Logged
    BY DEF QInv
  <1>1. TypeOK'
    BY <1>0 DEF Moved, TypeOK, Statuses
  <1>2. \A y \in Requests : ~Holds(y)'
    <2>1. \A y \in Requests \ {x} : Holds(y)' <=> Holds(y)
      BY OthersHold
    <2>2. ~Holds(x)'
      BY DEF Moved, Holds
    <2> QED
      BY <1>0, <2>1, <2>2 DEF Claims
  <1>3. ~started /\ builds = 0
    BY <1>0 DEF Claims
  <1>4. Claims'
    BY <1>2, <1>3 DEF Claims
  <1>5. ScheduleIsConsistent'
    BY DEF ScheduleIsConsistent
  <1>6. x \in Approvals /\ x \in waived' => pc = "done"
    BY <1>0 DEF Logged
  <1>7. Logged'
    BY <1>6, LoggedStays
  <1> QED
    BY <1>1, <1>4, <1>5, <1>7, Zenon DEF QInv

LEMMA GivingBackKeeps ==
  ASSUME QInv, NEW x \in Requests,
         \/ GiveBackRefused(x) \/ Release(x) \/ (x \in Approvals /\ Schedule(x))
  PROVE  QInv'
  <1>0. TypeOK /\ Places /\ Claims
    BY DEF QInv
  <1>1. /\ Holds(x) /\ req[x].pc \notin {"fired", "done"}
        /\ UNCHANGED <<started, builds, now, refusing, faults>>
    BY DEF GiveBackRefused, Release, Schedule, Holds
  <1>2. due = NoTime <=> x \in Approvals
    BY <1>0, <1>1 DEF Claims
  <1>o. /\ Over(x) \in ReqPc
        /\ Over(x) = "idle" \/ Over(x) = "done"
    BY OverIsAtRest
  <1>3. NoTime \in 0..NoTime
    BY OrderQueueAssumption DEF NoTime
  <1>4. CASE GiveBackRefused(x)
    <2>1. Moved(x, Over(x))
      BY <1>4, <1>o, GotoMoves DEF GiveBackRefused
    <2>2. Places'
      BY <1>o, <2>1, PlacesMove
    <2>3. x \notin Deploys
      BY <1>0, <1>4 DEF Places, GiveBackRefused
    <2>4. due' = NoTime
      BY <1>2, <1>4, <2>3, KindsAreApart DEF GiveBackRefused, DueAfterRefusal
    <2> QED
      BY <1>1, <1>3, <1>4, <1>o, <2>1, <2>2, <2>4, HandsBack DEF GiveBackRefused
  <1>5. CASE Release(x)
    <2>1. Moved(x, Over(x))
      BY <1>5, <1>o, GotoMoves DEF Release
    <2>2. Places'
      BY <1>o, <2>1, PlacesMove
    <2>3. due' = due /\ due \in 0..NoTime /\ waived' = waived
      BY <1>0, <1>5 DEF Release, TypeOK
    <2>4. /\ status' \in {"pending", "scheduled"}
          /\ status' = "pending" <=> x \in Approvals
      BY <1>5 DEF Release, QueueOf
    <2> QED
      BY <1>1, <1>2, <1>o, <2>1, <2>2, <2>3, <2>4, HandsBack
  <1>6. CASE x \in Approvals /\ Schedule(x)
    <2>1. Moved(x, "done")
      BY <1>6, GotoMoves DEF Schedule, ReqPc
    <2>2. Places'
      BY <2>1, PlacesMove
    <2>3. due' \in 0..NoTime /\ due' # NoTime
      BY <1>0, <1>6 DEF Schedule, Places, TypeOK, ReqRecord
    <2> QED
      BY <1>1, <1>6, <2>1, <2>2, <2>3, HandsBack DEF Schedule
  <1> QED
    BY <1>4, <1>5, <1>6

(* The holder of a claim builds, or finds that nothing starts.             *)
LEMMA BuildingKeeps ==
  ASSUME QInv, NEW x \in Requests, Fire(x) \/ NothingStarts(x)
  PROVE  QInv'
  <1>0. TypeOK /\ Places /\ Claims /\ ScheduleIsConsistent /\ Logged
    BY DEF QInv
  <1>1. /\ Holds(x) /\ req[x].pc = "build"
        /\ UNCHANGED <<status, due, waived, now, refusing, faults>>
    BY DEF Fire, NothingStarts, Holds, orderVars
  <1>2. /\ ~started /\ builds = 0 /\ status = "provisioning"
        /\ due = NoTime <=> x \in Approvals
    BY <1>0, <1>1 DEF Claims
  <1>3. \A y \in Requests \ {x} : ~Holds(y)
    BY <1>0, <1>1 DEF Claims
  <1>4. PICK pc \in {"fired", "check"} :
          /\ Moved(x, pc)
          /\ pc = "fired" <=> started'
          /\ started' \in BOOLEAN
          /\ builds' = IF pc = "fired" THEN 1 ELSE 0
    <2>1. CASE Fire(x)
      <3>1. Moved(x, "fired") /\ started' = TRUE /\ builds' = 1
        BY <1>2, <2>1, GotoMoves DEF Fire, ReqPc
      <3> QED
        BY <3>1
    <2>2. CASE NothingStarts(x)
      <3>1. Moved(x, "check") /\ started' = FALSE /\ builds' = 0
        BY <1>2, <2>2, GotoMoves DEF NothingStarts, ReqPc
      <3> QED
        BY <3>1
    <2> QED
      BY <2>1, <2>2
  <1>5. Places'
    BY <1>4, PlacesMove
  <1>6. TypeOK'
    BY <1>0, <1>1, <1>4 DEF TypeOK, Moved
  <1>7. \A y \in Requests \ {x} : ~Holds(y)'
    BY <1>2, <1>3, <1>4 DEF Holds, Moved
  <1>8. Claims'
    BY <1>1, <1>2, <1>4, <1>7 DEF Claims, Moved
  <1>9. ScheduleIsConsistent' /\ x \notin Approvals \cap waived
    BY <1>0, <1>1 DEF ScheduleIsConsistent, Logged
  <1>10. Logged'
    BY <1>1, <1>4, <1>9, LoggedStays
  <1> QED
    BY <1>5, <1>6, <1>8, <1>9, <1>10, Zenon DEF QInv

LEMMA RejectKeeps ==
  ASSUME QInv, NEW a \in Approvals, Reject(a) PROVE QInv'
  <1>0. TypeOK /\ Places /\ Claims /\ ScheduleIsConsistent /\ Logged /\ a \in Requests
    BY DEF QInv, Requests
  <1>1. Moved(a, "done")
    BY <1>0, GotoMoves DEF Reject, ReqPc
  <1>2. Places'
    BY <1>0, <1>1, PlacesMove
  <1>3. TypeOK'
    BY <1>0, <1>1 DEF Reject, TypeOK, Moved, Statuses
  <1>4. \A y \in Requests : ~Holds(y)'
    <2>1. \A y \in Requests \ {a} : Holds(y)' <=> Holds(y)
      BY <1>0, <1>1, OthersHold DEF Reject
    <2>2. \A y \in Requests : ~Holds(y)
      BY <1>0 DEF Claims, Reject
    <2>3. ~Holds(a)'
      BY <1>1 DEF Moved, Holds
    <2> QED
      BY <2>1, <2>2, <2>3
  <1>5. Claims'
    BY <1>0, <1>4 DEF Claims, Reject
  <1>6. ScheduleIsConsistent'
    BY <1>0 DEF ScheduleIsConsistent, Reject
  <1>7. Logged'
    BY <1>0, <1>1, LoggedStays DEF Reject
  <1> QED
    BY <1>2, <1>3, <1>5, <1>6, <1>7, Zenon DEF QInv

LEMMA RecordKeeps ==
  ASSUME QInv, NEW a \in Approvals, Record(a) PROVE QInv'
  <1>0. TypeOK /\ Places /\ Claims /\ ScheduleIsConsistent /\ Logged /\ a \in Requests
    BY DEF QInv, Requests
  <1>1. Moved(a, "done")
    BY <1>0, GotoMoves DEF Record, ReqPc
  <1>2. Places'
    BY <1>0, <1>1, PlacesMove
  <1>3. TypeOK'
    BY <1>0, <1>1 DEF Record, TypeOK, Moved, orderVars
  <1>4. /\ \A y \in Requests \ {a} : Holds(y)' <=> Holds(y)
        /\ ~Holds(a)'
    BY <1>0, <1>1, OthersHold DEF Record, Moved, Holds
  <1>5. Claims'
    BY <1>0, <1>1, <1>4 DEF Claims, Record, orderVars, Moved
  <1>6. ScheduleIsConsistent'
    BY <1>0 DEF ScheduleIsConsistent, Record, orderVars
  <1>7. Logged'
    BY <1>0, <1>1, LoggedStays DEF Record
  <1> QED
    BY <1>2, <1>3, <1>5, <1>6, <1>7, Zenon DEF QInv

(* Pipelines report, time passes, gates change their minds.                *)
LEMMA SurroundingsKeep ==
  ASSUME QInv, Report \/ Tick \/ EditGate \/ UNCHANGED vars
  PROVE  QInv'
  <1>0. TypeOK /\ Places /\ Claims /\ ScheduleIsConsistent /\ Logged
    BY DEF QInv
  <1>1. /\ UNCHANGED <<due, started, builds, waived, req, faults>>
        /\ \/ status' = status
           \/ started /\ status' = "failed"
           \/ started /\ status' = "completed" /\ \A x \in Requests : ~Holds(x)
    BY DEF Report, Tick, EditGate, vars, orderVars
  <1>2. now' \in Times /\ refusing' \subseteq Gates
    BY <1>0, OrderQueueAssumption
    DEF TypeOK, Report, Tick, EditGate, Times, vars, orderVars
  <1>3. TypeOK'
    BY <1>0, <1>1, <1>2 DEF TypeOK, Statuses
  <1>4. \A x \in Requests : Holds(x)' <=> Holds(x)
    BY <1>1 DEF Holds
  <1>5. Claims'
    BY <1>0, <1>1, <1>4 DEF Claims
  <1>6. Places' /\ ScheduleIsConsistent' /\ Logged'
    BY <1>0, <1>1 DEF Places, ScheduleIsConsistent, Logged
  <1> QED
    BY <1>3, <1>5, <1>6, Zenon DEF QInv

LEMMA NextQInv ==
  ASSUME QInv, [Next]_vars PROVE QInv'
  <1>1. CASE UNCHANGED vars \/ Report \/ Tick \/ EditGate
    BY <1>1, SurroundingsKeep
  <1>2. ASSUME NEW a \in Approvals, Approve(a) \/ Reject(a) \/ ApprovalStep(a)
        PROVE  QInv'
    <2>1. a \in Requests
      BY DEF Requests
    <2> QED
      BY <1>2, <2>1, ApproveKeeps, RejectKeeps, RecordKeeps, GivingBackKeeps, QuietSteps
      DEF ApprovalStep
  <1>3. ASSUME NEW s \in Sweeps, List(s) PROVE QInv'
    BY <1>3, QuietSteps DEF Requests
  <1>4. ASSUME NEW d \in Deploys, DeployNow(d) PROVE QInv'
    BY <1>4, QuietSteps DEF Requests
  <1>5. ASSUME NEW x \in Requests,
               CommonStep(x) \/ Fire(x) \/ Crash(x) \/ QueryThrows(x)
        PROVE  QInv'
    BY <1>5, ClaimStepKeeps, GivingBackKeeps, BuildingKeeps, QuietSteps DEF CommonStep
  <1> QED
    BY <1>1, <1>2, <1>3, <1>4, <1>5 DEF Next

-----------------------------------------------------------------------------
(* Until something dies, an order with nothing started is in somebody's    *)
(* hands: a step keeps the hold, or leaves the order elsewhere.            *)

LEMMA HoldStays ==
  ASSUME ProvisioningIsAtWork, NEW x \in Requests, NEW pc, Moved(x, pc),
         UNCHANGED <<started, status, faults>>, Holds(x) => Holds(x)' \/ started
  PROVE  ProvisioningIsAtWork'
  BY OthersHold DEF ProvisioningIsAtWork

LEMMA HeldNow ==
  ASSUME NEW x \in Requests, Holds(x)' \/ status' # "provisioning" \/ started'
  PROVE  ProvisioningIsAtWork'
  BY DEF ProvisioningIsAtWork

LEMMA QuietStepsAtWork ==
  ASSUME QInv, ProvisioningIsAtWork, NEW x \in Requests,
         \/ x \in Sweeps /\ List(x)
         \/ x \in Deploys /\ DeployNow(x)
         \/ AskBudget(x) \/ AskPolicy(x) \/ Returns(x) \/ CloseThrows(x) \/ Check(x)
         \/ Crash(x) \/ QueryThrows(x)
         \/ x \in Approvals /\ (ReadWindow(x) \/ Prepare(x) \/ Record(x))
  PROVE  ProvisioningIsAtWork'
  <1>0. TypeOK /\ Places /\ Claims /\ req[x].pc \in ReqPc
    BY DEF QInv, TypeOK, ReqRecord
  <1>k. /\ x \in Approvals => x \notin Sweeps /\ x \notin Deploys
        /\ x \in Sweeps => x \notin Deploys
        /\ x \in Approvals \/ x \in Sweeps \/ x \in Deploys
    BY KindsAreApart
  <1>o. Over(x) \in ReqPc
    BY OverIsAtRest
  <1>u. status' = status /\ started' = started
    BY DEF List, DeployNow, AskBudget, AskPolicy, Returns, CloseThrows, Check, Crash,
           QueryThrows, ReadWindow, Prepare, Record, orderVars
  <1>1. CASE x \in Sweeps /\ List(x)
    <2>1. Moved(x, "claim") /\ ~Holds(x)
      BY <1>1, GotoMoves DEF List, ReqPc, Holds
    <2>f. faults' = faults
      BY <1>1 DEF List
    <2> QED
      BY <1>u, <2>f, <2>1, HoldStays
  <1>2. CASE x \in Deploys /\ DeployNow(x)
    <2>1. Moved(x, "budget") /\ ~Holds(x)
      BY <1>2, WaivesMoves DEF DeployNow, Holds
    <2>f. faults' = faults
      BY <1>2 DEF DeployNow
    <2> QED
      BY <1>u, <2>f, <2>1, HoldStays
  <1>3. CASE AskBudget(x)
    <2> DEFINE pc == IF Passes(x, "budget") THEN "policy" ELSE AfterRefusal(x)
    <2>1. pc \in ReqPc /\ (x \notin Deploys => pc = "policy" \/ pc = "refused")
      BY <1>o DEF AfterRefusal, ReqPc
    <2>2. Goto(x, pc) /\ req[x].pc = "budget"
      BY <1>3 DEF AskBudget
    <2> HIDE DEF pc
    <2>3. Moved(x, pc)
      BY <2>1, <2>2, GotoMoves
    <2>4. Holds(x) => Holds(x)'
      BY <2>1, <2>2, <2>3 DEF Moved, Holds
    <2>f. faults' = faults
      BY <1>3 DEF AskBudget
    <2> QED
      BY <1>u, <2>f, <2>3, <2>4, HoldStays
  <1>4. CASE AskPolicy(x)
    <2> DEFINE pc == IF Passes(x, "policy") THEN Passed(x) ELSE AfterRefusal(x)
    <2>1. /\ x \notin Deploys => pc \in {"window", "build", "refused"}
          /\ pc \in ReqPc
      BY <1>k, <1>o DEF AfterRefusal, Passed, ReqPc
    <2>2. Goto(x, pc) /\ req[x].pc = "policy"
      BY <1>4 DEF AskPolicy
    <2> HIDE DEF pc
    <2>3. Moved(x, pc)
      BY <2>1, <2>2, GotoMoves
    <2>4. Holds(x) => Holds(x)'
      BY <2>1, <2>2, <2>3 DEF Moved, Holds
    <2>f. faults' = faults
      BY <1>4 DEF AskPolicy
    <2> QED
      BY <1>u, <2>f, <2>3, <2>4, HoldStays
  <1>5. CASE Returns(x) \/ CloseThrows(x)
    <2>1. started
      BY <1>0, <1>5 DEF Claims, Holds, Returns, CloseThrows
    <2> QED
      BY <1>u, <2>1 DEF ProvisioningIsAtWork
  <1>6. CASE Check(x)
    <2>1. CASE started
      BY <1>u, <2>1 DEF ProvisioningIsAtWork
    <2>2. CASE ~started
      <3>1. Moved(x, "release")
        BY <1>6, <2>2, GotoMoves DEF Check, AnythingStarted, ReqPc
      <3>2. Holds(x)'
        BY <3>1 DEF Moved, Holds
      <3> QED
        BY <3>2, HeldNow
    <2> QED
      BY <2>1, <2>2
  <1>7. CASE Crash(x) \/ QueryThrows(x)
    <2>1. faults' # 0
      BY <1>0, <1>7 DEF Crash, QueryThrows, Fault, TypeOK
    <2> QED
      BY <2>1 DEF ProvisioningIsAtWork
  <1>8. CASE x \in Approvals /\ ReadWindow(x)
    <2>1. CASE Goto(x, "prepare")
      <3>1. Moved(x, "prepare")
        BY <2>1, GotoMoves DEF ReqPc
      <3>2. Holds(x)'
        BY <3>1 DEF Moved, Holds
      <3> QED
        BY <3>2, HeldNow
    <2>2. CASE \E u \in Times : req' = [req EXCEPT ![x].pc = "schedule", ![x].until = u]
      <3>1. Moved(x, "schedule")
        BY <2>2, UntilMoves
      <3>2. Holds(x)'
        BY <3>1 DEF Moved, Holds
      <3> QED
        BY <3>2, HeldNow
    <2> QED
      BY <1>8, <2>1, <2>2 DEF ReadWindow
  <1>9. CASE x \in Approvals /\ Prepare(x)
    <2>1. Moved(x, "build")
      BY <1>9, GotoMoves DEF Prepare, ReqPc
    <2>2. Holds(x)'
      BY <2>1 DEF Moved, Holds
    <2> QED
      BY <2>2, HeldNow
  <1>10. CASE x \in Approvals /\ Record(x)
    <2>1. Moved(x, "done") /\ ~Holds(x)
      BY <1>10, GotoMoves DEF Record, ReqPc, Holds
    <2>f. faults' = faults
      BY <1>10 DEF Record
    <2> QED
      BY <1>u, <2>f, <2>1, HoldStays
  <1> QED
    BY <1>1, <1>2, <1>3, <1>4, <1>5, <1>6, <1>7, <1>8, <1>9, <1>10

LEMMA HandoversAtWork ==
  ASSUME QInv, ProvisioningIsAtWork, NEW x \in Requests,
         \/ x \in Approvals /\ (Approve(x) \/ Reject(x) \/ Schedule(x))
         \/ Claim(x) \/ GiveBackRefused(x) \/ Release(x) \/ Fire(x) \/ NothingStarts(x)
  PROVE  ProvisioningIsAtWork'
  <1>k. x \in Approvals => x \notin Deploys
    BY KindsAreApart
  <1>1. CASE x \in Approvals /\ Approve(x)
    <2>1. Moved(x, "budget")
      BY <1>1, WaivesMoves DEF Approve
    <2>2. Holds(x)'
      BY <1>1, <1>k, <2>1 DEF Moved, Holds
    <2> QED
      BY <2>2, HeldNow
  <1>2. CASE \/ x \in Approvals /\ (Reject(x) \/ Schedule(x))
             \/ GiveBackRefused(x) \/ Release(x) \/ Fire(x)
    <2>1. status' # "provisioning" \/ started'
      BY <1>2 DEF Reject, Schedule, GiveBackRefused, Release, Fire, QueueOf
    <2> QED
      BY <2>1, HeldNow
  <1>3. CASE Claim(x)
    <2>1. CASE status = "scheduled"
      <3>1. CASE x \in Sweeps
        <4>1. Moved(x, "budget") /\ x \notin Deploys
          BY <1>3, <2>1, <3>1, GotoMoves, KindsAreApart DEF Claim, ReqPc
        <4>2. Holds(x)'
          BY <4>1 DEF Moved, Holds
        <4> QED
          BY <4>2, HeldNow
      <3>2. CASE x \notin Sweeps
        <4>1. Moved(x, "build")
          BY <1>3, <2>1, <3>2, GotoMoves DEF Claim, ReqPc
        <4>2. Holds(x)'
          BY <4>1 DEF Moved, Holds
        <4> QED
          BY <4>2, HeldNow
      <3> QED
        BY <3>1, <3>2
    <2>2. CASE status # "scheduled"
      <3>1. Moved(x, Over(x)) /\ ~Holds(x)
        BY <1>3, <2>2, OverIsAtRest, GotoMoves DEF Claim, Holds
      <3>2. UNCHANGED <<started, status, faults>>
        BY <1>3, <2>2 DEF Claim
      <3> QED
        BY <3>1, <3>2, HoldStays
    <2> QED
      BY <2>1, <2>2
  <1>4. CASE NothingStarts(x)
    <2>1. Moved(x, "check") /\ started' = FALSE
      BY <1>4, GotoMoves DEF NothingStarts, ReqPc
    <2>2. Holds(x)'
      BY <2>1 DEF Moved, Holds
    <2> QED
      BY <2>2, HeldNow
  <1> QED
    BY <1>1, <1>2, <1>3, <1>4

LEMMA NextAtWork ==
  ASSUME QInv, ProvisioningIsAtWork, [Next]_vars
  PROVE  ProvisioningIsAtWork'
  <1>1. CASE UNCHANGED vars \/ Tick \/ EditGate
    <2>1. UNCHANGED <<status, started, req, faults>>
      BY <1>1 DEF vars, orderVars, Tick, EditGate
    <2> QED
      BY <2>1 DEF ProvisioningIsAtWork, Holds
  <1>2. CASE Report
    BY <1>2 DEF Report, ProvisioningIsAtWork
  <1>3. ASSUME NEW a \in Approvals, Approve(a) \/ Reject(a) \/ ApprovalStep(a)
        PROVE  ProvisioningIsAtWork'
    BY <1>3, HandoversAtWork, QuietStepsAtWork DEF ApprovalStep, Requests
  <1>4. ASSUME NEW s \in Sweeps, List(s) PROVE ProvisioningIsAtWork'
    BY <1>4, QuietStepsAtWork DEF Requests
  <1>5. ASSUME NEW d \in Deploys, DeployNow(d) PROVE ProvisioningIsAtWork'
    BY <1>5, QuietStepsAtWork DEF Requests
  <1>6. ASSUME NEW x \in Requests,
               CommonStep(x) \/ Fire(x) \/ Crash(x) \/ QueryThrows(x)
        PROVE  ProvisioningIsAtWork'
    BY <1>6, HandoversAtWork, QuietStepsAtWork DEF CommonStep
  <1> QED
    BY <1>1, <1>2, <1>3, <1>4, <1>5, <1>6 DEF Next

-----------------------------------------------------------------------------
(* Every variable keeps its type, whatever races, throws or crashes.       *)
THEOREM TypeCorrect == Spec => []TypeOK
  <1>1. QInv => TypeOK
    BY DEF QInv
  <1> QED
    BY <1>1, InitQInv, NextQInv, PTL DEF Spec

(* However approvals, sweeps and root race for an order, and whatever      *)
(* throws or dies where, it is built once (approvals.ts and                *)
(* windowPolicy.ts, the catch around provisionOrderElements).              *)
THEOREM OneBuildAnOrder == Spec => []BuiltOnce
  <1>1. QInv => BuiltOnce
    BY DEF QInv, Claims, BuiltOnce
  <1> QED
    BY <1>1, InitQInv, NextQInv, PTL DEF Spec

(* Whoever gives an order back, and from wherever, leaves its status and   *)
(* its release time in agreement (schema.ts, orders_scheduled_consistency).*)
THEOREM SchedulesAgree == Spec => []ScheduleIsConsistent
  <1>1. QInv => ScheduleIsConsistent
    BY DEF QInv
  <1> QED
    BY <1>1, InitQInv, NextQInv, PTL DEF Spec

(* The audit log never says that root waived a gate for an approval that   *)
(* can still be undone (approvals.ts, #521 and #527).                      *)
THEOREM WaiversAreCommitted == Spec => []WaiverMeansCommitted
  <1>1. ASSUME QInv PROVE WaiverMeansCommitted
    BY <1>1 DEF QInv, Logged, WaiverMeansCommitted, Holds
  <1> QED
    BY <1>1, InitQInv, NextQInv, PTL DEF Spec

(* As long as no process has died and no statement has thrown, an order in *)
(* 'provisioning' with nothing started is in some request's hands: no      *)
(* approval and no sweep would look at it again (approvals.ts, on          *)
(* releasing a refused claim).                                             *)
THEOREM NobodyIsStranded == Spec => []ProvisioningIsAtWork
  <1>1. Init => QInv /\ ProvisioningIsAtWork
    BY InitQInv DEF Init, ProvisioningIsAtWork
  <1>2. QInv /\ ProvisioningIsAtWork /\ [Next]_vars => (QInv /\ ProvisioningIsAtWork)'
    BY NextQInv, NextAtWork
  <1> QED
    BY <1>1, <1>2, PTL DEF Spec

-----------------------------------------------------------------------------
(* The queues keep the promise of the order's status.                      *)

SomeHold == \E x \in Requests : Holds(x)

(* What the promise calls the status.                                      *)
Shown == IF status = "scheduled" THEN "pending" ELSE status

LEMMA HiddenStutters ==
  ASSUME Shown' = Shown, builds' = builds, SomeHold' <=> SomeHold
  PROVE  [Promise!OrderNext]_(Promise!statusVars)
  <1>1. SomeHold' = SomeHold
    OBVIOUS
  <1> QED
    BY <1>1 DEF SomeHold, Shown, Promise!statusVars

(* The holder of a claim moves on with it, or lets go of it.               *)
LEMMA MovesAreAllowed ==
  ASSUME QInv, NEW x \in Requests, NEW pc, Moved(x, pc), started' = started,
         status' = status, builds' = builds, Holds(x)' => Holds(x)
  PROVE  [Promise!OrderNext]_(Promise!statusVars)
  <1>1. \A y \in Requests \ {x} : Holds(y)' <=> Holds(y)
    BY OthersHold
  <1>2. Shown' = Shown
    BY DEF Shown
  <1>3. CASE Holds(x) /\ ~Holds(x)'
    <2>1. SomeHold /\ ~SomeHold'
      BY <1>1, <1>3 DEF SomeHold, QInv, Claims
    <2>2. SomeHold' = FALSE
      BY <2>1
    <2> QED
      BY <1>2, <2>1, <2>2 DEF SomeHold, Shown, Promise!OrderNext, Promise!HandOver
  <1>4. CASE Holds(x) <=> Holds(x)'
    <2>1. SomeHold' <=> SomeHold
      BY <1>1, <1>4 DEF SomeHold
    <2> QED
      BY <1>2, <2>1, HiddenStutters
  <1> QED
    BY <1>3, <1>4

LEMMA QuietStepsAreAllowed ==
  ASSUME QInv, NEW x \in Requests,
         \/ x \in Sweeps /\ List(x)
         \/ x \in Deploys /\ DeployNow(x)
         \/ AskBudget(x) \/ AskPolicy(x) \/ Returns(x) \/ CloseThrows(x) \/ Check(x)
         \/ Crash(x) \/ QueryThrows(x)
         \/ x \in Approvals /\ (ReadWindow(x) \/ Prepare(x) \/ Record(x))
  PROVE  [Promise!OrderNext]_(Promise!statusVars)
  <1>0. TypeOK /\ Places /\ Claims /\ req[x].pc \in ReqPc
    BY DEF QInv, TypeOK, ReqRecord
  <1>k. /\ x \in Approvals => x \notin Sweeps /\ x \notin Deploys
        /\ x \in Sweeps => x \notin Deploys
        /\ x \in Approvals \/ x \in Sweeps \/ x \in Deploys
    BY KindsAreApart
  <1>o. Over(x) \in ReqPc /\ (Over(x) = "idle" \/ Over(x) = "done")
    BY OverIsAtRest
  <1>u. status' = status /\ started' = started /\ builds' = builds
    BY DEF List, DeployNow, AskBudget, AskPolicy, Returns, CloseThrows, Check, Crash,
           QueryThrows, ReadWindow, Prepare, Record, orderVars
  <1>1. CASE x \in Sweeps /\ List(x)
    <2>1. Moved(x, "claim")
      BY <1>1, GotoMoves DEF List, ReqPc
    <2>2. ~Holds(x)'
      BY <2>1 DEF Moved, Holds
    <2> QED
      BY <1>u, <2>1, <2>2, MovesAreAllowed
  <1>2. CASE x \in Deploys /\ DeployNow(x)
    <2>1. Moved(x, "budget")
      BY <1>2, WaivesMoves DEF DeployNow
    <2>2. ~Holds(x)'
      BY <1>2, <2>1 DEF Moved, Holds
    <2> QED
      BY <1>u, <2>1, <2>2, MovesAreAllowed
  <1>3. CASE AskBudget(x)
    <2> DEFINE pc == IF Passes(x, "budget") THEN "policy" ELSE AfterRefusal(x)
    <2>1. /\ pc \in {"policy", "done", "idle"} \/ (pc = "refused" /\ x \notin Deploys)
          /\ pc \in ReqPc
      BY <1>o DEF AfterRefusal, ReqPc
    <2>2. Goto(x, pc) /\ req[x].pc = "budget"
      BY <1>3 DEF AskBudget
    <2> HIDE DEF pc
    <2>3. Moved(x, pc)
      BY <2>1, <2>2, GotoMoves
    <2>4. Holds(x)' => Holds(x)
      BY <2>1, <2>2, <2>3 DEF Moved, Holds
    <2> QED
      BY <1>u, <2>3, <2>4, MovesAreAllowed
  <1>4. CASE AskPolicy(x)
    <2> DEFINE pc == IF Passes(x, "policy") THEN Passed(x) ELSE AfterRefusal(x)
    <2>1. /\ \/ pc \in {"window", "build", "refused"} /\ x \notin Deploys
             \/ pc \in {"claim", "done", "idle"}
          /\ pc \in ReqPc
      BY <1>k, <1>o DEF AfterRefusal, Passed, ReqPc
    <2>2. Goto(x, pc) /\ req[x].pc = "policy"
      BY <1>4 DEF AskPolicy
    <2> HIDE DEF pc
    <2>3. Moved(x, pc)
      BY <2>1, <2>2, GotoMoves
    <2>4. Holds(x)' => Holds(x)
      BY <2>1, <2>2, <2>3 DEF Moved, Holds
    <2> QED
      BY <1>u, <2>3, <2>4, MovesAreAllowed
  <1>5. CASE Returns(x)
    <2> DEFINE pc == IF x \in Approvals THEN "record" ELSE Over(x)
    <2>1. pc \in {"record", "idle", "done"} /\ pc \in ReqPc
      BY <1>o DEF ReqPc
    <2>2. Goto(x, pc)
      BY <1>5 DEF Returns
    <2> HIDE DEF pc
    <2>3. Moved(x, pc)
      BY <2>1, <2>2, GotoMoves
    <2>4. ~Holds(x)'
      BY <2>1, <2>3 DEF Moved, Holds
    <2> QED
      BY <1>u, <2>3, <2>4, MovesAreAllowed
  <1>6. CASE CloseThrows(x)
    <2>1. Moved(x, "check") /\ Holds(x)
      BY <1>6, GotoMoves DEF CloseThrows, ReqPc, Holds
    <2> QED
      BY <1>u, <2>1, MovesAreAllowed
  <1>7. CASE Check(x)
    <2> DEFINE pc == IF AnythingStarted THEN Over(x) ELSE "release"
    <2>1. /\ (pc = "release" /\ ~started) \/ pc = "idle" \/ pc = "done"
          /\ pc \in ReqPc
      BY <1>o DEF ReqPc, AnythingStarted
    <2>2. Goto(x, pc) /\ req[x].pc = "check"
      BY <1>7 DEF Check
    <2> HIDE DEF pc
    <2>3. Moved(x, pc)
      BY <2>1, <2>2, GotoMoves
    <2>4. Holds(x)' => Holds(x)
      BY <2>1, <2>2, <2>3 DEF Moved, Holds
    <2> QED
      BY <1>u, <2>3, <2>4, MovesAreAllowed
  <1>8. CASE Crash(x)
    <2>1. Moved(x, Over(x))
      BY <1>8, <1>o, GotoMoves DEF Crash
    <2>2. ~Holds(x)'
      BY <1>o, <2>1 DEF Moved, Holds
    <2> QED
      BY <1>u, <2>1, <2>2, MovesAreAllowed
  <1>9. CASE QueryThrows(x)
    <2> DEFINE pc == IF req[x].pc = "window" THEN "release" ELSE Over(x)
    <2>1. /\ (pc = "release" /\ req[x].pc = "window") \/ pc = "idle" \/ pc = "done"
          /\ pc \in ReqPc
      BY <1>o DEF ReqPc
    <2>2. Goto(x, pc)
      BY <1>9 DEF QueryThrows
    <2> HIDE DEF pc
    <2>3. Moved(x, pc)
      BY <2>1, <2>2, GotoMoves
    <2>4. Holds(x)' => Holds(x)
      BY <2>1, <2>3 DEF Moved, Holds
    <2> QED
      BY <1>u, <2>3, <2>4, MovesAreAllowed
  <1>10. CASE x \in Approvals /\ ReadWindow(x)
    <2>1. Holds(x)
      BY <1>10 DEF ReadWindow, Holds
    <2>2. CASE Goto(x, "prepare")
      <3>1. Moved(x, "prepare")
        BY <2>2, GotoMoves DEF ReqPc
      <3> QED
        BY <1>u, <2>1, <3>1, MovesAreAllowed
    <2>3. CASE \E u \in Times : req' = [req EXCEPT ![x].pc = "schedule", ![x].until = u]
      <3>1. Moved(x, "schedule")
        BY <2>3, UntilMoves
      <3> QED
        BY <1>u, <2>1, <3>1, MovesAreAllowed
    <2> QED
      BY <1>10, <2>2, <2>3 DEF ReadWindow
  <1>11. CASE x \in Approvals /\ Prepare(x)
    <2>1. Moved(x, "build") /\ Holds(x)
      BY <1>11, GotoMoves DEF Prepare, ReqPc, Holds
    <2> QED
      BY <1>u, <2>1, MovesAreAllowed
  <1>12. CASE x \in Approvals /\ Record(x)
    <2>1. Moved(x, "done")
      BY <1>12, GotoMoves DEF Record, ReqPc
    <2>2. ~Holds(x)'
      BY <2>1 DEF Moved, Holds
    <2> QED
      BY <1>u, <2>1, <2>2, MovesAreAllowed
  <1> QED
    BY <1>1, <1>2, <1>3, <1>4, <1>5, <1>6, <1>7, <1>8, <1>9, <1>10, <1>11, <1>12

(* Out of a queue goes one claim; back into one goes the only claim.       *)
LEMMA TakingIsAllowed ==
  ASSUME QInv, NEW x \in Requests,
         \/ x \in Approvals /\ Approve(x)
         \/ Claim(x)
  PROVE  [Promise!OrderNext]_(Promise!statusVars)
  <1>k. x \in Approvals => x \notin Deploys
    BY KindsAreApart
  <1>1. CASE Claim(x) /\ status # "scheduled"
    <2>1. Moved(x, Over(x)) /\ (Over(x) = "idle" \/ Over(x) = "done")
      BY <1>1, OverIsAtRest, GotoMoves DEF Claim
    <2>2. ~Holds(x)'
      BY <2>1 DEF Moved, Holds
    <2> QED
      BY <1>1, <2>1, <2>2, MovesAreAllowed DEF Claim
  <1>2. CASE \/ x \in Approvals /\ Approve(x)
             \/ Claim(x) /\ status = "scheduled"
    <2>1. /\ Shown = "pending" /\ Shown' = "provisioning" /\ builds' = builds
          /\ status \in {"pending", "scheduled"}
      BY <1>2 DEF Approve, Claim, Shown
    <2>2. ~SomeHold
      BY <2>1 DEF QInv, Claims, SomeHold
    <2>3. Holds(x)'
      <3>1. CASE x \in Approvals /\ Approve(x)
        <4>1. Moved(x, "budget")
          BY <3>1, WaivesMoves DEF Approve
        <4> QED
          BY <1>k, <3>1, <4>1 DEF Moved, Holds
      <3>2. CASE Claim(x) /\ status = "scheduled" /\ x \in Sweeps
        <4>1. Moved(x, "budget") /\ x \notin Deploys
          BY <3>2, GotoMoves, KindsAreApart DEF Claim, ReqPc
        <4> QED
          BY <4>1 DEF Moved, Holds
      <3>3. CASE Claim(x) /\ status = "scheduled" /\ x \notin Sweeps
        <4>1. Moved(x, "build")
          BY <3>3, GotoMoves DEF Claim, ReqPc
        <4> QED
          BY <4>1 DEF Moved, Holds
      <3> QED
        BY <1>2, <3>1, <3>2, <3>3
    <2>4. SomeHold = FALSE /\ SomeHold' = TRUE
      BY <2>2, <2>3 DEF SomeHold
    <2> QED
      BY <2>1, <2>4 DEF SomeHold, Shown, Promise!OrderNext, Promise!Claim
  <1> QED
    BY <1>1, <1>2

LEMMA ReturningIsAllowed ==
  ASSUME QInv, NEW x \in Requests,
         \/ GiveBackRefused(x) \/ Release(x) \/ (x \in Approvals /\ Schedule(x))
  PROVE  [Promise!OrderNext]_(Promise!statusVars)
  <1>1. Holds(x) /\ req[x].pc # "fired" /\ started' = started /\ builds' = builds
    BY DEF GiveBackRefused, Release, Schedule, Holds
  <1>2. SomeHold /\ builds = 0 /\ \A y \in Requests : Holds(y) => y = x
    BY <1>1 DEF SomeHold, QInv, Claims
  <1>3. Shown' = "pending"
    BY DEF GiveBackRefused, Release, Schedule, QueueOf, Shown
  <1>4. \E pc \in {"idle", "done"} : Moved(x, pc)
    BY OverIsAtRest, GotoMoves DEF GiveBackRefused, Release, Schedule, ReqPc
  <1>5. ~Holds(x)' /\ \A y \in Requests \ {x} : Holds(y)' <=> Holds(y)
    BY <1>1, <1>4, OthersHold DEF Moved, Holds
  <1>6. SomeHold = TRUE /\ SomeHold' = FALSE
    BY <1>2, <1>5 DEF SomeHold
  <1> QED
    BY <1>1, <1>2, <1>3, <1>6 DEF SomeHold, Shown, Promise!OrderNext, Promise!GiveBack

LEMMA BuildingIsAllowed ==
  ASSUME QInv, NEW x \in Requests, Fire(x) \/ NothingStarts(x)
  PROVE  [Promise!OrderNext]_(Promise!statusVars)
  <1>1. req[x].pc = "build" /\ status' = status /\ Holds(x)
    BY DEF Fire, NothingStarts, orderVars, Holds
  <1>2. builds = 0
    BY <1>1 DEF QInv, Claims
  <1>3. Holds(x)'
    <2>1. CASE Fire(x)
      <3>1. Moved(x, "fired")
        BY <2>1, GotoMoves DEF Fire, ReqPc
      <3> QED
        BY <3>1 DEF Moved, Holds
    <2>2. CASE NothingStarts(x)
      <3>1. Moved(x, "check") /\ started' = FALSE
        BY <2>2, GotoMoves DEF NothingStarts, ReqPc
      <3> QED
        BY <3>1 DEF Moved, Holds
    <2> QED
      BY <2>1, <2>2
  <1>4. SomeHold = TRUE /\ SomeHold' = TRUE /\ Shown' = Shown
    BY <1>1, <1>3 DEF SomeHold, Shown
  <1>5. CASE Fire(x)
    <2>1. builds' = 1
      BY <1>2, <1>5 DEF Fire
    <2> QED
      BY <1>4, <2>1 DEF SomeHold, Shown, Promise!OrderNext, Promise!Fire
  <1>6. CASE NothingStarts(x)
    BY <1>4, <1>6, HiddenStutters DEF NothingStarts
  <1> QED
    BY <1>5, <1>6

LEMMA SurroundingsAreAllowed ==
  ASSUME QInv, (\E a \in Approvals : Reject(a)) \/ Report \/ Tick \/ EditGate \/ UNCHANGED vars
  PROVE  [Promise!OrderNext]_(Promise!statusVars)
  <1>1. CASE \E a \in Approvals : Reject(a)
    <2> PICK a \in Approvals : Reject(a)
      BY <1>1
    <2>1. a \in Requests /\ started' = started /\ status = "pending"
          /\ status' = "rejected" /\ builds' = builds
      BY DEF Requests, Reject
    <2>2. Moved(a, "done")
      BY <2>1, GotoMoves DEF Reject, ReqPc
    <2>3. ~SomeHold
      BY <2>1 DEF SomeHold, QInv, Claims
    <2>4. ~SomeHold'
      BY <2>1, <2>2, <2>3, OthersHold DEF SomeHold, Moved, Holds
    <2>5. SomeHold = FALSE /\ SomeHold' = FALSE /\ Shown = "pending" /\ Shown' = "rejected"
      BY <2>1, <2>3, <2>4 DEF Shown
    <2> QED
      BY <2>1, <2>5 DEF SomeHold, Shown, Promise!OrderNext, Promise!Reject
  <1>2. CASE Report
    <2>1. /\ UNCHANGED <<req, started, builds>>
          /\ status = "provisioning" /\ started
          /\ status' = "failed" \/ (status' = "completed" /\ ~SomeHold)
      BY <1>2 DEF Report, SomeHold
    <2>2. SomeHold' = SomeHold
      BY <2>1 DEF SomeHold, Holds
    <2>3. Shown = status /\ Shown' = status'
      BY <2>1 DEF Shown
    <2>4. CASE status' = "failed"
      BY <2>1, <2>2, <2>3, <2>4 DEF SomeHold, Shown, Promise!OrderNext, Promise!Fail
    <2>5. CASE status' = "completed" /\ ~SomeHold
      BY <2>1, <2>2, <2>3, <2>5
      DEF QInv, Claims, SomeHold, Shown, Promise!OrderNext, Promise!Complete
    <2> QED
      BY <2>1, <2>4, <2>5
  <1>3. CASE Tick \/ EditGate \/ UNCHANGED vars
    <2>1. UNCHANGED <<req, started, builds, status>>
      BY <1>3 DEF Tick, EditGate, vars, orderVars
    <2>2. SomeHold' <=> SomeHold
      BY <2>1 DEF SomeHold, Holds
    <2> QED
      BY <2>1, <2>2, HiddenStutters DEF Shown
  <1> QED
    BY <1>1, <1>2, <1>3

LEMMA StepsAreAllowed ==
  ASSUME QInv, [Next]_vars
  PROVE  [Promise!OrderNext]_(Promise!statusVars)
  <1>1. ASSUME NEW a \in Approvals, Approve(a) \/ ApprovalStep(a)
        PROVE  [Promise!OrderNext]_(Promise!statusVars)
    <2>1. a \in Requests
      BY DEF Requests
    <2> QED
      BY <1>1, <2>1, TakingIsAllowed, ReturningIsAllowed, QuietStepsAreAllowed
      DEF ApprovalStep
  <1>2. ASSUME NEW s \in Sweeps, List(s)
        PROVE  [Promise!OrderNext]_(Promise!statusVars)
    BY <1>2, QuietStepsAreAllowed DEF Requests
  <1>3. ASSUME NEW d \in Deploys, DeployNow(d)
        PROVE  [Promise!OrderNext]_(Promise!statusVars)
    BY <1>3, QuietStepsAreAllowed DEF Requests
  <1>4. ASSUME NEW x \in Requests,
               CommonStep(x) \/ Fire(x) \/ Crash(x) \/ QueryThrows(x)
        PROVE  [Promise!OrderNext]_(Promise!statusVars)
    BY <1>4, TakingIsAllowed, ReturningIsAllowed, BuildingIsAllowed, QuietStepsAreAllowed
    DEF CommonStep
  <1> QED
    BY <1>1, <1>2, <1>3, <1>4, SurroundingsAreAllowed DEF Next

(* The two queues, with everybody who takes an order out of them, keep the *)
(* promise of the order's status: one claim at a time, completed only once *)
(* nobody holds it, offered again only if nothing was started              *)
(* (approvals.ts, windowPolicy.ts).                                        *)
THEOREM QueuesKeepPromise == Spec => KeepsPromise
  BY InitQInv, NextQInv, StepsAreAllowed, PTL DEF Spec, KeepsPromise

=============================================================================
