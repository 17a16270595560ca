---------------------------- MODULE DriftProofs ----------------------------
(***************************************************************************)
(* Proofs about Drift: its types, and that whatever is sent again, sent    *)
(* late or sent side by side, elements show the newest report, keep their  *)
(* drift until a newer one clears it and keep the verdict of the newest.   *)
(***************************************************************************)
EXTENDS Drift, TLAPS

(* A request at work delivers a report that is there, and writes only what *)
(* the report is about; when it has judged, nothing is left to judge.      *)
Requesting ==
  \A d \in Deliveries :
    /\ req[d].pc # "idle" => req[d].at \in Times /\ sent[req[d].at] # Nothing
    /\ req[d].pc # "write" => req[d].todo = {}
    /\ req[d].pc \notin {"write", "judge"} => req[d].matched = {}
    /\ \A e \in req[d].todo : Results(req[d].at, e) # {}
    /\ \A e \in req[d].matched : req[d].at \leq row[e].at

(* What an element was offered was sent; and one that no teardown has ever *)
(* claimed is active since its first report.                               *)
Offered ==
  \A e \in Elements :
    /\ accepted[e] \subseteq offered[e]
    /\ \A t \in offered[e] : sent[t] # Nothing
    /\ row[e].at = 0 => row[e].outcome = "none"
    /\ row[e].at # 0 => row[e].at \in accepted[e]
    /\ row[e].policy \leq row[e].at
    /\ e \notin departed /\ row[e].at # 0 => status[e] = "active"

Conclusive(e) == {t \in accepted[e] : "drifted" \in Results(t, e) \/ Results(t, e) = {"clean"}}

(* The newest report that found drift, or nothing but clean, decides.      *)
DriftIsSettled ==
  \A e \in Elements :
    \E t \in Stamp :
      /\ IsNewest(t, Conclusive(e))
      /\ row[e].drift = IF t # 0 /\ "drifted" \in Results(t, e) THEN t ELSE 0

DInv ==
  /\ TypeOK
  /\ Requesting
  /\ Offered
  /\ ShowsTheNewest
  /\ DriftIsSettled
  /\ VerdictIsCurrent

LEMMA Records ==
  /\ Stamp \subseteq Nat /\ 0 \in Stamp /\ Times \subseteq Stamp
  /\ Unheard \in RowRecord /\ Unheard.at = 0 /\ Unheard.drift = 0 /\ Unheard.policy = 0
  /\ Unheard.outcome = "none"
  /\ Idle \in RequestRecord /\ Idle.pc = "idle" /\ Idle.todo = {} /\ Idle.matched = {}
  /\ NoObservation \in Observation
  /\ Nothing \in Content
  BY DEF Stamp, Times, Unheard, RowRecord, Idle, RequestRecord, NoObservation, Observation,
         Nothing, Content, Outcomes

LEMMA Zeros == \A m, n : m = 0 /\ n = 0 => m \leq n
  OBVIOUS

LEMMA InitDInv == Init => DInv
  <1> SUFFICES ASSUME Init PROVE DInv
    OBVIOUS
  <1>1. TypeOK
    <2>1. row \in [Elements -> RowRecord] /\ req \in [Deliveries -> RequestRecord]
      BY Records DEF Init
    <2>2. unclaimed \in [Keys -> Observation] /\ sent \in [Times -> Content]
      BY Records DEF Init
    <2>3. /\ offered \in [Elements -> SUBSET Times] /\ accepted \in [Elements -> SUBSET Times]
          /\ status \in [Elements -> {"none", "active", "leaving", "removed"}]
          /\ heard \in Stamp /\ crashes \in 0..MaxCrashes /\ departed \subseteq Elements
      BY Records, DriftAssumption DEF Init
    <2> QED
      BY <2>1, <2>2, <2>3 DEF TypeOK
  <1>2. Requesting
    BY Records DEF Init, Requesting
  <1>3. Offered
    <2>1. \A e \in Elements :
            /\ row[e].at = 0 /\ row[e].policy = 0 /\ row[e].outcome = "none"
            /\ offered[e] = {} /\ accepted[e] = {}
      BY Records DEF Init
    <2> QED
      BY <2>1, Zeros DEF Offered
  <1>4. ShowsTheNewest
    BY Records DEF Init, ShowsTheNewest, IsNewest
  <1>5. DriftIsSettled
    BY Records DEF Init, DriftIsSettled, IsNewest, Conclusive
  <1>6. VerdictIsCurrent
    BY Records, DriftAssumption DEF Init, VerdictIsCurrent
  <1> QED
    BY <1>1, <1>2, <1>3, <1>4, <1>5, <1>6 DEF DInv

(* The properties speak of row, sent, accepted, offered, departed, crashes *)
(* and of who has what matched: steps that leave those alone keep them.    *)
LEMMA Untouched ==
  ASSUME DInv, UNCHANGED <<row, sent, crashes, offered, accepted>>,
         departed \subseteq departed',
         \A d \in Deliveries, e \in Engines :
           e \in req[d].matched => e \in req'[d].matched /\ req'[d].at = req[d].at
  PROVE  ShowsTheNewest' /\ DriftIsSettled' /\ VerdictIsCurrent'
  <1>0. \A t, e : Results(t, e)' = Results(t, e)
    BY DEF Results, Reported
  <1>1. ShowsTheNewest'
    BY <1>0 DEF DInv, ShowsTheNewest
  <1>2. DriftIsSettled'
    <2>1. \A e \in Elements : Conclusive(e)' = Conclusive(e)
      BY <1>0 DEF Conclusive
    <2> QED
      BY <1>0, <2>1 DEF DInv, DriftIsSettled
  <1>3. VerdictIsCurrent'
    <2> SUFFICES ASSUME NEW e \in Engines \ departed', row'[e].policy # row'[e].at,
                        ~(crashes' > 0)
                 PROVE  \E d \in Deliveries : req'[d].at = row'[e].at /\ e \in req'[d].matched
      BY DEF VerdictIsCurrent
    <2>1. PICK d \in Deliveries : req[d].at = row[e].at /\ e \in req[d].matched
      BY DEF DInv, VerdictIsCurrent
    <2> QED
      BY <2>1
  <1> QED
    BY <1>1, <1>2, <1>3

(* A request moves on without writing an element.                          *)
LEMMA RequestKeeps ==
  ASSUME DInv, NEW d \in Deliveries,
         \/ ReadOwners(d) \/ AskPolicy(d) \/ RecordUnknown(d) \/ ForgetClaimed(d)
         \/ ForgetUnseen(d) \/ Conclude(d)
  PROVE  DInv'
  <1>0. /\ TypeOK /\ Requesting /\ Offered /\ req[d] \in RequestRecord
        /\ UNCHANGED <<status, row, sent, crashes, history>>
    BY DEF DInv, TypeOK, ReadOwners, AskPolicy, RecordUnknown, ForgetClaimed, ForgetUnseen,
           Conclude
  <1>1. /\ req' \in [Deliveries -> RequestRecord]
        /\ \A c \in Deliveries \ {d} : req'[c] = req[c]
        /\ req'[d].pc # "idle" => req'[d].at = req[d].at /\ req[d].pc # "idle"
        /\ req'[d].pc # "write" => req'[d].todo = {}
        /\ req'[d].pc \notin {"write", "judge"} => req'[d].matched = {}
        /\ \A e \in req'[d].todo : Results(req[d].at, e) # {}
        /\ req'[d].todo # {} => req'[d].at = req[d].at
        /\ req'[d].matched \subseteq req[d].matched
        /\ req[d].matched \cap Engines \subseteq req'[d].matched
        /\ req'[d].matched # {} => req'[d].at = req[d].at
    <2>1. CASE ReadOwners(d)
      <3> DEFINE keys    == Reported(req[d].at)
                 owners  == {e \in Elements : status[e] \in {"active", "leaving"}}
                 todo    == {e \in owners : status[e] = "active" /\ Owns[e] \cap keys # {}}
                 unknown == {k \in keys : \A e \in owners : k \notin Owns[e]}
      <3>1. req' = [req EXCEPT ![d].pc = "write", ![d].todo = todo, ![d].unknown = unknown,
                               ![d].upserts = unknown]
        BY <2>1 DEF ReadOwners
      <3>2. todo \in SUBSET Elements /\ unknown \in SUBSET Keys
        BY DEF Reported
      <3>3. \A e \in todo : Results(req[d].at, e) # {}
        BY DEF Results
      <3>4. req[d].pc = "owners" /\ req[d].matched = {}
        BY <2>1, <1>0 DEF ReadOwners, Requesting
      <3> HIDE DEF todo, unknown
      <3> QED
        BY <1>0, <3>1, <3>2, <3>3, <3>4 DEF TypeOK, RequestRecord
    <2>2. CASE AskPolicy(d)
      BY <2>2, <1>0 DEF AskPolicy, TypeOK, RequestRecord, Requesting
    <2>3. CASE RecordUnknown(d)
      <3>1. PICK k \in req[d].upserts : req' = [req EXCEPT ![d].upserts = @ \ {k}]
        BY <2>3 DEF RecordUnknown
      <3> QED
        BY <2>3, <3>1, <1>0 DEF RecordUnknown, TypeOK, RequestRecord, Requesting
    <2>4. CASE ForgetClaimed(d)
      BY <2>4, <1>0 DEF ForgetClaimed, Goto, TypeOK, RequestRecord, Requesting
    <2>5. CASE ForgetUnseen(d)
      BY <2>5, <1>0 DEF ForgetUnseen, Goto, TypeOK, RequestRecord, Requesting
    <2>6. CASE Conclude(d)
      BY <2>6, <1>0, Records DEF Conclude, TypeOK, Requesting
    <2> QED
      BY <2>1, <2>2, <2>3, <2>4, <2>5, <2>6
  <1>2. unclaimed' \in [Keys -> Observation]
    <2>1. CASE RecordUnknown(d)
      <3>1. PICK k \in req[d].upserts : unclaimed' = [unclaimed EXCEPT ![k] =
              [first |-> IF @ = NoObservation THEN req[d].at ELSE @.first,
               last |-> req[d].at, outcome |-> sent[req[d].at].of[k]]]
        BY <2>1 DEF RecordUnknown
      <3>2. k \in Keys /\ req[d].at \in Times /\ sent[req[d].at] \in Content
        BY <2>1, <1>0 DEF RecordUnknown, Requesting, RequestRecord, TypeOK
      <3>3. sent[req[d].at].of[k] \in Outcomes \cup {"none"}
        BY <3>2 DEF Content
      <3> QED
        BY <3>1, <3>2, <3>3, <1>0, Records DEF TypeOK, Observation
    <2>2. CASE unclaimed' = unclaimed
      BY <2>2, <1>0 DEF TypeOK
    <2>3. ASSUME NEW keys, Forget(keys) PROVE unclaimed' \in [Keys -> Observation]
      BY <2>3, <1>0, Records DEF Forget, TypeOK
    <2> QED
      BY <2>1, <2>2, <2>3 DEF ReadOwners, AskPolicy, ForgetClaimed, ForgetUnseen, Conclude
  <1>3. heard' \in Stamp
    BY <1>0 DEF TypeOK, ReadOwners, AskPolicy, RecordUnknown, ForgetClaimed, ForgetUnseen,
                Conclude, RequestRecord
  <1>4. TypeOK'
    BY <1>0, <1>1, <1>2, <1>3 DEF TypeOK, history
  <1>5. Requesting'
    <2>1. ASSUME NEW c \in Deliveries
          PROVE  /\ req'[c].pc # "idle" => req'[c].at \in Times /\ sent[req'[c].at] # Nothing
                 /\ req'[c].pc # "write" => req'[c].todo = {}
                 /\ req'[c].pc \notin {"write", "judge"} => req'[c].matched = {}
                 /\ \A e \in req'[c].todo : Results(req'[c].at, e) # {}
                 /\ \A e \in req'[c].matched : req'[c].at \leq row[e].at
      BY <1>0, <1>1 DEF Requesting
    <2> QED
      BY <2>1, <1>0 DEF Requesting, Results, Reported
  <1>6. Offered'
    BY <1>0 DEF Offered, history
  <1>7. ShowsTheNewest' /\ DriftIsSettled' /\ VerdictIsCurrent'
    <2>1. \A c \in Deliveries, e \in Engines :
            e \in req[c].matched => e \in req'[c].matched /\ req'[c].at = req[c].at
      BY <1>1
    <2> QED
      BY <2>1, <1>0, Untouched DEF history
  <1> QED
    BY <1>4, <1>5, <1>6, <1>7 DEF DInv

LEMMA CrashKeeps ==
  ASSUME DInv, NEW d \in Deliveries, Crash(d) PROVE DInv'
  <1>0. /\ TypeOK /\ Requesting /\ Offered /\ ShowsTheNewest /\ DriftIsSettled
        /\ UNCHANGED <<status, row, sent, offered, accepted, departed, unclaimed, heard>>
        /\ crashes' \in 0..MaxCrashes /\ crashes' > 0
    BY DriftAssumption DEF DInv, TypeOK, Crash, history
  <1>1. req' \in [Deliveries -> RequestRecord] /\ req'[d] = Idle
        /\ \A c \in Deliveries \ {d} : req'[c] = req[c]
    BY <1>0, Records DEF Crash, TypeOK
  <1>2. \A t, e : Results(t, e)' = Results(t, e)
    BY <1>0 DEF Results, Reported
  <1>3. TypeOK'
    BY <1>0, <1>1 DEF TypeOK
  <1>4. Requesting'
    <2>1. ASSUME NEW c \in Deliveries
          PROVE  /\ req'[c].pc # "idle" => req'[c].at \in Times /\ sent[req'[c].at] # Nothing
                 /\ req'[c].pc # "write" => req'[c].todo = {}
                 /\ req'[c].pc \notin {"write", "judge"} => req'[c].matched = {}
                 /\ \A e \in req'[c].todo : Results(req'[c].at, e) # {}
                 /\ \A e \in req'[c].matched : req'[c].at \leq row[e].at
      BY <1>0, <1>1, Records DEF Requesting
    <2> QED
      BY <2>1, <1>0 DEF Requesting, Results, Reported
  <1>5. Offered'
    BY <1>0 DEF Offered
  <1>6. ShowsTheNewest'
    BY <1>0, <1>2 DEF ShowsTheNewest
  <1>7. DriftIsSettled'
    <2>1. \A e \in Elements : Conclusive(e)' = Conclusive(e)
      BY <1>0, <1>2 DEF Conclusive
    <2> QED
      BY <1>0, <1>2, <2>1 DEF DriftIsSettled
  <1>8. VerdictIsCurrent'
    BY <1>0 DEF VerdictIsCurrent
  <1> QED
    BY <1>3, <1>4, <1>5, <1>6, <1>7, <1>8 DEF DInv

(* What arrives for the first time was not offered to anything before.     *)
LEMMA ReceiveKeeps ==
  ASSUME DInv, NEW d \in Deliveries, Receive(d) PROVE DInv'
  <1>0. /\ TypeOK /\ Requesting /\ Offered /\ ShowsTheNewest /\ DriftIsSettled
        /\ VerdictIsCurrent /\ req[d] \in RequestRecord
        /\ UNCHANGED <<status, row, unclaimed, heard, crashes, offered, accepted, departed>>
    BY DEF DInv, TypeOK, Receive, history
  <1>1. PICK t \in Times :
          /\ sent' \in IF sent[t] = Nothing THEN {[sent EXCEPT ![t] = c] : c \in Contents}
                                          ELSE {sent}
          /\ req' = [req EXCEPT ![d].pc = "owners", ![d].at = t]
    BY DEF Receive
  <1>2. /\ sent' \in [Times -> Content] /\ sent'[t] # Nothing
        /\ \A u \in Times : sent[u] # Nothing => sent'[u] = sent[u]
    <2>1. CASE sent[t] = Nothing
      <3>1. PICK c \in Contents : sent' = [sent EXCEPT ![t] = c]
        BY <2>1, <1>1
      <3>2. c \in Content /\ c # Nothing
        BY DriftAssumption
      <3> QED
        BY <3>1, <3>2, <2>1, <1>0 DEF TypeOK
    <2>2. CASE sent[t] # Nothing
      BY <2>2, <1>0, <1>1 DEF TypeOK
    <2> QED
      BY <2>1, <2>2
  <1>3. /\ req' \in [Deliveries -> RequestRecord]
        /\ req'[d].pc = "owners" /\ req'[d].at = t
        /\ req'[d].todo = {} /\ req'[d].matched = {}
        /\ \A c \in Deliveries \ {d} : req'[c] = req[c]
        /\ req[d].todo = {} /\ req[d].matched = {}
    <2>1. req[d].pc = "idle" /\ req[d].todo = {} /\ req[d].matched = {}
      BY <1>0 DEF Receive, Requesting
    <2> QED
      BY <2>1, <1>0, <1>1, Records DEF TypeOK, RequestRecord
  <1>4. \A u \in Times : \A e : sent[u] # Nothing => Results(u, e)' = Results(u, e)
    BY <1>2 DEF Results, Reported
  <1>5. TypeOK'
    BY <1>0, <1>2, <1>3 DEF TypeOK
  <1>6. Requesting'
    <2>1. ASSUME NEW c \in Deliveries
          PROVE  /\ req'[c].pc # "idle" => req'[c].at \in Times /\ sent'[req'[c].at] # Nothing
                 /\ req'[c].pc # "write" => req'[c].todo = {}
                 /\ req'[c].pc \notin {"write", "judge"} => req'[c].matched = {}
                 /\ \A e \in req'[c].matched : req'[c].at \leq row[e].at
      BY <1>0, <1>2, <1>3 DEF Requesting
    <2>2. ASSUME NEW c \in Deliveries, NEW e \in req'[c].todo
          PROVE  {sent'[req'[c].at].of[k] : k \in Owns[e] \cap
                    {k \in Keys : sent'[req'[c].at].of[k] # "none"}} # {}
      <3>1. c # d /\ req'[c] = req[c] /\ e \in req[c].todo
        BY <2>2, <1>3
      <3>2. req[c].at \in Times /\ sent[req[c].at] # Nothing /\ Results(req[c].at, e) # {}
        BY <3>1, <1>0 DEF Requesting
      <3>3. sent'[req[c].at] = sent[req[c].at]
        BY <3>2, <1>2
      <3> QED
        BY <3>1, <3>2, <3>3 DEF Results, Reported
    <2> QED
      BY <2>1, <2>2, <1>0 DEF Requesting, Results, Reported
  <1>7. Offered'
    BY <1>0, <1>2 DEF Offered, TypeOK
  <1>8. ASSUME NEW e \in Elements, NEW u \in accepted[e]
        PROVE  Results(u, e)' = Results(u, e)
    BY <1>0, <1>4, <1>8 DEF Offered, TypeOK
  <1>9. ShowsTheNewest'
    <2> SUFFICES ASSUME NEW e \in Elements
                 PROVE  /\ IsNewest(row[e].at, offered[e])
                        /\ row[e].outcome = "clean" => Results(row[e].at, e)' = {"clean"}
      BY <1>0 DEF ShowsTheNewest, IsNewest, Results, Reported
    <2>1. row[e].outcome = "clean" => row[e].at \in accepted[e]
      BY <1>0 DEF Offered
    <2> QED
      BY <2>1, <1>0, <1>8 DEF ShowsTheNewest
  <1>10. DriftIsSettled'
    <2> SUFFICES ASSUME NEW e \in Elements
                 PROVE  \E u \in Stamp :
                          /\ IsNewest(u, Conclusive(e)')
                          /\ row[e].drift = IF u # 0 /\ "drifted" \in Results(u, e)'
                                              THEN u ELSE 0
      BY <1>0 DEF DriftIsSettled, IsNewest, Conclusive, Results, Reported
    <2>1. Conclusive(e)' = Conclusive(e)
      BY <1>0, <1>8 DEF Conclusive
    <2>2. PICK u \in Stamp :
            /\ IsNewest(u, Conclusive(e))
            /\ row[e].drift = IF u # 0 /\ "drifted" \in Results(u, e) THEN u ELSE 0
      BY <1>0 DEF DriftIsSettled
    <2>3. u # 0 => u \in accepted[e]
      BY <2>2 DEF IsNewest, Conclusive
    <2> QED
      BY <2>1, <2>2, <2>3, <1>8
  <1>11. VerdictIsCurrent'
    <2> SUFFICES ASSUME NEW e \in Engines \ departed, row[e].policy # row[e].at,
                        ~(crashes > 0)
                 PROVE  \E c \in Deliveries : req'[c].at = row[e].at /\ e \in req'[c].matched
      BY <1>0 DEF VerdictIsCurrent
    <2>1. PICK c \in Deliveries : req[c].at = row[e].at /\ e \in req[c].matched
      BY <1>0 DEF VerdictIsCurrent
    <2> QED
      BY <2>1, <1>3
  <1> QED
    BY <1>5, <1>6, <1>7, <1>9, <1>10, <1>11 DEF DInv

(* The newest time of a set is a time, and 0 for none.                     *)
LEMMA Newest ==
  ASSUME NEW times \in SUBSET Times, NEW t \in Stamp, IsNewest(t, times), NEW u \in Times
  PROVE  /\ t < u => IsNewest(u, times \cup {u})
         /\ u \leq t => IsNewest(t, times \cup {u})
  BY Records DEF IsNewest, Times, Stamp

(* The one summary that says clean is of results that all do.              *)
LEMMA AggregateIsWorst ==
  ASSUME NEW results \in SUBSET Outcomes, results # {}
  PROVE  /\ Aggregate(results) \in Outcomes
         /\ Aggregate(results) = "clean" <=> results = {"clean"}
         /\ Aggregate(results) = "drifted" <=> "drifted" \in results
  <1>1. results = {"clean"} => Aggregate(results) = "clean"
    BY DEF Aggregate
  <1>2. Aggregate(results) = "clean" => results \subseteq {"clean"}
    BY DEF Aggregate, Outcomes
  <1> QED
    BY <1>1, <1>2 DEF Aggregate, Outcomes

LEMMA WriteElementKeeps ==
  ASSUME DInv, NEW d \in Deliveries, WriteElement(d) PROVE DInv'
  <1> DEFINE t == req[d].at
  <1>0. /\ TypeOK /\ Requesting /\ Offered /\ ShowsTheNewest /\ DriftIsSettled
        /\ VerdictIsCurrent /\ req[d] \in RequestRecord /\ req[d].pc = "write"
        /\ UNCHANGED <<status, unclaimed, heard, sent, crashes, departed>>
    BY DEF DInv, TypeOK, WriteElement
  <1>1. t \in Times /\ t \in Stamp /\ t # 0 /\ sent[t] # Nothing /\ sent[t] \in Content
    BY <1>0, Records DEF Requesting, TypeOK, Times
  <1>2. PICK e \in req[d].todo :
          IF status[e] = "active" /\ Newer(e, t)
            THEN /\ row' = [row EXCEPT ![e] = Refreshed(@, t, Aggregate(Results(t, e)))]
                 /\ req' = [req EXCEPT ![d].todo = @ \ {e}, ![d].matched = @ \cup {e}]
                 /\ offered' = [offered EXCEPT ![e] = @ \cup {t}]
                 /\ accepted' = [accepted EXCEPT ![e] = @ \cup {t}]
            ELSE /\ req' = [req EXCEPT ![d].todo = @ \ {e}]
                 /\ offered' = IF status[e] = "active"
                                 THEN [offered EXCEPT ![e] = @ \cup {t}] ELSE offered
                 /\ UNCHANGED <<row, accepted>>
    BY DEF WriteElement
  <1>3. e \in Elements /\ Results(t, e) # {} /\ Results(t, e) \in SUBSET Outcomes
    <2>1. e \in Elements /\ Results(t, e) # {}
      BY <1>0 DEF Requesting, RequestRecord
    <2> QED
      BY <2>1, <1>1 DEF Results, Reported, Content
  <1>4. /\ row[e] \in RowRecord /\ IsNewest(row[e].at, offered[e])
        /\ row[e].at \in Stamp /\ row[e].at \in Nat /\ t \in Nat
        /\ offered[e] \in SUBSET Times /\ accepted[e] \in SUBSET Times
    BY <1>0, <1>1, <1>3, Records DEF TypeOK, ShowsTheNewest, RowRecord
  <1>5. \A u, f : Results(u, f)' = Results(u, f)
    BY <1>0 DEF Results, Reported
  <1> HIDE DEF t
  <1>6. CASE ~(status[e] = "active" /\ Newer(e, t))
    <2>1. /\ req' \in [Deliveries -> RequestRecord]
          /\ \A c \in Deliveries : /\ req'[c].pc = req[c].pc /\ req'[c].at = req[c].at
                                   /\ req'[c].matched = req[c].matched
                                   /\ req'[c].todo \subseteq req[c].todo
          /\ UNCHANGED <<row, accepted>>
      <3>1. /\ req' = [req EXCEPT ![d].todo = @ \ {e}]
            /\ UNCHANGED <<row, accepted>>
        BY <1>2, <1>6
      <3> QED
        BY <3>1, <1>0 DEF TypeOK, RequestRecord
    <2>2. /\ offered' \in [Elements -> SUBSET Times]
          /\ \A f \in Elements \ {e} : offered'[f] = offered[f]
          /\ offered[e] \subseteq offered'[e] /\ offered'[e] \subseteq offered[e] \cup {t}
          /\ IsNewest(row[e].at, offered'[e])
      <3>1. CASE status[e] = "active"
        <4>1. t \leq row[e].at
          BY <3>1, <1>4, <1>6 DEF Newer
        <4>2. offered' = [offered EXCEPT ![e] = @ \cup {t}]
          BY <3>1, <1>2, <1>6
        <4> QED
          BY <4>1, <4>2, <1>0, <1>1, <1>3, <1>4, Newest DEF TypeOK
      <3>2. CASE status[e] # "active"
        BY <3>2, <1>0, <1>2, <1>4, <1>6 DEF TypeOK
      <3> QED
        BY <3>1, <3>2
    <2>3. TypeOK'
      BY <1>0, <2>1, <2>2 DEF TypeOK
    <2>4. Requesting'
      <3>1. ASSUME NEW c \in Deliveries
            PROVE  /\ req'[c].pc # "idle" => req'[c].at \in Times /\ sent[req'[c].at] # Nothing
                   /\ req'[c].pc # "write" => req'[c].todo = {}
                   /\ req'[c].pc \notin {"write", "judge"} => req'[c].matched = {}
                   /\ \A f \in req'[c].todo : Results(req'[c].at, f) # {}
                   /\ \A f \in req'[c].matched : req'[c].at \leq row'[f].at
        BY <1>0, <2>1 DEF Requesting
      <3> QED
        BY <3>1, <1>0 DEF Requesting, Results, Reported
    <2>5. Offered'
      BY <1>0, <1>1, <2>1, <2>2 DEF Offered
    <2>6. ShowsTheNewest'
      BY <1>0, <1>5, <2>1, <2>2 DEF ShowsTheNewest
    <2>7. DriftIsSettled'
      <3>1. \A f \in Elements : Conclusive(f)' = Conclusive(f)
        BY <2>1, <1>5 DEF Conclusive
      <3> QED
        BY <3>1, <2>1, <1>0, <1>5 DEF DriftIsSettled
    <2>8. VerdictIsCurrent'
      <3> SUFFICES ASSUME NEW f \in Engines \ departed, row[f].policy # row[f].at,
                          ~(crashes > 0)
                   PROVE  \E c \in Deliveries : req'[c].at = row[f].at /\ f \in req'[c].matched
        BY <1>0, <2>1 DEF VerdictIsCurrent
      <3>1. PICK c \in Deliveries : req[c].at = row[f].at /\ f \in req[c].matched
        BY <1>0 DEF VerdictIsCurrent
      <3> QED
        BY <3>1, <2>1
    <2> QED
      BY <2>3, <2>4, <2>5, <2>6, <2>7, <2>8 DEF DInv
  <1>7. CASE status[e] = "active" /\ Newer(e, t)
    <2> DEFINE outcome == Aggregate(Results(t, e))
    <2>0. /\ outcome \in Outcomes
          /\ outcome = "clean" <=> Results(t, e) = {"clean"}
          /\ outcome = "drifted" <=> "drifted" \in Results(t, e)
      BY <1>3, AggregateIsWorst
    <2>1. /\ row' = [row EXCEPT ![e] = Refreshed(@, t, outcome)]
          /\ req' = [req EXCEPT ![d].todo = @ \ {e}, ![d].matched = @ \cup {e}]
          /\ offered' = [offered EXCEPT ![e] = @ \cup {t}]
          /\ accepted' = [accepted EXCEPT ![e] = @ \cup {t}]
      BY <1>2, <1>7
    <2> HIDE DEF outcome
    <2>2. /\ row' \in [Elements -> RowRecord]
          /\ \A f \in Elements \ {e} : row'[f] = row[f]
          /\ row'[e].at = t /\ row'[e].outcome = outcome /\ row'[e].policy = row[e].policy
          /\ row'[e].drift = IF outcome = "drifted" THEN t
                             ELSE IF outcome = "clean" THEN 0 ELSE row[e].drift
          /\ row[e].at < t
      <3>1. Refreshed(row[e], t, outcome) \in RowRecord
        BY <2>0, <1>1, <1>4, Records DEF Refreshed, RowRecord
      <3>2. row'[e] = Refreshed(row[e], t, outcome)
        BY <2>1, <1>0, <1>3 DEF TypeOK
      <3> QED
        BY <3>1, <3>2, <2>1, <1>0, <1>3, <1>4, <1>7 DEF TypeOK, Refreshed, RowRecord, Newer
    <2>3. /\ req' \in [Deliveries -> RequestRecord]
          /\ \A c \in Deliveries :
               /\ req'[c].pc = req[c].pc /\ req'[c].at = req[c].at
               /\ req[c].matched \subseteq req'[c].matched
               /\ req'[c].todo \subseteq req[c].todo
          /\ \A c \in Deliveries \ {d} : req'[c] = req[c]
          /\ req'[d].matched = req[d].matched \cup {e}
      BY <1>0, <1>3, <2>1 DEF TypeOK, RequestRecord
    <2>4. /\ offered' \in [Elements -> SUBSET Times] /\ accepted' \in [Elements -> SUBSET Times]
          /\ \A f \in Elements \ {e} : offered'[f] = offered[f] /\ accepted'[f] = accepted[f]
          /\ offered'[e] = offered[e] \cup {t} /\ accepted'[e] = accepted[e] \cup {t}
      BY <1>0, <1>1, <1>3, <2>1 DEF TypeOK
    <2>5. TypeOK'
      BY <1>0, <2>2, <2>3, <2>4 DEF TypeOK
    <2>6. ASSUME NEW f \in Elements PROVE row[f].at \leq row'[f].at
      <3>1. CASE f = e
        BY <3>1, <2>2, <1>4
      <3>2. CASE f # e
        <4>1. row'[f] = row[f] /\ row[f].at \in Nat
          BY <3>2, <2>2, <1>0, Records DEF TypeOK, RowRecord
        <4> QED
          BY <4>1
      <3> QED
        BY <3>1, <3>2
    <2>7. Requesting'
      <3>1. ASSUME NEW c \in Deliveries
            PROVE  /\ req'[c].pc # "idle" => req'[c].at \in Times /\ sent[req'[c].at] # Nothing
                   /\ req'[c].pc # "write" => req'[c].todo = {}
                   /\ req'[c].pc \notin {"write", "judge"} => req'[c].matched = {}
                   /\ \A f \in req'[c].todo : Results(req'[c].at, f) # {}
        BY <1>0, <2>3 DEF Requesting
      <3>2. ASSUME NEW c \in Deliveries, NEW f \in req'[c].matched
            PROVE  req'[c].at \leq row'[f].at
        <4>1. CASE f \in req[c].matched
          <5>1. /\ f \in Elements /\ row[f].at \in Nat /\ row'[f].at \in Nat
                /\ req[c].at \in Nat /\ req[c].at \leq row[f].at
            BY <4>1, <1>0, <2>2, Records DEF TypeOK, RequestRecord, RowRecord, Requesting
          <5> QED
            BY <5>1, <2>3, <2>6
        <4>2. CASE f \notin req[c].matched
          <5>1. c = d /\ f = e
            BY <4>2, <3>2, <2>3
          <5> QED
            BY <5>1, <2>2, <2>3, <1>4 DEF t
        <4> QED
          BY <4>1, <4>2
      <3> QED
        BY <3>1, <3>2, <1>0 DEF Requesting, Results, Reported
    <2>8. Offered'
      <3>1. ASSUME NEW f \in Elements \ {e}
            PROVE  /\ accepted'[f] \subseteq offered'[f]
                   /\ \A u \in offered'[f] : sent[u] # Nothing
                   /\ row'[f].at = 0 => row'[f].outcome = "none"
                   /\ row'[f].at # 0 => row'[f].at \in accepted'[f]
                   /\ row'[f].policy \leq row'[f].at
                   /\ f \notin departed /\ row'[f].at # 0 => status[f] = "active"
        BY <1>0, <2>2, <2>4 DEF Offered
      <3>2. /\ accepted'[e] \subseteq offered'[e]
            /\ \A u \in offered'[e] : sent[u] # Nothing
            /\ row'[e].at # 0 /\ row'[e].at \in accepted'[e]
            /\ status[e] = "active"
        BY <1>0, <1>1, <1>3, <1>7, <2>2, <2>4 DEF Offered
      <3>3. row'[e].policy \leq row'[e].at
        <4>1. row[e].policy \in Nat /\ row[e].policy \leq row[e].at
          BY <1>0, <1>3, <1>4, Records DEF Offered, RowRecord
        <4> QED
          BY <4>1, <1>4, <2>2
      <3> QED
        BY <3>1, <3>2, <3>3, <1>0 DEF Offered
    <2>9. ShowsTheNewest'
      <3>1. ASSUME NEW f \in Elements \ {e}
            PROVE  /\ IsNewest(row'[f].at, offered'[f])
                   /\ row'[f].outcome = "clean" => Results(row'[f].at, f) = {"clean"}
        BY <1>0, <2>2, <2>4 DEF ShowsTheNewest
      <3>2. IsNewest(row'[e].at, offered'[e])
        BY <1>1, <1>4, <2>2, <2>4, Newest
      <3>3. row'[e].outcome = "clean" => Results(row'[e].at, e) = {"clean"}
        BY <2>0, <2>2
      <3>4. \A f \in Elements :
              /\ IsNewest(row'[f].at, offered'[f])
              /\ row'[f].outcome = "clean" => Results(row'[f].at, f) = {"clean"}
        BY <3>1, <3>2, <3>3
      <3> QED
        BY <3>4, <1>0 DEF ShowsTheNewest, IsNewest, Results, Reported
    <2>10. DriftIsSettled'
      <3> SUFFICES ASSUME NEW f \in Elements
                   PROVE  \E u \in Stamp :
                            /\ IsNewest(u, Conclusive(f)')
                            /\ row'[f].drift = IF u # 0 /\ "drifted" \in Results(u, f)
                                                 THEN u ELSE 0
        BY <1>5 DEF DriftIsSettled
      <3>1. PICK u \in Stamp :
              /\ IsNewest(u, Conclusive(f))
              /\ row[f].drift = IF u # 0 /\ "drifted" \in Results(u, f) THEN u ELSE 0
        BY <1>0 DEF DriftIsSettled
      <3>2. CASE f # e
        <4>1. Conclusive(f)' = Conclusive(f) /\ row'[f] = row[f]
          BY <3>2, <1>5, <2>2, <2>4 DEF Conclusive
        <4> QED
          BY <4>1, <3>1
      <3>3. CASE f = e /\ outcome \in {"clean", "drifted"}
        <4>1. Conclusive(e)' = Conclusive(e) \cup {t}
          BY <3>3, <1>5, <2>0, <2>4 DEF Conclusive
        <4>2. Conclusive(e) \in SUBSET Times /\ Conclusive(e) \subseteq offered[e]
          BY <1>0, <1>3, <1>4 DEF Conclusive, Offered
        <4>3. u < t
          <5>1. u = 0 \/ u \in offered[e]
            BY <4>2, <3>1, <3>3 DEF IsNewest
          <5>2. u \in offered[e] => u \leq row[e].at
            BY <1>4 DEF IsNewest, Times
          <5>3. u \in Nat /\ t > 0
            BY <1>1, <1>4, Records
          <5> QED
            BY <5>1, <5>2, <5>3, <1>4, <2>2
        <4>4. IsNewest(t, Conclusive(e)')
          BY <4>1, <4>2, <4>3, <3>1, <3>3, <1>1, Newest
        <4>5. row'[e].drift = IF t # 0 /\ "drifted" \in Results(t, e) THEN t ELSE 0
          BY <3>3, <2>0, <2>2, <1>1
        <4> QED
          BY <4>4, <4>5, <3>3, <1>1
      <3>4. CASE f = e /\ outcome \notin {"clean", "drifted"}
        <4>1. Conclusive(e)' = Conclusive(e)
          BY <3>4, <1>5, <2>0, <2>4 DEF Conclusive
        <4>2. row'[e].drift = row[e].drift
          BY <3>4, <2>2
        <4> QED
          BY <4>1, <4>2, <3>1, <3>4
      <3> QED
        BY <3>2, <3>3, <3>4
    <2>11. VerdictIsCurrent'
      <3> SUFFICES ASSUME NEW f \in Engines \ departed, row'[f].policy # row'[f].at,
                          ~(crashes > 0)
                   PROVE  \E c \in Deliveries : req'[c].at = row'[f].at /\ f \in req'[c].matched
        BY <1>0 DEF VerdictIsCurrent
      <3>1. CASE f = e
        BY <3>1, <2>2, <2>3 DEF t
      <3>2. CASE f # e
        <4>1. f \in Elements /\ row'[f] = row[f]
          BY <3>2, <2>2, DriftAssumption
        <4>2. PICK c \in Deliveries : req[c].at = row[f].at /\ f \in req[c].matched
          BY <4>1, <1>0 DEF VerdictIsCurrent
        <4> QED
          BY <4>1, <4>2, <2>3
      <3> QED
        BY <3>1, <3>2
    <2> QED
      BY <2>5, <2>7, <2>8, <2>9, <2>10, <2>11 DEF DInv
  <1> QED
    BY <1>6, <1>7

(* A verdict is about a refresh that was written, and only the newest one's *)
(* stays.                                                                  *)
LEMMA WriteVerdictKeeps ==
  ASSUME DInv, NEW d \in Deliveries, WriteVerdict(d) PROVE DInv'
  <1>0. /\ TypeOK /\ Requesting /\ Offered /\ ShowsTheNewest /\ DriftIsSettled
        /\ VerdictIsCurrent /\ req[d] \in RequestRecord /\ req[d].pc = "judge"
        /\ UNCHANGED <<status, unclaimed, heard, sent, crashes, offered, accepted, departed>>
    BY DEF DInv, TypeOK, WriteVerdict, history
  <1>1. PICK e \in req[d].matched :
          /\ row' = IF status[e] = "active" /\ NewVerdict(e, req[d].at)
                      THEN [row EXCEPT ![e].policy = req[d].at] ELSE row
          /\ req' = [req EXCEPT ![d].matched = @ \ {e}]
    BY DEF WriteVerdict
  <1>2. /\ e \in Elements /\ row[e] \in RowRecord /\ req[d].at \in Stamp
        /\ req[d].at \in Nat /\ row[e].at \in Nat /\ row[e].policy \in Nat
        /\ req[d].at \leq row[e].at
    BY <1>0, Records DEF TypeOK, RowRecord, RequestRecord, Requesting
  <1>3. /\ req' \in [Deliveries -> RequestRecord]
        /\ \A c \in Deliveries : /\ req'[c].pc = req[c].pc /\ req'[c].at = req[c].at
                                 /\ req'[c].todo = req[c].todo
                                 /\ req'[c].matched \subseteq req[c].matched
        /\ \A c \in Deliveries \ {d} : req'[c] = req[c]
        /\ req'[d].matched = req[d].matched \ {e}
    BY <1>0, <1>1 DEF TypeOK, RequestRecord
  <1>4. /\ row' \in [Elements -> RowRecord]
        /\ \A f \in Elements \ {e} : row'[f] = row[f]
        /\ \A f \in Elements : /\ row'[f].at = row[f].at /\ row'[f].drift = row[f].drift
                               /\ row'[f].outcome = row[f].outcome
        /\ row'[e].policy = IF status[e] = "active" /\ row[e].policy < req[d].at
                              THEN req[d].at ELSE row[e].policy
    <2>1. CASE status[e] = "active" /\ NewVerdict(e, req[d].at)
      <3>1. row' = [row EXCEPT ![e].policy = req[d].at]
        BY <2>1, <1>1
      <3> QED
        BY <3>1, <2>1, <1>0, <1>2 DEF TypeOK, RowRecord, NewVerdict
    <2>2. CASE ~(status[e] = "active" /\ NewVerdict(e, req[d].at))
      BY <2>2, <1>0, <1>1 DEF TypeOK, NewVerdict
    <2> QED
      BY <2>1, <2>2
  <1>5. TypeOK'
    BY <1>0, <1>3, <1>4 DEF TypeOK
  <1>6. Requesting'
    <2>1. ASSUME NEW c \in Deliveries
          PROVE  /\ req'[c].pc # "idle" => req'[c].at \in Times /\ sent[req'[c].at] # Nothing
                 /\ req'[c].pc # "write" => req'[c].todo = {}
                 /\ req'[c].pc \notin {"write", "judge"} => req'[c].matched = {}
                 /\ \A f \in req'[c].todo : Results(req'[c].at, f) # {}
      BY <1>0, <1>3 DEF Requesting
    <2>2. ASSUME NEW c \in Deliveries, NEW f \in req'[c].matched
          PROVE  req'[c].at \leq row'[f].at
      <3>1. f \in Elements /\ f \in req[c].matched
        BY <2>2, <1>0, <1>3 DEF TypeOK, RequestRecord
      <3> QED
        BY <3>1, <1>0, <1>3, <1>4 DEF Requesting
    <2> QED
      BY <2>1, <2>2, <1>0 DEF Requesting, Results, Reported
  <1>7. Offered'
    <2>1. ASSUME NEW f \in Elements PROVE row'[f].policy \leq row'[f].at
      <3>1. row[f].policy \leq row[f].at
        BY <1>0 DEF Offered
      <3> QED
        BY <3>1, <1>2, <1>4
    <2> QED
      BY <2>1, <1>0, <1>4 DEF Offered
  <1>8. ShowsTheNewest'
    <2>1. \A f \in Elements : /\ IsNewest(row'[f].at, offered[f])
                              /\ row'[f].outcome = "clean" => Results(row'[f].at, f) = {"clean"}
      BY <1>0, <1>4 DEF ShowsTheNewest
    <2> QED
      BY <2>1, <1>0 DEF ShowsTheNewest, IsNewest, Results, Reported
  <1>9. DriftIsSettled'
    <2>1. \A u, f : Results(u, f)' = Results(u, f)
      BY <1>0 DEF Results, Reported
    <2>2. \A f \in Elements : Conclusive(f)' = Conclusive(f)
      BY <1>0, <2>1 DEF Conclusive
    <2> QED
      BY <1>0, <1>4, <2>1, <2>2 DEF DriftIsSettled
  <1>10. VerdictIsCurrent'
    <2> SUFFICES ASSUME NEW f \in Engines \ departed, row'[f].policy # row'[f].at, ~(crashes > 0)
                 PROVE  \E c \in Deliveries : req'[c].at = row'[f].at /\ f \in req'[c].matched
      BY <1>0 DEF VerdictIsCurrent
    <2>0. f \in Elements
      BY DriftAssumption
    <2>1. row[f].policy # row[f].at
           => \E c \in Deliveries : req[c].at = row[f].at /\ f \in req[c].matched
      BY <1>0 DEF VerdictIsCurrent
    <2>2. CASE f # e
      BY <2>0, <2>1, <2>2, <1>3, <1>4
    <2>3. CASE f = e
      <3>1. row[e].at # 0 => status[e] = "active"
        BY <2>3, <1>0, <1>2 DEF Offered
      <3>2. row[e].policy \leq row[e].at
        BY <1>0, <1>2 DEF Offered
      <3>3. row'[e].at = row[e].at /\ row'[e].policy # row[e].at
        BY <2>3, <1>2, <1>4
      <3>4. req[d].at # row[e].at
        BY <3>1, <3>2, <3>3, <1>2, <1>4
      <3>5. row[e].policy # row[e].at
        BY <3>2, <3>3, <1>2, <1>4
      <3> QED
        BY <2>1, <2>3, <3>3, <3>4, <3>5, <1>3
    <2> QED
      BY <2>2, <2>3
  <1> QED
    BY <1>5, <1>6, <1>7, <1>8, <1>9, <1>10 DEF DInv

LEMMA ElementKeeps ==
  ASSUME DInv, NEW e \in Elements,
         Provision(e) \/ TearDown(e) \/ HandBack(e) \/ Remove(e)
  PROVE  DInv'
  <1>0. TypeOK /\ Requesting /\ Offered
    BY DEF DInv
  <1>1. PICK new \in {"active", "leaving", "removed"} : Becomes(e, new)
    BY DEF Provision, TearDown, HandBack, Remove
  <1>2. /\ status' = [status EXCEPT ![e] = new]
        /\ departed' = IF new = "active" THEN departed ELSE departed \cup {e}
        /\ UNCHANGED <<row, unclaimed, heard, sent, req, crashes, offered, accepted>>
    BY <1>1 DEF Becomes
  <1>3. TypeOK'
    BY <1>0, <1>2 DEF TypeOK
  <1>4. Requesting'
    BY <1>0, <1>2 DEF Requesting, Results, Reported
  <1>5. Offered'
    BY <1>0, <1>2 DEF Offered, TypeOK
  <1>6. ShowsTheNewest' /\ DriftIsSettled' /\ VerdictIsCurrent'
    BY <1>2, Untouched
  <1> QED
    BY <1>3, <1>4, <1>5, <1>6 DEF DInv

LEMMA NextDInv == DInv /\ [Next]_vars => DInv'
  <1> SUFFICES ASSUME DInv, [Next]_vars PROVE DInv'
    OBVIOUS
  <1>1. ASSUME NEW d \in Deliveries, Receive(d) PROVE DInv'
    BY <1>1, ReceiveKeeps
  <1>2. ASSUME NEW d \in Deliveries, WriteElement(d) PROVE DInv'
    BY <1>2, WriteElementKeeps
  <1>3. ASSUME NEW d \in Deliveries, WriteVerdict(d) PROVE DInv'
    BY <1>3, WriteVerdictKeeps
  <1>4. ASSUME NEW d \in Deliveries,
               \/ ReadOwners(d) \/ AskPolicy(d) \/ RecordUnknown(d) \/ ForgetClaimed(d)
               \/ ForgetUnseen(d) \/ Conclude(d)
        PROVE  DInv'
    BY <1>4, RequestKeeps
  <1>5. ASSUME NEW d \in Deliveries, Crash(d) PROVE DInv'
    BY <1>5, CrashKeeps
  <1>6. ASSUME NEW e \in Elements, Provision(e) \/ TearDown(e) \/ HandBack(e) \/ Remove(e)
        PROVE  DInv'
    BY <1>6, ElementKeeps
  <1>7. CASE UNCHANGED vars
    <2>1. /\ UNCHANGED <<status, row, unclaimed, heard, sent, req, crashes, offered, accepted>>
          /\ UNCHANGED departed
      BY <1>7 DEF vars, history
    <2>2. TypeOK' /\ Requesting' /\ Offered'
      BY <2>1 DEF DInv, TypeOK, Requesting, Offered, Results, Reported
    <2>3. ShowsTheNewest' /\ DriftIsSettled' /\ VerdictIsCurrent'
      BY <2>1, Untouched
    <2> QED
      BY <2>2, <2>3 DEF DInv
  <1> QED
    BY <1>1, <1>2, <1>3, <1>4, <1>5, <1>6, <1>7 DEF Next

LEMMA DInvAlways == Spec => []DInv
  BY InitDInv, NextDInv, PTL DEF Spec

-----------------------------------------------------------------------------
(* Every value a report or an element can have is one of the model's, for  *)
(* any number of elements, states, runs and requests.                      *)
THEOREM TypeCorrect == Spec => []TypeOK
  <1>1. DInv => TypeOK
    BY DEF DInv
  <1> QED
    BY <1>1, DInvAlways, PTL

(* recordDriftReport moves an element forward in time only, and calls it   *)
(* clean only if the report found nothing else in what it said of it.      *)
THEOREM NewestIsShown == Spec => []ShowsTheNewest
  <1>1. DInv => ShowsTheNewest
    BY DEF DInv
  <1> QED
    BY <1>1, DInvAlways, PTL

(* What decides an element's drift is newer than every report of drift; so *)
(* if it is none itself, it is newer than them and found nothing but clean.*)
LEMMA SettledIsRemembered ==
  ASSUME TypeOK, DriftIsSettled
  PROVE  DriftIsNotForgotten
  <1> SUFFICES ASSUME NEW e \in Elements
      PROVE
        /\ \A t \in Times : FoundDrift(e, t) =>
             row[e].drift \geq t \/ \E u \in accepted[e] : u > t /\ Results(u, e) = {"clean"}
        /\ row[e].drift # 0 =>
             /\ FoundDrift(e, row[e].drift)
             /\ \A u \in accepted[e] : u > row[e].drift =>
                  \E k \in Owns[e] : sent[u].of[k] # "clean"
    BY DEF DriftIsNotForgotten
  <1>1. PICK s \in Stamp : /\ IsNewest(s, Conclusive(e))
                           /\ row[e].drift = IF s # 0 /\ "drifted" \in Results(s, e) THEN s ELSE 0
    BY DEF DriftIsSettled
  <1>2. accepted[e] \subseteq Times /\ \A t \in Times : t \in Nat /\ t # 0
    BY DriftAssumption DEF TypeOK, Times
  <1>3. s \in Nat /\ 0 \in Nat
    BY <1>2 DEF Stamp
  <1>4. ASSUME NEW t \in Times, FoundDrift(e, t)
        PROVE  row[e].drift \geq t \/ \E u \in accepted[e] : u > t /\ Results(u, e) = {"clean"}
    <2>1. t \in Conclusive(e)
      BY <1>4 DEF FoundDrift, Conclusive
    <2>2. s \in Conclusive(e) /\ t \leq s
      BY <1>1, <2>1 DEF IsNewest
    <2>3. s \in accepted[e] /\ s # 0
      BY <1>2, <2>2 DEF Conclusive
    <2>4. CASE "drifted" \in Results(s, e)
      <3>1. row[e].drift = s
        BY <1>1, <2>3, <2>4
      <3> QED
        BY <1>2, <1>3, <2>2, <3>1
    <2>5. CASE "drifted" \notin Results(s, e)
      <3>1. Results(s, e) = {"clean"}
        BY <2>2, <2>5 DEF Conclusive
      <3>2. s # t
        BY <1>4, <2>5 DEF FoundDrift
      <3>3. s > t
        BY <1>2, <1>3, <2>2, <3>2
      <3> QED
        BY <2>3, <3>1, <3>3
    <2> QED
      BY <2>4, <2>5
  <1>5. ASSUME row[e].drift # 0
        PROVE  /\ FoundDrift(e, row[e].drift)
               /\ \A u \in accepted[e] : u > row[e].drift =>
                    \E k \in Owns[e] : sent[u].of[k] # "clean"
    <2>1. row[e].drift = s /\ s # 0 /\ "drifted" \in Results(s, e)
      BY <1>1, <1>5
    <2>2. s \in Conclusive(e) /\ \A u \in Conclusive(e) : u \leq s
      BY <1>1, <2>1 DEF IsNewest
    <2>3. FoundDrift(e, s)
      BY <2>1, <2>2 DEF FoundDrift, Conclusive
    <2>4. Owns[e] # {}
      BY <2>1 DEF Results
    <2>5. ASSUME NEW u \in accepted[e], u > s, \A k \in Owns[e] : sent[u].of[k] = "clean"
          PROVE  FALSE
      <3>1. Owns[e] \cap Reported(u) = Owns[e]
        BY <2>5, DriftAssumption DEF Reported
      <3>2. Results(u, e) = {"clean"}
        BY <2>4, <2>5, <3>1 DEF Results
      <3>3. u \in Conclusive(e)
        BY <3>2 DEF Conclusive
      <3> QED
        BY <1>2, <1>3, <2>2, <2>5, <3>3
    <2> QED
      BY <2>1, <2>3, <2>5
  <1> QED
    BY <1>4, <1>5

(* recordDriftReport keeps drift through failed and locked plans and late  *)
(* reports: only a newer report that found nothing but clean in what it    *)
(* said of the element clears it.  It may have said nothing of the state   *)
(* that drifted.                                                           *)
THEOREM DriftStays == Spec => []DriftIsNotForgotten
  <1>1. DInv => DriftIsNotForgotten
    BY SettledIsRemembered DEF DInv
  <1> QED
    BY <1>1, DInvAlways, PTL

(* evaluateElementPolicies leaves the verdict on the newest refresh, unless *)
(* the request that was to write it died.                                  *)
THEOREM VerdictsFollow == Spec => []VerdictIsCurrent
  <1>1. DInv => VerdictIsCurrent
    BY DEF DInv
  <1> QED
    BY <1>1, DInvAlways, PTL

=============================================================================
