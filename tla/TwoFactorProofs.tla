-------------------------- MODULE TwoFactorProofs --------------------------
(***************************************************************************)
(* Theorems about TwoFactor, for any number of requests, keys, recovery    *)
(* codes, attempts and secrets.                                            *)
(***************************************************************************)
EXTENDS TwoFactor, FiniteSetTheorems, TLAPS

(* What a request read fits its place, when m secrets have been minted and *)
(* the row is t: a code it was given is for a step, a secret that is to be *)
(* confirmed is one, and one it found expired is not on offer again.       *)
Fits(q, m, t) ==
  /\ q.pc \in {"use", "promote"} => q.step \in Steps
  /\ q.pc = "insert" => q.key \in Keys
  /\ q.pc \in {"promote", "expire"} => q.secret # 0
  /\ q.pc = "claim" /\ q.stage = "confirm" => q.secret # 0
  /\ q.secret \leq m
  /\ q.pc = "expire" /\ q.secret = t.pending => ~t.fresh

AtWork == \A r \in Requests : Fits(req[r], minted, totp)

(* No wrong code without an attempt charged.                               *)
Charges ==
  /\ totp.failed \leq MaxAttempts
  /\ guesses \leq MaxAttempts
  /\ totp.lock # "over" => guesses \leq totp.failed

(* The last step is at least that of every code accepted.                  *)
Used == replayed = {} /\ \A step \in accepted : step \leq totp.last

(* A secret on offer beside a confirmed one is newer, and was offered to a *)
(* request that had shown a factor.                                        *)
Offered ==
  /\ totp.secret \leq minted /\ totp.pending \leq minted
  /\ totp.pending # 0 => totp.pending # totp.secret
  /\ totp.pending # 0 /\ totp.secret # 0 => totp.pending \in proved

FInv == Typed /\ AtWork /\ Charges /\ Used /\ Offered

-----------------------------------------------------------------------------
(* Types of the records.                                                   *)
LEMMA Records ==
  /\ Idle \in RequestRecord
  /\ Idle.pc = "idle" /\ Idle.stage = "login" /\ Idle.secret = 0 /\ Idle.step = 0
  /\ ~Idle.shown /\ ~Idle.first
  BY DEF Idle, RequestRecord

LEMMA InitFInv == Init => FInv
  <1> SUFFICES ASSUME Init PROVE FInv
    OBVIOUS
  <1> USE TwoFactorAssumption DEF Init
  <1>1. totp \in TotpRecord
    BY DEF TotpRecord
  <1>2. req \in [Requests -> RequestRecord]
    BY Records
  <1>3. Typed
    BY <1>1, <1>2 DEF Typed, NoRequest
  <1>4. AtWork
    BY Records DEF AtWork, Fits
  <1> QED
    BY <1>3, <1>4 DEF FInv, Charges, Used, Offered

(* A step that moves one request keeps the others where they fit.          *)
LEMMA Moves ==
  ASSUME FInv, NEW r \in Requests, NEW q \in RequestRecord,
         req' = [req EXCEPT ![r] = q],
         Fits(q, minted', totp'),
         \A p \in RequestRecord : Fits(p, minted, totp) => Fits(p, minted', totp')
  PROVE  req' \in [Requests -> RequestRecord] /\ AtWork'
  <1>1. req \in [Requests -> RequestRecord] /\ \A p \in Requests : Fits(req[p], minted, totp)
    BY DEF FInv, Typed, AtWork
  <1>2. req' \in [Requests -> RequestRecord]
    BY <1>1
  <1>3. ASSUME NEW p \in Requests PROVE Fits(req'[p], minted', totp')
    <2>1. CASE p = r
      BY <2>1, <1>1
    <2>2. CASE p # r
      <3>1. req'[p] = req[p] /\ req[p] \in RequestRecord
        BY <2>2, <1>1
      <3> QED
        BY <3>1, <1>1
    <2> QED
      BY <2>1, <2>2
  <1> QED
    BY <1>2, <1>3 DEF AtWork

(* A request that is done fits, whatever the row.                          *)
LEMMA IdleFits == ASSUME NEW t, NEW m \in Nat PROVE Fits(Idle, m, t)
  BY Records DEF Fits

(* Steps that leave the row of the authenticator as it is.                 *)
LEMMA QuietMoves ==
  ASSUME FInv, NEW r \in Requests, NEW q \in RequestRecord,
         req' = [req EXCEPT ![r] = q], Fits(q, minted, totp),
         UNCHANGED <<totp, now, minted, record>>,
         codes' \subseteq RecoveryCode, keys' \subseteq Keys,
         challenge' \in Requests \cup {NoRequest}
  PROVE  FInv'
  <1>1. req' \in [Requests -> RequestRecord] /\ AtWork'
    BY Moves
  <1> QED
    BY <1>1 DEF FInv, Typed, Charges, Used, Offered, record

-----------------------------------------------------------------------------
(* The steps, by what they change.                                         *)

(* Requests that read, or whose update is of keys and recovery codes only. *)
LEMMA QuietSteps ==
  ASSUME FInv, NEW r \in Requests,
         \/ BeginVerify(r) \/ SpendCode(r) \/ BeginEnroll(r) \/ BeginConfirm(r)
         \/ StartRegistration(r) \/ FinishRegistration(r) \/ InsertKey(r)
         \/ BeginRemove(r) \/ RemoveKey(r)
  PROVE  FInv'
  <1>0. /\ Typed /\ req[r] \in RequestRecord /\ Fits(req[r], minted, totp)
        /\ minted \in Nat /\ totp \in TotpRecord
        /\ totp.secret \leq minted /\ totp.pending \leq minted
    BY TwoFactorAssumption DEF FInv, Typed, AtWork, Offered
  <1>i. Idle \in RequestRecord /\ Fits(Idle, minted, totp)
    BY <1>0, Records, IdleFits
  <1>1. CASE BeginVerify(r)
    <2>1. PICK stage \in {"login", "reenroll"} :
            req' = [req EXCEPT ![r] = [Idle EXCEPT !.pc = "claim", !.stage = stage,
                                              !.secret = totp.secret, !.seen = totp.lock]]
      BY <1>1 DEF BeginVerify
    <2> DEFINE q == [Idle EXCEPT !.pc = "claim", !.stage = stage,
                                 !.secret = totp.secret, !.seen = totp.lock]
    <2>2. q \in RequestRecord /\ Fits(q, minted, totp)
      BY <1>0 DEF RequestRecord, TotpRecord, Fits, Idle
    <2> HIDE DEF q
    <2> QED
      BY <2>1, <2>2, <1>1, <1>0, QuietMoves DEF BeginVerify, Typed, q
  <1>2. CASE SpendCode(r)
    <2> DEFINE q == [req[r] EXCEPT !.pc = "clear", !.code = NoKey]
    <2>1. q \in RequestRecord /\ Fits(q, minted, totp)
      BY <1>0 DEF RequestRecord, Fits
    <2>2. req' = [req EXCEPT ![r] = q] \/ req' = [req EXCEPT ![r] = Idle]
      BY <1>2, <1>0 DEF SpendCode, Done, Typed
    <2>3. UNCHANGED <<totp, keys, challenge, now, minted, record>> /\ codes' \subseteq codes
      BY <1>2 DEF SpendCode
    <2>4. codes' \subseteq RecoveryCode /\ keys' \subseteq Keys /\ challenge' \in Requests \cup {NoRequest}
      BY <2>3, <1>0 DEF Typed
    <2> HIDE DEF q
    <2>5. CASE req' = [req EXCEPT ![r] = q]
      BY <2>1, <2>3, <2>4, <2>5, QuietMoves
    <2>6. CASE req' = [req EXCEPT ![r] = Idle]
      BY <1>i, <2>3, <2>4, <2>6, QuietMoves
    <2> QED
      BY <2>2, <2>5, <2>6
  <1>3. CASE BeginEnroll(r)
    <2> DEFINE q == [Idle EXCEPT !.pc = "write"]
    <2>1. q \in RequestRecord /\ Fits(q, minted, totp)
      BY <1>0, Records DEF RequestRecord, Fits
    <2> HIDE DEF q
    <2> QED
      BY <2>1, <1>3, <1>0, QuietMoves DEF BeginEnroll, Typed, q
  <1>4. CASE BeginConfirm(r)
    <2> DEFINE q == [Idle EXCEPT !.pc = IF totp.fresh THEN "claim" ELSE "expire",
                                 !.stage = "confirm",
                                 !.secret = totp.pending, !.seen = totp.lock]
    <2>1. q \in RequestRecord
      BY <1>0 DEF RequestRecord, TotpRecord, Idle
    <2>2. /\ q.pc = IF totp.fresh THEN "claim" ELSE "expire"
          /\ q.secret = totp.pending /\ totp.pending # 0
      BY <1>4, Records DEF BeginConfirm, RequestRecord
    <2>3. Fits(q, minted, totp)
      BY <2>2, <1>0 DEF Fits
    <2> HIDE DEF q
    <2> QED
      BY <2>1, <2>3, <1>4, <1>0, QuietMoves DEF BeginConfirm, Typed, q
  <1>5. CASE StartRegistration(r)
    <2> DEFINE q == [Idle EXCEPT !.pc = "ceremony"]
    <2>1. q \in RequestRecord /\ Fits(q, minted, totp)
      BY <1>0, Records DEF RequestRecord, Fits
    <2> HIDE DEF q
    <2> QED
      BY <2>1, <1>5, <1>0, QuietMoves DEF StartRegistration, Typed, q
  <1>6. CASE FinishRegistration(r)
    <2>1. /\ UNCHANGED <<totp, codes, keys, now, minted, record>>
          /\ challenge' \in Requests \cup {NoRequest}
      BY <1>6, <1>0 DEF FinishRegistration, Typed
    <2>2. CASE req' = [req EXCEPT ![r] = Idle]
      BY <2>1, <2>2, <1>0, <1>i, QuietMoves DEF Typed
    <2>3. CASE req' # [req EXCEPT ![r] = Idle]
      <3>1. PICK key \in Keys :
              req' = [req EXCEPT ![r].pc = "insert", ![r].key = key,
                                 ![r].first = IsFirstFactor]
        BY <2>3, <1>6 DEF FinishRegistration, Done
      <3> DEFINE q == [req[r] EXCEPT !.pc = "insert", !.key = key, !.first = IsFirstFactor]
      <3>2. q \in RequestRecord /\ Fits(q, minted, totp)
        BY <1>0 DEF RequestRecord, Fits, IsFirstFactor
      <3>3. req' = [req EXCEPT ![r] = q]
        BY <3>1, <1>0 DEF Typed
      <3> HIDE DEF q
      <3> QED
        BY <3>2, <3>3, <2>1, <1>0, QuietMoves DEF Typed
    <2> QED
      BY <2>2, <2>3
  <1>7. CASE InsertKey(r)
    <2>1. /\ UNCHANGED <<totp, challenge, now, minted, record>>
          /\ req' = [req EXCEPT ![r] = Idle]
          /\ keys' \subseteq Keys
      BY <1>7, <1>0 DEF InsertKey, Done, Typed, Fits
    <2>2. codes' \subseteq RecoveryCode
      BY <1>7, <1>0 DEF InsertKey, Issued, RecoveryCode, Typed, Fits
    <2> QED
      BY <2>1, <2>2, <1>0, <1>i, QuietMoves DEF Typed
  <1>8. CASE BeginRemove(r)
    <2>1. PICK key \in keys :
            req' = [req EXCEPT ![r] = [Idle EXCEPT !.pc = "remove", !.key = key]]
      BY <1>8 DEF BeginRemove
    <2> DEFINE q == [Idle EXCEPT !.pc = "remove", !.key = key]
    <2>2. q \in RequestRecord /\ Fits(q, minted, totp)
      <3>1. key \in Keys
        BY <1>0 DEF Typed
      <3>2. q \in RequestRecord
        BY <3>1 DEF RequestRecord, Idle
      <3>3. Fits(q, minted, totp)
        BY <1>0 DEF Idle, Fits
      <3> QED
        BY <3>2, <3>3
    <2> HIDE DEF q
    <2> QED
      BY <2>1, <2>2, <1>8, <1>0, QuietMoves DEF BeginRemove, Typed, q
  <1>9. CASE RemoveKey(r)
    <2>1. /\ UNCHANGED <<totp, now, minted, record>>
          /\ req' = [req EXCEPT ![r] = Idle]
          /\ codes' \subseteq RecoveryCode /\ keys' \subseteq Keys
          /\ challenge' \in Requests \cup {NoRequest}
      BY <1>9, <1>0 DEF RemoveKey, Done, Typed
    <2> QED
      BY <2>1, <1>i, QuietMoves
  <1> QED
    BY <1>1, <1>2, <1>3, <1>4, <1>5, <1>6, <1>7, <1>8, <1>9

(* claimAttempt charges before a code is looked at.                        *)
LEMMA ClaimKeeps ==
  ASSUME FInv, NEW r \in Requests, Claim(r)
  PROVE  FInv'
  <1>0. /\ Typed /\ req[r] \in RequestRecord /\ Fits(req[r], minted, totp)
        /\ minted \in Nat /\ totp \in TotpRecord /\ guesses \in Nat
        /\ MaxAttempts \in Nat \ {0}
        /\ totp.failed \in Nat /\ totp.lock \in {"open", "locked", "over"}
        /\ totp.failed \geq MaxAttempts <=> totp.lock # "open"
        /\ Charges
        /\ UNCHANGED <<codes, keys, challenge, now, minted, accepted, replayed, proved>>
    <2>1. /\ Typed /\ AtWork /\ Charges /\ MaxAttempts \in Nat \ {0}
          /\ UNCHANGED <<codes, keys, challenge, now, minted, accepted, replayed, proved>>
      BY TwoFactorAssumption DEF FInv, Claim
    <2> QED
      BY <2>1, TwoFactorAssumption DEF Typed, AtWork, TotpRecord
  <1>i. Idle \in RequestRecord /\ \A t : Fits(Idle, minted, t)
    BY <1>0, Records, IdleFits
  <1>1. CASE ~Open(r)
    <2>1. req' = [req EXCEPT ![r] = Idle] /\ UNCHANGED <<totp, guesses>>
      BY <1>1 DEF Claim, Done
    <2> QED
      BY <2>1, <1>0, <1>i, QuietMoves DEF Typed, record
  <1>2. CASE Open(r)
    <2> DEFINE count == IF totp.lock = "over" THEN 1 ELSE totp.failed + 1
               lock  == IF count \geq MaxAttempts THEN "locked" ELSE "open"
    <2>a. totp' = [totp EXCEPT !.failed = count, !.lock = lock]
      BY <1>2 DEF Claim, Charged
    <2>b. count \in Nat /\ lock \in {"open", "locked", "over"}
      BY <1>0
    <2> HIDE DEF count, lock
    <2>1. /\ totp' \in TotpRecord
          /\ totp'.secret = totp.secret /\ totp'.pending = totp.pending
          /\ totp'.fresh = totp.fresh /\ totp'.last = totp.last
          /\ totp'.failed = count /\ totp'.lock = lock
      BY <2>a, <2>b, <1>0 DEF TotpRecord
    <2>2. /\ totp'.failed = IF totp.lock = "over" THEN 1 ELSE totp.failed + 1
          /\ totp'.lock = IF totp'.failed \geq MaxAttempts THEN "locked" ELSE "open"
      BY <2>1 DEF count, lock
    <2>3. guesses' \in {IF totp.lock = "over" THEN 0 ELSE guesses,
                        (IF totp.lock = "over" THEN 0 ELSE guesses) + 1}
      BY <1>2 DEF Claim, Guessed, Right
    <2>4. Charges' /\ guesses' \in Nat /\ (totp'.failed \geq MaxAttempts <=> totp'.lock # "open")
      BY <2>2, <2>3, <1>0, <1>2 DEF Charges, Open
    <2>5. \E q \in RequestRecord : req' = [req EXCEPT ![r] = q] /\ Fits(q, minted, totp)
      <3>1. CASE Guessed(r)
        BY <3>1, <1>i DEF Guessed, Done
      <3>2. CASE \E step \in Steps :
                   req' = [req EXCEPT ![r].step = step, ![r].seen = "open",
                            ![r].pc = IF req[r].stage = "confirm" THEN "promote" ELSE "use"]
        <4>1. PICK step \in Steps :
                req' = [req EXCEPT ![r].step = step, ![r].seen = "open",
                            ![r].pc = IF req[r].stage = "confirm" THEN "promote" ELSE "use"]
          BY <3>2
        <4> DEFINE q == [req[r] EXCEPT !.step = step, !.seen = "open",
                            !.pc = IF req[r].stage = "confirm" THEN "promote" ELSE "use"]
        <4>2. req' = [req EXCEPT ![r] = q]
          BY <4>1, <1>0 DEF Typed
        <4>3. req[r].pc = "claim"
          BY DEF Claim
        <4>4. q \in RequestRecord /\ Fits(q, minted, totp)
          BY <4>3, <1>0 DEF RequestRecord, Fits
        <4> HIDE DEF q
        <4> QED
          BY <4>2, <4>4
      <3>3. CASE \E code \in codes :
                   req' = [req EXCEPT ![r].pc = "spend", ![r].seen = "open",
                                      ![r].secret = 0, ![r].code = code]
        <4>1. PICK code \in RecoveryCode :
                req' = [req EXCEPT ![r].pc = "spend", ![r].seen = "open",
                                   ![r].secret = 0, ![r].code = code]
          BY <3>3, <1>0 DEF Typed
        <4> DEFINE q == [req[r] EXCEPT !.pc = "spend", !.seen = "open",
                                       !.secret = 0, !.code = code]
        <4>2. req' = [req EXCEPT ![r] = q]
          BY <4>1, <1>0 DEF Typed
        <4>3. q \in RequestRecord
          BY <1>0 DEF RequestRecord
        <4>4. Fits(q, minted, totp)
          BY <1>0 DEF RequestRecord, Fits
        <4> HIDE DEF q
        <4> QED
          BY <4>2, <4>3, <4>4
      <3> QED
        BY <1>2, <3>1, <3>2, <3>3 DEF Claim
    <2>6. PICK q \in RequestRecord : req' = [req EXCEPT ![r] = q] /\ Fits(q, minted, totp)
      BY <2>5
    <2>7. \A p \in RequestRecord : Fits(p, minted, totp) => Fits(p, minted', totp')
      BY <2>1, <1>0 DEF Fits
    <2>8. req' \in [Requests -> RequestRecord] /\ AtWork'
      BY <2>6, <2>7, Moves
    <2> QED
      BY <2>1, <2>4, <2>8, <1>0 DEF FInv, Typed, Used, Offered
  <1> QED
    BY <1>1, <1>2

(* What a request becomes that has shown a factor.                         *)
LEMMA ShownFits ==
  ASSUME Typed, NEW r \in Requests, Shown(r)
  PROVE  \E q \in RequestRecord :
           req' = [req EXCEPT ![r] = q] /\ \A t : \A m \in Nat : Fits(q, m, t)
  <1> DEFINE q == [Idle EXCEPT !.pc = "write", !.shown = TRUE]
  <1>1. q \in RequestRecord
    BY DEF Idle, RequestRecord
  <1>a. \A t : \A m \in Nat : Fits(q, m, t)
    BY DEF Idle, Fits
  <1>2. Idle \in RequestRecord /\ \A t : \A m \in Nat : Fits(Idle, m, t)
    BY Records, IdleFits
  <1> QED
    BY <1>1, <1>a, <1>2 DEF Shown, Done

(* A step accepted is newer than every one before, so none is replayed.    *)
LEMMA ResetKeeps ==
  ASSUME FInv, NEW r \in Requests, UseCode(r) \/ ClearFailures(r)
  PROVE  FInv'
  <1>0. /\ Typed /\ req[r] \in RequestRecord /\ Fits(req[r], minted, totp)
        /\ minted \in Nat /\ totp \in TotpRecord /\ MaxAttempts \in Nat \ {0}
        /\ Charges /\ Used
        /\ UNCHANGED <<codes, keys, challenge, now, minted, proved>>
    BY TwoFactorAssumption DEF FInv, Typed, AtWork, UseCode, ClearFailures
  <1>1. CASE UseCode(r) /\ ~NewStep(r)
    <2>1. /\ req' = [req EXCEPT ![r] = Idle] /\ UNCHANGED <<totp, record>>
      BY <1>1 DEF UseCode, Done, record
    <2> QED
      BY <2>1, <1>0, Records, IdleFits, QuietMoves DEF Typed
  <1>2. CASE (UseCode(r) /\ NewStep(r)) \/ ClearFailures(r)
    <2>1. Shown(r) /\ guesses' = 0
      BY <1>2 DEF UseCode, ClearFailures
    <2>2. PICK q \in RequestRecord :
            req' = [req EXCEPT ![r] = q] /\ \A t : \A m \in Nat : Fits(q, m, t)
      BY <2>1, <1>0, ShownFits
    <2>3. /\ totp' \in TotpRecord
          /\ totp'.secret = totp.secret /\ totp'.pending = totp.pending
          /\ totp'.fresh = totp.fresh
          /\ totp'.failed = 0 /\ totp'.lock = "open"
      <3>1. CASE UseCode(r) /\ NewStep(r)
        <4>1. totp' = [Reset(totp) EXCEPT !.last = req[r].step] /\ req[r].step \in Steps
          BY <3>1, <1>0 DEF UseCode, Fits
        <4> QED
          BY <4>1, <1>0 DEF Reset, TotpRecord
      <3>2. CASE ClearFailures(r)
        BY <3>2, <1>0 DEF ClearFailures, Reset, TotpRecord
      <3> QED
        BY <1>2, <3>1, <3>2
    <2>4. accepted' \subseteq Steps /\ Used'
      <3>1. CASE UseCode(r) /\ NewStep(r)
        <4>1. totp'.last = req[r].step /\ totp.last < req[r].step /\ req[r].step \in Steps
          BY <3>1, <1>0 DEF UseCode, NewStep, Reset, TotpRecord, Fits
        <4>2. /\ totp.last \in Nat /\ req[r].step \in Nat /\ accepted \subseteq Nat
              /\ accepted \subseteq Steps
          BY <4>1, <1>0 DEF Typed, TotpRecord, Steps
        <4>3. /\ accepted' \in {accepted, accepted \cup {req[r].step}}
              /\ replayed' \in {replayed, replayed \cup (accepted \cap {req[r].step})}
          BY <3>1 DEF UseCode, Accept
        <4>4. req[r].step \notin accepted
          BY <4>1, <4>2, <1>0 DEF Used
        <4> QED
          BY <4>1, <4>2, <4>3, <4>4, <1>0 DEF Used
      <3>2. CASE ClearFailures(r)
        BY <3>2, <1>0 DEF ClearFailures, Reset, TotpRecord, Used, Typed
      <3> QED
        BY <1>2, <3>1, <3>2
    <2>5. \A p \in RequestRecord : Fits(p, minted, totp) => Fits(p, minted', totp')
      BY <2>3, <1>0 DEF Fits
    <2>6. req' \in [Requests -> RequestRecord] /\ AtWork'
      BY <2>2, <2>5, <1>0, Moves
    <2> QED
      BY <2>1, <2>3, <2>4, <2>6, <1>0 DEF FInv, Typed, Charges, Used, Offered
  <1> QED
    BY <1>1, <1>2

(* A secret is minted newer than any.                                      *)
LEMMA OfferKeeps ==
  ASSUME FInv, NEW r \in Requests, WriteOffer(r)
  PROVE  FInv'
  <1>0. /\ Typed /\ minted \in 0..MaxSecrets /\ MaxSecrets \in Nat /\ totp \in TotpRecord
        /\ Charges /\ Used /\ Offered
        /\ req' = [req EXCEPT ![r] = Idle]
        /\ UNCHANGED <<codes, keys, challenge, now, guesses, accepted, replayed>>
    BY TwoFactorAssumption DEF FInv, Typed, WriteOffer, Done
  <1>1. CASE MayWrite(r) /\ minted < MaxSecrets
    <2>1. /\ minted' = minted + 1
          /\ totp' = [totp EXCEPT !.pending = minted', !.fresh = TRUE]
          /\ proved' = IF req[r].shown THEN proved \cup {minted'} ELSE proved
      BY <1>1 DEF WriteOffer
    <2>2. minted' \in 0..MaxSecrets /\ minted' \in Secrets /\ minted' > minted
      BY <2>1, <1>0, <1>1 DEF Secrets
    <2>3. /\ totp' \in TotpRecord
          /\ totp'.secret = totp.secret /\ totp'.pending = minted'
          /\ totp'.failed = totp.failed /\ totp'.lock = totp.lock /\ totp'.last = totp.last
      BY <2>1, <2>2, <1>0 DEF TotpRecord
    <2>4. \A p \in RequestRecord : Fits(p, minted, totp) => Fits(p, minted', totp')
      <3>1. \A p \in RequestRecord : p.secret \in Nat
        BY DEF RequestRecord, Secrets
      <3> QED
        BY <3>1, <2>2, <2>3, <1>0 DEF Fits
    <2>5. req' \in [Requests -> RequestRecord] /\ AtWork'
      <3>1. minted' \in Nat
        BY <2>2, <1>0
      <3>2. Fits(Idle, minted', totp') /\ Idle \in RequestRecord
        BY <3>1, Records, IdleFits
      <3> QED
        BY <3>2, <2>4, <1>0, Moves
    <2>6. Offered'
      <3>1. req[r].shown \/ totp.secret = 0
        BY <1>1 DEF MayWrite
      <3>2. totp.secret \in Nat
        BY <1>0 DEF TotpRecord, Secrets
      <3> QED
        BY <3>1, <3>2, <2>1, <2>2, <2>3, <1>0 DEF Offered
    <2> QED
      BY <2>1, <2>2, <2>3, <2>5, <2>6, <1>0 DEF FInv, Typed, Charges, Used
  <1>2. CASE ~(MayWrite(r) /\ minted < MaxSecrets)
    <2>1. UNCHANGED <<minted, totp, proved>>
      BY <1>2 DEF WriteOffer
    <2>2. minted \in Nat
      BY <1>0
    <2> QED
      BY <2>1, <2>2, <1>0, Records, IdleFits, QuietMoves DEF Typed, record
  <1> QED
    BY <1>1, <1>2

(* The secret that is promoted is the one on offer.                        *)
LEMMA PromoteKeeps ==
  ASSUME FInv, NEW r \in Requests, Promote(r)
  PROVE  FInv'
  <1>0. /\ Typed /\ req[r] \in RequestRecord /\ minted \in Nat /\ totp \in TotpRecord
        /\ Charges /\ Used /\ Offered /\ MaxAttempts \in Nat \ {0}
        /\ req' = [req EXCEPT ![r] = Idle]
        /\ UNCHANGED <<keys, challenge, now, minted, proved>>
    BY TwoFactorAssumption DEF FInv, Typed, Promote, Done
  <1>1. req[r].step \in Steps /\ req[r].secret # 0 /\ req[r].secret \in Secrets
    <2>1. req[r].step \in Steps /\ req[r].secret # 0
      BY DEF FInv, AtWork, Fits, Promote
    <2> QED
      BY <2>1, <1>0 DEF RequestRecord
  <1>2. CASE OwnOffer(r)
    <2>1. /\ totp' = [Reset(totp) EXCEPT !.secret = req[r].secret, !.pending = 0,
                                         !.fresh = FALSE, !.last = req[r].step]
          /\ codes' = Issued(req[r].secret)
          /\ guesses' = 0
          /\ accepted' = {req[r].step} /\ replayed' = {}
      BY <1>2 DEF Promote
    <2>2. /\ totp' \in TotpRecord
          /\ totp'.secret = req[r].secret /\ totp'.pending = 0 /\ ~totp'.fresh
          /\ totp'.failed = 0 /\ totp'.lock = "open" /\ totp'.last = req[r].step
      BY <2>1, <1>0, <1>1 DEF Reset, TotpRecord
    <2>3. req' \in [Requests -> RequestRecord] /\ AtWork'
      <3>1. \A p \in RequestRecord : Fits(p, minted, totp) => Fits(p, minted', totp')
        BY <2>2, <1>0 DEF Fits
      <3> QED
        BY <3>1, <1>0, Records, IdleFits, Moves
    <2>4. codes' \subseteq RecoveryCode
      BY <2>1, <1>1 DEF Issued, RecoveryCode
    <2>5. Offered'
      BY <2>2, <1>0, <1>2 DEF Offered, OwnOffer
    <2>6. Used' /\ accepted' \subseteq Steps
      BY <2>1, <2>2, <1>1 DEF Used, Steps
    <2> QED
      BY <2>1, <2>2, <2>3, <2>4, <2>5, <2>6, <1>0 DEF FInv, Typed, Charges
  <1>3. CASE ~OwnOffer(r)
    <2>1. UNCHANGED <<totp, codes, guesses, accepted, replayed>>
      BY <1>3 DEF Promote
    <2> QED
      BY <2>1, <1>0, Records, IdleFits, QuietMoves DEF Typed, record
  <1> QED
    BY <1>2, <1>3

(* What expires, and the clock.                                            *)
LEMMA ExpiryKeeps ==
  ASSUME FInv, \/ \E r \in Requests : ClearExpired(r)
               \/ StartAuthentication \/ Tick \/ Expire
  PROVE  FInv'
  <1>0. /\ Typed /\ AtWork /\ minted \in Nat /\ totp \in TotpRecord
        /\ Charges /\ Used /\ Offered
    BY TwoFactorAssumption DEF FInv, Typed
  <1>1. ASSUME NEW r \in Requests, ClearExpired(r) PROVE FInv'
    <2>1. /\ totp' = IF OwnOffer(r) THEN [totp EXCEPT !.pending = 0, !.fresh = FALSE] ELSE totp
          /\ req' = [req EXCEPT ![r] = Idle]
          /\ UNCHANGED <<codes, keys, challenge, now, minted, record>>
      BY <1>1 DEF ClearExpired, Done
    <2>2. /\ totp' \in TotpRecord
          /\ totp'.secret = totp.secret
          /\ \/ totp'.pending = totp.pending /\ totp'.fresh = totp.fresh
             \/ totp'.pending = 0 /\ ~totp'.fresh
          /\ totp'.failed = totp.failed /\ totp'.lock = totp.lock /\ totp'.last = totp.last
      <3>1. CASE totp' = [totp EXCEPT !.pending = 0, !.fresh = FALSE]
        <4>1. /\ totp' \in TotpRecord /\ totp'.secret = totp.secret /\ totp'.pending = 0
              /\ ~totp'.fresh
              /\ totp'.failed = totp.failed /\ totp'.lock = totp.lock /\ totp'.last = totp.last
          BY <3>1, <1>0 DEF TotpRecord
        <4> QED
          BY <4>1
      <3>2. CASE totp' = totp
        BY <3>2, <1>0
      <3> QED
        BY <3>1, <3>2, <2>1
    <2>3. req' \in [Requests -> RequestRecord] /\ AtWork'
      <3>1. \A p \in RequestRecord : Fits(p, minted, totp) => Fits(p, minted', totp')
        BY <2>1, <2>2 DEF Fits
      <3> QED
        BY <3>1, <2>1, <1>0, Records, IdleFits, Moves
    <2> QED
      BY <2>1, <2>2, <2>3, <1>0 DEF FInv, Typed, Charges, Used, Offered, record
  <1>2. CASE StartAuthentication
    BY <1>2, <1>0 DEF StartAuthentication, FInv, Typed, AtWork, Charges, Used, Offered,
                      record
  <1>3. CASE Tick
    <2>1. now' \in 2..(MaxStep - 1)
      BY <1>3, <1>0, TwoFactorAssumption DEF Tick, Typed
    <2> QED
      BY <2>1, <1>3, <1>0 DEF Tick, FInv, Typed, AtWork, Charges, Used, Offered, record
  <1>4. CASE Expire
    <2>1. /\ \/ totp' = [totp EXCEPT !.lock = "over"] /\ totp.lock = "locked"
             \/ totp' = [totp EXCEPT !.fresh = FALSE]
          /\ UNCHANGED <<codes, keys, challenge, req, now, minted, record>>
      BY <1>4 DEF Expire
    <2>2. /\ totp' \in TotpRecord
          /\ totp'.secret = totp.secret /\ totp'.pending = totp.pending
          /\ totp'.failed = totp.failed /\ totp'.last = totp.last
          /\ totp'.fresh => totp.fresh
          /\ \/ totp'.lock = totp.lock
             \/ totp.lock = "locked" /\ totp'.lock = "over"
      <3>1. CASE totp' = [totp EXCEPT !.lock = "over"] /\ totp.lock = "locked"
        BY <3>1, <1>0 DEF TotpRecord
      <3>2. CASE totp' = [totp EXCEPT !.fresh = FALSE]
        <4>1. /\ totp' \in TotpRecord
              /\ totp'.secret = totp.secret /\ totp'.pending = totp.pending
              /\ totp'.failed = totp.failed /\ totp'.last = totp.last
              /\ totp'.lock = totp.lock /\ ~totp'.fresh
          BY <3>2, <1>0 DEF TotpRecord
        <4> QED
          BY <4>1
      <3> QED
        BY <3>1, <3>2, <2>1
    <2>3. AtWork'
      BY <2>1, <2>2, <1>0 DEF AtWork, Fits
    <2> QED
      BY <2>1, <2>2, <2>3, <1>0 DEF FInv, Typed, Charges, Used, Offered, record
  <1> QED
    BY <1>1, <1>2, <1>3, <1>4

LEMMA NextFInv == FInv /\ [Next]_vars => FInv'
  <1> SUFFICES ASSUME FInv, [Next]_vars PROVE FInv'
    OBVIOUS
  <1>1. CASE UNCHANGED vars
    BY <1>1 DEF vars, FInv, Typed, AtWork, Charges, Used, Offered
  <1>2. ASSUME NEW r \in Requests, VerifyStep(r) PROVE FInv'
    BY <1>2, QuietSteps, ClaimKeeps, ResetKeeps DEF VerifyStep
  <1>3. ASSUME NEW r \in Requests, EnrollStep(r) PROVE FInv'
    BY <1>3, QuietSteps, OfferKeeps, PromoteKeeps, ExpiryKeeps DEF EnrollStep
  <1>4. ASSUME NEW r \in Requests, KeyStep(r) PROVE FInv'
    BY <1>4, QuietSteps DEF KeyStep
  <1> QED
    BY <1>1, <1>2, <1>3, <1>4, ExpiryKeeps DEF Next

LEMMA FInvAlways == Spec => []FInv
  BY InitFInv, NextFInv, PTL DEF Spec

-----------------------------------------------------------------------------
(* The theorems.                                                           *)

(* Every reachable state is well typed; attempts stay within the limit,    *)
(* the account is locked exactly while they are used up, and no secret is  *)
(* in force and on offer at once.                                          *)
THEOREM TypeCorrect == Spec => []TypeOK
  <1>1. FInv => TypeOK
    BY DEF FInv, Charges, Offered, TypeOK
  <1> QED
    BY <1>1, FInvAlways, PTL

(* However many requests arrive together, they look at no more wrong codes *)
(* than the lock allows.                                                   *)
THEOREM GuessesAreBounded == Spec => []GuessesAreClaimed
  <1>1. FInv => GuessesAreClaimed
    BY DEF FInv, Charges, GuessesAreClaimed
  <1> QED
    BY <1>1, FInvAlways, PTL

(* A code of the authenticator in force is accepted once.                  *)
THEOREM NoCodeTwice == Spec => []CodeUsedOnce
  <1>1. FInv => CodeUsedOnce
    BY DEF FInv, Used, CodeUsedOnce
  <1> QED
    BY <1>1, FInvAlways, PTL

-----------------------------------------------------------------------------
(* What steps do to the secrets.                                           *)

(* Only a promotion changes the confirmed secret, and what it promotes was *)
(* on offer.                                                               *)
LEMMA SecretChanges ==
  ASSUME FInv, [Next]_vars, totp'.secret # totp.secret
  PROVE  /\ totp.pending # 0 /\ totp'.secret = totp.pending
         /\ UNCHANGED proved
  <1>0. totp \in TotpRecord
    BY DEF FInv, Typed
  <1>1. PICK r \in Requests : Promote(r) /\ OwnOffer(r)
    <2>1. ASSUME NEW r \in Requests, ~(Promote(r) /\ OwnOffer(r)),
                 VerifyStep(r) \/ EnrollStep(r) \/ KeyStep(r)
          PROVE  totp'.secret = totp.secret
      <3>1. CASE VerifyStep(r)
        BY <3>1, <1>0 DEF VerifyStep, BeginVerify, Claim, Charged, UseCode, SpendCode,
                          ClearFailures, Reset, TotpRecord
      <3>2. CASE EnrollStep(r)
        BY <3>2, <2>1, <1>0 DEF EnrollStep, BeginEnroll, WriteOffer, BeginConfirm,
                                ClearExpired, Promote, TotpRecord
      <3>3. CASE KeyStep(r)
        BY <3>3 DEF KeyStep, StartRegistration, FinishRegistration, InsertKey, BeginRemove,
                    RemoveKey
      <3> QED
        BY <2>1, <3>1, <3>2, <3>3
    <2>2. CASE StartAuthentication \/ Tick \/ Expire \/ UNCHANGED vars
      BY <2>2, <1>0 DEF StartAuthentication, Tick, Expire, vars, TotpRecord
    <2> QED
      BY <2>1, <2>2 DEF Next
  <1>2. req[r].secret # 0
    BY <1>1 DEF FInv, AtWork, Fits, Promote
  <1>3. /\ totp' = [Reset(totp) EXCEPT !.secret = req[r].secret, !.pending = 0,
                                       !.fresh = FALSE, !.last = req[r].step]
        /\ UNCHANGED proved
    BY <1>1 DEF Promote
  <1>4. totp'.secret = req[r].secret
    BY <1>3, <1>0 DEF Reset, TotpRecord
  <1> QED
    BY <1>1, <1>2, <1>3, <1>4 DEF OwnOffer

(* An authenticator is replaced only by one that was offered to a request  *)
(* that had shown a second factor.                                         *)
THEOREM ReplacementsAreProved == Spec => ReplacedOnlyWithProof
  <1>1. FInv /\ [Next]_vars
          => (totp.secret # 0 /\ totp'.secret # totp.secret => totp'.secret \in proved)
    BY SecretChanges DEF FInv, Offered
  <1> QED
    BY <1>1, FInvAlways, PTL DEF Spec, ReplacedOnlyWithProof

(* An offer that has not expired is never lost to a slow confirmation.     *)
THEOREM OffersStay == Spec => OfferIsNotLost
  <1>1. ASSUME FInv, [Next]_vars, totp.pending # 0, totp.fresh, totp'.pending = 0
        PROVE  totp'.secret = totp.pending
    <2>0. totp \in TotpRecord /\ minted \in Nat
      BY <1>1, TwoFactorAssumption DEF FInv, Typed
    <2>1. ASSUME NEW r \in Requests, ~Promote(r), ~ClearExpired(r), ~WriteOffer(r),
                 VerifyStep(r) \/ EnrollStep(r) \/ KeyStep(r)
          PROVE  totp'.pending = totp.pending
      <3>1. CASE VerifyStep(r)
        BY <3>1, <2>0 DEF VerifyStep, BeginVerify, Claim, Charged, UseCode, SpendCode,
                          ClearFailures, Reset, TotpRecord
      <3>2. CASE EnrollStep(r)
        BY <3>2, <2>1 DEF EnrollStep, BeginEnroll, BeginConfirm
      <3>3. CASE KeyStep(r)
        BY <3>3 DEF KeyStep, StartRegistration, FinishRegistration, InsertKey, BeginRemove,
                    RemoveKey
      <3> QED
        BY <2>1, <3>1, <3>2, <3>3
    <2>2. ASSUME NEW r \in Requests, WriteOffer(r)
          PROVE  totp'.pending # 0
      <3>1. CASE UNCHANGED totp
        BY <3>1, <1>1
      <3>2. CASE totp' = [totp EXCEPT !.pending = minted + 1, !.fresh = TRUE]
        BY <3>2, <2>0 DEF TotpRecord
      <3> QED
        BY <2>2, <3>1, <3>2 DEF WriteOffer
    <2>3. ASSUME NEW r \in Requests, ClearExpired(r)
          PROVE  totp' = totp
      <3>1. req[r].secret = totp.pending => ~totp.fresh
        BY <1>1, <2>3 DEF FInv, AtWork, Fits, ClearExpired
      <3>2. ~OwnOffer(r)
        BY <3>1, <1>1 DEF OwnOffer
      <3> QED
        BY <3>2, <2>3 DEF ClearExpired
    <2>4. ASSUME NEW r \in Requests, Promote(r)
          PROVE  totp' = totp \/ totp'.secret = totp.pending
      <3>1. CASE ~OwnOffer(r)
        BY <3>1, <2>4 DEF Promote
      <3>2. CASE OwnOffer(r)
        <4>1. totp' = [Reset(totp) EXCEPT !.secret = req[r].secret, !.pending = 0,
                                          !.fresh = FALSE, !.last = req[r].step]
          BY <3>2, <2>4 DEF Promote
        <4> QED
          BY <4>1, <3>2, <2>0 DEF Reset, TotpRecord, OwnOffer
      <3> QED
        BY <3>1, <3>2
    <2>5. CASE StartAuthentication \/ Tick \/ Expire \/ UNCHANGED vars
      <3>1. totp'.pending = totp.pending
        BY <2>5, <2>0 DEF StartAuthentication, Tick, Expire, vars, TotpRecord
      <3> QED
        BY <3>1, <1>1
    <2> QED
      BY <1>1, <2>1, <2>2, <2>3, <2>4, <2>5 DEF Next
  <1> QED
    BY <1>1, FInvAlways, PTL DEF Spec, OfferIsNotLost

=============================================================================
