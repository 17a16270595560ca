------------------------------ MODULE TwoFactor ------------------------------
(***************************************************************************)
(* The second factors of one administrator's account: an authenticator     *)
(* app, security keys and recovery codes.                                  *)
(*                                                                         *)
(* Every request reads, decides and writes in separate statements, so what *)
(* is true of the account is what the WHERE clauses of its updates make    *)
(* true: an attempt is claimed before the code is looked at, a code's step *)
(* is claimed when it is used, an enrollment is identified by its envelope.*)
(***************************************************************************)
EXTENDS Naturals, FiniteSets

CONSTANTS
  Requests,       \* requests at work at a time
  Keys,           \* security keys
  RecoveryCodes,  \* codes in a set of recovery codes (RECOVERY_CODE_COUNT)
  MaxAttempts,    \* MFA_MAX_FAILED_ATTEMPTS
  MaxSecrets,     \* secrets minted: a bound
  MaxStep,        \* steps of the clock: a bound
  Races           \* the overlaps admitted

RaceKinds ==
  {"first",      \* a key is registered while another first factor is set up
   "beside",     \* an authenticator on offer is confirmed beside a key registered since
   "removals"}   \* two keys are removed at the same time

NoKey     == <<>>
NoRequest == <<>>

ASSUME TwoFactorAssumption ==
  /\ RecoveryCodes \in Nat \ {0}
  /\ MaxAttempts \in Nat \ {0}
  /\ MaxSecrets \in Nat
  /\ MaxStep \in Nat /\ MaxStep > 2
  /\ Races \subseteq RaceKinds

Secrets == 1..MaxSecrets  \* in the order they are minted; 0 is none
Steps   == 1..MaxStep     \* the steps codes are for; 0 is none

VARIABLES
  totp,       \* the row of user_totp
  codes,      \* unused recovery codes, each of the set issued with a factor
  keys,       \* webauthn_credentials
  challenge,  \* whose registration the stored challenge is of
  req,        \* requests at work
  now,        \* the step the clock is in
  minted,     \* secrets minted so far
  guesses,    \* wrong codes since the last reset
  accepted,   \* steps for which a code of the confirmed secret was accepted
  replayed,   \* those for which one was accepted again
  proved      \* secrets offered to a request that had shown a second factor

vars == <<totp, codes, keys, challenge, req, now, minted, guesses, accepted, replayed, proved>>

record == <<guesses, accepted, replayed, proved>>

-----------------------------------------------------------------------------
TotpRecord ==
  [secret : Secrets \cup {0}, pending : Secrets \cup {0},
   fresh : BOOLEAN,                       \* the pending one has not expired
   failed : Nat, lock : {"open", "locked", "over"},
   last : Steps \cup {0}]

RecoveryCode == (Secrets \cup Keys) \X (1..RecoveryCodes)

RequestRecord ==
  [pc : {"idle", "claim", "use", "spend", "clear", "write", "expire", "promote",
         "ceremony", "insert", "remove"},
   stage : {"login", "reenroll", "confirm"},
   secret : Secrets \cup {0},    \* the secret read: confirmed, or pending
   seen : {"open", "locked", "over"},    \* the lock when the row was read
   step : Steps \cup {0}, code : RecoveryCode \cup {NoKey},
   shown : BOOLEAN,              \* the request has shown a second factor
   key : Keys \cup {NoKey}, first : BOOLEAN]

Typed ==
  /\ totp \in TotpRecord
  /\ codes \subseteq RecoveryCode
  /\ keys \subseteq Keys
  /\ challenge \in Requests \cup {NoRequest}
  /\ req \in [Requests -> RequestRecord]
  /\ now \in 2..(MaxStep - 1)
  /\ minted \in 0..MaxSecrets
  /\ guesses \in Nat
  /\ accepted \subseteq Steps /\ replayed \subseteq accepted
  /\ proved \subseteq Secrets
  /\ totp.failed \geq MaxAttempts <=> totp.lock # "open"

(* Attempts stay within the limit and close the lock when they reach it,   *)
(* and what is on offer is another secret than the one in force.           *)
TypeOK ==
  /\ Typed
  /\ totp.failed \leq MaxAttempts
  /\ totp.pending # 0 => totp.pending # totp.secret

Idle ==
  [pc |-> "idle", stage |-> "login", secret |-> 0, seen |-> "open", step |-> 0,
   code |-> NoKey, shown |-> FALSE, key |-> NoKey, first |-> FALSE]

Done(r) == req' = [req EXCEPT ![r] = Idle]

Init ==
  /\ totp = [secret |-> 0, pending |-> 0, fresh |-> FALSE, failed |-> 0, lock |-> "open",
             last |-> 0]
  /\ codes = {}
  /\ keys = {}
  /\ challenge = NoRequest
  /\ req = [r \in Requests |-> Idle]
  /\ now = 2
  /\ minted = 0
  /\ guesses = 0
  /\ accepted = {} /\ replayed = {}
  /\ proved = {}

(* requiresSecondFactor.                                                   *)
HasFactor == totp.secret # 0 \/ keys # {}

-----------------------------------------------------------------------------
(* Showing a second factor.                                                *)

(* verifySecondFactor reads the row: without a confirmed secret it answers *)
(* that there is nothing to verify against.                                *)
IsConfirmed == totp.secret # 0

(* It is asked at a login, and at an enrollment over a factor that is there*)
BeginVerify(r) ==
  /\ req[r].pc = "idle"
  /\ IsConfirmed
  /\ \E stage \in {"login", "reenroll"} :
       req' = [req EXCEPT ![r] = [Idle EXCEPT !.pc = "claim", !.stage = stage,
                                              !.secret = totp.secret, !.seen = totp.lock]]
  /\ UNCHANGED <<totp, codes, keys, challenge, now, minted, record>>

(* A faulty variant of the next: the lock is decided on the row as read.   *)
SeenOpen(r) == req[r].seen # "locked"

Open(r) == totp.lock # "locked"

(* claimAttempt: one statement refuses or charges.                         *)
Charged ==
  LET count == IF totp.lock = "over" THEN 1 ELSE totp.failed + 1
  IN [totp EXCEPT !.failed = count,
                  !.lock = IF count \geq MaxAttempts THEN "locked" ELSE "open"]

(* verifyTotp: a code is good for its step, the one before and the next.   *)
InWindow(step) == step \in {now - 1, now, now + 1}

Guessed(r) ==
  /\ Done(r)
  /\ guesses' = (IF totp.lock = "over" THEN 0 ELSE guesses) + 1

Right(r) == guesses' = IF totp.lock = "over" THEN 0 ELSE guesses

(* The attempt is claimed, and only then is the code looked at.            *)
Claim(r) ==
  /\ req[r].pc = "claim"
  /\ IF ~Open(r)
       THEN /\ Done(r)
            /\ UNCHANGED <<totp, guesses>>
       ELSE /\ totp' = Charged
            /\ \/ Guessed(r)
               \/ /\ Right(r)
                  /\ \E step \in Steps :
                       /\ InWindow(step)
                       /\ req' = [req EXCEPT ![r].step = step, ![r].seen = "open",
                            ![r].pc = IF req[r].stage = "confirm" THEN "promote" ELSE "use"]
               \/ /\ req[r].stage # "confirm"
                  /\ Right(r)
                  /\ \E code \in codes :
                       req' = [req EXCEPT ![r].pc = "spend", ![r].seen = "open",
                                          ![r].secret = 0, ![r].code = code]
  /\ UNCHANGED <<codes, keys, challenge, now, minted, accepted, replayed, proved>>

(* A faulty variant of the next: the lock stays.                           *)
ResetCount(row) == [row EXCEPT !.failed = 0]

Reset(row) == [row EXCEPT !.failed = 0, !.lock = "open"]

(* A second factor was shown: the login goes on, or the enrollment.        *)
Shown(r) ==
  IF req[r].stage = "reenroll"
    THEN req' = [req EXCEPT ![r] = [Idle EXCEPT !.pc = "write", !.shown = TRUE]]
    ELSE Done(r)

Accept(r) ==
  LET of == IF req[r].secret = totp.secret THEN {req[r].step} ELSE {}
  IN /\ accepted' = accepted \cup of
     /\ replayed' = replayed \cup (accepted \cap of)

(* A faulty variant of the next: the step is not claimed.                  *)
AnyStep(r) == TRUE

NewStep(r) == totp.last < req[r].step

(* One conditional update claims the step.                                 *)
UseCode(r) ==
  /\ req[r].pc = "use"
  /\ IF NewStep(r)
       THEN /\ totp' = [Reset(totp) EXCEPT !.last = req[r].step]
            /\ guesses' = 0
            /\ Accept(r)
            /\ Shown(r)
       ELSE /\ Done(r)
            /\ UNCHANGED <<totp, guesses, accepted, replayed>>
  /\ UNCHANGED <<codes, keys, challenge, now, minted, proved>>

(* verifyRecoveryCode: one conditional update spends the code...           *)
SpendCode(r) ==
  /\ req[r].pc = "spend"
  /\ IF req[r].code \in codes
       THEN /\ codes' = codes \ {req[r].code}
            /\ req' = [req EXCEPT ![r].pc = "clear", ![r].code = NoKey]
       ELSE /\ Done(r)
            /\ UNCHANGED codes
  /\ UNCHANGED <<totp, keys, challenge, now, minted, record>>

(* ...and clearFailures is another.                                        *)
ClearFailures(r) ==
  /\ req[r].pc = "clear"
  /\ totp' = Reset(totp)
  /\ guesses' = 0
  /\ Shown(r)
  /\ UNCHANGED <<codes, keys, challenge, now, minted, accepted, replayed, proved>>

-----------------------------------------------------------------------------
(* Enrolling an authenticator.                                             *)

(* The enroll route finds no factor, and asks for no code.                 *)
BeginEnroll(r) ==
  /\ req[r].pc = "idle"
  /\ ~HasFactor
  /\ req' = [req EXCEPT ![r] = [Idle EXCEPT !.pc = "write"]]
  /\ UNCHANGED <<totp, codes, keys, challenge, now, minted, record>>

(* A faulty variant of the next: the upsert is not conditional.            *)
Unconditional(r) == TRUE

(* requireStillUnconfirmed.                                                *)
MayWrite(r) == req[r].shown \/ totp.secret = 0

(* startEnrollment mints a secret and stores it as pending.                *)
WriteOffer(r) ==
  /\ req[r].pc = "write"
  /\ IF MayWrite(r) /\ minted < MaxSecrets
       THEN /\ minted' = minted + 1
            /\ totp' = [totp EXCEPT !.pending = minted', !.fresh = TRUE]
            /\ proved' = IF req[r].shown THEN proved \cup {minted'} ELSE proved
       ELSE UNCHANGED <<minted, totp, proved>>
  /\ Done(r)
  /\ UNCHANGED <<codes, keys, challenge, now, guesses, accepted, replayed>>

(* confirmEnrollment reads the pending secret.                             *)
BeginConfirm(r) ==
  /\ req[r].pc = "idle"
  /\ totp.pending # 0
  /\ req' = [req EXCEPT ![r] =
       [Idle EXCEPT !.pc = IF totp.fresh THEN "claim" ELSE "expire", !.stage = "confirm",
                    !.secret = totp.pending, !.seen = totp.lock]]
  /\ UNCHANGED <<totp, codes, keys, challenge, now, minted, record>>

(* A faulty variant of the next: the envelope is not compared.             *)
AnyOffer(r) == TRUE

OwnOffer(r) == totp.pending = req[r].secret

(* An expired secret is cleared, if it is still there.                     *)
ClearExpired(r) ==
  /\ req[r].pc = "expire"
  /\ totp' = IF OwnOffer(r) THEN [totp EXCEPT !.pending = 0, !.fresh = FALSE] ELSE totp
  /\ Done(r)
  /\ UNCHANGED <<codes, keys, challenge, now, minted, record>>

(* replaceRecoveryCodes.                                                   *)
Issued(factor) == {factor} \X (1..RecoveryCodes)

Inserting == {r \in Requests : req[r].pc = "insert"}

(* The secret a code was given for is promoted, if it is still pending,    *)
(* and the recovery codes are replaced with it.                            *)
Promote(r) ==
  /\ req[r].pc = "promote"
  /\ "first" \in Races \/ Inserting = {}
  /\ "beside" \in Races \/ ~OwnOffer(r) \/ totp.secret # 0 \/ keys = {}
  /\ IF OwnOffer(r)
       THEN /\ totp' = [Reset(totp) EXCEPT !.secret = req[r].secret, !.pending = 0,
                                           !.fresh = FALSE, !.last = req[r].step]
            /\ codes' = Issued(req[r].secret)
            /\ guesses' = 0
            /\ accepted' = {req[r].step} /\ replayed' = {}
       ELSE UNCHANGED <<totp, codes, guesses, accepted, replayed>>
  /\ Done(r)
  /\ UNCHANGED <<keys, challenge, now, minted, proved>>

-----------------------------------------------------------------------------
(* Security keys.                                                          *)

(* startRegistration: a ceremony replaces any other of the account.        *)
StartRegistration(r) ==
  /\ req[r].pc = "idle"
  /\ challenge' = r
  /\ req' = [req EXCEPT ![r] = [Idle EXCEPT !.pc = "ceremony"]]
  /\ UNCHANGED <<totp, codes, keys, now, minted, record>>

(* startAuthentication: so does signing in with a key.                     *)
StartAuthentication ==
  /\ keys # {}
  /\ challenge # NoRequest
  /\ challenge' = NoRequest
  /\ UNCHANGED <<totp, codes, keys, req, now, minted, record>>

IsFirstFactor == keys = {} /\ totp.secret = 0

(* finishRegistration consumes the challenge, whosever it is, and asks     *)
(* whether the key, if it answers that one, is the first factor.           *)
FinishRegistration(r) ==
  /\ req[r].pc = "ceremony"
  /\ "first" \in Races \/ Inserting = {}
  /\ challenge' = NoRequest
  /\ \/ /\ challenge = r
        /\ \E key \in Keys \ (keys \cup {req[q].key : q \in Inserting}) :
             req' = [req EXCEPT ![r].pc = "insert", ![r].key = key, ![r].first = IsFirstFactor]
     \/ Done(r)
  /\ UNCHANGED <<totp, codes, keys, now, minted, record>>

(* The key, and with a first factor the recovery codes, in one transaction.*)
InsertKey(r) ==
  /\ req[r].pc = "insert"
  /\ keys' = keys \cup {req[r].key}
  /\ codes' = IF req[r].first THEN Issued(req[r].key) ELSE codes
  /\ Done(r)
  /\ UNCHANGED <<totp, challenge, now, minted, record>>

(* A faulty variant of the next: the key to be removed is counted too.     *)
AnyKeyRemains(key) == keys # {}

AnotherRemains(key) == Cardinality(keys) - 1 # 0 \/ totp.secret # 0

(* removeCredential counts what remains...                                 *)
BeginRemove(r) ==
  /\ req[r].pc = "idle"
  /\ "removals" \in Races \/ \A q \in Requests : req[q].pc # "remove"
  /\ \E key \in keys :
       /\ AnotherRemains(key)
       /\ req' = [req EXCEPT ![r] = [Idle EXCEPT !.pc = "remove", !.key = key]]
  /\ UNCHANGED <<totp, codes, keys, challenge, now, minted, record>>

(* ...and then deletes the key.                                            *)
RemoveKey(r) ==
  /\ req[r].pc = "remove"
  /\ keys' = keys \ {req[r].key}
  /\ Done(r)
  /\ UNCHANGED <<totp, codes, challenge, now, minted, record>>

-----------------------------------------------------------------------------
(* Time.                                                                   *)

Tick ==
  /\ now < MaxStep - 1
  /\ now' = now + 1
  /\ UNCHANGED <<totp, codes, keys, challenge, req, minted, record>>

(* The lock, or the pending secret, expires.                               *)
Expire ==
  /\ \/ /\ totp.lock = "locked"
        /\ totp' = [totp EXCEPT !.lock = "over"]
     \/ /\ totp.pending # 0 /\ totp.fresh
        /\ totp' = [totp EXCEPT !.fresh = FALSE]
  /\ UNCHANGED <<codes, keys, challenge, req, now, minted, record>>

-----------------------------------------------------------------------------
VerifyStep(r) ==
  BeginVerify(r) \/ Claim(r) \/ UseCode(r) \/ SpendCode(r) \/ ClearFailures(r)

EnrollStep(r) ==
  BeginEnroll(r) \/ WriteOffer(r) \/ BeginConfirm(r) \/ ClearExpired(r) \/ Promote(r)

KeyStep(r) ==
  \/ StartRegistration(r) \/ FinishRegistration(r) \/ InsertKey(r)
  \/ BeginRemove(r) \/ RemoveKey(r)

Next ==
  \/ \E r \in Requests : VerifyStep(r) \/ EnrollStep(r) \/ KeyStep(r)
  \/ StartAuthentication
  \/ Tick
  \/ Expire

Spec == Init /\ [][Next]_vars

-----------------------------------------------------------------------------
(* Properties.                                                             *)

(* However many requests arrive together, no more wrong codes are looked   *)
(* at between two resets - a right code, or the end of a lock - than the   *)
(* lock allows (#195).                                                     *)
GuessesAreClaimed == guesses \leq MaxAttempts

(* A code of the authenticator in force is accepted once, at a login or an *)
(* enrollment, though it is good for three steps and requests race.        *)
CodeUsedOnce == replayed = {}

(* A confirmed authenticator is replaced only by one that was offered to a *)
(* request that had shown a second factor: one offered while there was     *)
(* none cannot be promoted over it, whatever was confirmed while it was in *)
(* flight (twoFactor.ts, requireStillUnconfirmed).                         *)
ReplacedOnlyWithProof ==
  [][totp.secret # 0 /\ totp'.secret # totp.secret => totp'.secret \in proved]_vars

(* An offer that has not expired is confirmed, or replaced by a newer one, *)
(* and never lost to a slow confirmation of an older one.                  *)
OfferIsNotLost ==
  [][totp.pending # 0 /\ totp.fresh /\ totp'.pending = 0 => totp'.secret = totp.pending]_vars

(* The recovery codes that were written down stay good until they are used *)
(* or a confirmed authenticator is replaced: a factor added beside another *)
(* issues no others, and the last factor cannot be removed, after which    *)
(* any would be a first one (webauthn.ts, on isFirstFactor: "a second one  *)
(* must not").                                                             *)
PaperStaysGood ==
  [][codes # {} /\ ~(codes' \subseteq codes)
       => totp.secret # 0 /\ totp'.secret # totp.secret]_vars

=============================================================================
