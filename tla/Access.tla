------------------------------- MODULE Access -------------------------------
(***************************************************************************)
(* Accounts, the sessions opened for them and the requests that change     *)
(* accounts: logins with and without a second factor, the password change  *)
(* of a user, and root's updates of an account, which end its sessions.    *)
(*                                                                         *)
(* A token carries the role its account had when it was issued, and no     *)
(* request reads the role again: what keeps the two together is that every *)
(* change which matters revokes the sessions in its own transaction.       *)
(***************************************************************************)
EXTENDS Naturals, FiniteSets

CONSTANTS
  Users,       \* accounts
  Sessions,    \* rows of sessions, used one after another
  Logins,      \* sign-ins, each of one request or of two
  Changers,    \* requests of users that change their password
  Admins,      \* requests of roots that update an account
  MaxChanges   \* changes of accounts: a bound

NoUser    == <<>>
NoSession == <<>>
Nobody    == <<>>

ASSUME AccessAssumption ==
  /\ NoSession \notin Sessions
  /\ Nobody \notin Admins
  /\ MaxChanges \in Nat

Roles == {"root", "manager"}

Updates == {"deactivate", "reactivate", "demote", "promote", "reset"}

Time == 0..MaxChanges    \* changes of accounts so far

VARIABLES
  account,  \* users: role, active and password, and when its sessions were last ended
  factor,   \* accounts with a confirmed second factor
  session,  \* sessions
  login,    \* sign-ins at work
  changer,  \* password changes at work
  admin,    \* updates at work
  row,      \* who holds the FOR UPDATE lock on each account
  now,      \* changes of accounts so far
  crossed   \* has an update counted only roots that others were taking away?

vars == <<account, factor, session, login, changer, admin, row, now, crossed>>

-----------------------------------------------------------------------------
(* Types.  A password is the moment it was set.                            *)

AccountRecord == [role : Roles, active : BOOLEAN, hash : Time, ended : Time]

(* The role is the token's.  For the record only: the password it was      *)
(* opened with, the moment its row was inserted, and whether its account   *)
(* changed between the login's read of it and that moment.                 *)
SessionRecord ==
  [state : {"none", "live", "revoked"},    \* a revoked row's other fields say no more
   user : Users \cup {NoUser}, role : Roles, hash : Time, at : Time, late : BOOLEAN]

LoginRecord ==
  [pc : {"idle", "challenged", "issue"},
   user : Users \cup {NoUser}, role : Roles, hash : Time, at : Time]

ChangerRecord ==
  [pc : {"idle", "recheck"}, session : Sessions \cup {NoSession},
   user : Users \cup {NoUser}]

AdminRecord ==
  [pc : {"idle", "lock", "commit"},
   target : Users \cup {NoUser}, update : Updates, before : Roles]

TypeOK ==
  /\ account \in [Users -> AccountRecord]
  /\ factor \subseteq Users
  /\ session \in [Sessions -> SessionRecord]
  /\ login \in [Logins -> LoginRecord]
  /\ changer \in [Changers -> ChangerRecord]
  /\ admin \in [Admins -> AdminRecord]
  /\ row \in [Users -> Admins \cup {Nobody}]
  /\ now \in Time
  /\ crossed \in BOOLEAN
  /\ \A s \in Sessions : session[s].state = "live" => session[s].user \in Users
  /\ \A a \in Admins : admin[a].pc = "commit" => row[admin[a].target] = a

NoLogin == [pc |-> "idle", user |-> NoUser, role |-> "manager", hash |-> 0, at |-> 0]

NoChange == [pc |-> "idle", session |-> NoSession, user |-> NoUser]

NoRow == [state |-> "none", user |-> NoUser, role |-> "manager", hash |-> 0, at |-> 0,
          late |-> FALSE]

RevokedRow == [NoRow EXCEPT !.state = "revoked"]

NoUpdate == [pc |-> "idle", target |-> NoUser, update |-> "reset", before |-> "manager"]

ActiveRoots == {u \in Users : account[u].role = "root" /\ account[u].active}

Init ==
  /\ account \in [Users -> [role : Roles, active : BOOLEAN, hash : {0}, ended : {0}]]
  /\ ActiveRoots # {}
  /\ factor \in SUBSET Users
  /\ session = [s \in Sessions |-> NoRow]
  /\ login = [l \in Logins |-> NoLogin]
  /\ changer = [c \in Changers |-> NoChange]
  /\ admin = [a \in Admins |-> NoUpdate]
  /\ row = [u \in Users |-> Nobody]
  /\ now = 0
  /\ crossed = FALSE

-----------------------------------------------------------------------------
(* validateSession: what a request with this token is let in as.           *)
Admitted(s) ==
  /\ session[s].state = "live"
  /\ account[session[s].user].active

-----------------------------------------------------------------------------
(* Signing in.                                                             *)

(* The account is read, and the password compared with what was read.  An  *)
(* account without a second factor, or a security key that needs no        *)
(* password, goes straight to its session.                                 *)
CheckPassword(l) ==
  /\ login[l].pc = "idle"
  /\ \E u \in Users :
       /\ account[u].active
       /\ \/ login' = [login EXCEPT ![l] =
               [pc |-> "issue", user |-> u, role |-> account[u].role,
                hash |-> account[u].hash, at |-> now]]
          \/ /\ u \in factor
             /\ login' = [login EXCEPT ![l] =
                  [NoLogin EXCEPT !.pc = "challenged", !.user = u, !.hash = account[u].hash]]
  /\ UNCHANGED <<account, factor, session, changer, admin, row, now, crossed>>

(* A faulty variant of the next: a challenge is good while it lasts.       *)
AnyChallenge(l) == TRUE

(* A challenge names the password it was given for.                        *)
GoodChallenge(l) == login[l].hash = account[login[l].user].hash

(* completeMfaLogin reads the account again.                               *)
CompleteMfa(l) ==
  /\ login[l].pc = "challenged"
  /\ IF account[login[l].user].active /\ GoodChallenge(l)
       THEN login' = [login EXCEPT ![l].pc = "issue",
                                   ![l].role = account[login[l].user].role,
                                   ![l].at = now]
       ELSE login' = [login EXCEPT ![l] = NoLogin]
  /\ UNCHANGED <<account, factor, session, changer, admin, row, now, crossed>>

(* It is never completed: the code is wrong, or the challenge expires.     *)
GiveUp(l) ==
  /\ login[l].pc = "challenged"
  /\ login' = [login EXCEPT ![l] = NoLogin]
  /\ UNCHANGED <<account, factor, session, changer, admin, row, now, crossed>>

(* createSession: the row refers to the account, and waits for its lock.   *)
Issue(l) ==
  /\ login[l].pc = "issue"
  /\ row[login[l].user] = Nobody
  /\ \E s \in Sessions :
       /\ session[s].state = "none"
       /\ session' = [session EXCEPT ![s] =
            [state |-> "live", user |-> login[l].user, role |-> login[l].role,
             hash |-> login[l].hash, at |-> now,
             late |-> login[l].at < account[login[l].user].ended]]
  /\ login' = [login EXCEPT ![l] = NoLogin]
  /\ UNCHANGED <<account, factor, changer, admin, row, now, crossed>>

-----------------------------------------------------------------------------
(* Signing out.                                                            *)

(* revokeSession: one's own, or any for root.                              *)
SignOut(s) ==
  /\ session[s].state = "live"
  /\ session' = [session EXCEPT ![s] = RevokedRow]
  /\ UNCHANGED <<account, factor, login, changer, admin, row, now, crossed>>

(* revokeAllSessionsOf: all the live ones, but for one that may be kept.   *)
Revoked(u, keep) ==
  [s \in Sessions |->
     IF session[s].user = u /\ session[s].state = "live" /\ s # keep
       THEN RevokedRow
       ELSE session[s]]

(* revokeOtherSessions.                                                    *)
SignOutOthers(s) ==
  /\ Admitted(s)
  /\ session' = Revoked(session[s].user, s)
  /\ session' # session
  /\ UNCHANGED <<account, factor, login, changer, admin, row, now, crossed>>

-----------------------------------------------------------------------------
(* The account's changes.                                                  *)

(* changePassword reads the hash and compares: the request was let in with *)
(* its session.                                                            *)
Recheck(c) ==
  /\ changer[c].pc = "idle"
  /\ \E s \in Sessions :
       /\ Admitted(s)
       /\ changer' = [changer EXCEPT ![c] = 
            [pc |-> "recheck", session |-> s, user |-> session[s].user]]
  /\ UNCHANGED <<account, factor, session, login, admin, row, now, crossed>>

(* The new hash, and every other session's end, in one transaction.        *)
ChangePassword(c) ==
  LET s == changer[c].session
      u == changer[c].user
  IN /\ changer[c].pc = "recheck"
     /\ row[u] = Nobody
     /\ now < MaxChanges
     /\ now' = now + 1
     /\ account' = [account EXCEPT ![u].hash = now', ![u].ended = now']
     /\ session' = IF session[s].state = "live"
                     THEN [Revoked(u, s) EXCEPT ![s].hash = now', ![s].at = now']
                     ELSE Revoked(u, s)
     /\ changer' = [changer EXCEPT ![c] = NoChange]
     /\ UNCHANGED <<factor, login, admin, row, crossed>>

(* updateUser: a root's request about another account, or about its own    *)
(* when it takes nothing away.                                             *)
Losing(update) == update \in {"deactivate", "demote"}

BeginUpdate(a) ==
  /\ admin[a].pc = "idle"
  /\ now < MaxChanges
  /\ \E s \in Sessions, u \in Users, update \in Updates :
       /\ Admitted(s) /\ session[s].role = "root"
       /\ ~(u = session[s].user /\ Losing(update))
       /\ admin' = [admin EXCEPT ![a] =
            [pc |-> "lock", target |-> u, update |-> update, before |-> "manager"]]
  /\ UNCHANGED <<account, factor, session, login, changer, row, now, crossed>>

RowIsFree(u) == row[u] = Nobody

LosingRoot(before, update) == before = "root" /\ Losing(update)

(* A faulty variant of the next: a deactivated root counts as one.         *)
AnyRoot(u) == {v \in Users \ {u} : account[v].role = "root"}

OtherRoots(u) == ActiveRoots \ {u}

(* The targets of updates that hold their locks and will take a root away. *)
BeingTaken ==
  {admin[a].target : a \in {b \in Admins :
     admin[b].pc = "commit" /\ LosingRoot(admin[b].before, admin[b].update)}}

(* The row is locked and its role read, and the others are counted: the    *)
(* last root standing cannot be switched off.                              *)
LockAndCount(a) ==
  LET u      == admin[a].target
      update == admin[a].update
  IN /\ admin[a].pc = "lock"
     /\ RowIsFree(u)
     /\ IF LosingRoot(account[u].role, update) /\ OtherRoots(u) = {}
          THEN /\ admin' = [admin EXCEPT ![a] = NoUpdate]
               /\ UNCHANGED <<row, crossed>>
          ELSE /\ admin' = [admin EXCEPT ![a].pc = "commit", ![a].before = account[u].role]
               /\ row' = [row EXCEPT ![u] = a]
               /\ crossed' = (crossed \/ /\ LosingRoot(account[u].role, update)
                                         /\ OtherRoots(u) \subseteq BeingTaken)
     /\ UNCHANGED <<account, factor, session, login, changer, now>>

(* A faulty variant of the next: whoever is inactive is not let in anyway. *)
RoleOrReset(a) ==
  \/ admin[a].update = "reset"
  \/ admin[a].update = "demote" /\ admin[a].before # "manager"
  \/ admin[a].update = "promote" /\ admin[a].before # "root"

(* Does the update end the account's sessions?                             *)
Ends(a) ==
  \/ admin[a].update \in {"deactivate", "reset"}
  \/ admin[a].update = "demote" /\ admin[a].before # "manager"
  \/ admin[a].update = "promote" /\ admin[a].before # "root"

Updated(u, update) ==
  CASE update = "deactivate" -> [account[u] EXCEPT !.active = FALSE]
    [] update = "reactivate" -> [account[u] EXCEPT !.active = TRUE]
    [] update = "demote"     -> [account[u] EXCEPT !.role = "manager"]
    [] update = "promote"    -> [account[u] EXCEPT !.role = "root"]
    [] update = "reset"      -> [account[u] EXCEPT !.hash = now + 1]

(* What no session of the account may outlive.                             *)
Matters(old, new) ==
  \/ old.active /\ ~new.active
  \/ old.role # new.role
  \/ old.hash # new.hash

CommitUpdate(a) ==
  LET u   == admin[a].target
      new == Updated(u, admin[a].update)
  IN /\ admin[a].pc = "commit"
     /\ now < MaxChanges
     /\ IF Matters(account[u], new)
          THEN /\ now' = now + 1
               /\ account' = [account EXCEPT ![u] = [new EXCEPT !.ended = now']]
          ELSE /\ account' = [account EXCEPT ![u] = new]
               /\ UNCHANGED now
     /\ session' = IF Ends(a) THEN Revoked(u, NoSession) ELSE session
     /\ row' = [row EXCEPT ![u] = Nobody]
     /\ admin' = [admin EXCEPT ![a] = NoUpdate]
     /\ UNCHANGED <<factor, login, changer, crossed>>

-----------------------------------------------------------------------------
SignInStep(l) == CheckPassword(l) \/ CompleteMfa(l) \/ GiveUp(l) \/ Issue(l)

UpdateStep(a) == BeginUpdate(a) \/ LockAndCount(a) \/ CommitUpdate(a)

Next ==
  \/ \E l \in Logins : SignInStep(l)
  \/ \E s \in Sessions : SignOut(s) \/ SignOutOthers(s)
  \/ \E c \in Changers : Recheck(c) \/ ChangePassword(c)
  \/ \E a \in Admins : UpdateStep(a)

Spec == Init /\ [][Next]_vars

-----------------------------------------------------------------------------
(* Properties.                                                             *)

(* Whoever is let in is so by a session opened after its account was last  *)
(* deactivated, demoted, promoted or given a password; one's own password  *)
(* change spares the session it came from, and no other.  In particular a  *)
(* reactivated account brings no old session back (#37).                   *)
NoSessionSurvives ==
  \A s \in Sessions : Admitted(s) => session[s].at \geq account[session[s].user].ended

(* The role a token carries is the role of its account, and the password   *)
(* it was opened with is its account's (#184), unless the login was slow   *)
(* enough for the account to change under it.                              *)
SessionMatchesAccount ==
  \A s \in Sessions :
    Admitted(s) =>
      \/ session[s].late
      \/ /\ session[s].role = account[session[s].user].role
         /\ session[s].hash = account[session[s].user].hash

(* Somebody can administer the installation: however many roots' updates   *)
(* overlap, an active root remains, unless one of them counted only roots  *)
(* that others, still uncommitted, were taking away (users.ts, the count   *)
(* of other roots).                                                        *)
RootRemains == crossed \/ ActiveRoots # {}

(* "So two concurrent requests cannot each see a second root and both      *)
(* proceed" (users.ts): an active root always remains.                     *)
NoTwoRootsCross == ActiveRoots # {}

=============================================================================
