---------------------------- MODULE AccessProofs ----------------------------
(***************************************************************************)
(* Theorems about Access, for any accounts, sessions and requests.         *)
(***************************************************************************)
EXTENDS Access, TLAPS

(* Requests at work are about accounts and sessions there are.             *)
AtWork ==
  /\ \A l \in Logins : login[l].pc # "idle" => login[l].user \in Users
  /\ \A c \in Changers : changer[c].pc = "recheck"
                           => changer[c].user \in Users /\ changer[c].session \in Sessions
  /\ \A a \in Admins : admin[a].pc # "idle" => admin[a].target \in Users

TInv == TypeOK /\ AtWork

LEMMA InitTInv == Init => TInv
  <1> SUFFICES ASSUME Init PROVE TInv
    OBVIOUS
  <1> USE AccessAssumption
  <1>1. account \in [Users -> AccountRecord] /\ factor \subseteq Users /\ now \in Time
    BY DEF Init, AccountRecord, Time, Roles
  <1>2. session \in [Sessions -> SessionRecord]
    BY DEF Init, NoRow, SessionRecord, Time, Roles
  <1>3. login \in [Logins -> LoginRecord]
    BY DEF Init, NoLogin, LoginRecord, Time, Roles
  <1>4. changer \in [Changers -> ChangerRecord]
    BY DEF Init, NoChange, ChangerRecord
  <1>5. admin \in [Admins -> AdminRecord]
    BY DEF Init, NoUpdate, AdminRecord, Updates, Roles
  <1>6. row \in [Users -> Admins \cup {Nobody}] /\ crossed \in BOOLEAN
    BY DEF Init
  <1>7. AtWork
    BY DEF Init, AtWork, NoLogin, NoChange, NoUpdate
  <1>8. /\ \A s \in Sessions : session[s].state = "live" => session[s].user \in Users
        /\ \A a \in Admins : admin[a].pc = "commit" => row[admin[a].target] = a
    BY DEF Init, NoRow, NoUpdate
  <1> QED
    BY <1>1, <1>2, <1>3, <1>4, <1>5, <1>6, <1>7, <1>8 DEF TInv, TypeOK

(* The records a request leaves behind.                                    *)
LEMMA IdleRecords ==
  /\ NoLogin \in LoginRecord /\ NoLogin.pc = "idle"
  /\ NoChange \in ChangerRecord /\ NoChange.pc = "idle"
  /\ NoUpdate \in AdminRecord /\ NoUpdate.pc = "idle"
  /\ RevokedRow \in SessionRecord /\ RevokedRow.state = "revoked"
  <1> USE AccessAssumption
  <1>1. /\ 0 \in Time /\ "manager" \in Roles /\ "reset" \in Updates
    BY DEF Time, Roles, Updates
  <1>2. NoLogin \in LoginRecord /\ NoLogin.pc = "idle"
    BY <1>1 DEF NoLogin, LoginRecord
  <1>3. NoChange \in ChangerRecord /\ NoChange.pc = "idle"
    BY DEF NoChange, ChangerRecord
  <1>4. NoUpdate \in AdminRecord /\ NoUpdate.pc = "idle"
    BY <1>1 DEF NoUpdate, AdminRecord
  <1>5. NoRow \in SessionRecord
    BY <1>1 DEF NoRow, SessionRecord
  <1>6. RevokedRow \in SessionRecord /\ RevokedRow.state = "revoked"
    BY <1>5 DEF RevokedRow, SessionRecord
  <1> QED
    BY <1>2, <1>3, <1>4, <1>6

(* The rows that Revoked leaves.                                           *)
LEMMA RevokedRows ==
  ASSUME TInv, NEW u \in Users, NEW keep
  PROVE  /\ Revoked(u, keep) \in [Sessions -> SessionRecord]
         /\ \A s \in Sessions :
              Revoked(u, keep)[s].state = "live"
                => /\ Revoked(u, keep)[s] = session[s]
                   /\ session[s].user # u \/ s = keep
  <1>1. RevokedRow \in SessionRecord /\ RevokedRow.state # "live"
    BY IdleRecords
  <1>2. session \in [Sessions -> SessionRecord]
    BY DEF TInv, TypeOK
  <1> QED
    BY <1>1, <1>2 DEF Revoked

LEMMA SignInTInv ==
  ASSUME TInv, NEW l \in Logins, SignInStep(l)
  PROVE  TInv'
  <1> USE AccessAssumption
  <1>0. /\ account \in [Users -> AccountRecord]
        /\ session \in [Sessions -> SessionRecord]
        /\ login \in [Logins -> LoginRecord] /\ login[l] \in LoginRecord
        /\ now \in Time
    BY DEF TInv, TypeOK
  <1>1. UNCHANGED <<account, factor, changer, admin, row, now, crossed>>
    BY DEF SignInStep, CheckPassword, CompleteMfa, GiveUp, Issue
  <1>2. /\ login' \in [Logins -> LoginRecord]
        /\ \A k \in Logins : login'[k].pc # "idle" => login'[k].user \in Users
    <2>1. CASE CheckPassword(l)
      <3>1. PICK u \in Users :
              \/ login' = [login EXCEPT ![l] =
                   [pc |-> "issue", user |-> u, role |-> account[u].role,
                    hash |-> account[u].hash, at |-> now]]
              \/ login' = [login EXCEPT ![l] =
                   [NoLogin EXCEPT !.pc = "challenged", !.user = u, !.hash = account[u].hash]]
        BY <2>1 DEF CheckPassword
      <3>2. account[u].role \in Roles /\ account[u].hash \in Time
        BY <1>0 DEF AccountRecord
      <3>3. PICK rec \in LoginRecord : rec.user = u /\ login' = [login EXCEPT ![l] = rec]
        <4>1. [pc |-> "issue", user |-> u, role |-> account[u].role,
               hash |-> account[u].hash, at |-> now] \in LoginRecord
          BY <1>0, <3>2 DEF LoginRecord
        <4>2. [NoLogin EXCEPT !.pc = "challenged", !.user = u, !.hash = account[u].hash]
                \in LoginRecord
          BY <3>2, IdleRecords DEF LoginRecord
        <4>3. [NoLogin EXCEPT !.pc = "challenged", !.user = u,
                              !.hash = account[u].hash].user = u
          BY DEF NoLogin
        <4> QED
          BY <3>1, <4>1, <4>2, <4>3
      <3> QED
        BY <1>0, <3>3 DEF TInv, AtWork
    <2>2. CASE CompleteMfa(l)
      <3>1. login[l].user \in Users
        BY <2>2 DEF CompleteMfa, TInv, AtWork
      <3>2. account[login[l].user].role \in Roles
        BY <1>0, <3>1 DEF AccountRecord
      <3> QED
        BY <1>0, <2>2, <3>1, <3>2, IdleRecords DEF CompleteMfa, LoginRecord, TInv, AtWork
    <2>3. CASE GiveUp(l) \/ Issue(l)
      BY <1>0, <2>3, IdleRecords DEF GiveUp, Issue, TInv, AtWork
    <2> QED
      BY <2>1, <2>2, <2>3 DEF SignInStep
  <1>3. /\ session' \in [Sessions -> SessionRecord]
        /\ \A s \in Sessions : session'[s].state = "live" => session'[s].user \in Users
    <2>1. CASE Issue(l)
      <3>1. login[l].user \in Users
        BY <2>1 DEF Issue, TInv, AtWork
      <3>2. PICK s \in Sessions : session' = [session EXCEPT ![s] =
              [state |-> "live", user |-> login[l].user, role |-> login[l].role,
               hash |-> login[l].hash, at |-> now,
               late |-> login[l].at < account[login[l].user].ended]]
        BY <2>1 DEF Issue
      <3>3. [state |-> "live", user |-> login[l].user, role |-> login[l].role,
             hash |-> login[l].hash, at |-> now,
             late |-> login[l].at < account[login[l].user].ended] \in SessionRecord
        BY <1>0, <3>1 DEF SessionRecord, LoginRecord
      <3> QED
        BY <1>0, <3>1, <3>2, <3>3 DEF TInv, TypeOK
    <2>2. CASE ~Issue(l)
      <3>1. session' = session
        BY <2>2 DEF SignInStep, CheckPassword, CompleteMfa, GiveUp
      <3> QED
        BY <3>1 DEF TInv, TypeOK
    <2> QED
      BY <2>1, <2>2
  <1> QED
    BY <1>1, <1>2, <1>3 DEF TInv, TypeOK, AtWork

LEMMA SignOutTInv ==
  ASSUME TInv, NEW s \in Sessions, SignOut(s) \/ SignOutOthers(s)
  PROVE  TInv'
  <1>1. /\ session' \in [Sessions -> SessionRecord]
        /\ \A x \in Sessions : session'[x].state = "live" => session'[x].user \in Users
    <2>1. CASE SignOut(s)
      BY <2>1, IdleRecords DEF SignOut, TInv, TypeOK
    <2>2. CASE SignOutOthers(s)
      <3>1. session[s].user \in Users
        BY <2>2 DEF SignOutOthers, Admitted, TInv, TypeOK
      <3> QED
        BY <2>2, <3>1, RevokedRows DEF SignOutOthers, TInv, TypeOK
    <2> QED
      BY <2>1, <2>2
  <1>2. UNCHANGED <<account, factor, login, changer, admin, row, now, crossed>>
    BY DEF SignOut, SignOutOthers
  <1> QED
    BY <1>1, <1>2 DEF TInv, TypeOK, AtWork

(* What a password change does.                                            *)
LEMMA ChangeEffect ==
  ASSUME TInv, NEW c \in Changers, ChangePassword(c)
  PROVE  /\ changer[c].user \in Users /\ changer[c].session \in Sessions
         /\ now' = now + 1 /\ now' \in Time
         /\ account' = [account EXCEPT ![changer[c].user] =
              [account[changer[c].user] EXCEPT !.hash = now', !.ended = now']]
         /\ account' \in [Users -> AccountRecord]
         /\ session' \in [Sessions -> SessionRecord]
         /\ \A s \in Sessions :
              session'[s].state = "live"
                => /\ session[s].state = "live"
                   /\ session'[s].user = session[s].user
                   /\ session'[s].role = session[s].role
                   /\ session'[s].late = session[s].late
                   /\ \/ s = changer[c].session /\ session'[s].at = now' /\ session'[s].hash = now'
                      \/ session[s].user # changer[c].user /\ session'[s] = session[s]
  <1> DEFINE u == changer[c].user
             k == changer[c].session
  <1>0. /\ account \in [Users -> AccountRecord] /\ now \in Time
        /\ session \in [Sessions -> SessionRecord]
    BY DEF TInv, TypeOK
  <1>1. u \in Users /\ k \in Sessions
    BY DEF TInv, AtWork, ChangePassword
  <1>2. now' = now + 1 /\ now' \in Time
    BY <1>0, AccessAssumption DEF ChangePassword, Time
  <1>3. account' = [account EXCEPT ![u] = [account[u] EXCEPT !.hash = now', !.ended = now']]
    BY <1>0, <1>1 DEF ChangePassword, AccountRecord
  <1>4. [account[u] EXCEPT !.hash = now', !.ended = now'] \in AccountRecord
    BY <1>0, <1>1, <1>2 DEF AccountRecord
  <1>5. account' \in [Users -> AccountRecord]
    BY <1>0, <1>3, <1>4
  <1> DEFINE R == Revoked(u, k)
  <1>6. /\ R \in [Sessions -> SessionRecord]
        /\ \A s \in Sessions : R[s].state = "live"
             => R[s] = session[s] /\ (session[s].user # u \/ s = k)
    BY <1>1, RevokedRows
  <1>7. CASE session[k].state = "live"
    <2>1. R[k] = session[k]
      BY <1>1 DEF Revoked
    <2>2. session' = [R EXCEPT ![k] = [session[k] EXCEPT !.hash = now', !.at = now']]
      BY <1>7, <1>6, <1>1, <2>1 DEF ChangePassword, SessionRecord
    <2>3. [session[k] EXCEPT !.hash = now', !.at = now'] \in SessionRecord
      BY <1>0, <1>1, <1>2 DEF SessionRecord
    <2> HIDE DEF R
    <2>4. session' \in [Sessions -> SessionRecord]
      BY <2>2, <2>3, <1>6
    <2>5. session'[k] = [session[k] EXCEPT !.hash = now', !.at = now']
      BY <2>2, <1>1, <1>6
    <2>6. /\ session'[k].user = session[k].user /\ session'[k].role = session[k].role
          /\ session'[k].late = session[k].late /\ session'[k].at = now'
          /\ session'[k].hash = now'
      BY <2>5, <1>0, <1>1 DEF SessionRecord
    <2>7. \A s \in Sessions : s # k => session'[s] = R[s]
      BY <2>2, <1>6
    <2> QED
      BY <1>1, <1>2, <1>3, <1>5, <1>6, <1>7, <2>4, <2>6, <2>7
  <1>8. CASE session[k].state # "live"
    <2>1. session' = R
      BY <1>8 DEF ChangePassword
    <2> QED
      BY <1>1, <1>2, <1>3, <1>5, <1>6, <1>8, <2>1
  <1> QED
    BY <1>7, <1>8

LEMMA ChangeTInv ==
  ASSUME TInv, NEW c \in Changers, Recheck(c) \/ ChangePassword(c)
  PROVE  TInv'
  <1>1. CASE Recheck(c)
    <2>1. PICK s \in Sessions : /\ Admitted(s)
                               /\ changer' = [changer EXCEPT ![c] =
                                    [pc |-> "recheck", session |-> s, user |-> session[s].user]]
      BY <1>1 DEF Recheck
    <2>2. session[s].user \in Users
      BY <2>1 DEF Admitted, TInv, TypeOK
    <2>3. [pc |-> "recheck", session |-> s, user |-> session[s].user] \in ChangerRecord
      BY <2>2 DEF ChangerRecord
    <2>4. UNCHANGED <<account, factor, session, login, admin, row, now, crossed>>
      BY <1>1 DEF Recheck
    <2> QED
      BY <2>1, <2>2, <2>3, <2>4 DEF TInv, TypeOK, AtWork
  <1>2. CASE ChangePassword(c)
    <2>1. UNCHANGED <<factor, login, admin, row, crossed>> /\ changer' = [changer EXCEPT ![c] = NoChange]
      BY <1>2 DEF ChangePassword
    <2>2. /\ now' \in Time /\ account' \in [Users -> AccountRecord]
          /\ session' \in [Sessions -> SessionRecord]
          /\ \A s \in Sessions : session'[s].state = "live" => session'[s].user \in Users
      BY <1>2, ChangeEffect DEF TInv, TypeOK
    <2> QED
      BY <2>1, <2>2, IdleRecords DEF TInv, TypeOK, AtWork
  <1> QED
    BY <1>1, <1>2

(* What each kind of update makes of an account.                           *)
LEMMA UpdatedRecord ==
  ASSUME TInv, now < MaxChanges, NEW u \in Users, NEW update \in Updates
  PROVE  /\ Updated(u, update) \in AccountRecord
         /\ Updated(u, update).ended = account[u].ended
         /\ update # "reset" => Updated(u, update).hash = account[u].hash
         /\ update \notin {"demote", "promote"} => Updated(u, update).role = account[u].role
         /\ update = "demote" => Updated(u, update).role = "manager"
         /\ update = "promote" => Updated(u, update).role = "root"
         /\ update = "deactivate" => ~Updated(u, update).active
         /\ update = "reactivate" => Updated(u, update).active
         /\ update \notin {"deactivate", "reactivate"}
              => Updated(u, update).active = account[u].active
  <1>1. account[u] \in AccountRecord /\ now + 1 \in Time
    BY AccessAssumption DEF TInv, TypeOK, Time
  <1>2. "manager" \in Roles /\ "root" \in Roles
    BY DEF Roles
  <1>3. CASE update = "deactivate"
    BY <1>1, <1>3 DEF Updated, AccountRecord
  <1>4. CASE update = "reactivate"
    BY <1>1, <1>4 DEF Updated, AccountRecord
  <1>5. CASE update = "demote"
    BY <1>1, <1>2, <1>5 DEF Updated, AccountRecord
  <1>6. CASE update = "promote"
    BY <1>1, <1>2, <1>6 DEF Updated, AccountRecord
  <1>7. CASE update = "reset"
    BY <1>1, <1>7 DEF Updated, AccountRecord
  <1> QED
    BY <1>3, <1>4, <1>5, <1>6, <1>7 DEF Updates

(* What an update does when it commits.                                    *)
LEMMA CommitEffect ==
  ASSUME TInv, NEW a \in Admins, CommitUpdate(a)
  PROVE  LET u   == admin[a].target
             new == Updated(u, admin[a].update)
         IN /\ u \in Users /\ admin[a].update \in Updates /\ now < MaxChanges
            /\ account' \in [Users -> AccountRecord] /\ now' \in Time
            /\ \A v \in Users : v # u => account'[v] = account[v]
            /\ account'[u].role = new.role /\ account'[u].hash = new.hash
            /\ account'[u].active = new.active
            /\ \/ now' = now + 1 /\ account'[u].ended = now'
               \/ now' = now /\ account'[u].ended = account[u].ended
                    /\ ~Matters(account[u], new)
            /\ session' \in [Sessions -> SessionRecord]
            /\ \A s \in Sessions :
                 session'[s].state = "live"
                   => session'[s] = session[s] /\ (Ends(a) => session[s].user # u)
  <1> DEFINE u   == admin[a].target
             new == Updated(u, admin[a].update)
  <1>1. u \in Users /\ admin[a].update \in Updates /\ now < MaxChanges
    BY DEF TInv, TypeOK, AtWork, CommitUpdate, AdminRecord
  <1>2. new \in AccountRecord /\ new.ended = account[u].ended
    BY <1>1, UpdatedRecord
  <1>3. account \in [Users -> AccountRecord] /\ now \in Time
    BY DEF TInv, TypeOK
  <1>4. /\ account' \in [Users -> AccountRecord] /\ now' \in Time
        /\ \A v \in Users : v # u => account'[v] = account[v]
        /\ account'[u].role = new.role /\ account'[u].hash = new.hash
        /\ account'[u].active = new.active
        /\ \/ now' = now + 1 /\ account'[u].ended = now'
           \/ now' = now /\ account'[u].ended = account[u].ended
                /\ ~Matters(account[u], new)
    <2>1. CASE Matters(account[u], new)
      <3>1. now' = now + 1 /\ now' \in Time
        BY <1>1, <1>3, <2>1, AccessAssumption DEF CommitUpdate, Time
      <3> DEFINE rec == [new EXCEPT !.ended = now']
      <3>2. account' = [account EXCEPT ![u] = rec]
        BY <2>1 DEF CommitUpdate
      <3>3. /\ rec \in AccountRecord /\ rec.ended = now' /\ rec.role = new.role
            /\ rec.hash = new.hash /\ rec.active = new.active
        BY <1>2, <3>1 DEF AccountRecord
      <3> HIDE DEF rec, new, u
      <3> QED
        BY <1>1, <1>3, <3>1, <3>2, <3>3
    <2>2. CASE ~Matters(account[u], new)
      <3>1. account' = [account EXCEPT ![u] = new] /\ now' = now
        BY <2>2 DEF CommitUpdate
      <3> HIDE DEF new, u
      <3> QED
        BY <1>1, <1>2, <1>3, <2>2, <3>1
    <2> QED
      BY <2>1, <2>2
  <1>5. /\ session' \in [Sessions -> SessionRecord]
        /\ \A s \in Sessions :
             session'[s].state = "live"
               => session'[s] = session[s] /\ (Ends(a) => session[s].user # u)
    <2>1. CASE Ends(a)
      <3>1. session' = Revoked(u, NoSession)
        BY <2>1 DEF CommitUpdate
      <3> QED
        BY <1>1, <2>1, <3>1, RevokedRows, AccessAssumption
    <2>2. CASE ~Ends(a)
      BY <2>2 DEF CommitUpdate, TInv, TypeOK
    <2> QED
      BY <2>1, <2>2
  <1> QED
    BY <1>1, <1>4, <1>5

LEMMA UpdateTInv ==
  ASSUME TInv, NEW a \in Admins, UpdateStep(a)
  PROVE  TInv'
  <1>0. /\ account \in [Users -> AccountRecord]
        /\ admin \in [Admins -> AdminRecord] /\ admin[a] \in AdminRecord
        /\ row \in [Users -> Admins \cup {Nobody}]
        /\ \A b \in Admins : admin[b].pc = "commit" => row[admin[b].target] = b
        /\ \A b \in Admins : admin[b].pc # "idle" => admin[b].target \in Users
        /\ crossed \in BOOLEAN
    BY DEF TInv, TypeOK, AtWork
  <1>1. CASE BeginUpdate(a)
    <2>1. PICK u \in Users, update \in Updates :
            admin' = [admin EXCEPT ![a] =
              [pc |-> "lock", target |-> u, update |-> update, before |-> "manager"]]
      BY <1>1 DEF BeginUpdate
    <2>2. [pc |-> "lock", target |-> u, update |-> update, before |-> "manager"]
            \in AdminRecord
      BY DEF AdminRecord, Roles
    <2>3. UNCHANGED <<account, factor, session, login, changer, row, now, crossed>>
      BY <1>1 DEF BeginUpdate
    <2> QED
      BY <1>0, <2>1, <2>2, <2>3 DEF TInv, TypeOK, AtWork
  <1>2. CASE LockAndCount(a)
    <2>1. UNCHANGED <<account, factor, session, login, changer, now>> /\ crossed' \in BOOLEAN
      BY <1>0, <1>2 DEF LockAndCount
    <2>2. \/ admin' = [admin EXCEPT ![a] = NoUpdate] /\ row' = row
          \/ /\ admin' = [admin EXCEPT ![a].pc = "commit",
                                       ![a].before = account[admin[a].target].role]
             /\ row' = [row EXCEPT ![admin[a].target] = a]
      BY <1>2 DEF LockAndCount
    <2>3. admin[a].target \in Users /\ row[admin[a].target] = Nobody
      BY <1>0, <1>2 DEF LockAndCount, RowIsFree
    <2>4. account[admin[a].target].role \in Roles
      BY <1>0, <2>3 DEF AccountRecord
    <2>5. /\ admin' \in [Admins -> AdminRecord]
          /\ row' \in [Users -> Admins \cup {Nobody}]
          /\ \A b \in Admins : admin'[b].pc = "commit" => row'[admin'[b].target] = b
          /\ \A b \in Admins : admin'[b].pc # "idle" => admin'[b].target \in Users
      <3>1. CASE admin' = [admin EXCEPT ![a] = NoUpdate] /\ row' = row
        BY <1>0, <3>1, IdleRecords
      <3>2. CASE /\ admin' = [admin EXCEPT ![a].pc = "commit",
                                          ![a].before = account[admin[a].target].role]
                 /\ row' = [row EXCEPT ![admin[a].target] = a]
        BY <1>0, <2>3, <2>4, <3>2, AccessAssumption DEF AdminRecord
      <3> QED
        BY <2>2, <3>1, <3>2
    <2> QED
      BY <2>1, <2>5 DEF TInv, TypeOK, AtWork
  <1>3. CASE CommitUpdate(a)
    <2>1. /\ UNCHANGED <<factor, login, changer, crossed>>
          /\ admin' = [admin EXCEPT ![a] = NoUpdate]
          /\ row' = [row EXCEPT ![admin[a].target] = Nobody]
          /\ row[admin[a].target] = a
      BY <1>0, <1>3 DEF CommitUpdate
    <2>2. /\ account' \in [Users -> AccountRecord] /\ now' \in Time
          /\ session' \in [Sessions -> SessionRecord]
          /\ \A s \in Sessions : session'[s].state = "live" => session'[s].user \in Users
      BY <1>3, CommitEffect DEF TInv, TypeOK
    <2>3. /\ admin' \in [Admins -> AdminRecord]
          /\ row' \in [Users -> Admins \cup {Nobody}]
          /\ \A b \in Admins : admin'[b].pc = "commit" => row'[admin'[b].target] = b
          /\ \A b \in Admins : admin'[b].pc # "idle" => admin'[b].target \in Users
      BY <1>0, <2>1, IdleRecords
    <2> QED
      BY <2>1, <2>2, <2>3 DEF TInv, TypeOK, AtWork
  <1> QED
    BY <1>1, <1>2, <1>3 DEF UpdateStep

LEMMA NextTInv == TInv /\ [Next]_vars => TInv'
  <1> SUFFICES ASSUME TInv, [Next]_vars PROVE TInv'
    OBVIOUS
  <1>1. CASE UNCHANGED vars
    BY <1>1 DEF vars, TInv, TypeOK, AtWork
  <1>2. CASE Next
    BY <1>2, SignInTInv, SignOutTInv, ChangeTInv, UpdateTInv DEF Next
  <1> QED
    BY <1>1, <1>2

(* Accounts, sessions and requests keep their types, and whoever is about  *)
(* to commit an update holds the lock of the account's row.                *)
THEOREM TypeCorrect == Spec => []TypeOK
  <1>1. TInv => TypeOK
    BY DEF TInv
  <1> QED
    BY <1>1, InitTInv, NextTInv, PTL DEF Spec

-----------------------------------------------------------------------------
(* Sessions and the accounts they are of.                                  *)

(* A change is in the past, and so is every read a request goes by.        *)
EndedInv == \A u \in Users : account[u].ended \leq now

Matches(u, role, hash) == account[u].role = role /\ account[u].hash = hash

(* A login about to issue its session read the account as it is, unless it *)
(* has changed since.                                                      *)
LoginInv ==
  \A l \in Logins :
    login[l].pc = "issue"
      => /\ login[l].at \leq now
         /\ login[l].at \geq account[login[l].user].ended
              => Matches(login[l].user, login[l].role, login[l].hash)

(* What holds of the sessions let in holds of every live one, those of     *)
(* inactive accounts included: that is why deactivation revokes them.      *)
LiveInv ==
  \A s \in Sessions :
    session[s].state = "live"
      => /\ session[s].at \geq account[session[s].user].ended
         /\ session[s].late \/ Matches(session[s].user, session[s].role, session[s].hash)

(* A password change comes from a session of its account.                  *)
OwnInv ==
  \A c \in Changers :
    changer[c].pc = "recheck"
      => /\ session[changer[c].session].state # "none"
         /\ session[changer[c].session].state = "live"
              => session[changer[c].session].user = changer[c].user

(* The role read behind the lock is the role until the update commits.     *)
LockedInv ==
  \A a \in Admins : admin[a].pc = "commit" => account[admin[a].target].role = admin[a].before

SInv == TInv /\ EndedInv /\ LoginInv /\ LiveInv /\ OwnInv /\ LockedInv

LEMMA InitSInv == Init => SInv
  <1> SUFFICES ASSUME Init PROVE SInv
    OBVIOUS
  <1>1. TInv
    BY InitTInv
  <1>2. EndedInv
    BY DEF Init, EndedInv
  <1>3. LoginInv /\ LiveInv /\ OwnInv /\ LockedInv
    BY <1>1 DEF Init, LoginInv, LiveInv, OwnInv, LockedInv, NoLogin, NoRow, NoChange, NoUpdate,
                TInv, AtWork
  <1> QED
    BY <1>1, <1>2, <1>3 DEF SInv

LEMMA SignInSInv ==
  ASSUME SInv, NEW l \in Logins, SignInStep(l)
  PROVE  SInv'
  <1>1. TInv'
    BY SignInTInv DEF SInv
  <1>2. UNCHANGED <<account, factor, changer, admin, row, now>>
    BY DEF SignInStep, CheckPassword, CompleteMfa, GiveUp, Issue
  <1>3. EndedInv' /\ LockedInv'
    BY <1>2 DEF SInv, EndedInv, LockedInv
  <1>4. /\ account \in [Users -> AccountRecord]
        /\ login \in [Logins -> LoginRecord] /\ login[l] \in LoginRecord
        /\ session \in [Sessions -> SessionRecord] /\ now \in Nat
    BY DEF SInv, TInv, TypeOK, Time
  <1>5. LoginInv'
    <2>1. CASE CheckPassword(l)
      <3>1. PICK u \in Users :
              \/ login' = [login EXCEPT ![l] =
                   [pc |-> "issue", user |-> u, role |-> account[u].role,
                    hash |-> account[u].hash, at |-> now]]
              \/ login' = [login EXCEPT ![l] =
                   [NoLogin EXCEPT !.pc = "challenged", !.user = u, !.hash = account[u].hash]]
        BY <2>1 DEF CheckPassword
      <3>2. [NoLogin EXCEPT !.pc = "challenged", !.user = u, !.hash = account[u].hash].pc
              = "challenged"
        BY DEF NoLogin
      <3>3. \A k \in Logins : k # l => login'[k] = login[k]
        BY <1>4, <3>1
      <3> DEFINE chal == [NoLogin EXCEPT !.pc = "challenged", !.user = u,
                                         !.hash = account[u].hash]
      <3> HIDE DEF chal
      <3>4. chal.pc = "challenged"
        BY <3>2 DEF chal
      <3>5. \/ login'[l] = [pc |-> "issue", user |-> u, role |-> account[u].role,
                             hash |-> account[u].hash, at |-> now]
            \/ login'[l] = chal
        BY <1>4, <3>1 DEF chal
      <3>6. login'[l].pc = "issue"
              => /\ login'[l].user = u /\ login'[l].role = account[u].role
                 /\ login'[l].hash = account[u].hash /\ login'[l].at = now
        BY <3>4, <3>5
      <3> QED
        BY <1>2, <1>4, <3>3, <3>6 DEF SInv, LoginInv, Matches
    <2>2. CASE CompleteMfa(l)
      <3>1. CASE account[login[l].user].active /\ GoodChallenge(l)
        <4>1. login' = [login EXCEPT ![l].pc = "issue",
                                     ![l].role = account[login[l].user].role, ![l].at = now]
          BY <2>2, <3>1 DEF CompleteMfa
        <4>2. /\ login'[l].user = login[l].user /\ login'[l].hash = login[l].hash
              /\ login'[l].role = account[login[l].user].role /\ login'[l].at = now
          BY <1>4, <4>1 DEF LoginRecord
        <4>3. \A k \in Logins : k # l => login'[k] = login[k]
          BY <1>4, <4>1
        <4> QED
          BY <1>2, <1>4, <3>1, <4>2, <4>3 DEF SInv, LoginInv, Matches, GoodChallenge
      <3>2. CASE ~(account[login[l].user].active /\ GoodChallenge(l))
        BY <1>2, <1>4, <2>2, <3>2, IdleRecords DEF CompleteMfa, SInv, LoginInv, Matches
      <3> QED
        BY <3>1, <3>2
    <2>3. CASE GiveUp(l) \/ Issue(l)
      BY <1>2, <1>4, <2>3, IdleRecords DEF GiveUp, Issue, SInv, LoginInv, Matches
    <2> QED
      BY <2>1, <2>2, <2>3 DEF SignInStep
  <1>6. LiveInv' /\ OwnInv'
    <2>1. CASE Issue(l)
      <3>1. PICK s \in Sessions :
              /\ session[s].state = "none"
              /\ session' = [session EXCEPT ![s] =
                   [state |-> "live", user |-> login[l].user, role |-> login[l].role,
                    hash |-> login[l].hash, at |-> now,
                    late |-> login[l].at < account[login[l].user].ended]]
        BY <2>1 DEF Issue
      <3>2. /\ session'[s].user = login[l].user /\ session'[s].role = login[l].role
            /\ session'[s].hash = login[l].hash /\ session'[s].at = now
            /\ session'[s].late <=> login[l].at < account[login[l].user].ended
        BY <1>4, <3>1
      <3>3. \A x \in Sessions : x # s => session'[x] = session[x]
        BY <1>4, <3>1
      <3>4. login[l].user \in Users /\ login[l].pc = "issue"
        BY <2>1 DEF Issue, SInv, TInv, AtWork
      <3>5. account[login[l].user].ended \in Nat /\ login[l].at \in Nat
        BY <1>4, <3>4 DEF AccountRecord, LoginRecord, Time
      <3>6. LiveInv'
        <4>1. session'[s].at \geq account[login[l].user].ended
          BY <3>2, <3>4 DEF SInv, EndedInv
        <4>2. session'[s].late \/ Matches(login[l].user, login[l].role, login[l].hash)
          BY <3>2, <3>4, <3>5 DEF SInv, LoginInv
        <4>3. \A x \in Sessions : session[x].state = "live"
                => /\ session[x].at \geq account[session[x].user].ended
                   /\ session[x].late
                        \/ Matches(session[x].user, session[x].role, session[x].hash)
          BY DEF SInv, LiveInv
        <4> QED
          BY <1>2, <3>2, <3>3, <4>1, <4>2, <4>3 DEF LiveInv, Matches
      <3>7. OwnInv'
        <4> SUFFICES ASSUME NEW c \in Changers, changer'[c].pc = "recheck"
                     PROVE  /\ session'[changer'[c].session].state # "none"
                            /\ session'[changer'[c].session].state = "live"
                                 => session'[changer'[c].session].user = changer'[c].user
          BY DEF OwnInv
        <4>1. changer[c].session \in Sessions /\ changer'[c] = changer[c]
          BY <1>2 DEF SInv, TInv, AtWork
        <4>2. changer[c].session # s
          BY <1>2, <3>1, <4>1 DEF SInv, OwnInv
        <4> QED
          BY <1>2, <3>3, <4>1, <4>2 DEF SInv, OwnInv
      <3> QED
        BY <3>6, <3>7
    <2>2. CASE ~Issue(l)
      <3>1. session' = session
        BY <2>2 DEF SignInStep, CheckPassword, CompleteMfa, GiveUp
      <3> QED
        BY <1>2, <3>1 DEF SInv, LiveInv, OwnInv, Matches
    <2> QED
      BY <2>1, <2>2
  <1> QED
    BY <1>1, <1>3, <1>5, <1>6 DEF SInv

LEMMA SignOutSInv ==
  ASSUME SInv, NEW s \in Sessions, SignOut(s) \/ SignOutOthers(s)
  PROVE  SInv'
  <1>1. TInv'
    BY SignOutTInv DEF SInv
  <1>2. UNCHANGED <<account, factor, login, changer, admin, row, now>>
    BY DEF SignOut, SignOutOthers
  <1>3. \A x \in Sessions : \/ session'[x] = session[x]
                           \/ session'[x].state = "revoked"
    <2>1. CASE SignOut(s)
      BY <2>1, IdleRecords DEF SignOut, SInv, TInv, TypeOK
    <2>2. CASE SignOutOthers(s)
      BY <2>2, IdleRecords DEF SignOutOthers, Revoked
    <2> QED
      BY <2>1, <2>2
  <1>4. EndedInv' /\ LoginInv' /\ LockedInv'
    BY <1>2 DEF SInv, EndedInv, LoginInv, LockedInv, Matches
  <1>5. LiveInv'
    BY <1>2, <1>3 DEF SInv, LiveInv, Matches
  <1>6. OwnInv'
    BY <1>2, <1>3 DEF SInv, OwnInv, TInv, AtWork
  <1> QED
    BY <1>1, <1>4, <1>5, <1>6 DEF SInv

(* Other requests at work go by what has not changed, or know that it has. *)
LEMMA LoginsStay ==
  ASSUME SInv, NEW u \in Users, login' = login, now' \in Nat,
         \A v \in Users : v # u => account'[v] = account[v],
         \/ now' = now + 1 /\ account'[u].ended = now'
         \/ now' = now /\ account'[u].ended = account[u].ended
              /\ account'[u].role = account[u].role /\ account'[u].hash = account[u].hash
  PROVE  EndedInv' /\ LoginInv'
  <1>1. now \in Nat /\ \A v \in Users : account[v].ended \in Nat
    BY DEF SInv, TInv, TypeOK, AccountRecord, Time
  <1>2. EndedInv'
    BY <1>1 DEF SInv, EndedInv
  <1>3. LoginInv'
    <2> SUFFICES ASSUME NEW l \in Logins, login'[l].pc = "issue"
                 PROVE  /\ login'[l].at \leq now'
                        /\ login'[l].at \geq account'[login'[l].user].ended
                             => /\ account'[login'[l].user].role = login'[l].role
                                /\ account'[login'[l].user].hash = login'[l].hash
      BY DEF LoginInv, Matches
    <2>1. login[l].user \in Users /\ login[l].at \in Nat
      BY DEF SInv, TInv, AtWork, TypeOK, LoginRecord, Time
    <2>2. /\ login[l].at \leq now
          /\ login[l].at \geq account[login[l].user].ended
               => /\ account[login[l].user].role = login[l].role
                  /\ account[login[l].user].hash = login[l].hash
      BY DEF SInv, LoginInv, Matches
    <2>3. CASE login[l].user # u
      BY <1>1, <2>1, <2>2, <2>3
    <2>4. CASE login[l].user = u
      BY <1>1, <2>1, <2>2, <2>4
    <2> QED
      BY <2>3, <2>4
  <1> QED
    BY <1>2, <1>3

(* A row that was inserted stays.                                          *)
LEMMA NoneStays ==
  ASSUME TInv, NEW c \in Changers, ChangePassword(c),
         NEW s \in Sessions, session[s].state # "none"
  PROVE  session'[s].state # "none"
  <1> DEFINE R == Revoked(changer[c].user, changer[c].session)
  <1>1. session \in [Sessions -> SessionRecord]
    BY DEF TInv, TypeOK
  <1>2. R[s].state # "none" /\ R \in [Sessions -> SessionRecord]
    BY <1>1, IdleRecords DEF Revoked
  <1> HIDE DEF R
  <1>3. \/ session' = R
        \/ session' = [R EXCEPT ![changer[c].session].hash = now',
                                ![changer[c].session].at = now']
    BY DEF ChangePassword, R
  <1> QED
    BY <1>2, <1>3 DEF SessionRecord

LEMMA ChangeSInv ==
  ASSUME SInv, NEW c \in Changers, Recheck(c) \/ ChangePassword(c)
  PROVE  SInv'
  <1>1. TInv'
    BY ChangeTInv DEF SInv
  <1>2. CASE Recheck(c)
    <2>1. PICK s \in Sessions : /\ Admitted(s)
                               /\ changer' = [changer EXCEPT ![c] =
                                    [pc |-> "recheck", session |-> s, user |-> session[s].user]]
      BY <1>2 DEF Recheck
    <2>2. UNCHANGED <<account, factor, session, login, admin, row, now>>
      BY <1>2 DEF Recheck
    <2>3. OwnInv'
      BY <2>1, <2>2 DEF SInv, OwnInv, Admitted, TInv, TypeOK
    <2> QED
      BY <1>1, <2>2, <2>3 DEF SInv, EndedInv, LoginInv, LiveInv, LockedInv, Matches
  <1>3. CASE ChangePassword(c)
    <2> DEFINE u == changer[c].user
               k == changer[c].session
    <2>1. UNCHANGED <<factor, login, admin, row>> /\ changer' = [changer EXCEPT ![c] = NoChange]
      BY <1>3 DEF ChangePassword
    <2>0. /\ u \in Users /\ k \in Sessions /\ now' = now + 1 /\ now' \in Nat /\ now \in Nat
      <3>1. TInv /\ now \in Time
        BY DEF SInv, TInv, TypeOK
      <3>2. u \in Users /\ k \in Sessions /\ now' = now + 1 /\ now' \in Time
        BY <1>3, <3>1, ChangeEffect, Zenon
      <3> QED
        BY <3>1, <3>2 DEF Time
    <2>2. /\ u \in Users /\ k \in Sessions /\ now' = now + 1 /\ now' \in Nat /\ now \in Nat
          /\ \A s \in Sessions :
               session'[s].state = "live"
                 => /\ session[s].state = "live"
                    /\ session'[s].user = session[s].user
                    /\ session'[s].role = session[s].role
                    /\ session'[s].late = session[s].late
                    /\ \/ s = k /\ session'[s].at = now' /\ session'[s].hash = now'
                       \/ session[s].user # u /\ session'[s] = session[s]
      <3>1. TInv
        BY DEF SInv
      <3> QED
        BY <1>3, <2>0, <3>1, ChangeEffect, Zenon
    <2>3. account \in [Users -> AccountRecord]
          /\ account' = [account EXCEPT ![u] = [account[u] EXCEPT !.hash = now', !.ended = now']]
      BY <1>3, ChangeEffect DEF SInv, TInv, TypeOK
    <2>4. /\ \A v \in Users : v # u => account'[v] = account[v]
          /\ account'[u].ended = now' /\ account'[u].hash = now'
          /\ account'[u].role = account[u].role
      BY <2>2, <2>3 DEF AccountRecord
    <2> HIDE DEF u, k
    <2>5. EndedInv' /\ LoginInv'
      BY <2>1, <2>2, <2>4, LoginsStay
    <2>6. LockedInv'
      BY <2>1, <2>4 DEF SInv, LockedInv, TInv, AtWork
    <2>7. LiveInv'
      <3> SUFFICES ASSUME NEW s \in Sessions, session'[s].state = "live"
                   PROVE  /\ session'[s].at \geq account'[session'[s].user].ended
                          /\ \/ session'[s].late
                             \/ /\ account'[session'[s].user].role = session'[s].role
                                /\ account'[session'[s].user].hash = session'[s].hash
        BY DEF LiveInv, Matches
      <3>1. /\ session[s].state = "live" /\ session[s].user \in Users
            /\ session[s].at \geq account[session[s].user].ended
            /\ \/ session[s].late
               \/ /\ account[session[s].user].role = session[s].role
                  /\ account[session[s].user].hash = session[s].hash
        BY <2>2 DEF SInv, LiveInv, Matches, TInv, TypeOK
      <3>2. CASE s = k /\ session'[s].at = now' /\ session'[s].hash = now'
        <4>1. session[s].user = u
          BY <1>3, <3>1, <3>2 DEF SInv, OwnInv, ChangePassword, u, k
        <4> QED
          BY <2>2, <2>4, <3>1, <3>2, <4>1
      <3>3. CASE session[s].user # u /\ session'[s] = session[s]
        BY <2>4, <3>1, <3>3
      <3> QED
        BY <2>2, <3>2, <3>3
    <2>8. OwnInv'
      <3> SUFFICES ASSUME NEW d \in Changers, changer'[d].pc = "recheck"
                   PROVE  /\ session'[changer'[d].session].state # "none"
                          /\ session'[changer'[d].session].state = "live"
                               => session'[changer'[d].session].user = changer'[d].user
        BY DEF OwnInv
      <3>1. changer'[d] = changer[d] /\ changer[d].pc = "recheck"
        BY <2>1, IdleRecords DEF SInv, TInv, TypeOK
      <3>2. changer[d].session \in Sessions /\ session[changer[d].session].state # "none"
        BY <3>1 DEF SInv, TInv, AtWork, OwnInv
      <3>3. session'[changer[d].session].state # "none"
        BY <1>3, <3>2, NoneStays DEF SInv
      <3> QED
        BY <2>2, <3>1, <3>2, <3>3 DEF SInv, OwnInv
    <2> QED
      BY <1>1, <2>5, <2>6, <2>7, <2>8 DEF SInv
  <1> QED
    BY <1>2, <1>3

LEMMA UpdateSInv ==
  ASSUME SInv, NEW a \in Admins, UpdateStep(a)
  PROVE  SInv'
  <1>1. TInv'
    BY UpdateTInv DEF SInv
  <1>2. CASE BeginUpdate(a) \/ LockAndCount(a)
    <2>1. UNCHANGED <<account, factor, session, login, changer, now>>
      BY <1>2 DEF BeginUpdate, LockAndCount
    <2>2. \A b \in Admins :
            admin'[b].pc = "commit"
              => \/ admin'[b] = admin[b]
                 \/ account[admin'[b].target].role = admin'[b].before
      <3>1. admin \in [Admins -> AdminRecord]
        BY DEF SInv, TInv, TypeOK
      <3>2. CASE BeginUpdate(a)
        BY <3>1, <3>2 DEF BeginUpdate
      <3>3. CASE LockAndCount(a)
        <4>1. \/ admin' = [admin EXCEPT ![a] = NoUpdate]
              \/ admin' = [admin EXCEPT ![a].pc = "commit",
                                       ![a].before = account[admin[a].target].role]
          BY <3>3 DEF LockAndCount
        <4> QED
          BY <3>1, <4>1, IdleRecords DEF AdminRecord
      <3> QED
        BY <1>2, <3>2, <3>3
    <2>3. LockedInv'
      BY <2>1, <2>2 DEF SInv, LockedInv
    <2> QED
      BY <1>1, <2>1, <2>3 DEF SInv, EndedInv, LoginInv, LiveInv, OwnInv, Matches
  <1>3. CASE CommitUpdate(a)
    <2> DEFINE u   == admin[a].target
               upd == admin[a].update
               new == Updated(u, upd)
    <2>0. TInv
      BY DEF SInv
    <2>1. /\ u \in Users /\ upd \in Updates /\ now < MaxChanges /\ now' \in Time
          /\ \A v \in Users : v # u => account'[v] = account[v]
          /\ account'[u].role = new.role /\ account'[u].hash = new.hash
          /\ \/ now' = now + 1 /\ account'[u].ended = now'
             \/ now' = now /\ account'[u].ended = account[u].ended
                  /\ ~Matters(account[u], new)
          /\ \A s \in Sessions :
               session'[s].state = "live"
                 => session'[s] = session[s] /\ (Ends(a) => session[s].user # u)
      BY <1>3, <2>0, CommitEffect, Zenon
    <2>2. UNCHANGED <<factor, login, changer>> /\ admin' = [admin EXCEPT ![a] = NoUpdate]
      BY <1>3 DEF CommitUpdate
    <2>3. row[u] = a /\ account[u].role = admin[a].before
      BY <1>3 DEF CommitUpdate, SInv, TInv, TypeOK, LockedInv
    <2>4. /\ upd # "reset" => new.hash = account[u].hash
          /\ upd \notin {"demote", "promote"} => new.role = account[u].role
          /\ upd = "demote" => new.role = "manager"
          /\ upd = "promote" => new.role = "root"
      BY <2>0, <2>1, UpdatedRecord, Zenon
    (* An update that ends no session changes neither role nor password.   *)
    <2>5. ~Ends(a) => new.role = account[u].role /\ new.hash = account[u].hash
      BY <2>1, <2>3, <2>4 DEF Ends, Updates
    <2>6. ~Ends(a) => now' = now /\ account'[u].ended = account[u].ended
      <3> SUFFICES ASSUME ~Ends(a)
                   PROVE  now' = now /\ account'[u].ended = account[u].ended
        OBVIOUS
      <3>1. account' = [account EXCEPT ![u] = new] /\ now' = now
        <4>1. upd = "reactivate" \/ (upd \in {"demote", "promote"})
          BY <2>1 DEF Ends, Updates
        <4>2. new.active \/ ~account[u].active \/ new.active = account[u].active
          BY <2>0, <2>1, <4>1, UpdatedRecord, Zenon
        <4>3. ~Matters(account[u], new)
          BY <2>5, <4>2 DEF Matters
        <4> QED
          BY <1>3, <4>3 DEF CommitUpdate
      <3>2. new.ended = account[u].ended
        BY <2>0, <2>1, UpdatedRecord, Zenon
      <3>3. account \in [Users -> AccountRecord]
        BY <2>0 DEF TInv, TypeOK
      <3> HIDE DEF new
      <3> QED
        BY <2>1, <3>1, <3>2, <3>3
    <2>7. ~Matters(account[u], new)
            => new.role = account[u].role /\ new.hash = account[u].hash
      BY DEF Matters
    <2> HIDE DEF u, upd, new
    <2>8. EndedInv' /\ LoginInv'
      <3>1. now' \in Nat
        BY <2>1 DEF Time
      <3>2. \/ now' = now + 1 /\ account'[u].ended = now'
            \/ now' = now /\ account'[u].ended = account[u].ended
                 /\ account'[u].role = account[u].role /\ account'[u].hash = account[u].hash
        BY <2>1, <2>7
      <3> QED
        BY <2>1, <2>2, <3>1, <3>2, LoginsStay
    <2>9. LiveInv'
      <3> SUFFICES ASSUME NEW s \in Sessions, session'[s].state = "live"
                   PROVE  /\ session'[s].at \geq account'[session'[s].user].ended
                          /\ \/ session'[s].late
                             \/ /\ account'[session'[s].user].role = session'[s].role
                                /\ account'[session'[s].user].hash = session'[s].hash
        BY DEF LiveInv, Matches
      <3>1. session'[s] = session[s] /\ (Ends(a) => session[s].user # u)
        BY <2>1
      <3>2. /\ session[s].user \in Users
            /\ session[s].at \geq account[session[s].user].ended
            /\ \/ session[s].late
               \/ /\ account[session[s].user].role = session[s].role
                  /\ account[session[s].user].hash = session[s].hash
        BY <3>1 DEF SInv, LiveInv, Matches, TInv, TypeOK
      <3>3. CASE session[s].user # u
        BY <2>1, <3>1, <3>2, <3>3
      <3>4. CASE session[s].user = u
        BY <2>1, <2>5, <2>6, <3>1, <3>2, <3>4
      <3> QED
        BY <3>3, <3>4
    <2>10. OwnInv'
      <3>1. \A s \in Sessions : session[s].state # "none" => session'[s].state # "none"
        BY <1>3, IdleRecords DEF CommitUpdate, Revoked
      <3> QED
        BY <2>1, <2>2, <3>1 DEF SInv, OwnInv, TInv, AtWork
    <2>11. LockedInv'
      <3> SUFFICES ASSUME NEW b \in Admins, admin'[b].pc = "commit"
                   PROVE  account'[admin'[b].target].role = admin'[b].before
        BY DEF LockedInv
      <3>1. b # a /\ admin'[b] = admin[b]
        BY <2>2, IdleRecords DEF SInv, TInv, TypeOK
      <3>2. row[admin[b].target] = b /\ admin[b].target \in Users
        BY <3>1 DEF SInv, TInv, TypeOK, AtWork
      <3>3. admin[b].target # u
        BY <2>3, <3>1, <3>2
      <3> QED
        BY <2>1, <3>1, <3>2, <3>3 DEF SInv, LockedInv
    <2> QED
      BY <1>1, <2>8, <2>9, <2>10, <2>11 DEF SInv
  <1> QED
    BY <1>2, <1>3 DEF UpdateStep

LEMMA NextSInv == SInv /\ [Next]_vars => SInv'
  <1> SUFFICES ASSUME SInv, [Next]_vars PROVE SInv'
    OBVIOUS
  <1>1. CASE UNCHANGED vars
    BY <1>1 DEF vars, SInv, TInv, TypeOK, AtWork, EndedInv, LoginInv, LiveInv, OwnInv,
                LockedInv, Matches
  <1>2. CASE Next
    BY <1>2, SignInSInv, SignOutSInv, ChangeSInv, UpdateSInv DEF Next
  <1> QED
    BY <1>1, <1>2

(* No session outlives a change of its account that matters: whoever is    *)
(* let in opened the session after it, or made the change from it.         *)
THEOREM SessionsEnd == Spec => []NoSessionSurvives
  <1>1. SInv => NoSessionSurvives
    BY DEF SInv, LiveInv, NoSessionSurvives, Admitted
  <1> QED
    BY <1>1, InitSInv, NextSInv, PTL DEF Spec

(* The role and the password a session was opened with are its account's,  *)
(* unless the login was slow enough for the account to change under it.    *)
THEOREM SessionsMatch == Spec => []SessionMatchesAccount
  <1>1. SInv => SessionMatchesAccount
    BY DEF SInv, LiveInv, SessionMatchesAccount, Admitted, Matches
  <1> QED
    BY <1>1, InitSInv, NextSInv, PTL DEF Spec

-----------------------------------------------------------------------------
(* The last root.                                                          *)

(* About to take a root's role or account away.                            *)
TakesRoot(a) == admin[a].pc = "commit" /\ LosingRoot(admin[a].before, admin[a].update)

(* Some active root is nobody's prey: with two of them locked and counted  *)
(* at once, each may have counted the other, and then this fails.          *)
RootInv == crossed \/ \E v \in ActiveRoots : v \notin BeingTaken

LEMMA PreyDef ==
  /\ BeingTaken = {admin[a].target : a \in {b \in Admins : TakesRoot(b)}}
  /\ BeingTaken' = {admin'[a].target : a \in {b \in Admins : TakesRoot(b)'}}
  BY DEF BeingTaken, TakesRoot, LosingRoot

(* A step that takes no root away and locks none keeps the invariant.      *)
LEMMA RootsStay ==
  ASSUME RootInv, crossed' = crossed,
         ActiveRoots \ BeingTaken \subseteq ActiveRoots',
         \A b \in Admins : TakesRoot(b)' => TakesRoot(b) /\ admin'[b].target = admin[b].target
  PROVE  RootInv'
  <1>1. BeingTaken' \subseteq BeingTaken
    BY PreyDef
  <1> QED
    BY <1>1 DEF RootInv

LEMMA NextRootInv ==
  ASSUME SInv, RootInv, [Next]_vars
  PROVE  RootInv'
  <1>0. /\ TInv
        /\ account \in [Users -> AccountRecord]
        /\ admin \in [Admins -> AdminRecord]
        /\ \A b \in Admins : admin[b].pc = "commit" => row[admin[b].target] = b
        /\ \A b \in Admins : admin[b].pc # "idle" => admin[b].target \in Users
    BY DEF SInv, TInv, TypeOK, AtWork
  <1>1. CASE UNCHANGED <<account, admin, crossed>>
    <2>1. ActiveRoots' = ActiveRoots /\ \A b \in Admins : TakesRoot(b)' <=> TakesRoot(b)
      BY <1>1 DEF ActiveRoots, TakesRoot, LosingRoot
    <2> QED
      BY <1>1, <2>1, RootsStay
  <1>2. ASSUME NEW c \in Changers, ChangePassword(c)
        PROVE  RootInv'
    <2>1. admin' = admin /\ crossed' = crossed
      BY <1>2 DEF ChangePassword
    <2>2. account' = [account EXCEPT ![changer[c].user] =
            [account[changer[c].user] EXCEPT !.hash = now', !.ended = now']]
      BY <1>0, <1>2, ChangeEffect, Zenon
    <2>3. changer[c].user \in Users
      BY <1>0, <1>2 DEF TInv, AtWork, ChangePassword
    <2>4. \A u \in Users : /\ account'[u].role = account[u].role
                           /\ account'[u].active = account[u].active
      BY <1>0, <2>2, <2>3 DEF AccountRecord
    <2>5. ActiveRoots' = ActiveRoots
      BY <2>4, Zenon DEF ActiveRoots
    <2>6. \A b \in Admins : TakesRoot(b)' <=> TakesRoot(b)
      BY <2>1 DEF TakesRoot, LosingRoot
    <2> QED
      BY <2>1, <2>5, <2>6, RootsStay
  <1>3. ASSUME NEW a \in Admins, BeginUpdate(a)
        PROVE  RootInv'
    <2>1. account' = account /\ crossed' = crossed /\ admin'[a].pc = "lock"
          /\ \A b \in Admins : b # a => admin'[b] = admin[b]
      BY <1>0, <1>3 DEF BeginUpdate
    <2>2. ActiveRoots' = ActiveRoots
      BY <2>1 DEF ActiveRoots
    <2>3. \A b \in Admins : TakesRoot(b)' => TakesRoot(b) /\ admin'[b].target = admin[b].target
      BY <2>1 DEF TakesRoot, LosingRoot
    <2> QED
      BY <2>1, <2>2, <2>3, RootsStay
  <1>4. ASSUME NEW a \in Admins, LockAndCount(a)
        PROVE  RootInv'
    <2>1. account' = account /\ \A b \in Admins : b # a => admin'[b] = admin[b]
      BY <1>0, <1>4 DEF LockAndCount
    <2>2. ActiveRoots' = ActiveRoots
      BY <2>1 DEF ActiveRoots
    <2>3. \A b \in Admins : b # a => (TakesRoot(b)' <=> TakesRoot(b))
      BY <2>1 DEF TakesRoot, LosingRoot
    <2> DEFINE u == admin[a].target
               losing == LosingRoot(account[u].role, admin[a].update)
    <2>4. CASE losing /\ OtherRoots(u) = {}
      <3>1. admin' = [admin EXCEPT ![a] = NoUpdate] /\ crossed' = crossed
        BY <1>4, <2>4 DEF LockAndCount
      <3>2. ~TakesRoot(a)'
        BY <1>0, <3>1, IdleRecords DEF TakesRoot
      <3> QED
        BY <2>1, <2>2, <2>3, <3>1, <3>2, RootsStay
    <2>5. CASE ~(losing /\ OtherRoots(u) = {})
      <3>1. /\ admin' = [admin EXCEPT ![a].pc = "commit", ![a].before = account[u].role]
            /\ crossed' = (crossed \/ (losing /\ OtherRoots(u) \subseteq BeingTaken))
        BY <1>4, <2>5 DEF LockAndCount
      <3>2. /\ admin'[a].before = account[u].role /\ admin'[a].update = admin[a].update
            /\ admin'[a].target = u
        BY <1>0, <3>1 DEF AdminRecord
      <3>3. TakesRoot(a)' => losing
        BY <3>2 DEF TakesRoot, LosingRoot
      <3>4. BeingTaken' \subseteq BeingTaken \cup {u}
        BY <2>1, <2>3, <3>2, PreyDef
      <3>5. CASE losing
        <4>1. ~crossed' => ~crossed /\ \E v \in OtherRoots(u) : v \notin BeingTaken
          BY <3>1, <3>5
        <4> QED
          BY <2>2, <3>4, <4>1 DEF RootInv, OtherRoots
      <3>6. CASE ~losing
        <4>1. BeingTaken' \subseteq BeingTaken
          BY <2>1, <2>3, <3>3, <3>6, PreyDef
        <4>2. crossed => crossed'
          BY <3>1
        <4> QED
          BY <2>2, <4>1, <4>2 DEF RootInv
      <3> QED
        BY <3>5, <3>6
    <2> QED
      BY <2>4, <2>5
  <1>5. ASSUME NEW a \in Admins, CommitUpdate(a)
        PROVE  RootInv'
    <2> DEFINE u   == admin[a].target
               upd == admin[a].update
               new == Updated(u, upd)
    <2>1. /\ u \in Users /\ upd \in Updates /\ now < MaxChanges
          /\ \A v \in Users : v # u => account'[v] = account[v]
          /\ account'[u].role = new.role /\ account'[u].active = new.active
      BY <1>0, <1>5, CommitEffect, Zenon
    <2>2. account[u].role = admin[a].before /\ admin[a].pc = "commit"
      BY <1>5 DEF CommitUpdate, SInv, LockedInv
    <2>3. /\ upd \notin {"demote", "promote"} => new.role = account[u].role
          /\ upd = "demote" => new.role = "manager"
          /\ upd = "promote" => new.role = "root"
          /\ upd = "reactivate" => new.active
          /\ upd \notin {"deactivate", "reactivate"} => (new.active <=> account[u].active)
      BY <1>0, <2>1, UpdatedRecord, Zenon
    <2>4. admin' = [admin EXCEPT ![a] = NoUpdate] /\ crossed' = crossed
      BY <1>5 DEF CommitUpdate
    <2>5. ~TakesRoot(a)' /\ \A b \in Admins : b # a => admin'[b] = admin[b]
      BY <1>0, <2>4, IdleRecords DEF TakesRoot
    <2>6. \A b \in Admins : TakesRoot(b)' => TakesRoot(b) /\ admin'[b].target = admin[b].target
      BY <2>5 DEF TakesRoot, LosingRoot
    <2>7. TakesRoot(a) => u \in BeingTaken
      BY PreyDef
    <2> HIDE DEF u, upd, new
    <2>8. ActiveRoots \ {u} \subseteq ActiveRoots'
      BY <2>1 DEF ActiveRoots
    <2>9. CASE TakesRoot(a)
      BY <2>4, <2>6, <2>7, <2>8, <2>9, RootsStay
    <2>10. CASE ~TakesRoot(a)
      <3>1. account[u].role # "root" \/ upd \notin {"deactivate", "demote"}
        BY <2>2, <2>10 DEF TakesRoot, LosingRoot, Losing, upd
      <3>2. account[u].role = "root" /\ account[u].active => new.role = "root" /\ new.active
        BY <2>1, <2>3, <3>1 DEF Updates
      <3>3. ActiveRoots \subseteq ActiveRoots'
        BY <2>1, <3>2 DEF ActiveRoots
      <3> QED
        BY <2>4, <2>6, <3>3, RootsStay
    <2> QED
      BY <2>9, <2>10
  <1>6. CASE Next
    <2>1. ASSUME NEW l \in Logins, SignInStep(l)
          PROVE  UNCHANGED <<account, admin, crossed>>
      BY <2>1 DEF SignInStep, CheckPassword, CompleteMfa, GiveUp, Issue
    <2>2. ASSUME NEW s \in Sessions, SignOut(s) \/ SignOutOthers(s)
          PROVE  UNCHANGED <<account, admin, crossed>>
      BY <2>2 DEF SignOut, SignOutOthers
    <2>3. ASSUME NEW c \in Changers, Recheck(c)
          PROVE  UNCHANGED <<account, admin, crossed>>
      BY <2>3 DEF Recheck
    <2> QED
      BY <1>1, <1>2, <1>3, <1>4, <1>5, <1>6, <2>1, <2>2, <2>3 DEF Next, UpdateStep
  <1> QED
    BY <1>1, <1>6 DEF vars

(* However many roots' updates overlap, and in whatever order they lock,   *)
(* count and commit, an active root remains, unless an update counted only *)
(* roots that others, still uncommitted, were taking away: users.ts locks  *)
(* the one row and counts the rest, and that is all it can promise.        *)
THEOREM RootStays == Spec => []RootRemains
  <1>1. Init => RootInv
    BY DEF Init, RootInv, BeingTaken, NoUpdate
  <1>2. SInv /\ RootInv /\ [Next]_vars => RootInv'
    BY NextRootInv
  <1>3. RootInv => RootRemains
    BY DEF RootInv, RootRemains
  <1> QED
    BY <1>1, <1>2, <1>3, InitSInv, NextSInv, PTL DEF Spec
=============================================================================
