---------------------------- MODULE AuthSessions ----------------------------
(***************************************************************************)
(* Local users and server-side sessions (backend/app/auth, api/auth.py),   *)
(* as concurrent transactions at READ COMMITTED.                           *)
(*                                                                         *)
(* Three facts about the database and SQLAlchemy decide what holds:        *)
(*  - require_authenticated reads the acting user into the identity map of *)
(*    the request, and a later SELECT ... FOR UPDATE of that row does not  *)
(*    refresh it;                                                          *)
(*  - SELECT ... FOR UPDATE tests its condition again on a row it had to   *)
(*    wait for, and leaves out (but keeps locked) one that fails it;       *)
(*  - an INSERT with a foreign key to a user takes a key-share lock on the *)
(*    user, for which it waits while another transaction has the row FOR   *)
(*    UPDATE.                                                              *)
(*                                                                         *)
(* Display names, token digests and times are left out; that a session is  *)
(* past its expiry is a flag the environment sets.                         *)
(***************************************************************************)
EXTENDS Integers, Sequences, FiniteSets

CONSTANTS
  Txn,           \* request threads, one database session each
  Name,          \* user names, numbered in the order of user_id
  Founder,       \* the administrators the bootstrap command has created
  Sid,           \* identities of sessions
  Password,      \* passwords
  FirstPassword, \* the one founders start with
  OpenSession,   \* sessions in which founders are logged in at first
  Request,       \* requests clients may send
  MaxRequests,   \* bound: requests admitted in a behaviour
  NoTxn, NoUser, NoRow, NoSession, NoRequest

Roles == {"ADMIN", "SOC_ANALYST", "OT_ENGINEER", "READ_ONLY"}
UserRow == [active : BOOLEAN, role : Roles, version : Nat, password : Password]

(***************************************************************************)
(* The last field of a session is no column of auth_sessions: it records   *)
(* for the properties what the row of the user held when the session was   *)
(* inserted.                                                               *)
(***************************************************************************)
SessionRow == [user : Name, revoked : BOOLEAN, expired : BOOLEAN,
               issued : [password : Password, active : BOOLEAN]]

(***************************************************************************)
(* An audit event about a user: who wrote it, and the values its details   *)
(* name, each as a set that is empty if they do not name it.               *)
(***************************************************************************)
AuditEvent == [by : Name \union {NoUser}, role : SUBSET Roles,
               active : SUBSET BOOLEAN, version : SUBSET Nat]

(***************************************************************************)
(* login: a name and a password; logout: a session; create, update and     *)
(* reset: the session of the actor, a name, and the values of the request. *)
(* In an update "same" stands for a value that is left open; rename says   *)
(* whether the display name changes.                                       *)
(***************************************************************************)
WellFormed(r) ==
  \/ r.op = "login" /\ r.name \in Name /\ r.password \in Password
  \/ r.op = "logout" /\ r.sid \in Sid
  \/ /\ r.op = "create" /\ r.sid \in Sid /\ r.name \in Name
     /\ r.role \in Roles /\ r.password \in Password
  \/ /\ r.op = "update" /\ r.sid \in Sid /\ r.name \in Name
     /\ r.role \in Roles \union {"same"} /\ r.active \in {"yes", "no", "same"}
     /\ r.rename \in BOOLEAN /\ r.expected \in Nat \ {0}
     /\ r.rename \/ r.role # "same" \/ r.active # "same"
  \/ /\ r.op = "reset" /\ r.sid \in Sid /\ r.name \in Name
     /\ r.password \in Password /\ r.expected \in Nat \ {0}

ASSUME NameAssumption    == Name \subseteq Nat /\ IsFiniteSet(Name)
ASSUME FounderAssumption ==
  /\ Founder \subseteq Name /\ Founder # {}
  /\ DOMAIN OpenSession \subseteq Sid
  /\ \A s \in DOMAIN OpenSession : OpenSession[s] \in Founder
ASSUME RequestAssumption == \A r \in Request : WellFormed(r)
ASSUME BoundAssumption   == MaxRequests \in Nat
ASSUME SentinelAssumption ==
  /\ FirstPassword \in Password
  /\ NoTxn \notin Txn
  /\ NoUser \notin Name
  /\ NoRow \notin UserRow
  /\ NoSession \notin SessionRow
  /\ NoRequest \notin Request

VARIABLES
  users,      \* local_users, NoRow for a name nobody has
  sessions,   \* auth_sessions, NoSession for an unused identity
  trail,      \* SOC audit events about the account of a user, oldest first
  lock,       \* who holds the row of a name (or its uncommitted INSERT)
  pc, req,    \* each request thread: where it is, its request,
  actor,      \* the user it acts for,
  copy,       \* its identity-map copy of the user it logs in or acts for,
  queue,      \* administrators its lock statement has yet to lock,
  admins,     \* administrators that statement has returned,
  target,     \* its copy of the user it changes,
  revoking,   \* sessions its revocation statement has found
  begun

vars == <<users, sessions, trail, lock, pc, req, actor, copy, queue, admins,
          target, revoking, begun>>
tables == <<users, sessions, trail>>

\* A new session of user n, whose row is u.
NewSession(n, u) ==
  [user |-> n, revoked |-> FALSE, expired |-> FALSE,
   issued |-> [password |-> u.password, active |-> u.active]]

\* LOCAL_USER_CREATED names role and active only.
CreatedEvent(by, role) ==
  [by |-> by, role |-> {role}, active |-> {TRUE}, version |-> {}]

NewUser(role, password) ==
  [active |-> TRUE, role |-> role, version |-> 1, password |-> password]

Init ==
  /\ users = [n \in Name |->
                IF n \in Founder
                THEN NewUser("ADMIN", FirstPassword) ELSE NoRow]
  /\ sessions = [s \in Sid |->
                   IF s \in DOMAIN OpenSession
                   THEN NewSession(OpenSession[s], users[OpenSession[s]])
                   ELSE NoSession]
  /\ trail = [n \in Name |->
                IF n \in Founder THEN <<CreatedEvent(NoUser, "ADMIN")>>
                ELSE <<>>]
  /\ lock = [n \in Name |-> NoTxn]
  /\ pc = [t \in Txn |-> "idle"]
  /\ req = [t \in Txn |-> NoRequest]
  /\ actor = [t \in Txn |-> NoUser]
  /\ copy = [t \in Txn |-> NoRow]
  /\ queue = [t \in Txn |-> {}]
  /\ admins = [t \in Txn |-> {}]
  /\ target = [t \in Txn |-> NoRow]
  /\ revoking = [t \in Txn |-> {}]
  /\ begun = 0

-----------------------------------------------------------------------------
Exists(n) == users[n] # NoRow
IsAdmin(n) == Exists(n) /\ users[n].active /\ users[n].role = "ADMIN"

\* The row can be locked, or referred to by a foreign key, by thread t.
Available(t, n) == lock[n] \in {NoTxn, t}

Goto(t, l) == pc' = [pc EXCEPT ![t] = l]

\* Mutant: the locks of a failed request stay.
Finish_KeepsLocks(t) ==
  /\ Goto(t, "idle")
  /\ lock' = lock
  /\ req' = [req EXCEPT ![t] = NoRequest]
  /\ actor' = [actor EXCEPT ![t] = NoUser]
  /\ copy' = [copy EXCEPT ![t] = NoRow]
  /\ queue' = [queue EXCEPT ![t] = {}]
  /\ admins' = [admins EXCEPT ![t] = {}]
  /\ target' = [target EXCEPT ![t] = NoRow]
  /\ revoking' = [revoking EXCEPT ![t] = {}]
  /\ UNCHANGED begun

\* The end of the database session of a request, by commit or rollback.
Finish(t) ==
  /\ Goto(t, "idle")
  /\ lock' = [n \in Name |-> IF lock[n] = t THEN NoTxn ELSE lock[n]]
  /\ req' = [req EXCEPT ![t] = NoRequest]
  /\ actor' = [actor EXCEPT ![t] = NoUser]
  /\ copy' = [copy EXCEPT ![t] = NoRow]
  /\ queue' = [queue EXCEPT ![t] = {}]
  /\ admins' = [admins EXCEPT ![t] = {}]
  /\ target' = [target EXCEPT ![t] = NoRow]
  /\ revoking' = [revoking EXCEPT ![t] = {}]
  /\ UNCHANGED begun

Fail(t) == Finish(t) /\ UNCHANGED tables

\* Bound: a login is admitted while there are unused identities for it.
IdentityLeft ==
  Cardinality({s \in Sid : sessions[s] = NoSession}) >
    Cardinality({t \in Txn : pc[t] \in {"login", "verified"}})

Begin(t) ==
  /\ pc[t] = "idle"
  /\ begun < MaxRequests
  /\ begun' = begun + 1
  /\ \E r \in Request :
       /\ r.op = "login" => IdentityLeft
       /\ req' = [req EXCEPT ![t] = r]
       /\ Goto(t, IF r.op = "login" THEN "login" ELSE "authenticate")
  /\ UNCHANGED <<tables, lock, actor, copy, queue, admins, target, revoking>>

-----------------------------------------------------------------------------
(***************************************************************************)
(* Login and the check of a session                                        *)
(***************************************************************************)
\* authenticate_and_create_session reads the user without a lock; to verify
\* the password takes a while.
ReadCredentials(t) ==
  /\ pc[t] = "login"
  /\ copy' = [copy EXCEPT ![t] = users[req[t].name]]
  /\ Goto(t, "verified")
  /\ UNCHANGED <<tables, lock, req, actor, queue, admins, target, revoking,
                 begun>>

CredentialsValid(t) ==
  /\ copy[t] # NoRow
  /\ copy[t].password = req[t].password
  /\ copy[t].active

\* Mutant: the session does not refer to the user by a foreign key.
IssueSession_NoForeignKey(t) ==
  /\ pc[t] = "verified"
  /\ CredentialsValid(t)
  /\ \E s \in Sid :
       /\ sessions[s] = NoSession
       /\ sessions' = [sessions EXCEPT ![s] =
            NewSession(req[t].name, users[req[t].name])]
  /\ Finish(t)
  /\ UNCHANGED <<users, trail>>

\* The INSERT waits for the foreign key and does not look at the user again.
IssueSession(t) ==
  /\ pc[t] = "verified"
  /\ CredentialsValid(t)
  /\ Available(t, req[t].name)
  /\ \E s \in Sid :
       /\ sessions[s] = NoSession
       /\ sessions' = [sessions EXCEPT ![s] =
            NewSession(req[t].name, users[req[t].name])]
  /\ Finish(t)
  /\ UNCHANGED <<users, trail>>

\* The audit event of a refused login refers to the user, if there is one.
DenyLogin(t) ==
  /\ pc[t] = "verified"
  /\ ~CredentialsValid(t)
  /\ copy[t] # NoRow => Available(t, req[t].name)
  /\ Fail(t)

\* The session is alive and its user active.
SessionValid(s) ==
  /\ sessions[s] # NoSession
  /\ ~sessions[s].revoked
  /\ ~sessions[s].expired
  /\ users[sessions[s].user].active

\* MANAGE_USERS is a permission of administrators only.
Permitted(r) ==
  r.op # "logout" => users[sessions[r.sid].user].role = "ADMIN"

AfterAuthentication ==
  [logout |-> "logout", create |-> "check", update |-> "admins",
   reset |-> "target"]

\* require_authenticated and require_mutation_permission.
Authenticate(t) ==
  LET r == req[t]
      u == sessions[r.sid].user
  IN  /\ pc[t] = "authenticate"
      /\ SessionValid(r.sid)
      /\ Permitted(r)
      /\ actor' = [actor EXCEPT ![t] = u]
      /\ copy' = [copy EXCEPT ![t] = users[u]]
      /\ Goto(t, AfterAuthentication[r.op])
      /\ UNCHANGED <<tables, lock, req, queue, admins, target, revoking, begun>>

Unauthorized(t) ==
  /\ pc[t] = "authenticate"
  /\ ~(SessionValid(req[t].sid) /\ Permitted(req[t]))
  /\ Fail(t)

\* revoke_session; the audit event refers to the user.
Logout(t) ==
  /\ pc[t] = "logout"
  /\ Available(t, actor[t])
  /\ sessions' = [sessions EXCEPT ![req[t].sid].revoked = TRUE]
  /\ Finish(t)
  /\ UNCHANGED <<users, trail>>

Expire(s) ==
  /\ sessions[s] # NoSession
  /\ ~sessions[s].expired
  /\ sessions' = [sessions EXCEPT ![s].expired = TRUE]
  /\ UNCHANGED <<users, trail, lock, pc, req, actor, copy, queue, admins,
                 target, revoking, begun>>

-----------------------------------------------------------------------------
(***************************************************************************)
(* create_local_user                                                       *)
(***************************************************************************)
CheckName(t) ==
  /\ pc[t] = "check"
  /\ ~Exists(req[t].name)
  /\ Goto(t, "insert")
  /\ UNCHANGED <<tables, lock, req, actor, copy, queue, admins, target,
                 revoking, begun>>

NameTaken(t) ==
  /\ pc[t] \in {"check", "insert"}
  /\ Exists(req[t].name)
  /\ Fail(t)

\* The INSERT, its audit event (which refers to the actor) and the commit.
CreateUser(t) ==
  LET r == req[t]
  IN  /\ pc[t] = "insert"
      /\ ~Exists(r.name)
      /\ Available(t, actor[t])
      /\ users' = [users EXCEPT ![r.name] =
           NewUser(r.role, r.password)]
      /\ trail' = [trail EXCEPT ![r.name] =
           Append(@, CreatedEvent(actor[t], r.role))]
      /\ Finish(t)
      /\ UNCHANGED sessions

-----------------------------------------------------------------------------
(***************************************************************************)
(* update_local_user and reset_local_user_password                         *)
(***************************************************************************)
\* The statement that locks all active administrators sees those of its
\* snapshot.
SelectAdmins(t) ==
  /\ pc[t] = "admins"
  /\ queue' = [queue EXCEPT ![t] = {n \in Name : IsAdmin(n)}]
  /\ Goto(t, "locking")
  /\ UNCHANGED <<tables, lock, req, actor, copy, admins, target, revoking,
                 begun>>

IsNext(t, n) == n \in queue[t] /\ \A m \in queue[t] : n <= m

\* Mutant: a row that is no longer an administrator's is returned as well.
LockAdmin_NoRecheck(t) ==
  /\ pc[t] = "locking"
  /\ \E n \in Name :
       /\ IsNext(t, n)
       /\ Available(t, n)
       /\ lock' = [lock EXCEPT ![n] = t]
       /\ queue' = [queue EXCEPT ![t] = @ \ {n}]
       /\ admins' = [admins EXCEPT ![t] = @ \union {n}]
  /\ UNCHANGED <<tables, pc, req, actor, copy, target, revoking, begun>>

\* Its rows are locked in the order of user_id.
LockAdmin(t) ==
  /\ pc[t] = "locking"
  /\ \E n \in Name :
       /\ IsNext(t, n)
       /\ Available(t, n)
       /\ lock' = [lock EXCEPT ![n] = t]
       /\ queue' = [queue EXCEPT ![t] = @ \ {n}]
       /\ admins' = [admins EXCEPT ![t] =
                       IF IsAdmin(n) THEN @ \union {n} ELSE @]
  /\ UNCHANGED <<tables, pc, req, actor, copy, target, revoking, begun>>

AdminsLocked(t) ==
  /\ pc[t] = "locking"
  /\ queue[t] = {}
  /\ Goto(t, "target")
  /\ UNCHANGED <<tables, lock, req, actor, copy, queue, admins, target,
                 revoking, begun>>

\* Of the acting user the identity map still has the row that authenticated.
TargetCopy(t) == IF req[t].name = actor[t] THEN copy[t] ELSE users[req[t].name]

\* Mutant: the row is read without FOR UPDATE.
LockTarget_NoForUpdate(t) ==
  /\ pc[t] = "target"
  /\ Exists(req[t].name)
  /\ target' = [target EXCEPT ![t] = TargetCopy(t)]
  /\ Goto(t, "locked")
  /\ UNCHANGED <<tables, lock, req, actor, copy, queue, admins, revoking, begun>>

LockTarget(t) ==
  LET n == req[t].name
  IN  /\ pc[t] = "target"
      /\ Exists(n)
      /\ Available(t, n)
      /\ lock' = [lock EXCEPT ![n] = t]
      /\ target' = [target EXCEPT ![t] = TargetCopy(t)]
      /\ Goto(t, "locked")
      /\ UNCHANGED <<tables, req, actor, copy, queue, admins, revoking, begun>>

UserNotFound(t) ==
  /\ pc[t] = "target"
  /\ ~Exists(req[t].name)
  /\ Fail(t)

\* The values an update gives a user whose copy is c.
NextRole(c, r) == IF r.role = "same" THEN c.role ELSE r.role
NextActive(c, r) == IF r.active = "same" THEN c.active ELSE r.active = "yes"

RemovesActiveAdmin(c, r) ==
  /\ c.active /\ c.role = "ADMIN"
  /\ ~NextActive(c, r) \/ NextRole(c, r) # "ADMIN"

ChangeAccepted(t) ==
  LET c == target[t]
      r == req[t]
  IN  /\ c.version = r.expected
      /\ r.op = "update" =>
           /\ ~(RemovesActiveAdmin(c, r) /\ Cardinality(admins[t]) <= 1)
           /\ \/ c.role # NextRole(c, r)
              \/ c.active # NextActive(c, r)
              \/ r.rename

RejectChange(t) ==
  /\ pc[t] = "locked"
  /\ ~ChangeAccepted(t)
  /\ Fail(t)

\* A reset and a deactivation revoke the sessions the statement can see.
RevokeSessions(t) ==
  /\ pc[t] = "locked"
  /\ ChangeAccepted(t)
  /\ revoking' = [revoking EXCEPT ![t] =
       IF req[t].op = "update" /\ NextActive(target[t], req[t]) THEN {}
       ELSE {s \in Sid : /\ sessions[s] # NoSession
                         /\ sessions[s].user = req[t].name
                         /\ ~sessions[s].revoked}]
  /\ Goto(t, "commit")
  /\ UNCHANGED <<tables, lock, req, actor, copy, queue, admins, target, begun>>

\* Mutant: a disabled user gets a role of its own.
ChangedRow_DisabledRole(u, c, r) ==
  [u EXCEPT
     !.version = c.version + 1,
     !.role = IF r.op = "update" /\ ~NextActive(c, r) THEN "DISABLED" ELSE @]

\* Mutant: every column of the copy is written back.
ChangedRow_WholeRow(u, c, r) ==
  [active |-> IF r.op = "update" THEN NextActive(c, r) ELSE c.active,
   role |-> IF r.op = "update" THEN NextRole(c, r) ELSE c.role,
   version |-> c.version + 1,
   password |-> IF r.op = "reset" THEN r.password ELSE c.password]

\* The columns that differ from the copy, of the row u.
ChangedRow(u, c, r) ==
  [u EXCEPT
     !.version = c.version + 1,
     !.role = IF r.op = "update" /\ c.role # NextRole(c, r)
              THEN NextRole(c, r) ELSE @,
     !.active = IF r.op = "update" /\ c.active # NextActive(c, r)
                THEN NextActive(c, r) ELSE @,
     !.password = IF r.op = "reset" THEN r.password ELSE @]

\* LOCAL_USER_UPDATED names what the copy c was changed to, changed or not;
\* LOCAL_USER_PASSWORD_RESET names the version only.
ChangedEvent(by, c, r) ==
  [by |-> by,
   role |-> IF r.op = "update" THEN {NextRole(c, r)} ELSE {},
   active |-> IF r.op = "update" THEN {NextActive(c, r)} ELSE {},
   version |-> {c.version + 1}]

\* The audit event refers to target and actor; then the commit.
CommitChange(t) ==
  LET r == req[t]
  IN  /\ pc[t] = "commit"
      /\ Available(t, actor[t])
      /\ users' = [users EXCEPT ![r.name] = ChangedRow(@, target[t], r)]
      /\ sessions' = [s \in Sid |->
           IF s \in revoking[t] THEN [sessions[s] EXCEPT !.revoked = TRUE]
           ELSE sessions[s]]
      /\ trail' = [trail EXCEPT ![r.name] =
           Append(@, ChangedEvent(actor[t], target[t], r))]
      /\ Finish(t)

-----------------------------------------------------------------------------
(***************************************************************************)
(* Failure and deadlock                                                    *)
(***************************************************************************)
\* An exception, a lost connection or a crash before the commit.
Rollback(t) ==
  /\ pc[t] # "idle"
  /\ Fail(t)

\* The rows thread t cannot go on without.
Needs(t) ==
  CASE pc[t] = "verified" -> IF copy[t] = NoRow THEN {} ELSE {req[t].name}
    [] pc[t] = "locking" -> {n \in Name : IsNext(t, n)}
    [] pc[t] = "target" -> {req[t].name}
    [] pc[t] \in {"logout", "insert", "commit"} -> {actor[t]}
    [] OTHER -> {}

WaitsIn(t, S) == \E n \in Needs(t) : lock[n] \in S \ {t}

\* The database finds threads that wait for each other and aborts one.
DeadlockVictim(t) ==
  /\ \E S \in SUBSET Txn : t \in S /\ \A s \in S : WaitsIn(s, S)
  /\ Fail(t)

-----------------------------------------------------------------------------
Step(t) ==
  \/ ReadCredentials(t) \/ IssueSession(t) \/ DenyLogin(t)
  \/ Authenticate(t) \/ Unauthorized(t) \/ Logout(t)
  \/ CheckName(t) \/ NameTaken(t) \/ CreateUser(t)
  \/ SelectAdmins(t) \/ LockAdmin(t) \/ AdminsLocked(t)
  \/ LockTarget(t) \/ UserNotFound(t) \/ RejectChange(t)
  \/ RevokeSessions(t) \/ CommitChange(t)
  \/ DeadlockVictim(t)

Quiesce ==
  /\ begun = MaxRequests
  /\ \A t \in Txn : pc[t] = "idle"
  /\ UNCHANGED vars

Next ==
  \/ \E t \in Txn : Begin(t) \/ Step(t) \/ Rollback(t)
  \/ \E s \in Sid : Expire(s)
  \/ Quiesce

Spec == Init /\ [][Next]_vars

\* Threads run, and the database resolves deadlocks.
FairSpec == Spec /\ \A t \in Txn : WF_vars(Step(t))

-----------------------------------------------------------------------------
(***************************************************************************)
(* Properties                                                              *)
(***************************************************************************)
Location == {"idle", "login", "verified", "authenticate", "logout", "check",
             "insert", "admins", "locking", "target", "locked", "commit"}

\* Every variable has its type.
TypeOK ==
  /\ users \in [Name -> UserRow \union {NoRow}]
  /\ sessions \in [Sid -> SessionRow \union {NoSession}]
  /\ trail \in [Name -> Seq(AuditEvent)]
  /\ lock \in [Name -> Txn \union {NoTxn}]
  /\ pc \in [Txn -> Location]
  /\ req \in [Txn -> Request \union {NoRequest}]
  /\ actor \in [Txn -> Name \union {NoUser}]
  /\ copy \in [Txn -> UserRow \union {NoRow}]
  /\ queue \in [Txn -> SUBSET Name]
  /\ admins \in [Txn -> SUBSET Name]
  /\ target \in [Txn -> UserRow \union {NoRow}]
  /\ revoking \in [Txn -> SUBSET Sid]
  /\ begun \in 0..MaxRequests

\* There is always an active administrator, though several may demote or
\* disable each other and themselves at once (FinalAdministratorError).
AdministratorRemains == \E n \in Name : IsAdmin(n)

\* A deactivation or a password reset leaves no session alive that was
\* inserted before it committed: an unrevoked session was inserted under the
\* password the user has, and if to an active user the user has been active
\* since.  No INSERT slips in between the revocation statement and the commit,
\* because it waits for the locked user.  A login that overlaps the change is
\* not covered: it inserts its session right after the commit.
RevocationComplete ==
  \A s \in Sid :
    (sessions[s] # NoSession /\ ~sessions[s].revoked) =>
      LET u == users[sessions[s].user]
      IN  /\ sessions[s].issued.password = u.password
          /\ sessions[s].issued.active => u.active

\* Event i of trail q is the last one that names field f.
LastNaming(q, i, f) ==
  /\ q[i][f] # {}
  /\ \A j \in DOMAIN q : j > i => q[j][f] = {}

\* The audit trail explains every user: the last event that names the role,
\* whether the user is active, or the version, names the value of the row.
\* The details of an event are taken from the copy of the request, the row is
\* written column by column: a request of users about themselves, whose copy
\* may be stale, does not undo what others have changed and recorded since.
\* Excepted is what such a request itself names.  While no event names a
\* version it is the first (update_local_user, reset_local_user_password).
TrailExplainsUsers ==
  \A n \in Name : Exists(n) =>
    LET q == trail[n]
    IN  \A f \in {"role", "active", "version"} :
          \/ \E i \in DOMAIN q :
               /\ LastNaming(q, i, f)
               /\ q[i].by = n \/ q[i][f] = {users[n][f]}
          \/ /\ f = "version" /\ users[n][f] = 1
             /\ \A i \in DOMAIN q : q[i][f] = {}

\* A change of another user than oneself was computed from the committed
\* version: it advances the version by one.
OthersVersionAdvances ==
  [][\A t \in Txn :
       (pc[t] = "commit" /\ pc'[t] = "idle" /\ req[t].name # actor[t]
          /\ users' # users)
       => users'[req[t].name].version = users[req[t].name].version + 1]_vars

\* What update_local_user and reset_local_user_password promise of every
\* change: one that names a version which is not the current one is refused,
\* so a change always advances the version.
VersionAdvances ==
  [][\A n \in Name :
       (Exists(n) /\ users'[n] # users[n])
       => users'[n].version = users[n].version + 1]_vars

\* Every request is answered: threads that wait for each other's user rows
\* do not wait for ever.
EveryRequestEnds == \A t \in Txn : pc[t] # "idle" ~> pc[t] = "idle"
=============================================================================
