----------------------------- MODULE AuthProofs -----------------------------
(***************************************************************************)
(* Proofs about AuthSessions, for any number of requests, users, sessions  *)
(* and concurrent threads.                                                 *)
(***************************************************************************)
EXTENDS AuthSessions, FiniteSetTheorems, TLAPS

Authenticated ==
  {"logout", "check", "insert", "admins", "locking", "target", "locked", "commit"}
Holding == {"locked", "commit"}

\* Where a thread is tells which operation it performs.
RequestInv ==
  \A t \in Txn :
    /\ pc[t] # "idle" => req[t] \in Request
    /\ pc[t] \in {"login", "verified"} => req[t].op = "login"
    /\ pc[t] = "authenticate" => req[t].op \in {"logout", "create", "update", "reset"}
    /\ pc[t] = "logout" => req[t].op = "logout"
    /\ pc[t] \in {"check", "insert"} => req[t].op = "create"
    /\ pc[t] \in {"admins", "locking"} => req[t].op = "update"
    /\ pc[t] \in {"target", "locked", "commit"} => req[t].op \in {"update", "reset"}

\* Users and sessions are never deleted; a session is one of a user, and the
\* copy by which a thread was admitted to administration is, as it read it,
\* the one of an active administrator.
IdentityInv ==
  /\ \A s \in Sid : sessions[s] # NoSession => Exists(sessions[s].user)
  /\ \A t \in Txn :
       /\ pc[t] = "verified" /\ copy[t] # NoRow => Exists(req[t].name)
       /\ pc[t] \in Authenticated => actor[t] \in Name /\ sessions[req[t].sid] # NoSession
       /\ pc[t] \in Authenticated \ {"logout"} =>
            copy[t] \in UserRow /\ copy[t].active /\ copy[t].role = "ADMIN"

\* A thread that has read its target holds the row: its copy is the row
\* itself, or the one that authenticated it when it changes itself.  The
\* administrators its lock statement returned are locked, hence still
\* administrators.
LockInv ==
  \A t \in Txn :
    /\ pc[t] \in Holding =>
         /\ lock[req[t].name] = t
         /\ Exists(req[t].name)
         /\ target[t] = IF req[t].name = actor[t] THEN copy[t] ELSE users[req[t].name]
    /\ \A n \in admins[t] : lock[n] = t /\ IsAdmin(n)

\* What is about to commit has been accepted.
AcceptedInv ==
  \A t \in Txn : pc[t] = "commit" => ChangeAccepted(t)

\* Nobody can log in as the locked user, so the revocation statement has
\* seen every session that exists when it commits.
RevokingInv ==
  \A t \in Txn :
    /\ \A s \in revoking[t] : sessions[s] # NoSession
    /\ (pc[t] = "commit" /\ ~(req[t].op = "update" /\ NextActive(target[t], req[t]))) =>
         \A s \in Sid :
           (sessions[s] # NoSession /\ sessions[s].user = req[t].name) =>
             sessions[s].revoked \/ s \in revoking[t]

AuthInv ==
  /\ TypeOK /\ RequestInv /\ IdentityInv /\ LockInv /\ AcceptedInv /\ RevokingInv
  /\ AdministratorRemains

-----------------------------------------------------------------------------
(***************************************************************************)
(* Facts about requests, sessions and changed rows                         *)
(***************************************************************************)
\* What WellFormed says of the request of a thread, from where the thread is.
LEMMA RequestTypes ==
  ASSUME AuthInv, NEW t \in Txn
  PROVE  /\ pc[t] \notin {"idle", "authenticate", "logout"} => req[t].name \in Name
         /\ pc[t] \notin {"idle", "login", "verified"} => req[t].sid \in Sid
         /\ pc[t] = "authenticate" =>
              req[t].op \in {"logout", "create", "update", "reset"}
         /\ pc[t] \in {"check", "insert"} =>
              req[t].role \in Roles /\ req[t].password \in Password
         /\ pc[t] \in {"target", "locked", "commit"} =>
              /\ req[t].op = "update" => req[t].role \in Roles \union {"same"}
              /\ req[t].op = "reset" => req[t].password \in Password
  BY RequestAssumption DEF AuthInv, TypeOK, Location, RequestInv, WellFormed

\* What a commit works on: the row is locked and both row and copy are rows.
LEMMA CommitTypes ==
  ASSUME AuthInv, NEW t \in Txn, pc[t] = "commit"
  PROVE  /\ req[t].name \in Name /\ lock[req[t].name] = t
         /\ users[req[t].name] \in UserRow /\ target[t] \in UserRow
         /\ req[t].op = "update" => req[t].role \in Roles \union {"same"}
         /\ req[t].op = "reset" => req[t].password \in Password
  <1>1. req[t].name \in Name
    BY RequestTypes
  <1>2. /\ lock[req[t].name] = t
        /\ users[req[t].name] # NoRow
        /\ target[t] = IF req[t].name = actor[t] THEN copy[t] ELSE users[req[t].name]
    BY DEF AuthInv, LockInv, Holding, Exists
  <1>3. copy[t] \in UserRow
    BY DEF AuthInv, IdentityInv, Authenticated
  <1>4. users[req[t].name] \in UserRow
    BY <1>1, <1>2 DEF AuthInv, TypeOK
  <1> QED
    BY <1>1, <1>2, <1>3, <1>4, RequestTypes

\* A session as a login inserts it.
LEMMA IssuedSession ==
  ASSUME NEW n \in Name, NEW u \in UserRow
  PROVE  /\ NewSession(n, u) \in SessionRow
         /\ NewSession(n, u).user = n
         /\ NewSession(n, u).issued.password = u.password
         /\ NewSession(n, u).issued.active = u.active
  BY DEF NewSession, SessionRow, UserRow

\* A user as create_local_user inserts it, and its event.
LEMMA CreatedUser ==
  ASSUME NEW role \in Roles, NEW p \in Password, NEW by \in Name \union {NoUser}
  PROVE  /\ NewUser(role, p) \in UserRow
         /\ CreatedEvent(by, role) \in AuditEvent
  BY DEF NewUser, CreatedEvent, UserRow, AuditEvent

\* Marking a session revoked or expired leaves its user alone, and what is
\* recorded of its login.
LEMMA MarkedSession ==
  ASSUME NEW row \in SessionRow
  PROVE  /\ [row EXCEPT !.revoked = TRUE] \in SessionRow
         /\ [row EXCEPT !.revoked = TRUE].user = row.user
         /\ [row EXCEPT !.revoked = TRUE].issued = row.issued
         /\ [row EXCEPT !.revoked = TRUE].revoked
         /\ [row EXCEPT !.expired = TRUE] \in SessionRow
         /\ [row EXCEPT !.expired = TRUE].user = row.user
         /\ [row EXCEPT !.expired = TRUE].issued = row.issued
         /\ row.revoked => [row EXCEPT !.expired = TRUE].revoked
  BY DEF SessionRow

\* No session appears, vanishes, changes hands or comes back to life.
SessionsKept ==
  \A s \in Sid :
    /\ sessions[s] = NoSession => sessions'[s] = NoSession
    /\ sessions[s] # NoSession =>
         /\ sessions'[s] \in SessionRow
         /\ sessions'[s].user = sessions[s].user
         /\ sessions'[s].issued = sessions[s].issued
         /\ sessions[s].revoked => sessions'[s].revoked

\* The columns of the row a thread commits: those the request changes against
\* the copy c, the others as they are in the row u.
LEMMA CommittedRow ==
  ASSUME AuthInv, NEW t \in Txn, pc[t] = "commit",
         NEW u, u = users[req[t].name], NEW c, c = target[t], NEW r, r = req[t]
  PROVE  /\ ChangedRow(u, c, r) \in UserRow
         /\ ChangedRow(u, c, r).version = c.version + 1
         /\ ChangedRow(u, c, r).role = IF r.op = "update" /\ c.role # NextRole(c, r)
                                       THEN NextRole(c, r) ELSE u.role
         /\ ChangedRow(u, c, r).active = IF r.op = "update" /\ c.active # NextActive(c, r)
                                         THEN NextActive(c, r) ELSE u.active
         /\ r.op # "reset" => ChangedRow(u, c, r).password = u.password
  <1>1. /\ u \in UserRow /\ c \in UserRow
        /\ r.op = "update" => r.role \in Roles \union {"same"}
        /\ r.op = "reset" => r.password \in Password
    BY CommitTypes
  <1>2. /\ r.op = "update" => NextRole(c, r) \in Roles
        /\ NextActive(c, r) \in BOOLEAN
    BY <1>1 DEF NextRole, NextActive, UserRow
  <1> DEFINE role == IF r.op = "update" /\ c.role # NextRole(c, r)
                     THEN NextRole(c, r) ELSE u.role
             active == IF r.op = "update" /\ c.active # NextActive(c, r)
                       THEN NextActive(c, r) ELSE u.active
             password == IF r.op = "reset" THEN r.password ELSE u.password
  <1>3. role \in Roles /\ active \in BOOLEAN /\ password \in Password
    BY <1>1, <1>2 DEF UserRow
  <1>4. c.version + 1 \in Nat
    BY <1>1 DEF UserRow
  <1>5. ChangedRow(u, c, r) = [u EXCEPT !.version = c.version + 1, !.role = role,
                                       !.active = active, !.password = password]
    BY DEF ChangedRow
  <1>6. r.op # "reset" => password = u.password
    OBVIOUS
  <1> HIDE DEF role, active, password
  <1>7. ChangedRow(u, c, r) = [active |-> active, role |-> role,
                               version |-> c.version + 1, password |-> password]
    BY <1>1, <1>5 DEF UserRow
  <1>8. /\ ChangedRow(u, c, r) \in UserRow
        /\ ChangedRow(u, c, r).version = c.version + 1
        /\ ChangedRow(u, c, r).role = role
        /\ ChangedRow(u, c, r).active = active
        /\ ChangedRow(u, c, r).password = password
    BY <1>3, <1>4, <1>7 DEF UserRow
  <1> QED
    BY <1>6, <1>8 DEF role, active

\* The event of a change names what the copy c was changed to.
LEMMA CommittedEvent ==
  ASSUME AuthInv, NEW t \in Txn, pc[t] = "commit"
  PROVE  ChangedEvent(actor[t], target[t], req[t]) \in AuditEvent
  <1>1. /\ target[t] \in UserRow
        /\ req[t].op = "update" => req[t].role \in Roles \union {"same"}
    BY CommitTypes
  <1>2. /\ req[t].op = "update" => NextRole(target[t], req[t]) \in Roles
        /\ NextActive(target[t], req[t]) \in BOOLEAN
    <2>1. target[t].role \in Roles /\ target[t].active \in BOOLEAN
      BY <1>1 DEF UserRow
    <2> QED
      BY <1>1, <2>1 DEF NextRole, NextActive
  <1>3. target[t].version + 1 \in Nat
    BY <1>1 DEF UserRow
  <1>4. actor[t] \in Name \union {NoUser}
    BY DEF AuthInv, TypeOK
  <1> QED
    BY <1>2, <1>3, <1>4 DEF ChangedEvent, AuditEvent

\* A trail that was appended to.
LEMMA AppendedTrail ==
  ASSUME NEW q \in Seq(AuditEvent), NEW e \in AuditEvent
  PROVE  /\ Append(q, e) \in Seq(AuditEvent)
         /\ Len(q) \in Nat /\ DOMAIN q = 1..Len(q)
         /\ DOMAIN Append(q, e) = 1..(Len(q) + 1)
         /\ \A i \in 1..Len(q) : Append(q, e)[i] = q[i]
         /\ Append(q, e)[Len(q) + 1] = e
  OBVIOUS

\* What TrailExplainsUsers says of one field of the row u of user n.
Explained(q, n, u, f) ==
  \/ \E i \in DOMAIN q :
       /\ LastNaming(q, i, f)
       /\ q[i].by = n \/ q[i][f] = {u[f]}
  \/ /\ f = "version" /\ u[f] = 1
     /\ \A i \in DOMAIN q : q[i][f] = {}

\* The fields of a new user and what its event names.
LEMMA CreatedFields ==
  ASSUME NEW by, NEW role, NEW p, NEW f \in {"role", "active", "version"}
  PROVE  LET e == CreatedEvent(by, role)
             u == NewUser(role, p)
         IN  IF f = "version" THEN e[f] = {} /\ u[f] = 1 ELSE e[f] = {u[f]}
  <1>1. CASE f = "role"
    BY <1>1 DEF CreatedEvent, NewUser
  <1>2. CASE f = "active"
    BY <1>2 DEF CreatedEvent, NewUser
  <1>3. CASE f = "version"
    BY <1>3 DEF CreatedEvent, NewUser
  <1> QED
    BY <1>1, <1>2, <1>3

\* The event of its creation explains a user.
LEMMA FirstExplains ==
  ASSUME NEW q, NEW n, NEW u, NEW f, NEW e, DOMAIN q = {1}, q[1] = e,
         IF f = "version" THEN e[f] = {} /\ u[f] = 1 ELSE e[f] = {u[f]}
  PROVE  Explained(q, n, u, f)
  <1>1. CASE f = "version"
    BY <1>1 DEF Explained
  <1>2. CASE f # "version"
    <2>1. LastNaming(q, 1, f)
      BY <1>2 DEF LastNaming
    <2> QED
      BY <1>2, <2>1 DEF Explained
  <1> QED
    BY <1>1, <1>2

\* A new event explains the fields it names, and leaves those it does not
\* name as explained as they were.
LEMMA ExplainedAfter ==
  ASSUME NEW q \in Seq(AuditEvent), NEW e \in AuditEvent, NEW n, NEW u, NEW v, NEW f,
         IF e[f] = {} THEN Explained(q, n, u, f) /\ v[f] = u[f]
         ELSE e.by = n \/ e[f] = {v[f]}
  PROVE  Explained(Append(q, e), n, v, f)
  <1> DEFINE w == Append(q, e)
  <1>1. /\ Len(q) \in Nat /\ DOMAIN q = 1..Len(q)
        /\ DOMAIN w = 1..(Len(q) + 1)
        /\ \A i \in 1..Len(q) : w[i] = q[i]
        /\ w[Len(q) + 1] = e
    BY AppendedTrail
  <1> HIDE DEF w
  <1>2. CASE e[f] # {}
    <2>1. LastNaming(w, Len(q) + 1, f)
      BY <1>1, <1>2 DEF LastNaming
    <2> QED
      BY <1>1, <1>2, <2>1 DEF Explained, w
  <1>3. CASE e[f] = {} /\ \E i \in DOMAIN q : /\ LastNaming(q, i, f)
                                              /\ q[i].by = n \/ q[i][f] = {u[f]}
    <2>1. PICK i \in DOMAIN q : LastNaming(q, i, f) /\ (q[i].by = n \/ q[i][f] = {u[f]})
      BY <1>3
    <2>2. i \in DOMAIN w /\ w[i] = q[i]
      BY <1>1
    <2>3. LastNaming(w, i, f)
      BY <1>1, <1>3, <2>1, <2>2 DEF LastNaming
    <2> QED
      BY <1>3, <2>1, <2>2, <2>3 DEF Explained, w
  <1>4. CASE e[f] = {} /\ f = "version" /\ u[f] = 1 /\ \A i \in DOMAIN q : q[i][f] = {}
    <2>1. \A i \in DOMAIN w : w[i][f] = {}
      BY <1>1, <1>4
    <2> QED
      BY <1>4, <2>1 DEF Explained, w
  <1> QED
    BY <1>2, <1>3, <1>4 DEF Explained

\* More than one administrator: one that is not n.
LEMMA AnotherOne ==
  ASSUME NEW S \in SUBSET Name, NEW n, ~(Cardinality(S) <= 1)
  PROVE  \E m \in S : m # n
  <1> SUFFICES ASSUME S \subseteq {n} PROVE FALSE
    OBVIOUS
  <1>1. IsFiniteSet({n}) /\ Cardinality({n}) = 1
    BY FS_Singleton
  <1>2. Cardinality(S) \in Nat /\ Cardinality(S) <= Cardinality({n})
    BY <1>1, FS_Subset, FS_CardinalityType
  <1> QED
    BY <1>1, <1>2

-----------------------------------------------------------------------------
(***************************************************************************)
(* What several actions have in common                                     *)
(***************************************************************************)
\* The end of a request gives up its own locks only; a row that another
\* thread holds, or that this one has not locked, is as it was.
LEMMA FinishKeepsLocks ==
  ASSUME AuthInv, NEW t \in Txn, Finish(t),
         \A n \in Name : Exists(n) /\ lock[n] # t => users'[n] = users[n]
  PROVE  LockInv'
  <1> SUFFICES ASSUME NEW u \in Txn
               PROVE  /\ (pc[u] \in Holding)' =>
                           /\ lock[req[u].name]' = u
                           /\ Exists(req[u].name)'
                           /\ target'[u] = IF req[u].name' = actor'[u] THEN copy'[u]
                                           ELSE users[req[u].name]'
                      /\ \A n \in admins'[u] : lock'[n] = u /\ IsAdmin(n)'
    BY DEF LockInv
  <1>1. CASE u = t
    BY <1>1 DEF Finish, Goto, AuthInv, TypeOK, Holding
  <1>2. CASE u # t
    <2>1. /\ pc'[u] = pc[u] /\ req'[u] = req[u] /\ target'[u] = target[u]
          /\ actor'[u] = actor[u] /\ copy'[u] = copy[u] /\ admins'[u] = admins[u]
      BY <1>2 DEF Finish, Goto, AuthInv, TypeOK
    <2>2. \A n \in Name : lock[n] = u /\ Exists(n) => lock'[n] = u /\ users'[n] = users[n]
      BY <1>2 DEF Finish
    <2>3. pc[u] \in Holding => req[u].name \in Name
      BY RequestTypes DEF Holding
    <2>4. admins[u] \subseteq Name
      BY DEF AuthInv, TypeOK
    <2> QED
      BY <2>1, <2>2, <2>3, <2>4 DEF AuthInv, LockInv, Exists, IsAdmin
  <1> QED
    BY <1>1, <1>2

\* While sessions are only marked and no user row vanishes, what is known of
\* identities stays so.
LEMMA IdentityKept ==
  ASSUME AuthInv, SessionsKept,
         \A n \in Name : Exists(n) => users'[n] # NoRow,
         \A t \in Txn : \/ pc'[t] = "idle"
                        \/ UNCHANGED <<pc[t], req[t], actor[t], copy[t]>>
  PROVE  IdentityInv'
  <1>1. \A s \in Sid : sessions[s] # NoSession => sessions[s].user \in Name
    BY DEF AuthInv, TypeOK, SessionRow
  <1>2. \A s \in Sid : sessions'[s] # NoSession => Exists(sessions[s].user)'
    BY <1>1 DEF AuthInv, IdentityInv, SessionsKept, Exists
  <1>3. ASSUME NEW t \in Txn
        PROVE  /\ pc'[t] = "verified" /\ copy'[t] # NoRow => Exists(req[t].name)'
               /\ pc'[t] \in Authenticated =>
                    actor'[t] \in Name /\ sessions'[req'[t].sid] # NoSession
               /\ pc'[t] \in Authenticated \ {"logout"} =>
                    copy'[t] \in UserRow /\ copy'[t].active /\ copy'[t].role = "ADMIN"
    <2>1. CASE pc'[t] = "idle"
      BY <2>1 DEF Authenticated
    <2>2. CASE UNCHANGED <<pc[t], req[t], actor[t], copy[t]>>
      BY <2>2, RequestTypes, SentinelAssumption
      DEF AuthInv, IdentityInv, SessionsKept, Authenticated, Exists
    <2> QED
      BY <2>1, <2>2
  <1> QED
    BY <1>2, <1>3 DEF IdentityInv

\* The same for the revocation of a thread that is about to commit.
LEMMA RevokingKept ==
  ASSUME AuthInv, SessionsKept,
         \A t \in Txn : \/ pc'[t] = "idle" /\ revoking'[t] = {}
                        \/ UNCHANGED <<pc[t], req[t], target[t], revoking[t]>>
  PROVE  RevokingInv'
  <1> SUFFICES ASSUME NEW t \in Txn
               PROVE  /\ \A s \in revoking'[t] : sessions'[s] # NoSession
                      /\ (pc[t] = "commit" /\ ~(req[t].op = "update"
                                              /\ NextActive(target[t], req[t])))' =>
                           \A s \in Sid :
                             (sessions'[s] # NoSession /\ sessions'[s].user = req'[t].name)
                               => sessions'[s].revoked \/ s \in revoking'[t]
    BY DEF RevokingInv
  <1>1. revoking[t] \subseteq Sid
    BY DEF AuthInv, TypeOK
  <1>2. CASE UNCHANGED <<pc[t], req[t], target[t], revoking[t]>>
    BY <1>1, <1>2, SentinelAssumption DEF AuthInv, RevokingInv, SessionsKept, NextActive
  <1>3. CASE pc'[t] = "idle" /\ revoking'[t] = {}
    BY <1>3
  <1> QED
    BY <1>2, <1>3
-----------------------------------------------------------------------------
(***************************************************************************)
(* Every action preserves the invariant                                    *)
(***************************************************************************)
\* A request that ends without a commit: DenyLogin, Unauthorized, NameTaken,
\* UserNotFound, RejectChange, DeadlockVictim and Rollback.
LEMMA FailStep ==
  ASSUME AuthInv, NEW t \in Txn, Fail(t)
  PROVE  AuthInv'
  <1> USE SentinelAssumption DEF AuthInv, Fail, Finish, Goto, tables
  <1>1. TypeOK'
    BY DEF TypeOK, Location
  <1>2. RequestInv'
    BY DEF TypeOK, RequestInv
  <1>3. IdentityInv'
    BY DEF TypeOK, RequestInv, IdentityInv, Authenticated, Exists
  <1>4. LockInv'
    BY FinishKeepsLocks DEF TypeOK
  <1>5. AcceptedInv'
    BY DEF TypeOK, AcceptedInv, ChangeAccepted
  <1>6. RevokingInv'
    BY DEF TypeOK, RequestInv, LockInv, RevokingInv, Holding
  <1>7. AdministratorRemains'
    BY DEF TypeOK, AdministratorRemains, IsAdmin, Exists
  <1> QED
    BY <1>1, <1>2, <1>3, <1>4, <1>5, <1>6, <1>7

\* A request is admitted.
LEMMA BeginStep ==
  ASSUME AuthInv, NEW t \in Txn, Begin(t)
  PROVE  AuthInv'
  <1> USE SentinelAssumption, BoundAssumption DEF AuthInv, Begin, Goto, tables
  <1>1. TypeOK'
    BY DEF TypeOK, Location
  <1>2. RequestInv'
    BY RequestAssumption DEF TypeOK, RequestInv, WellFormed
  <1>3. IdentityInv'
    BY DEF TypeOK, RequestInv, IdentityInv, Authenticated, Exists
  <1>4. LockInv'
    BY DEF TypeOK, RequestInv, IdentityInv, LockInv, Authenticated, Holding,
           Exists, IsAdmin
  <1>5. AcceptedInv'
    BY DEF TypeOK, AcceptedInv, ChangeAccepted
  <1>6. RevokingInv'
    BY DEF TypeOK, RequestInv, LockInv, RevokingInv, Holding
  <1>7. AdministratorRemains'
    BY DEF TypeOK, AdministratorRemains, IsAdmin, Exists
  <1> QED
    BY <1>1, <1>2, <1>3, <1>4, <1>5, <1>6, <1>7

\* A login reads its user.
LEMMA ReadCredentialsStep ==
  ASSUME AuthInv, NEW t \in Txn, ReadCredentials(t)
  PROVE  AuthInv'
  <1> USE SentinelAssumption DEF AuthInv, ReadCredentials, Goto, tables
  <1>1. TypeOK'
    BY RequestTypes DEF TypeOK, Location
  <1>2. RequestInv'
    BY DEF TypeOK, RequestInv
  <1>3. IdentityInv'
    BY DEF TypeOK, RequestInv, IdentityInv, Authenticated, Exists
  <1>4. LockInv'
    BY DEF TypeOK, RequestInv, IdentityInv, LockInv, Authenticated, Holding,
           Exists, IsAdmin
  <1>5. AcceptedInv'
    BY DEF TypeOK, AcceptedInv, ChangeAccepted
  <1>6. RevokingInv'
    BY DEF TypeOK, RequestInv, LockInv, RevokingInv, Holding
  <1>7. AdministratorRemains'
    BY DEF TypeOK, AdministratorRemains, IsAdmin, Exists
  <1> QED
    BY <1>1, <1>2, <1>3, <1>4, <1>5, <1>6, <1>7

\* What a login inserts its session for: a user, by a password.
LEMMA LoginRow ==
  ASSUME AuthInv, NEW t \in Txn, pc[t] = "verified", CredentialsValid(t)
  PROVE  /\ req[t].name \in Name /\ users[req[t].name] \in UserRow
         /\ req[t].password \in Password
  <1>1. req[t].name \in Name /\ copy[t] \in UserRow
    BY RequestTypes DEF AuthInv, TypeOK, CredentialsValid
  <1>2. users[req[t].name] # NoRow
    BY DEF AuthInv, IdentityInv, CredentialsValid, Exists
  <1>3. req[t].password \in Password
    BY <1>1 DEF CredentialsValid, UserRow
  <1> QED
    BY <1>1, <1>2, <1>3 DEF AuthInv, TypeOK

\* A login commits: the user row is not locked by another, so no change of
\* that user is under way.
LEMMA IssueSessionStep ==
  ASSUME AuthInv, NEW t \in Txn, IssueSession(t)
  PROVE  AuthInv'
  <1> USE SentinelAssumption DEF AuthInv, IssueSession, CredentialsValid,
                                   Available, Finish, Goto, tables
  <1>0. /\ req[t].name \in Name
        /\ NewSession(req[t].name, users[req[t].name]) \in SessionRow
        /\ NewSession(req[t].name, users[req[t].name]).user = req[t].name
    BY LoginRow, IssuedSession
  <1>1. TypeOK'
    <2>1. PICK s \in Sid : sessions' = [sessions EXCEPT ![s] =
            NewSession(req[t].name, users[req[t].name])]
      OBVIOUS
    <2> QED
      BY <1>0, <2>1 DEF TypeOK, Location
  <1>2. RequestInv'
    BY DEF TypeOK, RequestInv
  <1>3. IdentityInv'
    BY <1>0, RequestTypes DEF TypeOK, IdentityInv, Authenticated, Exists
  <1>4. LockInv'
    BY FinishKeepsLocks DEF TypeOK
  <1>5. AcceptedInv'
    BY DEF TypeOK, AcceptedInv, ChangeAccepted
  <1>6. RevokingInv'
    BY <1>0 DEF TypeOK, RequestInv, LockInv, RevokingInv, Holding
  <1>7. AdministratorRemains'
    BY DEF TypeOK, AdministratorRemains, IsAdmin, Exists
  <1> QED
    BY <1>1, <1>2, <1>3, <1>4, <1>5, <1>6, <1>7

\* The session is checked and the acting user read.
LEMMA AuthenticateStep ==
  ASSUME AuthInv, NEW t \in Txn, Authenticate(t)
  PROVE  AuthInv'
  <1> USE SentinelAssumption DEF AuthInv, Authenticate, Goto, tables
  <1>1. LET l == AfterAuthentication[req[t].op]
        IN  /\ l \in {"logout", "check", "admins", "target"}
            /\ l = "logout" => req[t].op = "logout"
            /\ l = "check" => req[t].op = "create"
            /\ l = "admins" => req[t].op = "update"
            /\ l = "target" => req[t].op = "reset"
    BY RequestTypes DEF AfterAuthentication
  <1>2. req[t].sid \in Sid
    BY RequestTypes
  <1>3. LET u == sessions[req[t].sid].user
        IN  /\ sessions[req[t].sid] # NoSession
            /\ u \in Name /\ users[u] \in UserRow /\ users[u].active
            /\ req[t].op # "logout" => users[u].role = "ADMIN"
    BY <1>2 DEF SessionValid, Permitted, IdentityInv, Exists, TypeOK, SessionRow
  <1>4. TypeOK'
    BY <1>1, <1>3 DEF TypeOK, Location
  <1>5. RequestInv'
    BY <1>1 DEF TypeOK, RequestInv
  <1>6. IdentityInv'
    BY <1>1, <1>2, <1>3 DEF TypeOK, IdentityInv, Authenticated, Exists
  <1>7. LockInv'
    BY <1>1 DEF TypeOK, LockInv, Holding, Exists, IsAdmin
  <1>8. AcceptedInv'
    BY <1>1 DEF TypeOK, AcceptedInv, ChangeAccepted
  <1>9. RevokingInv'
    BY <1>1 DEF TypeOK, RevokingInv
  <1>10. AdministratorRemains'
    BY DEF TypeOK, AdministratorRemains, IsAdmin, Exists
  <1> QED
    BY <1>4, <1>5, <1>6, <1>7, <1>8, <1>9, <1>10

\* A session is marked revoked.
LEMMA LogoutStep ==
  ASSUME AuthInv, NEW t \in Txn, Logout(t)
  PROVE  AuthInv'
  <1> USE SentinelAssumption DEF AuthInv, Logout, Finish, Goto, tables
  <1>1. req[t].sid \in Sid /\ sessions[req[t].sid] \in SessionRow
    BY RequestTypes DEF TypeOK, IdentityInv, Authenticated
  <1>2. SessionsKept
    BY <1>1, MarkedSession DEF TypeOK, SessionsKept
  <1>3. TypeOK'
    BY <1>1, MarkedSession DEF TypeOK, Location
  <1>4. RequestInv'
    BY DEF TypeOK, RequestInv
  <1>5. IdentityInv'
    BY <1>2, IdentityKept DEF TypeOK, Exists
  <1>6. LockInv'
    BY FinishKeepsLocks DEF TypeOK
  <1>7. AcceptedInv'
    BY DEF TypeOK, AcceptedInv, ChangeAccepted
  <1>8. RevokingInv'
    BY <1>2, RevokingKept DEF TypeOK
  <1>9. AdministratorRemains'
    BY DEF TypeOK, AdministratorRemains, IsAdmin, Exists
  <1> QED
    BY <1>3, <1>4, <1>5, <1>6, <1>7, <1>8, <1>9

\* A session runs out.
LEMMA ExpireStep ==
  ASSUME AuthInv, NEW s \in Sid, Expire(s)
  PROVE  AuthInv'
  <1> USE SentinelAssumption DEF AuthInv, Expire, tables
  <1>1. sessions[s] \in SessionRow
    BY DEF TypeOK
  <1>2. SessionsKept
    BY <1>1, MarkedSession DEF TypeOK, SessionsKept
  <1>3. TypeOK'
    BY <1>1, MarkedSession DEF TypeOK, Location
  <1>4. RequestInv'
    BY DEF TypeOK, RequestInv
  <1>5. IdentityInv'
    BY <1>2, IdentityKept DEF TypeOK, Exists
  <1>6. LockInv'
    BY DEF TypeOK, RequestInv, IdentityInv, LockInv, Authenticated, Holding,
           Exists, IsAdmin
  <1>7. AcceptedInv'
    BY DEF TypeOK, AcceptedInv, ChangeAccepted
  <1>8. RevokingInv'
    BY <1>2, RevokingKept DEF TypeOK
  <1>9. AdministratorRemains'
    BY DEF TypeOK, AdministratorRemains, IsAdmin, Exists
  <1> QED
    BY <1>3, <1>4, <1>5, <1>6, <1>7, <1>8, <1>9

\* The name is free.
LEMMA CheckNameStep ==
  ASSUME AuthInv, NEW t \in Txn, CheckName(t)
  PROVE  AuthInv'
  <1> USE SentinelAssumption DEF AuthInv, CheckName, Goto, tables
  <1>1. TypeOK'
    BY DEF TypeOK, Location
  <1>2. RequestInv'
    BY DEF TypeOK, RequestInv
  <1>3. IdentityInv'
    BY DEF TypeOK, RequestInv, IdentityInv, Authenticated, Exists
  <1>4. LockInv'
    BY DEF TypeOK, RequestInv, IdentityInv, LockInv, Authenticated, Holding,
           Exists, IsAdmin
  <1>5. AcceptedInv'
    BY DEF TypeOK, AcceptedInv, ChangeAccepted
  <1>6. RevokingInv'
    BY DEF TypeOK, RequestInv, LockInv, RevokingInv, Holding
  <1>7. AdministratorRemains'
    BY DEF TypeOK, AdministratorRemains, IsAdmin, Exists
  <1> QED
    BY <1>1, <1>2, <1>3, <1>4, <1>5, <1>6, <1>7

\* A new row, under a name that nobody has and so nobody holds.
LEMMA CreateUserStep ==
  ASSUME AuthInv, NEW t \in Txn, CreateUser(t)
  PROVE  AuthInv'
  <1> USE SentinelAssumption DEF AuthInv, CreateUser, Finish, Goto, tables
  <1>1. /\ req[t].name \in Name
        /\ NewUser(req[t].role, req[t].password) \in UserRow
        /\ CreatedEvent(actor[t], req[t].role) \in AuditEvent
    BY RequestTypes, CreatedUser DEF TypeOK
  <1>2. trail[req[t].name] \in Seq(AuditEvent)
    BY <1>1 DEF TypeOK
  <1>3. TypeOK'
    BY <1>1, <1>2 DEF TypeOK, Location
  <1>4. RequestInv'
    BY DEF TypeOK, RequestInv
  <1>5. IdentityInv'
    <2>1. SessionsKept
      BY DEF TypeOK, SessionsKept
    <2>2. \A n \in Name : Exists(n) => users'[n] # NoRow
      BY <1>1 DEF TypeOK, Exists
    <2> QED
      BY <2>1, <2>2, IdentityKept DEF TypeOK
  <1>6. LockInv'
    <2>1. \A n \in Name : Exists(n) => users'[n] = users[n]
      BY <1>1 DEF TypeOK, Exists
    <2> QED
      BY <2>1, FinishKeepsLocks
  <1>7. AcceptedInv'
    BY DEF TypeOK, AcceptedInv, ChangeAccepted
  <1>8. RevokingInv'
    BY DEF TypeOK, RequestInv, LockInv, RevokingInv, Holding
  <1>9. AdministratorRemains'
    BY <1>1 DEF TypeOK, AdministratorRemains, IsAdmin, Exists
  <1> QED
    BY <1>3, <1>4, <1>5, <1>6, <1>7, <1>8, <1>9

\* The snapshot of the lock statement.
LEMMA SelectAdminsStep ==
  ASSUME AuthInv, NEW t \in Txn, SelectAdmins(t)
  PROVE  AuthInv'
  <1> USE SentinelAssumption DEF AuthInv, SelectAdmins, Goto, tables
  <1>1. TypeOK'
    BY DEF TypeOK, Location
  <1>2. RequestInv'
    BY DEF TypeOK, RequestInv
  <1>3. IdentityInv'
    BY DEF TypeOK, RequestInv, IdentityInv, Authenticated, Exists
  <1>4. LockInv'
    BY DEF TypeOK, RequestInv, IdentityInv, LockInv, Authenticated, Holding,
           Exists, IsAdmin
  <1>5. AcceptedInv'
    BY DEF TypeOK, AcceptedInv, ChangeAccepted
  <1>6. RevokingInv'
    BY DEF TypeOK, RequestInv, LockInv, RevokingInv, Holding
  <1>7. AdministratorRemains'
    BY DEF TypeOK, AdministratorRemains, IsAdmin, Exists
  <1> QED
    BY <1>1, <1>2, <1>3, <1>4, <1>5, <1>6, <1>7

\* A row is locked, and returned if it is still an administrator's.
LEMMA LockAdminStep ==
  ASSUME AuthInv, NEW t \in Txn, LockAdmin(t)
  PROVE  AuthInv'
  <1> USE SentinelAssumption DEF AuthInv, LockAdmin, Available, tables
  <1>1. TypeOK'
    BY DEF TypeOK, Location
  <1>2. RequestInv'
    BY DEF TypeOK, RequestInv
  <1>3. IdentityInv'
    BY DEF TypeOK, RequestInv, IdentityInv, Authenticated, Exists
  <1>4. LockInv'
    <2>1. \A u \in Txn : pc[u] \in Holding => req[u].name \in Name
      BY RequestTypes DEF Holding
    <2> QED
      BY <2>1 DEF TypeOK, LockInv, Holding, Exists, IsAdmin
  <1>5. AcceptedInv'
    BY DEF TypeOK, AcceptedInv, ChangeAccepted
  <1>6. RevokingInv'
    BY DEF TypeOK, RequestInv, LockInv, RevokingInv, Holding
  <1>7. AdministratorRemains'
    BY DEF TypeOK, AdministratorRemains, IsAdmin, Exists
  <1> QED
    BY <1>1, <1>2, <1>3, <1>4, <1>5, <1>6, <1>7

\* Every row of the snapshot is locked.
LEMMA AdminsLockedStep ==
  ASSUME AuthInv, NEW t \in Txn, AdminsLocked(t)
  PROVE  AuthInv'
  <1> USE SentinelAssumption DEF AuthInv, AdminsLocked, Goto, tables
  <1>1. TypeOK'
    BY DEF TypeOK, Location
  <1>2. RequestInv'
    BY DEF TypeOK, RequestInv
  <1>3. IdentityInv'
    BY DEF TypeOK, RequestInv, IdentityInv, Authenticated, Exists
  <1>4. LockInv'
    BY DEF TypeOK, RequestInv, IdentityInv, LockInv, Authenticated, Holding,
           Exists, IsAdmin
  <1>5. AcceptedInv'
    BY DEF TypeOK, AcceptedInv, ChangeAccepted
  <1>6. RevokingInv'
    BY DEF TypeOK, RequestInv, LockInv, RevokingInv, Holding
  <1>7. AdministratorRemains'
    BY DEF TypeOK, AdministratorRemains, IsAdmin, Exists
  <1> QED
    BY <1>1, <1>2, <1>3, <1>4, <1>5, <1>6, <1>7

\* The target is locked; its copy is the row, except of the actor itself.
LEMMA LockTargetStep ==
  ASSUME AuthInv, NEW t \in Txn, LockTarget(t)
  PROVE  AuthInv'
  <1> USE SentinelAssumption DEF AuthInv, LockTarget, TargetCopy,
                                   Available, Goto, tables
  <1>1. req[t].name \in Name
    BY RequestTypes
  <1>2. TypeOK'
    BY <1>1 DEF TypeOK, Location
  <1>3. RequestInv'
    BY DEF TypeOK, RequestInv
  <1>4. IdentityInv'
    BY DEF TypeOK, RequestInv, IdentityInv, Authenticated, Exists
  <1>5. LockInv'
    <2>1. \A u \in Txn : pc[u] \in Holding => req[u].name \in Name
      BY RequestTypes DEF Holding
    <2>2. ASSUME NEW u \in Txn, u # t
          PROVE  /\ pc[u] \in Holding => lock'[req[u].name] = u
                 /\ \A n \in admins[u] : lock'[n] = u
      BY <1>1, <2>1, <2>2 DEF TypeOK, LockInv
    <2>3. \A n \in admins[t] : lock'[n] = t
      BY <1>1 DEF TypeOK, LockInv
    <2>4. lock'[req[t].name] = t
      BY <1>1 DEF TypeOK
    <2> QED
      BY <2>1, <2>2, <2>3, <2>4 DEF TypeOK, LockInv, Holding, Exists, IsAdmin
  <1>6. AcceptedInv'
    BY DEF TypeOK, AcceptedInv, ChangeAccepted
  <1>7. RevokingInv'
    BY DEF TypeOK, RequestInv, LockInv, RevokingInv, Holding
  <1>8. AdministratorRemains'
    BY DEF TypeOK, AdministratorRemains, IsAdmin, Exists
  <1> QED
    BY <1>2, <1>3, <1>4, <1>5, <1>6, <1>7, <1>8

\* The revocation statement sees every session there is.
LEMMA RevokeSessionsStep ==
  ASSUME AuthInv, NEW t \in Txn, RevokeSessions(t)
  PROVE  AuthInv'
  <1> USE SentinelAssumption DEF AuthInv, RevokeSessions, Goto, tables
  <1>1. TypeOK'
    BY DEF TypeOK, Location
  <1>2. RequestInv'
    BY DEF TypeOK, RequestInv
  <1>3. IdentityInv'
    BY DEF TypeOK, RequestInv, IdentityInv, Authenticated, Exists
  <1>4. LockInv'
    BY DEF TypeOK, RequestInv, IdentityInv, LockInv, Authenticated, Holding,
           Exists, IsAdmin
  <1>5. AcceptedInv'
    BY DEF TypeOK, AcceptedInv, ChangeAccepted
  <1>6. RevokingInv'
    BY DEF TypeOK, RevokingInv, NextActive
  <1>7. AdministratorRemains'
    BY DEF TypeOK, AdministratorRemains, IsAdmin, Exists
  <1> QED
    BY <1>1, <1>2, <1>3, <1>4, <1>5, <1>6, <1>7

\* The change of a user commits.  The row that changes is locked, its copy
\* tells whether it takes an administrator away, and if it does another one
\* is locked as well.
LEMMA CommitChangeStep ==
  ASSUME AuthInv, NEW t \in Txn, CommitChange(t)
  PROVE  AuthInv'
  <1> USE SentinelAssumption DEF AuthInv, CommitChange, Finish, Goto, tables
  <1>1. /\ req[t].name \in Name /\ lock[req[t].name] = t
        /\ users[req[t].name] \in UserRow /\ target[t] \in UserRow
        /\ req[t].op = "update" => req[t].role \in Roles \union {"same"}
        /\ req[t].op = "reset" => req[t].password \in Password
    BY CommitTypes
  <1>2. /\ users' = [users EXCEPT ![req[t].name] =
                       ChangedRow(users[req[t].name], target[t], req[t])]
        /\ ChangedRow(users[req[t].name], target[t], req[t]) \in UserRow
        /\ ChangedRow(users[req[t].name], target[t], req[t]).version = target[t].version + 1
    <2>1. users' = [users EXCEPT ![req[t].name] =
                      ChangedRow(users[req[t].name], target[t], req[t])]
      OBVIOUS
    <2>2. pc[t] = "commit"
      OBVIOUS
    <2> HIDE DEF AuthInv, CommitChange, Finish, Goto
    <2> QED
      BY <2>1, <2>2, CommittedRow
  <1>3. /\ trail[req[t].name] \in Seq(AuditEvent)
        /\ ChangedEvent(actor[t], target[t], req[t]) \in AuditEvent
    BY <1>1, CommittedEvent DEF TypeOK
  <1>4. sessions' \in [Sid -> SessionRow \union {NoSession}] /\ SessionsKept
    <2>1. sessions' = [s \in Sid |->
            IF s \in revoking[t] THEN [sessions[s] EXCEPT !.revoked = TRUE]
            ELSE sessions[s]]
      OBVIOUS
    <2>2. /\ \A s \in Sid : sessions[s] \in SessionRow \union {NoSession}
          /\ \A s \in revoking[t] : sessions[s] # NoSession
      BY DEF TypeOK, RevokingInv
    <2> HIDE DEF AuthInv, CommitChange, Finish, Goto
    <2>3. \A s \in Sid : IF s \in revoking[t]
                         THEN sessions'[s] = [sessions[s] EXCEPT !.revoked = TRUE]
                              /\ sessions[s] \in SessionRow
                         ELSE sessions'[s] = sessions[s]
      BY <2>1, <2>2
    <2> QED
      BY <2>1, <2>2, <2>3, MarkedSession DEF SessionsKept
  <1>5. \A n \in Name : n # req[t].name => users'[n] = users[n]
    BY <1>2 DEF TypeOK
  <1>6. TypeOK'
    BY <1>1, <1>2, <1>3, <1>4, AppendedTrail DEF TypeOK, Location
  <1>7. RequestInv'
    BY DEF TypeOK, RequestInv
  <1>8. IdentityInv'
    <2>1. \A n \in Name : Exists(n) => users'[n] # NoRow
      BY <1>1, <1>2, <1>5 DEF TypeOK, Exists
    <2> QED
      BY <1>4, <2>1, IdentityKept DEF TypeOK
  <1>9. LockInv'
    BY <1>1, <1>5, FinishKeepsLocks
  <1>10. AcceptedInv'
    BY DEF TypeOK, AcceptedInv, ChangeAccepted
  <1>11. RevokingInv'
    BY <1>4, RevokingKept DEF TypeOK
  <1>12. AdministratorRemains'
    <2>1. CASE req[t].op = "update" /\ RemovesActiveAdmin(target[t], req[t])
      <3>1. ~(Cardinality(admins[t]) <= 1)
        BY <2>1 DEF AcceptedInv, ChangeAccepted
      <3>2. PICK m \in admins[t] : m # req[t].name
        <4>1. admins[t] \in SUBSET Name
          BY DEF TypeOK
        <4> HIDE DEF AuthInv, CommitChange, Finish, Goto
        <4> QED
          BY <3>1, <4>1, AnotherOne
      <3>3. m \in Name /\ IsAdmin(m)
        BY <3>2 DEF TypeOK, LockInv
      <3> QED
        BY <3>2, <3>3, <1>5 DEF AdministratorRemains, IsAdmin, Exists
    <2>2. CASE ~(req[t].op = "update" /\ RemovesActiveAdmin(target[t], req[t]))
      <3>1. PICK m \in Name : IsAdmin(m)
        BY DEF AdministratorRemains
      <3>2. CASE m # req[t].name
        BY <1>5, <3>1, <3>2 DEF AdministratorRemains, IsAdmin, Exists
      <3>3. CASE m = req[t].name
        <4>1. target[t].active /\ target[t].role = "ADMIN"
          BY <3>1, <3>3 DEF LockInv, IdentityInv, Holding, Authenticated, IsAdmin
        <4>2. req[t].op = "update" => /\ NextRole(target[t], req[t]) = target[t].role
                                      /\ NextActive(target[t], req[t])
          BY <2>2, <4>1 DEF RemovesActiveAdmin
        <4>3. /\ users'[m].role = users[m].role
              /\ users'[m].active = users[m].active
          <5>1. users'[m] = ChangedRow(users[m], target[t], req[t])
            BY <1>2, <3>3 DEF TypeOK
          <5>2. NextActive(target[t], req[t]) \in BOOLEAN
            BY <1>1 DEF NextActive, UserRow
          <5>3. req[t].op = "update" => NextActive(target[t], req[t]) = target[t].active
            BY <4>1, <4>2, <5>2, <1>1 DEF UserRow
          <5>0. pc[t] = "commit"
            OBVIOUS
          <5> HIDE DEF AuthInv, CommitChange, Finish, Goto
          <5>4. /\ ChangedRow(users[m], target[t], req[t]).role = users[m].role
                /\ ChangedRow(users[m], target[t], req[t]).active = users[m].active
            BY <3>3, <4>2, <5>0, <5>3, CommittedRow
          <5> QED
            BY <5>1, <5>4
        <4>4. users'[m] \in UserRow
          BY <1>2, <3>3 DEF TypeOK
        <4> HIDE DEF AuthInv, CommitChange, Finish, Goto
        <4> QED
          BY <3>1, <4>3, <4>4 DEF AdministratorRemains, IsAdmin, Exists
      <3> QED
        BY <3>2, <3>3
    <2> QED
      BY <2>1, <2>2
  <1> QED
    BY <1>6, <1>7, <1>8, <1>9, <1>10, <1>11, <1>12

\* The founders, with their sessions.
LEMMA InitAuthInv == Init => AuthInv
  <1> SUFFICES ASSUME Init PROVE AuthInv
    OBVIOUS
  <1> USE SentinelAssumption, FounderAssumption DEF Init
  <1>0. /\ NewUser("ADMIN", FirstPassword) \in UserRow
        /\ CreatedEvent(NoUser, "ADMIN") \in AuditEvent
    BY CreatedUser DEF Roles
  <1>1. \A n \in Founder : n \in Name /\ users[n] = NewUser("ADMIN", FirstPassword)
    OBVIOUS
  <1>2. \A s \in DOMAIN OpenSession :
          LET row == NewSession(OpenSession[s], users[OpenSession[s]])
          IN  row \in SessionRow /\ row.user = OpenSession[s]
    BY <1>0, <1>1, IssuedSession
  <1>3. TypeOK
    <2>1. users \in [Name -> UserRow \union {NoRow}]
      BY <1>0
    <2>2. sessions \in [Sid -> SessionRow \union {NoSession}]
      BY <1>2
    <2>3. trail \in [Name -> Seq(AuditEvent)]
      BY <1>0
    <2>4. lock \in [Name -> Txn \union {NoTxn}] /\ begun \in 0..MaxRequests
      BY BoundAssumption
    <2>5. pc \in [Txn -> Location] /\ req \in [Txn -> Request \union {NoRequest}]
      BY DEF Location
    <2> QED
      BY <2>1, <2>2, <2>3, <2>4, <2>5 DEF TypeOK
  <1>4. RequestInv /\ LockInv /\ AcceptedInv /\ RevokingInv
    BY DEF RequestInv, LockInv, AcceptedInv, RevokingInv, Holding
  <1>5. IdentityInv
    BY <1>0, <1>1, <1>2 DEF IdentityInv, Exists, Authenticated
  <1>6. AdministratorRemains
    BY <1>0, <1>1 DEF AdministratorRemains, IsAdmin, Exists, NewUser
  <1> QED
    BY <1>3, <1>4, <1>5, <1>6 DEF AuthInv

LEMMA NextPreserves ==
  ASSUME AuthInv, [Next]_vars
  PROVE  AuthInv'
  <1>1. ASSUME NEW t \in Txn, Begin(t) \/ Step(t) \/ Rollback(t)
        PROVE  AuthInv'
    <2>1. CASE \/ DenyLogin(t) \/ Unauthorized(t) \/ NameTaken(t) \/ UserNotFound(t)
               \/ RejectChange(t) \/ DeadlockVictim(t) \/ Rollback(t)
      BY <2>1, FailStep DEF DenyLogin, Unauthorized, NameTaken, UserNotFound,
                            RejectChange, DeadlockVictim, Rollback
    <2> QED
      BY <1>1, <2>1, BeginStep, ReadCredentialsStep, IssueSessionStep,
         AuthenticateStep, LogoutStep, CheckNameStep, CreateUserStep,
         SelectAdminsStep, LockAdminStep, AdminsLockedStep, LockTargetStep,
         RevokeSessionsStep, CommitChangeStep DEF Step
  <1>2. ASSUME UNCHANGED vars
        PROVE  AuthInv'
    BY <1>2 DEF vars, AuthInv, TypeOK, RequestInv, IdentityInv, LockInv, AcceptedInv,
                ChangeAccepted, RevokingInv, AdministratorRemains,
                IsAdmin, Exists
  <1> QED
    BY <1>1, <1>2, ExpireStep DEF Next, Quiesce

\* A user row that exists is changed by a commit of its own change only.
LEMMA OnlyCommitChanges ==
  ASSUME AuthInv, [Next]_vars, NEW n \in Name, Exists(n), users'[n] # users[n]
  PROVE  \E t \in Txn : CommitChange(t) /\ req[t].name = n
  <1>1. PICK t \in Txn : CreateUser(t) \/ CommitChange(t)
    BY DEF Next, Step, Quiesce, vars, tables, Begin, ReadCredentials, IssueSession,
           DenyLogin, Authenticate, Unauthorized, Logout, Expire, CheckName, NameTaken,
           SelectAdmins, LockAdmin, AdminsLocked, LockTarget, UserNotFound,
           RejectChange, RevokeSessions, Rollback, DeadlockVictim, Fail
  <1>2. req[t].name \in Name
    BY <1>1, RequestTypes DEF CreateUser, CommitChange
  <1>3. CASE CreateUser(t)
    BY <1>2, <1>3 DEF CreateUser, AuthInv, TypeOK
  <1>4. CASE CommitChange(t)
    BY <1>2, <1>4 DEF CommitChange, AuthInv, TypeOK
  <1> QED
    BY <1>1, <1>3, <1>4

\* Users and what is told of them change when a user is created or a change
\* commits.
LEMMA OnlyTheseChangeUsers ==
  ASSUME AuthInv, [Next]_vars, ~(users' = users /\ trail' = trail)
  PROVE  \E t \in Txn : CreateUser(t) \/ CommitChange(t)
  BY DEF Next, Step, Quiesce, vars, tables, Begin, ReadCredentials, IssueSession,
         DenyLogin, Authenticate, Unauthorized, Logout, Expire, CheckName, NameTaken,
         SelectAdmins, LockAdmin, AdminsLocked, LockTarget, UserNotFound,
         RejectChange, RevokeSessions, Rollback, DeadlockVictim, Fail

\* A session is inserted by a login, and stays the session of its user.
LEMMA SessionStays ==
  ASSUME AuthInv, [Next]_vars, NEW s \in Sid, sessions'[s] # NoSession
  PROVE  /\ sessions[s] = NoSession => \E t \in Txn : IssueSession(t)
         /\ sessions[s] # NoSession =>
              /\ sessions'[s].user = sessions[s].user
              /\ sessions'[s].issued = sessions[s].issued
              /\ sessions[s].revoked => sessions'[s].revoked
  <1>1. CASE \E t \in Txn : IssueSession(t)
    <2>1. PICK t \in Txn : IssueSession(t)
      BY <1>1
    <2>2. sessions[s] # NoSession => sessions'[s] = sessions[s]
      BY <2>1 DEF IssueSession, AuthInv, TypeOK
    <2> QED
      BY <1>1, <2>2
  <1>2. CASE \E t \in Txn : Logout(t)
    <2>1. PICK t \in Txn : Logout(t)
      BY <1>2
    <2>2. req[t].sid \in Sid /\ sessions[req[t].sid] \in SessionRow
      BY <2>1, RequestTypes DEF Logout, AuthInv, TypeOK, IdentityInv, Authenticated
    <2>3. sessions' = [sessions EXCEPT ![req[t].sid] =
                         [sessions[req[t].sid] EXCEPT !.revoked = TRUE]]
      BY <2>1 DEF Logout
    <2>4. sessions \in [Sid -> SessionRow \union {NoSession}]
      BY DEF AuthInv, TypeOK
    <2> QED
      BY <2>2, <2>3, <2>4, MarkedSession, SentinelAssumption
  <1>3. CASE \E x \in Sid : Expire(x)
    <2>1. PICK x \in Sid : Expire(x)
      BY <1>3
    <2>2. /\ sessions \in [Sid -> SessionRow \union {NoSession}]
          /\ sessions[x] \in SessionRow
      BY <2>1 DEF Expire, AuthInv, TypeOK
    <2>3. sessions' = [sessions EXCEPT ![x] = [sessions[x] EXCEPT !.expired = TRUE]]
      BY <2>1 DEF Expire
    <2> QED
      BY <2>2, <2>3, MarkedSession, SentinelAssumption
  <1>4. CASE \E t \in Txn : CommitChange(t)
    <2>1. PICK t \in Txn : CommitChange(t)
      BY <1>4
    <2>2. sessions'[s] = IF s \in revoking[t] THEN [sessions[s] EXCEPT !.revoked = TRUE]
                         ELSE sessions[s]
      BY <2>1 DEF CommitChange
    <2>3. /\ sessions[s] \in SessionRow \union {NoSession}
          /\ s \in revoking[t] => sessions[s] # NoSession
      BY DEF AuthInv, TypeOK, RevokingInv
    <2> QED
      BY <2>2, <2>3, MarkedSession, SentinelAssumption
  <1>5. CASE sessions' = sessions
    BY <1>5
  <1> QED
    BY <1>1, <1>2, <1>3, <1>4, <1>5
    DEF Next, Step, Quiesce, vars, tables, Begin, ReadCredentials, DenyLogin,
        Authenticate, Unauthorized, CheckName, NameTaken, CreateUser, SelectAdmins,
        LockAdmin, AdminsLocked, LockTarget, UserNotFound, RejectChange,
        RevokeSessions, Rollback, DeadlockVictim, Fail

\* The password of a user changes, and an active user becomes inactive, only
\* when every session of the user is marked revoked.
LEMMA UnrevokedKeepsUser ==
  ASSUME AuthInv, [Next]_vars, NEW s \in Sid, sessions[s] # NoSession, ~sessions'[s].revoked,
         NEW n, n = sessions[s].user, n \in Name, Exists(n)
  PROVE  /\ users'[n].password = users[n].password
         /\ users[n].active => users'[n].active
  <1> SUFFICES ASSUME users'[n] # users[n]
               PROVE  /\ users'[n].password = users[n].password
                      /\ users[n].active => users'[n].active
    OBVIOUS
  <1>1. PICK t \in Txn : CommitChange(t) /\ req[t].name = n
    BY OnlyCommitChanges
  <1> DEFINE u == users[n]
             c == target[t]
             r == req[t]
  <1>2. /\ users'[n] = ChangedRow(u, c, r)
        /\ pc[t] = "commit"
        /\ sessions'[s] = IF s \in revoking[t] THEN [sessions[s] EXCEPT !.revoked = TRUE]
                          ELSE sessions[s]
    BY <1>1 DEF CommitChange, AuthInv, TypeOK
  <1>3. sessions[s] \in SessionRow
    BY DEF AuthInv, TypeOK
  <1>4. ~sessions[s].revoked /\ s \notin revoking[t]
    BY <1>2, <1>3, MarkedSession
  <1>5. r.op = "update" /\ NextActive(c, r)
    BY <1>1, <1>2, <1>4 DEF AuthInv, RevokingInv
  <1>6. /\ ChangedRow(u, c, r).active = IF r.op = "update" /\ c.active # NextActive(c, r)
                                        THEN NextActive(c, r) ELSE u.active
        /\ r.op # "reset" => ChangedRow(u, c, r).password = u.password
    BY <1>1, <1>2, CommittedRow
  <1> QED
    BY <1>2, <1>5, <1>6

\* Nothing is told of a name that nobody has.
UntoldInv == \A n \in Name : ~Exists(n) => trail[n] = <<>>

\* The event of a new user names its role and that it is active; its version
\* is the first.
LEMMA CreationExplained ==
  ASSUME AuthInv, UntoldInv, NEW t \in Txn, CreateUser(t), NEW n, n = req[t].name, n \in Name,
         NEW f \in {"role", "active", "version"}
  PROVE  Explained(trail'[n], n, users'[n], f)
  <1> DEFINE e == CreatedEvent(actor[t], req[t].role)
             u == NewUser(req[t].role, req[t].password)
  <1>1. users'[n] = u /\ trail'[n] = Append(trail[n], e) /\ trail[n] = <<>>
    BY DEF CreateUser, AuthInv, TypeOK, UntoldInv
  <1>2. DOMAIN trail'[n] = {1} /\ trail'[n][1] = e
    BY <1>1
  <1>3. IF f = "version" THEN e[f] = {} /\ u[f] = 1 ELSE e[f] = {u[f]}
    BY CreatedFields
  <1> HIDE DEF e, u
  <1> QED
    BY <1>1, <1>2, <1>3, FirstExplains

\* The event of a change names what the row becomes, unless users change
\* themselves; a reset, whose event names neither, leaves role and active.
LEMMA CommitExplained ==
  ASSUME AuthInv, NEW t \in Txn, CommitChange(t), NEW n, n = req[t].name, n \in Name,
         trail[n] \in Seq(AuditEvent),
         NEW f \in {"role", "active", "version"}, Explained(trail[n], n, users[n], f)
  PROVE  Explained(trail'[n], n, users'[n], f)
  <1>1. PICK u : u = users[n]
    OBVIOUS
  <1>2. PICK c : c = target[t]
    OBVIOUS
  <1>3. PICK r : r = req[t]
    OBVIOUS
  <1>4. PICK v : v = ChangedRow(u, c, r)
    OBVIOUS
  <1>5. PICK e : e = ChangedEvent(actor[t], c, r)
    OBVIOUS
  <1>6. /\ pc[t] = "commit" /\ users'[n] = v
        /\ trail'[n] = Append(trail[n], e)
    BY <1>1, <1>2, <1>3, <1>4, <1>5 DEF CommitChange, AuthInv, TypeOK
  <1>7. e \in AuditEvent
    BY <1>2, <1>3, <1>5, <1>6, CommittedEvent
  <1>8. /\ v.version = c.version + 1
        /\ v.role = IF r.op = "update" /\ c.role # NextRole(c, r)
                    THEN NextRole(c, r) ELSE u.role
        /\ v.active = IF r.op = "update" /\ c.active # NextActive(c, r)
                      THEN NextActive(c, r) ELSE u.active
    BY <1>1, <1>2, <1>3, <1>4, <1>6, CommittedRow
  <1>9. e.by = n \/ c = u
    BY <1>1, <1>2, <1>5, <1>6 DEF AuthInv, LockInv, Holding, ChangedEvent
  <1>10. /\ e.role = IF r.op = "update" THEN {NextRole(c, r)} ELSE {}
         /\ e.active = IF r.op = "update" THEN {NextActive(c, r)} ELSE {}
         /\ e.version = {c.version + 1}
    BY <1>5 DEF ChangedEvent
  <1>11. IF e[f] = {} THEN v[f] = u[f] ELSE e.by = n \/ e[f] = {v[f]}
    <2>1. CASE f = "role"
      BY <1>8, <1>9, <1>10, <2>1
    <2>2. CASE f = "active"
      BY <1>8, <1>9, <1>10, <2>2
    <2>3. CASE f = "version"
      BY <1>8, <1>10, <2>3
    <2> QED
      BY <2>1, <2>2, <2>3
  <1>12. Explained(Append(trail[n], e), n, v, f)
    BY <1>1, <1>7, <1>11, ExplainedAfter
  <1> QED
    BY <1>6, <1>12

-----------------------------------------------------------------------------
(***************************************************************************)
(* The theorems                                                            *)
(***************************************************************************)
\* The invariant holds in every reachable state.
THEOREM AuthInvariant == Spec => []AuthInv
  <1>1. AuthInv /\ [Next]_vars => AuthInv'
    BY NextPreserves
  <1> QED
    BY InitAuthInv, <1>1, PTL DEF Spec

\* Users, sessions, locks and what each thread has read keep their types.
THEOREM AuthTypeCorrect == Spec => []TypeOK
  <1>1. AuthInv => TypeOK
    BY DEF AuthInv
  <1> QED
    BY <1>1, AuthInvariant, PTL

\* update_local_user never leaves the system without an active administrator,
\* however many administrators demote or disable each other and themselves
\* at once, and although the row of the actor may be stale.
THEOREM AdministratorTheorem == Spec => []AdministratorRemains
  <1>1. AuthInv => AdministratorRemains
    BY DEF AuthInv
  <1> QED
    BY <1>1, AuthInvariant, PTL

\* The audit trail explains the row of every user: a change is recorded from
\* a copy that is the locked row, unless users change themselves, and what
\* they change of themselves leaves every other column alone.
THEOREM TrailTheorem == Spec => []TrailExplainsUsers
  <1>1. Init => TrailExplainsUsers
    <2> SUFFICES ASSUME Init, NEW n \in Name, Exists(n), NEW f \in {"role", "active", "version"}
                 PROVE  Explained(trail[n], n, users[n], f)
      BY DEF TrailExplainsUsers, Explained
    <2>1. /\ trail[n] = <<CreatedEvent(NoUser, "ADMIN")>>
          /\ users[n] = NewUser("ADMIN", FirstPassword)
      BY DEF Init, Exists
    <2>2. LET e == CreatedEvent(NoUser, "ADMIN")
              u == NewUser("ADMIN", FirstPassword)
          IN  IF f = "version" THEN e[f] = {} /\ u[f] = 1 ELSE e[f] = {u[f]}
      <3>1. CASE f = "role"
        BY <3>1 DEF CreatedEvent, NewUser
      <3>2. CASE f = "active"
        BY <3>2 DEF CreatedEvent, NewUser
      <3>3. CASE f = "version"
        BY <3>3 DEF CreatedEvent, NewUser
      <3> QED
        BY <3>1, <3>2, <3>3
    <2>3. DOMAIN trail[n] = {1} /\ trail[n][1] = CreatedEvent(NoUser, "ADMIN")
      BY <2>1
    <2> QED
      BY <2>1, <2>2, <2>3, FirstExplains
  <1>2. Init => UntoldInv
    <2>1. NewUser("ADMIN", FirstPassword) # NoRow
      BY CreatedUser, SentinelAssumption DEF Roles
    <2> QED
      BY <2>1 DEF Init, UntoldInv, Exists
  <1>3. ASSUME AuthInv, UntoldInv, TrailExplainsUsers, [Next]_vars
        PROVE  TrailExplainsUsers'
    <2> SUFFICES ASSUME NEW n \in Name, Exists(n)', NEW f \in {"role", "active", "version"}
                 PROVE  Explained(trail'[n], n, users'[n], f)
      BY DEF TrailExplainsUsers, Explained
    <2>1. CASE users'[n] = users[n] /\ trail'[n] = trail[n]
      BY <1>3, <2>1 DEF TrailExplainsUsers, Explained, Exists
    <2>2. CASE ~(users'[n] = users[n] /\ trail'[n] = trail[n])
      <3>1. PICK t \in Txn : CreateUser(t) \/ CommitChange(t)
        BY <1>3, <2>2, OnlyTheseChangeUsers
      <3>2. req[t].name \in Name
        BY <1>3, <3>1, RequestTypes DEF CreateUser, CommitChange
      <3>3. req[t].name = n
        BY <1>3, <2>2, <3>1, <3>2 DEF CreateUser, CommitChange, AuthInv, TypeOK
      <3>4. trail[n] \in Seq(AuditEvent)
        BY <1>3 DEF AuthInv, TypeOK
      <3>5. CASE CreateUser(t)
        BY <1>3, <3>3, <3>5, CreationExplained
      <3>6. CASE CommitChange(t)
        <4>1. Exists(n)
          BY <1>3, <3>3, <3>6 DEF CommitChange, AuthInv, LockInv, Holding
        <4>2. Explained(trail[n], n, users[n], f)
          BY <1>3, <4>1 DEF TrailExplainsUsers, Explained
        <4> QED
          BY <1>3, <3>3, <3>4, <3>6, <4>2, CommitExplained
      <3> QED
        BY <3>1, <3>5, <3>6
    <2> QED
      BY <2>1, <2>2
  <1>4. ASSUME AuthInv, UntoldInv, [Next]_vars
        PROVE  UntoldInv'
    <2> SUFFICES ASSUME NEW n \in Name, ~Exists(n)'
                 PROVE  trail'[n] = <<>>
      BY DEF UntoldInv
    <2>1. CASE users' = users /\ trail' = trail
      BY <1>4, <2>1 DEF UntoldInv, Exists
    <2>2. CASE ~(users' = users /\ trail' = trail)
      <3>1. PICK t \in Txn : CreateUser(t) \/ CommitChange(t)
        BY <1>4, <2>2, OnlyTheseChangeUsers
      <3>2. req[t].name \in Name
        BY <1>4, <3>1, RequestTypes DEF CreateUser, CommitChange
      <3>3. req[t].name # n
        <4>1. users'[req[t].name] \in UserRow
          <5>1. CASE CreateUser(t)
            BY <1>4, <3>2, <5>1, CreatedUser, RequestTypes DEF CreateUser, AuthInv, TypeOK
          <5>2. CASE CommitChange(t)
            BY <1>4, <3>2, <5>2, CommittedRow DEF CommitChange, AuthInv, TypeOK
          <5> QED
            BY <3>1, <5>1, <5>2
        <4> QED
          BY <4>1, SentinelAssumption DEF Exists
      <3>4. users'[n] = users[n] /\ trail'[n] = trail[n]
        BY <1>4, <3>1, <3>2, <3>3 DEF CreateUser, CommitChange, AuthInv, TypeOK
      <3> QED
        BY <1>4, <3>4 DEF UntoldInv, Exists
    <2> QED
      BY <2>1, <2>2
  <1>5. AuthInv /\ UntoldInv /\ [Next]_vars => UntoldInv'
    BY <1>4
  <1>6. AuthInv /\ UntoldInv /\ TrailExplainsUsers /\ [Next]_vars => TrailExplainsUsers'
    BY <1>3
  <1> QED
    BY <1>1, <1>2, <1>5, <1>6, AuthInvariant, PTL DEF Spec

\* Whichever logins race it, a password reset or a deactivation leaves no
\* unrevoked session that was inserted before it committed.  A login that
\* overlaps it may still insert one afterwards.
THEOREM RevocationTheorem == Spec => []RevocationComplete
  <1>1. Init => RevocationComplete
    <2> SUFFICES ASSUME Init, NEW s \in Sid, sessions[s] # NoSession
                 PROVE  LET u == users[sessions[s].user]
                        IN  /\ sessions[s].issued.password = u.password
                            /\ sessions[s].issued.active => u.active
      BY DEF RevocationComplete
    <2>1. /\ OpenSession[s] \in Name /\ users[OpenSession[s]] = NewUser("ADMIN", FirstPassword)
          /\ sessions[s] = NewSession(OpenSession[s], users[OpenSession[s]])
      BY FounderAssumption DEF Init
    <2>2. NewUser("ADMIN", FirstPassword) \in UserRow /\ FirstPassword \in Password
      BY CreatedUser, SentinelAssumption DEF Roles
    <2> QED
      BY <2>1, <2>2, IssuedSession
  <1>2. ASSUME AuthInv, RevocationComplete, [Next]_vars
        PROVE  RevocationComplete'
    <2> SUFFICES ASSUME NEW s \in Sid, sessions'[s] # NoSession, ~sessions'[s].revoked
                 PROVE  LET u == users'[sessions'[s].user]
                        IN  /\ sessions'[s].issued.password = u.password
                            /\ sessions'[s].issued.active => u.active
      BY DEF RevocationComplete
    <2>1. CASE \E t \in Txn : IssueSession(t) /\ sessions[s] = NoSession
      <3>1. PICK t \in Txn : IssueSession(t) /\ sessions[s] = NoSession
        BY <2>1
      <3>2. /\ req[t].name \in Name /\ users[req[t].name] \in UserRow
            /\ req[t].password \in Password
        BY <1>2, <3>1, LoginRow DEF IssueSession
      <3>3. /\ users' = users
            /\ sessions'[s] = NewSession(req[t].name, users[req[t].name])
        BY <1>2, <3>1 DEF IssueSession, AuthInv, TypeOK
      <3> QED
        BY <3>2, <3>3, IssuedSession
    <2>2. CASE sessions[s] # NoSession
      <3>1. /\ sessions'[s].user = sessions[s].user
            /\ sessions'[s].issued = sessions[s].issued
            /\ ~sessions[s].revoked
        BY <1>2, <2>2, SessionStays
      <3>2. sessions[s].user \in Name /\ Exists(sessions[s].user)
        BY <1>2, <2>2 DEF AuthInv, TypeOK, SessionRow, IdentityInv
      <3> DEFINE n == sessions[s].user
      <3>3. /\ sessions[s].issued.password = users[n].password
            /\ sessions[s].issued.active => users[n].active
        BY <1>2, <2>2, <3>1 DEF RevocationComplete
      <3>4. /\ users'[n].password = users[n].password
            /\ users[n].active => users'[n].active
        BY <1>2, <2>2, <3>2, UnrevokedKeepsUser
      <3> QED
        BY <3>1, <3>3, <3>4
    <2>3. sessions[s] = NoSession => \E t \in Txn : IssueSession(t)
      BY <1>2, SessionStays
    <2> QED
      BY <2>1, <2>2, <2>3
  <1>3. AuthInv /\ RevocationComplete /\ [Next]_vars => RevocationComplete'
    BY <1>2
  <1> QED
    BY <1>1, <1>3, AuthInvariant, PTL DEF Spec

\* A change of another user than oneself was computed from the committed row.
THEOREM OthersVersionTheorem == Spec => OthersVersionAdvances
  <1> DEFINE Changes(t) == pc[t] = "commit" /\ pc'[t] = "idle" /\ req[t].name # actor[t]
                             /\ users' # users
             Advances(t) == users'[req[t].name].version = users[req[t].name].version + 1
  <1>1. ASSUME AuthInv, [Next]_vars, NEW t \in Txn, Changes(t)
        PROVE  Advances(t)
    <2>1. CommitChange(t)
      <3>1. PICK w \in Txn : CreateUser(w) \/ CommitChange(w)
        BY <1>1 DEF Next, Step, Quiesce, vars, tables, Begin, ReadCredentials,
           IssueSession, DenyLogin, Authenticate, Unauthorized, Logout, Expire,
           CheckName, NameTaken, SelectAdmins, LockAdmin, AdminsLocked, LockTarget,
           UserNotFound, RejectChange, RevokeSessions, Rollback, DeadlockVictim, Fail
      <3>2. w = t
        BY <1>1, <3>1 DEF CreateUser, CommitChange, Finish, Goto, AuthInv, TypeOK
      <3> QED
        BY <1>1, <3>1, <3>2 DEF CreateUser
    <2>2. target[t] = users[req[t].name]
      BY <1>1 DEF AuthInv, LockInv, Holding
    <2>3. users'[req[t].name] = ChangedRow(users[req[t].name], target[t], req[t])
      BY <1>1, <2>1, CommitTypes DEF CommitChange, AuthInv, TypeOK
    <2>4. ChangedRow(users[req[t].name], target[t], req[t]).version = target[t].version + 1
      BY <1>1, CommittedRow
    <2> QED
      BY <2>2, <2>3, <2>4
  <1>2. AuthInv /\ [Next]_vars => [\A t \in Txn : Changes(t) => Advances(t)]_vars
    BY <1>1
  <1> QED
    BY <1>2, AuthInvariant, PTL DEF Spec, OthersVersionAdvances
=============================================================================
