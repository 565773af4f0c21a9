--------------------------- MODULE IncidentProofs ---------------------------
(***************************************************************************)
(* Proofs about IncidentStore and IncidentReader, for every set of         *)
(* sessions, incidents, evidence and requests: first what a session knows, *)
(* types and evidence; then what the aggregate records.                    *)
(***************************************************************************)
EXTENDS IncidentReader, FiniteSetTheorems, SequenceTheorems, TLAPS

(***************************************************************************)
(* What a session knows at each of its locations.  The last two conjuncts  *)
(* are the point of the row lock: between its SELECT ... FOR UPDATE and    *)
(* its commit, a session that did not read the row earlier works on the    *)
(* committed row.                                                          *)
(***************************************************************************)
SessionOK(t) ==
  /\ pc[t] # "idle" => target[t] \in Key /\ req[t] \in Request
  /\ pc[t] \in {"preread", "lock", "locked"} => req[t].op \in Mutation
  /\ pc[t] \in {"insert", "insertBound", "created", "enrich"} =>
       req[t].op = "qualify"
  /\ pc[t] = "preread" => ReadsBeforeLock(req[t])
  /\ pc[t] = "idle" => copy[t] = NoRow
  /\ pc[t] = "created" => lock[target[t]] = t /\ row[target[t]] = NoRow
  /\ pc[t] \in {"locked", "enrich"} =>
       lock[target[t]] = t /\ row[target[t]] # NoRow /\ copy[t] # NoRow
  /\ pc[t] = "lock" /\ ~ReadsBeforeLock(req[t]) => copy[t] = NoRow
  /\ pc[t] = "locked" /\ ~ReadsBeforeLock(req[t]) => copy[t] = row[target[t]]
  /\ pc[t] = "enrich" => copy[t] = row[target[t]]

\* The inductive invariant: types and what every session knows.
SessionInv == TypeOK /\ \A t \in Txn : SessionOK(t)

-----------------------------------------------------------------------------
(***************************************************************************)
(* Lemmas about the operators                                              *)
(***************************************************************************)
\* A membership function is a function from some records to roles.
LEMMA MembershipsType ==
  ASSUME NEW f
  PROVE  f \in Memberships <=> /\ DOMAIN f \subseteq Evidence
                               /\ f \in [DOMAIN f -> Role]
  BY DEF Memberships

\* Membership rows inserted on top of others give membership rows.
LEMMA OnConflictType ==
  ASSUME NEW f \in Memberships, NEW g \in Memberships
  PROVE  /\ OnConflictDoNothing(f, g) \in Memberships
         /\ DOMAIN OnConflictDoNothing(f, g) = DOMAIN f \union DOMAIN g
  BY MembershipsType DEF OnConflictDoNothing

\* Demoting a foreign PRIMARY keeps the records and gives roles.
LEMMA EffectiveRolesType ==
  ASSUME NEW i, NEW c, c.roles \in Memberships
  PROVE  /\ EffectiveRoles(i, c) \in Memberships
         /\ DOMAIN EffectiveRoles(i, c) = DOMAIN c.roles
  BY MembershipsType DEF EffectiveRoles, Role

\* What RequestAssumption says of a qualification.
LEMMA CandidateType ==
  ASSUME NEW r \in Request, r.op = "qualify"
  PROVE  /\ r.value \in Candidate
         /\ r.value.roles \in Memberships
         /\ IsFiniteSet(DOMAIN r.value.roles)
         /\ {e \in DOMAIN r.value.roles : r.value.roles[e] = "PRIMARY"} =
              {r.value.primary}
         /\ \A e \in DOMAIN r.value.roles : RunOf[e] \in {NoRun, r.value.bound}
         /\ r.value.bound # NoRun =>
              \E e \in DOMAIN r.value.roles : RunOf[e] = r.value.bound
  BY RequestAssumption DEF WellFormed, Candidate, Mutation

\* An entry with a known action and known values is a log entry.
LEMMA EntryType ==
  ASSUME NEW action \in {"CREATED", "STATUS", "NOTE", "ASSIGN", "DISPOSITION",
                         "REPORT", "ENRICHED", "SEVERITY"},
         NEW before \in Nat, NEW after \in Nat,
         NEW prev \in Status \union Severity \union Disposition \union User
                        \union {NoUser, NoText, "NONE"},
         NEW new \in Status \union Severity \union Disposition \union User
                        \union Text \union {NoUser, "NONE"}
  PROVE  Entry(action, before, after, prev, new) \in LogEntry
  BY DEF Entry, LogEntry

-----------------------------------------------------------------------------
\* The end of a session leaves its bookkeeping well typed.
LEMMA EndSessionType ==
  ASSUME TypeOK, NEW t \in Txn, EndSession(t)
  PROVE  /\ lock' \in [Key -> Txn \union {NoTxn}]
         /\ pc' \in [Txn -> Location]
         /\ req' \in [Txn -> Request \union {NoRequest}]
         /\ target' \in [Txn -> Key \union {NoKey}]
         /\ copy' \in [Txn -> Row \union {NoRow}]
         /\ begun' \in 0..MaxRequests
  BY DEF TypeOK, EndSession, Location

\* A commit or rollback of a session disturbs no other session, because it
\* changes no row but one it has locked.
LEMMA EndSessionOK ==
  ASSUME TypeOK, \A s \in Txn : SessionOK(s), NEW t \in Txn, EndSession(t),
         \A k \in Key : row'[k] # row[k] => lock[k] = t
  PROVE  \A s \in Txn : SessionOK(s)'
  <1> SUFFICES ASSUME NEW s \in Txn PROVE SessionOK(s)'
    OBVIOUS
  <1>1. CASE s = t
    BY <1>1 DEF SessionOK, EndSession, TypeOK, ReadsBeforeLock
  <1>2. CASE s # t
    <2>1. /\ pc'[s] = pc[s] /\ req'[s] = req[s]
          /\ target'[s] = target[s] /\ copy'[s] = copy[s]
      BY <1>2 DEF EndSession, TypeOK
    <2>2. ASSUME pc[s] \in {"created", "locked", "enrich"}
          PROVE  /\ row'[target[s]] = row[target[s]]
                 /\ lock'[target[s]] = lock[target[s]]
      <3>1. target[s] \in Key /\ lock[target[s]] = s
        BY <2>2 DEF SessionOK
      <3> QED
        BY <3>1, <1>2 DEF EndSession
    <2> QED
      BY <2>1, <2>2 DEF SessionOK, ReadsBeforeLock
  <1> QED
    BY <1>1, <1>2

-----------------------------------------------------------------------------
(***************************************************************************)
(* The invariant SessionInv, action by action                              *)
(***************************************************************************)
\* All sessions are idle at first.
LEMMA InitSessionInv == Init => SessionInv
  <1> SUFFICES ASSUME Init PROVE SessionInv
    OBVIOUS
  <1>1. TypeOK
    <2>1. Empty \in Memberships
      BY MembershipsType DEF Empty
    <2> QED
      BY <2>1, BoundAssumption DEF Init, TypeOK, Location
  <1>2. \A t \in Txn : SessionOK(t)
    BY DEF Init, SessionOK
  <1> QED
    BY <1>1, <1>2 DEF SessionInv

\* Begin, PreRead, LockIncident, InsertIncident and LoadIncident change no
\* table: it is enough to look at the session that moves.
LEMMA SessionStepInv ==
  ASSUME SessionInv, NEW t \in Txn,
         \/ Begin(t) \/ PreRead(t) \/ LockIncident(t) \/ InsertIncident(t)
         \/ LoadIncident(t)
  PROVE  SessionInv'
  <1> USE DEF SessionInv
  <1>0. /\ UNCHANGED tables
        /\ row' = row
    BY DEF Begin, PreRead, LockIncident, InsertIncident, LoadIncident, tables
  <1>1. CASE Begin(t)
    <2>1. PICK r \in Request :
            /\ req' = [req EXCEPT ![t] = r]
            /\ target' = [target EXCEPT ![t] = r.key]
            /\ pc' = [pc EXCEPT ![t] = IF r.op = "qualify" THEN "insert"
                                       ELSE IF ReadsBeforeLock(r) THEN "preread"
                                       ELSE "lock"]
      BY <1>1 DEF Begin
    <2>2. r.key \in Key /\ r.op \in Mutation \union {"qualify"}
      BY RequestAssumption DEF WellFormed
    <2>3. TypeOK'
      BY <1>1, <2>1, <2>2, BoundAssumption
      DEF Begin, TypeOK, Location, tables
    <2>4. ASSUME NEW s \in Txn PROVE SessionOK(s)'
      <3>1. CASE s = t
        BY <1>1, <2>1, <2>2, <3>1
        DEF Begin, TypeOK, SessionOK, ReadsBeforeLock, Mutation, tables
      <3>2. CASE s # t
        BY <1>1, <2>1, <3>2 DEF Begin, TypeOK, SessionOK, ReadsBeforeLock, tables
      <3> QED
        BY <3>1, <3>2
    <2> QED
      BY <2>3, <2>4
  <1>2. CASE PreRead(t)
    <2>1. TypeOK'
      BY <1>2 DEF PreRead, TypeOK, SessionOK, Location, tables
    <2>2. ASSUME NEW s \in Txn PROVE SessionOK(s)'
      <3>1. CASE s = t
        BY <1>2, <3>1 DEF PreRead, TypeOK, SessionOK, ReadsBeforeLock, tables
      <3>2. CASE s # t
        BY <1>2, <3>2 DEF PreRead, TypeOK, SessionOK, ReadsBeforeLock, tables
      <3> QED
        BY <3>1, <3>2
    <2> QED
      BY <2>1, <2>2
  <1>3. CASE LockIncident(t)
    <2>1. TypeOK'
      BY <1>3 DEF LockIncident, TypeOK, SessionOK, Location, IdentityMapLoad,
                  tables
    <2>2. ASSUME NEW s \in Txn PROVE SessionOK(s)'
      BY <1>3, SentinelAssumption
      DEF LockIncident, TypeOK, SessionOK, ReadsBeforeLock, IdentityMapLoad,
          Exists, Free, tables
    <2> QED
      BY <2>1, <2>2
  <1>4. CASE InsertIncident(t)
    <2>1. TypeOK'
      BY <1>4 DEF InsertIncident, TypeOK, SessionOK, Location, tables
    <2>2. ASSUME NEW s \in Txn PROVE SessionOK(s)'
      BY <1>4, SentinelAssumption
      DEF InsertIncident, TypeOK, SessionOK, ReadsBeforeLock, Exists, Free,
          tables
    <2> QED
      BY <2>1, <2>2
  <1>5. CASE LoadIncident(t)
    <2>1. req[t].value.boundKey \in Key /\ target[t] \in Key
      BY <1>5, CandidateType DEF LoadIncident, SessionOK, Candidate
    <2>2. TypeOK'
      <3>1. /\ target' \in [Txn -> Key \union {NoKey}]
            /\ copy' \in [Txn -> Row \union {NoRow}]
            /\ pc' \in [Txn -> Location]
        <4>1. row[target[t]] \in Row \union {NoRow}
          BY <2>1 DEF TypeOK
        <4> QED
          BY <1>5, <2>1, <4>1 DEF LoadIncident, TypeOK, Location
      <3>2. /\ lock' \in [Key -> Txn \union {NoTxn}]
            /\ UNCHANGED <<members, log, report, revisions, req, begun>>
        BY <1>5 DEF LoadIncident, TypeOK, tables
      <3> QED
        BY <1>0, <3>1, <3>2 DEF TypeOK
    <2>3. ASSUME NEW s \in Txn PROVE SessionOK(s)'
      <3>1. CASE s = t
        BY <1>5, <2>1, <3>1 DEF LoadIncident, TypeOK, SessionOK, Exists, tables
      <3>2. CASE s # t
        <4>1. /\ pc'[s] = pc[s] /\ req'[s] = req[s]
              /\ target'[s] = target[s] /\ copy'[s] = copy[s]
          BY <1>5, <3>2 DEF LoadIncident, TypeOK
        <4>2. ASSUME pc[s] \in {"created", "locked", "enrich"}
              PROVE  lock'[target[s]] = lock[target[s]]
          BY <1>5, <2>1, <3>2, <4>2, SentinelAssumption
          DEF LoadIncident, Free, TypeOK, SessionOK
        <4> QED
          BY <1>0, <4>1, <4>2 DEF SessionOK, ReadsBeforeLock
      <3> QED
        BY <3>1, <3>2
    <2> QED
      BY <2>2, <2>3
  <1> QED
    BY <1>1, <1>2, <1>3, <1>4, <1>5

-----------------------------------------------------------------------------
\* The value of a request has the type its operation asks for.
LEMMA MutationType ==
  ASSUME NEW r \in Request, r.op \in Mutation
  PROVE  /\ r.op = "status" => r.value \in Status
         /\ r.op \in {"note", "report"} => r.value \in Text
         /\ r.op = "assign" => r.value \in User \union {NoUser}
         /\ r.op = "disposition" => r.value \in Disposition
  BY RequestAssumption DEF WellFormed, Mutation

\* A session that holds the row lock has a target, a request, a row and a
\* copy of it, all well typed.
LEMMA LockedFacts ==
  ASSUME SessionInv, NEW t \in Txn, pc[t] \in {"locked", "enrich"}
  PROVE  /\ target[t] \in Key /\ req[t] \in Request
         /\ lock[target[t]] = t
         /\ row[target[t]] \in Row /\ row[target[t]] # NoRow
         /\ copy[t] \in Row
         /\ pc[t] = "locked" => req[t].op \in Mutation
         /\ pc[t] = "enrich" => req[t].op = "qualify" /\ copy[t] = row[target[t]]
  BY DEF SessionInv, SessionOK, TypeOK

\* Appending a log entry keeps the log a log.
LEMMA AppendEntryType ==
  ASSUME TypeOK, NEW k \in Key, NEW e \in LogEntry, AppendEntry(k, e)
  PROVE  log' \in [Key -> Seq(LogEntry)]
  <1>1. log[k] \in Seq(LogEntry)
    BY DEF TypeOK
  <1>2. Append(log[k], e) \in Seq(LogEntry)
    BY <1>1
  <1> QED
    BY <1>2 DEF TypeOK, AppendEntry

\* A commit that replaces the locked row by a row and appends to the log.
LEMMA CommitInv ==
  ASSUME SessionInv, NEW t \in Txn, NEW k \in Key, lock[k] = t,
         NEW new \in Row, row' = [row EXCEPT ![k] = new],
         log' \in [Key -> Seq(LogEntry)], members' \in [Key -> Memberships],
         EndSession(t), UNCHANGED <<report, revisions>>
  PROVE  SessionInv'
  <1>1. row' \in [Key -> Row \union {NoRow}]
    BY DEF SessionInv, TypeOK
  <1>2. TypeOK'
    BY <1>1, EndSessionType DEF SessionInv, TypeOK
  <1>3. \A j \in Key : row'[j] # row[j] => lock[j] = t
    BY DEF SessionInv, TypeOK
  <1>4. \A s \in Txn : SessionOK(s)'
    BY <1>3, EndSessionOK DEF SessionInv
  <1> QED
    BY <1>2, <1>4 DEF SessionInv

\* The columns a mutation writes keep a row a row.
LEMMA RowUpdate ==
  ASSUME NEW r \in Row, NEW v \in Nat
  PROVE  /\ [r EXCEPT !.version = v] \in Row
         /\ \A x \in Status : [r EXCEPT !.status = x, !.version = v] \in Row
         /\ \A x \in User \union {NoUser} :
              [r EXCEPT !.assignee = x, !.version = v] \in Row
         /\ \A x \in Disposition :
              [r EXCEPT !.disposition = x, !.version = v] \in Row
  BY DEF Row

\* transition_incident_status writes status and version of the locked row.
LEMMA CommitStatusInv ==
  ASSUME SessionInv, NEW t \in Txn, CommitStatus(t)
  PROVE  SessionInv'
  <1> DEFINE k == target[t]
             c == copy[t]
             new == [row[k] EXCEPT !.status = req[t].value,
                                   !.version = c.version + 1]
             e == Entry("STATUS", c.version, c.version + 1, c.status,
                        req[t].value)
  <1>1. /\ pc[t] = "locked" /\ req[t].op = "status" /\ EndSession(t)
        /\ row' = [row EXCEPT ![k].status = req[t].value,
                             ![k].version = c.version + 1]
        /\ AppendEntry(k, e)
        /\ UNCHANGED <<members, report, revisions>>
    BY DEF CommitStatus
  <1>2. /\ k \in Key /\ lock[k] = t /\ row[k] \in Row /\ c \in Row
        /\ req[t].value \in Status
    BY <1>1, LockedFacts, MutationType
  <1>3. new \in Row
    <2>1. c.version + 1 \in Nat
      BY <1>2 DEF Row
    <2> QED
      BY <1>2, <2>1, RowUpdate, Zenon
  <1>4. e \in LogEntry
    BY <1>2, EntryType DEF Row
  <1>5. log' \in [Key -> Seq(LogEntry)]
    BY <1>1, <1>2, <1>4, AppendEntryType DEF SessionInv
  <1>6. row' = [row EXCEPT ![k] = new]
    <2> HIDE DEF c
    <2> QED
      BY <1>1, <1>2 DEF SessionInv, TypeOK
  <1> QED
    BY <1>1, <1>2, <1>3, <1>5, <1>6, CommitInv DEF SessionInv, TypeOK

\* add_analyst_note writes the version of the locked row.
LEMMA CommitNoteInv ==
  ASSUME SessionInv, NEW t \in Txn, CommitNote(t)
  PROVE  SessionInv'
  <1> DEFINE k == target[t]
             c == copy[t]
             new == [row[k] EXCEPT !.version = c.version + 1]
             e == Entry("NOTE", c.version, c.version + 1, NoText,
                        req[t].value)
  <1>1. /\ pc[t] = "locked" /\ req[t].op = "note" /\ EndSession(t)
        /\ row' = [row EXCEPT ![k].version = c.version + 1]
        /\ AppendEntry(k, e)
        /\ UNCHANGED <<members, report, revisions>>
    BY DEF CommitNote
  <1>2. /\ k \in Key /\ lock[k] = t /\ row[k] \in Row /\ c \in Row
        /\ req[t].value \in Text
    BY <1>1, LockedFacts, MutationType
  <1>3. new \in Row
    <2>1. c.version + 1 \in Nat
      BY <1>2 DEF Row
    <2> QED
      BY <1>2, <2>1, RowUpdate, Zenon
  <1>4. e \in LogEntry
    <2>1. c.version \in Nat /\ c.version + 1 \in Nat
      BY <1>2 DEF Row
    <2> HIDE DEF c
    <2> QED
      BY <1>2, <2>1, EntryType
  <1>5. log' \in [Key -> Seq(LogEntry)]
    BY <1>1, <1>2, <1>4, AppendEntryType DEF SessionInv
  <1>6. row' = [row EXCEPT ![k] = new]
    <2> HIDE DEF c
    <2> QED
      BY <1>1, <1>2 DEF SessionInv, TypeOK
  <1> QED
    BY <1>1, <1>2, <1>3, <1>5, <1>6, CommitInv DEF SessionInv, TypeOK

\* assign_incident writes assignee and version of the locked row.
LEMMA CommitAssignmentInv ==
  ASSUME SessionInv, NEW t \in Txn, CommitAssignment(t)
  PROVE  SessionInv'
  <1> DEFINE k == target[t]
             c == copy[t]
             new == [row[k] EXCEPT !.assignee = req[t].value,
                                   !.version = c.version + 1]
             e == Entry("ASSIGN", c.version, c.version + 1, c.assignee,
                        req[t].value)
  <1>1. /\ pc[t] = "locked" /\ req[t].op = "assign" /\ EndSession(t)
        /\ row' = [row EXCEPT ![k].assignee = req[t].value,
                             ![k].version = c.version + 1]
        /\ AppendEntry(k, e)
        /\ UNCHANGED <<members, report, revisions>>
    BY DEF CommitAssignment
  <1>2. /\ k \in Key /\ lock[k] = t /\ row[k] \in Row /\ c \in Row
        /\ req[t].value \in User \union {NoUser}
    BY <1>1, LockedFacts, MutationType
  <1>3. new \in Row
    <2>1. c.version + 1 \in Nat
      BY <1>2 DEF Row
    <2> QED
      BY <1>2, <2>1, RowUpdate, Zenon
  <1>4. e \in LogEntry
    <2>1. c.version \in Nat /\ c.version + 1 \in Nat
          /\ c.assignee \in User \union {NoUser}
      BY <1>2 DEF Row
    <2> HIDE DEF c
    <2> QED
      BY <1>2, <2>1, EntryType
  <1>5. log' \in [Key -> Seq(LogEntry)]
    BY <1>1, <1>2, <1>4, AppendEntryType DEF SessionInv
  <1>6. row' = [row EXCEPT ![k] = new]
    <2> HIDE DEF c
    <2> QED
      BY <1>1, <1>2 DEF SessionInv, TypeOK
  <1> QED
    BY <1>1, <1>2, <1>3, <1>5, <1>6, CommitInv DEF SessionInv, TypeOK

\* set_incident_disposition writes disposition and version of the locked row.
LEMMA CommitDispositionInv ==
  ASSUME SessionInv, NEW t \in Txn, CommitDisposition(t)
  PROVE  SessionInv'
  <1> DEFINE k == target[t]
             c == copy[t]
             new == [row[k] EXCEPT !.disposition = req[t].value,
                                   !.version = c.version + 1]
             e == Entry("DISPOSITION", c.version, c.version + 1, c.disposition,
                        req[t].value)
  <1>1. /\ pc[t] = "locked" /\ req[t].op = "disposition" /\ EndSession(t)
        /\ row' = [row EXCEPT ![k].disposition = req[t].value,
                             ![k].version = c.version + 1]
        /\ AppendEntry(k, e)
        /\ UNCHANGED <<members, report, revisions>>
    BY DEF CommitDisposition
  <1>2. /\ k \in Key /\ lock[k] = t /\ row[k] \in Row /\ c \in Row
        /\ req[t].value \in Disposition
    BY <1>1, LockedFacts, MutationType
  <1>3. new \in Row
    <2>1. c.version + 1 \in Nat
      BY <1>2 DEF Row
    <2> QED
      BY <1>2, <2>1, RowUpdate, Zenon
  <1>4. e \in LogEntry
    BY <1>2, EntryType DEF Row
  <1>5. log' \in [Key -> Seq(LogEntry)]
    BY <1>1, <1>2, <1>4, AppendEntryType DEF SessionInv
  <1>6. row' = [row EXCEPT ![k] = new]
    <2> HIDE DEF c
    <2> QED
      BY <1>1, <1>2 DEF SessionInv, TypeOK
  <1> QED
    BY <1>1, <1>2, <1>3, <1>5, <1>6, CommitInv DEF SessionInv, TypeOK

\* save_incident_report writes the report and a revision, not the row.
LEMMA CommitReportInv ==
  ASSUME SessionInv, NEW t \in Txn, CommitReport(t)
  PROVE  SessionInv'
  <1> DEFINE k == target[t]
             v == [version |-> report[k].version + 1, text |-> req[t].value]
             e == Entry("REPORT", copy[t].version, copy[t].version, NoText,
                        req[t].value)
  <1>1. /\ pc[t] = "locked" /\ req[t].op = "report" /\ EndSession(t)
        /\ report' = [report EXCEPT ![k] = v]
        /\ revisions' = [revisions EXCEPT ![k] = @ \union {v}]
        /\ AppendEntry(k, e)
        /\ UNCHANGED <<row, members>>
    BY DEF CommitReport
  <1>2. /\ k \in Key /\ copy[t] \in Row /\ req[t].value \in Text
    BY <1>1, LockedFacts, MutationType
  <1>3. v \in Revision /\ v \in [version : Nat, text : Text \union {NoText}]
    BY <1>2 DEF SessionInv, TypeOK, Revision
  <1>4. e \in LogEntry
    BY <1>2, EntryType DEF Row
  <1>5. log' \in [Key -> Seq(LogEntry)]
    BY <1>1, <1>2, <1>4, AppendEntryType DEF SessionInv
  <1>6. /\ report' \in [Key -> [version : Nat, text : Text \union {NoText}]]
        /\ revisions' \in [Key -> SUBSET Revision]
    <2> HIDE DEF v
    <2> QED
      BY <1>1, <1>2, <1>3 DEF SessionInv, TypeOK
  <1>7. TypeOK'
    BY <1>1, <1>5, <1>6, EndSessionType DEF SessionInv, TypeOK
  <1>8. \A s \in Txn : SessionOK(s)'
    BY <1>1, EndSessionOK DEF SessionInv
  <1> QED
    BY <1>7, <1>8 DEF SessionInv

\* _record_creation makes the row whose key the session has inserted.
LEMMA CommitCreationInv ==
  ASSUME SessionInv, NEW t \in Txn, CommitCreation(t)
  PROVE  SessionInv'
  <1> DEFINE k == target[t]
             c == req[t].value
             e == Entry("CREATED", 0, 1, "NONE", c.severity)
  <1>1. /\ pc[t] = "created" /\ EndSession(t)
        /\ row' = [row EXCEPT ![k] = NewRow(c)]
        /\ members' = [members EXCEPT ![k] = c.roles]
        /\ AppendEntry(k, e)
        /\ UNCHANGED <<report, revisions>>
    BY DEF CommitCreation, AppendEntry
  <1>2. /\ k \in Key /\ lock[k] = t /\ req[t] \in Request
        /\ req[t].op = "qualify"
    BY <1>1 DEF SessionInv, SessionOK
  <1>3. c \in Candidate /\ c.roles \in Memberships
        /\ IsFiniteSet(DOMAIN c.roles)
    BY <1>2, CandidateType
  <1>4. NewRow(c) \in Row
    <2>1. Cardinality(DOMAIN c.roles) \in Nat
      BY <1>3, FS_CardinalityType
    <2> HIDE DEF c
    <2> QED
      BY <1>3, <2>1 DEF NewRow, Row, Candidate, Status, Disposition
  <1>5. e \in LogEntry
    <2>1. c.severity \in Severity
      BY <1>3 DEF Candidate
    <2> QED
      BY <2>1, EntryType
  <1>6. log' \in [Key -> Seq(LogEntry)]
    BY <1>1, <1>2, <1>5, AppendEntryType DEF SessionInv
  <1>7. members' \in [Key -> Memberships]
    BY <1>1, <1>2, <1>3 DEF SessionInv, TypeOK
  <1> QED
    BY <1>1, <1>2, <1>4, <1>6, <1>7, CommitInv

\* The columns an enrichment writes keep a row a row.
LEMMA EnrichedColumns ==
  ASSUME NEW r \in Row, NEW v \in Nat, NEW n \in Nat,
         NEW b \in Run \union {NoRun}, NEW s \in Severity
  PROVE  [r EXCEPT !.version = v, !.evidence_count = n, !.bound = b,
                   !.severity = s] \in Row
  BY DEF Row

\* What an enrichment makes of the locked row.
LEMMA EnrichedRowType ==
  ASSUME NEW r \in Row, NEW k \in Key, NEW c \in Candidate,
         IsFiniteSet(DOMAIN c.roles)
  PROVE  /\ EnrichedRow(r, k, r, c) \in Row
         /\ EnrichedRow(r, k, r, c).version = r.version + 1
         /\ EnrichedRow(r, k, r, c).primary = r.primary
         /\ EnrichedRow(r, k, r, c).rule = r.rule
         /\ EnrichedRow(r, k, r, c).bound =
              IF BindingChanged(r, c) THEN c.bound ELSE r.bound
         /\ EnrichedRow(r, k, r, c).evidence_count =
              r.evidence_count + Cardinality(Inserted(k, c))
         /\ EnrichedRow(r, k, r, c).severity =
              IF SeverityIncreases(r.severity, c.severity) THEN c.severity
              ELSE r.severity
         /\ EnrichedRow(r, k, r, c).status = r.status
         /\ EnrichedRow(r, k, r, c).assignee = r.assignee
         /\ EnrichedRow(r, k, r, c).disposition = r.disposition
  <1>1. Cardinality(Inserted(k, c)) \in Nat
    <2>1. IsFiniteSet(Inserted(k, c))
      BY FS_Difference DEF Inserted
    <2> QED
      BY <2>1, FS_CardinalityType
  <1> DEFINE n == Cardinality(Inserted(k, c))
             b == IF BindingChanged(r, c) THEN c.bound ELSE r.bound
             s == IF SeverityIncreases(r.severity, c.severity)
                  THEN c.severity ELSE r.severity
  <1>2. b \in Run \union {NoRun} /\ s \in Severity
    BY DEF Candidate, Row
  <1>3. EnrichedRow(r, k, r, c) =
          [r EXCEPT !.version = r.version + 1,
                    !.evidence_count = r.evidence_count + n,
                    !.bound = b, !.severity = s]
    BY DEF EnrichedRow, Row
  <1> HIDE DEF n, b, s
  <1>4. [r EXCEPT !.version = r.version + 1,
                  !.evidence_count = r.evidence_count + n,
                  !.bound = b, !.severity = s] \in Row
    <2>1. r.version + 1 \in Nat /\ r.evidence_count + n \in Nat
      BY <1>1 DEF n, Row
    <2> QED
      BY <1>2, <2>1, EnrichedColumns, Zenon
  <1> QED
    BY <1>3, <1>4 DEF Row, n, b, s

\* An enrichment writes at most two log entries.
LEMMA EnrichmentEntriesType ==
  ASSUME NEW r \in Row, NEW k \in Key, NEW c \in Candidate
  PROVE  EnrichmentEntries(k, r, c) \in Seq(LogEntry)
  <1> DEFINE v == r.version
             a == [Entry("ENRICHED", v, v + 1, "NONE", "NONE")
                     EXCEPT !.evidence = Inserted(k, c)]
             b == Entry("SEVERITY", v, v + 1, r.severity, c.severity)
  <1>1. /\ v \in Nat /\ v + 1 \in Nat
        /\ r.severity \in Severity /\ c.severity \in Severity
        /\ DOMAIN c.roles \subseteq Evidence
    BY MembershipsType DEF Row, Candidate
  <1>2. a \in LogEntry
    <2>1. Inserted(k, c) \in SUBSET Evidence
      BY <1>1 DEF Inserted
    <2> HIDE DEF v
    <2> QED
      BY <1>1, <2>1 DEF Entry, LogEntry
  <1>3. b \in LogEntry
    <2> HIDE DEF v
    <2> QED
      BY <1>1, EntryType
  <1>4. EnrichmentEntries(k, r, c) =
          (IF Inserted(k, c) = {} THEN <<>> ELSE <<a>>)
            \o (IF SeverityIncreases(r.severity, c.severity) THEN <<b>>
                ELSE <<>>)
    BY DEF EnrichmentEntries
  <1> HIDE DEF a, b
  <1>5. <<a>> \in Seq(LogEntry) /\ <<b>> \in Seq(LogEntry)
        /\ <<>> \in Seq(LogEntry)
    BY <1>2, <1>3
  <1>6. \A x, y \in Seq(LogEntry) : x \o y \in Seq(LogEntry)
    BY ConcatProperties
  <1> QED
    BY <1>4, <1>5, <1>6

\* _enrich_incident writes the locked row, its memberships and its log.
LEMMA CommitEnrichmentInv ==
  ASSUME SessionInv, NEW t \in Txn, CommitEnrichment(t)
  PROVE  SessionInv'
  <1> DEFINE k == target[t]
             c == req[t].value
             r == row[k]
  <1>1. /\ pc[t] = "enrich" /\ k \in Key /\ req[t] \in Request
        /\ lock[k] = t /\ r \in Row /\ copy[t] = r
    BY LockedFacts DEF CommitEnrichment
  <1>2. /\ EndSession(t)
        /\ row' = [row EXCEPT ![k] = EnrichedRow(r, k, r, c)]
        /\ members' = [members EXCEPT ![k] =
             OnConflictDoNothing(members[k], EffectiveRoles(r, c))]
        /\ log' = [log EXCEPT ![k] = log[k] \o EnrichmentEntries(k, r, c)]
        /\ UNCHANGED <<report, revisions>>
    BY <1>1 DEF CommitEnrichment
  <1>3. c \in Candidate /\ c.roles \in Memberships
        /\ IsFiniteSet(DOMAIN c.roles)
    BY <1>1, LockedFacts, CandidateType
  <1>4. EnrichedRow(r, k, r, c) \in Row
    BY <1>1, <1>3, EnrichedRowType
  <1>5. log' \in [Key -> Seq(LogEntry)]
    <2>1. log[k] \o EnrichmentEntries(k, r, c) \in Seq(LogEntry)
      BY <1>1, <1>3, EnrichmentEntriesType, ConcatProperties
      DEF SessionInv, TypeOK
    <2> QED
      BY <1>1, <1>2, <2>1 DEF SessionInv, TypeOK
  <1>6. members' \in [Key -> Memberships]
    <2>1. OnConflictDoNothing(members[k], EffectiveRoles(r, c)) \in Memberships
      BY <1>1, <1>3, OnConflictType, EffectiveRolesType
      DEF SessionInv, TypeOK
    <2> QED
      BY <1>1, <1>2, <2>1 DEF SessionInv, TypeOK
  <1> QED
    BY <1>1, <1>2, <1>4, <1>5, <1>6, CommitInv

\* NotFound, Rollback, Reject, DuplicateKey and EnrichmentWithoutEffect write no table.
LEMMA NoEffectInv ==
  ASSUME SessionInv, NEW t \in Txn,
         \/ NotFound(t) \/ Rollback(t) \/ Reject(t) \/ DuplicateKey(t)
         \/ EnrichmentWithoutEffect(t)
  PROVE  SessionInv'
  <1>1. EndSession(t) /\ UNCHANGED tables
    BY DEF NotFound, Rollback, Reject, DuplicateKey, EnrichmentWithoutEffect
  <1>2. TypeOK'
    BY <1>1, EndSessionType DEF SessionInv, TypeOK, tables
  <1>3. \A s \in Txn : SessionOK(s)'
    BY <1>1, EndSessionOK DEF SessionInv, tables
  <1> QED
    BY <1>2, <1>3 DEF SessionInv

\* The session invariant is inductive.
LEMMA NextSessionInv == SessionInv /\ [Next]_vars => SessionInv'
  <1> SUFFICES ASSUME SessionInv, [Next]_vars PROVE SessionInv'
    OBVIOUS
  <1>1. CASE UNCHANGED vars
    BY <1>1 DEF vars, SessionInv, TypeOK, SessionOK, ReadsBeforeLock
  <1>2. ASSUME NEW t \in Txn, Begin(t) \/ Step(t) \/ Rollback(t)
        PROVE  SessionInv'
    BY <1>2, SessionStepInv, CommitStatusInv, CommitNoteInv,
       CommitAssignmentInv, CommitDispositionInv, CommitReportInv,
       CommitCreationInv, CommitEnrichmentInv, NoEffectInv
    DEF Step
  <1> QED
    BY <1>1, <1>2 DEF Next, Quiesce

\* The inductive invariant holds in every reachable state.
THEOREM Sessions == Spec => []SessionInv
  BY InitSessionInv, NextSessionInv, PTL DEF Spec

\* Every reachable state is well typed: rows, memberships, log entries and
\* report revisions of every incident, and the bookkeeping of every session.
THEOREM TypeCorrect == Spec => []TypeOK
  <1>1. SessionInv => TypeOK
    BY DEF SessionInv
  <1> QED
    BY <1>1, Sessions, PTL
-----------------------------------------------------------------------------
(***************************************************************************)
(* The evidence of an incident: its count, its primary record, the run it  *)
(* belongs to and the severity it calls for.                               *)
(***************************************************************************)

(***************************************************************************)
(* The three invariants are inductive together with SessionInv and two     *)
(* facts: memberships are finite, and there are none before the row.       *)
(***************************************************************************)
EvidenceInv ==
  /\ \A k \in Key : IsFiniteSet(DOMAIN members[k])
  /\ \A k \in Key : row[k] = NoRow => DOMAIN members[k] = {}
  /\ EvidenceCountExact
  /\ OnePrimary
  /\ RunsNeverMix

\* A step that leaves the evidence of every incident alone.
KeepsEvidence ==
  /\ members' = members
  /\ \A k \in Key :
       /\ row'[k] = NoRow <=> row[k] = NoRow
       /\ row[k] # NoRow =>
            /\ row'[k].evidence_count = row[k].evidence_count
            /\ row'[k].primary = row[k].primary
            /\ row'[k].bound = row[k].bound
            /\ row'[k].severity = row[k].severity

\* An incident that holds the record which decides the severity of a candidate
\* is as severe as it.
SeverityInv ==
  \A q \in Request : \A k \in Key : \A e \in DOMAIN members[k] :
    q.op = "qualify" /\ Exists(k) /\ Decides(e, q.value) =>
      ~SeverityIncreases(row[k].severity, q.value.severity)

-----------------------------------------------------------------------------
\* No incident exists at first, and the table of memberships is empty.
LEMMA InitEvidenceInv == Init => EvidenceInv
  <1> SUFFICES ASSUME Init PROVE EvidenceInv
    OBVIOUS
  <1>1. \A k \in Key : row[k] = NoRow /\ DOMAIN members[k] = {}
    BY DEF Init, Empty
  <1> QED
    BY <1>1, FS_EmptySet
    DEF EvidenceInv, EvidenceCountExact, OnePrimary, RunsNeverMix, Exists

\* A step that leaves memberships and the columns about evidence alone keeps
\* the invariant.
LEMMA KeepsEvidenceInv ==
  ASSUME EvidenceInv, KeepsEvidence
  PROVE  EvidenceInv'
  BY DEF EvidenceInv, KeepsEvidence, EvidenceCountExact, OnePrimary,
         RunsNeverMix, Exists

\* A row that differs from r in other columns only.
SameEvidence(n, r) ==
  /\ n \in Row
  /\ n.evidence_count = r.evidence_count
  /\ n.primary = r.primary
  /\ n.bound = r.bound
  /\ n.severity = r.severity

\* Rewriting status, version, assignee or disposition changes nothing else.
LEMMA ColumnsWritten ==
  ASSUME NEW r \in Row, NEW v \in Nat
  PROVE  /\ SameEvidence([r EXCEPT !.version = v], r)
         /\ \A x \in Status :
              SameEvidence([r EXCEPT !.status = x, !.version = v], r)
         /\ \A x \in User \union {NoUser} :
              SameEvidence([r EXCEPT !.assignee = x, !.version = v], r)
         /\ \A x \in Disposition :
              SameEvidence([r EXCEPT !.disposition = x, !.version = v], r)
  BY DEF Row, SameEvidence

\* The commits of the analyst mutations keep the evidence.
LEMMA MutationsKeepEvidence ==
  ASSUME SessionInv, NEW t \in Txn,
         \/ CommitStatus(t) \/ CommitNote(t) \/ CommitAssignment(t)
         \/ CommitDisposition(t) \/ CommitReport(t)
  PROVE  KeepsEvidence
  <1> DEFINE k == target[t]
             v == copy[t].version + 1
             x == req[t].value
  <1>1. /\ k \in Key /\ row[k] \in Row /\ row[k] # NoRow /\ copy[t] \in Row
        /\ req[t] \in Request /\ req[t].op \in Mutation
    BY LockedFacts DEF CommitStatus, CommitNote, CommitAssignment,
                       CommitDisposition, CommitReport
  <1>2. v \in Nat /\ row \in [Key -> Row \union {NoRow}]
    BY <1>1 DEF Row, SessionInv, TypeOK
  <1>3. members' = members
    BY DEF CommitStatus, CommitNote, CommitAssignment, CommitDisposition,
           CommitReport
  <1>4. \A j \in Key : j # k => row'[j] = row[j]
    BY <1>2 DEF CommitStatus, CommitNote, CommitAssignment, CommitDisposition,
           CommitReport
  <1>5. SameEvidence(row'[k], row[k])
    <2>1. CASE CommitStatus(t)
      <3>1. x \in Status
        BY <1>1, <2>1, MutationType DEF CommitStatus
      <3>2. row'[k] = [row[k] EXCEPT !.status = x, !.version = v]
        <4>1. row' = [row EXCEPT ![k].status = x, ![k].version = v]
          BY <2>1 DEF CommitStatus
        <4> HIDE DEF x, v, k
        <4> QED
          BY <1>1, <1>2, <4>1
      <3>3. SameEvidence([row[k] EXCEPT !.status = x, !.version = v], row[k])
        <4> HIDE DEF x, v, k
        <4> QED
          BY <1>1, <1>2, <3>1, ColumnsWritten, Zenon
      <3> QED
        BY <3>2, <3>3, Zenon
    <2>2. CASE CommitNote(t)
      <3>1. row'[k] = [row[k] EXCEPT !.version = v]
        BY <1>1, <1>2, <2>2 DEF CommitNote
      <3> QED
        BY <1>1, <1>2, <3>1, ColumnsWritten, Zenon
    <2>3. CASE CommitAssignment(t)
      <3>1. x \in User \union {NoUser}
        BY <1>1, <2>3, MutationType DEF CommitAssignment
      <3>2. row'[k] = [row[k] EXCEPT !.assignee = x, !.version = v]
        <4>1. row' = [row EXCEPT ![k].assignee = x, ![k].version = v]
          BY <2>3 DEF CommitAssignment
        <4> HIDE DEF x, v, k
        <4> QED
          BY <1>1, <1>2, <4>1
      <3>3. SameEvidence([row[k] EXCEPT !.assignee = x, !.version = v], row[k])
        <4> HIDE DEF x, v, k
        <4> QED
          BY <1>1, <1>2, <3>1, ColumnsWritten, Zenon
      <3> QED
        BY <3>2, <3>3, Zenon
    <2>4. CASE CommitDisposition(t)
      <3>1. x \in Disposition
        BY <1>1, <2>4, MutationType DEF CommitDisposition
      <3>2. row'[k] = [row[k] EXCEPT !.disposition = x, !.version = v]
        <4>1. row' = [row EXCEPT ![k].disposition = x, ![k].version = v]
          BY <2>4 DEF CommitDisposition
        <4> HIDE DEF x, v, k
        <4> QED
          BY <1>1, <1>2, <4>1
      <3>3. SameEvidence([row[k] EXCEPT !.disposition = x, !.version = v], row[k])
        <4> HIDE DEF x, v, k
        <4> QED
          BY <1>1, <1>2, <3>1, ColumnsWritten, Zenon
      <3> QED
        BY <3>2, <3>3, Zenon
    <2>5. CASE CommitReport(t)
      BY <1>1, <2>5 DEF CommitReport, SameEvidence
    <2> QED
      BY <2>1, <2>2, <2>3, <2>4, <2>5
  <1> QED
    BY <1>1, <1>3, <1>4, <1>5, SentinelAssumption DEF KeepsEvidence, SameEvidence

-----------------------------------------------------------------------------
\* A new incident counts the memberships of the candidate it was made from,
\* has its primary and its run.
LEMMA CreationEvidenceInv ==
  ASSUME SessionInv, EvidenceInv, NEW t \in Txn, CommitCreation(t)
  PROVE  EvidenceInv'
  <1> DEFINE k == target[t]
             c == req[t].value
  <1>1. /\ k \in Key /\ c \in Candidate /\ IsFiniteSet(DOMAIN c.roles)
        /\ {e \in DOMAIN c.roles : c.roles[e] = "PRIMARY"} = {c.primary}
        /\ \A e \in DOMAIN c.roles : RunOf[e] \in {NoRun, c.bound}
    BY CandidateType DEF CommitCreation, SessionInv, SessionOK
  <1>2. /\ row' = [row EXCEPT ![k] = NewRow(c)]
        /\ members' = [members EXCEPT ![k] = c.roles]
    BY DEF CommitCreation
  <1>3. \A j \in Key : j # k => row'[j] = row[j] /\ members'[j] = members[j]
    BY <1>2 DEF SessionInv, TypeOK
  <1>4. row'[k] = NewRow(c) /\ members'[k] = c.roles
    BY <1>1, <1>2 DEF SessionInv, TypeOK
  <1>5. /\ NewRow(c) # NoRow
        /\ NewRow(c).evidence_count = Cardinality(DOMAIN c.roles)
        /\ NewRow(c).primary = c.primary
        /\ NewRow(c).bound = c.bound
    <2>1. NewRow(c) \in Row
      <3>1. Cardinality(DOMAIN c.roles) \in Nat
        BY <1>1, FS_CardinalityType
      <3> HIDE DEF c
      <3> QED
        BY <1>1, <3>1 DEF NewRow, Row, Candidate, Status, Disposition
    <2> QED
      BY <2>1, SentinelAssumption DEF NewRow
  <1> HIDE DEF c, k
  <1> QED
    BY <1>1, <1>3, <1>4, <1>5
    DEF EvidenceInv, EvidenceCountExact, OnePrimary, RunsNeverMix, Exists

\* The rows inserted on top of others are counted once.
LEMMA CountInserted ==
  ASSUME NEW S, NEW T, IsFiniteSet(S), IsFiniteSet(T)
  PROVE  /\ IsFiniteSet(S \union T)
         /\ Cardinality(S \union T) = Cardinality(S) + Cardinality(T \ S)
  <1>1. /\ IsFiniteSet(S \union T)
        /\ Cardinality(S \union T)
             = Cardinality(S) + Cardinality(T) - Cardinality(S \cap T)
    BY FS_Union
  <1>2. Cardinality(T \ S) = Cardinality(T) - Cardinality(T \cap S)
    BY FS_Difference
  <1>3. S \cap T = T \cap S
    OBVIOUS
  <1>4. /\ Cardinality(S) \in Nat /\ Cardinality(T) \in Nat
        /\ IsFiniteSet(T \cap S)
    BY FS_CardinalityType, FS_Intersection
  <1>5. Cardinality(T \cap S) \in Nat
    BY <1>4, FS_CardinalityType
  <1> QED
    BY <1>1, <1>2, <1>3, <1>4, <1>5

\* Merging a candidate keeps the one PRIMARY membership.
LEMMA MergeKeepsPrimary ==
  ASSUME NEW f \in Memberships, NEW r, NEW c, c.roles \in Memberships,
         {e \in DOMAIN f : f[e] = "PRIMARY"} = {r.primary}
  PROVE  LET g == OnConflictDoNothing(f, EffectiveRoles(r, c))
         IN  {e \in DOMAIN g : g[e] = "PRIMARY"} = {r.primary}
  <1> DEFINE h == EffectiveRoles(r, c)
             g == OnConflictDoNothing(f, h)
  <1>1. /\ DOMAIN h = DOMAIN c.roles
        /\ \A e \in DOMAIN h : h[e] = "PRIMARY" => e = r.primary
    BY DEF EffectiveRoles
  <1>2. /\ DOMAIN g = DOMAIN f \union DOMAIN h
        /\ \A e \in DOMAIN f : g[e] = f[e]
        /\ \A e \in DOMAIN h \ DOMAIN f : g[e] = h[e]
    BY DEF OnConflictDoNothing
  <1> HIDE DEF g, h
  <1>3. r.primary \in DOMAIN f
    OBVIOUS
  <1>4. {e \in DOMAIN g : g[e] = "PRIMARY"} = {r.primary}
    BY <1>1, <1>2, <1>3
  <1> QED
    BY <1>4 DEF g, h

\* Merging a candidate into the locked incident keeps count, primary and run.
LEMMA EnrichmentEvidenceInv ==
  ASSUME SessionInv, EvidenceInv, NEW t \in Txn, CommitEnrichment(t)
  PROVE  EvidenceInv'
  <1> DEFINE k == target[t]
             c == req[t].value
             r == row[k]
             m == members[k]
             n == EnrichedRow(r, k, r, c)
             g == OnConflictDoNothing(m, EffectiveRoles(r, c))
  <1>1. /\ pc[t] = "enrich" /\ k \in Key /\ req[t] \in Request
        /\ req[t].op = "qualify" /\ r \in Row /\ r # NoRow /\ copy[t] = r
        /\ m \in Memberships
    BY LockedFacts DEF CommitEnrichment, SessionInv, TypeOK
  <1>2. /\ row' = [row EXCEPT ![k] = n]
        /\ members' = [members EXCEPT ![k] = g]
        /\ ~MixesRuns(r, c)
    BY <1>1 DEF CommitEnrichment
  <1>3. /\ c \in Candidate /\ c.roles \in Memberships
        /\ IsFiniteSet(DOMAIN c.roles)
        /\ \A e \in DOMAIN c.roles : RunOf[e] \in {NoRun, c.bound}
    BY <1>1, CandidateType
  <1>4. /\ n # NoRow /\ n.primary = r.primary
        /\ n.bound = IF BindingChanged(r, c) THEN c.bound ELSE r.bound
        /\ n.evidence_count = r.evidence_count + Cardinality(Inserted(k, c))
    BY <1>1, <1>3, EnrichedRowType, SentinelAssumption
  <1>5. DOMAIN g = DOMAIN m \union DOMAIN c.roles
    BY DEF OnConflictDoNothing, EffectiveRoles
  <1>6. /\ IsFiniteSet(DOMAIN m)
        /\ r.evidence_count = Cardinality(DOMAIN m)
        /\ {e \in DOMAIN m : m[e] = "PRIMARY"} = {r.primary}
        /\ \A e \in DOMAIN m : RunOf[e] \in {NoRun, r.bound}
    BY <1>1 DEF EvidenceInv, EvidenceCountExact, OnePrimary, RunsNeverMix,
                Exists
  <1>7. IsFiniteSet(DOMAIN g) /\ n.evidence_count = Cardinality(DOMAIN g)
    BY <1>3, <1>4, <1>5, <1>6, CountInserted DEF Inserted
  <1>8. {e \in DOMAIN g : g[e] = "PRIMARY"} = {n.primary}
    BY <1>1, <1>3, <1>4, <1>6, MergeKeepsPrimary
  <1>9. \A e \in DOMAIN g : RunOf[e] \in {NoRun, n.bound}
    BY <1>2, <1>3, <1>4, <1>5, <1>6 DEF MixesRuns, BindingChanged
  <1>10. \A j \in Key : j # k => row'[j] = row[j] /\ members'[j] = members[j]
    BY <1>2 DEF SessionInv, TypeOK
  <1>11. row'[k] = n /\ members'[k] = g
    BY <1>1, <1>2 DEF SessionInv, TypeOK
  <1> HIDE DEF k, c, r, m, n, g
  <1> QED
    BY <1>1, <1>4, <1>7, <1>8, <1>9, <1>10, <1>11
    DEF EvidenceInv, EvidenceCountExact, OnePrimary, RunsNeverMix, Exists

\* The evidence invariant is inductive relative to the session invariant.
LEMMA NextEvidenceInv ==
  SessionInv /\ EvidenceInv /\ [Next]_vars => EvidenceInv'
  <1> SUFFICES ASSUME SessionInv, EvidenceInv, [Next]_vars PROVE EvidenceInv'
    OBVIOUS
  <1>1. ASSUME row' = row, members' = members PROVE EvidenceInv'
    BY <1>1, KeepsEvidenceInv DEF KeepsEvidence
  <1>2. ASSUME NEW t \in Txn, Begin(t) \/ Step(t) \/ Rollback(t)
        PROVE  EvidenceInv'
    <2>1. CASE \/ Begin(t) \/ PreRead(t) \/ LockIncident(t) \/ NotFound(t)
               \/ Reject(t) \/ DuplicateKey(t) \/ InsertIncident(t) \/ LoadIncident(t)
               \/ EnrichmentWithoutEffect(t) \/ Rollback(t)
      <3>1. row' = row /\ members' = members
        BY <2>1 DEF Begin, PreRead, LockIncident, NotFound, Reject,
                    DuplicateKey, InsertIncident, LoadIncident, EnrichmentWithoutEffect,
                    Rollback, tables
      <3> QED
        BY <3>1, <1>1
    <2>2. CASE \/ CommitStatus(t) \/ CommitNote(t) \/ CommitAssignment(t)
               \/ CommitDisposition(t) \/ CommitReport(t)
      BY <2>2, MutationsKeepEvidence, KeepsEvidenceInv
    <2>3. CASE CommitCreation(t)
      BY <2>3, CreationEvidenceInv
    <2>4. CASE CommitEnrichment(t)
      BY <2>4, EnrichmentEvidenceInv
    <2> QED
      BY <1>2, <2>1, <2>2, <2>3, <2>4 DEF Step
  <1>3. CASE UNCHANGED vars
    BY <1>3, <1>1 DEF vars
  <1> QED
    BY <1>2, <1>3 DEF Next, Quiesce

\* Count, primary and run binding of every incident agree with its membership
\* rows in every reachable state.
THEOREM Evidences == Spec => []EvidenceInv
  BY InitEvidenceInv, NextEvidenceInv, Sessions, PTL DEF Spec

\* However many sessions qualify, enrich, mutate and roll back, the
\* evidence_count column is the number of membership rows.
THEOREM CountTheorem == Spec => []EvidenceCountExact
  <1>1. EvidenceInv => EvidenceCountExact
    BY DEF EvidenceInv
  <1> QED
    BY <1>1, Evidences, PTL

\* An incident keeps exactly one PRIMARY membership, that of the evidence it
\* was created from.
THEOREM PrimaryTheorem == Spec => []OnePrimary
  <1>1. EvidenceInv => OnePrimary
    BY DEF EvidenceInv
  <1> QED
    BY <1>1, Evidences, PTL

\* No incident ever holds evidence of two runs, nor of a run it is not bound
\* to.
THEOREM RunTheorem == Spec => []RunsNeverMix
  <1>1. EvidenceInv => RunsNeverMix
    BY DEF EvidenceInv
  <1> QED
    BY <1>1, Evidences, PTL

-----------------------------------------------------------------------------
\* Severities are ordered.
LEMMA SeverityOrder ==
  ASSUME NEW a \in Severity, NEW b \in Severity
  PROVE  /\ ~SeverityIncreases(a, a)
         /\ \A c \in Severity : ~SeverityIncreases(a, b) /\ ~SeverityIncreases(b, c)
                                => ~SeverityIncreases(a, c)
         /\ SeverityIncreases(a, b) => ~SeverityIncreases(b, a)
  <1>1. \A s \in Severity : Rank[s] \in 1..3
    BY DEF Rank, Severity
  <1> QED
    BY <1>1 DEF SeverityIncreases

\* A new incident has the severity of the candidate it was made from.
LEMMA CreationSeverityInv ==
  ASSUME SessionInv, SeverityInv, NEW t \in Txn, CommitCreation(t)
  PROVE  SeverityInv'
  <1> DEFINE k == target[t]
             c == req[t].value
  <1>1. k \in Key /\ req[t] \in Request /\ req[t].op = "qualify"
    BY DEF CommitCreation, SessionInv, SessionOK
  <1>2. /\ row'[k].severity = c.severity
        /\ DOMAIN members'[k] = DOMAIN c.roles
        /\ \A j \in Key : j # k => row'[j] = row[j] /\ members'[j] = members[j]
    BY <1>1 DEF CommitCreation, NewRow, SessionInv, TypeOK
  <1>3. ASSUME NEW q \in Request, NEW e \in DOMAIN members'[k], q.op = "qualify",
               Decides(e, q.value)
        PROVE  ~SeverityIncreases(row'[k].severity, q.value.severity)
    BY <1>1, <1>2, <1>3 DEF Decides
  <1>4. ASSUME NEW q \in Request, NEW j \in Key, j # k, NEW e \in DOMAIN members'[j],
               q.op = "qualify", row'[j] # NoRow, Decides(e, q.value)
        PROVE  ~SeverityIncreases(row'[j].severity, q.value.severity)
    BY <1>2, <1>4 DEF SeverityInv, Exists
  <1> QED
    BY <1>3, <1>4 DEF SeverityInv, Exists

\* A merge keeps the higher severity of the incident and the candidate.
LEMMA EnrichmentSeverityInv ==
  ASSUME SessionInv, SeverityInv, NEW t \in Txn, CommitEnrichment(t)
  PROVE  SeverityInv'
  <1> DEFINE k == target[t]
             c == req[t].value
             r == row[k]
             n == EnrichedRow(r, k, r, c)
  <1>1. /\ pc[t] = "enrich" /\ k \in Key /\ req[t] \in Request
        /\ req[t].op = "qualify" /\ r \in Row /\ r # NoRow /\ copy[t] = r
    BY LockedFacts DEF CommitEnrichment
  <1>2. c \in Candidate /\ IsFiniteSet(DOMAIN c.roles)
    BY <1>1, CandidateType
  <1>3. /\ row'[k] = n
        /\ DOMAIN members'[k] = DOMAIN members[k] \union DOMAIN c.roles
        /\ \A j \in Key : j # k => row'[j] = row[j] /\ members'[j] = members[j]
    BY <1>1 DEF CommitEnrichment, OnConflictDoNothing, EffectiveRoles, SessionInv,
                TypeOK
  <1>4. n.severity = IF SeverityIncreases(r.severity, c.severity) THEN c.severity
                     ELSE r.severity
    BY <1>1, <1>2, EnrichedRowType
  <1>5. r.severity \in Severity /\ c.severity \in Severity
    BY <1>1, <1>2 DEF Row, Candidate
  <1> HIDE DEF n
  <1>6. /\ n.severity \in Severity /\ ~SeverityIncreases(n.severity, r.severity)
        /\ ~SeverityIncreases(n.severity, c.severity)
    BY <1>4, <1>5, SeverityOrder
  <1>7. ASSUME NEW q \in Request, NEW e \in DOMAIN members'[k], q.op = "qualify",
               Decides(e, q.value)
        PROVE  ~SeverityIncreases(n.severity, q.value.severity)
    <2>1. q.value.severity \in Severity
      BY <1>7, CandidateType DEF Candidate
    <2>2. CASE e \in DOMAIN members[k]
      <3>1. ~SeverityIncreases(r.severity, q.value.severity)
        BY <1>1, <1>7, <2>2 DEF SeverityInv, Exists
      <3> QED
        BY <1>5, <1>6, <2>1, <3>1, SeverityOrder
    <2>3. CASE e \in DOMAIN c.roles
      <3>1. ~SeverityIncreases(c.severity, q.value.severity)
        BY <1>1, <1>7, <2>3 DEF Decides
      <3> QED
        BY <1>5, <1>6, <2>1, <3>1, SeverityOrder
    <2> QED
      BY <1>3, <1>7, <2>2, <2>3
  <1>8. ASSUME NEW q \in Request, NEW j \in Key, j # k, NEW e \in DOMAIN members'[j],
               q.op = "qualify", row'[j] # NoRow, Decides(e, q.value)
        PROVE  ~SeverityIncreases(row'[j].severity, q.value.severity)
    BY <1>3, <1>8 DEF SeverityInv, Exists
  <1> HIDE DEF k
  <1> QED
    BY <1>3, <1>7, <1>8 DEF SeverityInv, Exists

\* The severity invariant is inductive relative to the session invariant.
LEMMA NextSeverityInv ==
  SessionInv /\ SeverityInv /\ [Next]_vars => SeverityInv'
  <1> SUFFICES ASSUME SessionInv, SeverityInv, [Next]_vars PROVE SeverityInv'
    OBVIOUS
  <1>1. ASSUME KeepsEvidence PROVE SeverityInv'
    BY <1>1 DEF SeverityInv, KeepsEvidence, Exists
  <1>2. ASSUME row' = row, members' = members PROVE SeverityInv'
    BY <1>1, <1>2 DEF KeepsEvidence
  <1>3. ASSUME NEW t \in Txn, Begin(t) \/ Step(t) \/ Rollback(t)
        PROVE  SeverityInv'
    <2>1. CASE \/ Begin(t) \/ PreRead(t) \/ LockIncident(t) \/ NotFound(t)
               \/ Reject(t) \/ DuplicateKey(t) \/ InsertIncident(t) \/ LoadIncident(t)
               \/ EnrichmentWithoutEffect(t) \/ Rollback(t)
      <3>1. row' = row /\ members' = members
        BY <2>1 DEF Begin, PreRead, LockIncident, NotFound, Reject,
                    DuplicateKey, InsertIncident, LoadIncident, EnrichmentWithoutEffect,
                    Rollback, tables
      <3> QED
        BY <3>1, <1>2
    <2>2. CASE \/ CommitStatus(t) \/ CommitNote(t) \/ CommitAssignment(t)
               \/ CommitDisposition(t) \/ CommitReport(t)
      BY <2>2, <1>1, MutationsKeepEvidence
    <2>3. CASE CommitCreation(t)
      BY <2>3, CreationSeverityInv
    <2>4. CASE CommitEnrichment(t)
      BY <2>4, EnrichmentSeverityInv
    <2> QED
      BY <1>3, <2>1, <2>2, <2>3, <2>4 DEF Step
  <1>4. CASE UNCHANGED vars
    BY <1>4, <1>2 DEF vars
  <1> QED
    BY <1>3, <1>4 DEF Next, Quiesce

\* However enrichments, creations and analyst changes interleave, no incident
\* is less severe than a candidate whose evidence it holds.
THEOREM SeverityTheorem == Spec => []SeverityCoversEvidence
  <1>1. Init => SeverityInv
    BY DEF Init, SeverityInv, Empty
  <1>2. SeverityInv => SeverityCoversEvidence
    <2> SUFFICES ASSUME SeverityInv, NEW r \in Request, NEW k \in Key,
                        r.op = "qualify", Exists(k),
                        DOMAIN r.value.roles \subseteq DOMAIN members[k]
                 PROVE  ~SeverityIncreases(row[k].severity, r.value.severity)
      BY DEF SeverityCoversEvidence
    <2>1. PICK e \in Evidence : Decides(e, r.value)
      BY SeverityAssumption
    <2>2. e \in DOMAIN members[k]
      BY <2>1 DEF Decides
    <2> QED
      BY <2>1, <2>2 DEF SeverityInv
  <1> QED
    BY <1>1, <1>2, NextSeverityInv, Sessions, PTL DEF Spec

-----------------------------------------------------------------------------
(***************************************************************************)
(* What the incident aggregate records: a change that is not a resolve is  *)
(* computed from the version the row has at its commit; the log explains   *)
(* the row; reports are the newest revision; and the page a reader is      *)
(* given is explained by what it shows.                                    *)
(***************************************************************************)

\* The first entry a commit appended.
LEMMA AppendedEntry ==
  ASSUME TypeOK, NEW k \in Key, NEW e, AppendEntry(k, e)
  PROVE  /\ Appended(k) = e
         /\ \A j \in Key : j # k => ~Appends(j)
  <1>1. /\ log[k] \in Seq(LogEntry)
        /\ log' = [log EXCEPT ![k] = Append(log[k], e)]
    BY DEF TypeOK, AppendEntry
  <1>2. log'[k] = Append(log[k], e) /\ \A j \in Key : j # k => log'[j] = log[j]
    BY <1>1 DEF TypeOK
  <1>3. Append(log[k], e)[Len(log[k]) + 1] = e
    BY <1>1
  <1>4. \A j \in Key : Len(log[j]) \in Nat
    BY DEF TypeOK
  <1> QED
    BY <1>2, <1>3, <1>4 DEF Appended, Appends

\* A change computed from the row under its lock follows the row.
LEMMA FreshCommit ==
  ASSUME SessionInv, NEW t \in Txn, pc[t] = "locked",
         NEW e, AppendEntry(target[t], e),
         e.before = copy[t].version,
         IsResolve(e) \/ ~ReadsBeforeLock(req[t]),
         row'[target[t]].version =
           copy[t].version + (IF e.action = "REPORT" THEN 0 ELSE 1)
  PROVE  \A k \in Key : FollowsTheRow(k)
  <1>1. target[t] \in Key
    BY LockedFacts
  <1>2. Appended(target[t]) = e /\ \A j \in Key : j # target[t] => ~Appends(j)
    BY <1>1, AppendedEntry DEF SessionInv
  <1>3. ~IsResolve(e) => copy[t] = row[target[t]]
    BY DEF SessionInv, SessionOK
  <1> QED
    BY <1>2, <1>3 DEF FollowsTheRow

\* The columns of the new row after a mutation.
LEMMA VersionWritten ==
  ASSUME NEW f, f \in [Key -> Row \union {NoRow}], NEW k \in Key, f[k] \in Row,
         NEW x, NEW v
  PROVE  /\ [f EXCEPT ![k].version = v][k].version = v
         /\ [f EXCEPT ![k].status = x, ![k].version = v][k].version = v
         /\ [f EXCEPT ![k].assignee = x, ![k].version = v][k].version = v
         /\ [f EXCEPT ![k].disposition = x, ![k].version = v][k].version = v
  BY DEF Row

\* The analyst mutations, one by one: each but a resolve was computed from a
\* copy that is the locked row.
LEMMA MutationsFollow ==
  ASSUME SessionInv, NEW t \in Txn,
         \/ CommitStatus(t) \/ CommitNote(t) \/ CommitAssignment(t)
         \/ CommitDisposition(t) \/ CommitReport(t)
  PROVE  \A k \in Key : FollowsTheRow(k)
  <1> DEFINE k == target[t]
             c == copy[t]
             x == req[t].value
  <1>1. /\ pc[t] = "locked" /\ k \in Key /\ row[k] \in Row /\ c \in Row
        /\ row \in [Key -> Row \union {NoRow}]
        /\ ~ReadsBeforeLock(req[t]) => c = row[k]
    BY LockedFacts DEF CommitStatus, CommitNote, CommitAssignment,
                       CommitDisposition, CommitReport, SessionInv, TypeOK,
                       SessionOK
  <1>2. CASE CommitStatus(t)
    <2> DEFINE e == Entry("STATUS", c.version, c.version + 1, c.status, x)
    <2>1. /\ AppendEntry(k, e) /\ req[t].op = "status"
          /\ row' = [row EXCEPT ![k].status = x, ![k].version = c.version + 1]
      BY <1>2 DEF CommitStatus
    <2>2. row'[k].version = c.version + 1
      <3> DEFINE v == c.version + 1
      <3>1. v = c.version + 1
        OBVIOUS
      <3> HIDE DEF k, c, x, v
      <3> QED
        BY <1>1, <2>1, <3>1, VersionWritten
    <2>3. /\ e.before = c.version /\ e.action # "REPORT"
          /\ IsResolve(e) \/ ~ReadsBeforeLock(req[t])
      BY <2>1 DEF Entry, IsResolve, ReadsBeforeLock
    <2> HIDE DEF e
    <2> QED
      BY <1>1, <2>1, <2>2, <2>3, FreshCommit
  <1>3. CASE CommitNote(t)
    <2> DEFINE e == Entry("NOTE", c.version, c.version + 1, NoText, x)
    <2>1. /\ AppendEntry(k, e) /\ req[t].op = "note"
          /\ row' = [row EXCEPT ![k].version = c.version + 1]
      BY <1>3 DEF CommitNote
    <2>2. row'[k].version = c.version + 1
      <3> DEFINE v == c.version + 1
      <3>1. v = c.version + 1
        OBVIOUS
      <3> HIDE DEF k, c, x, v
      <3> QED
        BY <1>1, <2>1, <3>1, VersionWritten
    <2>3. /\ e.before = c.version /\ e.action # "REPORT"
          /\ ~ReadsBeforeLock(req[t])
      BY <2>1 DEF Entry, ReadsBeforeLock
    <2> HIDE DEF e
    <2> QED
      BY <1>1, <2>1, <2>2, <2>3, FreshCommit
  <1>4. CASE CommitAssignment(t)
    <2> DEFINE e == Entry("ASSIGN", c.version, c.version + 1, c.assignee, x)
    <2>1. /\ AppendEntry(k, e) /\ req[t].op = "assign"
          /\ row' = [row EXCEPT ![k].assignee = x, ![k].version = c.version + 1]
      BY <1>4 DEF CommitAssignment
    <2>2. row'[k].version = c.version + 1
      <3> DEFINE v == c.version + 1
      <3>1. v = c.version + 1
        OBVIOUS
      <3> HIDE DEF k, c, x, v
      <3> QED
        BY <1>1, <2>1, <3>1, VersionWritten
    <2>3. /\ e.before = c.version /\ e.action # "REPORT"
          /\ ~ReadsBeforeLock(req[t])
      BY <2>1 DEF Entry, ReadsBeforeLock
    <2> HIDE DEF e
    <2> QED
      BY <1>1, <2>1, <2>2, <2>3, FreshCommit
  <1>5. CASE CommitDisposition(t)
    <2> DEFINE e == Entry("DISPOSITION", c.version, c.version + 1,
                          c.disposition, x)
    <2>1. /\ AppendEntry(k, e) /\ req[t].op = "disposition"
          /\ row' = [row EXCEPT ![k].disposition = x,
                                ![k].version = c.version + 1]
      BY <1>5 DEF CommitDisposition
    <2>2. row'[k].version = c.version + 1
      <3> DEFINE v == c.version + 1
      <3>1. v = c.version + 1
        OBVIOUS
      <3> HIDE DEF k, c, x, v
      <3> QED
        BY <1>1, <2>1, <3>1, VersionWritten
    <2>3. /\ e.before = c.version /\ e.action # "REPORT"
          /\ ~ReadsBeforeLock(req[t])
      BY <2>1 DEF Entry, ReadsBeforeLock
    <2> HIDE DEF e
    <2> QED
      BY <1>1, <2>1, <2>2, <2>3, FreshCommit
  <1>6. CASE CommitReport(t)
    <2> DEFINE e == Entry("REPORT", c.version, c.version, NoText, x)
    <2>1. AppendEntry(k, e) /\ req[t].op = "report" /\ row' = row
      BY <1>6 DEF CommitReport
    <2>2. /\ e.before = c.version /\ e.action = "REPORT"
          /\ ~ReadsBeforeLock(req[t])
      BY <2>1 DEF Entry, ReadsBeforeLock
    <2>3. row'[k].version = c.version + 0
      <3>1. c = row[k] /\ c.version \in Nat
        BY <1>1, <2>2 DEF Row
      <3> QED
        BY <2>1, <3>1
    <2> HIDE DEF e
    <2> QED
      BY <1>1, <2>1, <2>2, <2>3, FreshCommit
  <1> QED
    BY <1>2, <1>3, <1>4, <1>5, <1>6

\* A creation appends to no incident that exists.
LEMMA CreationFollows ==
  ASSUME SessionInv, NEW t \in Txn, CommitCreation(t)
  PROVE  \A k \in Key : FollowsTheRow(k)
  <1>1. target[t] \in Key /\ ~Exists(target[t])
    BY DEF CommitCreation, SessionInv, SessionOK, Exists
  <1>2. \E e : AppendEntry(target[t], e)
    BY DEF CommitCreation, AppendEntry
  <1> QED
    BY <1>1, <1>2, AppendedEntry DEF FollowsTheRow, Appends, SessionInv

\* The entries of an enrichment carry the version of the locked row.
LEMMA EnrichmentFollows ==
  ASSUME SessionInv, NEW t \in Txn, CommitEnrichment(t)
  PROVE  \A k \in Key : FollowsTheRow(k)
  <1> DEFINE k == target[t]
             c == req[t].value
             r == row[k]
             es == EnrichmentEntries(k, r, c)
             n == EnrichedRow(r, k, r, c)
  <1>1. /\ pc[t] = "enrich" /\ k \in Key /\ req[t] \in Request
        /\ req[t].op = "qualify" /\ r \in Row /\ copy[t] = r
    BY LockedFacts DEF CommitEnrichment
  <1>2. c \in Candidate /\ IsFiniteSet(DOMAIN c.roles)
    BY <1>1, CandidateType
  <1>3. /\ row' = [row EXCEPT ![k] = n]
        /\ log' = [log EXCEPT ![k] = log[k] \o es]
    BY <1>1 DEF CommitEnrichment
  <1>4. es \in Seq(LogEntry) /\ n.version = r.version + 1
    BY <1>1, <1>2, EnrichmentEntriesType, EnrichedRowType
  <1>5. Len(es) > 0 =>
          es[1].before = r.version /\ es[1].action \in {"ENRICHED", "SEVERITY"}
    BY DEF EnrichmentEntries, Entry
  <1>6. /\ log[k] \in Seq(LogEntry) /\ log'[k] = log[k] \o es
        /\ row'[k] = n
        /\ \A j \in Key : j # k => log'[j] = log[j]
    BY <1>1, <1>3 DEF SessionInv, TypeOK
  <1> HIDE DEF es, n, r, k
  <1>7. \A j \in Key : j # k => ~Appends(j)
    <2>1. \A j \in Key : Len(log[j]) \in Nat
      BY DEF SessionInv, TypeOK
    <2> QED
      BY <1>6, <2>1 DEF Appends
  <1>8. Appends(k) => Len(es) > 0 /\ Appended(k) = es[1]
    BY <1>4, <1>6, ConcatProperties DEF Appends, Appended
  <1> QED
    BY <1>4, <1>5, <1>6, <1>7, <1>8 DEF FollowsTheRow, r
-----------------------------------------------------------------------------
\* Every step of the specification follows the row.
LEMMA NextFollows ==
  SessionInv /\ [Next]_vars => \A k \in Key : FollowsTheRow(k)
  <1> SUFFICES ASSUME SessionInv, [Next]_vars
               PROVE  \A k \in Key : FollowsTheRow(k)
    OBVIOUS
  <1>1. ASSUME log' = log PROVE \A k \in Key : FollowsTheRow(k)
    <2>1. \A k \in Key : Len(log[k]) \in Nat
      BY DEF SessionInv, TypeOK
    <2> QED
      BY <1>1, <2>1 DEF FollowsTheRow, Appends
  <1>2. ASSUME NEW t \in Txn, Begin(t) \/ Step(t) \/ Rollback(t)
        PROVE  \A k \in Key : FollowsTheRow(k)
    <2>1. CASE \/ Begin(t) \/ PreRead(t) \/ LockIncident(t) \/ NotFound(t)
               \/ Reject(t) \/ DuplicateKey(t) \/ InsertIncident(t)
               \/ LoadIncident(t) \/ EnrichmentWithoutEffect(t) \/ Rollback(t)
      <3>1. log' = log
        BY <2>1 DEF Begin, PreRead, LockIncident, NotFound, Reject,
                    DuplicateKey, InsertIncident, LoadIncident,
                    EnrichmentWithoutEffect, Rollback, tables
      <3> QED
        BY <3>1, <1>1
    <2> QED
      BY <1>2, <2>1, MutationsFollow, CreationFollows, EnrichmentFollows
      DEF Step
  <1>3. CASE UNCHANGED vars
    BY <1>3, <1>1 DEF vars
  <1> QED
    BY <1>2, <1>3 DEF Next, Quiesce

\* No analyst change and no enrichment is computed from a stale version, the
\* resolve of a status change excepted; each advances the version by one.
THEOREM VersionTheorem == Spec => ChangesFollowTheRow
  BY Sessions, NextFollows, PTL DEF Spec, ChangesFollowTheRow

-----------------------------------------------------------------------------
(***************************************************************************)
(* The history of an incident.                                             *)
(***************************************************************************)
\* One entry and the columns that change with it, from r to n.
Writes(e, r, n) ==
  /\ n.version = e.after
  /\ n.status = IF e.action = "STATUS" THEN e.new ELSE r.status
  /\ n.severity = IF e.action = "SEVERITY" THEN e.new ELSE r.severity
  /\ n.assignee = IF e.action = "ASSIGN" THEN e.new ELSE r.assignee
  /\ n.disposition = IF e.action = "DISPOSITION" THEN e.new ELSE r.disposition
  /\ e.action = "SEVERITY" => e.prev = r.severity
  /\ e.action = "ASSIGN" => e.prev = r.assignee
  /\ e.action = "DISPOSITION" => e.prev = r.disposition

\* The log s leads to the row r, and its entries chain.
Recounts(s, r) ==
  /\ Len(s) > 0
  /\ Explains(s, Len(s), r)
  /\ Chained(s, "ASSIGN", NoUser, r.assignee)
  /\ Chained(s, "DISPOSITION", "UNREVIEWED", r.disposition)
  /\ Chained(s, "SEVERITY", s[1].new, r.severity)

\* The inductive invariant: an incident that exists is what its log leads to,
\* one that does not has no log.
HistoryInv ==
  \A k \in Key : IF row[k] = NoRow THEN log[k] = <<>> ELSE Recounts(log[k], row[k])

\* Values depend on the entries up to n only.
LEMMA ValueOfPrefix ==
  ASSUME NEW s, NEW u, NEW n \in Nat, NEW action, NEW initial,
         \A i \in 1..n : u[i] = s[i]
  PROVE  ValueAfter(u, n, action, initial) = ValueAfter(s, n, action, initial)
  <1>1. LastOf(u, n, action) = LastOf(s, n, action)
    BY DEF LastOf
  <1>2. LastOf(s, n, action) \subseteq 1..n
    BY DEF LastOf
  <1> DEFINE last == LastOf(s, n, action)
             m == CHOOSE i \in last : TRUE
  <1>3. last # {} => m \in 1..n
    BY <1>2
  <1>4. last # {} => u[m].new = s[m].new
    BY <1>3
  <1>5. ValueAt(u, last, initial) = ValueAt(s, last, initial)
    BY <1>4 DEF ValueAt
  <1> QED
    BY <1>1, <1>5 DEF ValueAfter

\* One more entry changes the value only if it is of the action.
LEMMA ValueOfEntry ==
  ASSUME NEW s, NEW n \in Nat, NEW action, NEW initial
  PROVE  /\ s[n + 1].action = action =>
              ValueAfter(s, n + 1, action, initial) = s[n + 1].new
         /\ s[n + 1].action # action =>
              ValueAfter(s, n + 1, action, initial) = ValueAfter(s, n, action, initial)
  <1>1. CASE s[n + 1].action = action
    <2>1. LastOf(s, n + 1, action) = {n + 1}
      BY <1>1 DEF LastOf
    <2> QED
      BY <1>1, <2>1 DEF ValueAfter, ValueAt
  <1>2. CASE s[n + 1].action # action
    <2>1. LastOf(s, n + 1, action) = LastOf(s, n, action)
      BY <1>2 DEF LastOf
    <2>2. ValueAfter(s, n + 1, action, initial) = ValueAfter(s, n, action, initial)
      BY <2>1 DEF ValueAfter
    <2> QED
      BY <1>2, <2>2
  <1> QED
    BY <1>1, <1>2

\* What Append leaves alone and adds.
LEMMA AppendFacts ==
  ASSUME NEW s \in Seq(LogEntry), NEW e
  PROVE  /\ Len(Append(s, e)) = Len(s) + 1
         /\ Append(s, e)[Len(s) + 1] = e
         /\ \A i \in 1..Len(s) : Append(s, e)[i] = s[i]
  OBVIOUS

\* The value after an appended entry.
LEMMA ValueAppend ==
  ASSUME NEW s \in Seq(LogEntry), NEW e, NEW action, NEW initial
  PROVE  ValueAfter(Append(s, e), Len(s) + 1, action, initial) =
           IF e.action = action THEN e.new ELSE ValueAfter(s, Len(s), action, initial)
  <1> DEFINE u == Append(s, e)
             N == Len(s)
  <1>1. N \in Nat /\ u[N + 1] = e /\ \A i \in 1..N : u[i] = s[i]
    BY AppendFacts
  <1> HIDE DEF u, N
  <1>2. /\ u[N + 1].action = action =>
             ValueAfter(u, N + 1, action, initial) = u[N + 1].new
        /\ u[N + 1].action # action =>
             ValueAfter(u, N + 1, action, initial) = ValueAfter(u, N, action, initial)
    BY <1>1, ValueOfEntry
  <1>3. ValueAfter(u, N, action, initial) = ValueAfter(s, N, action, initial)
    BY <1>1, ValueOfPrefix
  <1> QED
    BY <1>1, <1>2, <1>3 DEF u, N

\* A chain grows by an entry that starts where it ended.
LEMMA ChainAppend ==
  ASSUME NEW s \in Seq(LogEntry), NEW e, NEW action, NEW initial,
         NEW current, Chained(s, action, initial, current),
         e.action = action => e.prev = current
  PROVE  Chained(Append(s, e), action, initial,
                 IF e.action = action THEN e.new ELSE current)
  <1> DEFINE u == Append(s, e)
             N == Len(s)
  <1>1. /\ N \in Nat /\ Len(u) = N + 1 /\ u[N + 1] = e
        /\ \A i \in 1..N : u[i] = s[i]
    BY AppendFacts
  <1>2. ValueAfter(u, N + 1, action, initial) =
          IF e.action = action THEN e.new ELSE ValueAfter(s, N, action, initial)
    BY ValueAppend
  <1> HIDE DEF u, N
  <1>3. /\ current = ValueAfter(s, N, action, initial)
        /\ \A n \in 1..N :
             s[n].action = action => s[n].prev = ValueAfter(s, n - 1, action, initial)
    BY DEF Chained, N
  <1>4. ASSUME NEW n \in 1..(N + 1), u[n].action = action
        PROVE  u[n].prev = ValueAfter(u, n - 1, action, initial)
    <2>1. n - 1 \in Nat /\ \A i \in 1..(n - 1) : u[i] = s[i]
      BY <1>1
    <2>2. ValueAfter(u, n - 1, action, initial) = ValueAfter(s, n - 1, action, initial)
      <3> DEFINE m == n - 1
      <3>1. m \in Nat /\ \A i \in 1..m : u[i] = s[i]
        BY <2>1
      <3> HIDE DEF m
      <3>2. ValueAfter(u, m, action, initial) = ValueAfter(s, m, action, initial)
        BY <3>1, ValueOfPrefix
      <3> QED
        BY <3>2 DEF m
    <2>3. CASE n = N + 1
      <3>1. n - 1 = N
        BY <1>1, <2>3
      <3> QED
        BY <1>1, <1>3, <1>4, <2>2, <2>3, <3>1
    <2>4. CASE n \in 1..N
      BY <1>1, <1>3, <1>4, <2>2, <2>4
    <2> QED
      BY <1>1, <2>3, <2>4
  <1> QED
    BY <1>1, <1>2, <1>3, <1>4 DEF Chained, u

\* Hence a log that leads to r leads, with one more entry, to what it writes.
LEMMA RecountsAppend ==
  ASSUME NEW s \in Seq(LogEntry), NEW e, NEW r, NEW n,
         Recounts(s, r), Writes(e, r, n)
  PROVE  Recounts(Append(s, e), n)
  <1> DEFINE u == Append(s, e)
  <1>1. /\ Len(s) \in Nat /\ Len(s) > 0 /\ Len(u) = Len(s) + 1
        /\ u[Len(u)] = e /\ u[1] = s[1]
    BY AppendFacts DEF Recounts
  <1>2. \A action, initial :
          ValueAfter(u, Len(u), action, initial) =
            IF e.action = action THEN e.new
            ELSE ValueAfter(s, Len(s), action, initial)
    BY <1>1, ValueAppend
  <1>3. Chained(u, "ASSIGN", NoUser, n.assignee)
    <2>1. /\ Chained(s, "ASSIGN", NoUser, r.assignee)
          /\ e.action = "ASSIGN" => e.prev = r.assignee
          /\ n.assignee = IF e.action = "ASSIGN" THEN e.new ELSE r.assignee
      BY DEF Recounts, Writes
    <2> QED
      BY <2>1, ChainAppend
  <1>4. Chained(u, "DISPOSITION", "UNREVIEWED", n.disposition)
    <2>1. /\ Chained(s, "DISPOSITION", "UNREVIEWED", r.disposition)
          /\ e.action = "DISPOSITION" => e.prev = r.disposition
          /\ n.disposition = IF e.action = "DISPOSITION" THEN e.new ELSE r.disposition
      BY DEF Recounts, Writes
    <2> QED
      BY <2>1, ChainAppend
  <1>5. Chained(u, "SEVERITY", u[1].new, n.severity)
    <2>1. /\ Chained(s, "SEVERITY", s[1].new, r.severity)
          /\ e.action = "SEVERITY" => e.prev = r.severity
          /\ n.severity = IF e.action = "SEVERITY" THEN e.new ELSE r.severity
      BY DEF Recounts, Writes
    <2> QED
      BY <1>1, <2>1, ChainAppend
  <1>6. Explains(u, Len(u), n)
    BY <1>1, <1>2 DEF Recounts, Explains, Writes
  <1> HIDE DEF u
  <1>7. Len(u) > 0
    BY <1>1
  <1> QED
    BY <1>3, <1>4, <1>5, <1>6, <1>7 DEF Recounts, u

-----------------------------------------------------------------------------
\* A commit of one entry that writes what the entry says.
LEMMA EntryKeepsHistory ==
  ASSUME SessionInv, HistoryInv, NEW k \in Key, row[k] # NoRow, NEW e,
         AppendEntry(k, e), row'[k] # NoRow, Writes(e, row[k], row'[k]),
         \A j \in Key : j # k => row'[j] = row[j]
  PROVE  HistoryInv'
  <1>1. /\ log[k] \in Seq(LogEntry)
        /\ log'[k] = Append(log[k], e) /\ \A j \in Key : j # k => log'[j] = log[j]
    BY DEF SessionInv, TypeOK, AppendEntry
  <1>2. Recounts(log[k], row[k])
    BY DEF HistoryInv
  <1>3. Recounts(log'[k], row'[k])
    BY <1>1, <1>2, RecountsAppend
  <1> QED
    BY <1>1, <1>3 DEF HistoryInv

\* The analyst mutations, one by one: each writes what its entry says.
LEMMA MutationsKeepHistory ==
  ASSUME SessionInv, HistoryInv, NEW t \in Txn,
         \/ CommitStatus(t) \/ CommitNote(t) \/ CommitAssignment(t)
         \/ CommitDisposition(t) \/ CommitReport(t)
  PROVE  HistoryInv'
  <1> DEFINE k == target[t]
             c == copy[t]
             x == req[t].value
             v == c.version + 1
             r == row[k]
             n == row'[k]
  <1>1. /\ pc[t] = "locked" /\ k \in Key /\ r \in Row /\ r # NoRow /\ c \in Row
        /\ row \in [Key -> Row \union {NoRow}]
        /\ ~ReadsBeforeLock(req[t]) => c = r
    BY LockedFacts DEF CommitStatus, CommitNote, CommitAssignment,
                       CommitDisposition, CommitReport, SessionInv, TypeOK,
                       SessionOK
  <1>2. \A j \in Key : j # k => row'[j] = row[j]
    BY <1>1 DEF CommitStatus, CommitNote, CommitAssignment, CommitDisposition,
           CommitReport
  <1>3. n # NoRow
    BY <1>1, MutationsKeepEvidence DEF KeepsEvidence
  <1>4. CASE CommitStatus(t)
    <2> DEFINE e == Entry("STATUS", c.version, v, c.status, x)
    <2>1. /\ AppendEntry(k, e)
          /\ row' = [row EXCEPT ![k].status = x, ![k].version = v]
      BY <1>4 DEF CommitStatus
    <2>2. n = [r EXCEPT !.status = x, !.version = v]
      <3> HIDE DEF k, x, v, c
      <3> QED
        BY <1>1, <2>1
    <2>3. /\ e.action = "STATUS" /\ e.after = v /\ e.new = x
      BY DEF Entry
    <2>4. Writes(e, r, n)
      <3> HIDE DEF e, r, n, x, v
      <3> QED
        BY <1>1, <2>2, <2>3 DEF Writes, Row
    <2> HIDE DEF e, k
    <2> QED
      BY <1>1, <1>2, <1>3, <2>1, <2>4, EntryKeepsHistory
  <1>5. CASE CommitNote(t)
    <2> DEFINE e == Entry("NOTE", c.version, v, NoText, x)
    <2>1. /\ AppendEntry(k, e)
          /\ row' = [row EXCEPT ![k].version = v]
      BY <1>5 DEF CommitNote
    <2>2. n = [r EXCEPT !.version = v]
      <3> HIDE DEF k, x, v, c
      <3> QED
        BY <1>1, <2>1
    <2>3. /\ e.action = "NOTE" /\ e.after = v
      BY DEF Entry
    <2>4. Writes(e, r, n)
      <3> HIDE DEF e, r, n, x, v
      <3> QED
        BY <1>1, <2>2, <2>3 DEF Writes, Row
    <2> HIDE DEF e, k
    <2> QED
      BY <1>1, <1>2, <1>3, <2>1, <2>4, EntryKeepsHistory
  <1>6. CASE CommitAssignment(t)
    <2> DEFINE e == Entry("ASSIGN", c.version, v, c.assignee, x)
    <2>1. /\ AppendEntry(k, e) /\ req[t].op = "assign"
          /\ row' = [row EXCEPT ![k].assignee = x, ![k].version = v]
      BY <1>6 DEF CommitAssignment
    <2>2. n = [r EXCEPT !.assignee = x, !.version = v]
      <3> HIDE DEF k, x, v, c
      <3> QED
        BY <1>1, <2>1
    <2>3. /\ e.action = "ASSIGN" /\ e.after = v /\ e.new = x /\ e.prev = r.assignee
      <3>1. c = r
        BY <1>1, <2>1 DEF ReadsBeforeLock
      <3> QED
        BY <3>1 DEF Entry
    <2>4. Writes(e, r, n)
      <3> HIDE DEF e, r, n, x, v
      <3> QED
        BY <1>1, <2>2, <2>3 DEF Writes, Row
    <2> HIDE DEF e, k
    <2> QED
      BY <1>1, <1>2, <1>3, <2>1, <2>4, EntryKeepsHistory
  <1>7. CASE CommitDisposition(t)
    <2> DEFINE e == Entry("DISPOSITION", c.version, v, c.disposition, x)
    <2>1. /\ AppendEntry(k, e) /\ req[t].op = "disposition"
          /\ row' = [row EXCEPT ![k].disposition = x, ![k].version = v]
      BY <1>7 DEF CommitDisposition
    <2>2. n = [r EXCEPT !.disposition = x, !.version = v]
      <3> HIDE DEF k, x, v, c
      <3> QED
        BY <1>1, <2>1
    <2>3. /\ e.action = "DISPOSITION" /\ e.after = v /\ e.new = x
          /\ e.prev = r.disposition
      <3>1. c = r
        BY <1>1, <2>1 DEF ReadsBeforeLock
      <3> QED
        BY <3>1 DEF Entry
    <2>4. Writes(e, r, n)
      <3> HIDE DEF e, r, n, x, v
      <3> QED
        BY <1>1, <2>2, <2>3 DEF Writes, Row
    <2> HIDE DEF e, k
    <2> QED
      BY <1>1, <1>2, <1>3, <2>1, <2>4, EntryKeepsHistory
  <1>8. CASE CommitReport(t)
    <2> DEFINE e == Entry("REPORT", c.version, c.version, NoText, x)
    <2>1. AppendEntry(k, e) /\ req[t].op = "report" /\ row' = row
      BY <1>8 DEF CommitReport
    <2>2. c = r /\ n = r
      BY <1>1, <2>1 DEF ReadsBeforeLock
    <2>3. e.action = "REPORT" /\ e.after = r.version
      BY <2>2 DEF Entry
    <2>4. Writes(e, r, n)
      <3> HIDE DEF e, r, n
      <3> QED
        BY <2>2, <2>3 DEF Writes
    <2> HIDE DEF e, k
    <2> QED
      BY <1>1, <1>2, <1>3, <2>1, <2>4, EntryKeepsHistory
  <1> QED
    BY <1>4, <1>5, <1>6, <1>7, <1>8

\* The history of a new incident is its creation.
LEMMA CreationKeepsHistory ==
  ASSUME SessionInv, HistoryInv, NEW t \in Txn, CommitCreation(t)
  PROVE  HistoryInv'
  <1> DEFINE k == target[t]
             c == req[t].value
             e == Entry("CREATED", 0, 1, "NONE", c.severity)
             n == NewRow(c)
             s == <<e>>
  <1>1. k \in Key /\ row[k] = NoRow
    BY DEF CommitCreation, SessionInv, SessionOK
  <1>2. log[k] = <<>>
    BY <1>1 DEF HistoryInv
  <1>3. /\ row'[k] = n /\ log'[k] = s
        /\ \A j \in Key : j # k => row'[j] = row[j] /\ log'[j] = log[j]
    BY <1>1, <1>2 DEF CommitCreation, SessionInv, TypeOK
  <1>4. /\ e.action = "CREATED" /\ e.after = 1 /\ e.new = c.severity
        /\ n.version = 1 /\ n.status = "OPEN" /\ n.severity = c.severity
        /\ n.assignee = NoUser /\ n.disposition = "UNREVIEWED"
    BY DEF Entry, NewRow
  <1> HIDE DEF e, n
  <1>5. Len(s) = 1 /\ s[1] = e
    OBVIOUS
  <1> HIDE DEF s
  <1>6. \A action, initial : e.action # action => ValueAfter(s, 1, action, initial) = initial
    BY <1>5 DEF ValueAfter, ValueAt, LastOf
  <1>7. Explains(s, Len(s), n)
    BY <1>4, <1>5, <1>6 DEF Explains
  <1>8. /\ Chained(s, "ASSIGN", NoUser, n.assignee)
        /\ Chained(s, "DISPOSITION", "UNREVIEWED", n.disposition)
        /\ Chained(s, "SEVERITY", s[1].new, n.severity)
    BY <1>4, <1>5, <1>6 DEF Chained
  <1>9. Recounts(s, n)
    BY <1>5, <1>7, <1>8 DEF Recounts
  <1>10. n # NoRow
    <2>1. c \in Candidate /\ IsFiniteSet(DOMAIN c.roles)
      BY CandidateType DEF CommitCreation, SessionInv, SessionOK
    <2>2. Cardinality(DOMAIN c.roles) \in Nat
      BY <2>1, FS_CardinalityType
    <2> HIDE DEF c
    <2>3. NewRow(c) \in Row
      BY <2>1, <2>2 DEF NewRow, Row, Candidate, Status, Disposition
    <2> QED
      BY <2>3, SentinelAssumption DEF n
  <1> QED
    BY <1>3, <1>9, <1>10 DEF HistoryInv

\* A binding to a run comes with the evidence of that run, which the unbound
\* incident cannot hold: an enrichment always has an entry in the log.
LEMMA ChangesAreLogged ==
  ASSUME EvidenceInv, NEW k \in Key, row[k] # NoRow, NEW q \in Request,
         q.op = "qualify", Changes(k, row[k], q.value)
  PROVE  \/ Inserted(k, q.value) # {}
         \/ SeverityIncreases(row[k].severity, q.value.severity)
  <1>1. ASSUME BindingChanged(row[k], q.value) PROVE Inserted(k, q.value) # {}
    <2>1. PICK e \in DOMAIN q.value.roles : RunOf[e] = q.value.bound
      BY <1>1, CandidateType DEF BindingChanged
    <2>2. RunOf[e] # NoRun /\ row[k].bound = NoRun
      BY <1>1, <2>1 DEF BindingChanged
    <2>3. e \notin DOMAIN members[k]
      BY <2>2 DEF EvidenceInv, RunsNeverMix
    <2> QED
      BY <2>1, <2>3 DEF Inserted
  <1> QED
    BY <1>1 DEF Changes

LEMMA PairOfEntries ==
  ASSUME NEW a, NEW b
  PROVE  <<a>> \o <<b>> = <<a, b>>
  <1> DEFINE S == {a, b}
             p == <<a>> \o <<b>>
  <1>1. <<a>> \in Seq(S) /\ <<b>> \in Seq(S) /\ <<a, b>> \in Seq(S)
    OBVIOUS
  <1>2. Len(<<a>>) = 1 /\ Len(<<b>>) = 1 /\ <<a>>[1] = a /\ <<b>>[1] = b
    OBVIOUS
  <1> HIDE DEF S
  <1>3. /\ p \in Seq(S) /\ Len(p) = Len(<<a>>) + Len(<<b>>)
        /\ \A i \in 1..Len(<<a>>) + Len(<<b>>) :
             p[i] = IF i <= Len(<<a>>) THEN <<a>>[i] ELSE <<b>>[i - Len(<<a>>)]
    BY <1>1, ConcatProperties
  <1> HIDE DEF p
  <1>4. Len(p) = 2 /\ p[1] = a /\ p[2] = b
    BY <1>2, <1>3
  <1>5. p = <<a, b>>
    BY <1>1, <1>3, <1>4
  <1> QED
    BY <1>5 DEF p

\* The entries of an enrichment, one after the other.
LEMMA EnrichmentKeepsHistory ==
  ASSUME SessionInv, EvidenceInv, HistoryInv, NEW t \in Txn, CommitEnrichment(t)
  PROVE  HistoryInv'
  <1> DEFINE k == target[t]
             c == req[t].value
             r == row[k]
             s == log[k]
             n == EnrichedRow(r, k, r, c)
             v == r.version
             a == [Entry("ENRICHED", v, v + 1, "NONE", "NONE")
                     EXCEPT !.evidence = Inserted(k, c)]
             b == Entry("SEVERITY", v, v + 1, r.severity, c.severity)
             m == [r EXCEPT !.version = v + 1]
             es == EnrichmentEntries(k, r, c)
  <1>1. /\ pc[t] = "enrich" /\ k \in Key /\ req[t] \in Request
        /\ req[t].op = "qualify" /\ r \in Row /\ r # NoRow /\ copy[t] = r
    BY LockedFacts DEF CommitEnrichment
  <1>2. c \in Candidate /\ IsFiniteSet(DOMAIN c.roles)
    BY <1>1, CandidateType
  <1>3. /\ row' = [row EXCEPT ![k] = n]
        /\ log' = [log EXCEPT ![k] = s \o es]
        /\ Changes(k, r, c)
    BY <1>1 DEF CommitEnrichment
  <1>4. /\ s \in Seq(LogEntry) /\ row'[k] = n /\ log'[k] = s \o es
        /\ \A j \in Key : j # k => row'[j] = row[j] /\ log'[j] = log[j]
    BY <1>1, <1>3 DEF SessionInv, TypeOK
  <1>5. /\ n \in Row /\ n.version = v + 1
        /\ n.severity = IF SeverityIncreases(r.severity, c.severity) THEN c.severity
                        ELSE r.severity
        /\ n.status = r.status /\ n.assignee = r.assignee
        /\ n.disposition = r.disposition
    BY <1>1, <1>2, EnrichedRowType
  <1>6. /\ a.action = "ENRICHED" /\ a.after = v + 1
        /\ b.action = "SEVERITY" /\ b.after = v + 1 /\ b.prev = r.severity
        /\ b.new = c.severity
    BY DEF Entry
  <1>7. /\ m.version = v + 1 /\ m.severity = r.severity /\ m.status = r.status
        /\ m.assignee = r.assignee /\ m.disposition = r.disposition
    BY <1>1 DEF Row
  <1>8. es = (IF Inserted(k, c) = {} THEN <<>> ELSE <<a>>)
             \o (IF SeverityIncreases(r.severity, c.severity) THEN <<b>> ELSE <<>>)
    BY DEF EnrichmentEntries
  <1>9. \/ Inserted(k, c) # {}
        \/ SeverityIncreases(r.severity, c.severity)
    BY <1>1, <1>3, ChangesAreLogged
  <1>10. Recounts(s, r)
    BY <1>1 DEF HistoryInv
  <1>11. n # NoRow
    BY <1>5, SentinelAssumption
  <1>12. es \in Seq(LogEntry)
    BY <1>1, <1>2, EnrichmentEntriesType
  <1> HIDE DEF a, b, m, n, s, es, k, c, v, r
  <1>13. Recounts(s \o es, n)
    <2>1. CASE Inserted(k, c) # {} /\ ~SeverityIncreases(r.severity, c.severity)
      <3>1. es = <<a>>
        BY <1>8, <2>1
      <3>2. s \o es = Append(s, a)
        BY <1>4, <3>1
      <3>3. Writes(a, r, n)
        BY <1>5, <1>6, <2>1 DEF Writes
      <3> QED
        BY <1>4, <1>10, <3>2, <3>3, RecountsAppend
    <2>2. CASE Inserted(k, c) = {} /\ SeverityIncreases(r.severity, c.severity)
      <3>1. es = <<b>>
        BY <1>8, <2>2
      <3>2. s \o es = Append(s, b)
        BY <1>4, <3>1
      <3>3. Writes(b, r, n)
        BY <1>5, <1>6, <2>2 DEF Writes
      <3> QED
        BY <1>4, <1>10, <3>2, <3>3, RecountsAppend
    <2>3. CASE Inserted(k, c) # {} /\ SeverityIncreases(r.severity, c.severity)
      <3>1. es = <<a, b>>
        <4>1. es = <<a>> \o <<b>>
          BY <1>8, <2>3
        <4>2. <<a>> \o <<b>> = <<a, b>>
          BY PairOfEntries
        <4> QED
          BY <4>1, <4>2
      <3>2. a \in LogEntry
        BY <1>12, <3>1
      <3>3. Append(s, a) \in Seq(LogEntry) /\ s \o es = Append(Append(s, a), b)
        BY <1>4, <3>1, <3>2
      <3>4. Writes(a, r, m)
        BY <1>6, <1>7 DEF Writes
      <3>5. Recounts(Append(s, a), m)
        BY <1>4, <1>10, <3>4, RecountsAppend
      <3>6. Writes(b, m, n)
        BY <1>5, <1>6, <1>7, <2>3 DEF Writes
      <3>7. Recounts(Append(Append(s, a), b), n)
        BY <3>3, <3>5, <3>6, RecountsAppend
      <3> QED
        BY <3>3, <3>7
    <2> QED
      BY <1>9, <2>1, <2>2, <2>3
  <1> QED
    BY <1>4, <1>11, <1>13 DEF HistoryInv

\* The history invariant is inductive relative to those about sessions and
\* evidence.
LEMMA NextHistoryInv ==
  SessionInv /\ EvidenceInv /\ HistoryInv /\ [Next]_vars => HistoryInv'
  <1> SUFFICES ASSUME SessionInv, EvidenceInv, HistoryInv, [Next]_vars
               PROVE  HistoryInv'
    OBVIOUS
  <1>1. ASSUME row' = row, log' = log PROVE HistoryInv'
    BY <1>1 DEF HistoryInv
  <1>2. ASSUME NEW t \in Txn, Begin(t) \/ Step(t) \/ Rollback(t)
        PROVE  HistoryInv'
    <2>1. CASE \/ Begin(t) \/ PreRead(t) \/ LockIncident(t) \/ NotFound(t)
               \/ Reject(t) \/ DuplicateKey(t) \/ InsertIncident(t)
               \/ LoadIncident(t) \/ EnrichmentWithoutEffect(t) \/ Rollback(t)
      <3>1. row' = row /\ log' = log
        BY <2>1 DEF Begin, PreRead, LockIncident, NotFound, Reject,
                    DuplicateKey, InsertIncident, LoadIncident,
                    EnrichmentWithoutEffect, Rollback, tables
      <3> QED
        BY <3>1, <1>1
    <2> QED
      BY <1>2, <2>1, MutationsKeepHistory, CreationKeepsHistory, EnrichmentKeepsHistory
      DEF Step
  <1>3. CASE UNCHANGED vars
    BY <1>3, <1>1 DEF vars
  <1> QED
    BY <1>2, <1>3 DEF Next, Quiesce

\* Every incident is what its log leads to.
THEOREM Histories == Spec => []HistoryInv
  <1>1. Init => HistoryInv
    BY DEF Init, HistoryInv
  <1> QED
    BY <1>1, NextHistoryInv, Sessions, Evidences, PTL DEF Spec

\* The assignments, dispositions and escalations on record chain from the
\* creation of the incident to the values in its row, also when a resolve
\* commits from a stale copy: it writes back its own columns only.
THEOREM HistoryTheorem == Spec => []HistoryExplainsRow
  <1>1. HistoryInv => HistoryExplainsRow
    BY DEF HistoryInv, HistoryExplainsRow, Recounts, Exists
  <1> QED
    BY <1>1, Histories, PTL

-----------------------------------------------------------------------------
(***************************************************************************)
(* Reports                                                                 *)
(***************************************************************************)
\* Inductive together with: there are finitely many revisions.
ReportInv ==
  /\ \A k \in Key : IsFiniteSet(revisions[k])
  /\ ReportIsNewestRevision

\* save_incident_report adds the revision after the newest one.
LEMMA ReportKeeps ==
  ASSUME SessionInv, ReportInv, NEW t \in Txn, CommitReport(t)
  PROVE  ReportInv'
  <1> DEFINE k == target[t]
             N == report[k].version
             new == [version |-> N + 1, text |-> req[t].value]
             R == revisions[k]
  <1>1. k \in Key /\ N \in Nat
    BY LockedFacts DEF CommitReport, SessionInv, TypeOK
  <1>2. /\ report'[k] = new /\ revisions'[k] = R \union {new}
        /\ \A j \in Key : j # k => report'[j] = report[j] /\ revisions'[j] = revisions[j]
    BY <1>1 DEF CommitReport, SessionInv, TypeOK
  <1>3. new.version = N + 1
    OBVIOUS
  <1>4. /\ IsFiniteSet(R) /\ {x.version : x \in R} = 1..N /\ Cardinality(R) = N
    BY <1>1 DEF ReportInv, ReportIsNewestRevision
  <1> HIDE DEF new, N, R, k
  <1>5. new \notin R
    BY <1>1, <1>3, <1>4
  <1>6. IsFiniteSet(R \union {new}) /\ Cardinality(R \union {new}) = N + 1
    BY <1>4, <1>5, FS_AddElement
  <1>7. {x.version : x \in R \union {new}} = 1..(N + 1)
    <2>1. {x.version : x \in R \union {new}} = {x.version : x \in R} \union {new.version}
      OBVIOUS
    <2> QED
      BY <1>1, <1>3, <1>4, <2>1
  <1> QED
    BY <1>1, <1>2, <1>3, <1>6, <1>7 DEF ReportInv, ReportIsNewestRevision

\* Saved revisions are numbered without gap or repetition, whoever saves when,
\* and the current report is the newest.
THEOREM ReportTheorem == Spec => []ReportIsNewestRevision
  <1>1. Init => ReportInv
    <2> SUFFICES ASSUME Init PROVE ReportInv
      OBVIOUS
    <2>1. \A k \in Key : revisions[k] = {} /\ report[k].version = 0
      BY DEF Init
    <2>2. 1..0 = {}
      OBVIOUS
    <2>3. IsFiniteSet({}) /\ Cardinality({}) = 0
      BY FS_EmptySet
    <2>4. ASSUME NEW k \in Key
          PROVE  /\ IsFiniteSet(revisions[k])
                 /\ {x.version : x \in revisions[k]} = 1..report[k].version
                 /\ Cardinality(revisions[k]) = report[k].version
                 /\ ~(report[k].version > 0)
      BY <2>1, <2>2, <2>3
    <2> QED
      BY <2>4 DEF ReportInv, ReportIsNewestRevision
  <1>2. SessionInv /\ ReportInv /\ [Next]_vars => ReportInv'
    <2> SUFFICES ASSUME SessionInv, ReportInv, [Next]_vars PROVE ReportInv'
      OBVIOUS
    <2>1. ASSUME report' = report, revisions' = revisions PROVE ReportInv'
      BY <2>1 DEF ReportInv, ReportIsNewestRevision
    <2>2. ASSUME NEW t \in Txn, Begin(t) \/ Step(t) \/ Rollback(t), ~CommitReport(t)
          PROVE  report' = report /\ revisions' = revisions
      BY <2>2 DEF Begin, Step, PreRead, LockIncident, NotFound, Reject, DuplicateKey,
                  CommitStatus, CommitNote, CommitAssignment, CommitDisposition,
                  InsertIncident, LoadIncident, CommitCreation, CommitEnrichment,
                  EnrichmentWithoutEffect, Rollback, tables
    <2>3. CASE UNCHANGED vars
      BY <2>3, <2>1 DEF vars
    <2> QED
      BY <2>1, <2>2, <2>3, ReportKeeps DEF Next, Quiesce
  <1>3. ReportInv => ReportIsNewestRevision
    BY DEF ReportInv
  <1> QED
    BY <1>1, <1>2, <1>3, Sessions, PTL DEF Spec

-----------------------------------------------------------------------------
(***************************************************************************)
(* The page of a reader                                                    *)
(***************************************************************************)
\* What is committed stays: logs are extended and memberships added.
Grows(k) ==
  /\ Len(log[k]) <= Len(log'[k])
  /\ \A i \in 1..Len(log[k]) : log'[k][i] = log[k][i]
  /\ DOMAIN members[k] \subseteq DOMAIN members'[k]

LEMMA NextGrows ==
  ASSUME SessionInv, EvidenceInv, [Next]_vars
  PROVE  \A k \in Key : Grows(k)
  <1>1. \A k \in Key : log[k] \in Seq(LogEntry) /\ Len(log[k]) \in Nat
    BY DEF SessionInv, TypeOK
  <1>2. ASSUME log' = log, members' = members PROVE \A k \in Key : Grows(k)
    BY <1>1, <1>2 DEF Grows
  <1>3. ASSUME NEW t \in Txn, NEW e, target[t] \in Key, AppendEntry(target[t], e),
               members' = members
        PROVE  \A k \in Key : Grows(k)
    <2>1. /\ log'[target[t]] = Append(log[target[t]], e)
          /\ \A j \in Key : j # target[t] => log'[j] = log[j]
      BY <1>3 DEF SessionInv, TypeOK, AppendEntry
    <2>2. Grows(target[t])
      BY <1>1, <1>3, <2>1, AppendFacts DEF Grows
    <2>3. \A j \in Key : j # target[t] => Grows(j)
      BY <1>1, <1>3, <2>1 DEF Grows
    <2> QED
      BY <2>2, <2>3
  <1>4. ASSUME NEW t \in Txn, CommitCreation(t) PROVE \A k \in Key : Grows(k)
    <2> DEFINE k == target[t]
               e == Entry("CREATED", 0, 1, "NONE", req[t].value.severity)
    <2>1. k \in Key /\ row[k] = NoRow
      BY <1>4 DEF CommitCreation, SessionInv, SessionOK
    <2>2. DOMAIN members[k] = {}
      BY <2>1 DEF EvidenceInv
    <2>3. /\ log'[k] = Append(log[k], e)
          /\ \A j \in Key : j # k => log'[j] = log[j] /\ members'[j] = members[j]
      BY <1>4, <2>1 DEF CommitCreation, SessionInv, TypeOK
    <2> HIDE DEF e, k
    <2>4. Grows(k)
      BY <1>1, <2>1, <2>2, <2>3, AppendFacts DEF Grows
    <2>5. \A j \in Key : j # k => Grows(j)
      BY <1>1, <2>3 DEF Grows
    <2> QED
      BY <2>4, <2>5
  <1>5. ASSUME NEW t \in Txn, CommitEnrichment(t) PROVE \A k \in Key : Grows(k)
    <2> DEFINE k == target[t]
               c == req[t].value
               es == EnrichmentEntries(k, row[k], c)
    <2>1. /\ pc[t] = "enrich" /\ k \in Key /\ req[t] \in Request
          /\ req[t].op = "qualify" /\ row[k] \in Row /\ copy[t] = row[k]
      BY <1>5, LockedFacts DEF CommitEnrichment
    <2>2. c \in Candidate
      BY <2>1, CandidateType
    <2>3. es \in Seq(LogEntry)
      BY <2>1, <2>2, EnrichmentEntriesType
    <2>4. /\ log'[k] = log[k] \o es
          /\ DOMAIN members'[k] = DOMAIN members[k] \union DOMAIN c.roles
          /\ \A j \in Key : j # k => log'[j] = log[j] /\ members'[j] = members[j]
      BY <1>5, <2>1 DEF CommitEnrichment, OnConflictDoNothing, EffectiveRoles,
                        SessionInv, TypeOK
    <2> HIDE DEF es, k
    <2>5. /\ Len(es) \in Nat /\ Len(log[k] \o es) = Len(log[k]) + Len(es)
          /\ \A i \in 1..Len(log[k]) + Len(es) :
               (log[k] \o es)[i] =
                 IF i <= Len(log[k]) THEN log[k][i] ELSE es[i - Len(log[k])]
      BY <1>1, <2>1, <2>3, ConcatProperties
    <2>6. Grows(k)
      BY <1>1, <2>1, <2>4, <2>5 DEF Grows
    <2>7. \A j \in Key : j # k => Grows(j)
      BY <1>1, <2>4 DEF Grows
    <2> QED
      BY <2>6, <2>7
  <1>6. ASSUME NEW t \in Txn, Begin(t) \/ Step(t) \/ Rollback(t)
        PROVE  \A k \in Key : Grows(k)
    <2>1. CASE \/ Begin(t) \/ PreRead(t) \/ LockIncident(t) \/ NotFound(t)
               \/ Reject(t) \/ DuplicateKey(t) \/ InsertIncident(t)
               \/ LoadIncident(t) \/ EnrichmentWithoutEffect(t) \/ Rollback(t)
      <3>1. log' = log /\ members' = members
        BY <2>1 DEF Begin, PreRead, LockIncident, NotFound, Reject,
                    DuplicateKey, InsertIncident, LoadIncident,
                    EnrichmentWithoutEffect, Rollback, tables
      <3> QED
        BY <3>1, <1>2
    <2>2. CASE \/ CommitStatus(t) \/ CommitNote(t) \/ CommitAssignment(t)
               \/ CommitDisposition(t) \/ CommitReport(t)
      <3>1. target[t] \in Key /\ members' = members
        BY <2>2, LockedFacts DEF CommitStatus, CommitNote, CommitAssignment,
                                 CommitDisposition, CommitReport
      <3>2. \E e : AppendEntry(target[t], e)
        BY <2>2 DEF CommitStatus, CommitNote, CommitAssignment, CommitDisposition,
                    CommitReport
      <3> QED
        BY <3>1, <3>2, <1>3
    <2> QED
      BY <1>4, <1>5, <1>6, <2>1, <2>2 DEF Step
  <1>7. CASE UNCHANGED vars
    BY <1>7, <1>2 DEF vars
  <1> QED
    BY <1>6, <1>7 DEF Next, Quiesce

\* An explanation stays one as the log grows.
LEMMA ExplanationStays ==
  ASSUME NEW s, NEW u, NEW n \in Nat \ {0}, NEW r, Explains(s, n, r),
         \A i \in 1..n : u[i] = s[i]
  PROVE  Explains(u, n, r)
  <1>1. \A action, initial :
          ValueAfter(u, n, action, initial) = ValueAfter(s, n, action, initial)
    BY ValueOfPrefix
  <1>2. u[n] = s[n] /\ u[1] = s[1]
    OBVIOUS
  <1> QED
    BY <1>1, <1>2 DEF Explains

Details ==
  [key : Key, stage : {"memberships", "timeline", "history", "answered"},
   incident : Row, memberships : SUBSET Evidence, timeline : Nat, history : Nat]

\* What the reader knows at each stage: the incident it has read is explained
\* by a beginning of the committed log, which the timeline covers once read;
\* its count is covered by the committed memberships, then by those read.
PageInv ==
  detail # NoDetail =>
    /\ detail \in Details
    /\ IsFiniteSet(detail.memberships)
    /\ \E n \in 1..Len(log[detail.key]) :
         /\ Explains(log[detail.key], n, detail.incident)
         /\ detail.stage \in {"history", "answered"} => n <= detail.timeline
    /\ detail.incident.evidence_count <=
         Cardinality(IF detail.stage = "memberships" THEN DOMAIN members[detail.key]
                     ELSE detail.memberships)
    /\ detail.stage \in {"history", "answered"} => detail.timeline <= Len(log[detail.key])
    /\ detail.stage = "answered" => detail.timeline <= detail.history

\* Writers that commit between two statements of the reader.
LEMMA WritersKeepPage ==
  ASSUME SessionInv, SessionInv', EvidenceInv, EvidenceInv', PageInv, [Next]_vars,
         UNCHANGED detail
  PROVE  PageInv'
  <1> SUFFICES ASSUME detail # NoDetail PROVE PageInv'
    BY DEF PageInv
  <1> DEFINE k == detail.key
  <1>1. k \in Key /\ detail \in Details /\ detail.incident \in Row
    BY DEF PageInv, Details
  <1>2. Grows(k)
    BY <1>1, NextGrows
  <1>3. Len(log[k]) \in Nat /\ Len(log'[k]) \in Nat
    BY <1>1 DEF SessionInv, TypeOK
  <1>4. PICK n \in 1..Len(log[k]) :
               /\ Explains(log[k], n, detail.incident)
               /\ detail.stage \in {"history", "answered"} => n <= detail.timeline
    BY DEF PageInv
  <1>5. n \in 1..Len(log'[k]) /\ Explains(log'[k], n, detail.incident)
    <2>1. n \in Nat \ {0} /\ \A i \in 1..n : log'[k][i] = log[k][i]
      BY <1>2, <1>3 DEF Grows
    <2>2. Explains(log'[k], n, detail.incident)
      BY <1>4, <2>1, ExplanationStays
    <2> QED
      BY <1>2, <1>3, <2>2 DEF Grows
  <1>6. detail.stage = "memberships" =>
          detail.incident.evidence_count <= Cardinality(DOMAIN members'[k])
    <2>1. IsFiniteSet(DOMAIN members'[k]) /\ IsFiniteSet(DOMAIN members[k])
      BY <1>1 DEF EvidenceInv
    <2>2. Cardinality(DOMAIN members[k]) <= Cardinality(DOMAIN members'[k])
      BY <1>2, <2>1, FS_Subset DEF Grows
    <2>3. /\ Cardinality(DOMAIN members[k]) \in Nat
          /\ Cardinality(DOMAIN members'[k]) \in Nat
          /\ detail.incident.evidence_count \in Nat
      BY <1>1, <2>1, FS_CardinalityType DEF Row
    <2>4. detail.stage = "memberships" =>
            detail.incident.evidence_count <= Cardinality(DOMAIN members[k])
      BY DEF PageInv
    <2> QED
      BY <2>2, <2>3, <2>4
  <1>7. detail.stage \in {"history", "answered"} => detail.timeline <= Len(log'[k])
    <2>1. detail.timeline \in Nat
      BY <1>1 DEF Details
    <2> QED
      BY <1>2, <1>3, <2>1 DEF PageInv, Grows
  <1> QED
    BY <1>1, <1>4, <1>5, <1>6, <1>7 DEF PageInv

\* The statements of get_incident_detail, in their order.
LEMMA ReaderKeepsPage ==
  ASSUME SessionInv, EvidenceInv, HistoryInv, PageInv, UNCHANGED vars,
         \/ \E k \in Key : ReadIncident(k)
         \/ ReadMemberships \/ ReadTimeline \/ ReadHistories \/ EndRead
  PROVE  PageInv'
  <1>1. row' = row /\ log' = log /\ members' = members
    BY DEF vars
  <1>2. ASSUME NEW k \in Key, ReadIncident(k) PROVE PageInv'
    <2>1. row[k] # NoRow /\ row[k] \in Row /\ Len(log[k]) \in Nat
      BY <1>2 DEF ReadIncident, Exists, SessionInv, TypeOK
    <2>2. Len(log[k]) > 0 /\ Explains(log[k], Len(log[k]), row[k])
      BY <2>1 DEF HistoryInv, Recounts
    <2>3. row[k].evidence_count = Cardinality(DOMAIN members[k])
      BY <2>1 DEF EvidenceInv, EvidenceCountExact, Exists
    <2>4. row[k].evidence_count \in Nat
      BY <2>1 DEF Row
    <2> DEFINE d == Detail(k, "memberships", row[k], {}, 0, 0)
    <2>5. /\ d \in Details /\ d.key = k /\ d.stage = "memberships"
          /\ d.incident = row[k] /\ d.memberships = {}
      BY <2>1 DEF Detail, Details
    <2>6. detail' = d
      BY <1>2 DEF ReadIncident
    <2>7. IsFiniteSet({})
      BY FS_EmptySet
    <2>8. row[k].evidence_count <= Cardinality(DOMAIN members[k])
      BY <2>3, <2>4
    <2>9. Len(log[k]) \in 1..Len(log[k])
      BY <2>1, <2>2
    <2> HIDE DEF d
    <2> QED
      BY <1>1, <2>2, <2>5, <2>6, <2>7, <2>8, <2>9 DEF PageInv
  <1>3. CASE ReadMemberships
    <2> DEFINE k == detail.key
               d == [detail EXCEPT !.stage = "timeline", !.memberships = DOMAIN members[k]]
    <2>1. detail # NoDetail /\ detail.stage = "memberships" /\ detail' = d
      BY <1>3 DEF ReadMemberships
    <2>2. /\ detail \in Details /\ k \in Key
          /\ \E n \in 1..Len(log[k]) : Explains(log[k], n, detail.incident)
          /\ detail.incident.evidence_count <= Cardinality(DOMAIN members[k])
      BY <2>1 DEF PageInv, Details
    <2>3. DOMAIN members[k] \subseteq Evidence /\ IsFiniteSet(DOMAIN members[k])
      BY <2>2, MembershipsType DEF SessionInv, TypeOK, EvidenceInv
    <2>4. /\ d \in Details /\ d.key = k /\ d.stage = "timeline"
          /\ d.incident = detail.incident /\ d.memberships = DOMAIN members[k]
      BY <2>2, <2>3 DEF Details
    <2> HIDE DEF d, k
    <2> QED
      BY <1>1, <2>1, <2>2, <2>3, <2>4 DEF PageInv
  <1>4. CASE ReadTimeline
    <2> DEFINE k == detail.key
               d == [detail EXCEPT !.stage = "history", !.timeline = Len(log[k])]
    <2>1. detail # NoDetail /\ detail.stage = "timeline" /\ detail' = d
      BY <1>4 DEF ReadTimeline
    <2>2. /\ detail \in Details /\ k \in Key /\ IsFiniteSet(detail.memberships)
          /\ \E n \in 1..Len(log[k]) : Explains(log[k], n, detail.incident)
          /\ detail.incident.evidence_count <= Cardinality(detail.memberships)
      BY <2>1 DEF PageInv, Details
    <2>3. Len(log[k]) \in Nat
      BY <2>2 DEF SessionInv, TypeOK
    <2>4. /\ d \in Details /\ d.key = k /\ d.stage = "history"
          /\ d.incident = detail.incident /\ d.memberships = detail.memberships
          /\ d.timeline = Len(log[k])
      BY <2>2, <2>3 DEF Details
    <2> HIDE DEF d, k
    <2> QED
      BY <1>1, <2>1, <2>2, <2>3, <2>4 DEF PageInv
  <1>5. CASE ReadHistories
    <2> DEFINE k == detail.key
               d == [detail EXCEPT !.stage = "answered", !.history = Len(log[k])]
    <2>1. detail # NoDetail /\ detail.stage = "history" /\ detail' = d
      BY <1>5 DEF ReadHistories
    <2>2. /\ detail \in Details /\ k \in Key /\ IsFiniteSet(detail.memberships)
          /\ \E n \in 1..Len(log[k]) :
               Explains(log[k], n, detail.incident) /\ n <= detail.timeline
          /\ detail.incident.evidence_count <= Cardinality(detail.memberships)
          /\ detail.timeline <= Len(log[k])
      BY <2>1 DEF PageInv, Details
    <2>3. Len(log[k]) \in Nat
      BY <2>2 DEF SessionInv, TypeOK
    <2>4. /\ d \in Details /\ d.key = k /\ d.stage = "answered"
          /\ d.incident = detail.incident /\ d.memberships = detail.memberships
          /\ d.timeline = detail.timeline /\ d.history = Len(log[k])
      BY <2>2, <2>3 DEF Details
    <2> HIDE DEF d, k
    <2> QED
      BY <1>1, <2>1, <2>2, <2>3, <2>4 DEF PageInv
  <1>6. CASE EndRead
    BY <1>6 DEF EndRead, PageInv
  <1> QED
    BY <1>2, <1>3, <1>4, <1>5, <1>6

\* The writers beside a reader are the writers of IncidentStore.
LEMMA ReaderSpecRefines == ReaderSpec => Spec
  <1>1. ReaderInit => Init
    BY DEF ReaderInit
  <1>2. [ReaderNext]_readerVars => [Next]_vars
    BY DEF ReaderNext, readerVars, ReadIncident, ReadMemberships, ReadTimeline,
           ReadHistories, EndRead
  <1> QED
    BY <1>1, <1>2, PTL DEF ReaderSpec, Spec

\* The incident a page shows is explained by the timeline on that page and its
\* count by the memberships on it, although each statement of the reader sees
\* another state of the database.
THEOREM PageTheorem == ReaderSpec => []PageIsExplained
  <1>1. ReaderInit => PageInv
    BY DEF ReaderInit, PageInv
  <1>2. /\ SessionInv /\ SessionInv' /\ EvidenceInv /\ EvidenceInv' /\ HistoryInv
        /\ PageInv /\ [ReaderNext]_readerVars
        => PageInv'
    <2> SUFFICES ASSUME SessionInv, SessionInv', EvidenceInv, EvidenceInv', HistoryInv,
                        PageInv, [ReaderNext]_readerVars
                 PROVE  PageInv'
      OBVIOUS
    <2>1. CASE Next /\ UNCHANGED detail
      BY <2>1, WritersKeepPage
    <2>2. CASE UNCHANGED readerVars
      BY <2>2, WritersKeepPage DEF readerVars
    <2>3. CASE \/ \E k \in Key : ReadIncident(k)
               \/ ReadMemberships \/ ReadTimeline \/ ReadHistories \/ EndRead
      <3>1. UNCHANGED vars
        BY <2>3 DEF ReadIncident, ReadMemberships, ReadTimeline, ReadHistories, EndRead
      <3> QED
        BY <2>3, <3>1, ReaderKeepsPage
    <2> QED
      BY <2>1, <2>2, <2>3 DEF ReaderNext
  <1>3. PageInv => PageIsExplained
    <2> SUFFICES ASSUME PageInv, detail # NoDetail, detail.stage = "answered"
                 PROVE  /\ \E n \in 1..detail.timeline :
                             Explains(log[detail.key], n, detail.incident)
                        /\ detail.incident.evidence_count <=
                             Cardinality(detail.memberships)
                        /\ detail.timeline <= detail.history
      BY DEF PageIsExplained
    <2>1. detail.timeline \in Nat
      BY DEF PageInv, Details
    <2> QED
      BY <2>1 DEF PageInv
  <1> QED
    BY <1>1, <1>2, <1>3, ReaderSpecRefines, Sessions, Evidences, Histories, PTL
    DEF ReaderSpec
=============================================================================
