---------------------------- MODULE IncidentStore ----------------------------
(***************************************************************************)
(* The incident aggregate of backend/app/incidents and its HTTP endpoints  *)
(* (backend/app/api/incidents.py), as concurrent database transactions.    *)
(*                                                                         *)
(* An incident is one row of the table incidents together with the         *)
(* append-only rows that hang from it: evidence memberships, history and   *)
(* audit rows, and report revisions.  Every request runs in a session of   *)
(* its own (db/session.py) at PostgreSQL's READ COMMITTED level: it locks  *)
(* the incident row with SELECT ... FOR UPDATE, checks and computes on the *)
(* copy in its identity map, and its writes become visible at commit.      *)
(*                                                                         *)
(* Two facts about SQLAlchemy that the code depends on are modelled:       *)
(*  - a row that is already in the identity map is not refreshed by a      *)
(*    later SELECT ... FOR UPDATE of it (IdentityMapLoad);                 *)
(*  - an UPDATE writes only the columns whose value was changed, so each   *)
(*    commit below assigns just those fields of the committed row.         *)
(*                                                                         *)
(* Every service function appends its history row, its timeline entry and  *)
(* its audit event, and its endpoint a SOC audit event, in one transaction *)
(* and with the same data.  The model keeps one log entry for all of them. *)
(***************************************************************************)
EXTENDS Integers, Sequences, FiniteSets

CONSTANTS
  Txn,           \* request threads of the backend, one session each
  Key,           \* incident identities (grouping_key_sha256)
  Evidence,      \* stored evidence records
  Run,           \* (simulation_id, configuration_hash) pairs
  RunOf,         \* the run a stored record belongs to, or NoRun
  User,          \* local users a request may name as assignee
  Assignable,    \* the active administrators and analysts among them
  Text,          \* contents of notes and of reports
  Rule,          \* qualification rules
  Request,       \* the requests clients may send
  MaxRequests,   \* bound: how many requests are admitted in a behaviour
  NoTxn, NoKey, NoRow, NoRun, NoUser, NoText, NoRequest

Status      == {"OPEN", "INVESTIGATING", "RESOLVED"}
Severity    == {"LOW", "MEDIUM", "HIGH"}
Disposition == {"UNREVIEWED", "TRUE_POSITIVE", "FALSE_POSITIVE"}
Role        == {"PRIMARY", "SUPPORTING", "CONTEXT"}

\* Membership rows of an incident, by evidence (one row per evidence record).
Memberships == UNION {[S -> Role] : S \in SUBSET Evidence}

(***************************************************************************)
(* A qualified candidate: what qualify_incident makes of verified          *)
(* evidence.  Its memberships are a function from evidence to role; key is *)
(* its identity, boundKey its identity once its scope is its own run.      *)
(***************************************************************************)
Candidate ==
  [key : Key, boundKey : Key, rule : Rule, severity : Severity,
   primary : Evidence, roles : Memberships,
   bound : Run \union {NoRun}]

(***************************************************************************)
(* A request names its operation and the incident; value is the candidate, *)
(* new status, note, assignee, disposition or report text it carries, text *)
(* says of the reason or body that comes with it whether it passes         *)
(* validate_note_text or _bounded_plain_text.  A candidate has one PRIMARY *)
(* membership; its scope is the run of its correlation finding, the only   *)
(* evidence of a candidate that belongs to a run.                          *)
(***************************************************************************)
Mutation == {"status", "note", "assign", "disposition", "report"}

WellFormed(r) ==
  /\ r.key \in Key
  /\ \/ /\ r.op = "qualify"
        /\ r.value \in Candidate
        /\ r.key = r.value.key
        /\ IsFiniteSet(DOMAIN r.value.roles)
        /\ {e \in DOMAIN r.value.roles : r.value.roles[e] = "PRIMARY"} =
             {r.value.primary}
        /\ \A e \in DOMAIN r.value.roles : RunOf[e] \in {NoRun, r.value.bound}
        /\ r.value.bound # NoRun =>
             \E e \in DOMAIN r.value.roles : RunOf[e] = r.value.bound
     \/ /\ r.op \in Mutation
        /\ r.expected \in Nat
        /\ r.text \in {"valid", "missing", "invalid"}
        /\ r.op = "status" => r.value \in Status
        /\ r.op \in {"note", "report"} => r.value \in Text
        /\ r.op = "assign" => r.value \in User \union {NoUser}
        /\ r.op = "disposition" => r.value \in Disposition

ASSUME RequestAssumption == \A r \in Request : WellFormed(r)
ASSUME BoundAssumption   == MaxRequests \in Nat
ASSUME RunAssumption     == RunOf \in [Evidence -> Run \union {NoRun}]
ASSUME UserAssumption    == Assignable \subseteq User

Row ==
  [status : Status, severity : Severity, disposition : Disposition,
   assignee : User \union {NoUser}, version : Nat, evidence_count : Nat,
   primary : Evidence, rule : Rule, bound : Run \union {NoRun}]

ASSUME SentinelAssumption ==
  /\ NoTxn \notin Txn
  /\ NoKey \notin Key
  /\ NoRow \notin Row
  /\ NoRun \notin Run
  /\ NoUser \notin User
  /\ NoText \notin Text
  /\ NoRequest \notin Request

VARIABLES
  row,        \* the committed row of each incident, NoRow before it exists
  members,    \* committed memberships: evidence -> role
  log,        \* committed history, timeline and audit rows, in commit order
  report,     \* the current report: version and text
  revisions,  \* committed report revisions
  lock,       \* who holds the row lock (or the uncommitted insert) of a key
  pc, req, target, copy,  \* each session: where it is, its request, the
                          \* incident it works on, its identity-map copy
  begun       \* how many requests were admitted

vars == <<row, members, log, report, revisions, lock, pc, req, target, copy,
          begun>>
tables == <<row, members, log, report, revisions>>

Empty == [e \in {} |-> "CONTEXT"]

Init ==
  /\ row = [k \in Key |-> NoRow]
  /\ members = [k \in Key |-> Empty]
  /\ log = [k \in Key |-> <<>>]
  /\ report = [k \in Key |-> [version |-> 0, text |-> NoText]]
  /\ revisions = [k \in Key |-> {}]
  /\ lock = [k \in Key |-> NoTxn]
  /\ pc = [t \in Txn |-> "idle"]
  /\ req = [t \in Txn |-> NoRequest]
  /\ target = [t \in Txn |-> NoKey]
  /\ copy = [t \in Txn |-> NoRow]
  /\ begun = 0

-----------------------------------------------------------------------------
(***************************************************************************)
(* Sessions, locks and the identity map                                    *)
(***************************************************************************)
Exists(k) == row[k] # NoRow

\* A PATCH .../status that asks for RESOLVED reads the incident before it
\* locks it; no other request does.
ReadsBeforeLock(r) == r.op = "status" /\ r.value = "RESOLVED"

\* A note or a disposition is refused for its text before anything is read.
RefusedUnread(r) == r.op \in {"note", "disposition"} /\ r.text # "valid"

\* What SELECT ... FOR UPDATE leaves in the identity map of session t.
IdentityMapLoad(t) == IF copy[t] = NoRow THEN row[target[t]] ELSE copy[t]

Free(t) == lock[target[t]] \in {NoTxn, t}

\* Mutant: only the row of the last identity is unlocked.
EndSession_KeepsFirstLock(t) ==
  /\ lock' = [k \in Key |-> IF lock[k] = t /\ k = target[t] THEN NoTxn
                            ELSE lock[k]]
  /\ pc' = [pc EXCEPT ![t] = "idle"]
  /\ req' = [req EXCEPT ![t] = NoRequest]
  /\ target' = [target EXCEPT ![t] = NoKey]
  /\ copy' = [copy EXCEPT ![t] = NoRow]
  /\ UNCHANGED begun

\* The end of a session: commit or rollback, which releases its locks.
EndSession(t) ==
  /\ lock' = [k \in Key |-> IF lock[k] = t THEN NoTxn ELSE lock[k]]
  /\ pc' = [pc EXCEPT ![t] = "idle"]
  /\ req' = [req EXCEPT ![t] = NoRequest]
  /\ target' = [target EXCEPT ![t] = NoKey]
  /\ copy' = [copy EXCEPT ![t] = NoRow]
  /\ UNCHANGED begun

Begin(t) ==
  /\ pc[t] = "idle"
  /\ begun < MaxRequests
  /\ begun' = begun + 1
  /\ \E r \in Request :
       /\ req' = [req EXCEPT ![t] = r]
       /\ target' = [target EXCEPT ![t] = r.key]
       /\ pc' = [pc EXCEPT ![t] = IF r.op = "qualify" THEN "insert"
                                  ELSE IF ReadsBeforeLock(r) THEN "preread"
                                  ELSE "lock"]
  /\ UNCHANGED <<tables, lock, copy>>

\* The readiness check of patch_incident_status: session.get leaves the
\* incident in the identity map; its verdict is only a warning.
PreRead(t) ==
  /\ pc[t] = "preread"
  /\ copy' = [copy EXCEPT ![t] = row[target[t]]]
  /\ pc' = [pc EXCEPT ![t] = "lock"]
  /\ UNCHANGED <<tables, lock, req, target, begun>>

\* Mutant: the row is read without FOR UPDATE.
LockIncident_NoForUpdate(t) ==
  /\ pc[t] = "lock"
  /\ ~RefusedUnread(req[t])
  /\ Exists(target[t])
  /\ copy' = [copy EXCEPT ![t] = IdentityMapLoad(t)]
  /\ pc' = [pc EXCEPT ![t] = "locked"]
  /\ UNCHANGED <<tables, lock, req, target, begun>>

LockIncident(t) ==
  /\ pc[t] = "lock"
  /\ ~RefusedUnread(req[t])
  /\ Exists(target[t])
  /\ Free(t)
  /\ lock' = [lock EXCEPT ![target[t]] = t]
  /\ copy' = [copy EXCEPT ![t] = IdentityMapLoad(t)]
  /\ pc' = [pc EXCEPT ![t] = "locked"]
  /\ UNCHANGED <<tables, req, target, begun>>

\* 404, or 422 for the text of the request.
NotFound(t) ==
  /\ pc[t] = "lock"
  /\ RefusedUnread(req[t]) \/ ~Exists(target[t])
  /\ EndSession(t)
  /\ UNCHANGED tables

\* An exception, a lost connection or a crash before the commit.
Rollback(t) ==
  /\ pc[t] # "idle"
  /\ EndSession(t)
  /\ UNCHANGED tables

-----------------------------------------------------------------------------
(***************************************************************************)
(* Analyst mutations                                                       *)
(***************************************************************************)
AllowedTransition ==
  {<<"OPEN", "INVESTIGATING">>, <<"OPEN", "RESOLVED">>,
   <<"INVESTIGATING", "RESOLVED">>, <<"RESOLVED", "INVESTIGATING">>}

Entry(action, before, after, prev, new) ==
  [action |-> action, before |-> before, after |-> after,
   prev |-> prev, new |-> new, evidence |-> {}]

StatusAccepted(t) ==
  LET r == req[t]
      c == copy[t]
  IN  /\ c.version = r.expected
      /\ <<c.status, r.value>> \in AllowedTransition
      /\ r.text # "invalid"
      /\ (r.value = "RESOLVED" \/ c.status = "RESOLVED") => r.text = "valid"

NoteAccepted(t) == copy[t].version = req[t].expected

AssignAccepted(t) ==
  /\ copy[t].version = req[t].expected
  /\ req[t].value \in Assignable \union {NoUser}

DispositionAccepted(t) == copy[t].version = req[t].expected

ReportAccepted(t) ==
  /\ req[t].text = "valid"
  /\ report[target[t]].version = req[t].expected

Accepted(t) ==
  \/ req[t].op = "status" /\ StatusAccepted(t)
  \/ req[t].op = "note" /\ NoteAccepted(t)
  \/ req[t].op = "assign" /\ AssignAccepted(t)
  \/ req[t].op = "disposition" /\ DispositionAccepted(t)
  \/ req[t].op = "report" /\ ReportAccepted(t)

\* One commit's history row, timeline entry and audit event.
AppendEntry(k, e) == log' = [log EXCEPT ![k] = Append(@, e)]

\* Mutant: the whole copy is written back, not the changed columns.
CommitStatus_WholeRow(t) ==
  LET k == target[t]
      c == copy[t]
      new == req[t].value
  IN  /\ pc[t] = "locked" /\ req[t].op = "status" /\ StatusAccepted(t)
      /\ row' = [row EXCEPT ![k] = [c EXCEPT !.status = new,
                                            !.version = c.version + 1]]
      /\ AppendEntry(k, Entry("STATUS", c.version, c.version + 1, c.status, new))
      /\ EndSession(t)
      /\ UNCHANGED <<members, report, revisions>>

CommitStatus(t) ==
  LET k == target[t]
      c == copy[t]
      new == req[t].value
  IN  /\ pc[t] = "locked" /\ req[t].op = "status" /\ StatusAccepted(t)
      /\ row' = [row EXCEPT ![k].status = new, ![k].version = c.version + 1]
      /\ AppendEntry(k, Entry("STATUS", c.version, c.version + 1, c.status, new))
      /\ EndSession(t)
      /\ UNCHANGED <<members, report, revisions>>

CommitNote(t) ==
  LET k == target[t]
      c == copy[t]
  IN  /\ pc[t] = "locked" /\ req[t].op = "note" /\ NoteAccepted(t)
      /\ row' = [row EXCEPT ![k].version = c.version + 1]
      /\ AppendEntry(k, Entry("NOTE", c.version, c.version + 1, NoText,
                          req[t].value))
      /\ EndSession(t)
      /\ UNCHANGED <<members, report, revisions>>

CommitAssignment(t) ==
  LET k == target[t]
      c == copy[t]
      new == req[t].value
  IN  /\ pc[t] = "locked" /\ req[t].op = "assign" /\ AssignAccepted(t)
      /\ row' = [row EXCEPT ![k].assignee = new, ![k].version = c.version + 1]
      /\ AppendEntry(k, Entry("ASSIGN", c.version, c.version + 1, c.assignee, new))
      /\ EndSession(t)
      /\ UNCHANGED <<members, report, revisions>>

CommitDisposition(t) ==
  LET k == target[t]
      c == copy[t]
      new == req[t].value
  IN  /\ pc[t] = "locked" /\ req[t].op = "disposition" /\ DispositionAccepted(t)
      /\ row' = [row EXCEPT ![k].disposition = new,
                            ![k].version = c.version + 1]
      /\ AppendEntry(k, Entry("DISPOSITION", c.version, c.version + 1,
                          c.disposition, new))
      /\ EndSession(t)
      /\ UNCHANGED <<members, report, revisions>>

\* Mutant: saving an unchanged text adds no revision.
CommitReport_SkipsSameText(t) ==
  LET k == target[t]
      next == report[k].version + 1
  IN  /\ pc[t] = "locked" /\ req[t].op = "report" /\ ReportAccepted(t)
      /\ report' = [report EXCEPT ![k] = [version |-> next,
                                          text |-> req[t].value]]
      /\ revisions' = [revisions EXCEPT ![k] =
                         IF report[k].text = req[t].value THEN @
                         ELSE @ \union {[version |-> next,
                                         text |-> req[t].value]}]
      /\ AppendEntry(k, Entry("REPORT", copy[t].version, copy[t].version, NoText,
                          req[t].value))
      /\ EndSession(t)
      /\ UNCHANGED <<row, members>>

\* A report has a version of its own; the incident's is left alone.
CommitReport(t) ==
  LET k == target[t]
      next == report[k].version + 1
  IN  /\ pc[t] = "locked" /\ req[t].op = "report" /\ ReportAccepted(t)
      /\ report' = [report EXCEPT ![k] = [version |-> next,
                                          text |-> req[t].value]]
      /\ revisions' = [revisions EXCEPT ![k] =
                         @ \union {[version |-> next, text |-> req[t].value]}]
      /\ AppendEntry(k, Entry("REPORT", copy[t].version, copy[t].version, NoText,
                          req[t].value))
      /\ EndSession(t)
      /\ UNCHANGED <<row, members>>

\* The primary key of a status or note row is derived (uuid5) from what it
\* records and from the name of its author.
Recorded(k, action, before, prev, new) ==
  \E i \in 1..Len(log[k]) :
    /\ log[k][i].action = action
    /\ log[k][i].before = before
    /\ log[k][i].prev = prev
    /\ log[k][i].new = new

\* The same author recorded the same before: the database refuses the key.
\* (By another author, the row is a new one and the commit goes through.)
DuplicateKey(t) ==
  LET c == copy[t]
      r == req[t]
  IN  /\ pc[t] = "locked"
      /\ \/ /\ r.op = "status" /\ StatusAccepted(t)
            /\ Recorded(target[t], "STATUS", c.version, c.status, r.value)
         \/ /\ r.op = "note" /\ NoteAccepted(t)
            /\ Recorded(target[t], "NOTE", c.version, NoText, r.value)
      /\ EndSession(t)
      /\ UNCHANGED tables

Reject(t) ==
  /\ pc[t] = "locked"
  /\ ~Accepted(t)
  /\ EndSession(t)
  /\ UNCHANGED tables

-----------------------------------------------------------------------------
(***************************************************************************)
(* Qualification of stored evidence (qualify_stored_evidence)              *)
(***************************************************************************)
Rank == [s \in Severity |-> CASE s = "LOW" -> 1 [] s = "MEDIUM" -> 2
                              [] s = "HIGH" -> 3]

SeverityIncreases(current, proposed) == Rank[proposed] > Rank[current]

\* One record decides how severe a candidate is: the correlation finding if it
\* matched, else the policy finding (_qualify_s3).  No candidate that
\* holds this record is less severe.
Decides(e, c) ==
  /\ e \in DOMAIN c.roles
  /\ \A r \in Request :
       r.op = "qualify" /\ e \in DOMAIN r.value.roles =>
         ~SeverityIncreases(r.value.severity, c.severity)

ASSUME SeverityAssumption ==
  \A r \in Request : r.op = "qualify" => \E e \in Evidence : Decides(e, r.value)

\* INSERT ... ON CONFLICT DO NOTHING: the rows of g that f does not have.
OnConflictDoNothing(f, g) ==
  [e \in DOMAIN f \union DOMAIN g |-> IF e \in DOMAIN f THEN f[e] ELSE g[e]]

RequiresSeparateBoundScope(incident, c) ==
  /\ c.bound # NoRun
  /\ incident.bound # NoRun
  /\ incident.bound # c.bound

\* _bind_s3_scope refuses to bind an incident to a second run.
MixesRuns(incident, c) ==
  c.bound # NoRun /\ incident.bound \notin {NoRun, c.bound}

\* The INSERT wins the unique grouping key; until this session ends, another
\* INSERT of the key waits for it.
InsertIncident(t) ==
  /\ pc[t] \in {"insert", "insertBound"}
  /\ ~Exists(target[t])
  /\ Free(t)
  /\ lock' = [lock EXCEPT ![target[t]] = t]
  /\ pc' = [pc EXCEPT ![t] = "created"]
  /\ UNCHANGED <<tables, req, target, copy, begun>>

\* The key exists: lock the row.  An unbound-scope incident that is already
\* bound to another run sends the candidate to an incident of its own run,
\* with the first row still locked.
LoadIncident(t) ==
  /\ pc[t] \in {"insert", "insertBound"}
  /\ Exists(target[t])
  /\ Free(t)
  /\ lock' = [lock EXCEPT ![target[t]] = t]
  /\ IF /\ pc[t] = "insert"
        /\ RequiresSeparateBoundScope(row[target[t]], req[t].value)
     THEN /\ target' = [target EXCEPT ![t] = req[t].value.boundKey]
          /\ pc' = [pc EXCEPT ![t] = "insertBound"]
          /\ UNCHANGED copy
     ELSE /\ copy' = [copy EXCEPT ![t] = row[target[t]]]
          /\ pc' = [pc EXCEPT ![t] = "enrich"]
          /\ UNCHANGED target
  /\ UNCHANGED <<tables, req, begun>>

NewRow(c) ==
  [status |-> "OPEN", severity |-> c.severity, disposition |-> "UNREVIEWED",
   assignee |-> NoUser, version |-> 1,
   evidence_count |-> Cardinality(DOMAIN c.roles),
   primary |-> c.primary, rule |-> c.rule, bound |-> c.bound]

CommitCreation(t) ==
  LET k == target[t]
      c == req[t].value
  IN  /\ pc[t] = "created"
      /\ row' = [row EXCEPT ![k] = NewRow(c)]
      /\ members' = [members EXCEPT ![k] = c.roles]
      /\ log' = [log EXCEPT ![k] = Append(@, Entry("CREATED", 0, 1, "NONE",
                                                   c.severity))]
      /\ EndSession(t)
      /\ UNCHANGED <<report, revisions>>

\* Mutant: the roles of a candidate are taken as they are.
EffectiveRoles_NoDemotion(incident, c) == c.roles

\* A PRIMARY membership of a candidate is SUPPORTING in an incident that was
\* created from other evidence.
EffectiveRoles(incident, c) ==
  [e \in DOMAIN c.roles |->
     IF c.roles[e] = "PRIMARY" /\ e # incident.primary THEN "SUPPORTING"
     ELSE c.roles[e]]

Inserted(k, c) == DOMAIN c.roles \ DOMAIN members[k]

\* Mutant: the incident is never bound to the run.
BindingChanged_Never(incident, c) == FALSE

BindingChanged(incident, c) == c.bound # NoRun /\ incident.bound = NoRun

Changes(k, incident, c) ==
  \/ Inserted(k, c) # {}
  \/ BindingChanged(incident, c)
  \/ SeverityIncreases(incident.severity, c.severity)

\* The log rows of one enrichment: the added evidence, then the escalation.
EnrichmentEntries(k, incident, c) ==
  LET v == incident.version
  IN  (IF Inserted(k, c) = {} THEN <<>>
       ELSE <<[Entry("ENRICHED", v, v + 1, "NONE", "NONE")
                 EXCEPT !.evidence = Inserted(k, c)]>>)
      \o (IF SeverityIncreases(incident.severity, c.severity)
          THEN <<Entry("SEVERITY", v, v + 1, incident.severity, c.severity)>>
          ELSE <<>>)

\* Mutant: memberships that were already there are counted again.
EnrichedRow_CountsAll(r, k, incident, c) ==
  [r EXCEPT
     !.version = incident.version + 1,
     !.evidence_count = incident.evidence_count + Cardinality(DOMAIN c.roles),
     !.bound = IF BindingChanged(incident, c) THEN c.bound ELSE @,
     !.severity = IF SeverityIncreases(incident.severity, c.severity)
                  THEN c.severity ELSE @]

\* Mutant: the severity of the candidate replaces that of the incident.
EnrichedRow_SetsSeverity(r, k, incident, c) ==
  [r EXCEPT
     !.version = incident.version + 1,
     !.evidence_count = incident.evidence_count + Cardinality(Inserted(k, c)),
     !.bound = IF BindingChanged(incident, c) THEN c.bound ELSE @,
     !.severity = c.severity]

\* Mutant: an escalation stores a value that no severity has.
EnrichedRow_Escalated(r, k, incident, c) ==
  [EnrichedRow_CountsAll(r, k, incident, c) EXCEPT
     !.severity = IF SeverityIncreases(incident.severity, c.severity)
                  THEN "ESCALATED" ELSE @]

\* The columns of the row r that an enrichment writes.
EnrichedRow(r, k, incident, c) ==
  [r EXCEPT
     !.version = incident.version + 1,
     !.evidence_count = incident.evidence_count + Cardinality(Inserted(k, c)),
     !.bound = IF BindingChanged(incident, c) THEN c.bound ELSE @,
     !.severity = IF SeverityIncreases(incident.severity, c.severity)
                  THEN c.severity ELSE @]

CommitEnrichment(t) ==
  LET k == target[t]
      c == req[t].value
      i == copy[t]
  IN  /\ pc[t] = "enrich"
      /\ i.rule = c.rule
      /\ ~MixesRuns(i, c)
      /\ Changes(k, i, c)
      /\ row' = [row EXCEPT ![k] = EnrichedRow(@, k, i, c)]
      /\ members' = [members EXCEPT ![k] =
           OnConflictDoNothing(@, EffectiveRoles(i, c))]
      /\ log' = [log EXCEPT ![k] = @ \o EnrichmentEntries(k, i, c)]
      /\ EndSession(t)
      /\ UNCHANGED <<report, revisions>>

\* "existing", or the error of a foreign rule or run: nothing is written.
EnrichmentWithoutEffect(t) ==
  LET c == req[t].value
      i == copy[t]
  IN  /\ pc[t] = "enrich"
      /\ i.rule # c.rule \/ MixesRuns(i, c) \/ ~Changes(target[t], i, c)
      /\ EndSession(t)
      /\ UNCHANGED tables

-----------------------------------------------------------------------------
Quiesce ==
  /\ begun = MaxRequests
  /\ \A t \in Txn : pc[t] = "idle"
  /\ UNCHANGED vars

\* What the backend does by itself once a request was admitted.
Step(t) ==
  \/ PreRead(t) \/ LockIncident(t) \/ NotFound(t)
  \/ CommitStatus(t) \/ CommitNote(t) \/ CommitAssignment(t)
  \/ CommitDisposition(t) \/ CommitReport(t) \/ Reject(t)
  \/ DuplicateKey(t)
  \/ InsertIncident(t) \/ LoadIncident(t) \/ CommitCreation(t)
  \/ CommitEnrichment(t) \/ EnrichmentWithoutEffect(t)

Next ==
  \/ \E t \in Txn : Begin(t) \/ Step(t) \/ Rollback(t)
  \/ Quiesce

Spec == Init /\ [][Next]_vars

\* A request thread that can move does move; Rollback is never required.
FairSpec == Spec /\ \A t \in Txn : WF_vars(Step(t))

-----------------------------------------------------------------------------
(***************************************************************************)
(* Properties                                                              *)
(***************************************************************************)
LogEntry ==
  [action : {"CREATED", "STATUS", "NOTE", "ASSIGN", "DISPOSITION", "REPORT",
             "ENRICHED", "SEVERITY"},
   before : Nat, after : Nat,
   prev : Status \union Severity \union Disposition \union User
            \union {NoUser, NoText, "NONE"},
   new : Status \union Severity \union Disposition \union User \union Text
           \union {NoUser, "NONE"},
   evidence : SUBSET Evidence]

Revision == [version : Nat \ {0}, text : Text]

Location == {"idle", "preread", "lock", "locked", "insert", "insertBound",
             "created", "enrich"}

\* Every variable has its type: rows, memberships and logs are well formed,
\* and an admitted request works on an incident key.
TypeOK ==
  /\ row \in [Key -> Row \union {NoRow}]
  /\ members \in [Key -> Memberships]
  /\ log \in [Key -> Seq(LogEntry)]
  /\ report \in [Key -> [version : Nat, text : Text \union {NoText}]]
  /\ revisions \in [Key -> SUBSET Revision]
  /\ lock \in [Key -> Txn \union {NoTxn}]
  /\ pc \in [Txn -> Location]
  /\ req \in [Txn -> Request \union {NoRequest}]
  /\ target \in [Txn -> Key \union {NoKey}]
  /\ copy \in [Txn -> Row \union {NoRow}]
  /\ begun \in 0..MaxRequests

\* The denormalised evidence_count of an incident equals the number of its
\* membership rows, however creations, enrichments, status changes and
\* rollbacks of concurrent sessions interleave (service.py adds to it under
\* the row lock only).
EvidenceCountExact ==
  \A k \in Key :
    Exists(k) => row[k].evidence_count = Cardinality(DOMAIN members[k])

\* An incident has one PRIMARY membership and it is the primary evidence of
\* the row, also when candidates that name another primary are merged into
\* it: _enrich_incident demotes theirs.
OnePrimary ==
  \A k \in Key :
    Exists(k) => {e \in DOMAIN members[k] : members[k][e] = "PRIMARY"}
                   = {row[k].primary}

\* Evidence of two simulation runs never meets in one incident, and an
\* incident that holds evidence of a run is bound to that run
\* (_requires_separate_bound_scope, _bind_s3_scope).
RunsNeverMix ==
  \A k \in Key : \A e \in DOMAIN members[k] :
    RunOf[e] \in {NoRun, row[k].bound}

\* An incident that holds all the evidence of a candidate which groups to it
\* is at least as severe as that candidate: no interleaving loses an
\* escalation (severity_increases under the row lock).
SeverityCoversEvidence ==
  \A r \in Request : \A k \in Key :
    (/\ r.op = "qualify"
     /\ k \in {r.value.key, r.value.boundKey}
     /\ Exists(k)
     /\ DOMAIN r.value.roles \subseteq DOMAIN members[k])
    => ~SeverityIncreases(row[k].severity, r.value.severity)

\* Where the last entry of an action is among the first n of s, if any.
LastOf(s, n, action) ==
  {i \in 1..n : /\ s[i].action = action
                /\ \A j \in (i + 1)..n : s[j].action # action}

\* The value an incident has after the first n entries of s: that of the last
\* entry of the action, or the initial one.
ValueAt(s, last, initial) == IF last = {} THEN initial ELSE s[CHOOSE i \in last : TRUE].new
ValueAfter(s, n, action, initial) == ValueAt(s, LastOf(s, n, action), initial)

\* The entries of an action chain from initial to current: each starts where
\* the previous one ended and the last one ends in the value of the row.
Chained(s, action, initial, current) ==
  /\ \A n \in 1..Len(s) :
       s[n].action = action => s[n].prev = ValueAfter(s, n - 1, action, initial)
  /\ current = ValueAfter(s, Len(s), action, initial)

\* The recorded history of assignee, disposition and severity explains the
\* value in the row.  This needs more than the lock: a resolve with a stale
\* copy must not write those columns back.
HistoryExplainsRow ==
  \A k \in Key : Exists(k) =>
    /\ Chained(log[k], "ASSIGN", NoUser, row[k].assignee)
    /\ Chained(log[k], "DISPOSITION", "UNREVIEWED", row[k].disposition)
    /\ Chained(log[k], "SEVERITY", log[k][1].new, row[k].severity)

\* Saved report revisions are numbered 1, 2, ... without gap or repetition
\* and the current report is the newest of them (save_incident_report).
ReportIsNewestRevision ==
  \A k \in Key :
    /\ {v.version : v \in revisions[k]} = 1..report[k].version
    /\ Cardinality(revisions[k]) = report[k].version
    /\ report[k].version > 0 => report[k] \in revisions[k]

\* A commit that appends to the log of an existing incident.
Appends(k) == Exists(k) /\ Len(log'[k]) > Len(log[k])
Appended(k) == log'[k][Len(log[k]) + 1]
IsResolve(e) == e.action = "STATUS" /\ e.new = "RESOLVED"

FollowsTheRow(k) ==
  Appends(k) /\ ~IsResolve(Appended(k)) =>
    /\ Appended(k).before = row[k].version
    /\ row'[k].version = row[k].version
                           + (IF Appended(k).action = "REPORT" THEN 0 ELSE 1)

\* Every accepted change other than a resolve was computed from the committed
\* version: its version_before is the version the row had just before the
\* commit, and the version advances by one (a saved report leaves it alone).
ChangesFollowTheRow == [][\A k \in Key : FollowsTheRow(k)]_vars

\* What transition_incident_status promises of every status change: one that
\* was computed from a version which is not the current one is refused.
StaleTransitionRejected ==
  [][\A k \in Key :
       Appends(k) /\ Appended(k).action = "STATUS" =>
         Appended(k).before = row[k].version]_vars

\* Every admitted request comes to an end: no two sessions wait for each
\* other's row locks, though a qualification may hold two of them.
EveryRequestEnds == \A t \in Txn : pc[t] # "idle" ~> pc[t] = "idle"
=============================================================================
