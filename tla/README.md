# A verification project for OT-SOC-Fusion-X

OT-SOC-Fusion-X is a FastAPI and PostgreSQL backend with a React frontend. It
ingests evidence about a simulated liquid-transfer process, evaluates a
communication policy and process correlations over it, groups what qualifies
into incidents, and lets analysts work on them. A *Synthetic Scenario Lab*
executes frozen scenarios and selects which run the product pages show.

This directory holds TLA+ models of the parts that keep shared state and of the
algorithms that decide something, TLC configurations that check them on small
instances, and TLAPS proofs for instances of any size about incidents, the lab,
users and sessions, the evidence store and its readers, the plant and the
correlations found in it, the decoder and policy, and the report editors.
`PROJECT.json` maps every definition to the lines it models and lists
components, runs, hazards and theorems.

## Inventory

| Component | State | Operations | Interacts with |
|---|---|---|---|
| Incidents (`incidents/`, `api/incidents.py`) | row per grouping key with an aggregate version; append-only memberships, timeline, status and severity history, notes, audit; reports with revisions | qualify stored evidence (create, enrich, bind to a run, escalate), change status, note, assign, set disposition, save report | evidence store (reads records), local users (assignee, actor), lab (pipeline) |
| Qualification (`qualification.py`, `memberships.py`, `identity.py`, `grouping.py`) | none | verify lineage, apply rules S1-S4, derive the grouping identity | its candidates are the input of incidents |
| Scenario Lab (`lab/`, `api/lab.py`, `main.py`) | runs with state and failure code, associations, the singleton active context, SOC audit events | start, execute, complete, fail, return to Baseline, reset, recover at start-up | executes the pipeline, which commits evidence and incidents in sessions of its own |
| Authentication and users (`auth/`, `api/auth.py`) | users with role, active flag and version; sessions with expiry, revocation and CSRF digest | log in and out, read session, create and update users, reset password | every endpoint depends on a principal |
| Evidence store (`evidence/`) | append-only records with a unique identity and a hash | ingest, list by keyset cursor, verify integrity | read by qualification, product and lab |
| Correlation (`correlation/`) | none (pure evaluation, findings are evidence) | S3 and S4 windows, baselines, decisions | policy findings and telemetry in, correlation findings out |
| Simulator (`simulation/`) | plant state per step | step, scenario overlays, clamps | produces telemetry |
| Protocol decoder and policy (`protocols/`, `context/`) | none | decode frames, resolve assets, evaluate the policy | produces semantic events and policy findings |
| Product and replay (`product/`, `incidents/repository.py`) | none | overview, listings, replay order | reads committed rows of the active run |
| Frontend (`frontend/src`) | auth, lab and page state | requests, late responses, editors | the HTTP API |
| Sessions and migrations (`db/`, `alembic/`) | connection, transaction, locks | begin, commit, rollback | all of the above |

### What is hard here

- Every request thread is a READ COMMITTED transaction. Correctness rests on
  `SELECT ... FOR UPDATE`, on unique keys with `ON CONFLICT DO NOTHING`, and on
  SQLAlchemy's identity map, which does *not* refresh a row it already holds.
- Version checks happen on that copy, not on the row.
- A qualification may hold the locks of two incidents.
- The lab pipeline commits in several transactions; the backend may die between
  any two of them and recovers when it starts.
- Checks and the statements that rely on them are separate (start, reset,
  login against revocation).
- A response leaves before the session of its request commits, so a client may
  act on something that is then rolled back.
- Evidence is derived in several transactions by more than one program; a case
  that is run again meets its own records and must agree with them.
- Readers take no lock and page through lists that change under them.
- Correlation decides on windows whose edges, gaps and late samples matter to
  the second, over a plant whose tanks can run empty or full within a step.
- Authentication loads the acting user into the same database session that the
  mutation uses, so a change of one's own account sees an old copy.

The `hazards` list of `PROJECT.json` places each of these at its line.

### What makes each component correct

- *Incidents*: the denormalised count equals the memberships; one primary; no
  two runs in one incident; escalations are not lost; every change is computed
  from the current version, is recorded, and the recorded history explains the
  row; every request ends.
- *Lab*: the active context always refers to a completed run with all its
  products; one execution at a time; a selection
  is never lost; audit and outcome agree; after a crash the backend serves
  again from the Baseline.
- *Authentication*: no session that exists when a deactivation or a password
  reset commits outlives it (a login that overlaps the change is not covered);
  there is always an active administrator; user versions follow the row and the
  audit trail explains it; requests that lock each other's users end.
- *Evidence*: one content per identity, nothing changes after it is stored, no
  record without its parents, a rerun does not conflict with itself; a replay is
  complete and in the order of derivation; paging shows every item once.
- *Simulator and correlation*: no liquid appears or vanishes; what is found
  correlated has a cause in the plant, what happens is found, and a finding
  stands when later telemetry arrives.
- *Decoder and policy*: a communication is approved exactly if the raw event
  deserves it, and otherwise for the applying reason the contract ranks first.
- *Pages and editors*: a page is never ahead of the history it shows; nobody
  overwrites a report they were not shown.

## Modules

| Module | What it is |
|---|---|
| `IncidentStore` | the incident aggregate as concurrent transactions |
| `IncidentQualification` | qualification rules and identity as pure operators |
| `MCIncident` | instances for TLC; candidates are computed from findings by `IncidentQualification` |
| `IncidentProofs` | session invariant and type correctness; count, primary, run binding and severity; optimistic locking, history, reports and the incident page |
| `IncidentReader`, `MCIncidentReader` | the incident page, read without a lock beside the writers of `IncidentStore` |
| `ReportEditing`, `MCReportEditing` | the report editors of two browser tabs and the requests they send |
| `ReportEditingProofs` | no blind overwrite |
| `EvidenceRecords` | what a record of evidence is: its identity, content and parents |
| `EvidenceLog` | the abstract specification: an append-only log closed under parents |
| `EvidenceStore` | the evidence table: ingestion, waits, outcomes and keyset pages |
| `EvidencePipeline`, `MCEvidence` | the programs that fill the store, and its readers; implements `EvidenceLog` |
| `EvidenceProofs` | the store implements `EvidenceLog`; receipts and waits |
| `EvidenceReaderProofs` | walks through lists, reruns and replays |
| `PlantSimulator` | the plant, its step, noise and scenarios, in scaled integers |
| `Correlation` | the rules S3 and S4 as operators over telemetry |
| `PlantDetection`, `MCDetection` | the plant composed with the evaluator |
| `PlantProofs` | physical ranges and conservation; what a correlation rests on, and that it stands |
| `ProtocolDecoder` | `decode_event` and the frozen protocol profile |
| `PolicyContext`, `MCPolicy` | identity resolution and policy evaluation of a decoded event |
| `PolicyProofs` | what is approved and why it is not |
| `ScenarioLab`, `MCLab` | the lab and the life of the backend |
| `LabProofs` | executor, active run, audit, context and start |
| `AuthSessions`, `MCAuth` | local users, their sessions and their administration |
| `AuthProofs` | administrators, trail, revocation and versions |

### IncidentStore

The tables are `row` (the columns of `incidents` that decide something),
`members`, `log`, `report` and `revisions`. One log entry stands for the
history row, the timeline entry and the audit events of one commit, which
always carry the same data. A session has a program counter `pc`, its request,
the incident it works on and `copy`, its identity-map copy of the row. `lock`
is the row lock of a key and, before the row exists, the wait of a second
`INSERT` for the first.

| Action | Code |
|---|---|
| `Begin` | a request reaches its endpoint |
| `PreRead` | the readiness check of `patch_incident_status` for RESOLVED: `session.get` puts the incident in the identity map |
| `LockIncident`, `NotFound` | `SELECT ... FOR UPDATE` of the five mutations; 404, or 422 for a text that is refused before the row is read |
| `CommitStatus`, `CommitNote`, `CommitAssignment`, `CommitDisposition`, `CommitReport` | the five mutations from their checks to the commit of the session |
| `Reject` | a stale version, a forbidden transition, a missing reason, an unsuitable assignee |
| `DuplicateKey` | the uuid5 primary key of a status or note row is taken: possible when a stale resolve repeats a version |
| `InsertIncident`, `LoadIncident` | `_insert_or_load_incident`, for the first identity and for the one of the candidate's own run |
| `CommitCreation`, `CommitEnrichment`, `EnrichmentWithoutEffect` | `_record_creation`, `_enrich_incident`, and its "existing" and error outcomes |
| `Rollback` | any exception, lost connection or crash before the commit |

Columns that nothing decides on (observation times, context labels, asset
lists, titles) are left out. Writes appear at commit only, and each commit
assigns just the columns the code changes, as the UPDATE does.

### IncidentReader

`get_incident_detail` reads the row, then the memberships, then the timeline,
then the histories and notes, each statement at its own moment. The order is
what makes the page usable: what stands below may be newer than the header, and
never older. The log of `IncidentStore` only grows, so a statement that reads it
is kept as the length it saw.

### ReportEditing

`IncidentReportEditor`, `useApiResource` and the client on one side, GET and PUT
of the report on the other. The framework leaves the dependency that owns the
session after it has sent the answer, so `Accept` (flush and answer) and
`Commit` are two steps with the row lock held between them. `LoseAnswer`,
`SaveFails`, `LoadFails` and `CommitFails` are the faults. What is typed while a
save is under way is replaced by the answer (`ShowSaved`), as in the code.

`NoBlindOverwrite` names its exception: an editor that was told of a save whose
commit then failed holds a version number that may later belong to another
text, and its next save passes the version test.

### Evidence: records, log, store, pipeline

A record is its kind, schema version, key, body, parents, scope (run and
configuration) and time of observation. Digests are not computed: two records
have the same digest if they are the same. `rows` are the committed rows,
`pending` those of each open transaction. `Ingest` waits while another open
transaction has inserted the same identity; `Outcome` then says accepted,
duplicate, conflict, unknown source or too large.

`EvidencePipeline` runs *cases* over the store. `Plan` lists the transactions of
a case as `persist_policy_chain` and `persist_correlation_chain` make them: raw;
semantic; context and finding; each sample of telemetry; the correlation;
qualification; and for the lab the links to its run and the activation. The lab,
an operator's tool and a client of POST run cases at the same time. A crash
undoes the open transaction and leaves what was committed.

- A receipt `accepted` is sent before the commit and may turn out to be wrong;
  `duplicate_existing` may not, which is what `DuplicateReceiptIsStored` says.
- A finding about mixed configurations is bound to its run but to no
  configuration, so its replay rejects its own telemetry and is PARTIAL:
  `ReplayIsComplete` excepts it.
- An incident that grows during a walk moves in the list and may be skipped;
  it is never shown twice. `WalkIsExact` asks for the items that stay as they
  are, and in the scope CURRENT only while the active run stays the same.
- The evidence of the Baseline run itself, `replay_for_window` and the overview
  counters are left out.

### PlantSimulator, Correlation, PlantDetection

Integers stand for the decimals of the code: flow in 1/400 m3/h, pressure in
1e-4 bar, a tank of 1000 m3 as 1.44e9 (so that a second of flow is subtracted
exactly), valve and pump in 0.1 %, temperature in 1e-4 degrees. Divisions round
down. `Step` is one second: scenarios switch, pump and valve are held or
throttled, flow is limited to what a tank still has or can still take, flow and
pressure follow with their lags, and a reading with noise is emitted.

A selection of telemetry is the set of its samples: `canonical_telemetry` sorts
what it is given and drops what is there twice, and `validate_run_consistency`
has found the times distinct before any rule looks at an order.
`Correlation` follows `evaluate_correlation` in its order of refusals: version,
digest and rule; verified parents; run consistency; asset and point relations;
then within the rule the end of the window, missing points, samples, gaps, a
stable baseline, and the match. Gaps are looked for inside the baseline and effect
windows only. `PlantDetection` evaluates the telemetry so far after every
second, with samples lost, or with one that belongs elsewhere.

Some things TLC had to teach the properties, all visible in the code. S4 is also
CORRELATED when a tank runs out while S3 throttles the valve, and an S3 that
does without the valve position cannot tell S3 from S4 or from an empty tank.
The valve rule of S3 looks for a position and not for a change, so it says
nothing about a plant that has its valve there anyway (`OwnValveDiffers`). And
in a plant with a valve that S3 opens rather than throttles, the end of S3 looks
like S4 if the sample of just that second is lost; the part of
`FlowFindingHasCause` about S4 is for plants whose valve S3 closes.
`LatestS3Start` is tight: one second later and the persistence of five samples
no longer fits in the window.

### ProtocolDecoder, PolicyContext

`DecodeEvent` and `EvaluatePolicy` are lists of checks in the order of the early
returns, each the answer it returns or `None` if it lets the event pass; the
first that is not `None` wins. Points, assets, paths and
rules are those of the JSON profiles in the repository. Names, units, decimal
formatting and the record of satisfied dimensions are left out.

`ApprovalIsJustified` says of the raw event what approval takes, without the
decoder or the order of checks. `ReasonFollowsPrecedence` compares the early
returns with the constant `REASON_PRECEDENCE` and `select_primary_reason`, which
no code calls. `Candidates` collects every reason that applies; that a write is
refused is a matter of the point and needs no path, zones, protocols and rules
belong to one. The two orders differ, so the property is violated, and
`OnlyUngovernedWriteDiffers` says where: only for a refused write between assets
that no governed path joins. In the frozen inventory every asset is enabled and
every path joins the zones its assets are in, so the branches for disabled
assets and unexpected zones or protocols are never taken.

### ScenarioLab

`runs`, `scenario` and `code` are the columns of `lab_runs`; `links` the
association tables; `stored` what the pipeline has committed; `audit` the kinds
of audit event written about a run; `context` the singleton row. Request
threads and the process `Boot` (the lifespan of `main.py`) share `_execute_run`
and `_activate_run`. `Crash` stops everything, `PipelineFails` is an exception
in the execution, `LoseConnection` a request that ends without being able to
record anything.

The setting that enables the start-up recovery is chosen once and kept over
restarts. One backend process is modelled: the container starts a single
uvicorn process.

### AuthSessions

`users` and `sessions` are the tables, `trail` the audit events about the
account of a user, each with the values its details name: LOCAL_USER_CREATED
names role and active flag, LOCAL_USER_UPDATED these and the version,
LOCAL_USER_PASSWORD_RESET the version. The field `issued` of a session is
history and no column: what the user row held at the INSERT. A thread
authenticates first; `copy` is what that read put in its identity map, and `target` is what the statement at the start of a change
returned: the copy again if the user changes themselves, the locked row
otherwise (`TargetCopy`).

| Action | Code |
|---|---|
| `Begin` | a request is admitted |
| `ReadCredentials`, `IssueSession`, `DenyLogin` | `authenticate_and_create_session`: the read, the slow password check, then the INSERT of the session or of the audit event, and the commit |
| `Authenticate`, `Unauthorized` | `require_authenticated` and the permission check |
| `Logout`, `Expire` | `revoke_session`; the time of expiry passes |
| `CheckName`, `NameTaken`, `CreateUser` | `create_local_user` and its unique name |
| `SelectAdmins`, `LockAdmin`, `AdminsLocked` | the statement that locks all active administrators, one row after the other; a row it waited for is tested again |
| `LockTarget`, `UserNotFound`, `RejectChange`, `RevokeSessions`, `CommitChange` | the rest of `update_local_user` and `reset_local_user_password` |
| `Rollback`, `DeadlockVictim` | an exception or a lost connection; the database aborts a thread of a waiting cycle |

Every INSERT that refers to a user (a session, an audit event) waits while
another transaction has that user FOR UPDATE. So no session slips in between
the revocation statement of a change and its commit, and two administrators who
reset each other can deadlock. The INSERT does not look at the user again when
the wait is over: a login that read the user before a reset or a deactivation
inserts its session right after it (`IssueSession` from a stale `copy`).
The revocation statement has not seen that session and `require_authenticated`
does not compare it with `password_changed_at`, so after a reset it is valid;
after a deactivation it is refused while the user is inactive and valid if the
user is activated again before it expires. The claim that no valid session was
opened with a password that is no longer current is therefore false of this
code, and `RevocationComplete` does not make it: it speaks of the sessions
inserted before the change committed.

The details of an audit event come from the copy of the request, while the
UPDATE writes only the columns that differ from it. `TrailExplainsUsers`
compares the two: the last event that names a field names the value of the row.
Of an event users write about themselves, from a copy that may be stale, nothing
is said, but such a change must not undo what others have changed and recorded.
Row locks of sessions are left out: a logout that meets a revocation waits for
the user row anyway, and if the database aborts it the outcome is `Rollback`.

## Runs

| Run | Instance | What it shows |
|---|---|---|
| `IncidentGrouping` | 3 sessions, 4 requests; denied, approved, weak and matching S3 evidence of two runs, and an analyst's five mutations of the incident they share | creation races, merges in every order, binding and redirection to a second identity keep count, primary, run, severity and recorded severity right; every admitted request ends, also with two locks held |
| `IncidentWorkflow` | 2 sessions, 4 requests and a reader; every mutation with current and stale versions, missing and refused texts, two candidates of one incident | a page is never ahead of the history below it; row, version, report and history stay consistent; no change other than a resolve is computed from a stale version |
| `IncidentStaleResolve` | 2 sessions, 4 requests | **violated**: a resolve accepts a stale version |
| `Lab` | 2 threads, 3 requests, 2 faults, 2 run identities | active context, single execution, audit and recovery; interrupted runs end, the backend serves again, requests are answered |
| `LabReset` | 2 threads, 3 requests, no fault | **violated**: a reset takes effect during a run |
| `Auth` | 2 administrators and a third name, 2 threads, 3 requests that demote, disable, activate, reset, create, log in and log out | an active administrator remains, the audit trail explains every user row, a change of another user follows the committed version, an unrevoked session was inserted after the last reset or deactivation, every request ends although rows are wanted in either order |
| `AuthStaleSelf` | as `Auth` | **violated**: a change of one's own account accepts a stale version |
| `Detection` | 15 plants and schedules (at rest, cold, source almost empty, receiving tank almost full, noisy), 14 requests, 4 patterns of loss, 4 kinds of foreign sample, up to 75 s | inventory is conserved; a correlation has a cause and no foreign sample; the thresholds tell a scenario that lasts from the plant's own changes of flow; a correlation stands |
| `EvidencePipeline` | lab, tool and POST client; 2 cases, 1 crash, pages of 2 | the store implements `EvidenceLog`; reruns do not conflict with themselves; replays are complete and ordered; pages are exact; nobody waits for somebody who waits |
| `PolicyDecision` | all combinations of function, table, address and value at and around the edges of the profile, with 7 source and 4 target claims | approval exactly if deserved, otherwise the reason ranked first, but for refused writes on ungoverned paths |
| `PolicyPrecedence` | as `PolicyDecision` | **violated**: a refused write on an ungoverned path is given a reason that is not the one ranked first |
| `ReportEditing` | 2 tabs, 2 texts, 3 opens, 3 saves, 2 faults | no analyst overwrites a text they were not shown |

*Bounds.* `MaxRequests` caps admitted requests. A conflict needs a creation,
the request that is delayed and the one that overtakes it; a fourth
request leaves room for a third party or a second conflict. Two sessions give
every pairwise race; grouping uses three because a creation, a binding and a
candidate of another run are three parties. Two faults allow a failure in the
recovery from a failure. The candidates include both edges of a grouping window
(second 299, and 300 to 599). Two administrators are the case in which the
guard of the final one decides, and a third user may become one. A run of 75
seconds covers both rules' windows, before, on and after the command. Two cases
on the evidence store are a pair that races, or one that crashes and its rerun;
the cases share identities, so every outcome occurs. Three saves are one that is
lost, one that overtakes it and the one that would overwrite. Symmetry is
used over sessions, threads, tabs, texts and run identities, and only in runs
without liveness properties.

*Fairness.* `FairSpec` of the incident model has weak fairness of each thread's
own step: the server runs every admitted request, and a lock that is free is
granted. Rollback is never required. `FairSpec` of the lab adds that a backend
that is down is started (`restart: unless-stopped` in `docker-compose.yml`) and
that the lifespan proceeds. Faults are bounded: the claim is that progress
resumes once faults stop. `AuthSessions` also has fairness of
the database's deadlock detection (PostgreSQL's is always on): as part of a
thread's step, one member of a waiting cycle is aborted. Nothing is assumed of
clients. The evidence pipeline, the report editors, the plant and the policy
have no fairness: their properties are safety, and `WaitsAreShort` replaces
liveness by saying that whoever is waited for can go on. `PolicyDecision` ends
with the one event it judges, and `EvidencePipeline` and `ReportEditing` when
their bounds are used up, so these runs do not check deadlock.

Each property of a passing run has a mutant in `PROJECT.json`: a definition of
the model with a plausible mistake (a dropped `FOR UPDATE`, a whole-row
write-back, a missing demotion, a skipped recovery) under which TLC finds the
property violated.

### What the four violations say

*Stale resolve.* `patch_incident_status` reads the incident for a readiness
warning before `transition_incident_status` locks it. The lock query returns
the object of the identity map, so the version test sees the old version. If a
note or an enrichment commits in between, the resolve is accepted; the
history then has two entries that start from the same version, and the version
number of the other change is given a second time. Other columns are safe, as
`HistoryExplainsRow` and `EvidenceCountExact` show, because only changed
columns are written.

*Reset during a run.* `reset_lab` counts RUNNING rows and then activates the
Baseline; a start that commits after the count is not seen. `ActiveRunIsUsable`
still holds: the context refers to the completed Baseline.

*Stale change of oneself.* The acting user is loaded when the request
authenticates and is not refreshed by the lock query, so a change of one's own
account is tested against, and numbered from, that copy. If another
administrator changes the account in between, both changes carry the same
version. `OthersVersionAdvances` shows that changes of other users are safe,
and `AdministratorRemains` that the guard is: it counts the rows the database
returns, not the copies. The audit event of such a change may name a role or an
active flag the row does not have; other columns of the row are not touched, as
`TrailExplainsUsers` shows.

*Reason of an ungoverned write.* `evaluate_policy` answers
`POLICY_NOT_CLASSIFIED` as soon as no governed path joins the assets, before it
looks at the access class of the point. The `reason_precedence` of the policy
profile, which the loader requires to equal `REASON_PRECEDENCE`, ranks
`POINT_WRITE_NOT_APPROVED` above it. `OnlyUngovernedWriteDiffers` is proved for
every event: there is no other case. Neither answer approves anything.

## Proofs

TLAPS proves the following for all values of the constants: any number of
sessions, requests, users, runs, cases, tabs and faults, and any duration. The
assumptions are named where the constants are declared, TLC evaluates them in
the runs of that module, and they say what the code or the database guarantees.

| Module | Theorems | Statement |
|---|---|---|
| `IncidentProofs` | `TypeCorrect`, `Sessions` | `TypeOK`; `SessionInv` |
| | `CountTheorem`, `PrimaryTheorem`, `RunTheorem`, `SeverityTheorem` | `EvidenceCountExact`, `OnePrimary`, `RunsNeverMix`, `SeverityCoversEvidence` are invariants |
| | `VersionTheorem`, `HistoryTheorem`, `ReportTheorem`, `PageTheorem` | the action property `ChangesFollowTheRow`; the invariants `HistoryExplainsRow`, `ReportIsNewestRevision`, and `PageIsExplained` of writers and reader together |
| `LabProofs` | `LabTypeCorrect`, `OneExecutorTheorem`, `ActiveRunTheorem`, `AuditTheorem`, `ContextTheorem`, `StartTheorem` | all safety properties of the run `Lab` |
| `AuthProofs` | `AuthTypeCorrect`, `AdministratorTheorem`, `TrailTheorem`, `RevocationTheorem`, `OthersVersionTheorem` | all safety properties of `Auth`: `TypeOK`, `AdministratorRemains`, `TrailExplainsUsers`, `RevocationComplete`, `OthersVersionAdvances` |
| `ReportEditingProofs` | `BlindOverwriteTheorem` | the action property `NoBlindOverwrite` |
| `EvidenceProofs` | `LogTheorem`, `DuplicateReceiptTheorem`, `WaitsTheorem` | `Spec => Log!Spec` under the refinement mapping of `EvidencePipeline`; `DuplicateReceiptIsStored`, `WaitsAreShort` |
| `EvidenceReaderProofs` | `WalkTheorem`, `RerunTheorem`, `CompleteReplayTheorem`, `OrderedReplayTheorem` | `WalkIsExact`, `RerunNeverConflicts`, `ReplayIsComplete`, `ReplayFollowsLineage`: with the row above, all properties of `EvidencePipeline` |
| `PolicyProofs` | `ApprovalTheorem`, `ReasonTheorem` | `ApprovalIsJustified`, `OnlyUngovernedWriteDiffers`, for any set of events and claims, over the frozen profiles |
| `PlantProofs` | `PlantTypeCorrect`, `InventoryTheorem` | plant and telemetry in their ranges; `InventoryConserved` |
| | `CauseTheorem`, `FinalityTheorem` | `CorrelationHasCause`; the action property `CorrelationIsFinal` |

Hardly any of these properties is inductive as it stands; what was added says
why the code is right.

*Incidents.* `SessionInv` (theorem `Sessions`) adds to `TypeOK` what a session
knows at each program point: behind the lock it holds the lock of its target,
the row exists, and its copy *is* the row unless the request is one that reads
before it locks; behind an insert the row does not exist yet. The commits need
all of it: a change computed from the copy is a change computed from the row
only because nobody else can write in between. The exception in the invariant is
exactly the stale resolve, which is why `VersionTheorem` excludes it.
`EvidenceInv` adds that memberships are finite and absent before the row exists;
it rests on `CountInserted` (rows inserted on top of others are counted once)
and `MergeKeepsPrimary` (a merge with demotion keeps the one primary).
`SeverityInv` strengthens `SeverityCoversEvidence` to the record that decides a
candidate's severity: an incident that holds that one record is as severe as the
candidate. It uses `SeverityAssumption`, which states of the candidates what
`_qualify_s3` makes true: severity follows one record, and no candidate that
contains it is less severe. `HistoryInv` says that a row is what its log leads
to, column by column, and that the entries about assignee, disposition and
severity chain. A stale resolve keeps this although its copy is old, because
only changed columns are written. The
page theorem is proved about writers and reader together: `ReaderSpec` implies
`Spec`, and `PageInv` says at each stage of the page which beginning of the log
explains what was read so far.

*Lab.* `LabInv` says what the life of the backend guarantees (requests run only
when the lifespan is over, a start finds no thread of the last process), that a
thread which executes owns the one RUNNING run the unique index admits, that a
completed run has stored and linked its products and only such a run is on its
way to the context, and that the thread about to switch the context holds its
lock and knows its version.

*Users and sessions.* The administrators a change has counted are locked by it,
hence still administrators when it commits (`LockInv`); the sessions it is about
to revoke are all that the user has, because a login has to wait for the user's
row (`RevokingInv`); what commits was accepted (`AcceptedInv`). On top of this
`RevocationComplete` and `TrailExplainsUsers` are inductive, the latter together
with `UntoldInv` (a name nobody has has no events): a change of another user is
recorded from a copy that is the locked row, a change of oneself is excepted
for the fields its event names and leaves the others of the row alone, and a
reset, whose event names only the version, writes neither role nor active flag.
Nothing is proved of a login that overlaps a change, since the claim one would
want is false (see *AuthSessions*).

*Report editors.* A version does not identify a text, since a failed commit lets
its number be given again. `EditInv` says that everything a client was ever
shown is older than the report, or is it, or is being committed, or was lost;
so equal versions mean equal texts, except for the lost ones.

*Evidence.* A step of the log is a commit. It is one because the rows of a
transaction are new (`UniqueInv`: nobody else has inserted the identity, the
INSERT has waited) and their parents are committed or in the same transaction
(`LineageInv`). A child looks its parents up by identity and verifies their
content, so the invariant must know the shape of the records in between.
`DriverInv` and `PendingInv` place each driver in its plan and bound what it
has inserted so far. `CasesAssumption` says what a case is: it has something to
do, telemetry has no parents, and a POST carries one sample.

*Readers of evidence.* `ReaderInv` has four parts. `ProgressInv`: every step a
running case has behind it left its record, whoever stored it. `RecordInv` and
`IncidentsInv`: rows are identified, and an incident has the members its entry
in the list claims. `WalkInv` says that all a walk has shown lies before its
cursor, and that every item that was there at the first page was shown, is still
to come, or is gone (an incident that moved, another active run); the last item
of a page exists because a finite nonempty set has an extreme in a linear order. `OriginInv` is
why reruns agree: each record *is* what its stage makes of the parents it names,
so two programs that derive the same identity derive the same content, unless
their inputs differ. `MembersInv` and `ScopesInv` place the members of an
incident in one scope, which is why a replay loses none of them; that what a
replay collects reaches every ancestor follows because lineage is no deeper than
`LineageDepth`.

*Decoder and policy.* A decision is the answer of the first check that applies.
The proof states for each list of checks when which of them is the first, and that identity resolution names an asset
exactly if it is the only one claimed, and that at most one rule matches:
rules of one path differ in operation or point. `PolicyInv` carries each stage's
record to the next.

*Plant.* Conservation needs the ranges, and the ranges need conservation: the
flow is limited to what one tank has and the other can take, and what leaves
the one enters the other.

*Correlation.* `SelectionInv` says where the samples come from: all are the
plant's own but the first, where one is foreign. Beside it the second one is
there, and the two do not fit; while it is alone, one sample is not enough for
any rule. For `CorrelationIsFinal`, `Finalized` has passed the end of the
window, so a later sample is in no window and the first anchor is settled by the
samples before it; and a sample of the same plant leaves a consistent selection
consistent. `TruthInv` says that a sample in which the valve is not where the
plant has it was taken while S3 was on: the ground truth which the evaluator
does not see, and the link between a finding and its cause.

*What is assumed of the constants, and why.*

| Assumption | Says | Because |
|---|---|---|
| `RequestAssumption`, `RequestsAssumption`, `EventsAssumption` | requests and events are well formed | the schemas of the API and of the events validate them |
| `StraysAssumption` | a foreign sample differs in one of four fields | the four comparisons of `validate_run_consistency` |
| `BoundAssumption`, `LimitAssumption` | bounds are numbers; a page is not empty | bounds of the models; `limit` is at least 1 |
| `SentinelAssumption`, `NoneAssumption`, `CursorAssumption`, `ContextAssumption` | an absent value is none of the present ones | NULL and `None` |
| `NameAssumption`, `FounderAssumption` | users are ordered and finitely many; somebody is an administrator at first and the open sessions belong to such users | a table has finitely many rows, ordered by id; the bootstrap creates the first administrator |
| `RunAssumption`, `UserAssumption`, `IdentityAssumption` | each record has at most one run; who can be assigned is a user; run identities are distinct from the Baseline's | columns and keys of the tables |
| `SeverityAssumption` | the severity of a candidate follows one of its records | `_qualify_s3` |
| `CasesAssumption` | a case has something to do, telemetry has no parents, a POST carries one sample | the chains of the dataset tool and the endpoint |
| `UuidAssumption` | ids are ordered, and equal only if they are the same | UUIDs |
| `InputAssumption` | the time of an event belongs to its fixture, the time and scope of a sample to its payload | the fixtures and payloads hold them as fields |
| `QualificationAssumption` | a qualified correlation has the telemetry of one scope, an incident one scope, and the telemetry of a command goes on after it | `_validate_correlation_telemetry_scope`, `_requires_separate_bound_scope`, and the shift in `persist_correlation_chain` |
| `ConfigsAreValid`, `ProfileIsValid`, `ProfilesAgree` | plants and profiles are valid | `SimulationConfig.__post_init__` and the loaders of the profiles refuse others |

The proofs changed the models where these could not be reasoned about, and what
they say of the code stayed the same:

- the first-match order of refusals in `EvidenceStore` was written with
  overlapping `CASE` arms, which TLA+ does not order although TLC does; they are
  `IF` chains now, and the lists of the decoder and the policy are checks that
  answer or do not (`Check`);
- `IncidentStore` states how a history explains a row by the last entry of each
  kind (`ValueAt`) instead of a filtered sequence;
- telemetry is a set of samples, so that a window is a part of it and nothing
  has to be sorted;
- what a case is and which ids there are (`WellFormedCase`, `AllIds`) have names;
- the causes of a correlation are stated one by one, with the plants each is
  about as hypotheses.

*Only model-checked*:

- liveness (`EveryRequestEnds` of incidents and of users, `InterruptedRunEnds`,
  `ServesAgain` and `RequestEnds` of the lab), which is outside this prover's
  reach;
- `ThresholdsFitPlant`, that is `FlowFindingHasCause` and
  `ScenariosAreDetected`: both are about the numbers of concrete plants.
  Whether a fall of the flow passes a threshold depends on the lag, the noise
  and the rounding of that plant over a whole window, and there are plants,
  noisy enough or far from rest, for which it does not hold. The run `Detection`
  goes through 15 of them;
- the four violations, each a counterexample of one instance.

## Plan

1. *(done)* `IncidentStore`, `IncidentQualification`, `ScenarioLab`, their runs,
   type correctness and the evidence and version theorems.
2. *(done, without CSRF tokens)* `AuthSessions`: login, session checks,
   revocation and user administration.
3. *(done)* `EvidenceStore` and `EvidencePipeline` with the abstract
   `EvidenceLog` they implement.
4. *(done)* `PlantSimulator`, `Correlation` and their composition;
   `ProtocolDecoder` and `PolicyContext`.
5. *(done, without the lab and session contexts of the frontend)*
   `IncidentReader` and `ReportEditing`: pages and editors.
6. *(done)* Proofs: the refinement of `EvidenceLog`; history, severity, report
   and page of incidents; editors; conservation; the lab; users and sessions.
7. *(done)* Proofs: walks, reruns and replays; the policy for any event; the
   finality of a correlation and its cause in the valve.
8. Left: a class of plants, stated by their lags and noise, for which
   `ThresholdsFitPlant` could be proved; the contexts of the frontend.

## Not modelled

Configuration, middleware and logging keep no state a property is about.
Dataset tools are batch file I/O apart from `execute_dataset_case` and the
chains it persists. Migrations are declarative and were read for constraints
and triggers. The overview counters, the asset catalog and the replay of a time
window are reads of single statements. In the frontend, the lab and session
contexts and the other forms are left out: `refresh` of the lab context does not
guard against an older answer that arrives last, and nothing in the repository
says which answer should win. In `AuthSessions` the CSRF token (`read_session`
may replace it), `last_seen_at` and display names are left out. In
`IncidentQualification` the field-by-field recognition of a scenario (`_is_s1`,
`_is_s2`, `_is_s3_command`) is one field of a finding.

## Running

    tlc -workers 2 -config IncidentGrouping.cfg MCIncident
    tlc -workers 2 -config IncidentWorkflow.cfg MCIncidentReader
    tlc -workers 2 -config Lab.cfg MCLab
    tlc -workers 2 -config Auth.cfg MCAuth
    tlc -workers 2 -config Detection.cfg MCDetection
    tlc -workers 2 -config EvidencePipeline.cfg MCEvidence
    tlc -workers 2 -config PolicyDecision.cfg MCPolicy
    tlc -workers 2 -config ReportEditing.cfg MCReportEditing
    tlapm IncidentProofs.tla            # and the other modules named *Proofs
