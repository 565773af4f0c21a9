-------------------------- MODULE EvidencePipeline --------------------------
(***************************************************************************)
(* The derivation pipeline over the evidence store: a raw protocol event   *)
(* is stored, decoded, put in its asset context, judged by the policy and  *)
(* correlated with telemetry, then qualified as an incident, each stage in *)
(* a transaction of its own (persist_policy_chain and                      *)
(* persist_correlation_chain).  The lab, the offline tools and POST        *)
(* /api/v1/evidence do this at the same time; a process may die anywhere   *)
(* and the case is run again.  Readers page through the lists meanwhile,   *)
(* and a replay can be asked for at any moment.                            *)
(***************************************************************************)
EXTENDS EvidenceStore, Sequences

CONSTANTS
  Cases(_),     \* the cases each session may run
  MaxStarts,    \* how many cases are started in one behaviour
  MaxCrashes,   \* how many processes die in one behaviour
  Limit         \* the page size

VARIABLES
  driver,       \* what each session is doing
  incidents,    \* the incidents, as far as listing and replay read them
  links,        \* which record belongs to which lab run
  context,      \* the active run and the version of the active context
  receipts,     \* the receipts POST answered with
  starts, crashes,
  walk          \* a reader on its way through the pages of a list

pipeVars == <<driver, incidents, links, context, receipts, starts, crashes>>
vars == <<storeVars, pipeVars, walk>>

Idle == [phase |-> "idle", case |-> None, transaction |-> 1, step |-> 1]

-----------------------------------------------------------------------------
(* The transactions a case consists of, each a sequence of steps.           *)
PolicyChain == <<<<"raw">>, <<"semantic">>, <<"context", "finding">>>>
Plan(c) ==
  IF c.post THEN <<<<"telemetry", "respond">>>>
  ELSE (IF c.event = None THEN <<>> ELSE PolicyChain)
       \o [i \in 1..Len(c.telemetry) |-> <<"telemetry">>]
       \o (IF c.rule = None THEN <<>> ELSE <<<<"correlation">>>>)
       \o (IF c.incident = None THEN <<>> ELSE <<<<"qualify">>>>)
       \o (IF c.run = None THEN <<>> ELSE <<<<"link">>, <<"activate">>>>)

TelemetryOf(c) == {c.telemetry[i] : i \in DOMAIN c.telemetry}

(* A case has work to do.  Its telemetry has no parents and a run and a     *)
(* configuration for its scope; a POST carries one sample and no event; a   *)
(* rule over the process alone has no command, and times are times.         *)
WellFormedCase(c) ==
  /\ c.post \in BOOLEAN
  /\ c.telemetry \in Seq(TelemetryOf(c))
  /\ \A t \in TelemetryOf(c) :
       /\ t.kind = "telemetry" /\ t.refs = {} /\ t.observed \in Nat
       /\ t.scope = <<t.scope[1], t.scope[2]>>
  /\ c.command \in Nat
  /\ c.event = None /\ c.rule # None => c.command = 0
  /\ c.post => c.event = None /\ Len(c.telemetry) = 1
  /\ Plan(c) # <<>>

ASSUME CasesAssumption == \A s \in Sessions : \A c \in Cases(s) : WellFormedCase(c)

Running(s) == driver[s].phase = "running"
Case(s) == driver[s].case
Steps(s) == Plan(Case(s))[driver[s].transaction]
AtCommit(s) == driver[s].step > Len(Steps(s))
At(s, what) == Running(s) /\ ~AtCommit(s) /\ Steps(s)[driver[s].step] = what

(* The telemetry transactions follow the policy chain, one per sample.      *)
SampleOf(s) ==
  Case(s).telemetry[driver[s].transaction - (IF Case(s).event = None THEN 0 ELSE 3)]

(* The ids of derived records are UUIDv5s of their parents' ids, so in the  *)
(* end of the event's.                                                      *)
RawId(c) == <<"raw", "1.0.0", c.event>>
SemanticId(c) == <<"semantic", "1.0.0", c.event>>
ContextId(c) == <<"context", "1.0.0", c.event>>
FindingId(c) == <<"finding", "1.0.0", c.event>>

StoredRecord(s, id) == Stored(s, id).record
Parents(s, ids) == {StoredRecord(s, id) : id \in ids}

-----------------------------------------------------------------------------
(* protocol_event_to_evidence: the digest of the fixture is in the record.  *)
RawRecord(c) ==
  Record("raw", "1.0.0", c.event, [meaning |-> c.meaning, bytes |-> c.bytes], {},
         Unbound, c.command)

\* Mutant: the semantic event is stamped with the time of its own receipt.
SemanticRecordNow(s) ==
  LET c == Case(s) raw == Stored(s, RawId(c))
  IN  Record("semantic", "1.0.0", c.event,
             [meaning |-> raw.record.body.meaning, created |-> c.received],
             {raw.record}, Unbound, raw.record.observed)

(* persist_semantic_evidence: what the stored payload decodes to, created   *)
(* at the moment the raw record was received.                               *)
SemanticRecord(s) ==
  LET c == Case(s) raw == Stored(s, RawId(c))
  IN  Record("semantic", "1.0.0", c.event,
             [meaning |-> raw.record.body.meaning, created |-> raw.received],
             {raw.record}, Unbound, raw.record.observed)

(* persist_asset_context: the claims are content, not identity.             *)
ContextRecord(s) ==
  LET c == Case(s)
  IN  Record("context", "1.0.0", c.event, [claims |-> c.claims],
             Parents(s, {RawId(c), SemanticId(c)}), Unbound,
             StoredRecord(s, SemanticId(c)).observed)

(* persist_policy_finding: a function of the stored context and semantics.  *)
FindingRecord(s) ==
  LET c == Case(s) context_ == StoredRecord(s, ContextId(c))
  IN  Record("finding", "1.0.0", c.event,
             [judged |-> <<context_.body.claims, StoredRecord(s, SemanticId(c)).body.meaning>>],
             Parents(s, {RawId(c), SemanticId(c), ContextId(c)}), Unbound,
             StoredRecord(s, SemanticId(c)).observed)

(* The parent was found, verifies, and names its own parents as stored.     *)
ParentVerified(s, id) ==
  /\ Matching(s, id) # {}
  /\ \A p \in StoredRecord(s, id).refs : Verified(s, p)

CyberIds(c) == IF c.event = None THEN {} ELSE {RawId(c), SemanticId(c), ContextId(c), FindingId(c)}

(* The ids that the cases can give to evidence and to incidents; those of a *)
(* correlation finding tell the rule, the run and the parents.  UUIDs of    *)
(* different identities differ, and so one of them sorts first.             *)
AllCases == UNION {Cases(s) : s \in Sessions}
AllTelemetry == UNION {TelemetryOf(c) : c \in AllCases}
AllScopes ==
  {Unbound} \cup {t.scope : t \in AllTelemetry} \cup {<<t.scope[1], None>> : t \in AllTelemetry}
CorrelationId(c, scope) ==
  <<"correlation", "1.0.0", <<c.rule, scope, {Identity(t) : t \in TelemetryOf(c)} \cup CyberIds(c)>>>>
IdsOf(c) ==
  CyberIds(c) \cup {Identity(t) : t \in TelemetryOf(c)}
  \cup {CorrelationId(c, scope) : scope \in IF c.rule = None THEN {} ELSE AllScopes}
  \cup ({c.incident} \ {None})
AllIds == UNION {IdsOf(c) : c \in AllCases}

ASSUME UuidAssumption ==
  \A a, b \in AllIds : UuidOrder(a) \in Int /\ (UuidOrder(a) = UuidOrder(b) => a = b)
ASSUME LimitAssumption == Limit \in Nat \ {0}
ASSUME CursorAssumption == None \notin [id : AllIds, time : Nat]

(* The time of an event is a field of its fixture, and the time and scope   *)
(* of a sample are fields of its payload.                                   *)
ASSUME InputAssumption ==
  /\ \A c, d \in AllCases :
       /\ c.event # None /\ c.event = d.event
       /\ c.meaning = d.meaning /\ c.bytes = d.bytes
       => c.command = d.command
  /\ \A t, u \in AllTelemetry : Identity(t) = Identity(u) /\ t.body = u.body => t = u

(* Qualification refuses a correlation whose telemetry is not all of its    *)
(* scope, and an incident is bound to one scope                             *)
(* (_validate_correlation_telemetry_scope, _requires_separate_bound_scope). *)
(* The telemetry of a command is shifted to it, so that it goes on after    *)
(* the command (persist_correlation_chain).                                 *)
ASSUME QualificationAssumption ==
  \A c \in AllCases : c.incident # None /\ c.rule # None =>
    /\ \A d \in AllCases : d.incident = c.incident /\ d.rule # None =>
         \A t \in TelemetryOf(c), u \in TelemetryOf(d) : t.scope = u.scope
    /\ c.event # None /\ c.telemetry # <<>> =>
         \E t \in TelemetryOf(c) : t.observed >= c.command

(* The command contract of rule S3; the context names the semantic parent.  *)
CyberAccepted(s) ==
  LET c == Case(s)
  IN  IF c.rule = "S3"
      THEN /\ c.event # None
           /\ \A id \in CyberIds(c) : ParentVerified(s, id)
           /\ StoredRecord(s, SemanticId(c)).body.meaning = "valve command"
      ELSE c.event = None

\* Mutant: a finding over several runs is bound to one of them.
ConsistencyBoundToOne(samples, command) ==
  IF samples = {} THEN [reason |-> "MISSING_TELEMETRY", scope |-> Unbound]
  ELSE [reason |-> IF \A t \in samples : t.observed < command
                   THEN "WINDOW_NOT_FINALIZED" ELSE None,
        scope |-> (CHOOSE t \in samples : TRUE).scope]

(* evaluate_correlation: why the telemetry did not support a verdict, or    *)
(* None, and the scope the finding is bound to.                             *)
Consistency(samples, command) ==
  LET runs == {t.scope[1] : t \in samples}
      configurations == {t.scope[2] : t \in samples}
  IN  CASE samples = {} -> [reason |-> "MISSING_TELEMETRY", scope |-> Unbound]
        [] Cardinality(runs) > 1 -> [reason |-> "RUN_ID_MISMATCH", scope |-> Unbound]
        [] Cardinality(runs) = 1 /\ Cardinality(configurations) > 1 ->
             [reason |-> "CONFIGURATION_MISMATCH",
              scope |-> <<CHOOSE r \in runs : TRUE, None>>]
        [] OTHER ->
             [reason |-> IF \A t \in samples : t.observed < command
                         THEN "WINDOW_NOT_FINALIZED" ELSE None,
              scope |-> (CHOOSE t \in samples : TRUE).scope]

Latest(times, default) ==
  IF times = {} THEN default ELSE CHOOSE t \in times : \A u \in times : u <= t

(* persist_correlation_finding: identity and content follow from the rule,  *)
(* the run and the stored parents.                                          *)
CorrelationRecord(s) ==
  LET c == Case(s)
      samples == {StoredRecord(s, Identity(t)) : t \in TelemetryOf(c)}
      verdict == Consistency(samples, c.command)
      refs == samples \cup Parents(s, CyberIds(c))
  IN  Record("correlation", "1.0.0", <<c.rule, verdict.scope, {Identity(r) : r \in refs}>>,
             [reason |-> verdict.reason], refs, verdict.scope,
             Latest({t.observed : t \in samples}, c.command))

CanDerive(s) ==
  LET c == Case(s)
  IN  CASE At(s, "semantic") -> ParentVerified(s, RawId(c))
        [] At(s, "context") -> ParentVerified(s, SemanticId(c))
        [] At(s, "finding") -> ParentVerified(s, SemanticId(c)) /\ ParentVerified(s, ContextId(c))
        [] At(s, "correlation") ->
             /\ \A t \in TelemetryOf(c) : Matching(s, Identity(t)) # {}
             /\ CyberAccepted(s)
        [] OTHER -> TRUE

Envelope(s) ==
  CASE At(s, "raw") -> RawRecord(Case(s))
    [] At(s, "semantic") -> SemanticRecord(s)
    [] At(s, "context") -> ContextRecord(s)
    [] At(s, "finding") -> FindingRecord(s)
    [] At(s, "telemetry") -> IF Case(s).post THEN Case(s).telemetry[1] ELSE SampleOf(s)
    [] At(s, "correlation") -> CorrelationRecord(s)

-----------------------------------------------------------------------------
(* Replay (product/service.py): the references reached from the roots       *)
(* through every record that is accepted, and those that are gaps.  No      *)
(* lineage is deeper than correlation, finding, context, semantic, raw.     *)
LineageDepth == 5
Accepted(r, scope) ==
  /\ \E x \in rows : x.record = r
  /\ r.scope[1] # None /\ scope[1] # None => r.scope = scope

VerifiedClosure(roots, scope) ==
  LET Visited[n \in 0..LineageDepth] ==
        IF n = 0 THEN roots
        ELSE Visited[n - 1] \cup UNION {v.refs : v \in {u \in Visited[n - 1] : Accepted(u, scope)}}
  IN  Visited[LineageDepth]

Gaps(roots, scope) == {v \in VerifiedClosure(roots, scope) : ~Accepted(v, scope)}

(* EVENT_CLASS: the rank that orders events observed at one time.           *)
EventRank(kind) ==
  CASE kind = "raw" -> 10 [] kind = "semantic" -> 20 [] kind = "context" -> 30
    [] kind = "finding" -> 40 [] kind = "telemetry" -> 50 [] kind = "correlation" -> 60

\* Mutant: events observed at the same time are ordered by their ids alone.
ReplayBeforeByIds(a, b) ==
  \/ a.observed < b.observed
  \/ a.observed = b.observed /\ UuidOrder(Identity(a)) < UuidOrder(Identity(b))

(* _ordered_events                                                          *)
ReplayBefore(a, b) ==
  \/ a.observed < b.observed
  \/ /\ a.observed = b.observed
     /\ \/ EventRank(a.kind) < EventRank(b.kind)
        \/ EventRank(a.kind) = EventRank(b.kind) /\ UuidOrder(Identity(a)) < UuidOrder(Identity(b))

(* _verified_execution_closure of the lab: stricter, it raises instead.     *)
LabClosureAccepts(roots, expected) ==
  \A v \in VerifiedClosure(roots, Unbound) :
    /\ Accepted(v, Unbound)
    /\ v.scope \in {Unbound, expected}

(* What a finished case hands on: its policy finding and its correlation.   *)
Roots(s) ==
  LET c == Case(s)
  IN  (IF c.event = None THEN {} ELSE {StoredRecord(s, FindingId(c))})
      \cup (IF c.rule = None THEN {} ELSE {StoredRecord(s, Identity(CorrelationRecord(s)))})

-----------------------------------------------------------------------------
EndDriver(s, phase) == driver' = [driver EXCEPT ![s] = [Idle EXCEPT !.phase = phase, !.case = Case(s)]]

NextStep(s) == driver' = [driver EXCEPT ![s].step = @ + 1]

NextTransaction(s) ==
  IF driver[s].transaction = Len(Plan(Case(s))) THEN EndDriver(s, "done")
  ELSE driver' = [driver EXCEPT ![s].transaction = @ + 1, ![s].step = 1]

Start(s, c) ==
  /\ ~Running(s)
  /\ starts < MaxStarts
  /\ starts' = starts + 1
  /\ driver' = [driver EXCEPT ![s] = [Idle EXCEPT !.phase = "running", !.case = c]]
  /\ UNCHANGED <<storeVars, incidents, links, context, receipts, crashes, walk>>

AtIngest(s) == \E kind \in Kinds : At(s, kind)

IngestStep(s) ==
  /\ AtIngest(s) /\ CanDerive(s)
  /\ \E r \in {Envelope(s)} :
       /\ Outcome(s, r) \in Succeeded
       /\ Ingest(s, r, Case(s).received)
  /\ NextStep(s)
  /\ UNCHANGED <<incidents, links, context, receipts, starts, crashes, walk>>

(* A parent is missing or does not verify, or the store refuses the record: *)
(* the exception leaves session_scope, which rolls back.                    *)
Refuse(s) ==
  /\ AtIngest(s)
  /\ CanDerive(s) => \E r \in {Envelope(s)} : /\ ~MustWait(s, r)
                                               /\ Outcome(s, r) \notin Succeeded
  /\ RollbackRows(s)
  /\ EndDriver(s, "failed")
  /\ UNCHANGED <<incidents, links, context, receipts, starts, crashes, walk>>

(* The handler of POST returns; the response leaves before the dependency   *)
(* that owns the session commits.                                           *)
Respond(s) ==
  /\ At(s, "respond")
  /\ receipts' = receipts \cup
       {[record |-> Case(s).telemetry[1],
         status |-> IF pending[s] = {} THEN "duplicate_existing" ELSE "accepted"]}
  /\ NextStep(s)
  /\ UNCHANGED <<storeVars, incidents, links, context, starts, crashes, walk>>

Commit(s) ==
  /\ Running(s) /\ AtCommit(s)
  /\ CommitRows(s)
  /\ NextTransaction(s)
  /\ UNCHANGED <<incidents, links, context, receipts, starts, crashes, walk>>

(* qualify_stored_evidence, as far as listing and replay read its result:   *)
(* the incident exists with the roots as members, bound to the run of the   *)
(* correlation, last observed at the latest of them.                        *)
Qualify(s) ==
  /\ At(s, "qualify")
  /\ LET old == {i \in incidents : i.id = Case(s).incident}
         members == Roots(s) \cup UNION {i.members : i \in old}
         bound == {m.scope : m \in members} \ {Unbound}
     IN  incidents' = (incidents \ old) \cup
           {[id |-> Case(s).incident, members |-> members,
             scope |-> IF bound = {} THEN Unbound ELSE CHOOSE b \in bound : TRUE,
             time |-> Latest({m.observed : m \in members}, 0)]}
  /\ NextTransaction(s)
  /\ UNCHANGED <<storeVars, links, context, receipts, starts, crashes, walk>>

(* _execute_run after the pipeline: the closure is verified and linked.     *)
Link(s) ==
  /\ At(s, "link")
  /\ IF LabClosureAccepts(Roots(s), Case(s).scope)
     THEN /\ links' = links \cup {<<Case(s).run, Case(s).incident>>}
                      \cup {<<Case(s).run, Identity(v)>> : v \in VerifiedClosure(Roots(s), Unbound)}
          /\ NextTransaction(s)
     ELSE EndDriver(s, "failed") /\ UNCHANGED links
  /\ UNCHANGED <<storeVars, incidents, context, receipts, starts, crashes, walk>>

(* _activate_run                                                            *)
Activate(s) ==
  /\ At(s, "activate")
  /\ context' = [run |-> Case(s).run, version |-> context.version + 1]
  /\ NextTransaction(s)
  /\ UNCHANGED <<storeVars, incidents, links, receipts, starts, crashes, walk>>

(* The process or its connection dies: the open transaction is undone.      *)
Crash(s) ==
  /\ Running(s) /\ crashes < MaxCrashes
  /\ crashes' = crashes + 1
  /\ RollbackRows(s)
  /\ driver' = [driver EXCEPT ![s] = Idle]
  /\ UNCHANGED <<incidents, links, context, receipts, starts, walk>>

-----------------------------------------------------------------------------
(* The reader: GET /evidence and GET /incidents page by page, in one of the *)
(* three scopes.  CURRENT means the run active when the page is read.       *)
Lists == {"evidence", "incidents"}
Scopes == {"ALL_HISTORY", "RUN", "CURRENT"}

(* A walk that has ended leaves what went wrong on it: an item that came    *)
(* twice, and items that were there at the first page, are there at the     *)
(* last one as they were, and never came.                                   *)
Ended(again, missed) == [phase |-> "ended", again |-> again, missed |-> missed]
KnownRuns == {context.run} \cup {l[1] : l \in links}

AllItems(list) ==
  IF list = "evidence" THEN {EvidenceItem(x) : x \in rows}
  ELSE {[id |-> i.id, time |-> i.time] : i \in incidents}

Listed(w) ==
  LET run == IF w.scope = "CURRENT" THEN context.run ELSE w.run
  IN  {x \in AllItems(w.list) : w.scope = "ALL_HISTORY" \/ <<run, x.id>> \in links}

Descending(w) == w.list = "incidents"

PageOf(w) ==
  LET items == After(Listed(w), w.cursor, Descending(w))
      page == First(items, Limit, Descending(w))
      cursor == NextCursor(items, page, Descending(w))
      shown == w.shown \cup page
      again == w.again \/ \E x \in page, y \in w.shown : x.id = y.id
      expected == IF w.scope = "CURRENT" /\ w.version # context.version THEN {}
                  ELSE w.start \cap Listed(w)
  IN  IF cursor = None THEN Ended(again, expected \ shown)
      ELSE [w EXCEPT !.cursor = cursor, !.shown = shown, !.again = again]

OpenList(list, scope, run) ==
  /\ walk.phase = "ended"
  /\ (scope = "RUN") <=> (run # None)
  /\ LET w == [phase |-> "open", list |-> list, scope |-> scope, run |-> run,
               version |-> context.version, start |-> {}, cursor |-> None, shown |-> {},
               again |-> FALSE]
     IN  walk' = PageOf([w EXCEPT !.start = Listed(w)])
  /\ UNCHANGED <<storeVars, pipeVars>>

ReadNextPage ==
  /\ walk.phase = "open"
  /\ walk' = PageOf(walk)
  /\ UNCHANGED <<storeVars, pipeVars>>

-----------------------------------------------------------------------------
Init ==
  /\ StoreInit
  /\ driver = [s \in Sessions |-> Idle]
  /\ incidents = {} /\ links = {} /\ receipts = {}
  /\ context = [run |-> "BASELINE", version |-> 1]
  /\ starts = 0 /\ crashes = 0
  /\ walk = Ended(FALSE, {})

Work(s) ==
  \/ IngestStep(s) \/ Refuse(s) \/ Respond(s) \/ Commit(s)
  \/ Qualify(s) \/ Link(s) \/ Activate(s)

Next ==
  \/ \E s \in Sessions : Work(s) \/ Crash(s) \/ \E c \in Cases(s) : Start(s, c)
  \/ \E list \in Lists, scope \in Scopes,
        run \in KnownRuns \cup {None} : OpenList(list, scope, run)
  \/ ReadNextPage

Spec == Init /\ [][Next]_vars

-----------------------------------------------------------------------------
(* The store keeps its promise whatever the pipelines, crashes and retries  *)
(* do: committed evidence is never altered, one identity never gets two     *)
(* contents, and no record is there before its parents                      *)
(* (_ingest_validated_evidence, db/session.py).                             *)
Log == INSTANCE EvidenceLog WITH log <- {x.record : x \in rows}
ImplementsLog == Log!Spec

(* A receipt that says duplicate_existing names a record that is committed, *)
(* with that very content: unlike the receipt of a new record, it holds     *)
(* even if the commit behind it fails (api/evidence.py, create_evidence).   *)
DuplicateReceiptIsStored ==
  \A r \in receipts : r.status = "duplicate_existing" => \E x \in rows : x.record = r.record

(* A case that is run again, later and by another session, meets its own    *)
(* records as duplicates: whatever is derived from stored evidence never    *)
(* conflicts, and an input conflicts only if it is another input.           *)
RerunNeverConflicts ==
  \A s \in Sessions :
    AtIngest(s) /\ CanDerive(s) /\ Outcome(s, Envelope(s)) = "identity_conflict" =>
      /\ Envelope(s).kind \in {"raw", "context", "telemetry"}
      /\ Stored(s, Identity(Envelope(s))).record.body # Envelope(s).body

(* What the replays of an incident and of a correlation finding miss.       *)
ReplayForIncident(i) == Gaps(i.members, i.scope)
ReplayForCorrelation(r) == Gaps({r}, r.scope)

(* The replay of a correlation finding or of an incident has no gaps, save  *)
(* for a finding about mixed configurations, which is bound to the run      *)
(* alone; the lab links only what its own verification accepts              *)
(* (replay_for_incident, replay_for_correlation, _verified_closure).        *)
ReplayIsComplete ==
  /\ \A x \in rows :
       /\ x.record.kind = "correlation"
       /\ x.record.body.reason # "CONFIGURATION_MISMATCH"
       => ReplayForCorrelation(x.record) = {}
  /\ \A i \in incidents : ReplayForIncident(i) = {}

(* The replay of an incident shows every record after the records it was    *)
(* derived from, although they may be observed at one time (_ordered_events,*)
(* persist_correlation_chain's shift of the telemetry).                     *)
ReplayFollowsLineage ==
  \A i \in incidents :
    \A v \in VerifiedClosure(i.members, i.scope) : \A p \in v.refs :
      ReplayBefore(p, v)

(* Paging through a list that changes meanwhile never shows an item twice,  *)
(* and shows each one that stays where it is; for CURRENT as long as the    *)
(* active run is the same (list_evidence, list_incidents).                  *)
WalkIsExact == walk.phase = "ended" => ~walk.again /\ walk.missed = {}

(* Whoever waits for an identity waits for a live transaction that does not *)
(* wait itself: neither a deadlock nor a dead process can hold a case up    *)
(* (session_scope, persist_policy_chain).                                   *)
Waiting(s) == AtIngest(s) /\ CanDerive(s) /\ MustWait(s, Envelope(s))
WaitsAreShort ==
  \A s \in Sessions : Waiting(s) =>
    \A o \in Sessions \ {s} : pending[o] # {} => Running(o) /\ ~Waiting(o)

=============================================================================
