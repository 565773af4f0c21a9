----------------------------- MODULE ScenarioLab -----------------------------
(***************************************************************************)
(* The Synthetic Scenario Lab (backend/app/lab/service.py): scenario runs, *)
(* the one active context the product pages show, and the recovery that    *)
(* main.py performs when the backend starts.                               *)
(*                                                                         *)
(* Each admin request is a thread with a database session of its own; the  *)
(* process Boot is the application lifespan, which runs before requests    *)
(* are served.  A step of the model ends at a commit or at a statement     *)
(* whose result a later step uses.  The pipeline commits evidence and      *)
(* incidents in sessions of its own, before the run that asked for them is *)
(* completed; a fault may come between any two steps.                      *)
(***************************************************************************)
EXTENDS Integers, FiniteSets

CONSTANTS
  Thread,        \* request threads
  Boot,          \* the lifespan of the application
  Run,           \* identities of scenario runs (uuid4)
  Baseline,      \* identity of the Baseline run (uuid5 of the dataset)
  Scenario,      \* scenarios an administrator may start
  MaxRequests,   \* bound: requests admitted in a behaviour
  MaxFaults,     \* bound: crashes, pipeline failures and lost connections
  NoContext, NoScenario, NoRun

ASSUME BoundAssumption == MaxRequests \in Nat /\ MaxFaults \in Nat
ASSUME IdentityAssumption ==
  /\ Boot \notin Thread
  /\ Baseline \notin Run
  /\ NoRun \notin Run \union {Baseline} \union Thread \union {Boot}
  /\ NoScenario \notin Scenario

Process == Thread \union {Boot}
AnyRun  == Run \union {Baseline}
Reason  == {"STARTUP_BASELINE", "SCENARIO_COMPLETED", "RETURN_BASELINE", "RESET"}
Context == [run : AnyRun, version : Nat \ {0}, reason : Reason]

ASSUME ContextAssumption == NoContext \notin Context

VARIABLES
  runs,      \* lab_runs.state, "NONE" before the row exists
  scenario,  \* lab_runs.scenario_id
  code,      \* lab_runs.failure_code
  links,     \* lab_run_evidence and lab_run_incidents: what a run refers to
  stored,    \* evidence and incidents the pipeline has committed
  audit,     \* SOC audit events about a run
  context,   \* the row of lab_active_context
  ctxLock,   \* who holds its row lock
  startup,   \* scenario_lab_startup_enabled and a development environment
  backend,   \* "down", "starting" or "up"
  pc, work, reason, seen,  \* each process: where it is, its run, why it
                           \* activates it, the context version it locked
  begun, faults

lab == <<runs, scenario, code, links, stored, audit>>
vars == <<lab, context, ctxLock, startup, backend, pc, work, reason, seen,
          begun, faults>>

\* What the pipeline makes of a case: the Baseline qualifies no incident.
Products(s) ==
  IF s = NoScenario THEN {<<s, "evidence">>}
  ELSE {<<s, "evidence">>, <<s, "incident">>}

Init ==
  /\ runs = [r \in AnyRun |-> "NONE"]
  /\ scenario = [r \in AnyRun |-> NoScenario]
  /\ code = [r \in AnyRun |-> "NONE"]
  /\ links = [r \in AnyRun |-> {}]
  /\ stored = {}
  /\ audit = [r \in AnyRun |-> {}]
  /\ context = NoContext
  /\ ctxLock = NoRun
  /\ startup \in BOOLEAN
  /\ backend = "down"
  /\ pc = [p \in Process |-> "idle"]
  /\ work = [p \in Process |-> NoRun]
  /\ reason = [p \in Process |-> "RESET"]
  /\ seen = [p \in Process |-> 0]
  /\ begun = 0
  /\ faults = 0

Running == {r \in AnyRun : runs[r] = "RUNNING"}

Goto(p, l) == pc' = [pc EXCEPT ![p] = l]

\* Mutant: an answered request keeps its row lock.
End_KeepsLock(p) ==
  /\ Goto(p, "idle")
  /\ work' = [work EXCEPT ![p] = NoRun]
  /\ seen' = [seen EXCEPT ![p] = 0]
  /\ UNCHANGED <<ctxLock, reason, startup, begun>>

\* The request is answered, with a result or an error: its locks are gone.
End(p) ==
  /\ Goto(p, "idle")
  /\ work' = [work EXCEPT ![p] = NoRun]
  /\ seen' = [seen EXCEPT ![p] = 0]
  /\ ctxLock' = IF ctxLock = p THEN NoRun ELSE ctxLock
  /\ UNCHANGED <<reason, startup, begun>>

-----------------------------------------------------------------------------
(***************************************************************************)
(* start_scenario up to the commit of the new run                          *)
(***************************************************************************)
\* Bound: a start is admitted while there are unused identities for it.
IdentityLeft ==
  Cardinality({r \in Run : runs[r] = "NONE"}) >
    Cardinality({t \in Thread : pc[t] \in {"check", "insert"}})

Admit(t) ==
  /\ backend = "up"
  /\ pc[t] = "idle"
  /\ begun < MaxRequests
  /\ begun' = begun + 1
  /\ \E l \in {"check", "baseline", "resetCheck"} :
       (l = "check" => IdentityLeft) /\ Goto(t, l)
  /\ UNCHANGED <<lab, context, ctxLock, startup, backend, work, reason, seen,
                 faults>>

StartCheck(t) ==
  /\ pc[t] = "check"
  /\ Running = {}
  /\ Goto(t, "insert")
  /\ UNCHANGED <<lab, context, ctxLock, startup, backend, work, reason, seen,
                 begun, faults>>

StartRefused(t) ==
  /\ pc[t] = "check"
  /\ Running # {}
  /\ End(t)
  /\ UNCHANGED <<lab, context, backend, faults>>

\* Mutant: no unique index, only the check before the INSERT.
MayRun_NoIndex == TRUE

\* The partial unique index uq_lab_runs_one_running admits the INSERT.
MayRun == Running = {}

RegisterRun(t) ==
  /\ pc[t] = "insert"
  /\ MayRun
  /\ \E r \in Run, s \in Scenario :
       /\ runs[r] = "NONE"
       /\ runs' = [runs EXCEPT ![r] = "RUNNING"]
       /\ scenario' = [scenario EXCEPT ![r] = s]
       /\ audit' = [audit EXCEPT ![r] = @ \union {"STARTED"}]
       /\ work' = [work EXCEPT ![t] = r]
  /\ reason' = [reason EXCEPT ![t] = "SCENARIO_COMPLETED"]
  /\ Goto(t, "ingest")
  /\ UNCHANGED <<code, links, stored, context, ctxLock, startup, backend,
                 seen, begun, faults>>

\* IntegrityError: another run was committed after the check.
RegisterConflict(t) ==
  /\ pc[t] = "insert"
  /\ ~MayRun
  /\ End(t)
  /\ UNCHANGED <<lab, context, backend, faults>>

-----------------------------------------------------------------------------
(***************************************************************************)
(* _execute_run, by a request thread or by Boot                            *)
(***************************************************************************)
\* execute_dataset_case commits evidence, then the qualified incident; both
\* have deterministic identities, so doing it again adds nothing.
Ingest(p) ==
  /\ pc[p] = "ingest"
  /\ stored' = stored \union {<<scenario[work[p]], "evidence">>}
  /\ Goto(p, "qualify")
  /\ UNCHANGED <<runs, scenario, code, links, audit, context, ctxLock, startup,
                 backend, work, reason, seen, begun, faults>>

Qualify(p) ==
  /\ pc[p] = "qualify"
  /\ stored' = stored \union Products(scenario[work[p]])
  /\ Goto(p, "link")
  /\ UNCHANGED <<runs, scenario, code, links, audit, context, ctxLock, startup,
                 backend, work, reason, seen, begun, faults>>

\* Mutant: only the evidence of the execution is associated with the run.
CompleteRun_EvidenceOnly(p) ==
  LET r == work[p]
  IN  /\ pc[p] = "link"
      /\ runs' = [runs EXCEPT ![r] = "COMPLETED"]
      /\ code' = [code EXCEPT ![r] = "NONE"]
      /\ links' = [links EXCEPT ![r] = @ \union {<<scenario[r], "evidence">>}]
      /\ audit' = [audit EXCEPT ![r] =
                     IF p = Boot THEN @ ELSE @ \union {"COMPLETED"}]
      /\ Goto(p, "activate")
      /\ UNCHANGED <<scenario, stored, context, ctxLock, startup, backend, work,
                     reason, seen, begun, faults>>

\* The associations, the state COMPLETED and its audit event, in one commit.
\* The Baseline is executed without an audit identity.
CompleteRun(p) ==
  LET r == work[p]
  IN  /\ pc[p] = "link"
      /\ runs' = [runs EXCEPT ![r] = "COMPLETED"]
      /\ code' = [code EXCEPT ![r] = "NONE"]
      /\ links' = [links EXCEPT ![r] = @ \union Products(scenario[r])]
      /\ audit' = [audit EXCEPT ![r] =
                     IF p = Boot THEN @ ELSE @ \union {"COMPLETED"}]
      /\ Goto(p, "activate")
      /\ UNCHANGED <<scenario, stored, context, ctxLock, startup, backend, work,
                     reason, seen, begun, faults>>

\* An exception in the pipeline or in the linking: rolled back, then the
\* run is marked FAILED in a transaction of its own.
PipelineFails(p) ==
  /\ pc[p] \in {"ingest", "qualify", "link"}
  /\ faults < MaxFaults
  /\ faults' = faults + 1
  /\ Goto(p, "failing")
  /\ UNCHANGED <<lab, context, ctxLock, startup, backend, work, reason, seen,
                 begun>>

\* Mutant: the failure is not audited.
MarkFailed_NoAudit(p) ==
  /\ pc[p] = "failing"
  /\ runs' = [runs EXCEPT ![work[p]] = "FAILED"]
  /\ code' = [code EXCEPT ![work[p]] = "PIPELINE_EXECUTION_FAILED"]
  /\ End(p)
  /\ backend' = IF p = Boot THEN "down" ELSE backend
  /\ UNCHANGED <<scenario, links, stored, audit, context, faults>>

MarkFailed(p) ==
  LET r == work[p]
  IN  /\ pc[p] = "failing"
      /\ runs' = [runs EXCEPT ![r] = "FAILED"]
      /\ code' = [code EXCEPT ![r] = "PIPELINE_EXECUTION_FAILED"]
      /\ audit' = [audit EXCEPT ![r] =
                     IF p = Boot THEN @ ELSE @ \union {"FAILED"}]
      /\ End(p)
      /\ backend' = IF p = Boot THEN "down" ELSE backend
      /\ UNCHANGED <<scenario, links, stored, context, faults>>

-----------------------------------------------------------------------------
(***************************************************************************)
(* Selecting a run: activate_baseline, reset_lab and _activate_run.  The   *)
(* state that _completed_baseline reads is also the one _activate_run      *)
(* tests again: both look at the session's copy of the run.                *)
(***************************************************************************)
Select(t, why) ==
  /\ work' = [work EXCEPT ![t] = Baseline]
  /\ reason' = [reason EXCEPT ![t] = why]
  /\ Goto(t, "activate")
  /\ UNCHANGED <<lab, context, ctxLock, startup, backend, seen, begun, faults>>

ReturnToBaseline(t) ==
  /\ pc[t] = "baseline"
  /\ runs[Baseline] = "COMPLETED"
  /\ Select(t, "RETURN_BASELINE")

ResetLab(t) ==
  /\ pc[t] = "resetCheck"
  /\ Running = {}
  /\ runs[Baseline] = "COMPLETED"
  /\ Select(t, "RESET")

SelectRefused(t) ==
  /\ \/ pc[t] \in {"baseline", "resetCheck"} /\ runs[Baseline] # "COMPLETED"
     \/ pc[t] = "resetCheck" /\ Running # {}
  /\ End(t)
  /\ UNCHANGED <<lab, context, backend, faults>>

\* Mutant: the context is read without FOR UPDATE.
LockContext_NoForUpdate(p) ==
  /\ pc[p] = "activate"
  /\ IF context = NoContext
     THEN Goto(p, "create") /\ UNCHANGED seen
     ELSE /\ Goto(p, "switch")
          /\ seen' = [seen EXCEPT ![p] = context.version]
  /\ UNCHANGED <<lab, context, ctxLock, startup, backend, work, reason, begun,
                 faults>>

\* SELECT ... FOR UPDATE of the singleton; there may be no row to lock.
LockContext(p) ==
  /\ pc[p] = "activate"
  /\ ctxLock = NoRun
  /\ IF context = NoContext
     THEN Goto(p, "create") /\ UNCHANGED <<ctxLock, seen>>
     ELSE /\ Goto(p, "switch")
          /\ ctxLock' = p
          /\ seen' = [seen EXCEPT ![p] = context.version]
  /\ UNCHANGED <<lab, context, startup, backend, work, reason, begun, faults>>

\* Boot's session ends with the lifespan: from now on requests are served.
Opens(p) == backend' = IF p = Boot THEN "up" ELSE backend

\* The audit event of a selection by an administrator is committed with it.
AuditSelection(p) ==
  audit' = IF reason[p] \in {"RETURN_BASELINE", "RESET"}
           THEN [audit EXCEPT ![Baseline] = @ \union {reason[p]}] ELSE audit

SwitchContext(p) ==
  /\ pc[p] = "switch"
  /\ context' = [run |-> work[p], version |-> seen[p] + 1, reason |-> reason[p]]
  /\ AuditSelection(p)
  /\ End(p)
  /\ Opens(p)
  /\ UNCHANGED <<runs, scenario, code, links, stored, faults>>

CreateContext(p) ==
  /\ pc[p] = "create"
  /\ context = NoContext
  /\ context' = [run |-> work[p], version |-> 1, reason |-> reason[p]]
  /\ AuditSelection(p)
  /\ End(p)
  /\ Opens(p)
  /\ UNCHANGED <<runs, scenario, code, links, stored, faults>>

\* The primary key of the singleton: another request created it meanwhile.
CreateConflict(t) ==
  /\ pc[t] = "create"
  /\ context # NoContext
  /\ End(t)
  /\ UNCHANGED <<lab, context, backend, faults>>

-----------------------------------------------------------------------------
(***************************************************************************)
(* The life of the backend                                                 *)
(***************************************************************************)
StartBackend ==
  /\ backend = "down"
  /\ backend' = IF startup THEN "starting" ELSE "up"
  /\ pc' = IF startup THEN [pc EXCEPT ![Boot] = "recover"] ELSE pc
  /\ UNCHANGED <<lab, context, ctxLock, startup, work, reason, seen, begun,
                 faults>>

\* Mutants: the recovery is skipped, ends every run, or uses a state of its
\* own.
RecoverRuns_Skipped ==
  /\ pc[Boot] = "recover"
  /\ Goto(Boot, "ensure")
  /\ UNCHANGED <<lab, context, ctxLock, startup, backend, work, reason, seen,
                 begun, faults>>

RecoverRuns_Interrupted ==
  /\ pc[Boot] = "recover"
  /\ runs' = [r \in AnyRun |-> IF r \in Running THEN "INTERRUPTED" ELSE runs[r]]
  /\ Goto(Boot, "ensure")
  /\ UNCHANGED <<scenario, code, links, stored, audit, context, ctxLock,
                 startup, backend, work, reason, seen, begun, faults>>

\* startup_baseline: runs that a dead backend left RUNNING have failed.
RecoverRuns ==
  /\ pc[Boot] = "recover"
  /\ runs' = [r \in AnyRun |-> IF r \in Running THEN "FAILED" ELSE runs[r]]
  /\ code' = [r \in AnyRun |-> IF r \in Running THEN "BACKEND_RESTARTED"
                               ELSE code[r]]
  /\ Goto(Boot, "ensure")
  /\ UNCHANGED <<scenario, links, stored, audit, context, ctxLock, startup,
                 backend, work, reason, seen, begun, faults>>

\* Mutant: a FAILED Baseline is not executed again.
EnsureBaseline_NoRetry ==
  /\ pc[Boot] = "ensure"
  /\ runs[Baseline] # "FAILED"
  /\ runs' = [runs EXCEPT ![Baseline] = IF @ = "NONE" THEN "RUNNING" ELSE @]
  /\ work' = [work EXCEPT ![Boot] = Baseline]
  /\ reason' = [reason EXCEPT ![Boot] = "STARTUP_BASELINE"]
  /\ Goto(Boot, "ingest")
  /\ UNCHANGED <<scenario, code, links, stored, audit, context, ctxLock,
                 startup, backend, seen, begun, faults>>

\* _ensure_baseline: a Baseline that is not COMPLETED is set RUNNING; a
\* COMPLETED one is executed again as it is.
EnsureBaseline ==
  /\ pc[Boot] = "ensure"
  /\ IF runs[Baseline] = "COMPLETED" THEN UNCHANGED <<runs, code>>
     ELSE /\ runs' = [runs EXCEPT ![Baseline] = "RUNNING"]
          /\ code' = [code EXCEPT ![Baseline] = "NONE"]
  /\ work' = [work EXCEPT ![Boot] = Baseline]
  /\ reason' = [reason EXCEPT ![Boot] = "STARTUP_BASELINE"]
  /\ Goto(Boot, "ingest")
  /\ UNCHANGED <<scenario, links, stored, audit, context, ctxLock, startup,
                 backend, seen, begun, faults>>

\* The backend process dies: its sessions are rolled back.
Crash ==
  /\ backend # "down"
  /\ faults < MaxFaults
  /\ faults' = faults + 1
  /\ backend' = "down"
  /\ ctxLock' = NoRun
  /\ pc' = [p \in Process |-> "idle"]
  /\ work' = [p \in Process |-> NoRun]
  /\ seen' = [p \in Process |-> 0]
  /\ UNCHANGED <<lab, context, startup, reason, begun>>

\* One request loses its connection: no commit, no failure record either.
LoseConnection(t) ==
  /\ pc[t] # "idle"
  /\ faults < MaxFaults
  /\ faults' = faults + 1
  /\ End(t)
  /\ UNCHANGED <<lab, context, backend>>

-----------------------------------------------------------------------------
Execute(p) == Ingest(p) \/ Qualify(p) \/ CompleteRun(p) \/ MarkFailed(p)
Activate(p) == LockContext(p) \/ SwitchContext(p) \/ CreateContext(p)

ThreadStep(t) ==
  \/ StartCheck(t) \/ StartRefused(t) \/ RegisterRun(t) \/ RegisterConflict(t)
  \/ ReturnToBaseline(t) \/ ResetLab(t) \/ SelectRefused(t)
  \/ CreateConflict(t)
  \/ Execute(t) \/ Activate(t)

BootStep == RecoverRuns \/ EnsureBaseline \/ Execute(Boot) \/ Activate(Boot)

Quiesce ==
  /\ backend = "up"
  /\ begun = MaxRequests
  /\ \A p \in Process : pc[p] = "idle"
  /\ UNCHANGED vars

Next ==
  \/ StartBackend \/ BootStep \/ Crash \/ PipelineFails(Boot)
  \/ \E t \in Thread :
       Admit(t) \/ ThreadStep(t) \/ PipelineFails(t) \/ LoseConnection(t)
  \/ Quiesce

Spec == Init /\ [][Next]_vars

\* Compose restarts a backend that is down, and a thread that can move does.
FairSpec ==
  /\ Spec
  /\ WF_vars(StartBackend)
  /\ WF_vars(BootStep)
  /\ \A t \in Thread : WF_vars(ThreadStep(t))

-----------------------------------------------------------------------------
(***************************************************************************)
(* Properties                                                              *)
(***************************************************************************)
Location == {"idle", "check", "insert", "ingest", "qualify", "link", "failing",
             "baseline", "resetCheck", "activate", "switch", "create",
             "recover", "ensure"}
Product == (Scenario \union {NoScenario}) \X {"evidence", "incident"}

\* Every variable has its type.
TypeOK ==
  /\ runs \in [AnyRun -> {"NONE", "RUNNING", "COMPLETED", "FAILED"}]
  /\ scenario \in [AnyRun -> Scenario \union {NoScenario}]
  /\ code \in [AnyRun -> {"NONE", "BACKEND_RESTARTED",
                          "PIPELINE_EXECUTION_FAILED"}]
  /\ links \in [AnyRun -> SUBSET Product]
  /\ stored \in SUBSET Product
  /\ audit \in [AnyRun -> SUBSET ({"STARTED", "COMPLETED", "FAILED"}
                                    \union Reason)]
  /\ context \in Context \union {NoContext}
  /\ ctxLock \in Process \union {NoRun}
  /\ startup \in BOOLEAN
  /\ backend \in {"down", "starting", "up"}
  /\ pc \in [Process -> Location]
  /\ work \in [Process -> AnyRun \union {NoRun}]
  /\ reason \in [Process -> Reason]
  /\ seen \in [Process -> Nat]
  /\ begun \in 0..MaxRequests
  /\ faults \in 0..MaxFaults

\* While requests are served, the active context refers to a completed run
\* and everything that run produced is stored and linked to it, whatever
\* failed, crashed or was selected before: read_current_context never meets
\* the integrity error it tests for.
ActiveRunIsUsable ==
  backend = "up" /\ context # NoContext =>
    /\ runs[context.run] = "COMPLETED"
    /\ links[context.run] = Products(scenario[context.run])
    /\ links[context.run] \subseteq stored

\* Two processes never execute the pipeline at the same time, though the
\* check of start_scenario and its INSERT are separate statements.
OneExecutor ==
  \A p, q \in Process :
    {pc[p], pc[q]} \subseteq {"ingest", "qualify", "link"} => p = q

\* The audit trail tells what became of each scenario run; only a run that
\* a restart has failed has no closing event.  A selection of the Baseline
\* by an administrator is in the trail as well.
AuditMatchesRuns ==
  /\ \A r \in Run :
       /\ "STARTED" \in audit[r] <=> runs[r] # "NONE"
       /\ "COMPLETED" \in audit[r] <=> runs[r] = "COMPLETED"
       /\ "FAILED" \in audit[r] <=>
            runs[r] = "FAILED" /\ code[r] # "BACKEND_RESTARTED"
  /\ (/\ context # NoContext
      /\ context.reason \in {"RETURN_BASELINE", "RESET"})
     => context.reason \in audit[Baseline]

\* No selection is lost: every change of the active context advances its
\* version by one, and a context once created stays.
ContextAdvances ==
  [][context' # context =>
       context'.version = IF context = NoContext THEN 1
                          ELSE context.version + 1]_vars

\* When startup_baseline lets the application serve, no run is left RUNNING
\* and the verified Baseline is the active context.
StartsFromBaseline ==
  [][backend = "starting" /\ backend' = "up" =>
       /\ context'.run = Baseline
       /\ \A r \in AnyRun : runs'[r] # "RUNNING"]_vars

\* What reset_lab says of itself: the lab does not reset while a run is in
\* progress.
NoResetDuringRun ==
  [][context' # context /\ context'.reason = "RESET" => Running = {}]_vars

\* A run that a dead backend left RUNNING does not stay so: the next start
\* ends it, also when that start fails itself and is tried again.
InterruptedRunEnds ==
  \A r \in AnyRun :
    (startup /\ backend # "up" /\ runs[r] = "RUNNING") ~> runs[r] # "RUNNING"

\* A backend that is down or starting serves again.
ServesAgain == backend # "up" ~> backend = "up"

\* Every admitted request is answered.
RequestEnds == \A t \in Thread : pc[t] # "idle" ~> pc[t] = "idle"
=============================================================================
