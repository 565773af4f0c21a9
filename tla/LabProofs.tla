------------------------------ MODULE LabProofs ------------------------------
(***************************************************************************)
(* Proofs about ScenarioLab, for any number of request threads, runs and   *)
(* scenarios and any number of requests and faults.                        *)
(***************************************************************************)
EXTENDS ScenarioLab, TLAPS

Executing == {"ingest", "qualify", "link", "failing"}
Activating == {"activate", "switch", "create"}

\* Requests are served only when the lifespan has finished, and the lifespan
\* starts only when every request of the last backend is gone.
LifeInv ==
  /\ backend \in {"up", "down"} => pc[Boot] = "idle"
  /\ backend # "up" => \A t \in Thread : pc[t] = "idle"
  /\ startup => (backend = "up" => runs[Baseline] = "COMPLETED")
  /\ ~startup => backend # "starting" /\ runs[Baseline] = "NONE"

\* A thread that executes has a RUNNING run of its own and is the only one:
\* the unique index admits no second RUNNING run.  A thread that has died
\* leaves its run RUNNING, and the index then admits none at all.
ExecutorInv ==
  /\ \A t \in Thread :
       pc[t] \in Executing => work[t] \in Run /\ runs[work[t]] = "RUNNING"
  /\ \A t, u \in Thread : pc[t] \in Executing /\ pc[u] \in Executing => t = u
  /\ pc[Boot] \in Executing => work[Boot] = Baseline
  /\ pc[Boot] \in Executing \union Activating \union {"ensure"} =>
       \A r \in Run : runs[r] # "RUNNING"
  /\ pc[Boot] = "ensure" => runs[Baseline] # "RUNNING"
  /\ \A p \in Process :
       pc[p] = "link" => Products(scenario[work[p]]) \subseteq stored

\* What a completed run produced is linked and stored; only a completed run
\* is on its way to become the context, and Boot brings the Baseline.
ProductInv ==
  /\ \A r \in AnyRun :
       /\ links[r] \subseteq Products(scenario[r])
       /\ runs[r] = "NONE" => links[r] = {}
       /\ runs[r] = "COMPLETED" =>
            links[r] = Products(scenario[r]) /\ links[r] \subseteq stored
  /\ \A p \in Process :
       pc[p] \in Activating => work[p] \in AnyRun /\ runs[work[p]] = "COMPLETED"
  /\ pc[Boot] \in Activating => work[Boot] = Baseline

\* Whoever is about to switch the context holds its lock and knows its
\* version; a context of a scenario run stays one of a completed run.
ContextInv ==
  /\ \A p \in Process :
       pc[p] = "switch" =>
         ctxLock = p /\ context # NoContext /\ seen[p] = context.version
  /\ context # NoContext =>
       /\ context.run \in Run => runs[context.run] = "COMPLETED"
       /\ context.run = Baseline => runs[Baseline] # "NONE"

LabInv ==
  TypeOK /\ LifeInv /\ ExecutorInv /\ ProductInv /\ ContextInv /\ AuditMatchesRuns

-----------------------------------------------------------------------------
(***************************************************************************)
(* Facts about the operators                                               *)
(***************************************************************************)
\* What the pipeline makes of a case has the type of what it stores.
LEMMA ProductsType ==
  ASSUME NEW s \in Scenario \union {NoScenario}
  PROVE  Products(s) \subseteq Product
  BY DEF Products, Product

\* Whoever executes or activates has a run.
LEMMA WorkIsRun ==
  ASSUME LabInv, NEW p \in Process, pc[p] \in Executing \union Activating
  PROVE  /\ work[p] \in AnyRun
         /\ scenario[work[p]] \in Scenario \union {NoScenario}
  BY DEF LabInv, TypeOK, ExecutorInv, ProductInv, Process, AnyRun

-----------------------------------------------------------------------------
(***************************************************************************)
(* Every action preserves the invariant                                    *)
(***************************************************************************)
\* A request that is answered, refused or cut off, and changes nothing else:
\* StartRefused, RegisterConflict, SelectRefused, CreateConflict, LoseConnection.
LEMMA AnswerStep ==
  ASSUME LabInv, NEW t \in Thread, End(t), UNCHANGED <<lab, context, backend>>,
         faults' \in 0..MaxFaults
  PROVE  LabInv'
  <1> USE IdentityAssumption DEF LabInv, End, Goto, lab, Process, AnyRun
  <1>1. TypeOK'
    BY DEF TypeOK, Location
  <1>2. LifeInv'
    BY DEF TypeOK, LifeInv, ExecutorInv, ProductInv, Running, Executing, Activating
  <1>3. ExecutorInv'
    BY DEF TypeOK, LifeInv, ExecutorInv, ProductInv, Running, Executing, Activating
  <1>4. ProductInv'
    BY DEF TypeOK, LifeInv, ExecutorInv, ProductInv, Running, Executing, Activating
  <1>5. ContextInv'
    BY DEF TypeOK, LifeInv, ExecutorInv, ProductInv, ContextInv, Executing,
           Activating, Context, Running
  <1>6. AuditMatchesRuns'
    BY DEF TypeOK, AuditMatchesRuns, ExecutorInv, Executing, Context, Running
  <1> QED
    BY <1>1, <1>2, <1>3, <1>4, <1>5, <1>6

\* A request that is admitted, or has found no run in progress: it has no run
\* and no lock yet.
LEMMA MoveStep ==
  ASSUME LabInv, NEW t \in Thread, NEW l \in {"check", "baseline", "resetCheck", "insert"},
         backend = "up", Goto(t, l), begun' \in 0..MaxRequests,
         UNCHANGED <<lab, context, ctxLock, startup, backend, work, reason, seen,
                     faults>>
  PROVE  LabInv'
  <1> USE IdentityAssumption DEF LabInv, Goto, lab, Process, AnyRun
  <1>1. TypeOK'
    BY DEF TypeOK, Location
  <1>2. LifeInv'
    BY DEF TypeOK, LifeInv, ExecutorInv, ProductInv, Running, Executing, Activating
  <1>3. ExecutorInv'
    BY DEF TypeOK, LifeInv, ExecutorInv, ProductInv, Running, Executing, Activating
  <1>4. ProductInv'
    BY DEF TypeOK, LifeInv, ExecutorInv, ProductInv, Running, Executing, Activating
  <1>5. ContextInv'
    BY DEF TypeOK, LifeInv, ExecutorInv, ProductInv, ContextInv, Executing,
           Activating, Context, Running
  <1>6. AuditMatchesRuns'
    BY DEF TypeOK, AuditMatchesRuns, ExecutorInv, Executing, Context, Running
  <1> QED
    BY <1>1, <1>2, <1>3, <1>4, <1>5, <1>6

\* The INSERT of a run: the index saw no RUNNING one, so nobody executes.
LEMMA RegisterRunStep ==
  ASSUME LabInv, NEW t \in Thread, RegisterRun(t)
  PROVE  LabInv'
  <1> USE IdentityAssumption DEF LabInv, RegisterRun, MayRun, Goto, lab, Process, AnyRun
  <1>1. TypeOK'
    BY DEF TypeOK, Location, Running, Reason
  <1>2. LifeInv'
    BY DEF TypeOK, LifeInv, ExecutorInv, ProductInv, Running, Executing, Activating
  <1>3. ExecutorInv'
    BY DEF TypeOK, LifeInv, ExecutorInv, ProductInv, Running, Executing, Activating
  <1>4. ProductInv'
    BY DEF TypeOK, LifeInv, ExecutorInv, ProductInv, Running, Executing, Activating
  <1>5. ContextInv'
    BY DEF TypeOK, LifeInv, ExecutorInv, ProductInv, ContextInv, Executing,
           Activating, Context, Running
  <1>6. AuditMatchesRuns'
    BY DEF TypeOK, AuditMatchesRuns, ExecutorInv, Executing, Context, Running
  <1> QED
    BY <1>1, <1>2, <1>3, <1>4, <1>5, <1>6

\* The two commits of the pipeline only add to what is stored.
LEMMA IngestStep ==
  ASSUME LabInv, NEW p \in Process, Ingest(p)
  PROVE  LabInv'
  <1> USE IdentityAssumption DEF LabInv, Ingest, Goto, lab, Process, AnyRun
  <1>1. TypeOK'
    <2>1. Products(scenario[work[p]]) \subseteq Product
      BY WorkIsRun, ProductsType DEF Executing
    <2> QED
      BY <2>1 DEF TypeOK, Location, Products
  <1>2. LifeInv'
    BY DEF TypeOK, LifeInv, ExecutorInv, ProductInv, Running, Executing, Activating
  <1>3. ExecutorInv'
    BY DEF TypeOK, LifeInv, ExecutorInv, ProductInv, Running, Executing, Activating
  <1>4. ProductInv'
    BY DEF TypeOK, LifeInv, ExecutorInv, ProductInv, Running, Executing, Activating
  <1>5. ContextInv'
    BY DEF TypeOK, LifeInv, ExecutorInv, ProductInv, ContextInv, Executing,
           Activating, Context, Running
  <1>6. AuditMatchesRuns'
    BY DEF TypeOK, AuditMatchesRuns, ExecutorInv, Executing, Context, Running
  <1> QED
    BY <1>1, <1>2, <1>3, <1>4, <1>5, <1>6

\* The incident of the case, where it qualifies one.
LEMMA QualifyStep ==
  ASSUME LabInv, NEW p \in Process, Qualify(p)
  PROVE  LabInv'
  <1> USE IdentityAssumption DEF LabInv, Qualify, Goto, lab, Process, AnyRun
  <1>1. TypeOK'
    <2>1. Products(scenario[work[p]]) \subseteq Product
      BY WorkIsRun, ProductsType DEF Executing
    <2> QED
      BY <2>1 DEF TypeOK, Location
  <1>2. LifeInv'
    BY DEF TypeOK, LifeInv, ExecutorInv, ProductInv, Running, Executing, Activating
  <1>3. ExecutorInv'
    BY DEF TypeOK, LifeInv, ExecutorInv, ProductInv, Running, Executing, Activating
  <1>4. ProductInv'
    BY DEF TypeOK, LifeInv, ExecutorInv, ProductInv, Running, Executing, Activating
  <1>5. ContextInv'
    BY DEF TypeOK, LifeInv, ExecutorInv, ProductInv, ContextInv, Executing,
           Activating, Context, Running
  <1>6. AuditMatchesRuns'
    BY DEF TypeOK, AuditMatchesRuns, ExecutorInv, Executing, Context, Running
  <1> QED
    BY <1>1, <1>2, <1>3, <1>4, <1>5, <1>6

\* The run is completed by the process that executes it.
LEMMA CompleteRunStep ==
  ASSUME LabInv, NEW p \in Process, CompleteRun(p)
  PROVE  LabInv'
  <1> USE IdentityAssumption DEF LabInv, CompleteRun, Goto, lab, Process, AnyRun
  <1>1. TypeOK'
    <2>1. work[p] \in AnyRun /\ Products(scenario[work[p]]) \subseteq Product
      BY WorkIsRun, ProductsType DEF Executing
    <2> QED
      BY <2>1 DEF TypeOK, Location
  <1>2. LifeInv'
    BY DEF TypeOK, LifeInv, ExecutorInv, ProductInv, Running, Executing, Activating
  <1>3. ExecutorInv'
    BY DEF TypeOK, LifeInv, ExecutorInv, ProductInv, Running, Executing, Activating
  <1>4. ProductInv'
    BY DEF TypeOK, LifeInv, ExecutorInv, ProductInv, Running, Executing, Activating
  <1>5. ContextInv'
    BY DEF TypeOK, LifeInv, ExecutorInv, ProductInv, ContextInv, Executing,
           Activating, Context, Running
  <1>6. AuditMatchesRuns'
    BY DEF TypeOK, AuditMatchesRuns, ExecutorInv, Executing, Context, Running
  <1> QED
    BY <1>1, <1>2, <1>3, <1>4, <1>5, <1>6

\* The pipeline raises: the run stays RUNNING until it is marked.
LEMMA PipelineFailsStep ==
  ASSUME LabInv, NEW p \in Process, PipelineFails(p)
  PROVE  LabInv'
  <1> USE IdentityAssumption DEF LabInv, PipelineFails, Goto, lab, Process, AnyRun
  <1>1. TypeOK'
    BY BoundAssumption DEF TypeOK, Location
  <1>2. LifeInv'
    BY DEF TypeOK, LifeInv, ExecutorInv, ProductInv, Running, Executing, Activating
  <1>3. ExecutorInv'
    BY DEF TypeOK, LifeInv, ExecutorInv, ProductInv, Running, Executing, Activating
  <1>4. ProductInv'
    BY DEF TypeOK, LifeInv, ExecutorInv, ProductInv, Running, Executing, Activating
  <1>5. ContextInv'
    BY DEF TypeOK, LifeInv, ExecutorInv, ProductInv, ContextInv, Executing,
           Activating, Context, Running
  <1>6. AuditMatchesRuns'
    BY DEF TypeOK, AuditMatchesRuns, ExecutorInv, Executing, Context, Running
  <1> QED
    BY <1>1, <1>2, <1>3, <1>4, <1>5, <1>6

\* The failed run is marked; a failed Baseline ends the backend.
LEMMA MarkFailedStep ==
  ASSUME LabInv, NEW p \in Process, MarkFailed(p)
  PROVE  LabInv'
  <1> USE IdentityAssumption DEF LabInv, MarkFailed, End, Goto, lab, Process, AnyRun
  <1>1. TypeOK'
    BY DEF TypeOK, Location
  <1>2. LifeInv'
    BY DEF TypeOK, LifeInv, ExecutorInv, ProductInv, Running, Executing, Activating
  <1>3. ExecutorInv'
    BY DEF TypeOK, LifeInv, ExecutorInv, ProductInv, Running, Executing, Activating
  <1>4. ProductInv'
    BY DEF TypeOK, LifeInv, ExecutorInv, ProductInv, Running, Executing, Activating
  <1>5. ContextInv'
    BY DEF TypeOK, LifeInv, ExecutorInv, ProductInv, ContextInv, Executing,
           Activating, Context, Running
  <1>6. AuditMatchesRuns'
    BY DEF TypeOK, AuditMatchesRuns, ExecutorInv, Executing, Context, Running
  <1> QED
    BY <1>1, <1>2, <1>3, <1>4, <1>5, <1>6

\* The COMPLETED Baseline is selected: ReturnToBaseline and ResetLab.
LEMMA SelectStep ==
  ASSUME LabInv, NEW t \in Thread, NEW why \in Reason,
         pc[t] \in {"baseline", "resetCheck"}, runs[Baseline] = "COMPLETED",
         Select(t, why)
  PROVE  LabInv'
  <1> USE IdentityAssumption DEF LabInv, Select, Goto, lab, Process, AnyRun
  <1>1. TypeOK'
    BY DEF TypeOK, Location
  <1>2. LifeInv'
    BY DEF TypeOK, LifeInv, ExecutorInv, ProductInv, Running, Executing, Activating
  <1>3. ExecutorInv'
    BY DEF TypeOK, LifeInv, ExecutorInv, ProductInv, Running, Executing, Activating
  <1>4. ProductInv'
    BY DEF TypeOK, LifeInv, ExecutorInv, ProductInv, Running, Executing, Activating
  <1>5. ContextInv'
    BY DEF TypeOK, LifeInv, ExecutorInv, ProductInv, ContextInv, Executing,
           Activating, Context, Running
  <1>6. AuditMatchesRuns'
    BY DEF TypeOK, AuditMatchesRuns, ExecutorInv, Executing, Context, Running
  <1> QED
    BY <1>1, <1>2, <1>3, <1>4, <1>5, <1>6

\* The lock is free, so nobody else is about to switch.
LEMMA LockContextStep ==
  ASSUME LabInv, NEW p \in Process, LockContext(p)
  PROVE  LabInv'
  <1> USE IdentityAssumption DEF LabInv, LockContext, Goto, lab, Process, AnyRun
  <1>1. TypeOK'
    BY DEF TypeOK, Location, Context
  <1>2. LifeInv'
    BY DEF TypeOK, LifeInv, ExecutorInv, ProductInv, Running, Executing, Activating
  <1>3. ExecutorInv'
    BY DEF TypeOK, LifeInv, ExecutorInv, ProductInv, Running, Executing, Activating
  <1>4. ProductInv'
    BY DEF TypeOK, LifeInv, ExecutorInv, ProductInv, Running, Executing, Activating
  <1>5. ContextInv'
    BY DEF TypeOK, LifeInv, ExecutorInv, ProductInv, ContextInv, Executing,
           Activating, Context, Running
  <1>6. AuditMatchesRuns'
    BY DEF TypeOK, AuditMatchesRuns, ExecutorInv, Executing, Context, Running
  <1> QED
    BY <1>1, <1>2, <1>3, <1>4, <1>5, <1>6

\* The holder of the lock switches; it alone can.
LEMMA SwitchContextStep ==
  ASSUME LabInv, NEW p \in Process, SwitchContext(p)
  PROVE  LabInv'
  <1> USE IdentityAssumption DEF LabInv, SwitchContext, End, Goto, Opens,
                             AuditSelection, lab, Process, AnyRun
  <1>1. TypeOK'
    <2>1. work[p] \in AnyRun
      BY WorkIsRun DEF Activating
    <2>2. context' \in Context
      BY <2>1 DEF TypeOK, Context
    <2> QED
      BY <2>2 DEF TypeOK, Location, Reason
  <1>2. LifeInv'
    BY DEF TypeOK, LifeInv, ExecutorInv, ProductInv, Running, Executing, Activating
  <1>3. ExecutorInv'
    BY DEF TypeOK, LifeInv, ExecutorInv, ProductInv, Running, Executing, Activating
  <1>4. ProductInv'
    BY DEF TypeOK, LifeInv, ExecutorInv, ProductInv, Running, Executing, Activating
  <1>5. ContextInv'
    BY DEF TypeOK, LifeInv, ExecutorInv, ProductInv, ContextInv, Executing,
           Activating, Context, Running
  <1>6. AuditMatchesRuns'
    BY DEF TypeOK, AuditMatchesRuns, ExecutorInv, Executing, Context, Running
  <1> QED
    BY <1>1, <1>2, <1>3, <1>4, <1>5, <1>6

\* The first context.
LEMMA CreateContextStep ==
  ASSUME LabInv, NEW p \in Process, CreateContext(p)
  PROVE  LabInv'
  <1> USE IdentityAssumption DEF LabInv, CreateContext, End, Goto, Opens,
                             AuditSelection, lab, Process, AnyRun
  <1>1. TypeOK'
    <2>1. work[p] \in AnyRun
      BY WorkIsRun DEF Activating
    <2>2. context' \in Context
      BY <2>1 DEF TypeOK, Context
    <2> QED
      BY <2>2 DEF TypeOK, Location, Reason
  <1>2. LifeInv'
    BY DEF TypeOK, LifeInv, ExecutorInv, ProductInv, Running, Executing, Activating
  <1>3. ExecutorInv'
    BY DEF TypeOK, LifeInv, ExecutorInv, ProductInv, Running, Executing, Activating
  <1>4. ProductInv'
    BY DEF TypeOK, LifeInv, ExecutorInv, ProductInv, Running, Executing, Activating
  <1>5. ContextInv'
    BY DEF TypeOK, LifeInv, ExecutorInv, ProductInv, ContextInv, Executing,
           Activating, Context, Running
  <1>6. AuditMatchesRuns'
    BY DEF TypeOK, AuditMatchesRuns, ExecutorInv, Executing, Context, Running
  <1> QED
    BY <1>1, <1>2, <1>3, <1>4, <1>5, <1>6

\* Nobody is left of the last backend.
LEMMA StartBackendStep ==
  ASSUME LabInv, StartBackend
  PROVE  LabInv'
  <1> USE IdentityAssumption DEF LabInv, StartBackend, lab, Process, AnyRun
  <1>1. TypeOK'
    BY DEF TypeOK, Location
  <1>2. LifeInv'
    BY DEF TypeOK, LifeInv, ExecutorInv, ProductInv, Running, Executing, Activating
  <1>3. ExecutorInv'
    BY DEF TypeOK, LifeInv, ExecutorInv, ProductInv, Running, Executing, Activating
  <1>4. ProductInv'
    BY DEF TypeOK, LifeInv, ExecutorInv, ProductInv, Running, Executing, Activating
  <1>5. ContextInv'
    BY DEF TypeOK, LifeInv, ExecutorInv, ProductInv, ContextInv, Executing,
           Activating, Context, Running
  <1>6. AuditMatchesRuns'
    BY DEF TypeOK, AuditMatchesRuns, ExecutorInv, Executing, Context, Running
  <1> QED
    BY <1>1, <1>2, <1>3, <1>4, <1>5, <1>6

\* Every run the last backend left RUNNING has failed.
LEMMA RecoverRunsStep ==
  ASSUME LabInv, RecoverRuns
  PROVE  LabInv'
  <1> USE IdentityAssumption DEF LabInv, RecoverRuns, Goto, lab, Process, AnyRun
  <1>1. TypeOK'
    BY DEF TypeOK, Location
  <1>2. LifeInv'
    BY DEF TypeOK, LifeInv, ExecutorInv, ProductInv, Running, Executing, Activating
  <1>3. ExecutorInv'
    BY DEF TypeOK, LifeInv, ExecutorInv, ProductInv, Running, Executing, Activating
  <1>4. ProductInv'
    BY DEF TypeOK, LifeInv, ExecutorInv, ProductInv, Running, Executing, Activating
  <1>5. ContextInv'
    BY DEF TypeOK, LifeInv, ExecutorInv, ProductInv, ContextInv, Executing,
           Activating, Context, Running
  <1>6. AuditMatchesRuns'
    BY DEF TypeOK, AuditMatchesRuns, ExecutorInv, Executing, Context, Running
  <1> QED
    BY <1>1, <1>2, <1>3, <1>4, <1>5, <1>6

\* The Baseline is the only run that can now be RUNNING.
LEMMA EnsureBaselineStep ==
  ASSUME LabInv, EnsureBaseline
  PROVE  LabInv'
  <1> USE IdentityAssumption DEF LabInv, EnsureBaseline, Goto, lab, Process, AnyRun
  <1>1. TypeOK'
    BY DEF TypeOK, Location, Reason
  <1>2. LifeInv'
    BY DEF TypeOK, LifeInv, ExecutorInv, ProductInv, Running, Executing, Activating
  <1>3. ExecutorInv'
    BY DEF TypeOK, LifeInv, ExecutorInv, ProductInv, Running, Executing, Activating
  <1>4. ProductInv'
    BY DEF TypeOK, LifeInv, ExecutorInv, ProductInv, Running, Executing, Activating
  <1>5. ContextInv'
    BY DEF TypeOK, LifeInv, ExecutorInv, ProductInv, ContextInv, Executing,
           Activating, Context, Running
  <1>6. AuditMatchesRuns'
    BY DEF TypeOK, AuditMatchesRuns, ExecutorInv, Executing, Context, Running
  <1> QED
    BY <1>1, <1>2, <1>3, <1>4, <1>5, <1>6

\* Everything a process holds is lost, the tables stay.
LEMMA CrashStep ==
  ASSUME LabInv, Crash
  PROVE  LabInv'
  <1> USE IdentityAssumption DEF LabInv, Crash, lab, Process, AnyRun
  <1>1. TypeOK'
    BY BoundAssumption DEF TypeOK, Location
  <1>2. LifeInv'
    BY DEF TypeOK, LifeInv, ExecutorInv, ProductInv, Running, Executing, Activating
  <1>3. ExecutorInv'
    BY DEF TypeOK, LifeInv, ExecutorInv, ProductInv, Running, Executing, Activating
  <1>4. ProductInv'
    BY DEF TypeOK, LifeInv, ExecutorInv, ProductInv, Running, Executing, Activating
  <1>5. ContextInv'
    BY DEF TypeOK, LifeInv, ExecutorInv, ProductInv, ContextInv, Executing,
           Activating, Context, Running
  <1>6. AuditMatchesRuns'
    BY DEF TypeOK, AuditMatchesRuns, ExecutorInv, Executing, Context, Running
  <1> QED
    BY <1>1, <1>2, <1>3, <1>4, <1>5, <1>6

\* The backend at start.
LEMMA InitLabInv == Init => LabInv
  <1> SUFFICES ASSUME Init PROVE LabInv
    OBVIOUS
  <1> USE IdentityAssumption, BoundAssumption DEF Init, Process, AnyRun
  <1>1. TypeOK
    BY DEF TypeOK, Location, Reason
  <1>2. LifeInv /\ ExecutorInv
    BY DEF LifeInv, ExecutorInv, Executing, Activating
  <1>3. ProductInv /\ ContextInv
    BY DEF ProductInv, ContextInv, Executing, Activating
  <1>4. AuditMatchesRuns
    BY DEF AuditMatchesRuns
  <1> QED
    BY <1>1, <1>2, <1>3, <1>4 DEF LabInv

\* What a request thread does, served by an open backend.
LEMMA ThreadPreserves ==
  ASSUME LabInv, NEW t \in Thread,
         Admit(t) \/ ThreadStep(t) \/ PipelineFails(t) \/ LoseConnection(t)
  PROVE  LabInv'
  <1>1. t \in Process
    BY DEF Process
  <1>2. CASE Admit(t)
    <2>1. begun' \in 0..MaxRequests
      BY <1>2, BoundAssumption DEF Admit, LabInv, TypeOK
    <2> QED
      BY <1>2, <2>1, MoveStep DEF Admit
  <1>3. CASE StartCheck(t)
    <2>1. backend = "up" /\ begun' \in 0..MaxRequests
      BY <1>3 DEF StartCheck, LabInv, LifeInv, TypeOK
    <2> QED
      BY <1>3, <2>1, MoveStep DEF StartCheck
  <1>4. CASE StartRefused(t) \/ RegisterConflict(t) \/ SelectRefused(t)
             \/ CreateConflict(t) \/ LoseConnection(t)
    <2>1. faults' \in 0..MaxFaults
      BY <1>4, BoundAssumption
      DEF StartRefused, RegisterConflict, SelectRefused, CreateConflict,
          LoseConnection, LabInv, TypeOK
    <2>2. End(t) /\ UNCHANGED <<lab, context, backend>>
      BY <1>4 DEF StartRefused, RegisterConflict, SelectRefused,
                  CreateConflict, LoseConnection
    <2> QED
      BY <2>1, <2>2, AnswerStep
  <1>5. CASE ReturnToBaseline(t) \/ ResetLab(t)
    BY <1>5, SelectStep DEF ReturnToBaseline, ResetLab, Reason
  <1>6. CASE RegisterRun(t)
    BY <1>6, RegisterRunStep
  <1>7. CASE Execute(t) \/ PipelineFails(t)
    BY <1>1, <1>7, IngestStep, QualifyStep, CompleteRunStep, MarkFailedStep,
       PipelineFailsStep DEF Execute
  <1>8. CASE Activate(t)
    BY <1>1, <1>8, LockContextStep, SwitchContextStep, CreateContextStep
    DEF Activate
  <1> QED
    BY <1>2, <1>3, <1>4, <1>5, <1>6, <1>7, <1>8 DEF ThreadStep

\* What the lifespan does.
LEMMA BootPreserves ==
  ASSUME LabInv, BootStep \/ PipelineFails(Boot)
  PROVE  LabInv'
  <1>1. Boot \in Process
    BY DEF Process
  <1>2. CASE RecoverRuns \/ EnsureBaseline
    BY <1>2, RecoverRunsStep, EnsureBaselineStep
  <1>3. CASE Execute(Boot) \/ PipelineFails(Boot)
    BY <1>1, <1>3, IngestStep, QualifyStep, CompleteRunStep, MarkFailedStep,
       PipelineFailsStep DEF Execute
  <1>4. CASE Activate(Boot)
    BY <1>1, <1>4, LockContextStep, SwitchContextStep, CreateContextStep
    DEF Activate
  <1> QED
    BY <1>2, <1>3, <1>4 DEF BootStep

LEMMA StutterPreserves ==
  ASSUME LabInv, UNCHANGED vars
  PROVE  LabInv'
  BY DEF vars, lab, LabInv, TypeOK, LifeInv, ExecutorInv, ProductInv,
         ContextInv, AuditMatchesRuns, Running, Executing, Activating

-----------------------------------------------------------------------------
(***************************************************************************)
(* The theorems                                                            *)
(***************************************************************************)
\* The invariant holds in every reachable state.
THEOREM LabInvariant == Spec => []LabInv
  <1>1. LabInv /\ [Next]_vars => LabInv'
    BY ThreadPreserves, BootPreserves, StartBackendStep, CrashStep,
       StutterPreserves DEF Next, Quiesce
  <1> QED
    BY InitLabInv, <1>1, PTL DEF Spec

\* Every variable of the lab keeps its type, the bounds on requests and
\* faults included.
THEOREM LabTypeCorrect == Spec => []TypeOK
  <1>1. LabInv => TypeOK
    BY DEF LabInv
  <1> QED
    BY <1>1, LabInvariant, PTL

\* start_scenario and startup_baseline: whatever the threads do between the
\* check and the INSERT, whoever dies, one process at a time executes.
THEOREM OneExecutorTheorem == Spec => []OneExecutor
  <1>1. LabInv => OneExecutor
    BY DEF LabInv, TypeOK, LifeInv, ExecutorInv, OneExecutor, Executing, Process
  <1> QED
    BY <1>1, LabInvariant, PTL

\* read_current_context never meets a run that is not completed, or whose
\* evidence or incident is missing.
THEOREM ActiveRunTheorem == Spec => []ActiveRunIsUsable
  <1>1. LabInv => ActiveRunIsUsable
    BY DEF LabInv, TypeOK, LifeInv, ProductInv, ContextInv, ActiveRunIsUsable,
           Context, AnyRun
  <1> QED
    BY <1>1, LabInvariant, PTL

\* The audit events of a run tell its state, and a selection by an
\* administrator is in the trail.
THEOREM AuditTheorem == Spec => []AuditMatchesRuns
  <1>1. LabInv => AuditMatchesRuns
    BY DEF LabInv
  <1> QED
    BY <1>1, LabInvariant, PTL

\* Only two actions write the context; the version the lock has shown is
\* still the present one when it is advanced.
LEMMA ContextWriters ==
  ASSUME LabInv, Next
  PROVE  \/ UNCHANGED <<context, backend>>
         \/ \E p \in Process : SwitchContext(p) \/ CreateContext(p)
         \/ UNCHANGED context /\ ~(backend = "starting" /\ backend' = "up")
  BY DEF Next, BootStep, ThreadStep, Execute, Activate, Quiesce, vars, lab, Admit,
         StartCheck, StartRefused, RegisterRun, RegisterConflict, Ingest, Qualify,
         CompleteRun, PipelineFails, MarkFailed, Select, ReturnToBaseline, ResetLab,
         SelectRefused, LockContext, CreateConflict, StartBackend, RecoverRuns,
         EnsureBaseline, Crash, LoseConnection, Process

\* _activate_run loses no selection: concurrent ones are serialised by the
\* row lock, and each advances the version by one.
THEOREM ContextTheorem == Spec => ContextAdvances
  <1>1. ASSUME LabInv, Next, context' # context
        PROVE  context'.version = IF context = NoContext THEN 1
                                  ELSE context.version + 1
    <2>1. PICK p \in Process : SwitchContext(p) \/ CreateContext(p)
      BY <1>1, ContextWriters
    <2>2. CASE SwitchContext(p)
      BY <1>1, <2>2 DEF SwitchContext, LabInv, ContextInv
    <2>3. CASE CreateContext(p)
      BY <2>3 DEF CreateContext
    <2> QED
      BY <2>1, <2>2, <2>3
  <1>2. LabInv /\ [Next]_vars =>
          [context' # context =>
             context'.version = IF context = NoContext THEN 1
                                ELSE context.version + 1]_vars
    BY <1>1
  <1> QED
    BY <1>2, LabInvariant, PTL DEF Spec, ContextAdvances

\* startup_baseline opens the application with the Baseline as the context
\* and no run left RUNNING, however many backends have died before.
THEOREM StartTheorem == Spec => StartsFromBaseline
  <1>1. ASSUME LabInv, Next, backend = "starting", backend' = "up"
        PROVE  /\ context'.run = Baseline
               /\ \A r \in AnyRun : runs'[r] # "RUNNING"
    <2>1. PICK p \in Process : SwitchContext(p) \/ CreateContext(p)
      BY <1>1, ContextWriters
    <2>2. p = Boot /\ pc[p] \in Activating
      BY <1>1, <2>1 DEF SwitchContext, CreateContext, LabInv, LifeInv, Activating, Process
    <2>3. work[Boot] = Baseline /\ \A r \in AnyRun : runs[r] # "RUNNING"
      BY <1>1, <2>2 DEF LabInv, ExecutorInv, ProductInv, AnyRun, Process
    <2> QED
      BY <2>1, <2>2, <2>3 DEF SwitchContext, CreateContext
  <1>2. LabInv /\ [Next]_vars =>
          [backend = "starting" /\ backend' = "up" =>
             /\ context'.run = Baseline
             /\ \A r \in AnyRun : runs'[r] # "RUNNING"]_vars
    BY <1>1
  <1> QED
    BY <1>2, LabInvariant, PTL DEF Spec, StartsFromBaseline
=============================================================================
