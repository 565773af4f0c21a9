SPECIFICATION FairSpec
CONSTANTS
  Thread = {t1, t2}
  Boot = Boot
  Run = {r1, r2}
  Baseline = Baseline
  Scenario = {S3}
  MaxRequests = 3
  MaxFaults = 2
  NoContext = NoContext
  NoScenario = NoScenario
  NoRun = NoRun
INVARIANTS
  TypeOK
  ActiveRunIsUsable
  OneExecutor
  AuditMatchesRuns
PROPERTIES
  ContextAdvances
  StartsFromBaseline
  InterruptedRunEnds
  ServesAgain
  RequestEnds
