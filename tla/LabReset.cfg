SPECIFICATION Spec
CONSTANTS
  Thread = {t1, t2}
  Boot = Boot
  Run = {r1, r2}
  Baseline = Baseline
  Scenario = {S3}
  MaxRequests = 3
  MaxFaults = 0
  NoContext = NoContext
  NoScenario = NoScenario
  NoRun = NoRun
PROPERTY
  NoResetDuringRun
SYMMETRY Symmetry
