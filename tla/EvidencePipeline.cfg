SPECIFICATION Spec
CONSTANTS
  None = None
  lab = lab
  tool = tool
  client = client
  Sessions = {lab, tool, client}
  UuidOrder <- MCUuidOrder
  Cases <- MCCases
  MaxStarts = 2
  MaxCrashes = 1
  Limit = 2
INVARIANTS
  DuplicateReceiptIsStored
  RerunNeverConflicts
  ReplayIsComplete
  ReplayFollowsLineage
  WalkIsExact
  WaitsAreShort
PROPERTIES
  ImplementsLog
CHECK_DEADLOCK FALSE
