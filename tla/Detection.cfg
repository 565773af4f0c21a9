\* The plant and the correlation evaluator, over schedules, requests and losses.
CONSTANTS
  Configs <- MCConfigs
  Requests <- MCRequests
  Losses <- MCLosses
  Strays <- MCStrays
  NoEnd = NoEnd
  NoAnchor = NoAnchor

SPECIFICATION Spec

INVARIANTS
  TypeOK
  InventoryConserved
  CorrelationHasCause
  ThresholdsFitPlant

PROPERTIES
  CorrelationIsFinal
