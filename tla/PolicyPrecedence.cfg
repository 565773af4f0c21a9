SPECIFICATION Spec
CONSTANTS
  None = None
  Events <- MCEvents
  SourceClaims <- MCSourceClaims
  TargetClaims <- MCTargetClaims
INVARIANTS
  ReasonFollowsPrecedence
CHECK_DEADLOCK FALSE
