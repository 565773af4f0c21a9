SPECIFICATION Spec
CONSTANTS
  None = None
  Events <- MCEvents
  SourceClaims <- MCSourceClaims
  TargetClaims <- MCTargetClaims
INVARIANTS
  ApprovalIsJustified
  OnlyUngovernedWriteDiffers
CHECK_DEADLOCK FALSE
