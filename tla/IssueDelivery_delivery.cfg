SPECIFICATION DeliverySpec
CONSTANTS
  CheckNames = {"verify", "lint"}
  RequiredCheck = "verify"
  ObservedStates = {"absent", "running", "success", "failure"}
  MaxRounds = 2
  MaxMergeReReviewRounds = 2
  MaxConflictResolutionAttempts = 2
  MaxCIFixRounds = 2
  MaxOutOfDateRetries = 2
  AgentCommits = TRUE
  MaxMain = 2
  MaxChanges = 3
  MaxForeign = 1
  MaxResumes = 1
INVARIANTS
  DeliveryTypeOK
  MergedWasApproved
  MergedWasGreen
  LowConfidenceIsHeld
  SuccessIsDelivered
PROPERTIES
  ReviewedWasGreen
  NoPushAfterMerge
  RunEnds
CHECK_DEADLOCK FALSE
