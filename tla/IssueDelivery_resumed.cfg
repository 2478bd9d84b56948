SPECIFICATION DeliverySpec
CONSTANTS
  CheckNames = {"verify", "lint"}
  RequiredCheck = "verify"
  ObservedStates = {"absent", "running", "success", "failure"}
  MaxRounds = 2
  MaxMergeReReviewRounds = 2
  MaxConflictResolutionAttempts = 2
  MaxCIFixRounds = 2
  MaxOutOfDateRetries = 2
  AgentCommits = FALSE
  MaxMain = 2
  MaxChanges = 3
  MaxForeign = 0
  MaxResumes = 1
INVARIANT PostApprovalConflictIsReviewed
CHECK_DEADLOCK FALSE
