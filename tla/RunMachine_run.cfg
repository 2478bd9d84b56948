SPECIFICATION FairSpec
CONSTANTS
  MaxRounds = 3
  MaxMergeReReviewRounds = 2
  MaxMergeConflicts = 4
INVARIANTS
  TypeOK
  DispatchTotal
  DevAttemptsBounded
  ReworkBudget
  EscalatesOnlyWhenExhausted
  SuccessIsReviewed
PROPERTIES
  ImplementsReviewLoop
  RunTerminates
CHECK_DEADLOCK FALSE
