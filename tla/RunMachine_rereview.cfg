SPECIFICATION Spec
CONSTANTS
  MaxRounds = 2
  MaxMergeReReviewRounds = 2
  MaxMergeConflicts = 3
INVARIANTS
  MergeReReviewsCapped
CHECK_DEADLOCK FALSE
