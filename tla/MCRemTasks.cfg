CONSTANTS
  NULL = NULL
  MaxRuns = 2
  MaxCommands = 2
  MaxEnds = 1
  Limit <- Once
SPECIFICATION FairSpec
CHECK_DEADLOCK FALSE
INVARIANT OneAtWork
PROPERTIES SuccessIsReviewed OutcomeTold RunsEnd
