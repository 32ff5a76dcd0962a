CONSTANTS
  NULL = NULL
  MaxRuns = 1
  MaxCommands = 1
  MaxEnds = 2
  Limit <- Once
SPECIFICATION Spec
CHECK_DEADLOCK FALSE
INVARIANT RecoveryInspects
