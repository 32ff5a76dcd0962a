CONSTANTS
  t1 = t1
  t2 = t2
  r1 = r1
  r2 = r2
  NULL = NULL
  Turns <- MCTurns
  Requests <- MCRequests
  IoFailures = TRUE
SPECIFICATION FairSpec
INVARIANTS Consistent FinalKeepsInstructions
PROPERTIES StopHolds KeepsPromise Settles
