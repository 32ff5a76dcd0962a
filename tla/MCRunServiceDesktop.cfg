SPECIFICATION FairSpec
CONSTANTS
  r1 = r1  r2 = r2  r3 = r3  p = p  q = q  c1 = c1  c2 = c2 
  Procs = {p}
  Calls = {c1, c2}
  ProcOf <- OneProcess
  Runs = {r1, r2}
  Steps = 1
  Revisions = 2
  Endings = {"workflow", "invalid_inputs"}
  Windows = FALSE
  IoFailures = TRUE
  NULL = NULL
CHECK_DEADLOCK FALSE
INVARIANTS SameRevision PassedStaysPassed OnlyUnfinished
PROPERTIES Returns
