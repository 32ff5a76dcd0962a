SPECIFICATION Spec
CONSTANTS
  r1 = r1  r2 = r2  r3 = r3  p = p  q = q  c1 = c1  c2 = c2 
  Procs = {p, q}
  Calls = {c1, c2}
  ProcOf <- TwoProcesses
  Runs = {r1, r2, r3}
  Steps = 1
  Revisions = 1
  Endings = {"node", "record", "preflight_failed", "stopped"}
  Windows = FALSE
  IoFailures = FALSE
  NULL = NULL
CHECK_DEADLOCK FALSE
INVARIANTS ResumedOnce RecordsAgree
PROPERTIES EarlierUnchanged
SYMMETRY Symmetric
