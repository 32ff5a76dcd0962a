CONSTANTS
  a = a  b = b  j = j  f = f  s = s  w = w  k = k  c = c  i = i  v = v  x = x
  NULL = NULL
  Nodes = {a, b, j, f, s, w, k, c, i, v, x}
  Rank <- GraphRank
  Needs <- GraphNeeds
  Routes <- GraphRoutes
  Outcomes <- GraphOutcomes
  MaxConcurrency <- GraphConcurrency
  MaxRuns <- GraphMaxRuns
  WorkflowMaxRuns = 8
  Finish <- GraphFinish
  Loops = {s, i}
  Source <- Sources
  Breaks = {k, x}
  BreakOf <- Targeted
  PublicOutputs = TRUE
  MaxResumes = 0

SPECIFICATION FairSpec

INVARIANTS Readiness Coalesced Limits PassIsEarned
PROPERTIES UnlockCoalesces LoopRules Termination
