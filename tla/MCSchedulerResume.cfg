CONSTANTS
  a = a  b = b  s = s  e = e  v = v
  NULL = NULL
  Nodes = {a, b, s, e, v}
  Rank <- ResumeRank
  Needs <- ResumeNeeds
  Routes <- ResumeRoutes
  Outcomes <- ResumeOutcomes
  MaxConcurrency <- ResumeConcurrency
  MaxRuns <- Unlimited
  WorkflowMaxRuns = NULL
  Finish <- Unlimited
  Loops = {s}
  Source <- Sources
  Breaks = {}
  BreakOf <- None
  PublicOutputs = FALSE
  MaxResumes = 2

SPECIFICATION Spec

INVARIANTS ReuseIsSound StateRebuilt
