CONSTANTS
  r1 = r1  r2 = r2
  w1 = w1  w2 = w2  w3 = w3
  x1 = x1  x2 = x2
  NULL = NULL
  Runners = {r1, r2}
  Runs = {x1, x2}
  Workers = {w1, w2, w3}
  RunnerOf <- MCRunnerOf
  Matches <- MCMatches
  Priority <- MCPriority

SPECIFICATION Spec

INVARIANTS TablesAgree SingleExecution
PROPERTIES EndedIsFinal
