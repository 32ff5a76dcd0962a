CONSTANTS
  c = c
  d = d
  m = m
  q = q
  w = w
  lp = lp
  a = a
  b = b
  j = j
  f = f
  g = g
  inf = inf
  x = x
  y = y
  k = k
  p = p
  z = z
  NULL = NULL
  Nodes <- MCNodes
  Order <- MCOrder
  Edges <- MCEdges
  Kind <- MCKind
  ForEach <- MCForEach
  Source <- MCSource
  Size <- MCSize
  Width <- MCWidth
  FailFast <- MCNone
  AwaitAll <- MCNodes
  AllowFailure <- MCNone
  KeepGoing <- MCNone
  Retries <- MCRetries
  Agents <- MCNone
  Outcomes <- MCOutcomes
  Changes <- MCChanges
  Losses <- MCLosses
  MaxTotalNodeRuns = 18
  MaxResumes = 1
SPECIFICATION FairSpec
INVARIANTS Consistent NothingLeftOut NothingRepeated
PROPERTIES Terminates
