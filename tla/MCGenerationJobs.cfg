CONSTANTS
  c1 = c1  c2 = c2  t1 = t1
  NULL = NULL
  Jobs = {c1, c2, t1}
  Themes = {t1}
  Slots = 1
  Limit = 2
  MaxUnsaved = 1
  MaxUnconfirmed = 1
  MaxEdits = 1
  MaxCommits = 1
  MaxRestarts = 1

SPECIFICATION FairSpec

CHECK_DEADLOCK FALSE

INVARIANTS Consistent OnItsBase CommitsAreKnown
PROPERTIES EndsOnce
