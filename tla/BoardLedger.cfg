SPECIFICATION MCSpec
CONSTANTS
  g = g
  p = p
  a1 = a1
  None = None
  RevisionIds = {r1, r2, r3, r4}
  Scopes = {s1, s2, s3}
  Auths = {g}
  Args <- MCArgs
  Artifacts = {a1}
  Interactions = {}
  Requests <- MCRequests
  V3WriteEnabled = TRUE
  MaxSequence = 4
  MaxReplies = 2
SYMMETRY Interchangeable
INVARIANTS
  ChainHolds
  KeyActsOnce
  LogTellsState
PROPERTIES
  HistoryIsKept
  ImplementsLog
CHECK_DEADLOCK FALSE
