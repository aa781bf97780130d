SPECIFICATION HitlFairSpec
CONSTANTS
  u = u
  m = m
  p = p
  None = None
  RevisionIds = {r1}
  Scopes = {s1, s2}
  Auths = {u}
  Users = {u}
  Args <- MCArgs
  Artifacts = {}
  Interactions = {i1, i2}
  Requests <- MCQuestions
  V3WriteEnabled = TRUE
  MaxSequence = 6
  MaxReplies = 0
  Expiry = 2
  MaxSkew = 1
  MaxTime = 3
  SweepLimit = 1
PROPERTIES
  OverdueIsSettled
CHECK_DEADLOCK FALSE
