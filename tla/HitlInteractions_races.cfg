SPECIFICATION HitlSpec
CONSTANTS
  u = u
  m = m
  p = p
  None = None
  RevisionIds = {r1, r2}
  Scopes = {s1, s2, s3}
  Auths = {u, m}
  Users = {u}
  Args <- MCArgs
  Artifacts = {}
  Interactions = {i1, i2}
  Requests <- MCRequests
  V3WriteEnabled = TRUE
  MaxSequence = 5
  MaxReplies = 0
  Expiry = 2
  MaxSkew = 1
  MaxTime = 3
  SweepLimit = 1
SYMMETRY Interchangeable
PROPERTIES
  SettledOnceAndTold
CHECK_DEADLOCK FALSE
