SPECIFICATION AccountsSpec
CONSTANTS
  None = None
  Idle = Idle
  NoRequest = NoRequest
  Gone = Gone
  Tabs = {x1, x2}
  MaxSessions = 3
  Accounts = {"a"}
  Invites = {1, 2}
  Requests = {x1, x2}
  MaxAttempts = 2
  MaxVersion = 3
  Keys = {k1, k2, k3}
  Managers = {m1, m2}
  Clients = {x1, x2}
  Quota = 2
  Life = 2
  PageSize = 1
  Attempts = 2
  Retries = 1
  MaxTime = 3
  x1 = x1
  x2 = x2
  m1 = m1
  m2 = m2
  k1 = k1
  k2 = k2
  k3 = k3
SYMMETRY Symmetry
INVARIANTS
  KeysHold
  SessionIsOne
PROPERTIES
  AccessIsCurrent
CHECK_DEADLOCK FALSE
