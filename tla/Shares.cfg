SPECIFICATION SharesSpec
CONSTANTS
  None = None
  Operator = Operator
  Requests = {r1, r2, r3}
  Revisions = {v1, v2}
  Keys = {k1, k2}
  HeadRevision = v2
  MaxFailures = 1
  MaxRecorded = 2
  MaxVersion = 4
  Viewers = {k1, k2}
  FamilyTtl = 2
  LockTtl = 1
  LinkLimit = 2
  AddressLimit = 2
  MaxGen = 4
  MaxTries = 3
  MaxTime = 4
  Servers = {"s1", "s2"}
  Callers = {"a", "b", "c"}
  ServerOf <- Placement
  Kinds = {"guard", "wrong", "valid"}
  Limit = 1
  Window = 3
  Second = 2
  Unset = Unset
  MaxTicks = 6
  MaxRequests = 5
  MaxFaults = 1
SYMMETRY Symmetry
INVARIANTS
  InsideKnewPassword
  LimitsAsTold
PROPERTIES
  LinkTellsTruth
  LocksAreEarned
CHECK_DEADLOCK FALSE
