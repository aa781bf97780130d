SPECIFICATION StorageSpec
CONSTANTS
  None = None
  x1 = x1
  x2 = x2
  Processes = {x1, x2, "old"}
  Steps <- Kinds
  Known <- Build
  MaxCuts = 2
  Workers = {x1, x2}
  Retained = 2
  MaxAttempts = 1
  MaxRevision = 4
  MaxRuns = 2
  MaxHolds = 1
  Requests = {"r1", "r2", "r3"}
  Owned = {"r1", "r2"}
  Slots = {x1, x2}
  NoSlot = NoSlot
  Works = 2
  Boards = {"b1", "b2"}
  Images = {"i1", "i2"}
  Keys = {"k1", "k2"}
  Uploads = {"u1", "u2"}
  CleanupItems = {x1, x2}
  NoItem = None
  NoRow = None
  Quota = 1
  MaxActiveJobs = 1
  MaxFailures = 2
  MaxLives = 2
  MaxVersion = 4
SYMMETRY Symmetry
INVARIANT
  ImagesAreAccounted
PROPERTIES
  RevisionsAreRetained
  LedgerTellsTruth
  TransactionsAreWhole
CHECK_DEADLOCK FALSE
