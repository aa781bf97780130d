SPECIFICATION Spec
CONSTANTS
  EventKinds = {"state", "resync"}
  Window = 3
  CursorsExpire = FALSE
  None = None
  MaxLog = 3
  MaxRotations = 0
  MaxCuts = 1
INVARIANTS
  ResyncKeepsStream
CHECK_DEADLOCK FALSE
