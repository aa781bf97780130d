SPECIFICATION Spec
CONSTANTS
  EventKinds = {"state"}
  Window = 3
  CursorsExpire = TRUE
  None = None
  MaxLog = 3
  MaxRotations = 0
  MaxCuts = 1
INVARIANTS
  UnusableCursorKeepsStream
CHECK_DEADLOCK FALSE
