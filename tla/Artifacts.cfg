SPECIFICATION ArtifactsSpec
CONSTANTS
  None = None
  x1 = x1
  x2 = x2
  Jobs = {x1, x2}
  Processes = {"p1"}
  Boards = {"b1"}
  ProcessOf <- MCProcessOf
  BoardOf <- MCBoardOf
  GlobalLimit = 1
  RenderSlots = 1
  MaxRetries = 1
  MaxCrashes = 1
  Renders = {x1, x2}
  Slots = 1
  Requests = {x1, x2, "q3", "q4"}
  Good = {x1, x2, "q3"}
  KindOf <- MCKindOf
  MaxResources = 1
  Chunks = 3
  Burst = 2
  MaxAuthored = 4
  MaxControls = 2
  Faults = {"load", "frame", "hang", "script", "invalid"}
  Pointers = {x1, x2}
  NoPointer = None
  MaxDelta = 2
  MaxInFlight = 3
  MaxSwitches = 3
  RequestIds = {x1, x2}
  NoRequest = None
  MaxGestures = 2
  MaxMessages = 3
  MaxEpoch = 2
  Handles = {x1, x2, "h3", "h4", "h5"}
  MaxActive = 2
SYMMETRY Symmetry
INVARIANTS
  ExportsAccounted
  RendersAccounted
  OneClaimIsServed
  NavigationIsOrdered
  SlotsAreExact
PROPERTIES
  BridgeKeepsProtocol
  ClipboardIsGuarded
CHECK_DEADLOCK FALSE
