SPECIFICATION PairingSpec
CONSTANTS
  None = None
  Idle = Idle
  x1 = x1
  x2 = x2
  p1 = p1
  p2 = p2
  y1 = y1
  y2 = y2
  z = z
  Families = {1, 2}
  Pairings = {1, 2}
  Requests = {x1, x2}
  MaxActive = 1
  MaxFailures = 2
  MaxPasswords = 2
  Uses <- Kinds
  Clocks = {"session", "deadline"}
  Processes = {p1, p2}
  Calls = {y1, y2, z}
  ProcessOf <- ProcessesOfCalls
  Codes = {x1, x2}
  MaxUses = 2
  Closers = {p1, p2}
  MaxExits = 1
SYMMETRY Symmetry
PROPERTIES
  CredentialsEnd
  LeaseIsOwned
CHECK_DEADLOCK FALSE
