SPECIFICATION DeliverySpec
CONSTANTS
  None = None
  Absent = Absent
  NoStream = NoStream
  EventKinds = {"revision", "state", "resync"}
  Window = 2
  CursorsExpire = TRUE
  MaxLog = 4
  MaxRotations = 2
  MaxCuts = 1
  Readers = {"w1", "w2", "w3"}
  MaxGeneration = 1
  Listeners = {"l1", "l2", "l3", "l4"}
  MaxFaults = 1
  MaxSamples = 5
  Streams = {"s1", "s2", "s3"}
  Users = {"u1"}
  UserOf <- TwoTabs
  TabOf <- Reconnects
  Cap = 1
  MaxLosses = 1
INVARIANTS
  SetupsKeepApart
PROPERTIES
  ViewFollowsLog
  NoAnswerMissed
  ReadinessFollowsSamples
  PresenceIsTold
CHECK_DEADLOCK FALSE
