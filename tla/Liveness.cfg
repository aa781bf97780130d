SPECIFICATION LivenessSpec
CONSTANTS
  None = None
  Dispatchers = {"d1", "d2"}
  Events = {1, 2}
  Corrupt = {1}
  BatchLimit = 1
  RetryPolls = 2
  MaxFaults = 1
  MaxCount = 2
PROPERTIES
  ReadersLearn
  CatchesUp
  HintsAccountedFor
  DeliversAtLeastOnce
  WaitersServed
  EveryoneAnswered
  Converges
  LeaseIsFreed
CHECK_DEADLOCK FALSE
