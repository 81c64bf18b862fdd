SPECIFICATION FairSpec
CONSTANTS
  Modes = {"plain"}
  Policy = "sbo"
  Executor = "inline"
  BatchSize = 1
  RingSlots = 2
  MaxMsgs = 1
  MaxStops = 0
  MaxRuns = 2
CHECK_DEADLOCK FALSE
PROPERTIES
  WaitEndsWithData
