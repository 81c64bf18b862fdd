SPECIFICATION FairSpec
CONSTANTS
  Modes = {"backpressure", "batched"}
  Policy = "sbo"
  Executor = "mixed"
  BatchSize = 2
  RingSlots = 2
  MaxMsgs = 3
  MaxStops = 2
  MaxRuns = 2
CHECK_DEADLOCK FALSE
INVARIANTS
  HandlerSeesItsMessage
  BackpressureAccounts
  StopNotMissed
  StopOverrunBounded
PROPERTIES
  StopEndsRun
