SPECIFICATION FairSpec
CONSTANTS
  FrameUnits = 2
  SockBuf = 3
  MaxMsgs = 3
  MaxConns = 2
  MaxStops = 1
  MaxFaults = 1
CHECK_DEADLOCK FALSE
INVARIANTS
  FramesWhole
PROPERTIES
  ImplementsContract
  EveryMessageHandled
  StopEndsRun
