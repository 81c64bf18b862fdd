SPECIFICATION FairSpec
CONSTANTS
  Hosts = {"node", "python"}
  Trackers = {"tracker1", "tracker2"}
  Lens = {1, 2}
  Caps = {0, 1}
  RingSlots = 1
  MaxMsgs = 2
INVARIANTS
  HandlesOutliveUse
  ProbeStillValid
  ErrorsNameTheirCause
PROPERTIES
  WaitSettles
CHECK_DEADLOCK FALSE
