SPECIFICATION Spec
CONSTANTS
  Capacity = 2
  MaxMsgs = 4
  MaxStops = 1
  MaxLooks = 2
CHECK_DEADLOCK FALSE
INVARIANTS
  OccupancyBounded
  PeekIntact
  SnapshotCovers
  QuietMeansIdle
