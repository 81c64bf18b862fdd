CONSTANTS
  U16 = 3
  U32 = 8
  Safe = 14
  IntMax = 200
  Windows = TRUE
  U64 = 20
  MinShm = 4
  Givens <- MCGivens
  Items = {0, 1, 2, 3}
  Aligns <- MCAligns
  Schemas = {0, 1}
  CreatorFlags = {1}
  Capacities <- MCCapacities
  Ports <- MCPorts
  Retries <- MCRetries
  Creators <- MCCreators
  MaxCopies = 2
SPECIFICATION OptionsSpec
INVARIANTS GivenOutIsAccepted CopyAttaches
PROPERTY CopyKeepsSettings
CHECK_DEADLOCK FALSE
