SPECIFICATION FairSpec
CONSTANTS
  Layout = "varlen"
  Capacity = 6
  ItemSize = 2
  SlotHeader = 1
  Lens = {1, 2, 6}
  MaxCalls = 4
  MaxFaults = 1
INVARIANTS
  BorrowedPayloadIntact
PROPERTIES
  EverySendReturns
CHECK_DEADLOCK FALSE
