SPECIFICATION FairSpec
CONSTANTS
  Layout = "fixed"
  Capacity = 4
  ItemSize = 2
  SlotHeader = 1
  Lens = {1, 2, 3}
  MaxCalls = 4
  MaxFaults = 1
INVARIANTS
  BorrowedPayloadIntact
  ResultsFaithful
PROPERTIES
  ImplementsContract
  EveryMessageHandled
CHECK_DEADLOCK FALSE
