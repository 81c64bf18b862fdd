SPECIFICATION ConsumerSpec
CONSTANTS
  Backends = {"shm", "socket"}
  Lens = {0, 1, 3}
  Caps = {0, 2, 3}
  MaxSent = 4
  MaxAllocs = 1
CHECK_DEADLOCK FALSE
INVARIANTS
  RefusalRetains
  NothingLost
PROPERTIES
  ImplementsContract
