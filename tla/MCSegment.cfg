SPECIFICATION FairSpec
CONSTANTS
  Producers = {p}
  Consumers = {c}
  Observers = {o}
  Readers = {r}
  Wants <- MixedWants
  MaxSegs = 2
  MaxOpens = 3
  MaxCrashes = 1
  MaxUnlinks = 1
CHECK_DEADLOCK FALSE
INVARIANTS
  AttachCountExact
  AttachedIsCompatible
  Rendezvous
PROPERTIES
  EveryOpenEnds
