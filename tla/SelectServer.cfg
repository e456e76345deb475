\* Three clients for two descriptors; one of them only listens.
SPECIFICATION FairSpec
CONSTANTS
  Client = {a, b, c}
  Quiet = {c}
  MaxFd = 5
  Garbage = Garbage
CHECK_DEADLOCK FALSE
INVARIANTS
  WatchesOpenConnections
  ReadNeverBlocks
PROPERTIES
  EveryoneAccepted
  HungUpReleased
