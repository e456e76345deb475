\* What two clients are sent.
SPECIFICATION Spec
CONSTANTS
  Client = {a, b}
  Quiet = {}
  MaxFd = 5
  Garbage = Garbage
CHECK_DEADLOCK FALSE
INVARIANT
  OnlyMessagesSent
