\* What two clients are sent that may come back.
SPECIFICATION Spec
CONSTANTS
  Client = {a, b}
  Quiet = {}
  MaxFd = 5
  Garbage = Garbage
CHECK_DEADLOCK FALSE
INVARIANT
  NeverSentBack
