\* The four modules that build.
SPECIFICATION Spec
CONSTANTS
  Drivers = {"xorbox", "crypto", "simple", "net"}
  Process = {p, q, r}
INVARIANTS
  OnlyOwnedReleased
  NothingLeaked
  PublishedBacked
  XorboxFilesBacked
