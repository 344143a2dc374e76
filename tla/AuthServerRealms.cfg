CONSTANTS
  Sessions = {s1, s2}
  Server = Server
  NoOne = NoOne
  MaxReads = 1
  MaxTimers = 1
SPECIFICATION Spec
INVARIANT RealmsAreStable
CHECK_DEADLOCK FALSE
