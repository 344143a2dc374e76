CONSTANTS
  Sessions = {s1, s2}
  Server = Server
  NoOne = NoOne
  MaxReads = 1
  MaxTimers = 1
SPECIFICATION FairSpec
INVARIANTS DatabaseOutlivesItsUsers OneThreadPerSession
PROPERTIES EveryClientIsServed ServerStops
CHECK_DEADLOCK FALSE
