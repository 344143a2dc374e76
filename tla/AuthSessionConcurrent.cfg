CONSTANTS
  Sessions = {s1, s2}
  NoSession = NoSession
  MaxCommands = 2
  MaxBatch = 1
  MaxActive = 2
  WorkerThreads = 1
  MaxWrongPassCount = 2
  BanAccount = TRUE
  PermanentBans = TRUE
SPECIFICATION Spec
INVARIANT LimitEnforced
CHECK_DEADLOCK FALSE
