CONSTANTS
  Sessions = {s1, s2}
  NoSession = NoSession
  MaxCommands = 2
  MaxBatch = 1
  MaxActive = 1
  WorkerThreads = 1
  MaxWrongPassCount = 2
  BanAccount = FALSE
  PermanentBans = TRUE
SPECIFICATION Spec
SYMMETRY Symmetry
INVARIANTS LimitEnforced CountIsExact
CHECK_DEADLOCK FALSE
