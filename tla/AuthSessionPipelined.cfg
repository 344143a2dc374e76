CONSTANTS
  Sessions = {s1}
  NoSession = NoSession
  MaxCommands = 6
  MaxBatch = 2
  MaxActive = 2
  WorkerThreads = 2
  MaxWrongPassCount = 2
  BanAccount = TRUE
  PermanentBans = FALSE
SPECIFICATION FairSpec
INVARIANTS OneQueryAtATime AnsweredInOrder ProofHasChallenge
PROPERTIES ImplementsLoginProtocol QueriesAnswered ClosedIsDropped
CHECK_DEADLOCK FALSE
