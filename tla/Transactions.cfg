CONSTANTS
  Workers = {w1, w2}
  Callers = {c1, c2}
  SynchThreads = 1
  Trans = {t1, t2}
  Empty = {}
  Statements = 2
  MaxTries = 2
  MaxFaults = 1
  NoThread = NoThread
  NoTrans = NoTrans
SPECIFICATION FairSpec
INVARIANTS AllOrNothingWithoutFaults SessionsAreClean RetriersExcludeEachOther
PROPERTY EveryTransactionEnds
CHECK_DEADLOCK FALSE
