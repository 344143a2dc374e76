CONSTANTS
  Workers = {w1, w2}
  Callers = {c1, c2}
  SynchThreads = 2
  Trans = {t1, t2, t3}
  Empty = {t3}
  Statements = 2
  MaxTries = 1
  MaxFaults = 1
  NoThread = NoThread
  NoTrans = NoTrans
SPECIFICATION Spec
SYMMETRY Symmetry
INVARIANTS AllOrNothing
CHECK_DEADLOCK FALSE
