CONSTANTS
  Producers = {p1, p2, p3}
  Messages = {m1, m2, m3}
  Spare = {n1, n2, n3}
  Dummy = Dummy
  Nothing = Nothing
  MaxAddress = 3
  MaxLines = 3
  NotANumber = NotANumber
SPECIFICATION FairSpec
INVARIANTS MemoryIsAccounted LocationIsExact
PROPERTY ImplementsMessageQueue
CHECK_DEADLOCK FALSE
