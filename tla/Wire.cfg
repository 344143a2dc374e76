SPECIFICATION Spec
CONSTANTS
  known = known
  unknown = unknown
  Accounts <- MCAccounts
  Registered <- MCRegistered
  NoAccount = NoAccount
  ReadBlock = 2
  MaxStalls = 1
  MaxWriteErrors = 1
  MaxConnections = 2
  MaxPartialSends = 1
  MaxLogins = 2
  MaxResets = 1
CONSTRAINT Bounds
INVARIANTS StreamIsIntact BufferStaysSmall SentInOrder StuckOnlyIfLate OneReplyPerChunk
PROPERTIES EverythingIsWritten LoginIsAnswered
CHECK_DEADLOCK FALSE
