CONSTANTS
  login = login
  other = other
  a = a
  b = b
  Names = {1, 2, 3}
  Contents = {a, b}
  NoHash = NoHash
  RedundancyChecks = TRUE
  AllowRehash = TRUE
  ArchivedRedundancy = FALSE
  CleanDeadReferencesMaxCount = 1
  MaxEdits = 2
  MaxFaults = 1
  Pools <- MCPools
  Updatable = login
  AutoSetup = TRUE
  Base <- MCBase
  Keys = {k1, k2}
  NoKey = NoKey
  Accounts = {x}
  NoTransaction = NoTransaction
  RolledBack = RolledBack
  MaxLosses = 1
  MaxErrors = 1
SPECIFICATION Spec
SYMMETRY Symmetry
INVARIANTS TableIsExact SchemaIsComplete LoadIsAllOrNothing SecretsReadable RestartSucceeds
PROPERTY DataIsKept
CHECK_DEADLOCK FALSE
