CONSTANTS
  Ops = {o1, o2}
  NoOp = NoOp
  AsyncThreads = 2
  AutoSetup = TRUE
SPECIFICATION FairSpec
INVARIANTS SingleOwner NoLostWakeup NothingDroppedInService FirstOpenIsRunning ThreadsAreOwned
PROPERTIES ImplementsAsyncOperations NothingQueuedForever JoinTerminates
CHECK_DEADLOCK FALSE
