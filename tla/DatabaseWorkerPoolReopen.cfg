CONSTANTS
  Ops = {o1, o2}
  NoOp = NoOp
  AsyncThreads = 1
  AutoSetup = TRUE
SPECIFICATION Spec
INVARIANT OpenPoolIsRunning
CHECK_DEADLOCK FALSE
