\* The worker thread cannot be started.
CONSTANTS
  None = None
  MaxGeneration = 2
  StartMayFail = TRUE
SPECIFICATION CoordinatorSpec
INVARIANTS
  RunningHasWorker
