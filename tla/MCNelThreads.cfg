\* Building, turns, ticks, workers and leaving; threads may fail to start and
\* provider calls may hang.
CONSTANTS
  None = None
  Main = Main
  MaxGeneration = 6
  StartMayFail = TRUE
SPECIFICATION FairSpec
INVARIANTS
  TypeOK
  TurnUndisturbed
  QuietAfterStop
  SingleWorker
  InterruptedNeverKept
PROPERTIES
  ImplementsSlot
  StopCompletes
  ThoughtSettles
\* A process that has stopped does nothing more.
CHECK_DEADLOCK FALSE
