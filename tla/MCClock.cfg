\* Two threads start and stop the clock at once, the callback stops it too,
\* and some of its threads fail to start.
CONSTANTS
  Caller = {c1, c2}
  None = None
  MaxLoops = 3
  LoopMayNotStart = TRUE
SPECIFICATION FairClockSpec
INVARIANTS
  OneLoop
  RunningIsTrue
PROPERTIES
  StopReturns
