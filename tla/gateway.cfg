\* Six worker threads, with a metrics collector.
SPECIFICATION FairSpec
CONSTANTS
  NumWorkers = 6
  Metrics = TRUE
INVARIANTS WorkersServe NoThreadIsLeft
PROPERTY StopReturns
CHECK_DEADLOCK FALSE
