\* Two worker threads.
SPECIFICATION Spec
CONSTANTS
  NumWorkers = 2
  Metrics = TRUE
INVARIANT RunningAccepts
CHECK_DEADLOCK FALSE
