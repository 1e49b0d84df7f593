\* Two threads share a pool of one master and one standby connection.
\* After shutdown and the last call the pool has really stopped.
SPECIFICATION FairSpec
CONSTANTS
  Threads = {t1, t2}
  PoolSize = 1
  HasStandby = TRUE
INVARIANTS ActiveIsBorrowed PoolBound IdleWakes
PROPERTIES CallReturns
CHECK_DEADLOCK FALSE
