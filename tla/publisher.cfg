\* Two callers, two messages and a local queue for one of them.
SPECIFICATION FairSpec
CONSTANTS
  m1 = m1
  m2 = m2
  Callers = {c1, c2}
  Messages <- MCMessages
  Batches <- MCBatches
  QueueSize = 1
  UseTransactions = TRUE
INVARIANTS AcceptedIsKept NothingStranded QueueBounded
PROPERTIES ImplementsOutbox CallReturns
CHECK_DEADLOCK FALSE
