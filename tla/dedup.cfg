\* Two callers and other gateways ask one Redis about one message.
SPECIFICATION FairSpec
CONSTANTS
  Ids = {a}
  Capacity = 1
  Callers = {c1, c2}
  Servers = {master}
  Batches <- MCBatches
INVARIANTS OneUniquePerWindow DuplicateHasOrigin MaintenanceIsSafe
PROPERTIES CallReturns ShutdownEnds
CHECK_DEADLOCK FALSE
