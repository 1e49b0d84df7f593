\* Two callers, three calls, one move.
SPECIFICATION Spec
CONSTANTS
  c1 = c1
  c2 = c2
  None = None
  Callers <- MCCallers
  Calls <- MCCalls
INVARIANTS OneThread ReadyInOrder NoTaskForgotten
PROPERTIES FuturesSettle DestructorReturns
CHECK_DEADLOCK FALSE
