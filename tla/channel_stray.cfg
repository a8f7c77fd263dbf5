\* A reply larger than the read buffer, or a line nobody asked for.
SPECIFICATION Spec
CONSTANTS
  a1 = a1  a2 = a2
  Callers <- MCCallers
  Starter = Starter
  None = None
  Cancellable = TRUE
  MaxCalls = 4
  MaxStray = 2
CHECK_DEADLOCK FALSE
INVARIANT OwnAnswer
