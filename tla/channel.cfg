\* Is every call answered, and by its own reply while the child keeps step?
\* Deadlock is not checked: a closed backend is never started again.
SPECIFICATION FairSpec
CONSTANTS
  a1 = a1  a2 = a2
  Callers <- MCCallers
  Starter = Starter
  None = None
  Cancellable = TRUE
  MaxCalls = 4
  MaxStray = 2
CHECK_DEADLOCK FALSE
INVARIANTS OwnAnswerInStep NothingLeftBetweenCalls
PROPERTIES CallReturns
