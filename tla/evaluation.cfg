\* Evaluations into one output directory, with failures and interrupts.
\* Deadlock is not checked: the evaluations are bounded.
SPECIFICATION Spec
CONSTANTS
  c1 = c1  c2 = c2  t1 = t1
  Conditions <- MCConditions
  Tasks <- MCTasks
  Repetitions = 2
  Steps <- MCSteps
  McpConfigs <- MCMcpConfigs
  MaxEvaluations = 2
  MaxStrays = 1
  None = None
  Torn = Torn
CHECK_DEADLOCK FALSE
INVARIANTS CompletedMeansAllRan EveryPairRecorded StateIsRemoved OwnState
