\* One task under one condition, as often as Repetitions, from the condition in
\* its file to the summary.  Deadlock is not checked: an evaluation ends.
SPECIFICATION Spec
CONSTANTS
  Conditions <- MCConditions
  Tasks <- MCTasks
  Prompt = "the prompt"
  Paths <- MCPaths
  Order <- MCOrder
  Folded <- MCFolded
  Minimum = {"PATH"}
  Profile = {"home"}
  Host = {"PATH", "HOME", "TOKEN", "Token", "KEY"}
  Lines <- MCLines
  MaxLines = 3
  Repetitions = 2
  None = None
CHECK_DEADLOCK FALSE
INVARIANTS
  PromptOnlyOnStdin
  EnvironmentAsDeclared
  NamedForWhatRan
  CallsAreCounted
  PassedOnTheAnswer
  MedianOfReported
PROPERTY EvaluationEnds
