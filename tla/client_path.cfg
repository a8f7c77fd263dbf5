\* The repository's path has {prompt} in it.
SPECIFICATION Spec
CONSTANTS
  Conditions <- MCConditions
  Tasks <- MCTasks
  Prompt = "the prompt"
  Paths <- MCPromptPaths
  Order <- MCOrder
  Folded <- MCFolded
  Minimum = {"PATH"}
  Profile = {"home"}
  Host = {"PATH", "HOME", "TOKEN", "Token", "KEY"}
  Lines <- MCLines
  MaxLines = 3
  Repetitions = 2
  None = None
CHECK_DEADLOCK FALSE
INVARIANT PromptNotInArgv
