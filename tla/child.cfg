\* A command with a deadline, and Close: does the group end, does the gateway return?
\* Deadlock is not checked: the gateway is done once it has returned.
SPECIFICATION FairSpec
CONSTANTS
  d1 = d1  d2 = d2  d3 = d3
  Descendants <- MCDescendants
  Deadline = TRUE
CHECK_DEADLOCK FALSE
INVARIANT GroupTornDown
PROPERTY ReturnsUnlessEscaped
