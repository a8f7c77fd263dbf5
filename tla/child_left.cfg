\* A command without a deadline whose child exits before a descendant does.
SPECIFICATION FairSpec
CONSTANTS
  d1 = d1  d2 = d2  d3 = d3
  Descendants <- TwoDescendants
  Deadline = FALSE
CHECK_DEADLOCK FALSE
PROPERTY DescendantsTornDown
