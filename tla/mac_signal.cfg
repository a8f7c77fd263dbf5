\* What does a signal leave behind?
SPECIFICATION Spec
CONSTANTS
  v1 = v1  v2 = v2
  Versions <- MCVersions
  Absent = Absent
  User = User
  Half = Half
  None = None
  MaxRuns = 2
  MaxChanges = 1
  MaxStuck = 1
SYMMETRY Symmetry
CHECK_DEADLOCK FALSE
INVARIANT InterruptRestoresFiles
