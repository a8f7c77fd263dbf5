\* Installations, failures, interruptions and removals of two versions.
\* Deadlock is not checked: the runs of the scripts are bounded.
SPECIFICATION Spec
CONSTANTS
  v1 = v1  v2 = v2
  Versions <- MCVersions
  Absent = Absent
  User = User
  Half = Half
  None = None
  MaxRuns = 3
  MaxChanges = 1
  MaxStuck = 1
SYMMETRY Symmetry
CHECK_DEADLOCK FALSE
INVARIANTS TypeOK FailureRestores CleanRemoval
PROPERTY UserContentKept
