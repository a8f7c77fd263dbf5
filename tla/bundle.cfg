SPECIFICATION Spec
CONSTANTS
  Builders = {b1, b2}
  Invocations <- MCInvocations
  Trees <- MCTrees
  Stages <- MCStages
  Sources <- MCSources
  Mappings <- MCMappings
  DirectoryOf <- MCDirectoryOf
  Above <- MCAbove
  Rank <- MCRank
  Excluded = {"secret"}
  Required = {"marketplace", "rule"}
  TargetOf <- MCTargetOf
  Staged <- MCStaged
  Contents <- MCContents
  Binary = {"binary"}
  RecordsIn <- MCRecordsIn
  Paths <- MCPaths
  Key <- MCKey
  Portable <- MCPortable
  Scripts = {"install.sh"}
  Matrix = {"macos", "windows"}
  RuntimeTarget <- MCRuntimeTarget
  Edited = {"rule", "staged/lib"}
  Written = {"edited"}
  MaxEdits = 1
  None = None
  Absent = Absent
  Link = Link
  Partial = Partial
SYMMETRY MCSymmetry
INVARIANTS
  TypeOK
  PublishedIsWhole
  PublishedIsPortable
  VendorAsDeclared
  GatewaysApproveProfile
  PublicIsOwn
  RequiredPresent
  SameInputsSameBundle
  ReportIsPublished
CHECK_DEADLOCK FALSE
