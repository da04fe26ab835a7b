SPECIFICATION Spec
CONSTANTS
  Requests = {r1, r2}
  Packages <- MCPackages
  Titles = {"fact", "summary"}
  Before <- MCBefore
  Sources = {"file1"}
  BasePaths = 1
  MaxLinked = 2
  MaxFailures = 1
  MaxInbox = 2
INVARIANTS NothingUnasked BackupRestores AppliedStays InboxTellsMemory
SYMMETRY Symmetric
CHECK_DEADLOCK FALSE
