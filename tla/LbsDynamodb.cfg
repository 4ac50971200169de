SPECIFICATION Spec
CONSTANTS
  p1 = p1
  p2 = p2
  Daemons = {p1, p2}
  Runs <- MCRuns
  MAXINPROGRESS = 2
  MAXUNRECORDED = 2
  MaxAppend = 2
INVARIANT AckedKept
INVARIANT ReadsFind
INVARIANT DeletedRecorded
INVARIANT NothingStuck
PROPERTY MetadataForward
CHECK_DEADLOCK FALSE
