CONSTANTS
  Programs <- MCPrograms
  Input <- MCInput
  SplitNamed <- MCSplitNamed
  JoinNamed <- MCJoinNamed
  FIRINGS = 2
  MAXOUT = 40
SPECIFICATION Spec
INVARIANTS WellFormed Agrees
PROPERTY Finishes
CHECK_DEADLOCK FALSE
