CONSTANTS
  Programs <- MCDoWhile
  Input <- MCInput
  SplitNamed <- MCSplitNamed
  JoinNamed <- MCJoinNamed
  FIRINGS = 2
  MAXOUT = 40
SPECIFICATION Spec
CHECK_DEADLOCK FALSE
INVARIANT Agrees
