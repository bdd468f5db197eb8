SPECIFICATION FairESpec
CONSTANTS
  Programs <- MCPrograms
  Cap = 1
  MAXOUT = 70
  Junk <- MCJunk
  MAXREPEAT = 1
  MAXKERNEL = 16
INVARIANTS Connected Faithful WaitedAll TopoSorted CallsConnect
PROPERTY Terminates
CHECK_DEADLOCK FALSE
