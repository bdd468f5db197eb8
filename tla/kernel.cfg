\* Pauses, waits and removals of one kernel.
CONSTANTS
  main = main
  ctl = ctl
  p1 = p1
  p2 = p2
  Sched = Sched
  NoThread = NoThread
  Clients = {main, ctl}
  PauseThreads = {p1, p2}
  Programs <- Lives
SPECIFICATION FairSpec
INVARIANT PausedIsStill
INVARIANT RemovedIsStill
PROPERTY WaitsUntilActive
PROPERTY KeepsRunning
PROPERTY WaitReturns
PROPERTY RemoveEnds
