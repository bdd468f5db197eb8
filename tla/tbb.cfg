\* One worker or two, two producers that end and a consumer of each.
CONSTANTS
  w1 = w1
  w2 = w2
  Kernels = {"p1", "c1", "p2", "c2"}
  Streams = {"x", "y"}
  Src <- TwinSrc
  Dst <- TwinDst
  Body <- TwinBody
  Iters <- TwinEnds
  Cap = 1
  Order <- TwinOrder
  Workers = {w1, w2}
  Teams = {{w1}, {w1, w2}}
  Tasks = {1, 2, 3, 4, 5}
  TbbRetries = 1
  Steal = TRUE
SPECIFICATION FairSpec
INVARIANT RunningCounts
INVARIANT OnePlace
INVARIANT NoneForgotten
PROPERTY AllFinish
