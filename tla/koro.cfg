\* A splitter and a joiner: the source, the sink, the splitter or no kernel
\* ends, with and without stealing.
CONSTANTS
  Kernels = {"source", "split", "join", "sink"}
  Streams = {"in", "left", "right", "out"}
  Src <- GraphSrc
  Dst <- GraphDst
  Body <- GraphBody
  Cap = 2
  MaxQueue = 5
  Options <- Ways
SPECIFICATION FairSpec
INVARIANT NoneForgotten
INVARIANT FreedOnce
INVARIANT Drained
PROPERTY AllFinish
PROPERTY EveryoneRuns
