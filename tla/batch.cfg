\* A peeking filter, a splitter and a joiner.
CONSTANTS
  Compiled <- Shapes
  Names <- AllNames
  SLOTS = 7
  WORD = 256
SPECIFICATION FairSpec
INVARIANT NoUnderrun
INVARIANT NoOverrun
INVARIANT BufferExact
PROPERTY GetsDone
