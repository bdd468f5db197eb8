\* Four slots of two bytes, so that a full ring (three elements) is refilled
\* across the end of the buffer, and a peek window that fills the ring.
CONSTANTS
  ELMSZ = 2
  SLOTS = 4
  MaxPeek = 2
  MaxPush = 9
SPECIFICATION FairSpec
INVARIANT Unread
INVARIANT NoTornCopy
INVARIANT IInv
PROPERTY ImplementsFifo
PROPERTY AllPopped
