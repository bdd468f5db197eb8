\* A network that does not deadlock.
CONSTANTS
  Networks <- Sound
  Keys = {1, 2, 3}
  QSIZE = 1
  CAP = 1
  None = None
SPECIFICATION Spec
INVARIANT NoFalseAlarm
CHECK_DEADLOCK FALSE
