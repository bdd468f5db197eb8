\* Networks that deadlock and one that does not; the program ends or is stopped.
CONSTANTS
  Networks <- Small
  Keys = {1, 2, 3}
  QSIZE = 1
  CAP = 1
  None = None
SPECIFICATION Spec
PROPERTY CountsGrow
PROPERTY Detected
CHECK_DEADLOCK FALSE
