CONSTANTS
  Conn = {c1}
  None = None
  MaxFrames = 2
  MaxBody = 1
SPECIFICATION Spec
INVARIANT FailedReported
CHECK_DEADLOCK FALSE
