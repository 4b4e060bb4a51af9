CONSTANTS
  Conn = {c1, c2}
  None = None
  MaxFrames = 2
  MaxBody = 1
SPECIFICATION Spec
INVARIANT OwnPackets
CHECK_DEADLOCK FALSE
