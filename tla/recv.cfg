CONSTANTS
  Conn = {c1}
  None = None
  MaxFrames = 3
  MaxBody = 2
SPECIFICATION FairSpec
INVARIANTS
  TypeOK
  InOrder
  Drained
PROPERTY HandedOn
\* The stream of the instance ends.
CHECK_DEADLOCK FALSE
