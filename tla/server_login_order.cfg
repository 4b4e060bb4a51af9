CONSTANTS
  Conn = {c1}
  Name = {n1}
  None = None
  MaxPlayers = 1
  IdleLimit = 2
SPECIFICATION Spec
INVARIANT JoinedNamed
CHECK_DEADLOCK FALSE
