CONSTANTS
  Conn = {c1, c2, c3}
  Name = {n1}
  None = None
  MaxPlayers = 2
  IdleLimit = 2
SPECIFICATION FairSpec
INVARIANTS
  TypeOK
  SeatCapacity
  SeatedWhileIn
  OrphanSeats
  JoinLeave
  OneKick
PROPERTIES RosterSpec FreedSeats SilentDropped
CHECK_DEADLOCK FALSE
