CONSTANTS
  Version = {latest, unknown}
  Supported = {latest}
  Latest = latest
  None = None
  IdleLimit = 2
  MaxJoins = 1
SPECIFICATION Spec
INVARIANT AuthOkAnswered
CHECK_DEADLOCK FALSE
