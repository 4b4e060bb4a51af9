CONSTANTS
  Version = {latest, older, unknown}
  Supported = {latest, older}
  Latest = latest
  None = None
  MaxData = 2
SPECIFICATION Spec
INVARIANTS
  TypeOK
  ReadAsWritten
  ServerBehind
  VersionAgreed
CHECK_DEADLOCK FALSE
