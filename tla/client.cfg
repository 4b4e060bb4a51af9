CONSTANTS
  Version = {latest, older, unknown}
  Supported = {latest, older}
  Latest = latest
  None = None
  IdleLimit = 2
  MaxJoins = 2
SPECIFICATION FairSpec
INVARIANTS
  TypeOK
  CipherInStep
  LoginOrder
  ResponsesEarned
  DetectedOnce
  JoinSettled
  JoinFailureIsReal
PROPERTIES
  SilentOnceClosed
  GivesUp
CHECK_DEADLOCK FALSE
