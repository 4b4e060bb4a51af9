SPECIFICATION FairSpec
INVARIANTS
  TypeOK
  ReadAsWritten
  Orphans
PROPERTY LostTogether
\* Both sides are lost in the end.
CHECK_DEADLOCK FALSE
