CONSTANTS
  LoopTask = {l1}
  DelayTask = {d1, d2}
  None = None
  Spans = {0, 2}
  MaxLag = 3
  MaxTick = 3
SPECIFICATION Spec
INVARIANTS
  TypeOK
  FiresOnce
  NotOverdue
  NoMissedBeat
  CancelledByNextTick
\* The clock of the instance stops.
CHECK_DEADLOCK FALSE
