CONSTANTS
  LoopTask = {l1}
  DelayTask = {d1, d2}
  None = None
  Spans = {0, 2}
  MaxLag = 3
  MaxTick = 3
SPECIFICATION Spec
PROPERTY CancelIsFinal
CHECK_DEADLOCK FALSE
