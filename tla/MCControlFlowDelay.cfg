SPECIFICATION Spec
CONSTANTS
  Workers = {w1, w2}
  AcksAwaited = 1
  TableLength = 2
  BurstSize = 2
INVARIANT DelayIsEndToEnd
CHECK_DEADLOCK FALSE
