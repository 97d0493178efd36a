SPECIFICATION FairSpec
CONSTANTS
  Workers = {w1, w2}
  AcksAwaited = 2
  TableLength = 2
  BurstSize = 2
INVARIANT HangsExplained
PROPERTIES Settles Measured
CHECK_DEADLOCK FALSE
