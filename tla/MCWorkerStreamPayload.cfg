SPECIFICATION Spec
CONSTANTS
  EntryCount = 4
  Batch = 2
  RingSize = 2
  PoolSize <- MCPoolSize
  Fields = {"row_id", "key"}
INVARIANT PayloadIntact
CHECK_DEADLOCK FALSE
