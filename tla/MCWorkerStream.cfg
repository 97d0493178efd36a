SPECIFICATION FairSpec
CONSTANTS
  EntryCount = 7
  Batch = 2
  RingSize = 3
  PoolSize <- MCPoolSize
  Fields = {"row_id", "key"}
INVARIANTS TypeOK NeverStarved BuffersAccounted RowsDriftForward LossBounded
PROPERTIES KeptPaceIsIntact Finishes
CHECK_DEADLOCK FALSE
