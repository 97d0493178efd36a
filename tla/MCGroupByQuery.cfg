SPECIFICATION FairSpec
CONSTANTS
  Workers = {"w1", "w2"}
  TableLength = 2
  RxSize = 2
  BurstSize = 2
  Keys = {1, 2}
  Values = {1, 2}
  Flows = {1}
  QueryFlow = 1
  NumStages = 2
  Cells = {"a", "b"}
  Hash <- MCHash
  HalfWord = 4
  HVals = {"h"}
  HVal <- MCHVal
  Size = 2
  None = None
INVARIANTS QueryTypeOK OnlyLostKeysSuffer LateRowsCovered
PROPERTY Drains
CHECK_DEADLOCK FALSE
