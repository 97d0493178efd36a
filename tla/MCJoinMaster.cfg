SPECIFICATION Spec
CONSTANTS
  Keys = {1, 2, 3, 4}
  Flows = {1, 2}
  HVals = {"a", "b", "c"}
  HVal <- MCHVal
  Size = 4
  HashSize = 2
  InitCap = 1
  MaxRows = 5
INVARIANTS TypeOK JoinComplete JoinExact SameKeyOnly AbortsAtLimits RowsFit
CHECK_DEADLOCK FALSE
