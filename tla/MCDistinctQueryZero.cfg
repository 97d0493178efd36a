SPECIFICATION QuerySpec
CONSTANTS
  Values <- MCValues
  Hash <- MCHash
  NumStages = 4
  Cells = {"a", "b"}
  HalfWord = 8
  HVals = {"g", "h"}
  HVal <- MCHVal
  Size = 3
INVARIANT EveryValueIsAnswered
