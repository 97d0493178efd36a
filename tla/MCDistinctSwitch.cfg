SPECIFICATION Spec
CONSTANTS
  Values <- MCValues
  Hash <- MCHash
  NumStages = 4
  Cells = {"a", "b"}
  HalfWord = 8
INVARIANT FirstIsForwarded
PROPERTY IsLRU
