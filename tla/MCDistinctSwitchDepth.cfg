SPECIFICATION Spec
CONSTANTS
  Values <- MCFour
  Hash <- MCFourHash
  NumStages = 4
  Cells = {"a", "b"}
  HalfWord = 8
INVARIANT EveryCacheCounts
