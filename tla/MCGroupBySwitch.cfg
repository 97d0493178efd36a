SPECIFICATION Spec
CONSTANTS
  Keys = {0, 1, 2}
  Values = {1, 3}
  Flows = {1, 2}
  QueryFlow = 1
  NumStages = 2
  Cells = {"a", "b"}
  HalfWord = 4
  Hash <- MCHash
INVARIANTS TypeOK AnswerPreserved SketchBacked PrivateCellExact
PROPERTY PromiseKept
