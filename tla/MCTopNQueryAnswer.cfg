SPECIFICATION Spec
CONSTANTS
  Values = {0, 1, 2, 7}
  N = 2
  FirstMin = 3
  HalfWord = 8
  MaxRows = 6
INVARIANT AnswerIsTopN
CHECK_DEADLOCK FALSE
