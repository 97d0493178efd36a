SPECIFICATION Spec
CONSTANTS
  Values = {0, 1, 2, 7}
  N = 2
  FirstMin = 3
  HalfWord = 8
  MaxRows = 7
INVARIANTS TypeOK MasterExact AnswerAboveCutoff
CHECK_DEADLOCK FALSE
