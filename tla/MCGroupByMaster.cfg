SPECIFICATION Spec
CONSTANTS
  Keys = {1, 2, 3, 4}
  Values = {0, 1, 2}
  HVals = {"a", "b"}
  HVal <- MCHVal
  Size = 3
  None = None
INVARIANTS TypeOK OneGroupPerKey ListAndChainsAgree OverrunOnlyBeyondSize
PROPERTY AnswerExact
CHECK_DEADLOCK FALSE
