SPECIFICATION Spec
CONSTANTS
  Values = {0, 1, 3}
  HalfWord = 4
INVARIANT OneRow
PROPERTY PromiseKept
