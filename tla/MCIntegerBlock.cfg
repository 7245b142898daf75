SPECIFICATION Spec
CONSTANTS
  WrapLB = 4
  MaxValue = 15
  FewValues = {1, 3, 4, 6, 9, 11, 12, 15}
  Summands <- SmallSums
INVARIANTS
  TypeOK
PROPERTIES
  SumKept
  SumsUp
CHECK_DEADLOCK FALSE
