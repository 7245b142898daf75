CONSTANTS
  Expression <- MixedExpression
  Shape <- MixedShape
  LogicOf <- MixedLogic
  Budget <- MixedBudget
SPECIFICATION PropagationSpec
INVARIANTS
  TypeOK
  ModelsKept
  ContradictionJustified
  NeverEmpty
  TablesExact
  WiringIntact
PROPERTIES
  QueueDrains
  NegationsMirror
CHECK_DEADLOCK FALSE
