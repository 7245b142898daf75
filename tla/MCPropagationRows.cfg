CONSTANTS
  Expression <- DoomedExpression
  Shape <- DoomedShape
  LogicOf <- DoomedLogic
  Budget <- DoomedBudget
SPECIFICATION PropagationSpec
INVARIANTS
  RowsRemain
CHECK_DEADLOCK FALSE
