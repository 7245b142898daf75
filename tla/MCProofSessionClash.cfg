CONSTANTS
  Statement <- ClashStatement
  Formula <- ClashFormula
  Script <- ClashScript
  Axioms = {}
  Notation <- PrintedAs
  Parts <- KeptAlive
  Meaning <- MeaningOf
  Valuation <- ClashValuation
  Holds <- TrueUnder
  MenuKeys = 36
  MaxScripts = 3
SPECIFICATION Spec
CHECK_DEADLOCK FALSE
INVARIANTS
  RootLemmasValid
