CONSTANTS
  Formula <- MCFormula
  Premises <- MCPremises
  Problem <- MCProblem
  Valuation <- MCValuation
  Holds <- MCHolds
SPECIFICATION Spec
INVARIANTS
  TypeOK
  TheoremsValid
