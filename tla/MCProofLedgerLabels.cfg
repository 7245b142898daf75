CONSTANTS
  Statement <- LedgerStatement
  Script <- LedgerScript
  Axioms <- MCAxioms
  Notation <- PrintedAs
  Parts <- KeptAlive
  MenuKeys = 36
  MaxScripts = 1
SPECIFICATION LedgerSpec
INVARIANTS
  LabelsResolve
