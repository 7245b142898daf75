CONSTANTS
  Statement <- LedgerStatement
  Script <- LedgerScript
  Axioms <- MCAxioms
  Notation <- PrintedAs
  Parts <- KeptAlive
  MenuKeys = 36
  MaxScripts = 2
SPECIFICATION LedgerSpec
INVARIANTS
  IdsNameOneText
  CitesOpenScopes
  IntroductionsCloseScopes
PROPERTIES
  OnlyTheseStayLabels
