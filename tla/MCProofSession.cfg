CONSTANTS
  Statement <- MCStatement
  Script <- MCScript
  Axioms <- MCAxioms
  Notation <- PrintedAs
  Parts <- KeptAlive
  Formula <- MCFormula
  Meaning <- MeaningOf
  Valuation <- MCValuation
  Holds <- TrueUnder
  MenuKeys = 36
  MaxScripts = 2
SPECIFICATION FairSpec
INVARIANTS
  TypeOK
  OneOwnerPerNotation
  VisibleReadsBack
  DischargeHasDestination
  NothingDerivedTwice
  NotationsUnambiguous
  RootLemmasValid
  ScopesSound
PROPERTIES
  ScriptEnds
  DoesNaturalDeduction
