\* Two other observers that may die or resign; three axioms of the eleven lines.
CONSTANTS
    first = first
    second = second
    Declarations <- mcDeclarations
    Schemas <- mcSchemas
    Formulas <- mcFormulas
    Symbols <- mcSymbols
    SymbolLike <- mcSymbols
    Placeholders = {"A"}
    ReservedAtomic = {","}
    Comma = ","
    Kind <- mcKind
    Subject <- mcSubject
    Recognized <- mcRecognized
    AltersSyntax <- mcAltersSyntax
    Statements <- mcStatements
    Conclusion <- mcConclusion
    Phrase <- mcPhrase
    Definiens <- mcDefiniens
    Others <- mcOthers
    MaxAxioms = 3
SYMMETRY Either
SPECIFICATION Spec
CHECK_DEADLOCK FALSE
INVARIANTS
    TypeOK
    HeardExactly
    SaturationComplete
    DefinitionsMirrorLemmas
    SourcesExact
    CatalogTellsAxioms
PROPERTIES
    RegistrationsHold
