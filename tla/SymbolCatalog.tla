---------------------------- MODULE SymbolCatalog ----------------------------
(***************************************************************************)
(* gentzen::symbol_catalog: the symbols the parser knows.  _symbols holds   *)
(* the prefix, infix and postfix symbols in the order of their first        *)
(* declaration, which is also their priority when a statement is parsed;    *)
(* _constant_symbols the others.  The declarations run inside add_axiom,    *)
(* which refuses the axiom when they return an error; where they only warn  *)
(* the axiom is admitted all the same.                                      *)
(***************************************************************************)
EXTENDS Integers, Sequences

CONSTANTS
    Placeholders,   \* "A".."Z" and "_", with or without a subscript
    ReservedAtomic, \* brackets and the comma
    Comma           \* the one reserved symbol that may be declared infix

SyntaxKinds == {"prefix", "postfix", "infix"}
Kinds == SyntaxKinds \union {"constant"}

EmptyCatalog == [symbols |-> <<>>, constants |-> {}]

SymbolNames(catalog) == {catalog.symbols[i].name : i \in DOMAIN catalog.symbols}

(***************************************************************************)
(* declare_prefix, declare_infix and declare_postfix only warn about what   *)
(* they will not enter.                                                     *)
(***************************************************************************)
OnlyWarned(kind, name) ==
    /\ kind \in SyntaxKinds
    /\ \/ name \in Placeholders
       \/ name \in ReservedAtomic /\ ~(kind = "infix" /\ name = Comma)

\* the same, had declare_constant not looked at the other symbols
DeclareRefusesSymbolsOnly(catalog, kind, name) ==
    kind # "constant" /\ ~OnlyWarned(kind, name) /\ name \in catalog.constants

\* the two errors: a constant may not be a symbol of another kind
DeclareRefuses(catalog, kind, name) ==
    IF kind = "constant" THEN name \in SymbolNames(catalog)
    ELSE ~OnlyWarned(kind, name) /\ name \in catalog.constants

\* the entry of the symbol gains the kind
WithKind(symbol, kind, name) ==
    IF symbol.name = name THEN [symbol EXCEPT !.kinds = @ \union {kind}] ELSE symbol

(***************************************************************************)
(* The catalog after a declaration that did not err.                        *)
(***************************************************************************)
Declared(catalog, kind, name) ==
    CASE kind = "constant" -> [catalog EXCEPT !.constants = @ \union {name}]
      [] kind # "constant" /\ OnlyWarned(kind, name) -> catalog
      [] kind # "constant" /\ ~OnlyWarned(kind, name) ->
           IF name \in SymbolNames(catalog)
           THEN [catalog EXCEPT !.symbols =
                   [i \in DOMAIN @ |-> WithKind(@[i], kind, name)]]
           ELSE [catalog EXCEPT !.symbols = Append(@, [name |-> name, kinds |-> {kind}])]

CatalogType(names) ==
    [symbols : Seq([name : names, kinds : SUBSET SyntaxKinds]), constants : SUBSET names]
==============================================================================
