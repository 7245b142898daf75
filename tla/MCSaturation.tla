----------------------------- MODULE MCSaturation -----------------------------
(***************************************************************************)
(* A configuration of two concrete symbols, the comma and a placeholder,    *)
(* with the kinds of schemas the code tells apart: a definition of a phrase *)
(* for each symbol, of one phrase by each symbol, and of a phrase without   *)
(* any; an entailment; and one that would alter the syntax.                 *)
(***************************************************************************)
EXTENDS Saturation, TLC

CONSTANTS first, second

mcSymbols == {"+", "*", ",", "A"}

Decl(k, s) == <<"declare", k, s>>
Schema(n) == <<"schema", n, "infix">>
Says(n, s) == <<n, "of", IF n = "a constant" THEN "none" ELSE s>>

mcDeclarations == {Decl("infix", "+"), Decl("infix", "*"), Decl("infix", ","),
                   Decl("infix", "A"), Decl("constant", "+")}
mcSchemas == {Schema("modus ponens"), Schema("the operation"), Schema("commutes"),
              Schema("a constant"), Schema("a syntax")}
mcFormulas == {Says("commutes", "+")}

mcKind == [l \in mcDeclarations |-> l[2]] @@ [l \in mcSchemas |-> "infix"]
mcSubject == [l \in mcDeclarations |-> l[3]]
mcRecognized == mcSchemas \union mcFormulas
mcAltersSyntax == {Schema("a syntax")}

(* [, / _] makes a tuple where one statement should be and is discarded *)
mcUnfit == {Schema("modus ponens"), Schema("the operation")} \X {","}
mcConclusion ==
    [p \in (mcSchemas \X mcSymbols) \ mcUnfit |->
       Says(p[1][2], p[2])]
mcStatements == {mcConclusion[p] : p \in DOMAIN mcConclusion} \union mcFormulas

mcPhrase ==
    [d \in {e \in mcStatements : e[1] \in {"modus ponens", "the operation", "a constant"}} |->
       IF d[1] = "the operation" THEN <<d[1]>> ELSE d]
mcDefiniens == [d \in DOMAIN mcPhrase |-> <<d[1], d[3]>>]

mcOthers == {first, second}
Either == Permutations(mcOthers)
===============================================================================
