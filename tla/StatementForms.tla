--------------------------- MODULE StatementForms ---------------------------
(***************************************************************************)
(* What a statement prints as, what it keeps alive and what it means, by   *)
(* recursion on its structure.  These are the values that the constant     *)
(* operators of ProofSession and ProofSoundness take in the model checker's*)
(* runs.                                                                   *)
(***************************************************************************)
EXTENDS Statements, FiniteSets, Formulas

\* Mutant of PrintedAs: the second hypothesis of a 2-ary rule, and the grouping
\* parentheses, are lost.
RECURSIVE PrintedFlat(_)
PrintedFlat(s) ==
  IF s.kind = "atom" THEN <<s.name>>
  ELSE PrintedFlat(s.hyp) \o <<"|-">> \o PrintedFlat(s.con)

\* to_s(): the sequence of tokens a statement prints as.  A |- below another
\* one is grouped only where both still carry their symbol tag: what is opaque is
\* neither grouped nor groups what is below it.
RECURSIVE PrintedAs(_)
PrintedAs(s) ==
  LET Grouped(t) == IF IsMajor(t) /\ s.kind # "opaque"
                    THEN <<"(">> \o PrintedAs(t) \o <<")">>
                    ELSE PrintedAs(t)
  IN  CASE s.kind = "atom" -> <<s.name>>
        [] s.kind = "rule" -> Grouped(s.hyp) \o <<",">> \o Grouped(s.hyp2)
                                \o <<"|-">> \o Grouped(s.con)
        [] OTHER -> Grouped(s.hyp) \o <<"|-">> \o Grouped(s.con)

\* The objects a statement's shared pointers keep alive, itself included:
\* node_from wraps the hypotheses and the conclusion of a discharge, while a
\* parsed statement, and what is cut out of it, owns plain nodes.
RECURSIVE KeptAlive(_)
KeptAlive(s) ==
  CASE s.kind = "minted" -> {s} \cup KeptAlive(s.hyp) \cup KeptAlive(s.con)
    [] s.kind = "rule" -> {s} \cup KeptAlive(s.hyp) \cup KeptAlive(s.hyp2)
                            \cup KeptAlive(s.con)
    [] OTHER -> {s}

\* The formula a statement stands for, whatever object carries it.
RECURSIVE MeaningOf(_)
MeaningOf(s) ==
  CASE s.kind = "atom" -> Proposition(s.name)
    [] s.kind = "rule" -> Entails2(MeaningOf(s.hyp), MeaningOf(s.hyp2), MeaningOf(s.con))
    [] OTHER -> Entails(MeaningOf(s.hyp), MeaningOf(s.con))

\* Truth of a formula under a valuation of the propositions.
RECURSIVE TrueUnder(_, _)
TrueUnder(v, f) ==
  CASE f.op = "proposition" -> v[f.name]
    [] f.op = "entails" -> TrueUnder(v, f.hyp) => TrueUnder(v, f.con)
    [] f.op = "entails2" -> TrueUnder(v, f.hyp) /\ TrueUnder(v, f.hyp2)
                              => TrueUnder(v, f.con)

=============================================================================
