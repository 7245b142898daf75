------------------------------ MODULE Formulas ------------------------------
(***************************************************************************)
(* Formulas of the logic the proof assistant serves: what its statements   *)
(* mean, once the objects that carry them are forgotten.                   *)
(***************************************************************************)
EXTENDS Naturals, Sequences

Proposition(p)     == [op |-> "proposition", name |-> p]
Entails(h, c)      == [op |-> "entails", hyp |-> h, con |-> c]
Entails2(h, g, c)  == [op |-> "entails2", hyp |-> h, hyp2 |-> g, con |-> c]

\* The formula that closes a level of one or two hypotheses over a conclusion.
Implication(hs, c) ==
  IF Len(hs) = 1 THEN Entails(hs[1], c) ELSE Entails2(hs[1], hs[2], c)

=============================================================================
