--------------------------- MODULE MCProofSession ---------------------------
(* The proof session on small scripts, for the model checker.              *)
EXTENDS ProofSoundness, MCUniverse

\* The scripts: the cut rule, a discharge that only respells its given, a pair
\* of hypotheses under a given, a theorem one can use after proving it, an
\* axiom as minor hypothesis, and a level of three.
Respelled == <<<<Parsed(A, Parsed(A, B))>>, <<A>>>>
Pair      == <<<<Parsed(A, B)>>, <<A, C>>>>
Lift      == <<<<A>>, <<Parsed(A, B)>>>>
UseLift   == <<<<A, Parsed(T, B)>>>>
ThreeUp   == <<<<A, B, C>>>>

MCScript == {CutRule, Respelled, Pair, Lift, UseLift, ThreeUp}

MCStatement == Universe(MCScript)
MCFormula   == {MeaningOf(s) : s \in MCStatement}
MCValuation == {v \in [{"A", "B", "C", "T"} -> BOOLEAN] : v["T"]}

-----------------------------------------------------------------------------
(* Three scripts whose statements print alike without meaning alike: the   *)
(* first leaves an untagged B |- C behind, the second discharges it, and   *)
(* the third then proves what prints the same as the second's lemma.       *)
LeaveOpaque == <<<<A>>, <<Parsed(A, Parsed(B, C))>>>>
AssumeIt    == <<<<Parsed(Parsed(B, C), T)>>, <<Parsed(B, C)>>>>
Collide     == <<<<Parsed(B, Parsed(C, T))>>, <<B>>>>

ClashScript    == {LeaveOpaque, AssumeIt, Collide}
\* Closed under any two of the scripts.  Where a third leads further the run stops,
\* which is no loss to a counterexample.
ClashStatement == Universe(ClashScript)
ClashFormula   == {MeaningOf(s) : s \in ClashStatement}
ClashValuation == [{"A", "B", "C", "T"} -> BOOLEAN]

=============================================================================
