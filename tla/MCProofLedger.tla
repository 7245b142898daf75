---------------------------- MODULE MCProofLedger ----------------------------
(* The row ledger on small scripts, for the model checker.                  *)
EXTENDS ProofLedger, MCUniverse

\* The cut rule, a given that the level over it repeats, a step taken inside a
\* scope and taken again once it is closed, a pair of hypotheses, a theorem and a
\* script that uses it, an axiom assumed inside a scope and cited after it, and a
\* level of three.
Repeated == <<<<Parsed(A, B)>>, <<A, Parsed(A, B)>>>>
Again    == <<<<Parsed(T, B)>>, <<C>>>>
Pair     == <<<<A>>, <<Parsed(A, B), C>>>>
Lift     == <<<<A>>, <<Parsed(A, B)>>>>
UseLift  == <<<<C>>, <<A>>>>
Assumed  == <<<<Parsed(T, B)>>, <<T, A>>>>
ThreeUp  == <<<<A, B, C>>>>

LedgerScript    == {CutRule, Repeated, Again, Pair, Lift, UseLift, Assumed, ThreeUp}
LedgerStatement == Universe(LedgerScript)

=============================================================================
