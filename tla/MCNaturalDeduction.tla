------------------------- MODULE MCNaturalDeduction -------------------------
(* Natural deduction over two propositions and an axiom, from every level of *)
(* one hypothesis and from some of two, for the model checker.               *)
EXTENDS NaturalDeduction

P == Proposition("P")
Q == Proposition("Q")
T == Proposition("T")

Small == {Entails(P, Q), Entails(Q, P), Entails(T, Q), Entails(Q, T), Entails(P, T)}
Wide  == {Entails(P, Entails(P, Q)), Entails(Entails(T, Q), Q),
          Entails2(P, Q, Q), Entails2(P, Entails(P, Q), Q)}

MCFormula  == {P, Q, T} \cup Small \cup Wide
MCPremises == {T}

MCLevel ==
  {<<f>> : f \in MCFormula} \cup {<<P, f>> : f \in {Q, Entails(P, Q), Entails(Q, P)}}

MCProblem == {<<l>> : l \in MCLevel} \cup {<<k, l>> : k \in MCLevel, l \in MCLevel}

MCValuation == {v \in [{"P", "Q", "T"} -> BOOLEAN] : v["T"]}

\* Truth, by a recursion of the depth the formulas have.
True1(v, f) == v[f.name]
True2(v, f) ==
  CASE f.op = "proposition" -> True1(v, f)
    [] f.op = "entails" -> True1(v, f.hyp) => True1(v, f.con)
MCHolds(v, f) ==
  CASE f.op = "proposition" -> True1(v, f)
    [] f.op = "entails" -> True2(v, f.hyp) => True2(v, f.con)
    [] f.op = "entails2" -> True2(v, f.hyp) /\ True2(v, f.hyp2) => True2(v, f.con)

=============================================================================
