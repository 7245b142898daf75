--------------------------- MODULE ProofSoundness ---------------------------
(***************************************************************************)
(* What the proof session means: its statements read as formulas, its      *)
(* spine read as the open levels of a natural deduction, and the condition *)
(* under which the reading is right - that statements which print alike    *)
(* mean alike, since the session compares statements by what they print.   *)
(***************************************************************************)
EXTENDS ProofSession, Formulas

CONSTANTS
  Formula,      \* the formulas of a session
  Meaning(_),   \* the formula a statement stands for
  Valuation,    \* interpretations that make the axioms true ...
  Holds(_, _)   \* ... and truth of a formula under one of them

Meanings(q) == [i \in 1..Len(q) |-> Meaning(q[i])]

ASSUME MeaningAssumption ==
  \A s \in Statement :
    /\ Meaning(s) \in Formula
    /\ s.kind \in {"parsed", "minted", "opaque"} =>
         Meaning(s) = Entails(Meaning(s.hyp), Meaning(s.con))
    /\ s.kind = "rule" =>
         Meaning(s) = Entails2(Meaning(s.hyp), Meaning(s.hyp2), Meaning(s.con))
    /\ s.kind = "atom" => Meaning(s).op = "proposition"

ASSUME HoldsAssumption ==
  /\ \A f \in Formula :
       /\ f.op = "entails" =>
            /\ f.hyp \in Formula /\ f.con \in Formula
            /\ \A v \in Valuation : Holds(v, f) <=> (Holds(v, f.hyp) => Holds(v, f.con))
       /\ f.op = "entails2" =>
            /\ f.hyp \in Formula /\ f.hyp2 \in Formula /\ f.con \in Formula
            /\ \A v \in Valuation :
                 Holds(v, f) <=> (Holds(v, f.hyp) /\ Holds(v, f.hyp2) => Holds(v, f.con))
  /\ \A a \in Axioms, v \in Valuation : Holds(v, Meaning(a))

-----------------------------------------------------------------------------
\* The statements whose notations the session is about to compare: the live and
\* the visible ones, the consequents and minor hypotheses of what it could
\* apply, what it could discharge to, and the texts of the scripts.
Texts == UNION {UNION {Elements(sc[i]) : i \in DOMAIN sc} : sc \in Script}

Compared ==
  registry \cup Visible
    \cup {Consequent(m) : m \in {w \in Visible : IsMajor(w)}}
    \cup {Minor(m) : m \in {w \in Visible : IsMajor(w)}}
    \cup (IF Dischargeable THEN {Discharged} ELSE {})
    \cup (IF Proving THEN {} ELSE Texts)

\* "If grouping parentheses are actually needed, they'll be restored by to_s()":
\* among the statements the session compares, notation determines meaning.
NotationsUnambiguous ==
  \A s, t \in Compared : Notation(s) = Notation(t) => Meaning(s) = Meaning(t)

-----------------------------------------------------------------------------
\* The open levels: each start node assumes, and what was inferred or recorded
\* over the innermost one is derived there.
LevelsOf(c, l) ==
  [k \in 1..l |->
     [assumed |-> Meanings(c[k].facts),
      derived |-> IF k = l THEN {Meaning(s) : s \in Between(c, l + 1, Len(c))} ELSE {}]]

OpenLevels == IF Proving THEN LevelsOf(chain, Level) ELSE <<>>

Problems == {[i \in 1..Len(sc) |-> Meanings(sc[i])] : sc \in {x \in Script : Supported(x)}}

ND == INSTANCE NaturalDeduction WITH
        theorems <- {Meaning(s) : s \in Elements(lemmas)},
        levels   <- OpenLevels,
        Premises <- {Meaning(a) : a \in Axioms},
        Problem  <- Problems

\* The session does natural deduction and nothing else.
DoesNaturalDeduction == ND!Spec

\* Every statement the session announces as proven is true under every
\* interpretation that makes the axioms true.
RootLemmasValid == \A v \in Valuation : \A s \in Elements(lemmas) : Holds(v, Meaning(s))

\* What was inferred or recorded under open levels follows from what those assume.
ScopesSound == ND!ScopesSound

=============================================================================
