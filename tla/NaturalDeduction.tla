-------------------------- MODULE NaturalDeduction --------------------------
(***************************************************************************)
(* What a proof session promises, without objects, notations or menus:     *)
(* theorems grow by natural deduction with two rules, modus ponens and the *)
(* discharge of the innermost level of hypotheses, and a proof given up    *)
(* leaves no trace.                                                        *)
(***************************************************************************)
EXTENDS Formulas, FiniteSets

CONSTANTS
  Formula,      \* the formulas
  Premises,     \* the axioms
  Problem,      \* the levels of hypotheses a proof may start from
  Valuation,    \* the interpretations of the propositions ...
  Holds(_, _)   \* ... and truth under one of them

ASSUME FormulaAssumption ==
  \A f \in Formula :
    /\ f.op = "entails" =>
         /\ f.hyp \in Formula /\ f.con \in Formula
         /\ \A v \in Valuation : Holds(v, f) <=> (Holds(v, f.hyp) => Holds(v, f.con))
    /\ f.op = "entails2" =>
         /\ f.hyp \in Formula /\ f.hyp2 \in Formula /\ f.con \in Formula
         /\ \A v \in Valuation :
              Holds(v, f) <=> (Holds(v, f.hyp) /\ Holds(v, f.hyp2) => Holds(v, f.con))

ASSUME PremisesAssumption ==
  Premises \subseteq Formula /\ \A f \in Premises, v \in Valuation : Holds(v, f)

ASSUME ProblemAssumption ==
  \A p \in Problem :
    /\ p \in Seq(Seq(Formula)) /\ Len(p) \in 1..2
    /\ \A i \in 1..Len(p) : Len(p[i]) \in 1..2

VARIABLES
  theorems,  \* the formulas proven so far
  levels     \* the open levels, outermost first: what each assumes, and what
             \* has been derived while it was the innermost

vars == <<theorems, levels>>

Elements(q) == {q[i] : i \in 1..Len(q)}

Known ==
  Premises \cup theorems
    \cup UNION {Elements(levels[i].assumed) \cup levels[i].derived : i \in 1..Len(levels)}

Derive(ls, f) ==
  [ls EXCEPT ![Len(ls)] = [assumed |-> @.assumed, derived |-> @.derived \cup {f}]]

Init == theorems = {} /\ levels = <<>>

Assume(p) ==
  /\ levels = <<>>
  /\ levels' = [i \in 1..Len(p) |-> [assumed |-> p[i], derived |-> {}]]
  /\ UNCHANGED theorems

\* Mutant of ModusPonens: the minor premise is not required.
DetachFreely(f) ==
  /\ levels # <<>>
  /\ f.op = "entails"
  /\ levels' = Derive(levels, f.con)
  /\ UNCHANGED theorems

ModusPonens(f) ==
  /\ levels # <<>>
  /\ f.op = "entails" /\ f.hyp \in Known
  /\ levels' = Derive(levels, f.con)
  /\ UNCHANGED theorems

\* Mutant of Discharge: the result is not kept to the formulas.
DischargeAnything(c) ==
  LET n == Len(levels)
      f == Implication(levels[n].assumed, c)
  IN  IF n = 1
      THEN theorems' = theorems \cup {f} /\ levels' = <<>>
      ELSE levels' = Derive(SubSeq(levels, 1, n - 1), f) /\ UNCHANGED theorems

Discharge(c) ==
  LET n == Len(levels)
      f == Implication(levels[n].assumed, c)
  IN  /\ f \in Formula
      /\ IF n = 1
         THEN /\ theorems' = theorems \cup {f}
              /\ levels' = <<>>
         ELSE /\ levels' = Derive(SubSeq(levels, 1, n - 1), f)
              /\ UNCHANGED theorems

GiveUp ==
  /\ levels' = <<>>
  /\ UNCHANGED theorems

Next ==
  \/ \E p \in Problem : Assume(p)
  \/ \E f \in Known : ModusPonens(f)
  \/ levels # <<>> /\ \E c \in levels[Len(levels)].derived : Discharge(c)
  \/ GiveUp

Spec == Init /\ [][Next]_vars

-----------------------------------------------------------------------------
OpenLevel ==
  {l \in [assumed : Seq(Formula), derived : SUBSET Formula] : Len(l.assumed) \in 1..2}

TypeOK == theorems \subseteq Formula /\ levels \in Seq(OpenLevel)

\* Every theorem is true under every interpretation that makes the axioms true.
TheoremsValid == \A v \in Valuation : \A f \in theorems : Holds(v, f)

\* The assumptions in force at the i-th level.
AllHold(v, q) == \A k \in 1..Len(q) : Holds(v, q[k])
InForce(v, i) == \A j \in 1..i : AllHold(v, levels[j].assumed)

\* What a level derived follows from what it and the levels around it assume.
ScopesSound ==
  \A v \in Valuation : \A i \in 1..Len(levels) :
    InForce(v, i) => \A f \in levels[i].derived : Holds(v, f)

Sound == TheoremsValid /\ ScopesSound

=============================================================================
