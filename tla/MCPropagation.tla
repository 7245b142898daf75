---------------------------- MODULE MCPropagation ----------------------------
(* Small networks of expressions for the model checker.                      *)
EXTENDS Propagation

Var           == [kind |-> "variable"]
NotOf(e)      == [kind |-> "not", of |-> e]
IfThen(l, r)  == [kind |-> "implies", lhs |-> l, rhs |-> r]

\* P, Q, ~P and P=>Q in classical logic.
DoomedExpression == {"P", "Q", "~P", "P=>Q"}
DoomedShape ==
  [e \in DoomedExpression |->
     CASE e = "~P"   -> NotOf("P")
       [] e = "P=>Q" -> IfThen("P", "Q")
       [] OTHER      -> Var]
DoomedLogic == [e \in DoomedExpression |-> "classical"]
DoomedBudget == {[born |-> [e \in DoomedExpression |-> 1], told |-> 3]}

\* A classical P and a three-valued Q, the implication between them (which is
\* three-valued), Q's negation, and P's negation and implication of itself.
MixedExpression == {"P", "Q", "~Q", "P=>Q", "~P", "P=>P"}
MixedShape ==
  [e \in MixedExpression |->
     CASE e = "~Q"   -> NotOf("Q")
       [] e = "P=>Q" -> IfThen("P", "Q")
       [] e = "~P"   -> NotOf("P")
       [] e = "P=>P" -> IfThen("P", "P")
       [] OTHER      -> Var]
MixedLogic ==
  [e \in MixedExpression |->
     IF e \in {"P", "~P", "P=>P"} THEN "classical" ELSE "kleene_strong"]

Built(n, es) == [e \in MixedExpression |-> IF e \in es THEN n ELSE 0]

\* Both logics with three facts; an implication built twice with two; and P, ~P and
\* P=>P with observers that are hooked, dropped and hooked again.
MixedBudget ==
  {[born |-> Built(1, {"P", "Q", "~Q", "P=>Q"}), told |-> 3],
   [born |-> [Built(1, {"P", "Q", "~Q"}) EXCEPT !["P=>Q"] = 2], told |-> 2],
   [born |-> Built(2, {"P", "~P", "P=>P"}), told |-> 2]}

=============================================================================
