------------------------------- MODULE Logics -------------------------------
(***************************************************************************)
(* The six truth-functional logics of Logic.hpp over one four-element      *)
(* type of truth values: their ranges, which of them sits inside which,    *)
(* and the connectives each gives its range.                               *)
(***************************************************************************)

TruthValue == {"Contradiction", "False", "True", "Unknown"}

Logic == {"classical", "kleene_strong", "kleene_weak", "lisp_prolog", "belnap", "franci"}

\* Negation (operator!) is the same in all logics.
Neg(x) ==
  CASE x = "True"  -> "False"
    [] x = "False" -> "True"
    [] OTHER       -> x

\* Where a variable of logic l starts out.
ValuesOf(l) ==
  CASE l = "classical"          -> {"False", "True"}
    [] l \in {"belnap", "franci"} -> TruthValue
    [] OTHER                    -> {"False", "True", "Unknown"}

-----------------------------------------------------------------------------
(* What the connectives refuse, and what they are made of.                 *)

IsOutOfRange(l, x) ==
  \/ x = "Contradiction" /\ l \in {"classical", "kleene_strong", "kleene_weak", "lisp_prolog"}
  \/ x = "Unknown" /\ l = "classical"

IsCommutative(l) == l # "lisp_prolog"

AndAnnihilator(l) ==
  CASE l = "kleene_weak" -> "Unknown"
    [] l = "franci"      -> "Contradiction"
    [] OTHER             -> "False"

\* Or's identity follows And's annihilator, except where a logic overrides it.
OrIdentity(l)    == IF l = "kleene_weak" THEN "False" ELSE AndAnnihilator(l)
OrAnnihilator(l) == IF l = "kleene_weak" THEN "Unknown" ELSE "True"

\* And_core and Or_core: the identity goes first, then the annihilator (on the
\* left only in a logic that does not commute), then idempotence; what they
\* leave open is "open", one answer per logic.
Core(l, identity, annihilator, open, x, y) ==
  IF x = identity THEN y
  ELSE IF y = identity THEN x
  ELSE IF x = annihilator \/ (y = annihilator /\ IsCommutative(l)) THEN annihilator
  ELSE IF x = y THEN x
  ELSE open

And(l, x, y) ==
  Core(l, "True", AndAnnihilator(l),
       IF l \in {"kleene_weak", "belnap", "franci"} THEN "False" ELSE "Unknown", x, y)

Or(l, x, y) ==
  Core(l, OrIdentity(l), OrAnnihilator(l),
       IF l \in {"kleene_weak", "belnap"} THEN "True" ELSE "Unknown", x, y)

\* The truth function of NonStrictlyImplies.
Implication(l, x, y) == Or(l, Neg(x), y)

-----------------------------------------------------------------------------
(* Which logic is part of which.                                           *)

\* Mutant of IsSublogic: the three-valued logics are all alike.
IsSublogicByRange(sub, sup) ==
  sub = sup \/ sub = "classical" \/ (sup # "classical" /\ sub # "franci" /\ sub # "belnap")

IsSublogic(sub, sup) ==
  \/ sub = sup
  \/ sub = "classical"
  \/ /\ sup # "classical"
     /\ {sub, sup} \cap {"kleene_weak", "lisp_prolog"} = {}
     /\ sub = "kleene_strong"

\* common_logic: the larger of two comparable logics; only for these is it defined.
Comparable(l, m)  == IsSublogic(l, m) \/ IsSublogic(m, l)
CommonLogic(l, m) == IF IsSublogic(l, m) THEN m ELSE l

=============================================================================
