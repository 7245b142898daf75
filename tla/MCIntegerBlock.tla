--------------------------- MODULE MCIntegerBlock ---------------------------
(***************************************************************************)
(* Sums of two and three numerals of up to two limbs, and of four from a   *)
(* few of these.  They are sorted as the sum sorts its arguments: large    *)
(* negative, small negative, small positive, large positive, small ones by *)
(* value.  Large ones of one sign come in any order, since the code's      *)
(* comparison of two of them goes on below a greater limb and puts them in *)
(* none.                                                                   *)
(***************************************************************************)
EXTENDS IntegerBlock

CONSTANTS
  MaxValue,  \* of a numeral in a short sum
  FewValues  \* of the numerals in a sum of four

Numerals(values) == {Numeral(s, Limbs(2)[n]) : s \in {-1, 1}, n \in values}

Rank(x) == IF IsSmall(x) THEN x.sign ELSE 2 * x.sign

InOrder(b) ==
  \A k \in 1..(Len(b) - 1) :
    \/ Rank(b[k]) < Rank(b[k + 1])
    \/ Rank(b[k]) = Rank(b[k + 1]) /\ (IsSmall(b[k]) => Value(b[k]) <= Value(b[k + 1]))

SmallSums ==
  {b \in UNION {[1..n -> Numerals(1..MaxValue)] : n \in 2..3} : InOrder(b)}
    \cup {b \in [1..4 -> Numerals(FewValues)] : InOrder(b)}

=============================================================================
