------------------------ MODULE ConnectiveTable_proofs ------------------------
(***************************************************************************)
(* For every list of domains and every connective: the odometer visits      *)
(* every tuple once, the value of a row of a conjunction or disjunction     *)
(* does not depend on its grouping, and a logic agrees with the logics it   *)
(* contains.                                                                *)
(***************************************************************************)
EXTENDS ConnectiveTable, LoopLemmas, SequenceTheorems

-------------------------------------------------------------------------------
(* The connectives.                                                          *)

Binary == {"and", "or", "implies"}

\* A logic's connectives stay in its range.
LEMMA EvalInRange ==
  ASSUME NEW l \in Logic, NEW f \in Binary, NEW x \in ValuesOf(l), NEW y \in ValuesOf(l)
  PROVE  Eval(l, f, x, y) \in ValuesOf(l)
<1>1. ASSUME NEW m \in Logic, NEW u \in ValuesOf(m), NEW v \in ValuesOf(m)
      PROVE  And(m, u, v) \in ValuesOf(m) /\ Or(m, u, v) \in ValuesOf(m)
  BY <1>1 DEF Logic, ValuesOf, TruthValue, And, Or, Core, AndAnnihilator, OrIdentity,
              OrAnnihilator, IsCommutative
<1>2. Neg(x) \in ValuesOf(l)
  BY DEF Logic, ValuesOf, TruthValue, Neg
<1> QED BY <1>1, <1>2 DEF Eval, Binary, Implication

LEMMA RangeIsAllowed ==
  ASSUME NEW l \in Logic, NEW x \in ValuesOf(l)
  PROVE  x \in TruthValue /\ ~IsOutOfRange(l, x)
BY DEF Logic, ValuesOf, TruthValue, IsOutOfRange

\* Conjunction and disjunction associate in every logic ...
LEMMA EvalAssociates ==
  ASSUME NEW l \in Logic, NEW f \in {"and", "or"},
         NEW x \in ValuesOf(l), NEW y \in ValuesOf(l), NEW z \in ValuesOf(l)
  PROVE  Eval(l, f, Eval(l, f, x, y), z) = Eval(l, f, x, Eval(l, f, y, z))
<1>1. CASE f = "and"
  <2> SUFFICES And(l, And(l, x, y), z) = And(l, x, And(l, y, z))
    BY <1>1 DEF Eval
  <2> QED BY DEF Logic, ValuesOf, TruthValue, And, Core, AndAnnihilator, IsCommutative
<1>2. CASE f = "or"
  <2> SUFFICES Or(l, Or(l, x, y), z) = Or(l, x, Or(l, y, z))
    BY <1>2 DEF Eval
  <2> QED BY DEF Logic, ValuesOf, TruthValue, Or, Core, AndAnnihilator, OrIdentity,
                 OrAnnihilator, IsCommutative
<1> QED BY <1>1, <1>2

\* ... and commute where the logic does.
LEMMA EvalCommutes ==
  ASSUME NEW l \in Logic, IsCommutative(l), NEW f \in {"and", "or"},
         NEW x \in ValuesOf(l), NEW y \in ValuesOf(l)
  PROVE  Eval(l, f, x, y) = Eval(l, f, y, x)
<1>1. And(l, x, y) = And(l, y, x) /\ Or(l, x, y) = Or(l, y, x)
  BY DEF Logic, ValuesOf, TruthValue, And, Or, Core, AndAnnihilator, OrIdentity,
         OrAnnihilator, IsCommutative
<1> QED BY <1>1 DEF Eval

\* On the values of a sublogic the larger logic's connectives are the sublogic's.
LEMMA EvalExtends ==
  ASSUME NEW l \in Logic, NEW sub \in Logic, IsSublogic(sub, l), NEW f \in Binary,
         NEW x \in ValuesOf(sub), NEW y \in ValuesOf(sub)
  PROVE  Eval(sub, f, x, y) = Eval(l, f, x, y)
<1>1. ASSUME NEW u \in ValuesOf(sub), NEW v \in ValuesOf(sub)
      PROVE  And(sub, u, v) = And(l, u, v) /\ Or(sub, u, v) = Or(l, u, v)
  BY DEF Logic, ValuesOf, TruthValue, And, Or, Core, AndAnnihilator, OrIdentity,
         OrAnnihilator, IsCommutative, IsSublogic
<1>2. Neg(x) \in ValuesOf(sub)
  BY DEF Logic, ValuesOf, TruthValue, Neg
<1> QED BY <1>1, <1>2 DEF Eval, Binary, Implication

-------------------------------------------------------------------------------
(* Tuples and their folds.                                                   *)

\* The arguments a connective of logic l takes: n truth values of its range.
Arguments(l, n) == [1 .. n -> ValuesOf(l)]

LEMMA ArgumentsFacts ==
  ASSUME NEW l, NEW n \in Nat \ {0}, NEW t \in Arguments(l, n)
  PROVE  /\ t \in Seq(ValuesOf(l))
         /\ Len(t) = n
         /\ DOMAIN t = 1 .. n
         /\ \A i \in 1 .. n : t[i] \in ValuesOf(l)
<1>1. t \in Seq(ValuesOf(l))
  BY SeqDef DEF Arguments
<1>2. DOMAIN t = 1 .. n /\ \A i \in 1 .. n : t[i] \in ValuesOf(l)
  BY DEF Arguments
<1>3. Len(t) = n
  BY <1>1, <1>2, LenProperties
<1> QED BY <1>1, <1>2, <1>3

\* What the loop of enumerate has in hand after each of its turns.
RunOfRightFold(acc, l, f, t) ==
  /\ acc[0] = t[Len(t)]
  /\ \A k \in 1 .. Len(t) - 1 : acc[k] = Eval(l, f, t[Len(t) - k], acc[k - 1])
  /\ FoldedFromRight(l, f, t) = acc[Len(t) - 1]

LEMMA RightFoldRuns ==
  ASSUME NEW l \in Logic, NEW f \in Binary, NEW n \in Nat \ {0}, NEW t \in Arguments(l, n)
  PROVE  \E acc \in [0 .. n - 1 -> ValuesOf(l)] : RunOfRightFold(acc, l, f, t)
<1> DEFINE m == Len(t) - 1
<1> DEFINE D == ValuesOf(l)
<1> DEFINE base == t[Len(t)]
<1> DEFINE turn(d, k) == Eval(l, f, t[Len(t) - k], d)
<1> DEFINE step == [k \in 1 .. m |-> [d \in D |-> turn(d, k)]]
<1>1. Len(t) = n /\ \A i \in 1 .. n : t[i] \in D
  BY ArgumentsFacts
<1>0. m \in Nat /\ Len(t) = m + 1 /\ n - 1 = m
  BY <1>1
<1>2. base \in D
  BY <1>1
<1>3. ASSUME NEW d \in D, NEW k \in 1 .. m PROVE turn(d, k) \in D
  <2>1. Len(t) - k \in 1 .. n
    BY <1>1
  <2>2. t[Len(t) - k] \in ValuesOf(l)
    BY <1>1, <2>1
  <2> QED BY <2>2, EvalInRange
<1>4. step \in [1 .. m -> [D -> D]]
  <2> HIDE DEF D, turn
  <2> QED BY <1>3
<1>5. PICK g \in [0 .. m -> D] : RunOf(g, base, m, step)
  <2> HIDE DEF D, base, step
  <2> QED BY <1>2, <1>4, <1>0, LoopRuns
<1> DEFINE value(h, k) == IF k = 0 THEN base ELSE turn(h[k - 1], k)
<1>6. ASSUME NEW k \in 0 .. m PROVE g[k] = value(g, k)
  <2>1. CASE k = 0
    BY <2>1, <1>5 DEF RunOf
  <2>2. CASE k \in 1 .. m
    <3>1. g[k - 1] \in D
      <4> HIDE DEF D
      <4> QED BY <2>2
    <3> HIDE DEF D, turn
    <3> QED BY <1>5, <2>2, <3>1 DEF RunOf
  <2> QED BY <2>1, <2>2
<1>7. g = [k \in 0 .. m |-> value(g, k)]
  <2> HIDE DEF value, D, base, step
  <2> QED BY <1>6
<1> DEFINE acc == CHOOSE h : h = [k \in 0 .. m |-> value(h, k)]
<1>8. acc = [k \in 0 .. m |-> value(acc, k)]
  <2> HIDE DEF value
  <2> QED BY <1>7
<1>9. FoldedFromRight(l, f, t) = acc[m]
  BY DEF FoldedFromRight
<1> HIDE DEF acc, m
<1>10. acc[0] = base /\ \A k \in 1 .. m : acc[k] = turn(acc[k - 1], k)
  BY <1>0, <1>8
<1>11. acc \in [0 .. m -> D]
  <2> DEFINE S == {k \in 0 .. m : acc[k] \in D}
  <2> HIDE DEF D, turn, base
  <2>1. 0 \in S
    BY <1>0, <1>2, <1>10
  <2>2. \A k \in 1 .. m : k - 1 \in S => k \in S
    BY <1>3, <1>10
  <2>3. 0 .. m \subseteq S
    <3> HIDE DEF S
    <3> QED BY <1>0, <2>1, <2>2, TurnByTurn
  <2> QED BY <2>3, <1>8
<1>12. RunOfRightFold(acc, l, f, t)
  BY <1>0, <1>9, <1>10 DEF RunOfRightFold
<1> QED BY <1>0, <1>11, <1>12

\* The same of the other grouping.
RunOfLeftFold(acc, l, f, t) ==
  /\ acc[0] = t[1]
  /\ \A k \in 1 .. Len(t) - 1 : acc[k] = Eval(l, f, acc[k - 1], t[k + 1])
  /\ FoldedFromLeft(l, f, t) = acc[Len(t) - 1]

LEMMA LeftFoldRuns ==
  ASSUME NEW l \in Logic, NEW f \in Binary, NEW n \in Nat \ {0}, NEW t \in Arguments(l, n)
  PROVE  \E acc \in [0 .. n - 1 -> ValuesOf(l)] : RunOfLeftFold(acc, l, f, t)
<1> DEFINE m == Len(t) - 1
<1> DEFINE D == ValuesOf(l)
<1> DEFINE base == t[1]
<1> DEFINE turn(d, k) == Eval(l, f, d, t[k + 1])
<1> DEFINE step == [k \in 1 .. m |-> [d \in D |-> turn(d, k)]]
<1>1. Len(t) = n /\ \A i \in 1 .. n : t[i] \in D
  BY ArgumentsFacts
<1>0. m \in Nat /\ Len(t) = m + 1 /\ n - 1 = m
  BY <1>1
<1>2. base \in D
  BY <1>1
<1>3. ASSUME NEW d \in D, NEW k \in 1 .. m PROVE turn(d, k) \in D
  <2>1. k + 1 \in 1 .. n
    BY <1>1
  <2>2. t[k + 1] \in ValuesOf(l)
    BY <1>1, <2>1
  <2> QED BY <2>2, EvalInRange
<1>4. step \in [1 .. m -> [D -> D]]
  <2> HIDE DEF D, turn
  <2> QED BY <1>3
<1>5. PICK g \in [0 .. m -> D] : RunOf(g, base, m, step)
  <2> HIDE DEF D, base, step
  <2> QED BY <1>2, <1>4, <1>0, LoopRuns
<1> DEFINE value(h, k) == IF k = 0 THEN base ELSE turn(h[k - 1], k)
<1>6. ASSUME NEW k \in 0 .. m PROVE g[k] = value(g, k)
  <2>1. CASE k = 0
    BY <2>1, <1>5 DEF RunOf
  <2>2. CASE k \in 1 .. m
    <3>1. g[k - 1] \in D
      <4> HIDE DEF D
      <4> QED BY <2>2
    <3> HIDE DEF D, turn
    <3> QED BY <1>5, <2>2, <3>1 DEF RunOf
  <2> QED BY <2>1, <2>2
<1>7. g = [k \in 0 .. m |-> value(g, k)]
  <2> HIDE DEF value, D, base, step
  <2> QED BY <1>6
<1> DEFINE acc == CHOOSE h : h = [k \in 0 .. m |-> value(h, k)]
<1>8. acc = [k \in 0 .. m |-> value(acc, k)]
  <2> HIDE DEF value
  <2> QED BY <1>7
<1>9. FoldedFromLeft(l, f, t) = acc[m]
  BY DEF FoldedFromLeft
<1> HIDE DEF acc, m
<1>10. acc[0] = base /\ \A k \in 1 .. m : acc[k] = turn(acc[k - 1], k)
  BY <1>0, <1>8
<1>11. acc \in [0 .. m -> D]
  <2> DEFINE S == {k \in 0 .. m : acc[k] \in D}
  <2> HIDE DEF D, turn, base
  <2>1. 0 \in S
    BY <1>0, <1>2, <1>10
  <2>2. \A k \in 1 .. m : k - 1 \in S => k \in S
    BY <1>3, <1>10
  <2>3. 0 .. m \subseteq S
    <3> HIDE DEF S
    <3> QED BY <1>0, <2>1, <2>2, TurnByTurn
  <2> QED BY <2>3, <1>8
<1>12. RunOfLeftFold(acc, l, f, t)
  BY <1>0, <1>9, <1>10 DEF RunOfLeftFold
<1> QED BY <1>0, <1>11, <1>12


-------------------------------------------------------------------------------
(* The value of a row.                                                       *)

\* It is in the range of the logic.
LEMMA RowValueInRange ==
  ASSUME NEW l \in Logic, NEW f \in Binary, NEW n \in Nat \ {0}, NEW t \in Arguments(l, n)
  PROVE  RowValue(l, f, t) \in ValuesOf(l)
<1>1. Len(t) = n /\ t[1] \in ValuesOf(l)
  BY ArgumentsFacts
<1>2. FoldedFromRight(l, f, t) \in ValuesOf(l)
  <2>1. PICK acc \in [0 .. n - 1 -> ValuesOf(l)] : RunOfRightFold(acc, l, f, t)
    BY RightFoldRuns
  <2> QED BY <1>1, <2>1 DEF RunOfRightFold
<1>3. Eval(l, f, t[1], t[1]) \in ValuesOf(l)
  BY <1>1, EvalInRange
<1> QED BY <1>2, <1>3 DEF RowValue

\* Members taken from the left meet what the right has come to.
LEMMA RightFoldIsLeftFold ==
  ASSUME NEW l \in Logic, NEW f \in {"and", "or"}, NEW n \in Nat \ {0}, NEW t \in Arguments(l, n)
  PROVE  FoldedFromRight(l, f, t) = FoldedFromLeft(l, f, t)
<1> DEFINE D == ValuesOf(l)
<1>0. f \in Binary
  BY DEF Binary
<1>1. Len(t) = n /\ \A i \in 1 .. n : t[i] \in D
  BY ArgumentsFacts
<1>2. PICK right \in [0 .. n - 1 -> D] : RunOfRightFold(right, l, f, t)
  BY <1>0, RightFoldRuns
<1>3. PICK left \in [0 .. n - 1 -> D] : RunOfLeftFold(left, l, f, t)
  BY <1>0, LeftFoldRuns
<1>4. /\ right[0] = t[n]
      /\ \A k \in 1 .. n - 1 : right[k] = Eval(l, f, t[n - k], right[k - 1])
      /\ FoldedFromRight(l, f, t) = right[n - 1]
  BY <1>1, <1>2 DEF RunOfRightFold
<1>5. /\ left[0] = t[1]
      /\ \A k \in 1 .. n - 1 : left[k] = Eval(l, f, left[k - 1], t[k + 1])
      /\ FoldedFromLeft(l, f, t) = left[n - 1]
  BY <1>1, <1>3 DEF RunOfLeftFold
<1>6. CASE n = 1
  BY <1>4, <1>5, <1>6
<1>7. CASE n > 1
  <2> DEFINE S == {k \in 0 .. n - 2 : Eval(l, f, left[k], right[n - 2 - k]) = right[n - 1]}
  <2>1. 0 \in S
    <3>1. n - 1 \in 1 .. n - 1 /\ n - (n - 1) = 1 /\ (n - 1) - 1 = n - 2 - 0 /\ 0 \in 0 .. n - 2
      BY <1>7
    <3>2. right[n - 1] = Eval(l, f, t[n - (n - 1)], right[(n - 1) - 1])
      BY <1>4, <3>1
    <3> QED BY <1>5, <3>1, <3>2
  <2>2. ASSUME NEW k \in 1 .. n - 2, k - 1 \in S PROVE k \in S
    <3> DEFINE r == right[n - 2 - k]
    <3> DEFINE a == left[k - 1]
    <3> DEFINE x == t[k + 1]
    <3>1. /\ n - 1 - k \in 1 .. n - 1
          /\ n - (n - 1 - k) = k + 1
          /\ (n - 1 - k) - 1 = n - 2 - k
          /\ n - 2 - (k - 1) = n - 1 - k
          /\ k \in 1 .. n - 1 /\ k \in 0 .. n - 2
          /\ n - 2 - k \in 0 .. n - 1 /\ k - 1 \in 0 .. n - 1 /\ k + 1 \in 1 .. n
      BY <1>7
    <3>2. right[n - 1 - k] = Eval(l, f, x, r)
      <4>1. right[n - 1 - k] = Eval(l, f, t[n - (n - 1 - k)], right[(n - 1 - k) - 1])
        BY <1>4, <3>1
      <4> QED BY <3>1, <4>1
    <3>3. left[k] = Eval(l, f, a, x)
      BY <1>5, <3>1
    <3>4. Eval(l, f, a, right[n - 1 - k]) = right[n - 1]
      BY <2>2, <3>1
    <3>5. a \in ValuesOf(l) /\ r \in ValuesOf(l) /\ x \in ValuesOf(l)
      BY <1>1, <3>1
    <3>6. Eval(l, f, Eval(l, f, a, x), r) = Eval(l, f, a, Eval(l, f, x, r))
      <4> HIDE DEF a, r, x
      <4> QED BY <3>5, EvalAssociates
    <3>7. Eval(l, f, left[k], right[n - 2 - k]) = right[n - 1]
      BY <3>2, <3>3, <3>4, <3>6
    <3> QED BY <3>1, <3>7
  <2>3. 0 .. n - 2 \subseteq S
    <3>1. n - 2 \in Nat
      BY <1>7
    <3>2. \A k \in 1 .. n - 2 : k - 1 \in S => k \in S
      BY <2>2
    <3> HIDE DEF S
    <3> QED BY <2>1, <3>1, <3>2, TurnByTurn
  <2>4. Eval(l, f, left[n - 2], right[0]) = right[n - 1]
    <3>1. n - 2 \in 0 .. n - 2 /\ n - 2 - (n - 2) = 0
      BY <1>7
    <3> QED BY <2>3, <3>1
  <2>5. left[n - 1] = Eval(l, f, left[n - 2], t[n])
    <3>1. n - 1 \in 1 .. n - 1 /\ (n - 1) - 1 = n - 2 /\ (n - 1) + 1 = n
      BY <1>7
    <3>2. left[n - 1] = Eval(l, f, left[(n - 1) - 1], t[(n - 1) + 1])
      BY <1>5, <3>1
    <3> QED BY <3>1, <3>2
  <2> QED BY <1>4, <1>5, <2>4, <2>5
<1> QED BY <1>6, <1>7

\* In a logic that commutes the tuple read backwards folds to the same value.
LEMMA ReversedFold ==
  ASSUME NEW l \in Logic, IsCommutative(l), NEW f \in {"and", "or"},
         NEW n \in Nat \ {0}, NEW t \in Arguments(l, n)
  PROVE  FoldedFromRight(l, f, Reverse(t)) = FoldedFromLeft(l, f, t)
<1> DEFINE D == ValuesOf(l)
<1> DEFINE u == Reverse(t)
<1>0. f \in Binary
  BY DEF Binary
<1>1. Len(t) = n /\ \A i \in 1 .. n : t[i] \in D
  BY ArgumentsFacts
<1>2. u = [i \in 1 .. n |-> t[(n - i) + 1]]
  BY <1>1 DEF Reverse
<1>3. u \in Arguments(l, n)
  <2>1. \A i \in 1 .. n : (n - i) + 1 \in 1 .. n
    OBVIOUS
  <2> QED BY <1>1, <1>2, <2>1 DEF Arguments
<1> HIDE DEF u
<1>4. Len(u) = n
  BY <1>3, ArgumentsFacts
<1>5. PICK right \in [0 .. n - 1 -> D] : RunOfRightFold(right, l, f, u)
  BY <1>0, <1>3, RightFoldRuns
<1>6. PICK left \in [0 .. n - 1 -> D] : RunOfLeftFold(left, l, f, t)
  BY <1>0, LeftFoldRuns
<1>7. /\ right[0] = u[n]
      /\ \A k \in 1 .. n - 1 : right[k] = Eval(l, f, u[n - k], right[k - 1])
      /\ FoldedFromRight(l, f, u) = right[n - 1]
  BY <1>4, <1>5 DEF RunOfRightFold
<1>8. /\ left[0] = t[1]
      /\ \A k \in 1 .. n - 1 : left[k] = Eval(l, f, left[k - 1], t[k + 1])
      /\ FoldedFromLeft(l, f, t) = left[n - 1]
  BY <1>1, <1>6 DEF RunOfLeftFold
<1> DEFINE S == {k \in 0 .. n - 1 : right[k] = left[k]}
<1>9. 0 \in S
  <2>1. n \in 1 .. n /\ (n - n) + 1 = 1 /\ 0 \in 0 .. n - 1
    OBVIOUS
  <2>2. u[n] = t[(n - n) + 1]
    BY <1>2
  <2> QED BY <1>7, <1>8, <2>1, <2>2
<1>10. ASSUME NEW k \in 1 .. n - 1, k - 1 \in S PROVE k \in S
  <2>1. n - k \in 1 .. n /\ (n - (n - k)) + 1 = k + 1 /\ k + 1 \in 1 .. n /\ k \in 0 .. n - 1
    OBVIOUS
  <2>2. u[n - k] = t[k + 1]
    <3>1. u[n - k] = t[(n - (n - k)) + 1]
      BY <1>2, <2>1
    <3> QED BY <2>1, <3>1
  <2>3. right[k] = Eval(l, f, t[k + 1], left[k - 1])
    BY <1>7, <1>10, <2>2
  <2>4. left[k] = Eval(l, f, left[k - 1], t[k + 1])
    BY <1>8
  <2>5. left[k - 1] \in ValuesOf(l) /\ t[k + 1] \in ValuesOf(l)
    BY <1>1, <2>1
  <2>6. Eval(l, f, t[k + 1], left[k - 1]) = Eval(l, f, left[k - 1], t[k + 1])
    BY <2>5, EvalCommutes
  <2> QED BY <2>1, <2>3, <2>4, <2>6
<1>11. 0 .. n - 1 \subseteq S
  <2>1. n - 1 \in Nat
    OBVIOUS
  <2>2. \A k \in 1 .. n - 1 : k - 1 \in S => k \in S
    BY <1>10
  <2> HIDE DEF S
  <2> QED BY <1>9, <2>1, <2>2, TurnByTurn
<1>12. right[n - 1] = left[n - 1]
  <2>1. n - 1 \in 0 .. n - 1
    OBVIOUS
  <2> QED BY <1>11, <2>1
<1> QED BY <1>7, <1>8, <1>12 DEF u

\* A sublogic gives the tuples of its own values the value the larger logic gives them.
LEMMA RowValueExtends ==
  ASSUME NEW l \in Logic, NEW sub \in Logic, IsSublogic(sub, l), NEW f \in Binary,
         NEW n \in Nat \ {0}, NEW t \in Arguments(sub, n), t \in Arguments(l, n)
  PROVE  RowValue(sub, f, t) = RowValue(l, f, t)
<1> DEFINE D == ValuesOf(sub)
<1>1. Len(t) = n /\ \A i \in 1 .. n : t[i] \in D
  BY ArgumentsFacts
<1>2. PICK small \in [0 .. n - 1 -> D] : RunOfRightFold(small, sub, f, t)
  BY RightFoldRuns
<1>3. PICK large \in [0 .. n - 1 -> ValuesOf(l)] : RunOfRightFold(large, l, f, t)
  BY RightFoldRuns
<1>4. /\ small[0] = t[n]
      /\ \A k \in 1 .. n - 1 : small[k] = Eval(sub, f, t[n - k], small[k - 1])
      /\ FoldedFromRight(sub, f, t) = small[n - 1]
  BY <1>1, <1>2 DEF RunOfRightFold
<1>5. /\ large[0] = t[n]
      /\ \A k \in 1 .. n - 1 : large[k] = Eval(l, f, t[n - k], large[k - 1])
      /\ FoldedFromRight(l, f, t) = large[n - 1]
  BY <1>1, <1>3 DEF RunOfRightFold
<1> DEFINE S == {k \in 0 .. n - 1 : small[k] = large[k]}
<1>6. 0 \in S
  BY <1>4, <1>5
<1>7. ASSUME NEW k \in 1 .. n - 1, k - 1 \in S PROVE k \in S
  <2>1. n - k \in 1 .. n /\ k - 1 \in 0 .. n - 1 /\ k \in 0 .. n - 1
    OBVIOUS
  <2>2. t[n - k] \in ValuesOf(sub) /\ small[k - 1] \in ValuesOf(sub)
    BY <1>1, <2>1
  <2>3. Eval(sub, f, t[n - k], small[k - 1]) = Eval(l, f, t[n - k], small[k - 1])
    BY <2>2, EvalExtends
  <2> QED BY <1>4, <1>5, <1>7, <2>1, <2>3
<1>8. small[n - 1] = large[n - 1]
  <2>1. n - 1 \in Nat /\ n - 1 \in 0 .. n - 1
    OBVIOUS
  <2>2. \A k \in 1 .. n - 1 : k - 1 \in S => k \in S
    BY <1>7
  <2>3. 0 .. n - 1 \subseteq S
    <3> HIDE DEF S
    <3> QED BY <1>6, <2>1, <2>2, TurnByTurn
  <2> QED BY <2>1, <2>3
<1>9. Eval(sub, f, t[1], t[1]) = Eval(l, f, t[1], t[1])
  <2>1. t[1] \in ValuesOf(sub)
    BY <1>1
  <2> QED BY <2>1, EvalExtends
<1> QED BY <1>4, <1>5, <1>8, <1>9 DEF RowValue

-------------------------------------------------------------------------------
(* The odometer.                                                             *)

\* Where it can stand: a wheel per domain, with a position per value.
Keys(domains) ==
  {k \in [DOMAIN domains -> Nat] : \A i \in DOMAIN domains : k[i] < Len(domains[i])}

\* The order of its walk: the last wheel on which two positions differ decides.
Before(a, b) ==
  \E p \in DOMAIN b : a[p] < b[p] /\ \A q \in DOMAIN b : q > p => a[q] = b[q]

\* Two positions that differ on the first m wheels differ last on one of these.
Differ(a, b, m) == \E i \in 1 .. m : a[i] # b[i]
DifferLast(a, b, m, p) == a[p] # b[p] /\ \A q \in 1 .. m : q > p => a[q] = b[q]

LEMMA LastDifference ==
  ASSUME NEW m \in Nat, NEW a, NEW b, Differ(a, b, m)
  PROVE  \E p \in 1 .. m : DifferLast(a, b, m, p)
<1> PICK i \in 1 .. m : a[i] # b[i]
  BY DEF Differ
<1> DEFINE T == {d \in Nat : m - d \in 1 .. m /\ a[m - d] # b[m - d]}
<1>1. m - i \in T
  <2>1. m - i \in Nat /\ m - (m - i) = i
    OBVIOUS
  <2> QED BY <2>1
<1>2. T \in SUBSET Nat
  OBVIOUS
<1>3. PICK d \in T : \A e \in T : d <= e
  <2> HIDE DEF T
  <2> QED BY <1>1, <1>2, LeastNatural
<1>4. m - d \in 1 .. m /\ a[m - d] # b[m - d] /\ d \in Nat
  OBVIOUS
<1>5. ASSUME NEW q \in 1 .. m, q > m - d PROVE a[q] = b[q]
  <2>1. m - q \in Nat /\ m - (m - q) = q /\ m - q < d
    BY <1>4, <1>5
  <2>2. m - q \notin T
    <3> HIDE DEF T
    <3> QED BY <1>3, <1>4, <2>1
  <2> QED BY <2>1, <2>2
<1>6. DifferLast(a, b, m, m - d)
  BY <1>4, <1>5 DEF DifferLast
<1> QED BY <1>4, <1>6

\* When no wheel turns any more, the odometer stands at the end of the order.
LEMMA EndOfOrder ==
  ASSUME NEW n \in Nat, NEW domains, DOMAIN domains = 1 .. n,
         \A i \in 1 .. n : Len(domains[i]) \in Nat,
         NEW key \in Keys(domains), \A i \in 1 .. n : ~(key[i] + 1 < Len(domains[i])),
         NEW other \in Keys(domains)
  PROVE  Before(other, key) \/ other = key
<1>1. /\ key \in [1 .. n -> Nat] /\ \A i \in 1 .. n : key[i] < Len(domains[i])
      /\ other \in [1 .. n -> Nat] /\ \A i \in 1 .. n : other[i] < Len(domains[i])
  BY DEF Keys
<1>2. \A i \in 1 .. n : other[i] <= key[i]
  BY <1>1
<1>3. CASE \A i \in 1 .. n : other[i] = key[i]
  BY <1>1, <1>3
<1>4. CASE \E i \in 1 .. n : other[i] # key[i]
  <2>1. PICK p \in 1 .. n : DifferLast(other, key, n, p)
    <3>1. Differ(other, key, n)
      BY <1>4 DEF Differ
    <3> QED BY <3>1, LastDifference
  <2>2. other[p] # key[p] /\ \A q \in 1 .. n : q > p => other[q] = key[q]
    BY <2>1 DEF DifferLast
  <2>3. other[p] < key[p]
    BY <1>1, <1>2, <2>2
  <2> QED BY <1>1, <2>2, <2>3 DEF Before
<1> QED BY <1>3, <1>4

\* The first wheel w that can turn does, and those before it go back to zero.
Turned(key, w) ==
  [i \in DOMAIN key |-> IF i < w THEN 0 ELSE IF i = w THEN key[i] + 1 ELSE key[i]]

FirstToTurn(key, w, domains) ==
  /\ key[w] + 1 < Len(domains[w])
  /\ \A i \in DOMAIN domains : i < w => ~(key[i] + 1 < Len(domains[i]))

\* That is the position next in the order.
IsNext(key, after, domains) ==
  /\ after \in Keys(domains)
  /\ \A other \in Keys(domains) : Before(other, after) <=> Before(other, key) \/ other = key

LEMMA NextInOrder ==
  ASSUME NEW n \in Nat, NEW domains, DOMAIN domains = 1 .. n,
         \A i \in 1 .. n : Len(domains[i]) \in Nat,
         NEW key \in Keys(domains), NEW w \in 1 .. n, FirstToTurn(key, w, domains)
  PROVE  IsNext(key, Turned(key, w), domains)
<1> DEFINE after == Turned(key, w)
<1>0. /\ key[w] + 1 < Len(domains[w])
      /\ \A i \in 1 .. n : i < w => ~(key[i] + 1 < Len(domains[i]))
  BY DEF FirstToTurn
<1>1. key \in [1 .. n -> Nat] /\ \A i \in 1 .. n : key[i] < Len(domains[i])
  BY DEF Keys
<1>2. /\ after \in [1 .. n -> Nat]
      /\ after[w] = key[w] + 1
      /\ \A i \in 1 .. n : i < w => after[i] = 0
      /\ \A i \in 1 .. n : i > w => after[i] = key[i]
  BY <1>1 DEF Turned
<1>3. \A i \in 1 .. n : after[i] < Len(domains[i])
  <2> TAKE i \in 1 .. n
  <2>1. CASE i < w
    BY <1>1, <1>2, <2>1
  <2>2. CASE i = w
    BY <1>0, <1>2, <2>2
  <2>3. CASE i > w
    BY <1>1, <1>2, <2>3
  <2> QED BY <2>1, <2>2, <2>3
<1> HIDE DEF after
<1>4. after \in Keys(domains)
  BY <1>2, <1>3 DEF Keys
<1>5. ASSUME NEW other \in Keys(domains)
      PROVE  Before(other, after) <=> Before(other, key) \/ other = key
  <2>1. other \in [1 .. n -> Nat] /\ \A i \in 1 .. n : other[i] < Len(domains[i])
    BY DEF Keys
  <2>2. DOMAIN key = 1 .. n /\ DOMAIN after = 1 .. n
    BY <1>1, <1>2
  <2>3. ASSUME other = key PROVE Before(other, after)
    <3>1. other[w] < after[w] /\ \A q \in 1 .. n : q > w => other[q] = after[q]
      BY <1>1, <1>2, <2>3
    <3> QED BY <2>2, <3>1 DEF Before
  <2>4. ASSUME Before(other, key) PROVE Before(other, after)
    <3>1. PICK p \in 1 .. n : other[p] < key[p] /\ \A q \in 1 .. n : q > p => other[q] = key[q]
      <4>1. PICK p \in DOMAIN key :
              other[p] < key[p] /\ \A q \in DOMAIN key : q > p => other[q] = key[q]
        BY <2>4 DEF Before
      <4>2. p \in 1 .. n
        BY <2>2
      <4>3. \A q \in 1 .. n : q > p => other[q] = key[q]
        BY <2>2, <4>1
      <4> QED BY <4>1, <4>2, <4>3
    <3>2. CASE p <= w
      <4>1. other[w] <= key[w]
        <5>1. p = w \/ (w > p /\ w \in 1 .. n)
          BY <3>2
        <5>2. w > p => other[w] = key[w]
          BY <3>1
        <5> QED BY <1>1, <2>1, <3>1, <5>1, <5>2
      <4>2. other[w] < after[w] /\ \A q \in 1 .. n : q > w => other[q] = after[q]
        BY <1>1, <1>2, <2>1, <3>1, <3>2, <4>1
      <4> QED BY <2>2, <4>2 DEF Before
    <3>3. CASE p > w
      <4>1. other[p] < after[p] /\ \A q \in 1 .. n : q > p => other[q] = after[q]
        BY <1>1, <1>2, <2>1, <3>1, <3>3
      <4> QED BY <2>2, <4>1 DEF Before
    <3> QED BY <3>2, <3>3
  <2>5. ASSUME Before(other, after) PROVE Before(other, key) \/ other = key
    <3>1. PICK p \in 1 .. n :
            other[p] < after[p] /\ \A q \in 1 .. n : q > p => other[q] = after[q]
      <4>1. PICK p \in DOMAIN after :
              other[p] < after[p] /\ \A q \in DOMAIN after : q > p => other[q] = after[q]
        BY <2>5 DEF Before
      <4>2. p \in 1 .. n
        BY <2>2
      <4>3. \A q \in 1 .. n : q > p => other[q] = after[q]
        BY <2>2, <4>1
      <4> QED BY <4>1, <4>2, <4>3
    <3>2. p >= w
      BY <1>2, <2>1, <3>1
    <3>3. CASE p > w
      <4>1. other[p] < key[p] /\ \A q \in 1 .. n : q > p => other[q] = key[q]
        BY <1>1, <1>2, <2>1, <3>1, <3>3
      <4> QED BY <2>2, <4>1 DEF Before
    <3>4. CASE p = w /\ other[w] < key[w]
      <4>1. \A q \in 1 .. n : q > w => other[q] = key[q]
        BY <1>2, <3>1, <3>4
      <4> QED BY <2>2, <3>4, <4>1 DEF Before
    <3>5. CASE p = w /\ other[w] = key[w] /\ \A i \in 1 .. n : i < w => other[i] = key[i]
      <4>1. \A i \in 1 .. n : other[i] = key[i]
        BY <1>2, <3>1, <3>5
      <4> QED BY <1>1, <2>1, <4>1
    <3>6. CASE p = w /\ other[w] = key[w] /\ \E i \in 1 .. n : i < w /\ other[i] # key[i]
      <4>1. Differ(other, key, w - 1)
        BY <3>6 DEF Differ
      <4>2. w - 1 \in Nat
        OBVIOUS
      <4>3. PICK r \in 1 .. w - 1 : DifferLast(other, key, w - 1, r)
        BY <4>1, <4>2, LastDifference
      <4>4. other[r] # key[r] /\ \A q \in 1 .. w - 1 : q > r => other[q] = key[q]
        BY <4>3 DEF DifferLast
      <4>5. r \in 1 .. n /\ r < w
        OBVIOUS
      <4>6. other[r] < key[r]
        BY <1>0, <1>1, <2>1, <4>4, <4>5
      <4>7. \A q \in 1 .. n : q > r => other[q] = key[q]
        <5> TAKE q \in 1 .. n
        <5>1. CASE q < w
          BY <4>4, <5>1
        <5>2. CASE q = w
          BY <3>6, <5>2
        <5>3. CASE q > w
          BY <1>2, <3>1, <3>6, <5>3
        <5> QED BY <5>1, <5>2, <5>3
      <4> QED BY <2>2, <4>5, <4>6, <4>7 DEF Before
    <3>7. p = w => other[w] <= key[w]
      BY <1>1, <1>2, <2>1, <3>1
    <3> QED BY <1>1, <2>1, <3>2, <3>3, <3>4, <3>5, <3>6, <3>7
  <2> QED BY <2>3, <2>4, <2>5
<1> QED BY <1>4, <1>5 DEF after, IsNext

\* A wheel turns, or all have.
LEMMA IncrementFacts ==
  ASSUME NEW n \in Nat, NEW domains, DOMAIN domains = 1 .. n,
         \A i \in 1 .. n : Len(domains[i]) \in Nat, NEW key \in Keys(domains)
  PROVE  \/ /\ Increment(key, domains) = <<>>
            /\ \A other \in Keys(domains) : Before(other, key) \/ other = key
         \/ IsNext(key, Increment(key, domains), domains)
<1> DEFINE turns == {i \in DOMAIN key : key[i] + 1 < Len(domains[i])}
<1>1. DOMAIN key = 1 .. n
  BY DEF Keys
<1>2. CASE turns = {}
  <2>1. \A i \in 1 .. n : ~(key[i] + 1 < Len(domains[i]))
    BY <1>1, <1>2
  <2>2. Increment(key, domains) = <<>>
    BY <1>2 DEF Increment
  <2>3. \A other \in Keys(domains) : Before(other, key) \/ other = key
    BY <2>1, EndOfOrder
  <2> QED BY <2>2, <2>3
<1>3. CASE turns # {}
  <2>1. turns \in SUBSET Nat
    BY <1>1
  <2>2. \E x \in turns : \A y \in turns : x <= y
    <3> HIDE DEF turns
    <3>1. PICK t : t \in turns
      BY <1>3
    <3> QED BY <2>1, <3>1, LeastNatural
  <2> DEFINE w == Min(turns)
  <2>3. w \in turns /\ \A y \in turns : w <= y
    <3> HIDE DEF turns
    <3> QED BY <2>2, Zenon DEF Min
  <2>4. Increment(key, domains) = Turned(key, w)
    BY <1>3 DEF Increment, Turned
  <2> HIDE DEF w
  <2>5. w \in 1 .. n /\ key[w] + 1 < Len(domains[w])
    BY <1>1, <2>3
  <2>6. FirstToTurn(key, w, domains)
    BY <1>1, <2>3, <2>5 DEF FirstToTurn
  <2>7. IsNext(key, Turned(key, w), domains)
    BY <2>5, <2>6, NextInOrder
  <2> QED BY <2>4, <2>7
<1> QED BY <1>2, <1>3

-------------------------------------------------------------------------------
(* The table.                                                                *)

CallInv ==
  /\ host \in Logic
  /\ op \in Binary
  /\ \E n \in Nat \ {0} : src \in [1 .. n -> Domain]
  /\ \A i \in DOMAIN src : \A v \in DOMAIN src[i] : src[i][v] \in ValuesOf(host)

\* The positions the odometer has left behind.
Visited == IF index = <<>> THEN Keys(src) ELSE {k \in Keys(src) : Before(k, index)}

RowOf(key) == <<Tuple(key, src), RowValue(host, op, Tuple(key, src))>>

\* The rows are those of the positions it has left behind, each once.
TableInv ==
  /\ CallInv
  /\ index # <<>> => index \in Keys(src)
  /\ ret \in Seq({RowOf(k) : k \in Keys(src)})
  /\ {ret[i][1] : i \in DOMAIN ret} = {Tuple(k, src) : k \in Visited}
  /\ \A i, j \in DOMAIN ret : i # j => ret[i][1] # ret[j][1]

LEMMA DomainFacts ==
  ASSUME CallInv, NEW i \in DOMAIN src
  PROVE  /\ Len(src[i]) \in Nat \ {0}
         /\ DOMAIN src[i] = 1 .. Len(src[i])
         /\ \A p \in 1 .. Len(src[i]) : src[i][p] \in ValuesOf(host)
         /\ \A p, q \in 1 .. Len(src[i]) : src[i][p] = src[i][q] => p = q
<1>1. src[i] \in Domain
  BY DEF CallInv
<1>2. src[i] \in Seq(TruthValue) /\ src[i] # <<>> /\ IsInjective(src[i])
  BY <1>1, DomainAssumption
<1>3. Len(src[i]) \in Nat /\ DOMAIN src[i] = 1 .. Len(src[i])
  BY <1>2, LenProperties
<1>4. Len(src[i]) # 0
  BY <1>2, EmptySeq
<1>5. \A p, q \in DOMAIN src[i] : src[i][p] = src[i][q] => p = q
  BY <1>2 DEF IsInjective
<1>6. \A p \in DOMAIN src[i] : src[i][p] \in ValuesOf(host)
  BY DEF CallInv
<1> QED BY <1>3, <1>4, <1>5, <1>6

\* The tuple of a position: one member of each domain, another for another position.
LEMMA TupleFacts ==
  ASSUME CallInv, NEW key \in Keys(src)
  PROVE  /\ \A n \in Nat \ {0} : DOMAIN src = 1 .. n => Tuple(key, src) \in Arguments(host, n)
         /\ \A other \in Keys(src) : Tuple(other, src) = Tuple(key, src) => other = key
<1> DEFINE t == Tuple(key, src)
<1>1. key \in [DOMAIN src -> Nat] /\ \A i \in DOMAIN src : key[i] < Len(src[i])
  BY DEF Keys
<1>2. \A i \in DOMAIN src : t[i] = src[i][key[i] + 1] /\ key[i] + 1 \in 1 .. Len(src[i])
  <2> TAKE i \in DOMAIN src
  <2>1. Len(src[i]) \in Nat
    BY DomainFacts
  <2> QED BY <1>1, <2>1 DEF Tuple
<1>3. ASSUME NEW n \in Nat \ {0}, DOMAIN src = 1 .. n PROVE t \in Arguments(host, n)
  <2>1. \A i \in 1 .. n : src[i][key[i] + 1] \in ValuesOf(host)
    BY <1>2, <1>3, DomainFacts
  <2> QED BY <1>3, <2>1 DEF Arguments, Tuple
<1>4. ASSUME NEW other \in Keys(src), Tuple(other, src) = t PROVE other = key
  <2>1. other \in [DOMAIN src -> Nat] /\ \A i \in DOMAIN src : other[i] < Len(src[i])
    BY DEF Keys
  <2>2. ASSUME NEW i \in DOMAIN src PROVE other[i] = key[i]
    <3>1. /\ Len(src[i]) \in Nat
          /\ \A p, q \in 1 .. Len(src[i]) : src[i][p] = src[i][q] => p = q
      BY DomainFacts
    <3>2. other[i] + 1 \in 1 .. Len(src[i]) /\ key[i] + 1 \in 1 .. Len(src[i])
      BY <1>2, <2>1, <3>1
    <3>3. src[i][other[i] + 1] = src[i][key[i] + 1]
      <4>1. Tuple(other, src)[i] = src[i][other[i] + 1]
        BY DEF Tuple
      <4> QED BY <1>2, <1>4, <4>1
    <3>4. other[i] + 1 = key[i] + 1
      BY <3>1, <3>2, <3>3
    <3> QED BY <1>1, <2>1, <3>4
  <2> QED BY <1>1, <2>1, <2>2
<1> QED BY <1>3, <1>4

LEMMA TableInvInit == Init => TableInv
<1> SUFFICES ASSUME Init PROVE TableInv
  OBVIOUS
<1>1. PICK n \in 1 .. MaxArity :
        src \in [1 .. n -> {d \in Domain : \A i \in DOMAIN d : d[i] \in ValuesOf(host)}]
  BY DEF Init, Call
<1>2. n \in Nat \ {0}
  BY ArityAssumption
<1>3. host \in Logic /\ op \in Binary /\ index = [i \in DOMAIN src |-> 0] /\ ret = <<>>
  BY ConnectiveAssumption DEF Init, Call, Binary
<1>4. CallInv
  BY <1>1, <1>2, <1>3 DEF CallInv
<1>5. DOMAIN src = 1 .. n
  BY <1>1
<1>6. index \in Keys(src)
  <2>1. \A i \in DOMAIN src : Len(src[i]) \in Nat \ {0}
    BY <1>4, DomainFacts
  <2> QED BY <1>3, <2>1 DEF Keys
<1>7. Visited = {}
  <2>1. index # <<>>
    BY <1>2, <1>3, <1>5
  <2>2. \A k \in Keys(src) : ~Before(k, index)
    BY <1>3 DEF Before, Keys
  <2> QED BY <2>1, <2>2 DEF Visited
<1>8. /\ ret \in Seq({RowOf(k) : k \in Keys(src)})
      /\ DOMAIN ret = {}
  BY <1>3
<1> QED BY <1>4, <1>6, <1>7, <1>8 DEF TableInv

\* A round adds the row of the position it leaves, and no position is left twice.
LEMMA RowInv ==
  ASSUME TableInv, Row
  PROVE  TableInv'
<1> DEFINE Rows == {RowOf(k) : k \in Keys(src)}
<1> DEFINE n == Len(ret)
<1>1. /\ CallInv /\ index \in Keys(src) /\ index # <<>>
      /\ ret \in Seq(Rows)
      /\ {ret[i][1] : i \in DOMAIN ret} = {Tuple(k, src) : k \in Visited}
      /\ \A i, j \in DOMAIN ret : i # j => ret[i][1] # ret[j][1]
  BY DEF TableInv, Row
<1>2. /\ ret' = Append(ret, RowOf(index))
      /\ index' = Increment(index, src)
      /\ host' = host /\ op' = op /\ src' = src
  BY DEF Row, RowOf
<1>3. PICK a \in Nat \ {0} : DOMAIN src = 1 .. a
  BY <1>1 DEF CallInv
<1>4. \A i \in 1 .. a : Len(src[i]) \in Nat
  BY <1>1, <1>3, DomainFacts
<1>5. CallInv'
  BY <1>1, <1>2 DEF CallInv
<1>6. /\ index' # <<>> => index' \in Keys(src)
      /\ Visited' = Visited \cup {index}
  <2>1. Visited = {k \in Keys(src) : Before(k, index)}
    BY <1>1 DEF Visited
  <2>2. Visited' = IF index' = <<>> THEN Keys(src) ELSE {k \in Keys(src) : Before(k, index')}
    BY <1>2 DEF Visited
  <2>3. CASE /\ index' = <<>>
             /\ \A other \in Keys(src) : Before(other, index) \/ other = index
    BY <1>1, <2>1, <2>2, <2>3
  <2>4. CASE IsNext(index, index', src)
    <3>1. index' \in Keys(src)
      BY <2>4 DEF IsNext
    <3>2. \A other \in Keys(src) : Before(other, index') <=> Before(other, index) \/ other = index
      BY <2>4 DEF IsNext
    <3>3. index' # <<>>
      <4>1. DOMAIN index' = 1 .. a
        BY <1>3, <3>1 DEF Keys
      <4> QED BY <1>3, <4>1
    <3> QED BY <1>1, <2>1, <2>2, <3>1, <3>2, <3>3
  <2> QED BY <1>1, <1>2, <1>3, <1>4, <2>3, <2>4, IncrementFacts
<1>7. RowOf(index) \in Rows
  BY <1>1
<1>8. /\ ret' \in Seq(Rows)
      /\ n \in Nat
      /\ DOMAIN ret = 1 .. n /\ DOMAIN ret' = 1 .. n + 1
      /\ \A i \in 1 .. n : ret'[i] = ret[i]
      /\ ret'[n + 1] = RowOf(index)
  <2> HIDE DEF Rows
  <2> QED BY <1>1, <1>2, <1>7, AppendProperties
<1>9. ret' \in Seq({RowOf(k) : k \in Keys(src)})'
  <2>1. {RowOf(k) : k \in Keys(src)}' = Rows
    BY <1>2 DEF RowOf
  <2> QED BY <1>8, <2>1
<1>10. RowOf(index)[1] = Tuple(index, src)
  BY DEF RowOf
<1>11. \A i \in 1 .. n : ret[i][1] # Tuple(index, src)
  <2> TAKE i \in 1 .. n
  <2>1. PICK k \in Visited : ret[i][1] = Tuple(k, src)
    <3>1. ret[i][1] \in {ret[j][1] : j \in DOMAIN ret}
      BY <1>8
    <3>2. ret[i][1] \in {Tuple(k, src) : k \in Visited}
      BY <1>1, <3>1
    <3> QED BY <3>2
  <2>2. k \in Keys(src) /\ Before(k, index)
    BY <1>1, <2>1 DEF Visited
  <2>3. k # index
    <3>1. ~Before(index, index)
      <4>1. index \in [DOMAIN src -> Nat]
        BY <1>1 DEF Keys
      <4> QED BY <4>1 DEF Before
    <3> QED BY <2>2, <3>1
  <2> QED BY <1>1, <2>1, <2>2, <2>3, TupleFacts
<1>12. \A i, j \in DOMAIN ret' : i # j => ret'[i][1] # ret'[j][1]
  <2>1. \A i \in 1 .. n + 1 : i \in 1 .. n \/ i = n + 1
    BY <1>8
  <2> QED BY <1>1, <1>8, <1>10, <1>11, <2>1
<1>13. {ret'[i][1] : i \in DOMAIN ret'} = {Tuple(k, src) : k \in Visited'}
  <2>1. DOMAIN ret' = DOMAIN ret \cup {n + 1} /\ \A i \in DOMAIN ret : ret'[i] = ret[i]
    BY <1>8
  <2>2. {ret'[i][1] : i \in DOMAIN ret'} = {ret[i][1] : i \in DOMAIN ret} \cup {Tuple(index, src)}
    BY <1>8, <1>10, <2>1
  <2>3. {Tuple(k, src) : k \in Visited'} = {Tuple(k, src) : k \in Visited} \cup {Tuple(index, src)}
    BY <1>6
  <2> QED BY <1>1, <2>2, <2>3
<1> QED BY <1>2, <1>5, <1>6, <1>9, <1>12, <1>13 DEF TableInv

LEMMA TableInvStep == TableInv /\ [Next]_vars => TableInv'
<1>1. ASSUME TableInv, UNCHANGED vars PROVE TableInv'
  BY <1>1 DEF vars, TableInv, CallInv, Visited, RowOf
<1> QED BY <1>1, RowInv DEF Next

LEMMA TableInvHolds == TableSpec => []TableInv
BY TableInvInit, TableInvStep, PTL DEF TableSpec

\* What a row is.
LEMMA RowFacts ==
  ASSUME TableInv, NEW i \in DOMAIN ret
  PROVE  \E n \in Nat \ {0} :
           /\ ret[i][1] \in Arguments(host, n)
           /\ ret[i][2] = RowValue(host, op, ret[i][1])
<1>1. PICK n \in Nat \ {0} : DOMAIN src = 1 .. n
  BY DEF TableInv, CallInv
<1>2. ret[i] \in {RowOf(k) : k \in Keys(src)}
  <2> DEFINE Rows == {RowOf(k) : k \in Keys(src)}
  <2>1. ret \in Seq(Rows)
    BY DEF TableInv
  <2> HIDE DEF Rows
  <2>2. ret[i] \in Rows
    BY <2>1, LenProperties
  <2> QED BY <2>2 DEF Rows
<1>3. PICK k \in Keys(src) : ret[i] = RowOf(k)
  BY <1>2
<1>4. Tuple(k, src) \in Arguments(host, n)
  BY <1>1, TupleFacts DEF TableInv
<1> QED BY <1>3, <1>4 DEF RowOf

-------------------------------------------------------------------------------
(* What the runs check, for every list of domains.                           *)

\* When the odometer has run out every tuple of arguments is one of its positions'.
LEMMA AllTuples ==
  ASSUME CallInv
  PROVE  Tuples = {Tuple(k, src) : k \in Keys(src)}
<1>1. ASSUME NEW k \in Keys(src) PROVE Tuple(k, src) \in Tuples
  <2>1. \A i \in DOMAIN src : k[i] \in Nat /\ k[i] < Len(src[i])
    BY DEF Keys
  <2>2. ASSUME NEW i \in DOMAIN src
        PROVE  src[i][k[i] + 1] \in Range(src[i]) /\ src[i][k[i] + 1] \in TruthValue
    <3>1. /\ Len(src[i]) \in Nat
          /\ DOMAIN src[i] = 1 .. Len(src[i])
          /\ \A p \in 1 .. Len(src[i]) : src[i][p] \in ValuesOf(host)
      BY DomainFacts
    <3>2. k[i] + 1 \in 1 .. Len(src[i])
      BY <2>1, <3>1
    <3>3. src[i][k[i] + 1] \in ValuesOf(host)
      BY <3>1, <3>2
    <3>4. host \in Logic
      BY DEF CallInv
    <3> QED BY <3>1, <3>2, <3>3, <3>4, RangeIsAllowed DEF Range
  <2> QED BY <2>2 DEF Tuple, Tuples
<1>2. ASSUME NEW t \in Tuples PROVE \E k \in Keys(src) : t = Tuple(k, src)
  <2> DEFINE at(i) == CHOOSE p \in 1 .. Len(src[i]) : src[i][p] = t[i]
  <2>1. /\ t \in [DOMAIN src -> TruthValue]
        /\ \A i \in DOMAIN src : t[i] \in Range(src[i])
    BY DEF Tuples
  <2>2. ASSUME NEW i \in DOMAIN src
        PROVE  /\ at(i) \in 1 .. Len(src[i]) /\ src[i][at(i)] = t[i]
               /\ Len(src[i]) \in Nat
    <3>1. Len(src[i]) \in Nat /\ DOMAIN src[i] = 1 .. Len(src[i])
      BY DomainFacts
    <3>2. \E p \in 1 .. Len(src[i]) : src[i][p] = t[i]
      BY <2>1, <3>1 DEF Range
    <3> QED BY <3>1, <3>2
  <2> DEFINE key == [i \in DOMAIN src |-> at(i) - 1]
  <2> HIDE DEF at
  <2>3. key \in Keys(src)
    <3>1. \A i \in DOMAIN src : at(i) - 1 \in Nat /\ at(i) - 1 < Len(src[i])
      BY <2>2
    <3> QED BY <3>1 DEF Keys
  <2>4. \A i \in DOMAIN src : src[i][key[i] + 1] = t[i]
    <3> TAKE i \in DOMAIN src
    <3>1. key[i] + 1 = at(i)
      BY <2>2
    <3> QED BY <2>2, <3>1
  <2>5. t = Tuple(key, src)
    <3> HIDE DEF key
    <3> QED BY <2>1, <2>4 DEF Tuple
  <2> QED BY <2>3, <2>5
<1> QED BY <1>1, <1>2

(***************************************************************************)
(* The truth table of enumerate has one row for every tuple of arguments    *)
(* when increment answers false, and never two for one.                     *)
(***************************************************************************)
THEOREM OdometerIsExhaustive == TableSpec => []EveryTupleOnce
<1>1. TableInv => EveryTupleOnce
  <2> SUFFICES ASSUME TableInv PROVE EveryTupleOnce
    OBVIOUS
  <2>1. \A i, j \in DOMAIN ret : i # j => ret[i][1] # ret[j][1]
    BY DEF TableInv
  <2>2. ASSUME index = <<>> PROVE {ret[i][1] : i \in DOMAIN ret} = Tuples
    BY <2>2, AllTuples DEF TableInv, Visited
  <2> QED BY <2>1, <2>2 DEF EveryTupleOnce
<1> QED BY <1>1, TableInvHolds, PTL

(***************************************************************************)
(* "assume truth-functional associative", which enumerate leaves to its     *)
(* caller, holds for conjunction and disjunction in all six logics, for     *)
(* tuples of any length the code allows; no row is out of the range of its  *)
(* logic.                                                                  *)
(***************************************************************************)
THEOREM GroupingDoesNotMatter == TableSpec => []GroupingIrrelevant
<1>1. TableInv => GroupingIrrelevant
  <2> SUFFICES ASSUME TableInv, op \in {"and", "or"}, NEW i \in DOMAIN ret, Len(ret[i][1]) > 1
               PROVE  /\ ~IsOutOfRange(host, ret[i][2])
                      /\ ret[i][2] = FoldedFromLeft(host, op, ret[i][1])
                      /\ IsCommutative(host) => ret[i][2] = RowValue(host, op, Reverse(ret[i][1]))
    BY DEF GroupingIrrelevant
  <2> DEFINE t == ret[i][1]
  <2>1. host \in Logic /\ op \in Binary
    BY DEF TableInv, CallInv
  <2>2. PICK n \in Nat \ {0} : t \in Arguments(host, n) /\ ret[i][2] = RowValue(host, op, t)
    BY RowFacts
  <2> HIDE DEF t
  <2>3. Len(t) = n /\ n > 1
    BY <2>2, ArgumentsFacts DEF t
  <2>4. ret[i][2] = FoldedFromRight(host, op, t)
    BY <2>2, <2>3 DEF RowValue
  <2>5. ~IsOutOfRange(host, ret[i][2])
    BY <2>1, <2>2, RowValueInRange, RangeIsAllowed
  <2>6. ret[i][2] = FoldedFromLeft(host, op, t)
    BY <2>1, <2>2, <2>4, RightFoldIsLeftFold
  <2>7. ASSUME IsCommutative(host) PROVE ret[i][2] = RowValue(host, op, Reverse(t))
    <3>1. FoldedFromRight(host, op, Reverse(t)) = FoldedFromLeft(host, op, t)
      BY <2>1, <2>2, <2>7, ReversedFold
    <3>2. Len(Reverse(t)) # 1
      <4>1. Reverse(t) \in Arguments(host, n)
        <5>1. \A k \in 1 .. n : (n - k) + 1 \in 1 .. n
          OBVIOUS
        <5>2. \A k \in 1 .. n : t[k] \in ValuesOf(host)
          BY <2>2, ArgumentsFacts
        <5> QED BY <2>3, <5>1, <5>2 DEF Reverse, Arguments
      <4> QED BY <2>3, <4>1, ArgumentsFacts
    <3> QED BY <2>6, <3>1, <3>2 DEF RowValue
  <2> QED BY <2>5, <2>6, <2>7 DEF t
<1> QED BY <1>1, TableInvHolds, PTL

(***************************************************************************)
(* Expressions of two logics are joined under the larger one because a      *)
(* logic gives the values of a logic it contains the rows of that logic.    *)
(***************************************************************************)
THEOREM SublogicsAgree == TableSpec => []SublogicAgrees
<1>1. TableInv => SublogicAgrees
  <2> SUFFICES ASSUME TableInv, NEW i \in DOMAIN ret, NEW sub \in Logic,
                      IsSublogic(sub, host), Range(ret[i][1]) \subseteq ValuesOf(sub)
               PROVE  RowValue(sub, op, ret[i][1]) = ret[i][2]
    BY DEF SublogicAgrees
  <2>1. host \in Logic /\ op \in Binary
    BY DEF TableInv, CallInv
  <2>2. PICK n \in Nat \ {0} : /\ ret[i][1] \in Arguments(host, n)
                               /\ ret[i][2] = RowValue(host, op, ret[i][1])
    BY RowFacts
  <2>3. ret[i][1] \in Arguments(sub, n)
    BY <2>2 DEF Arguments, Range
  <2> QED BY <2>1, <2>2, <2>3, RowValueExtends
<1> QED BY <1>1, TableInvHolds, PTL

===============================================================================
