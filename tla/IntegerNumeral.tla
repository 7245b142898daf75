--------------------------- MODULE IntegerNumeral ---------------------------
(***************************************************************************)
(* Franci's integers (__IntegerNumeral.cxx): a sign and an absolute value  *)
(* in base WrapLB, the lowest limb first.  No limb is zero, one limb is    *)
(* the small representation, two or more the large one.                    *)
(*                                                                         *)
(* A sum rearranges its two numerals: what fits moves into one of them,    *)
(* without asking for memory, and what does not stays in the other.  A     *)
(* forced sum then asks for one more limb.  1/n, which the code keeps in   *)
(* the same type, is not modelled.                                         *)
(***************************************************************************)
EXTENDS Integers, Sequences, FiniteSetsExt, SequencesExt

CONSTANT WrapLB  \* 10^9 in the code

ASSUME WrapAssumption == WrapLB \in Nat /\ WrapLB > 2

MaxLimb == WrapLB - 1

\* What limbs stand for, taken from the highest down.
Weigh[limbs \in Seq(Int)] ==
  LET above[k \in 0..Len(limbs)] ==
        IF k = 0 THEN 0 ELSE limbs[Len(limbs) + 1 - k] + WrapLB * above[k - 1]
  IN  above[Len(limbs)]

\* LargeShrinkRepresentation
Shrunk(l) == SubSeq(l, 1, Max({0} \cup {k \in DOMAIN l : l[k] # 0}))

\* Numbers that fit in m limbs, in as few as they need.
Limbs(m) ==
  [n \in Nat |->
     LET rest[k \in 0..m] == IF k = 0 THEN n ELSE rest[k - 1] \div WrapLB
     IN  Shrunk([k \in 1..m |-> rest[k - 1] % WrapLB])]

Zero          == [sign |-> 0, limbs |-> <<>>]
Numeral(s, l) == IF l = <<>> THEN Zero ELSE [sign |-> s, limbs |-> l]
IsZero(x)     == x.sign = 0
IsSmall(x)    == Len(x.limbs) = 1
Value(x)      == x.sign * Weigh[x.limbs]

\* SyntaxOK, and what every function relies on beyond it: limbs below the base, and
\* the highest not zero.
IsProper(x) ==
  /\ x.sign = 0 <=> x.limbs = <<>>
  /\ \A k \in DOMAIN x.limbs : x.limbs[k] \in 0..MaxLimb
WastesNone(x) == x.limbs # <<>> => Last(x.limbs) # 0

-----------------------------------------------------------------------------
(* One sign: l takes what it can of r.                                     *)

\* A carry from limb k - 1 runs up to limb j, which has room for it.
CarriedTo(l, k, j) ==
  [i \in DOMAIN l |-> IF i = j THEN l[i] + 1 ELSE IF i \in k..(j - 1) THEN 0 ELSE l[i]]

\* LHSLargeRHSSmallSameSignCondense and, of a single limb, LHSRHSSmallSameSignCondense.
TakeSmall(l, r) ==
  LET t    == l[1] + r[1]
      room == {k \in 2..Len(l) : l[k] < MaxLimb}
  IN  IF t <= MaxLimb THEN <<[l EXCEPT ![1] = t], <<>>>>
      ELSE IF room # {} THEN <<CarriedTo([l EXCEPT ![1] = t - WrapLB], 2, Min(room)), <<>>>>
      ELSE <<[l EXCEPT ![1] = MaxLimb], <<t - MaxLimb>>>>

\* LHSRHSLargeSameSignCondenseLHSLonger and ...SameLength.  From the top of r down,
\* limbs that add up to the largest one are passed over; the first that do not, at
\* "wary", decide.  Where l is full the surplus stays in r; a limb of r that makes l's
\* exactly full is not cleared.
TakeLarge(l, r) ==
  LET sums  == [k \in DOMAIN l |-> l[k] + (IF k <= Len(r) THEN r[k] ELSE 0)]
      wary  == Max({1} \cup {k \in 2..Len(r) : sums[k] # MaxLimb})
      room  == {k \in (Len(r) + 1)..Len(l) : l[k] < MaxLimb}
      added == [k \in DOMAIN l |->
                  (IF k < wary /\ sums[k] >= WrapLB THEN sums[k] - WrapLB ELSE sums[k])
                    + (IF k \in 2..wary /\ sums[k - 1] >= WrapLB THEN 1 ELSE 0)]
      full  == [k \in DOMAIN l |-> IF k <= wary THEN MaxLimb ELSE sums[k]]
      left  == [k \in 1..wary |-> IF k < wary /\ sums[k] = MaxLimb THEN r[k]
                                  ELSE sums[k] - MaxLimb]
  IN  IF wary = 1
      THEN IF sums[1] < WrapLB THEN <<sums, <<>>>> ELSE <<full, left>>
      ELSE IF sums[wary] < MaxLimb THEN <<added, <<>>>>
      ELSE IF room # {}
      THEN <<CarriedTo([added EXCEPT ![wary] = @ - WrapLB], wary + 1, Min(room)), <<>>>>
      ELSE <<full, Limbs(wary)[Weigh[left]]>>

Take(l, r) == IF Len(r) = 1 THEN TakeSmall(l, r) ELSE TakeLarge(l, r)

Swap(p) == <<p[2], p[1]>>

\* ZeroRHSInSmallSameSignCondense and LHSIntArrayIsLarger.
IsLarger(s, l, r) == Weigh[l] > Weigh[r] \/ (Weigh[l] = Weigh[r] /\ s < 0)

\* LHSRHSLargeSameSignCondense, and the cases of RearrangeSum beside it: which of the
\* two takes the other's.
LeftTakes(s, l, r) ==
  IF Len(l) # Len(r) \/ Len(l) = 1 THEN IsLarger(s, l, r)
  ELSE \/ Last(l) + Last(r) < MaxLimb
       \/ Last(l) + Last(r) = MaxLimb /\ Last(l) >= Last(r)

Condensed(s, l, r) == IF LeftTakes(s, l, r) THEN Take(l, r) ELSE Swap(Take(r, l))

-----------------------------------------------------------------------------
(* Opposite signs: l, the larger absolute value, loses r.                  *)

\* ReduceLargeLHSAbsValByN
LessSmall(l, n) ==
  IF l[1] >= n THEN [l EXCEPT ![1] = @ - n]
  ELSE LET j == Min({k \in 2..Len(l) : l[k] # 0})
           b == [k \in DOMAIN l |-> IF k = 1 THEN l[1] + WrapLB - n
                                    ELSE IF k < j THEN MaxLimb
                                    ELSE IF k = j THEN l[k] - 1 ELSE l[k]]
       IN  IF b[j] # 0 THEN b ELSE IF j = 2 THEN <<b[1]>> ELSE Front(b)

\* Mutant of Subtract: what a limb owes is not taken from a higher one.
SubtractUnborrowed(l, r, k) ==
  [i \in DOMAIN l |-> IF i # k THEN l[i]
                      ELSE IF l[k] < r[k] THEN l[k] - r[k] + WrapLB ELSE l[k] - r[k]]

\* One round of DigitalSubtract; whom to borrow from is read off r.
Subtract(l, r, k) ==
  LET owes == l[k] < r[k]
      j    == IF owes THEN Min({i \in (k + 1)..Len(r) : r[i] # 0}) ELSE k
  IN  [i \in DOMAIN l |-> IF i = k THEN l[k] - r[k] + (IF owes THEN WrapLB ELSE 0)
                          ELSE IF i = j THEN l[i] - 1
                          ELSE IF i \in k..j THEN MaxLimb ELSE l[i]]

\* LargeAdjustAbsValByLarge: below the highest limb that differs.
LessLarge(l, r) ==
  LET top == IF Len(l) > Len(r) THEN Len(r) ELSE Max({k \in DOMAIN l : l[k] # r[k]})
      d[k \in 0..top] == IF k = 0 THEN l ELSE Subtract(d[k - 1], r, k)
  IN  Shrunk(SubSeq(d[top], 1, top))

Less(l, r) ==
  IF Len(l) = 1 THEN <<l[1] - r[1]>>
  ELSE IF Len(r) = 1 THEN LessSmall(l, r[1])
  ELSE LessLarge(l, r)

Cancelled(l, r) ==
  IF l = r THEN <<<<>>, <<>>>>
  ELSE IF Weigh[l] > Weigh[r] THEN <<Less(l, r), <<>>>> ELSE <<<<>>, Less(r, l)>>

-----------------------------------------------------------------------------
\* RearrangeSum
RearrangeSum(x, y) ==
  LET p == IF x.sign = y.sign THEN Condensed(x.sign, x.limbs, y.limbs)
           ELSE Cancelled(x.limbs, y.limbs)
  IN  IF IsZero(x) \/ IsZero(y) THEN <<x, y>>
      ELSE <<Numeral(x.sign, p[1]), Numeral(y.sign, p[2])>>

\* LHSRHSLargeSameSignForceCondense and its siblings: the larger gets another limb.
Grown(l, r) ==
  IF Len(l) = 1 THEN <<<<l[1] + r[1] - WrapLB, 1>>, <<>>>> ELSE Take(Append(l, 0), r)

\* ForceRearrangeSum, given what RearrangeSum left.  It may find no memory for the limb
\* it asks for; then it answers false and leaves the two as they are.
Forced(p, memory) ==
  IF IsZero(p[1]) \/ IsZero(p[2]) THEN [sums |-> TRUE, pair |-> p]
  ELSE IF ~memory THEN [sums |-> FALSE, pair |-> p]
  ELSE LET s == p[1].sign
           l == p[1].limbs
           r == p[2].limbs
           q == IF IsLarger(s, l, r) THEN Grown(l, r) ELSE Swap(Grown(r, l))
       IN  [sums |-> TRUE, pair |-> <<Numeral(s, q[1]), Numeral(s, q[2])>>]

=============================================================================
