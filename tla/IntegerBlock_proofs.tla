------------------------- MODULE IntegerBlock_proofs -------------------------
(***************************************************************************)
(* For every base: the sums of two or three numerals of one or two limbs.   *)
(***************************************************************************)
EXTENDS IntegerBlock, LoopLemmas, SequenceTheorems

-----------------------------------------------------------------------------
(* The recursive functions.                                                *)

RunOfWeigh(above, limbs) ==
  /\ above[0] = 0
  /\ \A k \in 1 .. Len(limbs) : above[k] = limbs[Len(limbs) + 1 - k] + WrapLB * above[k - 1]
  /\ Weigh[limbs] = above[Len(limbs)]

LEMMA WeighRuns ==
  ASSUME NEW limbs \in Seq(Int)
  PROVE  \E above \in [0 .. Len(limbs) -> Int] : RunOfWeigh(above, limbs)
<1> DEFINE m == Len(limbs)
<1> DEFINE base == 0
<1> DEFINE turn(d, k) == limbs[Len(limbs) + 1 - k] + WrapLB * d
<1> DEFINE step == [k \in 1 .. m |-> [d \in Int |-> turn(d, k)]]
<1>0. m \in Nat
  OBVIOUS
<1>1. \A k \in 1 .. m : limbs[k] \in Int
  OBVIOUS
<1>3. ASSUME NEW d \in Int, NEW k \in 1 .. m PROVE turn(d, k) \in Int
  <2>1. Len(limbs) + 1 - k \in 1 .. m
    OBVIOUS
  <2>2. limbs[Len(limbs) + 1 - k] \in Int
    BY <2>1
  <2>3. WrapLB * d \in Int
    BY WrapAssumption
  <2> QED BY <2>2, <2>3
<1>4. step \in [1 .. m -> [Int -> Int]]
  <2> HIDE DEF turn, m
  <2> QED BY <1>3
<1>5. PICK g \in [0 .. m -> Int] : RunOf(g, base, m, step)
  <2>1. base \in Int
    OBVIOUS
  <2> HIDE DEF base, step, m
  <2> QED BY <2>1, <1>0, <1>4, LoopRuns
<1> DEFINE value(h, k) == IF k = 0 THEN base ELSE turn(h[k - 1], k)
<1>6. ASSUME NEW k \in 0 .. m PROVE g[k] = value(g, k)
  <2>1. CASE k = 0
    BY <2>1, <1>5 DEF RunOf
  <2>2. CASE k \in 1 .. m
    <3>1. g[k - 1] \in Int
      BY <1>0, <2>2
    <3> HIDE DEF turn, m
    <3> QED BY <1>5, <2>2, <3>1 DEF RunOf
  <2> QED BY <2>1, <2>2
<1>7. g = [k \in 0 .. m |-> value(g, k)]
  <2> HIDE DEF value, base, step, m
  <2> QED BY <1>6
<1> DEFINE acc == CHOOSE h : h = [k \in 0 .. m |-> value(h, k)]
<1>8. acc = [k \in 0 .. m |-> value(acc, k)]
  <2> HIDE DEF value, m
  <2> QED BY <1>7
<1>9. Weigh[limbs] = acc[m]
  BY DEF Weigh
<1> HIDE DEF acc, m
<1>10. acc[0] = base /\ \A k \in 1 .. m : acc[k] = turn(acc[k - 1], k)
  BY <1>0, <1>8
<1>11. acc \in [0 .. m -> Int]
  <2> DEFINE S == {k \in 0 .. m : acc[k] \in Int}
  <2> HIDE DEF turn, base
  <2>1. 0 \in S
    BY <1>0, <1>10 DEF base
  <2>2. ASSUME NEW k \in 1 .. m, k - 1 \in S PROVE k \in S
    <3>1. acc[k - 1] \in Int
      BY <2>2
    <3>2. turn(acc[k - 1], k) \in Int
      BY <1>3, <3>1
    <3>3. acc[k] \in Int /\ k \in 0 .. m
      BY <1>0, <1>10, <3>2
    <3> QED BY <3>3
  <2>3. 0 .. m \subseteq S
    <3> HIDE DEF S
    <3> QED BY <1>0, <2>1, <2>2, TurnByTurn
  <2> QED BY <2>3, <1>8
<1>12. RunOfWeigh(acc, limbs)
  BY <1>9, <1>10 DEF RunOfWeigh, m
<1> QED BY <1>11, <1>12 DEF m
-----------------------------------------------------------------------------
(* Numbers of up to three limbs, written out.                              *)

LEMMA SingleIs ==
  ASSUME NEW f, f = [k \in 1 .. 1 |-> f[k]]
  PROVE  f = <<f[1]>>
OBVIOUS

LEMMA PairIs ==
  ASSUME NEW f, f = [k \in 1 .. 2 |-> f[k]]
  PROVE  f = <<f[1], f[2]>>
OBVIOUS

LEMMA TripleIs ==
  ASSUME NEW f, f = [k \in 1 .. 3 |-> f[k]]
  PROVE  f = <<f[1], f[2], f[3]>>
OBVIOUS

LEMMA WeighOne ==
  ASSUME NEW a \in Int
  PROVE  Weigh[<<a>>] = a
<1>1. <<a>> \in Seq(Int) /\ Len(<<a>>) = 1
  OBVIOUS
<1>2. PICK above \in [0 .. 1 -> Int] : RunOfWeigh(above, <<a>>)
  BY <1>1, WeighRuns
<1>3. above[0] = 0 /\ above[1] = <<a>>[1] + WrapLB * above[0] /\ Weigh[<<a>>] = above[1]
  BY <1>1, <1>2 DEF RunOfWeigh
<1> QED BY <1>3, WrapAssumption

LEMMA WeighTwo ==
  ASSUME NEW a \in Int, NEW b \in Int
  PROVE  Weigh[<<a, b>>] = a + WrapLB * b
<1>1. <<a, b>> \in Seq(Int) /\ Len(<<a, b>>) = 2
  OBVIOUS
<1>2. PICK above \in [0 .. 2 -> Int] : RunOfWeigh(above, <<a, b>>)
  BY <1>1, WeighRuns
<1>3. /\ above[0] = 0
      /\ above[1] = <<a, b>>[2] + WrapLB * above[0]
      /\ above[2] = <<a, b>>[1] + WrapLB * above[1]
      /\ Weigh[<<a, b>>] = above[2]
  BY <1>1, <1>2 DEF RunOfWeigh
<1>4. above[1] = b
  BY <1>3, WrapAssumption
<1> QED BY <1>3, <1>4, WrapAssumption

LEMMA WeighThree ==
  ASSUME NEW a \in Int, NEW b \in Int, NEW c \in Int
  PROVE  Weigh[<<a, b, c>>] = a + WrapLB * (b + WrapLB * c)
<1> DEFINE l == <<a, b, c>>
<1>1. l \in Seq(Int) /\ Len(l) = 3
  OBVIOUS
<1>2. PICK above \in [0 .. 3 -> Int] : RunOfWeigh(above, l)
  BY <1>1, WeighRuns
<1>3. /\ above[0] = 0
      /\ above[1] = l[3] + WrapLB * above[0]
      /\ above[2] = l[2] + WrapLB * above[1]
      /\ above[3] = l[1] + WrapLB * above[2]
      /\ Weigh[l] = above[3]
  <2> HIDE DEF l
  <2> QED BY <1>1, <1>2 DEF RunOfWeigh
<1>4. l[1] = a /\ l[2] = b /\ l[3] = c
  OBVIOUS
<1>5. above[1] = c
  BY <1>3, <1>4, WrapAssumption
<1>6. above[2] = b + WrapLB * c
  BY <1>3, <1>4, <1>5
<1> QED BY <1>3, <1>4, <1>6

LEMMA WeighNone == Weigh[<<>>] = 0
<1>1. <<>> \in Seq(Int) /\ Len(<<>>) = 0
  OBVIOUS
<1>2. PICK above \in [0 .. 0 -> Int] : RunOfWeigh(above, <<>>)
  BY <1>1, WeighRuns
<1> QED BY <1>1, <1>2 DEF RunOfWeigh

\* The limbs of a numeral of one or two limbs: none is wasted.
OneLimb   == {<<a>> : a \in 1 .. MaxLimb}
TwoLimbs  == {<<a, b>> : a \in 0 .. MaxLimb, b \in 1 .. MaxLimb}
ShortLimbs == OneLimb \cup TwoLimbs

\* The higher limb decides.
LEMMA HigherDecides ==
  ASSUME NEW a \in 0 .. MaxLimb, NEW b \in Int, NEW c \in 0 .. MaxLimb, NEW d \in Int,
         a + WrapLB * b >= c + WrapLB * d
  PROVE  b > d \/ (b = d /\ a >= c)
<1>1. WrapLB \in Int /\ WrapLB > 2 /\ MaxLimb = WrapLB - 1
  BY WrapAssumption DEF MaxLimb
<1>2. CASE b = d
  BY <1>1, <1>2
<1>3. CASE b < d
  <2> DEFINE e == d - b - 1
  <2>1. e \in Nat /\ d = b + 1 + e
    BY <1>3
  <2>2. WrapLB * d = WrapLB * b + WrapLB + WrapLB * e
    <3> HIDE DEF e
    <3> QED BY <1>1, <2>1
  <2>3. WrapLB * e >= 0
    <3> HIDE DEF e
    <3> QED BY <1>1, <2>1
  <2>4. WrapLB * b \in Int /\ WrapLB * d \in Int /\ WrapLB * e \in Int
    BY <1>1
  <2> QED BY <1>1, <2>2, <2>3, <2>4
<1> QED BY <1>2, <1>3

-----------------------------------------------------------------------------
(* What the operators read off their limbs.                                *)

LEMMA MaxIs ==
  ASSUME NEW S \in SUBSET Int, NEW x \in S, \A y \in S : y <= x
  PROVE  Max(S) = x
<1>1. \A z \in S : (\A y \in S : z >= y) => z = x
  OBVIOUS
<1> QED BY <1>1 DEF Max

LEMMA MinIs ==
  ASSUME NEW S \in SUBSET Int, NEW x \in S, \A y \in S : x <= y
  PROVE  Min(S) = x
<1>1. \A z \in S : (\A y \in S : z <= y) => z = x
  OBVIOUS
<1> QED BY <1>1 DEF Min

LEMMA LowLimbs ==
  ASSUME NEW l \in Seq(Int), NEW n \in 0 .. Len(l)
  PROVE  SubSeq(l, 1, n) = [k \in 1 .. n |-> l[k]]
<1> DEFINE q == SubSeq(l, 1, n)
<1>1. q \in Seq(Int) /\ Len(q) = n /\ \A k \in 1 .. n : q[k] = l[k]
  BY SubSeqProperties
<1>2. q = [k \in 1 .. Len(q) |-> q[k]]
  BY <1>1
<1> HIDE DEF q
<1>3. q = [k \in 1 .. n |-> l[k]]
  BY <1>1, <1>2
<1> QED BY <1>3 DEF q

LEMMA ShrunkTwo ==
  ASSUME NEW a \in Int, NEW b \in Int
  PROVE  /\ b # 0 => Shrunk(<<a, b>>) = <<a, b>>
         /\ b = 0 /\ a # 0 => Shrunk(<<a, b>>) = <<a>>
<1> DEFINE l == <<a, b>>
<1> DEFINE S == {0} \cup {k \in DOMAIN l : l[k] # 0}
<1>1. l \in Seq(Int) /\ Len(l) = 2 /\ DOMAIN l = 1 .. 2 /\ l[1] = a /\ l[2] = b
  OBVIOUS
<1>2. Shrunk(l) = SubSeq(l, 1, Max(S))
  BY DEF Shrunk
<1>3. CASE b # 0
  <2>1. Max(S) = 2
    <3>1. S \in SUBSET Int /\ 2 \in S /\ \A y \in S : y <= 2
      BY <1>1, <1>3
    <3> HIDE DEF S
    <3> QED BY <3>1, MaxIs
  <2>2. SubSeq(l, 1, 2) = <<a, b>>
    <3> DEFINE q == SubSeq(l, 1, 2)
    <3> HIDE DEF l
    <3>1. q = [k \in 1 .. 2 |-> l[k]]
      BY <1>1, LowLimbs
    <3> HIDE DEF q
    <3>2. q = [k \in 1 .. 2 |-> q[k]] /\ q[1] = a /\ q[2] = b
      BY <1>1, <3>1
    <3>3. q = <<q[1], q[2]>>
      BY <3>2, PairIs
    <3> QED BY <3>2, <3>3 DEF q
  <2> QED BY <1>2, <1>3, <2>1, <2>2
<1>4. CASE b = 0 /\ a # 0
  <2>1. Max(S) = 1
    <3>1. S \in SUBSET Int /\ 1 \in S /\ \A y \in S : y <= 1
      BY <1>1, <1>4
    <3> HIDE DEF S
    <3> QED BY <3>1, MaxIs
  <2>2. SubSeq(l, 1, 1) = <<a>>
    <3> DEFINE q == SubSeq(l, 1, 1)
    <3> HIDE DEF l
    <3>1. q = [k \in 1 .. 1 |-> l[k]]
      BY <1>1, LowLimbs
    <3> HIDE DEF q
    <3>2. q = [k \in 1 .. 1 |-> q[k]] /\ q[1] = a
      BY <1>1, <3>1
    <3>3. q = <<q[1]>>
      BY <3>2, SingleIs
    <3> QED BY <3>2, <3>3 DEF q
  <2> QED BY <1>2, <1>4, <2>1, <2>2
<1> QED BY <1>3, <1>4

LEMMA ShrunkOne ==
  ASSUME NEW a \in Int, a # 0
  PROVE  Shrunk(<<a>>) = <<a>>
<1> DEFINE l == <<a>>
<1> DEFINE S == {0} \cup {k \in DOMAIN l : l[k] # 0}
<1>1. l \in Seq(Int) /\ Len(l) = 1 /\ DOMAIN l = 1 .. 1 /\ l[1] = a
  OBVIOUS
<1>2. Shrunk(l) = SubSeq(l, 1, Max(S))
  BY DEF Shrunk
<1>3. Max(S) = 1
  <2>1. S \in SUBSET Int /\ 1 \in S /\ \A y \in S : y <= 1
    BY <1>1
  <2> HIDE DEF S
  <2> QED BY <2>1, MaxIs
<1>4. SubSeq(l, 1, 1) = <<a>>
  <2> DEFINE q == SubSeq(l, 1, 1)
  <2> HIDE DEF l
  <2>1. q = [k \in 1 .. 1 |-> l[k]]
    BY <1>1, LowLimbs
  <2> HIDE DEF q
  <2>2. q = [k \in 1 .. 1 |-> q[k]] /\ q[1] = a
    BY <1>1, <2>1
  <2>3. q = <<q[1]>>
    BY <2>2, SingleIs
  <2> QED BY <2>2, <2>3 DEF q
<1> QED BY <1>2, <1>3, <1>4

-----------------------------------------------------------------------------
(* Opposite signs.                                                         *)

LEMMA SubtractLow ==
  ASSUME NEW a \in Int, NEW b \in Int, NEW c \in Int, NEW d \in Int, d # 0
  PROVE  Subtract(<<a, b>>, <<c, d>>, 1)
           = IF a < c THEN <<a - c + WrapLB, b - 1>> ELSE <<a - c, b>>
<1> DEFINE l == <<a, b>>
<1> DEFINE r == <<c, d>>
<1> DEFINE q == Subtract(l, r, 1)
<1>0. WrapLB \in Int
  BY WrapAssumption
<1>1. /\ DOMAIN l = 1 .. 2 /\ l[1] = a /\ l[2] = b
      /\ Len(r) = 2 /\ r[1] = c /\ r[2] = d
  OBVIOUS
<1>2. Min({k \in (1 + 1) .. Len(r) : r[k] # 0}) = 2
  <2> DEFINE S == {k \in (1 + 1) .. Len(r) : r[k] # 0}
  <2>1. S \in SUBSET Int /\ 2 \in S /\ \A y \in S : 2 <= y
    BY <1>1
  <2> HIDE DEF S
  <2>2. Min(S) = 2
    BY <2>1, MinIs
  <2> QED BY <2>2 DEF S
<1>3. CASE a < c
  <2> HIDE DEF l, r
  <2>1. q = [k \in 1 .. 2 |-> IF k = 1 THEN a - c + WrapLB
                              ELSE IF k = 2 THEN b - 1
                              ELSE IF k \in 1 .. 2 THEN MaxLimb ELSE l[k]]
    BY <1>1, <1>2, <1>3 DEF Subtract
  <2> HIDE DEF q
  <2>2. q = [k \in 1 .. 2 |-> q[k]] /\ q[1] = a - c + WrapLB /\ q[2] = b - 1
    BY <2>1
  <2>3. q = <<q[1], q[2]>>
    BY <2>2, PairIs
  <2> QED BY <1>3, <2>2, <2>3 DEF q, l, r
<1>4. CASE ~(a < c)
  <2> HIDE DEF l, r
  <2>1. q = [k \in 1 .. 2 |-> IF k = 1 THEN a - c + 0
                              ELSE IF k = 1 THEN l[k] - 1
                              ELSE IF k \in 1 .. 1 THEN MaxLimb ELSE l[k]]
    BY <1>1, <1>4 DEF Subtract
  <2> HIDE DEF q
  <2>2. q = [k \in 1 .. 2 |-> q[k]] /\ q[1] = a - c /\ q[2] = b
    BY <1>1, <2>1
  <2>3. q = <<q[1], q[2]>>
    BY <2>2, PairIs
  <2> QED BY <1>4, <2>2, <2>3 DEF q, l, r
<1> QED BY <1>3, <1>4

LEMMA SubtractHigh ==
  ASSUME NEW a \in Int, NEW b \in Int, NEW c \in Int, NEW d \in Int, b >= d
  PROVE  Subtract(<<a, b>>, <<c, d>>, 2) = <<a, b - d>>
<1> DEFINE l == <<a, b>>
<1> DEFINE r == <<c, d>>
<1> DEFINE q == Subtract(l, r, 2)
<1>1. /\ DOMAIN l = 1 .. 2 /\ l[1] = a /\ l[2] = b
      /\ Len(r) = 2 /\ r[1] = c /\ r[2] = d
  OBVIOUS
<1>2. ~(b < d)
  OBVIOUS
<1> HIDE DEF l, r
<1>3. q = [k \in 1 .. 2 |-> IF k = 2 THEN b - d + 0
                            ELSE IF k = 2 THEN l[k] - 1
                            ELSE IF k \in 2 .. 2 THEN MaxLimb ELSE l[k]]
  BY <1>1, <1>2 DEF Subtract
<1> HIDE DEF q
<1>4. q = [k \in 1 .. 2 |-> q[k]] /\ q[1] = a /\ q[2] = b - d
  BY <1>1, <1>3
<1>5. q = <<q[1], q[2]>>
  BY <1>4, PairIs
<1> QED BY <1>4, <1>5 DEF q, l, r

LEMMA BaseFacts == WrapLB \in Int /\ WrapLB > 2 /\ MaxLimb \in Int /\ MaxLimb = WrapLB - 1
BY WrapAssumption DEF MaxLimb

LEMMA LimbFacts ==
  /\ WrapLB \in Int /\ WrapLB > 2 /\ MaxLimb \in Int /\ MaxLimb = WrapLB - 1
  /\ \A b \in Int : WrapLB * b \in Int
BY WrapAssumption DEF MaxLimb

LEMMA ShortWeights ==
  /\ \A l \in OneLimb : \E a \in 1 .. MaxLimb : l = <<a>> /\ Weigh[l] = a
  /\ \A l \in TwoLimbs : \E a \in 0 .. MaxLimb, b \in 1 .. MaxLimb :
       /\ l = <<a, b>> /\ Weigh[l] = a + WrapLB * b
       /\ WrapLB <= WrapLB * b /\ WrapLB * b \in Int
<1>0. 1 .. MaxLimb \subseteq Int /\ 0 .. MaxLimb \subseteq Int
  BY LimbFacts
<1>1. ASSUME NEW l \in OneLimb
      PROVE  \E a \in 1 .. MaxLimb : l = <<a>> /\ Weigh[l] = a
  BY <1>0, WeighOne DEF OneLimb
<1>2. ASSUME NEW l \in TwoLimbs
      PROVE  \E a \in 0 .. MaxLimb, b \in 1 .. MaxLimb :
               /\ l = <<a, b>> /\ Weigh[l] = a + WrapLB * b
               /\ WrapLB <= WrapLB * b /\ WrapLB * b \in Int
  <2>1. PICK a \in 0 .. MaxLimb, b \in 1 .. MaxLimb : l = <<a, b>>
    BY DEF TwoLimbs
  <2>2. a \in Int /\ b \in Int
    BY <1>0
  <2>3. Weigh[l] = a + WrapLB * b
    BY <2>1, <2>2, WeighTwo
  <2>4. WrapLB * b \in Int /\ WrapLB * b >= WrapLB
    <3>1. b \in Nat /\ b >= 1
      BY LimbFacts
    <3>2. WrapLB * (b - 1) >= 0
      BY <3>1, LimbFacts
    <3>3. WrapLB * (b - 1) = WrapLB * b - WrapLB
      BY <3>1, LimbFacts
    <3> QED BY <3>1, <3>2, <3>3, LimbFacts
  <2> QED BY <2>1, <2>3, <2>4
<1> QED BY <1>1, <1>2

LEMMA ShortWeight ==
  ASSUME NEW l \in ShortLimbs
  PROVE  /\ Weigh[l] \in Nat /\ Weigh[l] > 0 /\ l # <<>>
         /\ l \in OneLimb <=> Len(l) = 1
         /\ l \in OneLimb <=> Weigh[l] < WrapLB
<1>1. CASE l \in OneLimb
  <2>1. PICK a \in 1 .. MaxLimb : l = <<a>> /\ Weigh[l] = a
    BY <1>1, ShortWeights
  <2> QED BY <1>1, <2>1, LimbFacts
<1>2. CASE l \in TwoLimbs
  <2>1. PICK a \in 0 .. MaxLimb, b \in 1 .. MaxLimb :
          l = <<a, b>> /\ Weigh[l] = a + WrapLB * b /\ WrapLB <= WrapLB * b /\ WrapLB * b \in Int
    BY <1>2, ShortWeights
  <2>2. Len(l) = 2 /\ l # <<>> /\ Weigh[l] \in Int /\ Weigh[l] >= WrapLB
    BY <2>1, LimbFacts
  <2>3. l \notin OneLimb
    BY <2>2 DEF OneLimb
  <2> QED BY <2>2, <2>3, LimbFacts
<1> QED BY <1>1, <1>2 DEF ShortLimbs

LEMMA ShortLength ==
  ASSUME NEW l \in ShortLimbs
  PROVE  /\ Len(l) = 1 \/ Len(l) = 2
         /\ l \in OneLimb <=> Len(l) = 1
         /\ l \in TwoLimbs <=> Len(l) = 2
<1>1. ASSUME l \in OneLimb PROVE Len(l) = 1
  BY <1>1 DEF OneLimb
<1>2. ASSUME l \in TwoLimbs PROVE Len(l) = 2
  BY <1>2 DEF TwoLimbs
<1> QED BY <1>1, <1>2 DEF ShortLimbs

LEMMA ShortLengths ==
  ASSUME NEW l \in ShortLimbs, NEW r \in ShortLimbs, l \in TwoLimbs \/ r \in OneLimb
  PROVE  Len(r) <= Len(l)
<1>1. (Len(l) = 2 /\ Len(r) = 1) \/ (Len(l) = 2 /\ Len(r) = 2) \/ (Len(l) = 1 /\ Len(r) = 1)
  <2>1. CASE l \in TwoLimbs
    BY <2>1, ShortLength
  <2>2. CASE r \in OneLimb
    <3>1. Len(r) = 1
      BY <2>2, ShortLength
    <3>2. Len(l) = 1 \/ Len(l) = 2
      BY ShortLength
    <3> QED BY <3>1, <3>2
  <2> QED BY <2>1, <2>2
<1> DEFINE m == Len(l)
<1> DEFINE n == Len(r)
<1>2. (m = 2 /\ n = 1) \/ (m = 2 /\ n = 2) \/ (m = 1 /\ n = 1)
  BY <1>1
<1> HIDE DEF m, n
<1>3. n <= m
  BY <1>2
<1> QED BY <1>3 DEF m, n

\* l without r, where l weighs more.
Difference(d, l, r) == d \in ShortLimbs /\ Weigh[d] = Weigh[l] - Weigh[r]

LEMMA LessSmallShort ==
  ASSUME NEW l \in TwoLimbs, NEW n \in 1 .. MaxLimb
  PROVE  Difference(LessSmall(l, n), l, <<n>>)
<1>0. n \in Int /\ 1 <= n /\ n <= MaxLimb
  BY LimbFacts
<1>1. PICK a \in 0 .. MaxLimb, b \in 1 .. MaxLimb : l = <<a, b>> /\ Weigh[l] = a + WrapLB * b
  BY ShortWeights
<1>2. /\ a \in Int /\ b \in Int /\ 0 <= a /\ a <= MaxLimb /\ 1 <= b /\ b <= MaxLimb
      /\ WrapLB * b \in Int
  BY LimbFacts
<1>3. Weigh[<<n>>] = n
  BY <1>0, WeighOne
<1>4. DOMAIN l = 1 .. 2 /\ Len(l) = 2 /\ l[1] = a /\ l[2] = b
  BY <1>1
<1>5. CASE a >= n
  <2> DEFINE q == [l EXCEPT ![1] = @ - n]
  <2>1. LessSmall(l, n) = q
    BY <1>4, <1>5 DEF LessSmall
  <2>2. q = [k \in 1 .. 2 |-> IF k = 1 THEN a - n ELSE l[k]]
    BY <1>1, <1>4
  <2> HIDE DEF q
  <2>3. q = [k \in 1 .. 2 |-> q[k]] /\ q[1] = a - n /\ q[2] = b
    BY <1>4, <2>2
  <2>4. q = <<a - n, b>>
    BY <2>3, PairIs
  <2>5. a - n \in 0 .. MaxLimb
    BY <1>0, <1>2, <1>5, LimbFacts
  <2>6. q \in ShortLimbs
    BY <2>4, <2>5 DEF ShortLimbs, TwoLimbs
  <2>7. Weigh[q] = a - n + WrapLB * b
    BY <1>0, <1>2, <2>4, WeighTwo
  <2> QED BY <1>0, <1>1, <1>2, <1>3, <2>1, <2>6, <2>7 DEF Difference
<1>6. CASE a < n
  <2> DEFINE S == {k \in 2 .. Len(l) : l[k] # 0}
  <2>1. Min(S) = 2
    <3>1. S \in SUBSET Int /\ 2 \in S /\ \A y \in S : 2 <= y
      BY <1>2, <1>4
    <3> HIDE DEF S
    <3> QED BY <3>1, MinIs
  <2> DEFINE q == [k \in DOMAIN l |-> IF k = 1 THEN l[1] + WrapLB - n
                                      ELSE IF k < 2 THEN MaxLimb
                                      ELSE IF k = 2 THEN l[k] - 1 ELSE l[k]]
  <2>2. LessSmall(l, n) = IF q[2] # 0 THEN q ELSE <<q[1]>>
    <3> DEFINE from(t) == [k \in DOMAIN l |-> IF k = 1 THEN l[1] + WrapLB - n
                                              ELSE IF k < t THEN MaxLimb
                                              ELSE IF k = t THEN l[k] - 1 ELSE l[k]]
    <3>1. ~(l[1] >= n)
      BY <1>0, <1>2, <1>4, <1>6
    <3>2. LessSmall(l, n) = IF from(Min(S))[Min(S)] # 0 THEN from(Min(S))
                            ELSE IF Min(S) = 2 THEN <<from(Min(S))[1]>>
                            ELSE Front(from(Min(S)))
      BY <3>1 DEF LessSmall
    <3>3. from(2) = q
      OBVIOUS
    <3> HIDE DEF from, S, q
    <3> QED BY <2>1, <3>2, <3>3
  <2>3. q = [k \in 1 .. 2 |-> q[k]] /\ q[1] = a + WrapLB - n /\ q[2] = b - 1
    BY <1>4
  <2> HIDE DEF q
  <2>4. q = <<a + WrapLB - n, b - 1>>
    BY <2>3, PairIs
  <2>5. a + WrapLB - n \in 1 .. MaxLimb
    BY <1>0, <1>2, <1>6, LimbFacts
  <2>6. WrapLB * (b - 1) = WrapLB * b - WrapLB
    BY <1>2, LimbFacts
  <2>7. CASE b = 1
    <3>1. LessSmall(l, n) = <<a + WrapLB - n>>
      BY <2>2, <2>3, <2>7
    <3>2. Weigh[<<a + WrapLB - n>>] = a + WrapLB - n
      BY <1>0, <1>2, WeighOne, LimbFacts
    <3>3. <<a + WrapLB - n>> \in ShortLimbs
      BY <2>5 DEF ShortLimbs, OneLimb
    <3>4. WrapLB * b = WrapLB
      BY <2>7, LimbFacts
    <3> QED BY <1>0, <1>1, <1>2, <1>3, <3>1, <3>2, <3>3, <3>4, LimbFacts DEF Difference
  <2>8. CASE b # 1
    <3>1. LessSmall(l, n) = <<a + WrapLB - n, b - 1>>
      BY <1>2, <2>2, <2>3, <2>4, <2>8
    <3>2. Weigh[<<a + WrapLB - n, b - 1>>] = a + WrapLB - n + WrapLB * (b - 1)
      <4>1. a + WrapLB - n \in Int /\ b - 1 \in Int
        BY <1>0, <1>2, LimbFacts
      <4> QED BY <4>1, WeighTwo
    <3>3. a + WrapLB - n \in 0 .. MaxLimb /\ b - 1 \in 1 .. MaxLimb
      BY <1>2, <2>5, <2>8, LimbFacts
    <3>4. <<a + WrapLB - n, b - 1>> \in ShortLimbs
      BY <3>3 DEF ShortLimbs, TwoLimbs
    <3> QED BY <1>0, <1>1, <1>2, <1>3, <2>6, <3>1, <3>2, <3>4, LimbFacts DEF Difference
  <2> QED BY <2>7, <2>8
<1> QED BY <1>0, <1>2, <1>5, <1>6

\* The rounds of LargeAdjustAbsValByLarge, up to the highest limb that matters.
Rounds(l, r, top) == [k \in 0 .. top |-> IF k = 0 THEN l
                                         ELSE IF k = 1 THEN Subtract(l, r, 1)
                                         ELSE Subtract(Subtract(l, r, 1), r, 2)]

LEMMA LessLargeRuns ==
  ASSUME NEW a \in Int, NEW b \in Int, NEW c \in Int, NEW e \in Int,
         <<a, b>> # <<c, e>>
  PROVE  LessLarge(<<a, b>>, <<c, e>>) =
           IF b # e
           THEN Shrunk(SubSeq(Subtract(Subtract(<<a, b>>, <<c, e>>, 1), <<c, e>>, 2), 1, 2))
           ELSE Shrunk(SubSeq(Subtract(<<a, b>>, <<c, e>>, 1), 1, 1))
<1> DEFINE l == <<a, b>>
<1> DEFINE r == <<c, e>>
<1> DEFINE S == {k \in DOMAIN l : l[k] # r[k]}
<1> DEFINE top == IF Len(l) > Len(r) THEN Len(r) ELSE Max(S)
<1> DEFINE round(h, k) == IF k = 0 THEN l ELSE Subtract(h[k - 1], r, k)
<1> DEFINE d == CHOOSE h : h = [k \in 0 .. top |-> round(h, k)]
<1>1. /\ DOMAIN l = 1 .. 2 /\ Len(l) = 2 /\ l[1] = a /\ l[2] = b
      /\ Len(r) = 2 /\ r[1] = c /\ r[2] = e
  OBVIOUS
<1>2. top = IF b # e THEN 2 ELSE 1
  <2>1. CASE b # e
    <3>1. S \in SUBSET Int /\ 2 \in S /\ \A y \in S : y <= 2
      BY <1>1, <2>1
    <3>2. Max(S) = 2
      <4> HIDE DEF S
      <4> QED BY <3>1, MaxIs
    <3> HIDE DEF S, l, r
    <3> QED BY <1>1, <2>1, <3>2
  <2>2. CASE b = e
    <3>1. a # c
      BY <2>2
    <3>2. S \in SUBSET Int /\ 1 \in S /\ \A y \in S : y <= 1
      BY <1>1, <2>2, <3>1
    <3>3. Max(S) = 1
      <4> HIDE DEF S
      <4> QED BY <3>2, MaxIs
    <3> HIDE DEF S, l, r
    <3> QED BY <1>1, <2>2, <3>3
  <2> QED BY <2>1, <2>2
<1>3. LessLarge(l, r) = Shrunk(SubSeq(d[top], 1, top))
  BY DEF LessLarge
<1> HIDE DEF top, l, r
<1>4. \E h : h = [k \in 0 .. top |-> round(h, k)]
  <2> DEFINE g == Rounds(l, r, top)
  <2>1. g = [k \in 0 .. top |-> round(g, k)]
    <3>1. top \in 1 .. 2
      BY <1>2
    <3>2. \A k \in 0 .. top : k = 0 \/ k = 1 \/ (k = 2 /\ top = 2)
      BY <3>1
    <3>3. g[0] = l /\ g[1] = Subtract(l, r, 1)
      BY <3>1 DEF Rounds
    <3>4. top = 2 => g[2] = Subtract(Subtract(l, r, 1), r, 2)
      BY DEF Rounds
    <3>5. ASSUME NEW k \in 0 .. top PROVE g[k] = round(g, k)
      <4>1. CASE k = 0
        BY <3>3, <4>1
      <4>2. CASE k = 1
        <5>1. k - 1 = 0
          BY <4>2
        <5> HIDE DEF g
        <5> QED BY <3>3, <4>2, <5>1
      <4>3. CASE k = 2 /\ top = 2
        <5>1. k - 1 = 1
          BY <4>3
        <5> HIDE DEF g
        <5> QED BY <3>3, <3>4, <4>3, <5>1
      <4> QED BY <3>2, <4>1, <4>2, <4>3
    <3>6. g = [k \in 0 .. top |-> g[k]]
      BY DEF Rounds
    <3> HIDE DEF g, round
    <3> QED BY <3>5, <3>6
  <2> HIDE DEF g, round
  <2> QED BY <2>1
<1>5. d = [k \in 0 .. top |-> round(d, k)]
  <2> HIDE DEF round
  <2> QED BY <1>4
<1> HIDE DEF d
<1>6. d[0] = l /\ d[1] = Subtract(l, r, 1)
  <2>1. 0 \in 0 .. top /\ 1 \in 0 .. top
    BY <1>2
  <2>2. d[0] = round(d, 0) /\ d[1] = round(d, 1)
    <3> HIDE DEF round
    <3> QED BY <1>5, <2>1
  <2>3. d[0] = l
    BY <2>2
  <2>4. d[1] = Subtract(d[0], r, 1)
    BY <2>2
  <2> QED BY <2>3, <2>4
<1>7. top = 2 => d[2] = Subtract(Subtract(l, r, 1), r, 2)
  <2> SUFFICES ASSUME top = 2 PROVE d[2] = Subtract(d[1], r, 2)
    BY <1>6
  <2>1. 2 \in 0 .. top
    OBVIOUS
  <2>2. d[2] = round(d, 2)
    <3> HIDE DEF round
    <3> QED BY <1>5, <2>1
  <2> QED BY <2>2
<1> QED BY <1>2, <1>3, <1>6, <1>7 DEF l, r

LEMMA LessLargeShort ==
  ASSUME NEW l \in TwoLimbs, NEW r \in TwoLimbs, Weigh[l] > Weigh[r]
  PROVE  Difference(LessLarge(l, r), l, r)
<1>1. PICK a \in 0 .. MaxLimb, b \in 1 .. MaxLimb : l = <<a, b>> /\ Weigh[l] = a + WrapLB * b
  BY ShortWeights
<1>2. PICK c \in 0 .. MaxLimb, e \in 1 .. MaxLimb : r = <<c, e>> /\ Weigh[r] = c + WrapLB * e
  BY ShortWeights
<1>3. /\ a \in Int /\ b \in Int /\ 0 <= a /\ a <= MaxLimb /\ 1 <= b /\ b <= MaxLimb
      /\ c \in Int /\ e \in Int /\ 0 <= c /\ c <= MaxLimb /\ 1 <= e /\ e <= MaxLimb
      /\ WrapLB * b \in Int /\ WrapLB * e \in Int
  BY LimbFacts
<1>4. b > e \/ (b = e /\ a >= c)
  <2>1. a + WrapLB * b >= c + WrapLB * e
    BY <1>1, <1>2, <1>3
  <2> QED BY <1>3, <2>1, HigherDecides
<1>5. l # r /\ e # 0
  BY <1>1, <1>2, <1>3
<1>6. Subtract(l, r, 1) = IF a < c THEN <<a - c + WrapLB, b - 1>> ELSE <<a - c, b>>
  BY <1>1, <1>2, <1>3, <1>5, SubtractLow
<1>7. WrapLB * (b - e) = WrapLB * b - WrapLB * e
  BY <1>3, LimbFacts
<1>8. CASE b > e
  <2> DEFINE one == IF a < c THEN a - c + WrapLB ELSE a - c
  <2> DEFINE two == IF a < c THEN b - 1 - e ELSE b - e
  <2>0. one \in Int /\ two \in Int /\ one \in 0 .. MaxLimb
    BY <1>3, LimbFacts
  <2>1. Subtract(Subtract(l, r, 1), r, 2) = <<one, two>>
    <3>1. CASE a < c
      <4>1. Subtract(l, r, 1) = <<a - c + WrapLB, b - 1>>
        BY <1>6, <3>1
      <4>2. a - c + WrapLB \in Int /\ b - 1 \in Int /\ b - 1 >= e
        BY <1>3, <1>8, LimbFacts
      <4>3. Subtract(<<a - c + WrapLB, b - 1>>, <<c, e>>, 2) = <<a - c + WrapLB, b - 1 - e>>
        BY <1>3, <4>2, SubtractHigh
      <4> QED BY <1>2, <3>1, <4>1, <4>3
    <3>2. CASE ~(a < c)
      <4>1. Subtract(l, r, 1) = <<a - c, b>>
        BY <1>6, <3>2
      <4>2. a - c \in Int /\ b >= e
        BY <1>3, <1>8
      <4>3. Subtract(<<a - c, b>>, <<c, e>>, 2) = <<a - c, b - e>>
        BY <1>3, <4>2, SubtractHigh
      <4> QED BY <1>2, <3>2, <4>1, <4>3
    <3> QED BY <3>1, <3>2
  <2>2. LessLarge(l, r) = Shrunk(<<one, two>>)
    <3>1. LessLarge(l, r) = Shrunk(SubSeq(<<one, two>>, 1, 2))
      <4>1. b # e
        BY <1>3, <1>8
      <4> HIDE DEF one, two
      <4> QED BY <1>1, <1>2, <1>3, <1>5, <2>1, <4>1, LessLargeRuns
    <3>2. SubSeq(<<one, two>>, 1, 2) = <<one, two>>
      <4> HIDE DEF one, two
      <4> DEFINE q == <<one, two>>
      <4>1. q \in Seq(Int) /\ Len(q) = 2
        BY <2>0
      <4>2. q[1] = one /\ q[2] = two
        OBVIOUS
      <4> DEFINE s == SubSeq(q, 1, 2)
      <4>3. s = [k \in 1 .. 2 |-> q[k]]
        BY <4>1, LowLimbs
      <4> HIDE DEF s, q
      <4>4. s = [k \in 1 .. 2 |-> s[k]] /\ s[1] = one /\ s[2] = two
        BY <4>2, <4>3
      <4>5. s = <<s[1], s[2]>>
        BY <4>4, PairIs
      <4> QED BY <4>4, <4>5 DEF s, q
    <3> QED BY <3>1, <3>2
  <2>3. one + WrapLB * two = (a + WrapLB * b) - (c + WrapLB * e)
    <3>1. WrapLB * (b - 1 - e) = WrapLB * b - WrapLB - WrapLB * e
      BY <1>3, LimbFacts
    <3> QED BY <1>3, <1>7, <3>1, LimbFacts
  <2>4. CASE two = 0
    <3>1. one # 0 /\ one \in 1 .. MaxLimb
      BY <1>3, <1>8, <2>0, <2>4, LimbFacts
    <3>2. LessLarge(l, r) = <<one>>
      <4> HIDE DEF one, two
      <4> QED BY <2>0, <2>2, <2>4, <3>1, ShrunkTwo
    <3>3. Weigh[<<one>>] = one
      <4> HIDE DEF one
      <4> QED BY <2>0, WeighOne
    <3>4. <<one>> \in ShortLimbs
      <4> HIDE DEF one
      <4> QED BY <3>1 DEF ShortLimbs, OneLimb
    <3>5. one = (a + WrapLB * b) - (c + WrapLB * e)
      <4> HIDE DEF one, two
      <4> QED BY <2>0, <2>3, <2>4, LimbFacts
    <3> HIDE DEF one, two
    <3> QED BY <1>1, <1>2, <3>2, <3>3, <3>4, <3>5 DEF Difference
  <2>5. CASE two # 0
    <3>1. two \in 1 .. MaxLimb
      BY <1>3, <1>8, <2>5, LimbFacts
    <3> HIDE DEF one, two
    <3>2. LessLarge(l, r) = <<one, two>>
      BY <2>0, <2>2, <2>5, ShrunkTwo
    <3>3. Weigh[<<one, two>>] = one + WrapLB * two
      BY <2>0, WeighTwo
    <3>4. <<one, two>> \in ShortLimbs
      BY <2>0, <3>1 DEF ShortLimbs, TwoLimbs
    <3> QED BY <1>1, <1>2, <2>3, <3>2, <3>3, <3>4 DEF Difference
  <2> QED BY <2>4, <2>5
<1>9. CASE b = e /\ a >= c
  <2>1. a > c
    BY <1>1, <1>2, <1>3, <1>9
  <2>2. Subtract(l, r, 1) = <<a - c, b>>
    <3>1. ~(a < c)
      BY <1>3, <2>1
    <3> QED BY <1>6, <3>1
  <2>3. a - c \in 1 .. MaxLimb /\ a - c \in Int /\ a - c # 0
    BY <1>3, <2>1, LimbFacts
  <2>4. LessLarge(l, r) = Shrunk(<<a - c>>)
    <3>1. LessLarge(l, r) = Shrunk(SubSeq(<<a - c, b>>, 1, 1))
      BY <1>1, <1>2, <1>3, <1>5, <1>9, <2>2, LessLargeRuns
    <3>2. SubSeq(<<a - c, b>>, 1, 1) = <<a - c>>
      <4> DEFINE q == <<a - c, b>>
      <4>1. q \in Seq(Int) /\ Len(q) = 2 /\ q[1] = a - c
        BY <1>3
      <4> DEFINE s == SubSeq(q, 1, 1)
      <4>2. s = [k \in 1 .. 1 |-> q[k]]
        BY <4>1, LowLimbs
      <4> HIDE DEF s, q
      <4>3. s = [k \in 1 .. 1 |-> s[k]] /\ s[1] = a - c
        BY <4>1, <4>2
      <4>4. s = <<s[1]>>
        BY <4>3, SingleIs
      <4> QED BY <4>3, <4>4 DEF s, q
    <3> QED BY <3>1, <3>2
  <2>5. LessLarge(l, r) = <<a - c>>
    BY <2>3, <2>4, ShrunkOne
  <2>6. Weigh[<<a - c>>] = a - c
    BY <2>3, WeighOne
  <2>7. <<a - c>> \in ShortLimbs
    BY <2>3 DEF ShortLimbs, OneLimb
  <2>8. a - c = (a + WrapLB * b) - (c + WrapLB * e)
    BY <1>3, <1>9
  <2> QED BY <1>1, <1>2, <2>5, <2>6, <2>7, <2>8 DEF Difference
<1> QED BY <1>4, <1>8, <1>9

LEMMA LessShort ==
  ASSUME NEW l \in ShortLimbs, NEW r \in ShortLimbs, Weigh[l] > Weigh[r]
  PROVE  Difference(Less(l, r), l, r)
<1>1. CASE l \in OneLimb
  <2>1. Weigh[r] < WrapLB
    <3>1. Weigh[l] \in Nat /\ Weigh[r] \in Nat /\ Weigh[l] < WrapLB
      BY <1>1, ShortWeight
    <3> QED BY <3>1, LimbFacts
  <2>2. r \in OneLimb
    BY <2>1, ShortWeight
  <2>3. PICK a \in 1 .. MaxLimb : l = <<a>> /\ Weigh[l] = a
    BY <1>1, ShortWeights
  <2>4. PICK c \in 1 .. MaxLimb : r = <<c>> /\ Weigh[r] = c
    BY <2>2, ShortWeights
  <2>5. Less(l, r) = <<a - c>>
    BY <2>3, <2>4 DEF Less
  <2>6. a - c \in 1 .. MaxLimb /\ a - c \in Int
    BY <2>3, <2>4, LimbFacts
  <2>7. Weigh[<<a - c>>] = a - c
    BY <2>6, WeighOne
  <2>8. <<a - c>> \in ShortLimbs
    BY <2>6 DEF ShortLimbs, OneLimb
  <2> QED BY <2>3, <2>4, <2>5, <2>7, <2>8 DEF Difference
<1>2. CASE l \in TwoLimbs /\ r \in OneLimb
  <2>1. PICK c \in 1 .. MaxLimb : r = <<c>>
    BY <1>2 DEF OneLimb
  <2>2. Len(l) = 2 /\ Len(r) = 1 /\ r[1] = c
    BY <1>2, <2>1 DEF TwoLimbs
  <2>3. Less(l, r) = LessSmall(l, c)
    BY <2>2 DEF Less
  <2>4. Difference(LessSmall(l, c), l, <<c>>)
    BY <1>2, LessSmallShort
  <2> QED BY <2>1, <2>3, <2>4
<1>3. CASE l \in TwoLimbs /\ r \in TwoLimbs
  <2>1. Len(l) = 2 /\ Len(r) = 2
    BY <1>3 DEF TwoLimbs
  <2>2. Less(l, r) = LessLarge(l, r)
    BY <2>1 DEF Less
  <2> QED BY <1>3, <2>2, LessLargeShort
<1> QED BY <1>1, <1>2, <1>3 DEF ShortLimbs

LEMMA WeighsApart ==
  ASSUME NEW l \in ShortLimbs, NEW r \in ShortLimbs, Weigh[l] = Weigh[r]
  PROVE  l = r
<1>1. CASE l \in OneLimb
  <2>1. r \in OneLimb
    BY <1>1, ShortWeight
  <2> QED BY <1>1, <2>1, ShortWeights
<1>2. CASE l \in TwoLimbs
  <2>1. r \in TwoLimbs
    <3>1. l \notin OneLimb
      BY <1>2 DEF OneLimb, TwoLimbs
    <3>2. r \notin OneLimb
      BY <3>1, ShortWeight
    <3> QED BY <3>2 DEF ShortLimbs
  <2>2. PICK a \in 0 .. MaxLimb, b \in 1 .. MaxLimb : l = <<a, b>> /\ Weigh[l] = a + WrapLB * b
    BY <1>2, ShortWeights
  <2>3. PICK c \in 0 .. MaxLimb, e \in 1 .. MaxLimb : r = <<c, e>> /\ Weigh[r] = c + WrapLB * e
    BY <2>1, ShortWeights
  <2>4. /\ a \in Int /\ b \in Int /\ c \in Int /\ e \in Int
        /\ a + WrapLB * b >= c + WrapLB * e /\ c + WrapLB * e >= a + WrapLB * b
    BY <2>2, <2>3, LimbFacts
  <2>5. b > e \/ (b = e /\ a >= c)
    BY <2>4, HigherDecides
  <2>6. e > b \/ (e = b /\ c >= a)
    BY <2>4, HigherDecides
  <2>7. a = c /\ b = e
    BY <2>4, <2>5, <2>6
  <2> QED BY <2>2, <2>3, <2>7
<1> QED BY <1>1, <1>2 DEF ShortLimbs

\* What two of opposite signs become: at most one is left, and it is the difference.
LEMMA CancelledShort ==
  ASSUME NEW l \in ShortLimbs, NEW r \in ShortLimbs
  PROVE  LET p == Cancelled(l, r)
         IN  /\ p = <<p[1], p[2]>>
             /\ p[1] = <<>> \/ p[2] = <<>>
             /\ p[1] \in ShortLimbs \cup {<<>>} /\ p[2] \in ShortLimbs \cup {<<>>}
             /\ Weigh[p[1]] \in Int /\ Weigh[p[2]] \in Int
             /\ Weigh[p[1]] - Weigh[p[2]] = Weigh[l] - Weigh[r]
<1>0. Weigh[l] \in Int /\ Weigh[r] \in Int
  BY ShortWeight
<1>1. CASE l = r
  <2>1. Cancelled(l, r) = <<<<>>, <<>>>>
    BY <1>1 DEF Cancelled
  <2> QED BY <1>0, <1>1, <2>1, WeighNone
<1>2. CASE l # r /\ Weigh[l] > Weigh[r]
  <2>1. Cancelled(l, r) = <<Less(l, r), <<>>>>
    BY <1>2 DEF Cancelled
  <2>2. Less(l, r) \in ShortLimbs /\ Weigh[Less(l, r)] = Weigh[l] - Weigh[r]
    BY <1>2, LessShort DEF Difference
  <2> QED BY <1>0, <2>1, <2>2, WeighNone
<1>3. CASE l # r /\ ~(Weigh[l] > Weigh[r])
  <2>1. Cancelled(l, r) = <<<<>>, Less(r, l)>>
    BY <1>3 DEF Cancelled
  <2>2. Weigh[r] > Weigh[l]
    <3>1. Weigh[l] # Weigh[r]
      BY <1>3, WeighsApart
    <3> QED BY <1>0, <1>3, <3>1
  <2>3. Less(r, l) \in ShortLimbs /\ Weigh[Less(r, l)] = Weigh[r] - Weigh[l]
    BY <2>2, LessShort DEF Difference
  <2> QED BY <1>0, <2>1, <2>3, WeighNone
<1> QED BY <1>1, <1>2, <1>3

-----------------------------------------------------------------------------
(* One sign.                                                               *)

LEMMA QuotientAndRest ==
  ASSUME NEW n \in Nat, NEW c \in 0 .. MaxLimb, NEW e \in Int, n = c + WrapLB * e
  PROVE  n % WrapLB = c /\ n \div WrapLB = e
<1> DEFINE y == n \div WrapLB
<1> DEFINE z == n % WrapLB
<1>1. y \in Int /\ z \in 0 .. MaxLimb /\ n = z + WrapLB * y
  BY WrapAssumption DEF MaxLimb
<1>2. c \in Int /\ z \in Int /\ WrapLB * e \in Int /\ WrapLB * y \in Int
  BY <1>1, LimbFacts
<1> HIDE DEF y, z
<1>3. e > y \/ (e = y /\ c >= z)
  <2>1. c + WrapLB * e >= z + WrapLB * y
    BY <1>1, <1>2
  <2> QED BY <1>1, <2>1, HigherDecides
<1>4. y > e \/ (y = e /\ z >= c)
  <2>1. z + WrapLB * y >= c + WrapLB * e
    BY <1>1, <1>2
  <2> QED BY <1>1, <2>1, HigherDecides
<1>5. y = e /\ z = c
  BY <1>1, <1>2, <1>3, <1>4
<1> QED BY <1>5 DEF y, z

LEMMA LimbsTwo ==
  ASSUME NEW n \in Nat
  PROVE  Limbs(2)[n] = Shrunk(<<n % WrapLB, (n \div WrapLB) % WrapLB>>)
<1> DEFINE round(h, k) == IF k = 0 THEN n ELSE h[k - 1] \div WrapLB
<1> DEFINE rest == CHOOSE h : h = [k \in 0 .. 2 |-> round(h, k)]
<1>1. Limbs(2)[n] = Shrunk([k \in 1 .. 2 |-> rest[k - 1] % WrapLB])
  BY DEF Limbs
<1>2. \E h : h = [k \in 0 .. 2 |-> round(h, k)]
  <2> DEFINE g == [k \in 0 .. 2 |-> IF k = 0 THEN n
                                    ELSE IF k = 1 THEN n \div WrapLB
                                    ELSE (n \div WrapLB) \div WrapLB]
  <2>1. g[0] = n /\ g[1] = n \div WrapLB /\ g[2] = (n \div WrapLB) \div WrapLB
    OBVIOUS
  <2>2. g = [k \in 0 .. 2 |-> g[k]]
    OBVIOUS
  <2> HIDE DEF g
  <2>3. \A k \in 0 .. 2 : g[k] = round(g, k)
    <3> TAKE k \in 0 .. 2
    <3>1. k = 0 \/ (k = 1 /\ k - 1 = 0) \/ (k = 2 /\ k - 1 = 1)
      OBVIOUS
    <3> QED BY <2>1, <3>1
  <2> HIDE DEF round
  <2>4. g = [k \in 0 .. 2 |-> round(g, k)]
    BY <2>2, <2>3
  <2> QED BY <2>4
<1>3. rest = [k \in 0 .. 2 |-> round(rest, k)]
  <2> HIDE DEF round
  <2> QED BY <1>2
<1> HIDE DEF rest
<1>4. rest[0] = n /\ rest[1] = n \div WrapLB
  <2>1. rest[0] = round(rest, 0) /\ rest[1] = round(rest, 1)
    <3> HIDE DEF round
    <3> QED BY <1>3
  <2>2. rest[0] = n
    BY <2>1
  <2>3. rest[1] = rest[0] \div WrapLB
    BY <2>1
  <2> QED BY <2>2, <2>3
<1> DEFINE q == [k \in 1 .. 2 |-> rest[k - 1] % WrapLB]
<1>5. q = [k \in 1 .. 2 |-> q[k]] /\ q[1] = n % WrapLB /\ q[2] = (n \div WrapLB) % WrapLB
  BY <1>4
<1> HIDE DEF q
<1>6. q = <<q[1], q[2]>>
  BY <1>5, PairIs
<1> QED BY <1>1, <1>5, <1>6 DEF q

\* What is left of two limbs, the lower of which may be negative, fits in two.
LEMMA LeftFits ==
  ASSUME NEW c \in (-MaxLimb) .. MaxLimb, NEW e \in 1 .. MaxLimb
  PROVE  /\ c + WrapLB * e \in Nat
         /\ Limbs(2)[c + WrapLB * e] \in ShortLimbs
         /\ Weigh[Limbs(2)[c + WrapLB * e]] = c + WrapLB * e
<1> DEFINE n == c + WrapLB * e
<1> DEFINE low == IF c < 0 THEN c + WrapLB ELSE c
<1> DEFINE high == IF c < 0 THEN e - 1 ELSE e
<1>0. c \in Int /\ e \in Int /\ 1 <= e /\ e <= MaxLimb /\ -MaxLimb <= c /\ c <= MaxLimb
  BY LimbFacts
<1>1. low \in 0 .. MaxLimb /\ high \in 0 .. MaxLimb /\ low \in Int /\ high \in Int
  BY <1>0, LimbFacts
<1>2. n = low + WrapLB * high
  <2>1. WrapLB * (e - 1) = WrapLB * e - WrapLB
    BY <1>0, LimbFacts
  <2> QED BY <1>0, <2>1, LimbFacts
<1>3. high = 0 => low \in 1 .. MaxLimb
  BY <1>0, LimbFacts
<1>4. WrapLB * high \in Nat
  <2> HIDE DEF high
  <2> QED BY <1>1, LimbFacts
<1> HIDE DEF n, low, high
<1>5. n \in Nat
  BY <1>1, <1>2, <1>4, LimbFacts
<1>6. n % WrapLB = low /\ n \div WrapLB = high
  BY <1>1, <1>2, <1>5, QuotientAndRest
<1>7. high % WrapLB = high
  <2>1. high \in Nat /\ high = high + WrapLB * 0
    BY <1>1, LimbFacts
  <2> QED BY <1>1, <2>1, QuotientAndRest
<1>8. Limbs(2)[n] = Shrunk(<<low, high>>)
  BY <1>5, <1>6, <1>7, LimbsTwo
<1>9. CASE high = 0
  <2>1. Limbs(2)[n] = <<low>>
    <3>1. low # 0
      BY <1>3, <1>9
    <3> QED BY <1>1, <1>8, <1>9, <3>1, ShrunkTwo
  <2>2. Weigh[<<low>>] = low
    BY <1>1, WeighOne
  <2>3. <<low>> \in ShortLimbs
    BY <1>3, <1>9 DEF ShortLimbs, OneLimb
  <2>4. n = low
    BY <1>1, <1>2, <1>9, LimbFacts
  <2> QED BY <1>5, <2>1, <2>2, <2>3, <2>4 DEF n
<1>10. CASE high # 0
  <2>1. Limbs(2)[n] = <<low, high>>
    BY <1>1, <1>8, <1>10, ShrunkTwo
  <2>2. Weigh[<<low, high>>] = low + WrapLB * high
    BY <1>1, WeighTwo
  <2>3. high \in 1 .. MaxLimb
    BY <1>1, <1>10, LimbFacts
  <2>4. <<low, high>> \in ShortLimbs
    BY <1>1, <2>3 DEF ShortLimbs, TwoLimbs
  <2> QED BY <1>2, <1>5, <2>1, <2>2, <2>4 DEF n
<1> QED BY <1>9, <1>10

\* What fills l to the last limb.
Full(l) == IF Len(l) = 1 THEN <<MaxLimb>> ELSE <<MaxLimb, MaxLimb>>

\* Two of two limbs overflow, and their lower ones add up to exactly the largest limb.
LowExactlyFull(l, r) ==
  /\ l \in TwoLimbs /\ r \in TwoLimbs
  /\ l[1] + r[1] = MaxLimb /\ l[2] + r[2] > MaxLimb

\* What l and r become when l takes what it can.
Taken(q, l, r) ==
  /\ q = <<q[1], q[2]>>
  /\ q[1] \in ShortLimbs /\ Len(q[1]) = Len(l)
  /\ q[2] \in ShortLimbs \cup {<<>>}
  /\ q[2] # <<>> => q[1] = Full(l) /\ Len(q[2]) <= Len(l)
  /\ Weigh[q[1]] + Weigh[q[2]] = Weigh[l] + Weigh[r] \/ LowExactlyFull(l, r)

\* Enough to know of each outcome.
LEMMA AllTaken ==
  ASSUME NEW l, NEW r, NEW x \in ShortLimbs, Len(x) = Len(l),
         Weigh[x] = Weigh[l] + Weigh[r]
  PROVE  Taken(<<x, <<>>>>, l, r)
<1>1. Weigh[x] \in Nat
  BY ShortWeight
<1> DEFINE q == <<x, <<>>>>
<1>2. q[1] = x /\ q[2] = <<>> /\ q = <<q[1], q[2]>>
  OBVIOUS
<1>3. Weigh[q[1]] + Weigh[q[2]] = Weigh[l] + Weigh[r]
  BY <1>1, <1>2, WeighNone
<1> HIDE DEF q
<1>4. Taken(q, l, r)
  BY <1>2, <1>3 DEF Taken
<1> QED BY <1>4 DEF q

LEMMA SomeLeft ==
  ASSUME NEW l, NEW r, NEW x \in ShortLimbs, NEW y \in ShortLimbs,
         x = Full(l), Len(x) = Len(l), Len(y) <= Len(l),
         Weigh[x] + Weigh[y] = Weigh[l] + Weigh[r] \/ LowExactlyFull(l, r)
  PROVE  Taken(<<x, y>>, l, r)
<1> DEFINE q == <<x, y>>
<1>1. q[1] = x /\ q[2] = y /\ q = <<q[1], q[2]>>
  OBVIOUS
<1> HIDE DEF q
<1>2. Taken(q, l, r)
  BY <1>1 DEF Taken
<1> QED BY <1>2 DEF q

LEMMA FullOne ==
  /\ <<MaxLimb>> \in ShortLimbs /\ Weigh[<<MaxLimb>>] = MaxLimb
  /\ \A l \in OneLimb : Full(l) = <<MaxLimb>> /\ Len(l) = 1
<1>1. MaxLimb \in 1 .. MaxLimb
  BY LimbFacts
<1>2. <<MaxLimb>> \in ShortLimbs
  BY <1>1 DEF ShortLimbs, OneLimb
<1>3. Weigh[<<MaxLimb>>] = MaxLimb
  BY LimbFacts, WeighOne
<1> QED BY <1>2, <1>3 DEF Full, OneLimb

LEMMA FullTwo ==
  /\ <<MaxLimb, MaxLimb>> \in ShortLimbs
  /\ Weigh[<<MaxLimb, MaxLimb>>] = MaxLimb + WrapLB * MaxLimb
  /\ \A l \in TwoLimbs : Full(l) = <<MaxLimb, MaxLimb>> /\ Len(l) = 2
<1>1. MaxLimb \in 1 .. MaxLimb /\ MaxLimb \in 0 .. MaxLimb
  BY LimbFacts
<1>2. <<MaxLimb, MaxLimb>> \in ShortLimbs
  BY <1>1 DEF ShortLimbs, TwoLimbs
<1>3. Weigh[<<MaxLimb, MaxLimb>>] = MaxLimb + WrapLB * MaxLimb
  BY LimbFacts, WeighTwo
<1> QED BY <1>2, <1>3 DEF Full, TwoLimbs

LEMMA TakeOneOne ==
  ASSUME NEW a \in 1 .. MaxLimb, NEW c \in 1 .. MaxLimb
  PROVE  Taken(Take(<<a>>, <<c>>), <<a>>, <<c>>)
<1> DEFINE l == <<a>>
<1> DEFINE r == <<c>>
<1>0. a \in Int /\ c \in Int /\ 1 <= a /\ a <= MaxLimb /\ 1 <= c /\ c <= MaxLimb
  BY LimbFacts
<1>1. /\ Len(l) = 1 /\ l[1] = a /\ DOMAIN l = 1 .. 1 /\ Len(r) = 1 /\ r[1] = c
      /\ l \in OneLimb
  BY DEF OneLimb
<1>2. Weigh[l] = a /\ Weigh[r] = c
  BY <1>0, WeighOne
<1>3. \A x : [l EXCEPT ![1] = x] = <<x>>
  OBVIOUS
<1> HIDE DEF l, r
<1> DEFINE room == {k \in 2 .. Len(l) : l[k] < MaxLimb}
<1>4. Take(l, r) = IF a + c <= MaxLimb THEN <<<<a + c>>, <<>>>>
                   ELSE <<<<MaxLimb>>, <<a + c - MaxLimb>>>>
  <2>1. Take(l, r) = IF l[1] + r[1] <= MaxLimb THEN <<[l EXCEPT ![1] = l[1] + r[1]], <<>>>>
                     ELSE IF room # {}
                     THEN <<CarriedTo([l EXCEPT ![1] = (l[1] + r[1]) - WrapLB], 2, Min(room)), <<>>>>
                     ELSE <<[l EXCEPT ![1] = MaxLimb], <<(l[1] + r[1]) - MaxLimb>>>>
    BY <1>1 DEF Take, TakeSmall
  <2>2. room = {}
    BY <1>1
  <2> HIDE DEF room
  <2>3. (a + c) - MaxLimb = a + c - MaxLimb
    BY <1>0, LimbFacts
  <2>4. /\ [l EXCEPT ![1] = a + c] = <<a + c>>
        /\ [l EXCEPT ![1] = MaxLimb] = <<MaxLimb>>
    BY <1>3
  <2> QED BY <1>1, <2>1, <2>2, <2>3, <2>4
<1>5. CASE a + c <= MaxLimb
  <2>1. a + c \in 1 .. MaxLimb /\ a + c \in Int
    BY <1>0, <1>5, LimbFacts
  <2>2. <<a + c>> \in ShortLimbs /\ Weigh[<<a + c>>] = a + c /\ Len(<<a + c>>) = 1
    BY <2>1, WeighOne DEF ShortLimbs, OneLimb
  <2>3. Taken(<<<<a + c>>, <<>>>>, l, r)
    BY <1>1, <1>2, <2>2, AllTaken
  <2> QED BY <1>4, <1>5, <2>3 DEF l, r
<1>6. CASE ~(a + c <= MaxLimb)
  <2>1. a + c - MaxLimb \in 1 .. MaxLimb /\ a + c - MaxLimb \in Int
    BY <1>0, <1>6, LimbFacts
  <2>2. /\ <<a + c - MaxLimb>> \in ShortLimbs
        /\ Weigh[<<a + c - MaxLimb>>] = a + c - MaxLimb
        /\ Len(<<a + c - MaxLimb>>) = 1
    BY <2>1, WeighOne DEF ShortLimbs, OneLimb
  <2>3. /\ <<MaxLimb>> = Full(l) /\ Len(<<MaxLimb>>) = Len(l) /\ <<MaxLimb>> \in ShortLimbs
        /\ Len(<<a + c - MaxLimb>>) <= Len(l)
        /\ Weigh[<<MaxLimb>>] + Weigh[<<a + c - MaxLimb>>] = Weigh[l] + Weigh[r]
    BY <1>0, <1>1, <1>2, <2>1, <2>2, FullOne, LimbFacts
  <2>4. Taken(<<<<MaxLimb>>, <<a + c - MaxLimb>>>>, l, r)
    BY <1>1, <2>2, <2>3, SomeLeft
  <2> QED BY <1>4, <1>6, <2>4 DEF l, r
<1> QED BY <1>5, <1>6

LEMMA TakeTwoOne ==
  ASSUME NEW a \in 0 .. MaxLimb, NEW b \in 1 .. MaxLimb, NEW c \in 1 .. MaxLimb
  PROVE  Taken(Take(<<a, b>>, <<c>>), <<a, b>>, <<c>>)
<1> DEFINE l == <<a, b>>
<1> DEFINE r == <<c>>
<1> DEFINE room == {k \in 2 .. Len(l) : l[k] < MaxLimb}
<1>0. /\ a \in Int /\ b \in Int /\ c \in Int
      /\ 0 <= a /\ a <= MaxLimb /\ 1 <= b /\ b <= MaxLimb /\ 1 <= c /\ c <= MaxLimb
      /\ WrapLB * b \in Int
  BY LimbFacts
<1>1. /\ Len(l) = 2 /\ l[1] = a /\ l[2] = b /\ DOMAIN l = 1 .. 2
      /\ Len(r) = 1 /\ r[1] = c /\ l \in TwoLimbs
  BY DEF TwoLimbs
<1>2. Weigh[l] = a + WrapLB * b /\ Weigh[r] = c
  BY <1>0, WeighOne, WeighTwo
<1>3. \A x : [l EXCEPT ![1] = x] = <<x, b>>
  OBVIOUS
<1>4. Take(l, r) = IF a + c <= MaxLimb THEN <<<<a + c, b>>, <<>>>>
                   ELSE IF room # {} THEN <<CarriedTo(<<a + c - WrapLB, b>>, 2, Min(room)), <<>>>>
                   ELSE <<<<MaxLimb, b>>, <<a + c - MaxLimb>>>>
  <2> HIDE DEF l, r
  <2> HIDE DEF room
  <2>1. Take(l, r) = IF l[1] + r[1] <= MaxLimb THEN <<[l EXCEPT ![1] = l[1] + r[1]], <<>>>>
                     ELSE IF room # {}
                     THEN <<CarriedTo([l EXCEPT ![1] = (l[1] + r[1]) - WrapLB], 2, Min(room)), <<>>>>
                     ELSE <<[l EXCEPT ![1] = MaxLimb], <<(l[1] + r[1]) - MaxLimb>>>>
    BY <1>1 DEF Take, TakeSmall, room
  <2>2. (a + c) - MaxLimb = a + c - MaxLimb /\ (a + c) - WrapLB = a + c - WrapLB
    BY <1>0, LimbFacts
  <2>3. /\ [l EXCEPT ![1] = a + c] = <<a + c, b>>
        /\ [l EXCEPT ![1] = a + c - WrapLB] = <<a + c - WrapLB, b>>
        /\ [l EXCEPT ![1] = MaxLimb] = <<MaxLimb, b>>
    BY <1>3
  <2> QED BY <1>1, <2>1, <2>2, <2>3
<1>5. CASE a + c <= MaxLimb
  <2>1. a + c \in 0 .. MaxLimb /\ a + c \in Int
    BY <1>0, <1>5, LimbFacts
  <2>2. <<a + c, b>> \in ShortLimbs /\ Weigh[<<a + c, b>>] = a + c + WrapLB * b /\ Len(<<a + c, b>>) = 2
    BY <1>0, <2>1, WeighTwo DEF ShortLimbs, TwoLimbs
  <2> HIDE DEF l, r
  <2>4. Weigh[<<a + c, b>>] = Weigh[l] + Weigh[r]
    BY <1>0, <1>2, <2>2
  <2>3. Taken(<<<<a + c, b>>, <<>>>>, l, r)
    BY <1>1, <2>2, <2>4, AllTaken
  <2> QED BY <1>4, <1>5, <2>3 DEF l, r
<1>6. CASE ~(a + c <= MaxLimb) /\ b < MaxLimb
  <2>1. Min(room) = 2 /\ room # {}
    <3>1. room \in SUBSET Int /\ 2 \in room /\ \A y \in room : 2 <= y
      BY <1>0, <1>1, <1>6
    <3> HIDE DEF room
    <3> QED BY <3>1, MinIs
  <2> DEFINE x == CarriedTo(<<a + c - WrapLB, b>>, 2, 2)
  <2>2. x = <<a + c - WrapLB, b + 1>>
    <3>1. x = [k \in 1 .. 2 |-> x[k]] /\ x[1] = a + c - WrapLB /\ x[2] = b + 1
      BY DEF CarriedTo
    <3> HIDE DEF x
    <3>2. x = <<x[1], x[2]>>
      BY <3>1, PairIs
    <3> QED BY <3>1, <3>2
  <2>3. a + c - WrapLB \in 0 .. MaxLimb /\ a + c - WrapLB \in Int /\ b + 1 \in 1 .. MaxLimb /\ b + 1 \in Int
    BY <1>0, <1>6, LimbFacts
  <2>4. x \in ShortLimbs /\ Len(x) = 2 /\ Weigh[x] = a + c - WrapLB + WrapLB * (b + 1)
    BY <2>2, <2>3, WeighTwo DEF ShortLimbs, TwoLimbs
  <2>5. WrapLB * (b + 1) = WrapLB * b + WrapLB
    BY <1>0, LimbFacts
  <2>6. Take(l, r) = <<x, <<>>>>
    <3> HIDE DEF x, room, l, r
    <3> QED BY <1>4, <1>6, <2>1 DEF x
  <2> HIDE DEF x, l, r
  <2>7. Weigh[x] = Weigh[l] + Weigh[r]
    BY <1>0, <1>2, <2>4, <2>5, LimbFacts
  <2>8. Taken(<<x, <<>>>>, l, r)
    BY <1>1, <2>4, <2>7, AllTaken
  <2> QED BY <2>6, <2>8 DEF l, r
<1>7. CASE ~(a + c <= MaxLimb) /\ b = MaxLimb
  <2>1. room = {}
    BY <1>1, <1>7, LimbFacts
  <2>2. a + c - MaxLimb \in 1 .. MaxLimb /\ a + c - MaxLimb \in Int
    BY <1>0, <1>7, LimbFacts
  <2> DEFINE y == <<a + c - MaxLimb>>
  <2>3. y \in ShortLimbs /\ Len(y) = 1 /\ Weigh[y] = a + c - MaxLimb
    BY <2>2, WeighOne DEF ShortLimbs, OneLimb
  <2>4. Take(l, r) = <<<<MaxLimb, MaxLimb>>, y>>
    BY <1>4, <1>7, <2>1
  <2> HIDE DEF l, r, y
  <2>5. /\ <<MaxLimb, MaxLimb>> = Full(l) /\ <<MaxLimb, MaxLimb>> \in ShortLimbs
        /\ Len(<<MaxLimb, MaxLimb>>) = Len(l) /\ Len(y) <= Len(l)
    BY <1>1, <2>3, FullTwo
  <2>6. Weigh[<<MaxLimb, MaxLimb>>] + Weigh[y] = Weigh[l] + Weigh[r]
    BY <1>0, <1>2, <1>7, <2>3, FullTwo, LimbFacts
  <2>7. Taken(<<<<MaxLimb, MaxLimb>>, y>>, l, r)
    BY <2>3, <2>5, <2>6, SomeLeft
  <2> QED BY <2>4, <2>7 DEF l, r
<1> QED BY <1>0, <1>5, <1>6, <1>7, LimbFacts

LEMMA TakeTwoTwo ==
  ASSUME NEW a \in 0 .. MaxLimb, NEW b \in 1 .. MaxLimb,
         NEW c \in 0 .. MaxLimb, NEW e \in 1 .. MaxLimb
  PROVE  Taken(Take(<<a, b>>, <<c, e>>), <<a, b>>, <<c, e>>)
<1> DEFINE l == <<a, b>>
<1> DEFINE r == <<c, e>>
<1> DEFINE sums == [k \in DOMAIN l |-> l[k] + (IF k <= Len(r) THEN r[k] ELSE 0)]
<1> DEFINE waries == {1} \cup {k \in 2 .. Len(r) : sums[k] # MaxLimb}
<1> DEFINE wary == Max(waries)
<1> DEFINE room == {k \in (Len(r) + 1) .. Len(l) : l[k] < MaxLimb}
<1> DEFINE added == [k \in DOMAIN l |->
                       (IF k < wary /\ sums[k] >= WrapLB THEN sums[k] - WrapLB ELSE sums[k])
                         + (IF k \in 2 .. wary /\ sums[k - 1] >= WrapLB THEN 1 ELSE 0)]
<1> DEFINE full == [k \in DOMAIN l |-> IF k <= wary THEN MaxLimb ELSE sums[k]]
<1> DEFINE left == [k \in 1 .. wary |-> IF k < wary /\ sums[k] = MaxLimb THEN r[k]
                                        ELSE sums[k] - MaxLimb]
<1>0. /\ a \in Int /\ b \in Int /\ 0 <= a /\ a <= MaxLimb /\ 1 <= b /\ b <= MaxLimb
      /\ c \in Int /\ e \in Int /\ 0 <= c /\ c <= MaxLimb /\ 1 <= e /\ e <= MaxLimb
      /\ WrapLB * b \in Int /\ WrapLB * e \in Int
  BY LimbFacts
<1>1. /\ Len(l) = 2 /\ l[1] = a /\ l[2] = b /\ DOMAIN l = 1 .. 2
      /\ Len(r) = 2 /\ r[1] = c /\ r[2] = e
      /\ l \in TwoLimbs /\ r \in TwoLimbs
  BY DEF TwoLimbs
<1>2. Weigh[l] = a + WrapLB * b /\ Weigh[r] = c + WrapLB * e
  BY <1>0, WeighTwo
<1> HIDE DEF l, r
<1>3. Take(l, r) =
        IF wary = 1
        THEN IF sums[1] < WrapLB THEN <<sums, <<>>>> ELSE <<full, left>>
        ELSE IF sums[wary] < MaxLimb THEN <<added, <<>>>>
        ELSE IF room # {}
        THEN <<CarriedTo([added EXCEPT ![wary] = @ - WrapLB], wary + 1, Min(room)), <<>>>>
        ELSE <<full, Limbs(wary)[Weigh[left]]>>
  <2>1. Len(r) # 1
    BY <1>1
  <2>2. Take(l, r) = TakeLarge(l, r)
    BY <2>1 DEF Take
  <2> QED BY <2>2 DEF TakeLarge
<1>4. sums = [k \in 1 .. 2 |-> sums[k]] /\ sums[1] = a + c /\ sums[2] = b + e
  BY <1>1
<1>5. sums = <<a + c, b + e>>
  <2> HIDE DEF sums
  <2> QED BY <1>4, PairIs
<1>6. WrapLB * (b + e) = WrapLB * b + WrapLB * e
  BY <1>0, LimbFacts
<1>7. CASE b + e = MaxLimb
  <2>1. wary = 1
    <3>1. waries = {1}
      <4> HIDE DEF sums
      <4> QED BY <1>1, <1>4, <1>7
    <3> HIDE DEF waries
    <3> QED BY <3>1, MaxIs
  <2> HIDE DEF wary
  <2>2. CASE a + c < WrapLB
    <3>1. Take(l, r) = <<sums, <<>>>>
      <4> HIDE DEF sums, full, left, added, room
      <4> QED BY <1>3, <1>4, <2>1, <2>2
    <3> HIDE DEF sums
    <3>2. a + c \in 0 .. MaxLimb /\ b + e \in 1 .. MaxLimb /\ a + c \in Int /\ b + e \in Int
      BY <1>0, <1>7, <2>2, LimbFacts
    <3>3. sums \in ShortLimbs /\ Len(sums) = 2 /\ Weigh[sums] = a + c + WrapLB * (b + e)
      BY <1>5, <3>2, WeighTwo DEF ShortLimbs, TwoLimbs
    <3>4. Weigh[sums] = Weigh[l] + Weigh[r]
      BY <1>0, <1>2, <1>6, <3>3
    <3>5. Taken(<<sums, <<>>>>, l, r)
      BY <1>1, <3>3, <3>4, AllTaken
    <3> QED BY <3>1, <3>5 DEF l, r
  <2>3. CASE ~(a + c < WrapLB)
    <3>1. Take(l, r) = <<full, left>>
      <4> HIDE DEF sums, full, left, added, room
      <4> QED BY <1>3, <1>4, <2>1, <2>3
    <3>2. full = <<MaxLimb, MaxLimb>>
      <4> HIDE DEF sums
      <4>1. full = [k \in 1 .. 2 |-> full[k]] /\ full[1] = MaxLimb /\ full[2] = MaxLimb
        BY <1>1, <1>4, <1>7, <2>1
      <4> HIDE DEF full
      <4> QED BY <4>1, PairIs
    <3>3. left = <<a + c - MaxLimb>>
      <4> HIDE DEF sums
      <4>1. left = [k \in 1 .. 1 |-> left[k]] /\ left[1] = a + c - MaxLimb
        BY <1>0, <1>4, <2>1, LimbFacts
      <4> HIDE DEF left
      <4> QED BY <4>1, SingleIs
    <3> HIDE DEF full, left
    <3>4. a + c - MaxLimb \in 1 .. MaxLimb /\ a + c - MaxLimb \in Int
      BY <1>0, <2>3, LimbFacts
    <3>5. left \in ShortLimbs /\ Len(left) = 1 /\ Weigh[left] = a + c - MaxLimb
      BY <3>3, <3>4, WeighOne DEF ShortLimbs, OneLimb
    <3>6. full = Full(l) /\ full \in ShortLimbs /\ Len(full) = Len(l) /\ Len(left) <= Len(l)
      BY <1>1, <3>2, <3>5, FullTwo
    <3>7. Weigh[full] + Weigh[left] = Weigh[l] + Weigh[r]
      <4>1. Weigh[full] = MaxLimb + WrapLB * MaxLimb
        BY <3>2, FullTwo
      <4>2. WrapLB * MaxLimb = WrapLB * b + WrapLB * e
        BY <1>6, <1>7
      <4> QED BY <1>0, <1>2, <3>5, <4>1, <4>2, LimbFacts
    <3>8. Taken(<<full, left>>, l, r)
      BY <3>5, <3>6, <3>7, SomeLeft
    <3> QED BY <3>1, <3>8 DEF l, r
  <2> QED BY <2>2, <2>3
<1>8. CASE b + e # MaxLimb
  <2>1. wary = 2
    <3>1. waries \in SUBSET Int /\ 2 \in waries /\ \A y \in waries : y <= 2
      <4> HIDE DEF sums
      <4> QED BY <1>1, <1>4, <1>8
    <3> HIDE DEF waries
    <3> QED BY <3>1, MaxIs
  <2> HIDE DEF wary
  <2>2. CASE b + e < MaxLimb
    <3> DEFINE low == IF a + c >= WrapLB THEN a + c - WrapLB ELSE a + c
    <3> DEFINE high == IF a + c >= WrapLB THEN b + e + 1 ELSE b + e
    <3>1. Take(l, r) = <<added, <<>>>>
      <4> HIDE DEF sums, full, left, added, room
      <4> QED BY <1>3, <1>4, <2>1, <2>2
    <3>2. added = <<low, high>>
      <4> HIDE DEF sums
      <4>1. added = [k \in 1 .. 2 |-> added[k]]
        BY <1>1
      <4>2. added[1] = low
        <5>1. 1 \in DOMAIN l /\ 1 < wary /\ ~(1 \in 2 .. wary)
          BY <1>1, <2>1
        <5>2. added[1] = (IF sums[1] >= WrapLB THEN sums[1] - WrapLB ELSE sums[1]) + 0
          BY <5>1
        <5> QED BY <1>0, <1>4, <5>2, LimbFacts
      <4>3. added[2] = high
        <5>1. 2 \in DOMAIN l /\ ~(2 < wary) /\ 2 \in 2 .. wary /\ 2 - 1 = 1
          BY <1>1, <2>1
        <5>2. added[2] = sums[2] + (IF sums[1] >= WrapLB THEN 1 ELSE 0)
          BY <5>1
        <5> QED BY <1>0, <1>4, <5>2, LimbFacts
      <4> HIDE DEF added, low, high
      <4> QED BY <4>1, <4>2, <4>3, PairIs
    <3>3. low \in 0 .. MaxLimb /\ high \in 1 .. MaxLimb /\ low \in Int /\ high \in Int
      BY <1>0, <2>2, LimbFacts
    <3>4. low + WrapLB * high = a + c + WrapLB * b + WrapLB * e
      <4>1. CASE a + c >= WrapLB
        <5>1. WrapLB * (b + e + 1) = WrapLB * b + WrapLB * e + WrapLB
          BY <1>0, LimbFacts
        <5> QED BY <1>0, <4>1, <5>1, LimbFacts
      <4>2. CASE ~(a + c >= WrapLB)
        BY <1>0, <1>6, <4>2, LimbFacts
      <4> QED BY <4>1, <4>2
    <3> HIDE DEF added, low, high
    <3>5. added \in ShortLimbs /\ Len(added) = 2 /\ Weigh[added] = low + WrapLB * high
      BY <3>2, <3>3, WeighTwo DEF ShortLimbs, TwoLimbs
    <3>6. Weigh[added] = Weigh[l] + Weigh[r]
      BY <1>0, <1>2, <3>4, <3>5
    <3>7. Taken(<<added, <<>>>>, l, r)
      BY <1>1, <3>5, <3>6, AllTaken
    <3> QED BY <3>1, <3>7 DEF l, r
  <2>3. CASE b + e > MaxLimb
    <3> DEFINE low == IF a + c = MaxLimb THEN c ELSE a + c - MaxLimb
    <3> DEFINE high == b + e - MaxLimb
    <3>1. Take(l, r) = <<full, Limbs(2)[Weigh[left]]>>
      <4>1. room = {}
        BY <1>1
      <4>2. ~(sums[wary] < MaxLimb) /\ wary # 1
        <5> HIDE DEF sums
        <5> QED BY <1>0, <1>4, <2>1, <2>3, LimbFacts
      <4> HIDE DEF sums, full, left, added, room
      <4> QED BY <1>3, <2>1, <4>1, <4>2
    <3>2. full = <<MaxLimb, MaxLimb>>
      <4> HIDE DEF sums
      <4>1. full = [k \in 1 .. 2 |-> full[k]] /\ full[1] = MaxLimb /\ full[2] = MaxLimb
        BY <1>1, <2>1
      <4> HIDE DEF full
      <4> QED BY <4>1, PairIs
    <3>3. left = <<low, high>>
      <4> HIDE DEF sums
      <4>1. left = [k \in 1 .. 2 |-> left[k]]
        BY <2>1
      <4>2. left[1] = low
        <5>1. 1 \in 1 .. wary /\ 1 < wary
          BY <2>1
        <5>2. left[1] = IF sums[1] = MaxLimb THEN r[1] ELSE sums[1] - MaxLimb
          BY <5>1
        <5> QED BY <1>0, <1>1, <1>4, <5>2, LimbFacts
      <4>3. left[2] = high
        <5>1. 2 \in 1 .. wary /\ ~(2 < wary)
          BY <2>1
        <5>2. left[2] = sums[2] - MaxLimb
          BY <5>1
        <5> QED BY <1>0, <1>4, <5>2, LimbFacts
      <4> HIDE DEF left, low, high
      <4> QED BY <4>1, <4>2, <4>3, PairIs
    <3>4. /\ low \in (-MaxLimb) .. MaxLimb /\ high \in 1 .. MaxLimb
          /\ low \in Int /\ high \in Int
      BY <1>0, <2>3, LimbFacts
    <3>5. WrapLB * high = WrapLB * b + WrapLB * e - WrapLB * MaxLimb
      BY <1>0, LimbFacts
    <3>6. LowExactlyFull(l, r) \/ low = a + c - MaxLimb
      BY <1>0, <1>1, <2>3, LimbFacts DEF LowExactlyFull
    <3> HIDE DEF full, left, low, high
    <3> DEFINE y == Limbs(2)[Weigh[left]]
    <3>7. Weigh[left] = low + WrapLB * high
      BY <3>3, <3>4, WeighTwo
    <3>8. y \in ShortLimbs /\ Weigh[y] = low + WrapLB * high
      BY <3>4, <3>7, LeftFits
    <3> HIDE DEF y
    <3>9. Len(y) <= Len(l)
      <4>1. l \in ShortLimbs
        BY <1>1 DEF ShortLimbs
      <4> QED BY <1>1, <3>8, <4>1, ShortLengths
    <3>10. full = Full(l) /\ full \in ShortLimbs /\ Len(full) = Len(l) /\ Len(y) <= Len(l)
      BY <1>1, <3>2, <3>9, FullTwo
    <3>11. Weigh[full] + Weigh[y] = Weigh[l] + Weigh[r] \/ LowExactlyFull(l, r)
      <4>1. Weigh[full] = MaxLimb + WrapLB * MaxLimb
        BY <3>2, FullTwo
      <4>2. WrapLB * MaxLimb \in Int /\ WrapLB * high \in Int
        BY <3>4, LimbFacts
      <4> QED BY <1>0, <1>2, <3>4, <3>5, <3>6, <3>8, <4>1, <4>2, LimbFacts
    <3>12. Taken(<<full, y>>, l, r)
      BY <3>8, <3>10, <3>11, SomeLeft
    <3> QED BY <3>1, <3>12 DEF l, r, y
  <2> QED BY <1>0, <1>8, <2>2, <2>3, LimbFacts
<1> QED BY <1>7, <1>8

LEMMA TakeShort ==
  ASSUME NEW l \in ShortLimbs, NEW r \in ShortLimbs, Len(r) <= Len(l)
  PROVE  Taken(Take(l, r), l, r)
<1>1. CASE l \in OneLimb
  <2>1. r \in OneLimb
    BY <1>1, ShortLength
  <2> QED BY <1>1, <2>1, TakeOneOne DEF OneLimb
<1>2. CASE l \in TwoLimbs /\ r \in OneLimb
  BY <1>2, TakeTwoOne DEF OneLimb, TwoLimbs
<1>3. CASE l \in TwoLimbs /\ r \in TwoLimbs
  BY <1>3, TakeTwoTwo DEF TwoLimbs
<1> QED BY <1>1, <1>2, <1>3 DEF ShortLimbs

\* What a sum of two of one sign leaves of them.
Left(p, l, r) ==
  /\ p = <<p[1], p[2]>>
  /\ p[1] \in ShortLimbs \cup {<<>>} /\ p[2] \in ShortLimbs \cup {<<>>}
  /\ p[1] # <<>> \/ p[2] # <<>>
  /\ p[1] # <<>> /\ p[2] # <<>> =>
       \/ p[1] = Full(p[1]) /\ Len(p[2]) <= Len(p[1])
       \/ p[2] = Full(p[2]) /\ Len(p[1]) <= Len(p[2])
  /\ \/ Weigh[p[1]] + Weigh[p[2]] = Weigh[l] + Weigh[r]
     \/ LowExactlyFull(l, r)

LEMMA TakenIsLeft ==
  ASSUME NEW l \in ShortLimbs, NEW r \in ShortLimbs, NEW q, Taken(q, l, r)
  PROVE  Left(q, l, r)
<1>1. q[1] # <<>>
  BY ShortWeight DEF Taken
<1>2. Full(l) = Full(q[1])
  BY DEF Taken, Full
<1>3. q[2] # <<>> => q[1] = Full(q[1]) /\ Len(q[2]) <= Len(q[1])
  BY <1>2 DEF Taken
<1> QED BY <1>1, <1>3 DEF Taken, Left

LEMMA LeftSwapped ==
  ASSUME NEW l \in ShortLimbs, NEW r \in ShortLimbs, NEW q, Left(q, r, l)
  PROVE  Left(Swap(q), l, r)
<1> DEFINE p == Swap(q)
<1>1. p = <<q[2], q[1]>> /\ p[1] = q[2] /\ p[2] = q[1]
  BY DEF Swap
<1>2. Weigh[l] \in Int /\ Weigh[r] \in Int
  BY ShortWeight
<1>3. Weigh[q[1]] \in Int /\ Weigh[q[2]] \in Int
  <2>1. \A x \in ShortLimbs \cup {<<>>} : Weigh[x] \in Int
    BY ShortWeight, WeighNone
  <2> QED BY <2>1 DEF Left
<1>4. LowExactlyFull(r, l) => LowExactlyFull(l, r)
  <2>1. ASSUME NEW x \in TwoLimbs PROVE x[1] \in Int /\ x[2] \in Int
    BY LimbFacts DEF TwoLimbs
  <2> QED BY <2>1 DEF LowExactlyFull
<1>5. \/ Weigh[p[1]] + Weigh[p[2]] = Weigh[l] + Weigh[r]
      \/ LowExactlyFull(l, r)
  BY <1>1, <1>2, <1>3, <1>4 DEF Left
<1> HIDE DEF p
<1>6. Left(p, l, r)
  BY <1>1, <1>5 DEF Left
<1> QED BY <1>6 DEF p

LEMMA LongerIsHeavier ==
  ASSUME NEW l \in OneLimb, NEW r \in TwoLimbs
  PROVE  Len(l) = 1 /\ Len(r) = 2 /\ Weigh[l] < Weigh[r]
<1>1. PICK a \in 1 .. MaxLimb : l = <<a>> /\ Weigh[l] = a
  BY ShortWeights
<1>2. PICK c \in 0 .. MaxLimb, e \in 1 .. MaxLimb :
        r = <<c, e>> /\ Weigh[r] = c + WrapLB * e /\ WrapLB <= WrapLB * e /\ WrapLB * e \in Int
  BY ShortWeights
<1> QED BY <1>1, <1>2, BaseFacts

LEMMA CondensedShort ==
  ASSUME NEW s \in {-1, 1}, NEW l \in ShortLimbs, NEW r \in ShortLimbs
  PROVE  Left(Condensed(s, l, r), l, r)
<1>1. ASSUME LeftTakes(s, l, r) PROVE Len(r) <= Len(l)
  <2>1. CASE l \in OneLimb /\ r \in TwoLimbs
    <3>1. Len(l) = 1 /\ Len(r) = 2 /\ Weigh[l] < Weigh[r]
      BY <2>1, LongerIsHeavier
    <3>2. Weigh[l] \in Nat /\ Weigh[r] \in Nat
      BY ShortWeight
    <3>3. ~IsLarger(s, l, r)
      BY <3>1, <3>2 DEF IsLarger
    <3> QED BY <1>1, <3>1, <3>3 DEF LeftTakes
  <2>2. CASE l \in TwoLimbs \/ r \in OneLimb
    BY <2>2, ShortLengths
  <2> QED BY <2>1, <2>2 DEF ShortLimbs
<1>2. ASSUME ~LeftTakes(s, l, r) PROVE Len(l) <= Len(r)
  <2>1. CASE r \in OneLimb /\ l \in TwoLimbs
    <3>1. Len(r) = 1 /\ Len(l) = 2 /\ Weigh[r] < Weigh[l]
      BY <2>1, LongerIsHeavier
    <3>2. Weigh[l] \in Nat /\ Weigh[r] \in Nat
      BY ShortWeight
    <3>3. IsLarger(s, l, r)
      BY <3>1, <3>2 DEF IsLarger
    <3> QED BY <1>2, <3>1, <3>3 DEF LeftTakes
  <2>2. CASE r \in TwoLimbs \/ l \in OneLimb
    BY <2>2, ShortLengths
  <2> QED BY <2>1, <2>2 DEF ShortLimbs
<1>3. CASE LeftTakes(s, l, r)
  <2>1. Left(Take(l, r), l, r)
    BY <1>1, <1>3, TakeShort, TakenIsLeft
  <2> QED BY <1>3, <2>1 DEF Condensed
<1>4. CASE ~LeftTakes(s, l, r)
  <2>1. Left(Take(r, l), r, l)
    BY <1>2, <1>4, TakeShort, TakenIsLeft
  <2>2. Left(Swap(Take(r, l)), l, r)
    BY <2>1, LeftSwapped
  <2> QED BY <1>4, <2>2 DEF Condensed
<1> QED BY <1>3, <1>4

-----------------------------------------------------------------------------
(* A forced sum.                                                           *)

ThreeLimbs == {<<a, b, c>> : a \in 0 .. MaxLimb, b \in 0 .. MaxLimb, c \in 1 .. MaxLimb}

\* With another limb, the larger takes all of the other.
AllGrown(q, l, r) ==
  /\ q = <<q[1], <<>>>>
  /\ q[1] \in ShortLimbs \cup ThreeLimbs
  /\ Weigh[q[1]] = Weigh[l] + Weigh[r]

LEMMA GrownOne ==
  ASSUME NEW c \in 1 .. MaxLimb
  PROVE  AllGrown(Grown(<<MaxLimb>>, <<c>>), <<MaxLimb>>, <<c>>)
<1> DEFINE x == <<c - 1, 1>>
<1>0. c \in Int /\ 1 <= c /\ c <= MaxLimb
  BY BaseFacts
<1>1. Grown(<<MaxLimb>>, <<c>>) = <<x, <<>>>>
  <2>1. (MaxLimb + c) - WrapLB = c - 1
    BY <1>0, BaseFacts
  <2>2. Len(<<MaxLimb>>) = 1 /\ <<MaxLimb>>[1] = MaxLimb /\ <<c>>[1] = c
    OBVIOUS
  <2>3. Grown(<<MaxLimb>>, <<c>>) = <<<<(MaxLimb + c) - WrapLB, 1>>, <<>>>>
    BY <2>2, <1>0, BaseFacts DEF Grown
  <2> QED BY <2>1, <2>3
<1>2. c - 1 \in 0 .. MaxLimb /\ 1 \in 1 .. MaxLimb /\ c - 1 \in Int
  BY <1>0, BaseFacts
<1>3. x \in ShortLimbs
  BY <1>2 DEF ShortLimbs, TwoLimbs
<1>4. Weigh[x] = c - 1 + WrapLB * 1
  BY <1>2, WeighTwo
<1>5. Weigh[<<c>>] = c /\ Weigh[<<MaxLimb>>] = MaxLimb
  BY <1>0, WeighOne, BaseFacts
<1> HIDE DEF x
<1>6. Weigh[x] = Weigh[<<MaxLimb>>] + Weigh[<<c>>]
  BY <1>0, <1>4, <1>5, BaseFacts
<1> DEFINE q == <<x, <<>>>>
<1>7. q[1] = x /\ q = <<q[1], <<>>>>
  OBVIOUS
<1> HIDE DEF q
<1>8. AllGrown(q, <<MaxLimb>>, <<c>>)
  BY <1>3, <1>6, <1>7 DEF AllGrown
<1> QED BY <1>1, <1>8 DEF q

\* The longer is <<MaxLimb, MaxLimb>>, and an empty limb above takes the carry.
Top == <<MaxLimb, MaxLimb, 0>>

LEMMA TopFacts ==
  /\ Len(Top) = 3 /\ DOMAIN Top = 1 .. 3
  /\ Top[1] = MaxLimb /\ Top[2] = MaxLimb /\ Top[3] = 0
  /\ Top = [k \in 1 .. 3 |-> Top[k]]
  /\ Append(<<MaxLimb, MaxLimb>>, 0) = Top
<1>1. Len(Top) = 3 /\ DOMAIN Top = 1 .. 3 /\ Top[1] = MaxLimb /\ Top[2] = MaxLimb /\ Top[3] = 0
  BY DEF Top
<1>2. Append(<<MaxLimb, MaxLimb>>, 0) = Top
  <2> DEFINE s == <<MaxLimb, MaxLimb>>
  <2> DEFINE q == Append(s, 0)
  <2>1. s \in Seq(Int) /\ Len(s) = 2 /\ s[1] = MaxLimb /\ s[2] = MaxLimb
    BY BaseFacts
  <2> HIDE DEF s
  <2>2. q \in Seq(Int) /\ Len(q) = 3 /\ q[1] = MaxLimb /\ q[2] = MaxLimb /\ q[3] = 0
    <3>1. 0 \in Int
      OBVIOUS
    <3>2. /\ q \in Seq(Int) /\ Len(q) = Len(s) + 1
          /\ \A k \in 1 .. Len(s) : q[k] = s[k]
          /\ q[Len(s) + 1] = 0
      <4>1. s \in Seq(Int)
        BY <2>1
      <4> QED BY <3>1, <4>1, AppendProperties
    <3>3. Len(s) + 1 = 3 /\ 1 \in 1 .. Len(s) /\ 2 \in 1 .. Len(s)
      BY <2>1
    <3> HIDE DEF q
    <3>4. q[1] = s[1] /\ q[2] = s[2] /\ q[3] = 0 /\ Len(q) = 3
      BY <3>2, <3>3
    <3> QED BY <2>1, <3>2, <3>4
  <2> HIDE DEF q
  <2>3. q = [k \in 1 .. 3 |-> q[k]]
    <3>1. q = [k \in 1 .. Len(q) |-> q[k]]
      BY <2>2
    <3> QED BY <2>2, <3>1
  <2>4. q = <<q[1], q[2], q[3]>>
    BY <2>3, TripleIs
  <2> QED BY <2>2, <2>4 DEF Top, q, s
<1>3. Top = [k \in 1 .. 3 |-> Top[k]]
  <2> DEFINE t == [k \in 1 .. 3 |-> IF k = 3 THEN 0 ELSE MaxLimb]
  <2>1. t = [k \in 1 .. 3 |-> t[k]] /\ t[1] = MaxLimb /\ t[2] = MaxLimb /\ t[3] = 0
    OBVIOUS
  <2> HIDE DEF t
  <2>2. t = <<t[1], t[2], t[3]>>
    BY <2>1, TripleIs
  <2> QED BY <2>1, <2>2 DEF Top
<1> QED BY <1>1, <1>2, <1>3

LEMMA TopWeight == MaxLimb + WrapLB * MaxLimb + 1 = WrapLB * (0 + WrapLB * 1)
<1>1. WrapLB * MaxLimb = WrapLB * WrapLB - WrapLB
  BY BaseFacts
<1>2. WrapLB * (0 + WrapLB * 1) = WrapLB * WrapLB
  BY BaseFacts
<1> QED BY <1>1, <1>2, BaseFacts

\* Carrying into the empty limb.
LEMMA CarriedToTop ==
  ASSUME NEW l, l = [k \in 1 .. 3 |-> l[k]], l[3] = 0
  PROVE  /\ CarriedTo(l, 2, 3) = <<l[1], 0, 1>>
         /\ CarriedTo(l, 3, 3) = <<l[1], l[2], 1>>
<1>0. DOMAIN l = 1 .. 3
  OBVIOUS
<1> DEFINE x == CarriedTo(l, 2, 3)
<1> DEFINE y == CarriedTo(l, 3, 3)
<1>1. x = [k \in 1 .. 3 |-> x[k]] /\ x[1] = l[1] /\ x[2] = 0 /\ x[3] = 1
  BY <1>0 DEF CarriedTo
<1>2. y = [k \in 1 .. 3 |-> y[k]] /\ y[1] = l[1] /\ y[2] = l[2] /\ y[3] = 1
  BY <1>0 DEF CarriedTo
<1> HIDE DEF x, y
<1>3. x = <<x[1], x[2], x[3]>> /\ y = <<y[1], y[2], y[3]>>
  BY <1>1, <1>2, TripleIs
<1> QED BY <1>1, <1>2, <1>3 DEF x, y

LEMMA ThreeGrown ==
  ASSUME NEW l, NEW r, NEW a \in 0 .. MaxLimb, NEW b \in 0 .. MaxLimb, NEW q,
         q = <<<<a, b, 1>>, <<>>>>,
         a + WrapLB * (b + WrapLB * 1) = Weigh[l] + Weigh[r]
  PROVE  AllGrown(q, l, r)
<1> DEFINE x == <<a, b, 1>>
<1>1. a \in Int /\ b \in Int /\ 1 \in 1 .. MaxLimb
  BY BaseFacts
<1>2. x \in ThreeLimbs
  BY <1>1 DEF ThreeLimbs
<1>3. Weigh[x] = a + WrapLB * (b + WrapLB * 1)
  BY <1>1, WeighThree
<1>4. q[1] = x /\ q = <<q[1], <<>>>>
  OBVIOUS
<1> HIDE DEF x
<1> QED BY <1>2, <1>3, <1>4 DEF AllGrown

LEMMA GrownTwoOne ==
  ASSUME NEW c \in 1 .. MaxLimb
  PROVE  AllGrown(Grown(<<MaxLimb, MaxLimb>>, <<c>>), <<MaxLimb, MaxLimb>>, <<c>>)
<1> DEFINE r == <<c>>
<1> DEFINE room == {k \in 2 .. Len(Top) : Top[k] < MaxLimb}
<1>0. c \in Int /\ 1 <= c /\ c <= MaxLimb
  BY BaseFacts
<1>1. Len(r) = 1 /\ r[1] = c /\ Len(<<MaxLimb, MaxLimb>>) # 1
  OBVIOUS
<1>2. Weigh[r] = c /\ Weigh[<<MaxLimb, MaxLimb>>] = MaxLimb + WrapLB * MaxLimb
  BY <1>0, WeighOne, FullTwo
<1> HIDE DEF r
<1>3. Grown(<<MaxLimb, MaxLimb>>, r) = Take(Top, r)
  BY <1>1, TopFacts DEF Grown
<1>4. Min(room) = 3 /\ room # {}
  <2>1. room \in SUBSET Int /\ 3 \in room /\ \A y \in room : 3 <= y
    <3>1. \A k \in 2 .. 3 : k = 2 \/ k = 3
      OBVIOUS
    <3> QED BY <3>1, TopFacts, BaseFacts
  <2> HIDE DEF room
  <2> QED BY <2>1, MinIs
<1>5. Take(Top, r) = <<CarriedTo([Top EXCEPT ![1] = c - 1], 2, 3), <<>>>>
  <2>1. Take(Top, r) = IF Top[1] + r[1] <= MaxLimb THEN <<[Top EXCEPT ![1] = Top[1] + r[1]], <<>>>>
                       ELSE IF room # {}
                       THEN <<CarriedTo([Top EXCEPT ![1] = (Top[1] + r[1]) - WrapLB], 2, Min(room)), <<>>>>
                       ELSE <<[Top EXCEPT ![1] = MaxLimb], <<(Top[1] + r[1]) - MaxLimb>>>>
    BY <1>1 DEF Take, TakeSmall
  <2> HIDE DEF room
  <2>2. ~(Top[1] + r[1] <= MaxLimb) /\ (Top[1] + r[1]) - WrapLB = c - 1
    BY <1>0, <1>1, TopFacts, BaseFacts
  <2> QED BY <1>4, <2>1, <2>2
<1> DEFINE l == [Top EXCEPT ![1] = c - 1]
<1>6. l = [k \in 1 .. 3 |-> l[k]] /\ l[1] = c - 1 /\ l[3] = 0
  BY TopFacts
<1>7. Take(Top, r) = <<<<c - 1, 0, 1>>, <<>>>>
  <2> HIDE DEF l
  <2>1. CarriedTo(l, 2, 3) = <<c - 1, 0, 1>>
    BY <1>6, CarriedToTop
  <2> QED BY <1>5, <2>1 DEF l
<1>8. c - 1 + WrapLB * (0 + WrapLB * 1) = Weigh[<<MaxLimb, MaxLimb>>] + Weigh[r]
  BY <1>0, <1>2, TopWeight, BaseFacts
<1>9. c - 1 \in 0 .. MaxLimb /\ 0 \in 0 .. MaxLimb
  BY <1>0, BaseFacts
<1>10. AllGrown(Take(Top, r), <<MaxLimb, MaxLimb>>, r)
  BY <1>7, <1>8, <1>9, ThreeGrown
<1> QED BY <1>3, <1>10 DEF r

LEMMA GrownTwoTwo ==
  ASSUME NEW c \in 0 .. MaxLimb, NEW e \in 1 .. MaxLimb
  PROVE  AllGrown(Grown(<<MaxLimb, MaxLimb>>, <<c, e>>), <<MaxLimb, MaxLimb>>, <<c, e>>)
<1> DEFINE l == Top
<1> DEFINE r == <<c, e>>
<1> DEFINE sums == [k \in DOMAIN l |-> l[k] + (IF k <= Len(r) THEN r[k] ELSE 0)]
<1> DEFINE waries == {1} \cup {k \in 2 .. Len(r) : sums[k] # MaxLimb}
<1> DEFINE wary == Max(waries)
<1> DEFINE room == {k \in (Len(r) + 1) .. Len(l) : l[k] < MaxLimb}
<1> DEFINE added == [k \in DOMAIN l |->
                       (IF k < wary /\ sums[k] >= WrapLB THEN sums[k] - WrapLB ELSE sums[k])
                         + (IF k \in 2 .. wary /\ sums[k - 1] >= WrapLB THEN 1 ELSE 0)]
<1> DEFINE full == [k \in DOMAIN l |-> IF k <= wary THEN MaxLimb ELSE sums[k]]
<1> DEFINE left == [k \in 1 .. wary |-> IF k < wary /\ sums[k] = MaxLimb THEN r[k]
                                        ELSE sums[k] - MaxLimb]
<1>0. c \in Int /\ e \in Int /\ 0 <= c /\ c <= MaxLimb /\ 1 <= e /\ e <= MaxLimb
  BY BaseFacts
<1>1. /\ Len(r) = 2 /\ r[1] = c /\ r[2] = e /\ Len(<<MaxLimb, MaxLimb>>) # 1
      /\ Len(l) = 3 /\ DOMAIN l = 1 .. 3 /\ l[1] = MaxLimb /\ l[2] = MaxLimb /\ l[3] = 0
  BY TopFacts
<1>2. /\ Weigh[r] = c + WrapLB * e
      /\ Weigh[<<MaxLimb, MaxLimb>>] = MaxLimb + WrapLB * MaxLimb
  BY <1>0, WeighTwo, FullTwo
<1> HIDE DEF r
<1>3. Grown(<<MaxLimb, MaxLimb>>, r) = Take(l, r)
  BY <1>1, TopFacts DEF Grown
<1> HIDE DEF l
<1>4. Take(l, r) =
        IF wary = 1
        THEN IF sums[1] < WrapLB THEN <<sums, <<>>>> ELSE <<full, left>>
        ELSE IF sums[wary] < MaxLimb THEN <<added, <<>>>>
        ELSE IF room # {}
        THEN <<CarriedTo([added EXCEPT ![wary] = @ - WrapLB], wary + 1, Min(room)), <<>>>>
        ELSE <<full, Limbs(wary)[Weigh[left]]>>
  <2>1. Len(r) # 1
    BY <1>1
  <2>2. Take(l, r) = TakeLarge(l, r)
    BY <2>1 DEF Take
  <2> QED BY <2>2 DEF TakeLarge
<1>5. sums[1] = MaxLimb + c /\ sums[2] = MaxLimb + e /\ sums[3] = 0
  BY <1>1
<1>6. wary = 2
  <2>1. waries \in SUBSET Int /\ 2 \in waries /\ \A y \in waries : y <= 2
    <3>1. sums[2] # MaxLimb
      <4> HIDE DEF sums
      <4> QED BY <1>0, <1>5, BaseFacts
    <3> HIDE DEF sums
    <3> QED BY <1>1, <3>1
  <2> HIDE DEF waries
  <2> QED BY <2>1, MaxIs
<1> HIDE DEF wary
<1>7. Min(room) = 3 /\ room # {}
  <2>1. room \in SUBSET Int /\ 3 \in room /\ \A y \in room : 3 <= y
    <3>1. 0 < MaxLimb
      BY BaseFacts
    <3> QED BY <1>1, <3>1
  <2> HIDE DEF room
  <2> QED BY <2>1, MinIs
<1>8. Take(l, r) = <<CarriedTo([added EXCEPT ![2] = @ - WrapLB], 3, 3), <<>>>>
  <2>1. ~(sums[2] < MaxLimb)
    <3> HIDE DEF sums
    <3> QED BY <1>0, <1>5, BaseFacts
  <2> HIDE DEF sums, full, left, added, room
  <2> QED BY <1>4, <1>6, <1>7, <2>1
<1> DEFINE low == IF c = 0 THEN MaxLimb ELSE c - 1
<1> DEFINE mid == IF c = 0 THEN e - 1 ELSE e
<1> DEFINE x == [added EXCEPT ![2] = @ - WrapLB]
<1>9. x = [k \in 1 .. 3 |-> x[k]] /\ x[1] = low /\ x[2] = mid /\ x[3] = 0
  <2> HIDE DEF sums
  <2>1. added = [k \in 1 .. 3 |-> added[k]]
    BY <1>1
  <2>2. added[1] = low
    <3>1. 1 \in DOMAIN l /\ 1 < wary /\ ~(1 \in 2 .. wary)
      BY <1>1, <1>6
    <3>2. added[1] = (IF sums[1] >= WrapLB THEN sums[1] - WrapLB ELSE sums[1]) + 0
      BY <3>1
    <3> QED BY <1>0, <1>5, <3>2, BaseFacts
  <2>3. added[2] = mid + WrapLB
    <3>1. 2 \in DOMAIN l /\ ~(2 < wary) /\ 2 \in 2 .. wary /\ 2 - 1 = 1
      BY <1>1, <1>6
    <3>2. added[2] = sums[2] + (IF sums[1] >= WrapLB THEN 1 ELSE 0)
      BY <3>1
    <3> QED BY <1>0, <1>5, <3>2, BaseFacts
  <2>4. added[3] = 0
    <3>1. 3 \in DOMAIN l /\ ~(3 < wary) /\ ~(3 \in 2 .. wary)
      BY <1>1, <1>6
    <3>2. added[3] = sums[3] + 0
      BY <3>1
    <3> QED BY <1>5, <3>2
  <2>5. mid \in Int
    BY <1>0
  <2> HIDE DEF added, low, mid
  <2>6. x = [k \in 1 .. 3 |-> IF k = 2 THEN added[2] - WrapLB ELSE added[k]]
    BY <2>1
  <2>7. added[2] - WrapLB = mid
    BY <2>3, <2>5, BaseFacts
  <2> HIDE DEF x
  <2> QED BY <2>2, <2>4, <2>6, <2>7
<1>10. Take(l, r) = <<<<low, mid, 1>>, <<>>>>
  <2> HIDE DEF x, low, mid, added
  <2>1. CarriedTo(x, 3, 3) = <<low, mid, 1>>
    BY <1>9, CarriedToTop
  <2> QED BY <1>8, <2>1 DEF x
<1>11. low + WrapLB * (mid + WrapLB * 1) = Weigh[<<MaxLimb, MaxLimb>>] + Weigh[r]
  <2>1. WrapLB * (mid + WrapLB * 1) = WrapLB * mid + WrapLB * (0 + WrapLB * 1)
    <3>1. mid \in Int
      BY <1>0
    <3> HIDE DEF mid
    <3> QED BY <3>1, BaseFacts
  <2>2. CASE c = 0
    <3>1. WrapLB * (e - 1) = WrapLB * e - WrapLB /\ WrapLB * e \in Int
      BY <1>0, BaseFacts
    <3> QED BY <1>0, <1>2, <2>1, <2>2, <3>1, TopWeight, BaseFacts
  <2>3. CASE c # 0
    <3>1. WrapLB * e \in Int
      BY <1>0, BaseFacts
    <3> QED BY <1>0, <1>2, <2>1, <2>3, <3>1, TopWeight, BaseFacts
  <2> QED BY <2>2, <2>3
<1>12. low \in 0 .. MaxLimb /\ mid \in 0 .. MaxLimb
  BY <1>0, BaseFacts
<1>13. AllGrown(Take(l, r), <<MaxLimb, MaxLimb>>, r)
  <2> HIDE DEF low, mid
  <2> QED BY <1>10, <1>11, <1>12, ThreeGrown
<1> QED BY <1>3, <1>13 DEF r

\* Full says which: one limb or two.
LEMMA FullIs ==
  ASSUME NEW x \in ShortLimbs, x = Full(x)
  PROVE  \/ x = <<MaxLimb>> /\ x \in OneLimb
         \/ x = <<MaxLimb, MaxLimb>> /\ x \in TwoLimbs
<1>1. CASE x \in OneLimb
  BY <1>1, FullOne
<1>2. CASE x \in TwoLimbs
  BY <1>2, FullTwo
<1> QED BY <1>1, <1>2 DEF ShortLimbs

LEMMA GrownFull ==
  ASSUME NEW x \in ShortLimbs, x = Full(x), NEW y \in ShortLimbs, Len(y) <= Len(x)
  PROVE  AllGrown(Grown(x, y), x, y)
<1>1. CASE x = <<MaxLimb>> /\ x \in OneLimb
  <2>1. y \in OneLimb
    <3>1. Len(x) = 1 /\ (Len(y) = 1 \/ Len(y) = 2)
      BY <1>1, ShortLength
    <3>2. Len(y) # 2
      BY <3>1
    <3> QED BY <3>1, <3>2, ShortLength
  <2> QED BY <1>1, <2>1, GrownOne DEF OneLimb
<1>2. CASE x = <<MaxLimb, MaxLimb>> /\ y \in OneLimb
  BY <1>2, GrownTwoOne DEF OneLimb
<1>3. CASE x = <<MaxLimb, MaxLimb>> /\ y \in TwoLimbs
  BY <1>3, GrownTwoTwo DEF TwoLimbs
<1> QED BY <1>1, <1>2, <1>3, FullIs DEF ShortLimbs

LEMMA FullIsHeaviest ==
  ASSUME NEW x \in ShortLimbs, x = Full(x), NEW y \in ShortLimbs, Len(y) <= Len(x)
  PROVE  Weigh[y] <= Weigh[x]
<1>1. CASE y \in OneLimb /\ x \in OneLimb
  <2>1. PICK c \in 1 .. MaxLimb : y = <<c>> /\ Weigh[y] = c
    BY <1>1, ShortWeights
  <2>2. Weigh[x] = MaxLimb
    BY <1>1, FullOne
  <2> QED BY <2>1, <2>2, BaseFacts
<1>2. CASE y \in OneLimb /\ x \in TwoLimbs
  <2>1. Weigh[y] < Weigh[x] /\ Weigh[x] \in Int /\ Weigh[y] \in Int
    BY <1>2, LongerIsHeavier, ShortWeight
  <2> QED BY <2>1
<1>3. CASE y \in TwoLimbs /\ x \in TwoLimbs
  <2>1. PICK c \in 0 .. MaxLimb, e \in 1 .. MaxLimb : y = <<c, e>> /\ Weigh[y] = c + WrapLB * e
    BY <1>3, ShortWeights
  <2>2. Weigh[x] = MaxLimb + WrapLB * MaxLimb
    BY <1>3, FullTwo
  <2>3. c \in Int /\ e \in Int /\ c <= MaxLimb /\ e <= MaxLimb
    BY BaseFacts
  <2>4. WrapLB * (MaxLimb - e) >= 0
    BY <2>3, BaseFacts
  <2>5. WrapLB * (MaxLimb - e) = WrapLB * MaxLimb - WrapLB * e
    BY <2>3, BaseFacts
  <2>6. WrapLB * MaxLimb \in Int /\ WrapLB * e \in Int
    BY <2>3, BaseFacts
  <2> QED BY <2>1, <2>2, <2>3, <2>4, <2>5, <2>6, BaseFacts
<1>4. ~(y \in TwoLimbs /\ x \in OneLimb)
  <2> SUFFICES ASSUME y \in TwoLimbs, x \in OneLimb PROVE FALSE
    OBVIOUS
  <2>1. Len(y) = 2 /\ Len(x) = 1
    BY ShortLength
  <2> QED BY <2>1
<1> QED BY <1>1, <1>2, <1>3, <1>4 DEF ShortLimbs

-----------------------------------------------------------------------------
(* Numerals.                                                               *)

Signs == {-1, 1}

ShortNumerals == [sign : Signs, limbs : ShortLimbs]
LongerNumerals == [sign : Signs, limbs : ShortLimbs \cup ThreeLimbs]
WholeNumerals == LongerNumerals \cup {Zero}

LEMMA WeighsInt ==
  ASSUME NEW l \in ShortLimbs \cup ThreeLimbs \cup {<<>>}
  PROVE  Weigh[l] \in Int /\ (l \in ShortLimbs \cup ThreeLimbs => l # <<>>)
<1>1. CASE l \in ShortLimbs
  BY <1>1, ShortWeight
<1>2. CASE l \in ThreeLimbs
  <2>1. PICK a \in 0 .. MaxLimb, b \in 0 .. MaxLimb, c \in 1 .. MaxLimb : l = <<a, b, c>>
    BY <1>2 DEF ThreeLimbs
  <2>2. a \in Int /\ b \in Int /\ c \in Int
    BY BaseFacts
  <2>3. Weigh[l] = a + WrapLB * (b + WrapLB * c)
    BY <2>1, <2>2, WeighThree
  <2>4. b + WrapLB * c \in Int
    BY <2>2, BaseFacts
  <2>5. WrapLB * (b + WrapLB * c) \in Int
    BY <2>4, BaseFacts
  <2>6. l # <<>>
    BY <2>1
  <2> QED BY <2>2, <2>3, <2>5, <2>6
<1>3. CASE l = <<>>
  <2>1. <<>> \notin ShortLimbs
    BY ShortWeight
  <2>2. <<>> \notin ThreeLimbs
    BY DEF ThreeLimbs
  <2> QED BY <1>3, <2>1, <2>2, WeighNone
<1> QED BY <1>1, <1>2, <1>3

LEMMA ProperLimbs ==
  ASSUME NEW l \in ShortLimbs \cup ThreeLimbs
  PROVE  /\ \A k \in DOMAIN l : l[k] \in 0 .. MaxLimb
         /\ l # <<>> /\ Last(l) # 0
<1>0. 1 .. MaxLimb \subseteq 0 .. MaxLimb /\ 0 \notin 1 .. MaxLimb
  BY BaseFacts
<1>1. CASE l \in OneLimb
  <2>1. PICK a \in 1 .. MaxLimb : l = <<a>>
    BY <1>1 DEF OneLimb
  <2>2. DOMAIN l = 1 .. 1 /\ l[1] = a /\ l # <<>> /\ Last(l) = a
    BY <2>1 DEF Last
  <2> QED BY <1>0, <2>2
<1>2. CASE l \in TwoLimbs
  <2>1. PICK a \in 0 .. MaxLimb, b \in 1 .. MaxLimb : l = <<a, b>>
    BY <1>2 DEF TwoLimbs
  <2>2. DOMAIN l = 1 .. 2 /\ l[1] = a /\ l[2] = b /\ l # <<>> /\ Last(l) = b
    BY <2>1 DEF Last
  <2> QED BY <1>0, <2>2
<1>3. CASE l \in ThreeLimbs
  <2>1. PICK a \in 0 .. MaxLimb, b \in 0 .. MaxLimb, c \in 1 .. MaxLimb : l = <<a, b, c>>
    BY <1>3 DEF ThreeLimbs
  <2>2. DOMAIN l = 1 .. 3 /\ l[1] = a /\ l[2] = b /\ l[3] = c /\ l # <<>> /\ Last(l) = c
    BY <2>1 DEF Last
  <2> QED BY <1>0, <2>2
<1> QED BY <1>1, <1>2, <1>3 DEF ShortLimbs

LEMMA ProperNumerals ==
  ASSUME NEW x \in WholeNumerals
  PROVE  IsProper(x) /\ WastesNone(x)
<1>1. CASE x \in LongerNumerals
  <2>1. x.sign # 0 /\ x.limbs \in ShortLimbs \cup ThreeLimbs
    BY <1>1 DEF LongerNumerals, Signs
  <2> QED BY <2>1, ProperLimbs DEF IsProper, WastesNone
<1>2. CASE x = Zero
  BY <1>2 DEF Zero, IsProper, WastesNone
<1> QED BY <1>1, <1>2 DEF WholeNumerals

LEMMA NumeralFacts ==
  ASSUME NEW s \in Signs, NEW l \in ShortLimbs \cup ThreeLimbs \cup {<<>>}
  PROVE  /\ l = <<>> => Numeral(s, l) = Zero
         /\ l # <<>> => /\ Numeral(s, l) = [sign |-> s, limbs |-> l]
                        /\ Numeral(s, l) \in LongerNumerals
                        /\ Numeral(s, l).sign = s /\ ~IsZero(Numeral(s, l))
                        /\ l \in ShortLimbs => Numeral(s, l) \in ShortNumerals
         /\ Value(Numeral(s, l)) = IF s = 1 THEN Weigh[l] ELSE 0 - Weigh[l]
<1>1. CASE l = <<>>
  <2>1. Numeral(s, l) = Zero
    BY <1>1 DEF Numeral
  <2>2. Value(Zero) = 0 * 0
    BY WeighNone DEF Value, Zero
  <2> QED BY <1>1, <2>1, <2>2, WeighNone
<1>2. CASE l # <<>>
  <2> DEFINE x == [sign |-> s, limbs |-> l]
  <2>1. Numeral(s, l) = x
    BY <1>2 DEF Numeral
  <2>2. x.sign = s /\ x.limbs = l /\ s # 0
    BY DEF Signs
  <2>3. x \in LongerNumerals /\ (l \in ShortLimbs => x \in ShortNumerals)
    BY <1>2 DEF LongerNumerals, ShortNumerals
  <2>4. Value(x) = IF s = 1 THEN Weigh[l] ELSE 0 - Weigh[l]
    <3>1. Value(x) = s * Weigh[l]
      BY DEF Value
    <3>2. Weigh[l] \in Int
      BY WeighsInt
    <3> HIDE DEF x
    <3>3. CASE s = 1
      BY <3>1, <3>2, <3>3
    <3>4. CASE s = -1
      BY <3>1, <3>2, <3>4
    <3> QED BY <3>3, <3>4 DEF Signs
  <2> HIDE DEF x
  <2>5. ~IsZero(x)
    BY <2>2 DEF IsZero
  <2> QED BY <1>2, <2>1, <2>2, <2>3, <2>4, <2>5 DEF x
<1> QED BY <1>1, <1>2

LEMMA ShortNumeralFacts ==
  ASSUME NEW x \in ShortNumerals
  PROVE  /\ x.sign \in Signs /\ x.limbs \in ShortLimbs /\ ~IsZero(x)
         /\ x = Numeral(x.sign, x.limbs) /\ x # Zero
         /\ Value(x) = IF x.sign = 1 THEN Weigh[x.limbs] ELSE 0 - Weigh[x.limbs]
         /\ x \in LongerNumerals
<1>1. x.sign \in Signs /\ x.limbs \in ShortLimbs /\ x = [sign |-> x.sign, limbs |-> x.limbs]
  BY DEF ShortNumerals
<1>2. x.limbs # <<>>
  BY <1>1, ShortWeight
<1>3. x = Numeral(x.sign, x.limbs)
  BY <1>1, <1>2 DEF Numeral
<1>4. x.sign # 0 /\ Zero.sign = 0
  BY <1>1 DEF Signs, Zero
<1>5. x # Zero /\ ~IsZero(x)
  BY <1>4 DEF IsZero
<1>6. Value(x) = IF x.sign = 1 THEN Weigh[x.limbs] ELSE 0 - Weigh[x.limbs]
  BY <1>1, <1>3, NumeralFacts
<1>7. x \in LongerNumerals
  BY <1>1 DEF LongerNumerals
<1> QED BY <1>1, <1>3, <1>5, <1>6, <1>7

LEMMA ValuesInt ==
  ASSUME NEW x \in WholeNumerals
  PROVE  Value(x) \in Int /\ (IsZero(x) <=> x = Zero)
<1>1. CASE x \in LongerNumerals
  <2>1. /\ x.sign \in Signs /\ x.limbs \in ShortLimbs \cup ThreeLimbs
        /\ x = [sign |-> x.sign, limbs |-> x.limbs]
    BY <1>1 DEF LongerNumerals
  <2>2. x.limbs # <<>> /\ Weigh[x.limbs] \in Int
    BY <2>1, WeighsInt
  <2>3. x = Numeral(x.sign, x.limbs)
    BY <2>1, <2>2 DEF Numeral
  <2>4. Value(x) = IF x.sign = 1 THEN Weigh[x.limbs] ELSE 0 - Weigh[x.limbs]
    BY <2>1, <2>3, NumeralFacts
  <2>5. x # Zero /\ ~IsZero(x)
    BY <2>1 DEF Signs, Zero, IsZero
  <2> QED BY <2>2, <2>4, <2>5
<1>2. CASE x = Zero
  <2>1. Value(Zero) = 0 * 0
    BY WeighNone DEF Value, Zero
  <2>2. IsZero(Zero)
    BY DEF IsZero, Zero
  <2> QED BY <1>2, <2>1, <2>2
<1> QED BY <1>1, <1>2 DEF WholeNumerals

\* Two of opposite signs: at most one is left, and keeps its sign.
LEMMA DifferenceFlipped ==
  ASSUME NEW a \in Int, NEW b \in Int, NEW c \in Int, NEW d \in Int, a - b = c - d
  PROVE  (0 - a) + b = (0 - c) + d
OBVIOUS

LEMMA RearrangedDiffer ==
  ASSUME NEW x \in ShortNumerals, NEW y \in ShortNumerals, x.sign # y.sign
  PROVE  LET p == RearrangeSum(x, y)
         IN  /\ p = <<p[1], p[2]>>
             /\ p[1] = Zero \/ p[2] = Zero
             /\ p[1] \in {Zero} \cup {z \in ShortNumerals : z.sign = x.sign}
             /\ p[2] \in {Zero} \cup {z \in ShortNumerals : z.sign = y.sign}
             /\ Value(p[1]) + Value(p[2]) = Value(x) + Value(y)
<1> DEFINE q == Cancelled(x.limbs, y.limbs)
<1> DEFINE p == RearrangeSum(x, y)
<1>1. /\ x.sign \in Signs /\ x.limbs \in ShortLimbs /\ ~IsZero(x)
      /\ Value(x) = IF x.sign = 1 THEN Weigh[x.limbs] ELSE 0 - Weigh[x.limbs]
  BY ShortNumeralFacts
<1>2. /\ y.sign \in Signs /\ y.limbs \in ShortLimbs /\ ~IsZero(y)
      /\ Value(y) = IF y.sign = 1 THEN Weigh[y.limbs] ELSE 0 - Weigh[y.limbs]
  BY ShortNumeralFacts
<1>3. /\ q[1] = <<>> \/ q[2] = <<>>
      /\ q[1] \in ShortLimbs \cup {<<>>} /\ q[2] \in ShortLimbs \cup {<<>>}
      /\ Weigh[q[1]] \in Int /\ Weigh[q[2]] \in Int
      /\ Weigh[q[1]] - Weigh[q[2]] = Weigh[x.limbs] - Weigh[y.limbs]
  BY <1>1, <1>2, CancelledShort
<1>4. p = <<Numeral(x.sign, q[1]), Numeral(y.sign, q[2])>>
  BY <1>1, <1>2 DEF RearrangeSum
<1>5. p = <<p[1], p[2]>> /\ p[1] = Numeral(x.sign, q[1]) /\ p[2] = Numeral(y.sign, q[2])
  BY <1>4
<1> HIDE DEF p, q
<1>6. /\ q[1] \in ShortLimbs \cup ThreeLimbs \cup {<<>>}
      /\ q[2] \in ShortLimbs \cup ThreeLimbs \cup {<<>>}
  BY <1>3
<1>7. /\ q[1] = <<>> => p[1] = Zero
      /\ q[1] # <<>> => p[1] \in ShortNumerals /\ p[1].sign = x.sign
      /\ Value(p[1]) = IF x.sign = 1 THEN Weigh[q[1]] ELSE 0 - Weigh[q[1]]
  BY <1>1, <1>3, <1>5, <1>6, NumeralFacts
<1>8. /\ q[2] = <<>> => p[2] = Zero
      /\ q[2] # <<>> => p[2] \in ShortNumerals /\ p[2].sign = y.sign
      /\ Value(p[2]) = IF y.sign = 1 THEN Weigh[q[2]] ELSE 0 - Weigh[q[2]]
  BY <1>2, <1>3, <1>5, <1>6, NumeralFacts
<1>9. Value(p[1]) + Value(p[2]) = Value(x) + Value(y)
  <2>1. Weigh[x.limbs] \in Int /\ Weigh[y.limbs] \in Int
    BY <1>1, <1>2, ShortWeight
  <2>2. CASE x.sign = 1 /\ y.sign = -1
    <3>1. /\ Value(x) = Weigh[x.limbs] /\ Value(y) = 0 - Weigh[y.limbs]
          /\ Value(p[1]) = Weigh[q[1]] /\ Value(p[2]) = 0 - Weigh[q[2]]
      BY <1>1, <1>2, <1>7, <1>8, <2>2
    <3> QED BY <1>3, <2>1, <3>1
  <2>3. CASE x.sign = -1 /\ y.sign = 1
    <3>1. x.sign # 1
      BY <2>3
    <3>2. /\ Value(x) = 0 - Weigh[x.limbs] /\ Value(y) = Weigh[y.limbs]
          /\ Value(p[1]) = 0 - Weigh[q[1]] /\ Value(p[2]) = Weigh[q[2]]
      BY <1>1, <1>2, <1>7, <1>8, <2>3, <3>1
    <3>3. /\ Weigh[q[1]] \in Int /\ Weigh[q[2]] \in Int
          /\ Weigh[q[1]] - Weigh[q[2]] = Weigh[x.limbs] - Weigh[y.limbs]
      BY <1>3
    <3>4. (0 - Weigh[q[1]]) + Weigh[q[2]] = (0 - Weigh[x.limbs]) + Weigh[y.limbs]
      BY <2>1, <3>3, DifferenceFlipped
    <3> QED BY <3>2, <3>4
  <2> QED BY <1>1, <1>2, <2>2, <2>3 DEF Signs
<1>10. /\ p[1] = Zero \/ p[2] = Zero
       /\ p[1] \in {Zero} \cup {z \in ShortNumerals : z.sign = x.sign}
       /\ p[2] \in {Zero} \cup {z \in ShortNumerals : z.sign = y.sign}
  BY <1>3, <1>7, <1>8
<1> QED BY <1>5, <1>9, <1>10 DEF p

\* What a sum makes of x and y, of which a lower limb may have been exactly full.
Summed(p, x, y) ==
  \/ Value(p[1]) + Value(p[2]) = Value(x) + Value(y)
  \/ LowExactlyFull(x.limbs, y.limbs)

\* Two of one sign: where both are left, one is full.
OverflowOf(p, s) ==
  /\ p[1] \in ShortNumerals /\ p[1].sign = s
  /\ p[2] \in ShortNumerals /\ p[2].sign = s
  /\ \/ p[1].limbs = Full(p[1].limbs) /\ Len(p[2].limbs) <= Len(p[1].limbs)
     \/ p[2].limbs = Full(p[2].limbs) /\ Len(p[1].limbs) <= Len(p[2].limbs)

SumIn(p, s) ==
  \/ p[1] = Zero /\ p[2] \in LongerNumerals /\ p[2].sign = s
  \/ p[2] = Zero /\ p[1] \in LongerNumerals /\ p[1].sign = s

LEMMA RearrangedAlike ==
  ASSUME NEW x \in ShortNumerals, NEW y \in ShortNumerals, x.sign = y.sign
  PROVE  LET p == RearrangeSum(x, y)
         IN  /\ p = <<p[1], p[2]>>
             /\ OverflowOf(p, x.sign) \/ SumIn(p, x.sign)
             /\ Summed(p, x, y)
<1> DEFINE q == Condensed(x.sign, x.limbs, y.limbs)
<1> DEFINE p == RearrangeSum(x, y)
<1>1. /\ x.sign \in Signs /\ x.limbs \in ShortLimbs /\ ~IsZero(x)
      /\ Value(x) = IF x.sign = 1 THEN Weigh[x.limbs] ELSE 0 - Weigh[x.limbs]
  BY ShortNumeralFacts
<1>2. /\ y.sign \in Signs /\ y.limbs \in ShortLimbs /\ ~IsZero(y)
      /\ Value(y) = IF y.sign = 1 THEN Weigh[y.limbs] ELSE 0 - Weigh[y.limbs]
  BY ShortNumeralFacts
<1>3. Left(q, x.limbs, y.limbs)
  <2>1. x.sign \in {-1, 1}
    BY <1>1 DEF Signs
  <2> QED BY <1>1, <1>2, <2>1, CondensedShort
<1>4. p = <<Numeral(x.sign, q[1]), Numeral(y.sign, q[2])>>
  BY <1>1, <1>2 DEF RearrangeSum
<1>5. p = <<p[1], p[2]>> /\ p[1] = Numeral(x.sign, q[1]) /\ p[2] = Numeral(x.sign, q[2])
  BY <1>4
<1> HIDE DEF p, q
<1>6. /\ q[1] \in ShortLimbs \cup {<<>>} /\ q[2] \in ShortLimbs \cup {<<>>}
      /\ q[1] # <<>> \/ q[2] # <<>>
  BY <1>3 DEF Left
<1>7. /\ q[1] = <<>> => p[1] = Zero
      /\ q[1] # <<>> => /\ p[1] \in ShortNumerals /\ p[1].sign = x.sign
                        /\ p[1] = [sign |-> x.sign, limbs |-> q[1]]
      /\ Value(p[1]) = IF x.sign = 1 THEN Weigh[q[1]] ELSE 0 - Weigh[q[1]]
      /\ Weigh[q[1]] \in Int
  <2>1. q[1] \in ShortLimbs \cup ThreeLimbs \cup {<<>>}
    BY <1>6
  <2> QED BY <1>1, <1>5, <1>6, <2>1, NumeralFacts, WeighsInt
<1>8. /\ q[2] = <<>> => p[2] = Zero
      /\ q[2] # <<>> => /\ p[2] \in ShortNumerals /\ p[2].sign = x.sign
                        /\ p[2] = [sign |-> x.sign, limbs |-> q[2]]
      /\ Value(p[2]) = IF x.sign = 1 THEN Weigh[q[2]] ELSE 0 - Weigh[q[2]]
      /\ Weigh[q[2]] \in Int
  <2>1. q[2] \in ShortLimbs \cup ThreeLimbs \cup {<<>>}
    BY <1>6
  <2> QED BY <1>1, <1>5, <1>6, <2>1, NumeralFacts, WeighsInt
<1>9. Summed(p, x, y)
  <2>1. Weigh[x.limbs] \in Int /\ Weigh[y.limbs] \in Int
    BY <1>1, <1>2, ShortWeight
  <2>2. CASE Weigh[q[1]] + Weigh[q[2]] = Weigh[x.limbs] + Weigh[y.limbs]
    <3>1. Value(p[1]) + Value(p[2]) = Value(x) + Value(y)
      <4>1. CASE x.sign = 1
        BY <1>1, <1>2, <1>7, <1>8, <2>1, <2>2, <4>1
      <4>2. CASE x.sign # 1
        <5>1. /\ Value(x) = 0 - Weigh[x.limbs] /\ Value(y) = 0 - Weigh[y.limbs]
              /\ Value(p[1]) = 0 - Weigh[q[1]] /\ Value(p[2]) = 0 - Weigh[q[2]]
          BY <1>1, <1>2, <1>7, <1>8, <4>2
        <5>2. Weigh[q[1]] \in Int /\ Weigh[q[2]] \in Int
          BY <1>7, <1>8
        <5>3. (0 - Weigh[q[1]]) + (0 - Weigh[q[2]]) = (0 - Weigh[x.limbs]) + (0 - Weigh[y.limbs])
          BY <2>1, <2>2, <5>2
        <5> QED BY <5>1, <5>3
      <4> QED BY <4>1, <4>2
    <3> QED BY <3>1 DEF Summed
  <2>3. CASE LowExactlyFull(x.limbs, y.limbs)
    BY <2>3 DEF Summed
  <2> QED BY <1>3, <2>2, <2>3 DEF Left
<1>10. OverflowOf(p, x.sign) \/ SumIn(p, x.sign)
  <2>1. CASE q[1] # <<>> /\ q[2] # <<>>
    <3>1. p[1].limbs = q[1] /\ p[2].limbs = q[2]
      BY <1>7, <1>8, <2>1
    <3>2. \/ q[1] = Full(q[1]) /\ Len(q[2]) <= Len(q[1])
          \/ q[2] = Full(q[2]) /\ Len(q[1]) <= Len(q[2])
      BY <1>3, <2>1 DEF Left
    <3> QED BY <1>7, <1>8, <2>1, <3>1, <3>2 DEF OverflowOf
  <2>2. CASE q[1] = <<>>
    BY <1>6, <1>7, <1>8, <2>2, ShortNumeralFacts DEF SumIn
  <2>3. CASE q[2] = <<>>
    BY <1>6, <1>7, <1>8, <2>3, ShortNumeralFacts DEF SumIn
  <2> QED BY <2>1, <2>2, <2>3
<1> QED BY <1>5, <1>9, <1>10 DEF p

\* The larger of an overflow is the full one, or its equal.
LEMMA GrownOverflow ==
  ASSUME NEW s \in Signs, NEW l \in ShortLimbs, NEW r \in ShortLimbs,
         \/ l = Full(l) /\ Len(r) <= Len(l)
         \/ r = Full(r) /\ Len(l) <= Len(r)
  PROVE  IF IsLarger(s, l, r) THEN AllGrown(Grown(l, r), l, r)
                              ELSE AllGrown(Grown(r, l), r, l)
<1>0. Weigh[l] \in Int /\ Weigh[r] \in Int
  BY ShortWeight
<1>1. CASE l = Full(l) /\ Len(r) <= Len(l)
  <2>1. AllGrown(Grown(l, r), l, r) /\ Weigh[r] <= Weigh[l]
    BY <1>1, GrownFull, FullIsHeaviest
  <2>2. ~IsLarger(s, l, r) => l = r
    <3>1. ~IsLarger(s, l, r) => Weigh[l] = Weigh[r]
      BY <1>0, <2>1 DEF IsLarger
    <3> QED BY <3>1, WeighsApart
  <2> QED BY <2>1, <2>2
<1>2. CASE r = Full(r) /\ Len(l) <= Len(r)
  <2>1. AllGrown(Grown(r, l), r, l) /\ Weigh[l] <= Weigh[r]
    BY <1>2, GrownFull, FullIsHeaviest
  <2>2. IsLarger(s, l, r) => l = r
    <3>1. IsLarger(s, l, r) => Weigh[l] = Weigh[r]
      BY <1>0, <2>1 DEF IsLarger
    <3> QED BY <3>1, WeighsApart
  <2> QED BY <2>1, <2>2
<1> QED BY <1>1, <1>2

LEMMA ForcedShort ==
  ASSUME NEW x \in ShortNumerals, NEW y \in ShortNumerals, x.sign = y.sign,
         NEW memory \in BOOLEAN
  PROVE  LET f == Forced(RearrangeSum(x, y), memory)
         IN  /\ f.sums \in BOOLEAN
             /\ f.sums => SumIn(f.pair, x.sign)
             /\ ~f.sums => OverflowOf(f.pair, x.sign)
             /\ Summed(f.pair, x, y)
<1> DEFINE p == RearrangeSum(x, y)
<1> DEFINE f == Forced(p, memory)
<1>1. p = <<p[1], p[2]>> /\ (OverflowOf(p, x.sign) \/ SumIn(p, x.sign)) /\ Summed(p, x, y)
  BY RearrangedAlike
<1>0. x.sign \in Signs
  BY ShortNumeralFacts
<1> HIDE DEF p
<1>2. CASE SumIn(p, x.sign)
  <2>1. IsZero(p[1]) \/ IsZero(p[2])
    BY <1>2 DEF SumIn, IsZero, Zero
  <2>2. f = [sums |-> TRUE, pair |-> p]
    BY <2>1 DEF Forced
  <2> QED BY <1>1, <1>2, <2>2 DEF p
<1>3. CASE OverflowOf(p, x.sign)
  <2>1. ~(IsZero(p[1]) \/ IsZero(p[2]))
    BY <1>3, ShortNumeralFacts DEF OverflowOf
  <2>2. CASE ~memory
    <3>1. f = [sums |-> FALSE, pair |-> p]
      BY <2>1, <2>2 DEF Forced
    <3> QED BY <1>1, <1>3, <3>1 DEF p
  <2>3. CASE memory
    <3> DEFINE s == p[1].sign
    <3> DEFINE l == p[1].limbs
    <3> DEFINE r == p[2].limbs
    <3> DEFINE q == IF IsLarger(s, l, r) THEN Grown(l, r) ELSE Swap(Grown(r, l))
    <3> DEFINE u == <<Numeral(s, q[1]), Numeral(s, q[2])>>
    <3>1. f = [sums |-> TRUE, pair |-> u]
      BY <2>1, <2>3 DEF Forced
    <3>2. /\ s = x.sign /\ l \in ShortLimbs /\ r \in ShortLimbs
          /\ p[1] \in ShortNumerals /\ p[2] \in ShortNumerals /\ p[2].sign = s
          /\ \/ l = Full(l) /\ Len(r) <= Len(l)
             \/ r = Full(r) /\ Len(l) <= Len(r)
      BY <1>3, ShortNumeralFacts DEF OverflowOf
    <3>3. /\ Value(p[1]) = IF s = 1 THEN Weigh[l] ELSE 0 - Weigh[l]
          /\ Value(p[2]) = IF s = 1 THEN Weigh[r] ELSE 0 - Weigh[r]
      BY <3>2, ShortNumeralFacts
    <3>4. Weigh[l] \in Int /\ Weigh[r] \in Int
      BY <3>2, ShortWeight
    <3> HIDE DEF s, l, r
    <3>5. PICK z \in ShortLimbs \cup ThreeLimbs :
            /\ q = <<z, <<>>>> \/ q = <<<<>>, z>>
            /\ Weigh[z] = Weigh[l] + Weigh[r]
      <4>1. CASE IsLarger(s, l, r)
        <5>1. AllGrown(Grown(l, r), l, r)
          BY <1>0, <3>2, <4>1, GrownOverflow
        <5> QED BY <4>1, <5>1 DEF AllGrown
      <4>2. CASE ~IsLarger(s, l, r)
        <5>1. AllGrown(Grown(r, l), r, l)
          BY <1>0, <3>2, <4>2, GrownOverflow
        <5> DEFINE g == Grown(r, l)
        <5>2. g = <<g[1], <<>>>> /\ g[1] \in ShortLimbs \cup ThreeLimbs /\ Weigh[g[1]] = Weigh[r] + Weigh[l]
          BY <5>1 DEF AllGrown
        <5>3. q = Swap(g)
          BY <4>2
        <5> HIDE DEF g, q
        <5>4. q = <<<<>>, g[1]>>
          BY <5>2, <5>3 DEF Swap
        <5> QED BY <3>4, <5>2, <5>4
      <4> QED BY <4>1, <4>2
    <3> HIDE DEF q
    <3>6. z # <<>> /\ Weigh[z] \in Int
      BY WeighsInt
    <3>7. /\ Numeral(s, z) \in LongerNumerals /\ Numeral(s, z).sign = s
          /\ Value(Numeral(s, z)) = IF s = 1 THEN Weigh[z] ELSE 0 - Weigh[z]
          /\ Numeral(s, <<>>) = Zero
      BY <1>0, <3>2, <3>6, NumeralFacts
    <3>8. Value(Zero) = 0
      <4>1. Value(Zero) = 0 * 0
        BY WeighNone DEF Value, Zero
      <4> QED BY <4>1
    <3>9. \/ u[1] = Numeral(s, z) /\ u[2] = Zero
          \/ u[2] = Numeral(s, z) /\ u[1] = Zero
      BY <3>5, <3>7
    <3> HIDE DEF u
    <3>10. SumIn(u, x.sign)
      BY <3>2, <3>7, <3>9 DEF SumIn
    <3>11. Value(u[1]) + Value(u[2]) = Value(p[1]) + Value(p[2])
      <4>1. CASE s = 1
        BY <3>3, <3>4, <3>5, <3>6, <3>7, <3>8, <3>9, <4>1
      <4>2. CASE s # 1
        BY <3>3, <3>4, <3>5, <3>6, <3>7, <3>8, <3>9, <4>2
      <4> QED BY <4>1, <4>2
    <3>12. Summed(u, x, y)
      BY <1>1, <3>11 DEF Summed
    <3> QED BY <3>1, <3>10, <3>12 DEF p
  <2> QED BY <2>2, <2>3
<1> QED BY <1>1, <1>2, <1>3

\* The exactly full limb of a pair, as SumKept names it.
LEMMA SaidExactlyFull ==
  ASSUME NEW x \in ShortNumerals, NEW y \in ShortNumerals, LowExactlyFull(x.limbs, y.limbs)
  PROVE  ExactlyFull(x, y)
<1> DEFINE l == x.limbs
<1> DEFINE r == y.limbs
<1>1. l \in TwoLimbs /\ r \in TwoLimbs /\ l[1] + r[1] = MaxLimb /\ l[2] + r[2] > MaxLimb
  BY DEF LowExactlyFull
<1> HIDE DEF l, r
<1>2. PICK a \in 0 .. MaxLimb, b \in 1 .. MaxLimb : l = <<a, b>> /\ Weigh[l] = a + WrapLB * b
  BY <1>1, ShortWeights
<1>3. PICK c \in 0 .. MaxLimb, e \in 1 .. MaxLimb : r = <<c, e>> /\ Weigh[r] = c + WrapLB * e
  BY <1>1, ShortWeights
<1>4. a \in Int /\ b \in Int /\ c \in Int /\ e \in Int /\ a + c = MaxLimb /\ b + e >= MaxLimb + 1
  BY <1>1, <1>2, <1>3, BaseFacts
<1>5. Len(l) = 2 /\ Len(r) = 2
  BY <1>2, <1>3
<1>6. Min({Len(l), Len(r)}) = 2 /\ Max({Len(l), Len(r)}) = 2
  <2>1. {Len(l), Len(r)} = {2}
    BY <1>5
  <2>2. Min({2}) = 2 /\ Max({2}) = 2
    BY MinIs, MaxIs
  <2> QED BY <2>1, <2>2
<1>7. Weigh[[k \in 1 .. 2 |-> MaxLimb]] = MaxLimb + WrapLB * MaxLimb
  <2> DEFINE t == [k \in 1 .. 2 |-> MaxLimb]
  <2>1. t = [k \in 1 .. 2 |-> t[k]] /\ t[1] = MaxLimb /\ t[2] = MaxLimb
    OBVIOUS
  <2> HIDE DEF t
  <2>2. t = <<MaxLimb, MaxLimb>>
    BY <2>1, PairIs
  <2>3. Weigh[t] = MaxLimb + WrapLB * MaxLimb
    BY <2>2, FullTwo
  <2> QED BY <2>3 DEF t
<1>8. Weigh[l] + Weigh[r] > MaxLimb + WrapLB * MaxLimb
  <2>1. WrapLB * (b + e) = WrapLB * b + WrapLB * e /\ WrapLB * b \in Int /\ WrapLB * e \in Int
    BY <1>4, BaseFacts
  <2>2. WrapLB * (b + e - MaxLimb) > 0
    BY <1>4, BaseFacts
  <2>3. WrapLB * (b + e - MaxLimb) = WrapLB * (b + e) - WrapLB * MaxLimb /\ WrapLB * MaxLimb \in Int
    BY <1>4, BaseFacts
  <2> QED BY <1>2, <1>3, <1>4, <2>1, <2>2, <2>3, BaseFacts
<1>9. 1 \in 1 .. (2 - 1) /\ l[1] + r[1] = MaxLimb
  BY <1>1
<1> QED BY <1>6, <1>7, <1>8, <1>9 DEF ExactlyFull, l, r

-----------------------------------------------------------------------------
(* Blocks of up to three.                                                  *)

LEMMA RemovedAt ==
  ASSUME NEW S, NEW s \in Seq(S), NEW n \in 1 .. Len(s)
  PROVE  LET q == RemoveAt(s, n)
         IN  /\ q = [k \in 1 .. (Len(s) - 1) |-> q[k]]
             /\ \A k \in 1 .. (Len(s) - 1) : q[k] = IF k < n THEN s[k] ELSE s[k + 1]
<1> DEFINE t == SubSeq(s, 1, n - 1)
<1> DEFINE u == SubSeq(s, n + 1, Len(s))
<1> DEFINE q == RemoveAt(s, n)
<1>0. Len(s) \in Nat /\ n \in Int /\ \A k \in 1 .. Len(s) : s[k] \in S
  OBVIOUS
<1>1. t \in Seq(S) /\ Len(t) = n - 1 /\ \A k \in 1 .. n - 1 : t[k] = s[k]
  <2>1. \A k \in 1 .. n - 1 : s[k] \in S
    BY <1>0
  <2>2. /\ t \in Seq(S) /\ Len(t) = IF 1 <= n - 1 THEN (n - 1) - 1 + 1 ELSE 0
        /\ \A k \in 1 .. (n - 1) - 1 + 1 : t[k] = s[1 + k - 1]
    BY <1>0, <2>1, SubSeqProperties
  <2> HIDE DEF t
  <2> QED BY <1>0, <2>2
<1>2. /\ u \in Seq(S) /\ Len(u) = Len(s) - n
      /\ \A k \in 1 .. (Len(s) - n) : u[k] = s[n + k]
  <2>1. \A k \in n + 1 .. Len(s) : s[k] \in S
    BY <1>0
  <2>2. /\ u \in Seq(S) /\ Len(u) = IF n + 1 <= Len(s) THEN Len(s) - (n + 1) + 1 ELSE 0
        /\ \A k \in 1 .. Len(s) - (n + 1) + 1 : u[k] = s[(n + 1) + k - 1]
    BY <1>0, <2>1, SubSeqProperties
  <2> HIDE DEF u
  <2> QED BY <1>0, <2>2
<1>3. q = t \o u
  BY DEF RemoveAt
<1> HIDE DEF t, u
<1>4. /\ t \o u \in Seq(S) /\ Len(t \o u) = Len(t) + Len(u)
      /\ \A k \in 1 .. Len(t) + Len(u) :
           (t \o u)[k] = IF k <= Len(t) THEN t[k] ELSE u[k - Len(t)]
  BY <1>1, <1>2, ConcatProperties
<1> HIDE DEF q
<1>5. q \in Seq(S) /\ Len(q) = Len(s) - 1
  BY <1>0, <1>1, <1>2, <1>3, <1>4
<1>6. q = [k \in 1 .. (Len(s) - 1) |-> q[k]]
  <2>1. q = [k \in 1 .. Len(q) |-> q[k]]
    BY <1>5
  <2> QED BY <1>5, <2>1
<1>7. ASSUME NEW k \in 1 .. (Len(s) - 1)
      PROVE  q[k] = IF k < n THEN s[k] ELSE s[k + 1]
  <2>1. k \in 1 .. Len(t) + Len(u)
    BY <1>0, <1>1, <1>2
  <2>2. q[k] = IF k <= Len(t) THEN t[k] ELSE u[k - Len(t)]
    BY <1>3, <1>4, <2>1
  <2>3. CASE k < n
    BY <1>0, <1>1, <2>2, <2>3
  <2>4. CASE ~(k < n)
    <3>1. k - Len(t) \in 1 .. (Len(s) - n) /\ n + (k - Len(t)) = k + 1 /\ ~(k <= Len(t))
      BY <1>0, <1>1, <2>4
    <3> QED BY <1>2, <2>2, <2>4, <3>1
  <2> QED BY <2>3, <2>4
<1> QED BY <1>6, <1>7 DEF q

LEMMA DeletedOfTwo ==
  ASSUME NEW x, NEW y
  PROVE  FastDeleteIdx(0, <<x, y>>) = <<y>> /\ FastDeleteIdx(1, <<x, y>>) = <<x>>
<1> DEFINE s == <<x, y>>
<1> DEFINE p == RemoveAt(s, 1)
<1> DEFINE q == RemoveAt(s, 2)
<1>1. s \in Seq({x, y}) /\ Len(s) = 2 /\ s[1] = x /\ s[2] = y
  OBVIOUS
<1> HIDE DEF s
<1>2. 1 \in 1 .. Len(s) /\ 2 \in 1 .. Len(s) /\ 1 .. (Len(s) - 1) = 1 .. 1
  BY <1>1
<1>3. /\ p = [k \in 1 .. 1 |-> p[k]]
      /\ \A k \in 1 .. 1 : p[k] = IF k < 1 THEN s[k] ELSE s[k + 1]
  BY <1>1, <1>2, RemovedAt
<1>4. /\ q = [k \in 1 .. 1 |-> q[k]]
      /\ \A k \in 1 .. 1 : q[k] = IF k < 2 THEN s[k] ELSE s[k + 1]
  BY <1>1, <1>2, RemovedAt
<1> HIDE DEF p, q
<1>5. p[1] = y /\ q[1] = x
  BY <1>1, <1>3, <1>4
<1>6. p = <<y>> /\ q = <<x>>
  BY <1>3, <1>4, <1>5, SingleIs
<1> QED BY <1>6 DEF FastDeleteIdx, p, q, s

LEMMA DeletedOfThree ==
  ASSUME NEW x, NEW y, NEW z
  PROVE  /\ FastDeleteIdx(0, <<x, y, z>>) = <<y, z>>
         /\ FastDeleteIdx(1, <<x, y, z>>) = <<x, z>>
         /\ FastDeleteIdx(2, <<x, y, z>>) = <<x, y>>
<1> DEFINE s == <<x, y, z>>
<1> DEFINE p == RemoveAt(s, 1)
<1> DEFINE q == RemoveAt(s, 2)
<1> DEFINE r == RemoveAt(s, 3)
<1>1. s \in Seq({x, y, z}) /\ Len(s) = 3 /\ s[1] = x /\ s[2] = y /\ s[3] = z
  OBVIOUS
<1> HIDE DEF s
<1>2. /\ 1 \in 1 .. Len(s) /\ 2 \in 1 .. Len(s) /\ 3 \in 1 .. Len(s)
      /\ 1 .. (Len(s) - 1) = 1 .. 2
  BY <1>1
<1>3. /\ p = [k \in 1 .. 2 |-> p[k]]
      /\ \A k \in 1 .. 2 : p[k] = IF k < 1 THEN s[k] ELSE s[k + 1]
  BY <1>1, <1>2, RemovedAt
<1>4. /\ q = [k \in 1 .. 2 |-> q[k]]
      /\ \A k \in 1 .. 2 : q[k] = IF k < 2 THEN s[k] ELSE s[k + 1]
  BY <1>1, <1>2, RemovedAt
<1>5. /\ r = [k \in 1 .. 2 |-> r[k]]
      /\ \A k \in 1 .. 2 : r[k] = IF k < 3 THEN s[k] ELSE s[k + 1]
  BY <1>1, <1>2, RemovedAt
<1> HIDE DEF p, q, r
<1>6. p[1] = y /\ p[2] = z /\ q[1] = x /\ q[2] = z /\ r[1] = x /\ r[2] = y
  BY <1>1, <1>3, <1>4, <1>5
<1>7. p = <<y, z>> /\ q = <<x, z>> /\ r = <<x, y>>
  BY <1>3, <1>4, <1>5, <1>6, PairIs
<1> QED BY <1>7 DEF FastDeleteIdx, p, q, r, s

LEMMA PutIntoTwo ==
  ASSUME NEW x, NEW y, NEW u
  PROVE  Put(0, u, <<x, y>>) = <<u, y>> /\ Put(1, u, <<x, y>>) = <<x, u>>
<1> DEFINE s == <<x, y>>
<1> DEFINE p == [s EXCEPT ![1] = u]
<1> DEFINE q == [s EXCEPT ![2] = u]
<1>1. /\ p = [k \in 1 .. 2 |-> p[k]] /\ p[1] = u /\ p[2] = y
      /\ q = [k \in 1 .. 2 |-> q[k]] /\ q[1] = x /\ q[2] = u
  <2>1. DOMAIN s = 1 .. 2 /\ s[1] = x /\ s[2] = y
    OBVIOUS
  <2> HIDE DEF s
  <2>2. /\ p = [k \in 1 .. 2 |-> IF k = 1 THEN u ELSE s[k]]
        /\ q = [k \in 1 .. 2 |-> IF k = 2 THEN u ELSE s[k]]
    BY <2>1
  <2> HIDE DEF p, q
  <2> QED BY <2>1, <2>2
<1> HIDE DEF p, q
<1>2. p = <<u, y>> /\ q = <<x, u>>
  BY <1>1, PairIs
<1> QED BY <1>2 DEF Put, ReplaceAt, p, q

LEMMA PutIntoThree ==
  ASSUME NEW x, NEW y, NEW z, NEW u
  PROVE  /\ Put(0, u, <<x, y, z>>) = <<u, y, z>>
         /\ Put(1, u, <<x, y, z>>) = <<x, u, z>>
         /\ Put(2, u, <<x, y, z>>) = <<x, y, u>>
<1> DEFINE s == <<x, y, z>>
<1> DEFINE p == [s EXCEPT ![1] = u]
<1> DEFINE q == [s EXCEPT ![2] = u]
<1> DEFINE r == [s EXCEPT ![3] = u]
<1>1. /\ p = [k \in 1 .. 3 |-> p[k]] /\ p[1] = u /\ p[2] = y /\ p[3] = z
      /\ q = [k \in 1 .. 3 |-> q[k]] /\ q[1] = x /\ q[2] = u /\ q[3] = z
      /\ r = [k \in 1 .. 3 |-> r[k]] /\ r[1] = x /\ r[2] = y /\ r[3] = u
  <2>1. DOMAIN s = 1 .. 3 /\ s[1] = x /\ s[2] = y /\ s[3] = z
    OBVIOUS
  <2> HIDE DEF s
  <2>2. /\ p = [k \in 1 .. 3 |-> IF k = 1 THEN u ELSE s[k]]
        /\ q = [k \in 1 .. 3 |-> IF k = 2 THEN u ELSE s[k]]
        /\ r = [k \in 1 .. 3 |-> IF k = 3 THEN u ELSE s[k]]
    BY <2>1
  <2> HIDE DEF p, q, r
  <2>3. p = [k \in 1 .. 3 |-> p[k]] /\ p[1] = u /\ p[2] = y /\ p[3] = z
    BY <2>1, <2>2
  <2>4. q = [k \in 1 .. 3 |-> q[k]] /\ q[1] = x /\ q[2] = u /\ q[3] = z
    BY <2>1, <2>2
  <2>5. r = [k \in 1 .. 3 |-> r[k]] /\ r[1] = x /\ r[2] = y /\ r[3] = u
    BY <2>1, <2>2
  <2> QED BY <2>3, <2>4, <2>5
<1> HIDE DEF p, q, r
<1>2. p = <<u, y, z>> /\ q = <<x, u, z>> /\ r = <<x, y, u>>
  BY <1>1, TripleIs
<1> QED BY <1>2 DEF Put, ReplaceAt, p, q, r

\* TotalOf, turn by turn.
LEMMA TotalRuns ==
  ASSUME NEW b, Len(b) \in Nat,
         \A k \in 1 .. Len(b) : Value(b[k]) \in Int
  PROVE  \E sum \in [0 .. Len(b) -> Int] :
           /\ sum[0] = 0
           /\ \A k \in 1 .. Len(b) : sum[k] = sum[k - 1] + Value(b[k])
           /\ TotalOf(b) = sum[Len(b)]
<1> DEFINE m == Len(b)
<1> DEFINE base == 0
<1> DEFINE turn(d, k) == d + Value(b[k])
<1> DEFINE step == [k \in 1 .. m |-> [d \in Int |-> turn(d, k)]]
<1>0. m \in Nat
  OBVIOUS
<1>3. ASSUME NEW d \in Int, NEW k \in 1 .. m PROVE turn(d, k) \in Int
  <2>1. Value(b[k]) \in Int
    OBVIOUS
  <2> QED BY <2>1
<1>4. step \in [1 .. m -> [Int -> Int]]
  <2> HIDE DEF turn, m
  <2> QED BY <1>3
<1>5. PICK g \in [0 .. m -> Int] : RunOf(g, base, m, step)
  <2>1. base \in Int
    OBVIOUS
  <2> HIDE DEF base, step, m
  <2> QED BY <2>1, <1>0, <1>4, LoopRuns
<1> DEFINE value(h, k) == IF k = 0 THEN base ELSE turn(h[k - 1], k)
<1>6. ASSUME NEW k \in 0 .. m PROVE g[k] = value(g, k)
  <2>1. CASE k = 0
    BY <2>1, <1>5 DEF RunOf
  <2>2. CASE k \in 1 .. m
    <3>1. g[k - 1] \in Int
      BY <1>0, <2>2
    <3> HIDE DEF turn, m
    <3> QED BY <1>5, <2>2, <3>1 DEF RunOf
  <2> QED BY <2>1, <2>2
<1>7. g = [k \in 0 .. m |-> value(g, k)]
  <2> HIDE DEF value, base, step, m
  <2> QED BY <1>6
<1> DEFINE acc == CHOOSE h : h = [k \in 0 .. m |-> value(h, k)]
<1>8. acc = [k \in 0 .. m |-> value(acc, k)]
  <2> HIDE DEF value, m
  <2> QED BY <1>7
<1>9. TotalOf(b) = acc[m]
  BY DEF TotalOf
<1> HIDE DEF acc, m
<1>10. acc[0] = base /\ \A k \in 1 .. m : acc[k] = turn(acc[k - 1], k)
  BY <1>0, <1>8
<1>11. acc \in [0 .. m -> Int]
  <2> DEFINE S == {k \in 0 .. m : acc[k] \in Int}
  <2> HIDE DEF turn, base
  <2>1. 0 \in S
    BY <1>0, <1>10 DEF base
  <2>2. ASSUME NEW k \in 1 .. m, k - 1 \in S PROVE k \in S
    <3>1. acc[k - 1] \in Int
      BY <2>2
    <3>2. turn(acc[k - 1], k) \in Int
      BY <1>3, <3>1
    <3>3. acc[k] \in Int /\ k \in 0 .. m
      BY <1>0, <1>10, <3>2
    <3> QED BY <3>3
  <2>3. 0 .. m \subseteq S
    <3> HIDE DEF S
    <3> QED BY <1>0, <2>1, <2>2, TurnByTurn
  <2> QED BY <2>3, <1>8
<1> QED BY <1>9, <1>10, <1>11 DEF m

LEMMA TotalsOfFew ==
  /\ \A x \in WholeNumerals : TotalOf(<<x>>) = Value(x)
  /\ \A x, y \in WholeNumerals : TotalOf(<<x, y>>) = Value(x) + Value(y)
  /\ \A x, y, z \in WholeNumerals : TotalOf(<<x, y, z>>) = Value(x) + Value(y) + Value(z)
<1>1. ASSUME NEW x \in WholeNumerals PROVE TotalOf(<<x>>) = Value(x)
  <2> DEFINE b == <<x>>
  <2>1. Len(b) = 1 /\ b[1] = x /\ Value(x) \in Int
    BY ValuesInt
  <2> HIDE DEF b
  <2>2. \A k \in 1 .. Len(b) : Value(b[k]) \in Int
    BY <2>1
  <2>3. PICK sum \in [0 .. Len(b) -> Int] :
           /\ sum[0] = 0
           /\ \A k \in 1 .. Len(b) : sum[k] = sum[k - 1] + Value(b[k])
           /\ TotalOf(b) = sum[Len(b)]
    BY <2>1, <2>2, TotalRuns
  <2>4. sum[1] = sum[0] + Value(x)
    BY <2>1, <2>3
  <2> QED BY <2>1, <2>3, <2>4 DEF b
<1>2. ASSUME NEW x \in WholeNumerals, NEW y \in WholeNumerals
      PROVE  TotalOf(<<x, y>>) = Value(x) + Value(y)
  <2> DEFINE b == <<x, y>>
  <2>1. Len(b) = 2 /\ b[1] = x /\ b[2] = y /\ Value(x) \in Int /\ Value(y) \in Int
    BY ValuesInt
  <2> HIDE DEF b
  <2>2. \A k \in 1 .. Len(b) : Value(b[k]) \in Int
    BY <2>1
  <2>3. PICK sum \in [0 .. Len(b) -> Int] :
           /\ sum[0] = 0
           /\ \A k \in 1 .. Len(b) : sum[k] = sum[k - 1] + Value(b[k])
           /\ TotalOf(b) = sum[Len(b)]
    BY <2>1, <2>2, TotalRuns
  <2>4. sum[1] = sum[0] + Value(x) /\ sum[2] = sum[1] + Value(y)
    BY <2>1, <2>3
  <2> QED BY <2>1, <2>3, <2>4 DEF b
<1>3. ASSUME NEW x \in WholeNumerals, NEW y \in WholeNumerals, NEW z \in WholeNumerals
      PROVE  TotalOf(<<x, y, z>>) = Value(x) + Value(y) + Value(z)
  <2> DEFINE b == <<x, y, z>>
  <2>1. /\ Len(b) = 3 /\ b[1] = x /\ b[2] = y /\ b[3] = z
        /\ Value(x) \in Int /\ Value(y) \in Int /\ Value(z) \in Int
    BY ValuesInt
  <2> HIDE DEF b
  <2>2. \A k \in 1 .. Len(b) : Value(b[k]) \in Int
    BY <2>1
  <2>3. PICK sum \in [0 .. Len(b) -> Int] :
           /\ sum[0] = 0
           /\ \A k \in 1 .. Len(b) : sum[k] = sum[k - 1] + Value(b[k])
           /\ TotalOf(b) = sum[Len(b)]
    BY <2>1, <2>2, TotalRuns
  <2>4. /\ sum[1] = sum[0] + Value(x) /\ sum[2] = sum[1] + Value(y)
        /\ sum[3] = sum[2] + Value(z)
    BY <2>1, <2>3
  <2> QED BY <2>1, <2>3, <2>4 DEF b
<1> QED BY <1>1, <1>2, <1>3

IsShort(b) ==
  \/ \E x, y \in ShortNumerals : b = <<x, y>>
  \/ \E x, y, z \in ShortNumerals : b = <<x, y, z>>

IsAnswer(b) ==
  \/ \E x \in WholeNumerals : b = <<x>>
  \/ \E x, y \in WholeNumerals : b = <<x, y>>
  \/ IsShort(b)

OfSign(b, s) == \A k \in DOMAIN b : b[k].sign = s

Ascending(b) == \A k, m \in DOMAIN b : k < m => b[k].sign <= b[m].sign

LEMMA NumeralSets == ShortNumerals \subseteq LongerNumerals /\ LongerNumerals \subseteq WholeNumerals
                     /\ Zero \in WholeNumerals
BY ShortNumeralFacts DEF WholeNumerals

LEMMA ZeroValue == Value(Zero) = 0 /\ IsZero(Zero)
<1>1. Value(Zero) = 0 * 0
  BY WeighNone DEF Value, Zero
<1> QED BY <1>1 DEF IsZero, Zero

\* What becomes of a block when the numerals at k and m are replaced by u and v, and one
\* of them is deleted.
Stored(b, k, m, u, v) == Put(k, u, Put(m, v, b))

LEMMA StoredInTwo ==
  ASSUME NEW x \in ShortNumerals, NEW y \in ShortNumerals, NEW u \in WholeNumerals,
         NEW v \in WholeNumerals
  PROVE  LET b == <<x, y>>
             q == Stored(b, 0, 1, u, v)
         IN  /\ q = <<u, v>> /\ FastDeleteIdx(0, q) = <<v>> /\ FastDeleteIdx(1, q) = <<u>>
             /\ TotalOf(q) + Value(x) + Value(y) = TotalOf(b) + Value(u) + Value(v)
             /\ u = Zero => TotalOf(<<v>>) = TotalOf(q)
             /\ v = Zero => TotalOf(<<u>>) = TotalOf(q)
<1>1. Stored(<<x, y>>, 0, 1, u, v) = <<u, v>>
  BY PutIntoTwo DEF Stored
<1>2. FastDeleteIdx(0, <<u, v>>) = <<v>> /\ FastDeleteIdx(1, <<u, v>>) = <<u>>
  BY DeletedOfTwo
<1>3. x \in WholeNumerals /\ y \in WholeNumerals
  BY NumeralSets
<1>4. TotalOf(<<u, v>>) = Value(u) + Value(v) /\ TotalOf(<<x, y>>) = Value(x) + Value(y)
      /\ TotalOf(<<u>>) = Value(u) /\ TotalOf(<<v>>) = Value(v)
  BY <1>3, TotalsOfFew
<1>5. Value(u) \in Int /\ Value(v) \in Int /\ Value(x) \in Int /\ Value(y) \in Int
  BY <1>3, ValuesInt
<1>6. TotalOf(<<u, v>>) + Value(x) + Value(y) = TotalOf(<<x, y>>) + Value(u) + Value(v)
  BY <1>4, <1>5
<1>7. /\ u = Zero => TotalOf(<<v>>) = TotalOf(<<u, v>>)
      /\ v = Zero => TotalOf(<<u>>) = TotalOf(<<u, v>>)
  BY <1>4, <1>5, ZeroValue
<1> QED BY <1>1, <1>2, <1>6, <1>7

\* Which two of three are left by either deletion, and that the total takes part.
ThreeStored(b, w, k, n, kept, keptToo, x, y, u, v) ==
  /\ FastDeleteIdx(k, w) = kept /\ FastDeleteIdx(n, w) = keptToo
  /\ TotalOf(w) + Value(x) + Value(y) = TotalOf(b) + Value(u) + Value(v)
  /\ u = Zero => TotalOf(kept) = TotalOf(w)
  /\ v = Zero => TotalOf(keptToo) = TotalOf(w)

AllStored(x, y, z, u, v) ==
  /\ Stored(<<x, y, z>>, 0, 1, u, v) = <<u, v, z>>
  /\ Stored(<<x, y, z>>, 0, 2, u, v) = <<u, y, v>>
  /\ Stored(<<x, y, z>>, 1, 2, u, v) = <<x, u, v>>
  /\ ThreeStored(<<x, y, z>>, <<u, v, z>>, 0, 1, <<v, z>>, <<u, z>>, x, y, u, v)
  /\ ThreeStored(<<x, y, z>>, <<u, y, v>>, 0, 2, <<y, v>>, <<u, y>>, x, z, u, v)
  /\ ThreeStored(<<x, y, z>>, <<x, u, v>>, 1, 2, <<x, v>>, <<x, u>>, y, z, u, v)

LEMMA StoredInThree ==
  ASSUME NEW x \in ShortNumerals, NEW y \in ShortNumerals, NEW z \in ShortNumerals,
         NEW u \in WholeNumerals, NEW v \in WholeNumerals
  PROVE  AllStored(x, y, z, u, v)
<1> DEFINE b == <<x, y, z>>
<1>1. /\ Stored(b, 0, 1, u, v) = <<u, v, z>>
      /\ Stored(b, 0, 2, u, v) = <<u, y, v>>
      /\ Stored(b, 1, 2, u, v) = <<x, u, v>>
  BY PutIntoThree DEF Stored
<1>2. /\ FastDeleteIdx(0, <<u, v, z>>) = <<v, z>> /\ FastDeleteIdx(1, <<u, v, z>>) = <<u, z>>
      /\ FastDeleteIdx(0, <<u, y, v>>) = <<y, v>> /\ FastDeleteIdx(2, <<u, y, v>>) = <<u, y>>
      /\ FastDeleteIdx(1, <<x, u, v>>) = <<x, v>> /\ FastDeleteIdx(2, <<x, u, v>>) = <<x, u>>
  BY DeletedOfThree
<1>3. x \in WholeNumerals /\ y \in WholeNumerals /\ z \in WholeNumerals
  BY NumeralSets
<1>4. /\ TotalOf(b) = Value(x) + Value(y) + Value(z)
      /\ TotalOf(<<u, v, z>>) = Value(u) + Value(v) + Value(z)
      /\ TotalOf(<<u, y, v>>) = Value(u) + Value(y) + Value(v)
      /\ TotalOf(<<x, u, v>>) = Value(x) + Value(u) + Value(v)
  BY <1>3, TotalsOfFew
<1>5. /\ TotalOf(<<v, z>>) = Value(v) + Value(z) /\ TotalOf(<<u, z>>) = Value(u) + Value(z)
      /\ TotalOf(<<y, v>>) = Value(y) + Value(v) /\ TotalOf(<<u, y>>) = Value(u) + Value(y)
      /\ TotalOf(<<x, v>>) = Value(x) + Value(v) /\ TotalOf(<<x, u>>) = Value(x) + Value(u)
  BY <1>3, TotalsOfFew
<1>6. /\ Value(u) \in Int /\ Value(v) \in Int
      /\ Value(x) \in Int /\ Value(y) \in Int /\ Value(z) \in Int
  BY <1>3, ValuesInt
<1>7. /\ TotalOf(<<u, v, z>>) + Value(x) + Value(y) = TotalOf(b) + Value(u) + Value(v)
      /\ TotalOf(<<u, y, v>>) + Value(x) + Value(z) = TotalOf(b) + Value(u) + Value(v)
      /\ TotalOf(<<x, u, v>>) + Value(y) + Value(z) = TotalOf(b) + Value(u) + Value(v)
  BY <1>4, <1>6
<1>8. u = Zero => /\ TotalOf(<<v, z>>) = TotalOf(<<u, v, z>>)
                  /\ TotalOf(<<y, v>>) = TotalOf(<<u, y, v>>)
                  /\ TotalOf(<<x, v>>) = TotalOf(<<x, u, v>>)
  BY <1>4, <1>5, <1>6, ZeroValue
<1>9. v = Zero => /\ TotalOf(<<u, z>>) = TotalOf(<<u, v, z>>)
                  /\ TotalOf(<<u, y>>) = TotalOf(<<u, y, v>>)
                  /\ TotalOf(<<x, u>>) = TotalOf(<<x, u, v>>)
  BY <1>4, <1>5, <1>6, ZeroValue
<1>10. ThreeStored(b, <<u, v, z>>, 0, 1, <<v, z>>, <<u, z>>, x, y, u, v)
  BY <1>2, <1>7, <1>8, <1>9 DEF ThreeStored
<1>11. ThreeStored(b, <<u, y, v>>, 0, 2, <<y, v>>, <<u, y>>, x, z, u, v)
  BY <1>2, <1>7, <1>8, <1>9 DEF ThreeStored
<1>12. ThreeStored(b, <<x, u, v>>, 1, 2, <<x, v>>, <<x, u>>, y, z, u, v)
  BY <1>2, <1>7, <1>8, <1>9 DEF ThreeStored
<1> QED BY <1>1, <1>10, <1>11, <1>12 DEF AllStored

\* Whatever pair of a block is stored back: what is deleted was zero.
PairStored(b, q, k, n, u, v, s) ==
  LET x == b[k + 1]
      y == b[n + 1]
  IN  /\ x \in ShortNumerals /\ x.sign = s /\ y \in ShortNumerals /\ y.sign = s
      /\ TotalOf(q) + Value(x) + Value(y) = TotalOf(b) + Value(u) + Value(v)
      /\ u = Zero => /\ IsAnswer(FastDeleteIdx(k, q)) /\ Len(FastDeleteIdx(k, q)) = Len(b) - 1
                     /\ TotalOf(FastDeleteIdx(k, q)) = TotalOf(q)
      /\ v = Zero => /\ IsAnswer(FastDeleteIdx(n, q)) /\ Len(FastDeleteIdx(n, q)) = Len(b) - 1
                     /\ TotalOf(FastDeleteIdx(n, q)) = TotalOf(q)
      /\ (/\ u \in ShortNumerals /\ u.sign = s
          /\ v \in ShortNumerals /\ v.sign = s)
         => IsShort(q) /\ Len(q) = Len(b) /\ OfSign(q, s)

LEMMA OfSignTwo ==
  ASSUME NEW x, NEW y, NEW s
  PROVE  OfSign(<<x, y>>, s) <=> x.sign = s /\ y.sign = s
<1>1. DOMAIN <<x, y>> = {1, 2} /\ <<x, y>>[1] = x /\ <<x, y>>[2] = y
  OBVIOUS
<1> QED BY <1>1 DEF OfSign

LEMMA OfSignThree ==
  ASSUME NEW x, NEW y, NEW z, NEW s
  PROVE  OfSign(<<x, y, z>>, s) <=> x.sign = s /\ y.sign = s /\ z.sign = s
<1>1. /\ DOMAIN <<x, y, z>> = {1, 2, 3}
      /\ <<x, y, z>>[1] = x /\ <<x, y, z>>[2] = y /\ <<x, y, z>>[3] = z
  OBVIOUS
<1> QED BY <1>1 DEF OfSign

LEMMA StoredPair ==
  ASSUME NEW b, IsShort(b), NEW s, OfSign(b, s),
         NEW n \in 1 .. (Len(b) - 1), NEW k \in 0 .. (n - 1),
         NEW u \in WholeNumerals, NEW v \in WholeNumerals
  PROVE  PairStored(b, Stored(b, k, n, u, v), k, n, u, v, s)
<1> DEFINE q == Stored(b, k, n, u, v)
<1>1. CASE \E x, y \in ShortNumerals : b = <<x, y>>
  <2>1. PICK x \in ShortNumerals, y \in ShortNumerals : b = <<x, y>>
    BY <1>1
  <2>2. n = 1 /\ k = 0 /\ b[k + 1] = x /\ b[n + 1] = y /\ Len(b) = 2
    BY <2>1
  <2>3. /\ q = <<u, v>> /\ FastDeleteIdx(k, q) = <<v>> /\ FastDeleteIdx(n, q) = <<u>>
        /\ TotalOf(q) + Value(x) + Value(y) = TotalOf(b) + Value(u) + Value(v)
        /\ u = Zero => TotalOf(<<v>>) = TotalOf(q)
        /\ v = Zero => TotalOf(<<u>>) = TotalOf(q)
    BY <2>1, <2>2, StoredInTwo
  <2> HIDE DEF q
  <2>4. x.sign = s /\ y.sign = s
    BY <2>1, OfSignTwo
  <2>5. IsAnswer(<<v>>) /\ IsAnswer(<<u>>) /\ Len(<<v>>) = 2 - 1 /\ Len(<<u>>) = 2 - 1
    BY DEF IsAnswer
  <2>6. ASSUME u \in ShortNumerals, u.sign = s, v \in ShortNumerals, v.sign = s
        PROVE  IsShort(q) /\ Len(q) = Len(b) /\ OfSign(q, s)
    <3>1. IsShort(q) /\ Len(q) = 2
      BY <2>3, <2>6 DEF IsShort
    <3> QED BY <2>2, <2>3, <2>6, <3>1, OfSignTwo
  <2>7. /\ IsAnswer(FastDeleteIdx(k, q)) /\ Len(FastDeleteIdx(k, q)) = Len(b) - 1
        /\ IsAnswer(FastDeleteIdx(n, q)) /\ Len(FastDeleteIdx(n, q)) = Len(b) - 1
    BY <2>2, <2>3, <2>5
  <2> QED BY <2>2, <2>3, <2>4, <2>6, <2>7 DEF PairStored, q
<1>2. CASE \E x, y, z \in ShortNumerals : b = <<x, y, z>>
  <2>1. PICK x \in ShortNumerals, y \in ShortNumerals, z \in ShortNumerals : b = <<x, y, z>>
    BY <1>2
  <2>2. Len(b) = 3 /\ b[1] = x /\ b[2] = y /\ b[3] = z
    BY <2>1
  <2>3. x.sign = s /\ y.sign = s /\ z.sign = s
    BY <2>1, OfSignThree
  <2>4. x \in WholeNumerals /\ y \in WholeNumerals /\ z \in WholeNumerals
    BY NumeralSets
  <2>5. ASSUME NEW a \in WholeNumerals, NEW c \in WholeNumerals
        PROVE  IsAnswer(<<a, c>>) /\ Len(<<a, c>>) = 3 - 1
    BY DEF IsAnswer
  <2>6. ASSUME NEW a \in ShortNumerals, NEW c \in ShortNumerals, NEW e \in ShortNumerals,
               a.sign = s, c.sign = s, e.sign = s
        PROVE  IsShort(<<a, c, e>>) /\ Len(<<a, c, e>>) = 3 /\ OfSign(<<a, c, e>>, s)
    BY <2>6, OfSignThree DEF IsShort
  <2>7. AllStored(x, y, z, u, v)
    BY StoredInThree
  <2>8. CASE n = 1 /\ k = 0
    <3>1. /\ Stored(<<x, y, z>>, 0, 1, u, v) = <<u, v, z>>
          /\ ThreeStored(<<x, y, z>>, <<u, v, z>>, 0, 1, <<v, z>>, <<u, z>>,
                         x, y, u, v)
      BY <2>7 DEF AllStored
    <3>2. /\ q = <<u, v, z>>
          /\ ThreeStored(b, q, k, n, <<v, z>>, <<u, z>>, x, y, u, v)
      BY <2>1, <2>8, <3>1
    <3> HIDE DEF q
    <3>3. b[k + 1] = x /\ b[n + 1] = y
      BY <2>2, <2>8
    <3>4. /\ IsAnswer(FastDeleteIdx(k, q)) /\ Len(FastDeleteIdx(k, q)) = Len(b) - 1
          /\ IsAnswer(FastDeleteIdx(n, q)) /\ Len(FastDeleteIdx(n, q)) = Len(b) - 1
      BY <2>2, <2>4, <2>5, <3>2 DEF ThreeStored
    <3>5. ASSUME u \in ShortNumerals, u.sign = s, v \in ShortNumerals, v.sign = s
          PROVE  IsShort(q) /\ Len(q) = Len(b) /\ OfSign(q, s)
      BY <2>2, <2>3, <2>6, <3>2, <3>5
    <3> QED BY <2>3, <3>2, <3>3, <3>4, <3>5 DEF PairStored, ThreeStored, q
  <2>9. CASE n = 2 /\ k = 0
    <3>1. /\ Stored(<<x, y, z>>, 0, 2, u, v) = <<u, y, v>>
          /\ ThreeStored(<<x, y, z>>, <<u, y, v>>, 0, 2, <<y, v>>, <<u, y>>,
                         x, z, u, v)
      BY <2>7 DEF AllStored
    <3>2. /\ q = <<u, y, v>>
          /\ ThreeStored(b, q, k, n, <<y, v>>, <<u, y>>, x, z, u, v)
      BY <2>1, <2>9, <3>1
    <3> HIDE DEF q
    <3>3. b[k + 1] = x /\ b[n + 1] = z
      BY <2>2, <2>9
    <3>4. /\ IsAnswer(FastDeleteIdx(k, q)) /\ Len(FastDeleteIdx(k, q)) = Len(b) - 1
          /\ IsAnswer(FastDeleteIdx(n, q)) /\ Len(FastDeleteIdx(n, q)) = Len(b) - 1
      BY <2>2, <2>4, <2>5, <3>2 DEF ThreeStored
    <3>5. ASSUME u \in ShortNumerals, u.sign = s, v \in ShortNumerals, v.sign = s
          PROVE  IsShort(q) /\ Len(q) = Len(b) /\ OfSign(q, s)
      BY <2>2, <2>3, <2>6, <3>2, <3>5
    <3> QED BY <2>3, <3>2, <3>3, <3>4, <3>5 DEF PairStored, ThreeStored, q
  <2>10. CASE n = 2 /\ k = 1
    <3>1. /\ Stored(<<x, y, z>>, 1, 2, u, v) = <<x, u, v>>
          /\ ThreeStored(<<x, y, z>>, <<x, u, v>>, 1, 2, <<x, v>>, <<x, u>>,
                         y, z, u, v)
      BY <2>7 DEF AllStored
    <3>2. /\ q = <<x, u, v>>
          /\ ThreeStored(b, q, k, n, <<x, v>>, <<x, u>>, y, z, u, v)
      BY <2>1, <2>10, <3>1
    <3> HIDE DEF q
    <3>3. b[k + 1] = y /\ b[n + 1] = z
      BY <2>2, <2>10
    <3>4. /\ IsAnswer(FastDeleteIdx(k, q)) /\ Len(FastDeleteIdx(k, q)) = Len(b) - 1
          /\ IsAnswer(FastDeleteIdx(n, q)) /\ Len(FastDeleteIdx(n, q)) = Len(b) - 1
      BY <2>2, <2>4, <2>5, <3>2 DEF ThreeStored
    <3>5. ASSUME u \in ShortNumerals, u.sign = s, v \in ShortNumerals, v.sign = s
          PROVE  IsShort(q) /\ Len(q) = Len(b) /\ OfSign(q, s)
      BY <2>2, <2>3, <2>6, <3>2, <3>5
    <3> QED BY <2>3, <3>2, <3>3, <3>4, <3>5 DEF PairStored, ThreeStored, q
  <2>11. (n = 1 /\ k = 0) \/ (n = 2 /\ k = 0) \/ (n = 2 /\ k = 1)
    BY <2>2
  <2> QED BY <2>8, <2>9, <2>10, <2>11
<1> QED BY <1>1, <1>2 DEF IsShort
-----------------------------------------------------------------------------
(* The cancelling loop.                                                    *)

\* The outermost two of a block are u and v now, and of these the zeros go.
EndCleared(q, n, v) == IF IsZero(v) THEN FastDeleteIdx(n, q) ELSE q
FrontCleared(q, u)  == IF IsZero(u) /\ Len(q) > 1 THEN FastDeleteIdx(0, q) ELSE q
Cleared(b, n, u, v) == FrontCleared(EndCleared(Stored(b, 0, n, u, v), n, v), u)

\* The numeral that is left, or a block in order that is one shorter.
LeftOfBlock(b, c) ==
  /\ \/ \E x \in WholeNumerals : c = <<x>>
     \/ IsShort(c) /\ Ascending(c) /\ Len(c) = 2
  /\ TotalOf(c) = TotalOf(b)

LEMMA LeftOfTwo ==
  ASSUME NEW x \in ShortNumerals, NEW y \in ShortNumerals,
         NEW u \in WholeNumerals, NEW v \in WholeNumerals, u = Zero \/ v = Zero,
         Value(u) + Value(v) = Value(x) + Value(y)
  PROVE  LeftOfBlock(<<x, y>>, Cleared(<<x, y>>, 1, u, v))
<1> DEFINE c == Cleared(<<x, y>>, 1, u, v)
<1>1. Stored(<<x, y>>, 0, 1, u, v) = <<u, v>>
  BY PutIntoTwo DEF Stored
<1>2. FastDeleteIdx(0, <<u, v>>) = <<v>> /\ FastDeleteIdx(1, <<u, v>>) = <<u>>
  BY DeletedOfTwo
<1>3. (IsZero(u) <=> u = Zero) /\ (IsZero(v) <=> v = Zero)
  BY ValuesInt
<1>4. x \in WholeNumerals /\ y \in WholeNumerals
  BY NumeralSets
<1>5. /\ TotalOf(<<x, y>>) = Value(x) + Value(y)
      /\ TotalOf(<<u>>) = Value(u) /\ TotalOf(<<v>>) = Value(v)
  BY <1>4, TotalsOfFew
<1>6. Value(u) \in Int /\ Value(v) \in Int
  BY ValuesInt
<1>7. CASE v = Zero
  <2>1. c = <<u>>
    BY <1>1, <1>2, <1>3, <1>7 DEF Cleared, EndCleared, FrontCleared
  <2>2. TotalOf(<<u>>) = TotalOf(<<x, y>>)
    BY <1>5, <1>6, <1>7, ZeroValue
  <2> QED BY <2>1, <2>2 DEF LeftOfBlock
<1>8. CASE v # Zero
  <2>1. u = Zero
    BY <1>8
  <2>2. c = <<v>>
    <3>1. EndCleared(<<u, v>>, 1, v) = <<u, v>>
      BY <1>3, <1>8 DEF EndCleared
    <3>2. Len(<<u, v>>) > 1 /\ IsZero(u)
      BY <1>3, <2>1
    <3>3. FrontCleared(<<u, v>>, u) = <<v>>
      BY <1>2, <3>2 DEF FrontCleared
    <3> QED BY <1>1, <3>1, <3>3 DEF Cleared
  <2>3. TotalOf(<<v>>) = TotalOf(<<x, y>>)
    BY <1>5, <1>6, <2>1, ZeroValue
  <2> QED BY <2>2, <2>3 DEF LeftOfBlock
<1> QED BY <1>7, <1>8

LEMMA AscendingTwo ==
  ASSUME NEW x, NEW y, x.sign <= y.sign
  PROVE  Ascending(<<x, y>>)
<1>1. DOMAIN <<x, y>> = {1, 2} /\ <<x, y>>[1] = x /\ <<x, y>>[2] = y
  OBVIOUS
<1> QED BY <1>1 DEF Ascending

LEMMA LeftOfThree ==
  ASSUME NEW x \in ShortNumerals, NEW y \in ShortNumerals, NEW z \in ShortNumerals,
         NEW u \in {Zero} \cup {a \in ShortNumerals : a.sign = x.sign},
         NEW v \in {Zero} \cup {a \in ShortNumerals : a.sign = z.sign},
         u = Zero \/ v = Zero, x.sign <= y.sign, y.sign <= z.sign,
         Value(u) + Value(v) = Value(x) + Value(z)
  PROVE  LeftOfBlock(<<x, y, z>>, Cleared(<<x, y, z>>, 2, u, v))
<1> DEFINE c == Cleared(<<x, y, z>>, 2, u, v)
<1>0. /\ x \in WholeNumerals /\ y \in WholeNumerals /\ z \in WholeNumerals
      /\ u \in WholeNumerals /\ v \in WholeNumerals
  BY NumeralSets
<1>1. Stored(<<x, y, z>>, 0, 2, u, v) = <<u, y, v>>
  BY PutIntoThree DEF Stored
<1>2. FastDeleteIdx(0, <<u, y, v>>) = <<y, v>> /\ FastDeleteIdx(2, <<u, y, v>>) = <<u, y>>
  BY DeletedOfThree
<1>3. FastDeleteIdx(0, <<u, y>>) = <<y>>
  BY DeletedOfTwo
<1>4. (IsZero(u) <=> u = Zero) /\ (IsZero(v) <=> v = Zero)
  BY <1>0, ValuesInt
<1>5. /\ TotalOf(<<x, y, z>>) = Value(x) + Value(y) + Value(z)
      /\ TotalOf(<<y>>) = Value(y)
      /\ TotalOf(<<u, y>>) = Value(u) + Value(y) /\ TotalOf(<<y, v>>) = Value(y) + Value(v)
  BY <1>0, TotalsOfFew
<1>6. /\ Value(u) \in Int /\ Value(v) \in Int
      /\ Value(x) \in Int /\ Value(y) \in Int /\ Value(z) \in Int
  BY <1>0, ValuesInt
<1>7. CASE u = Zero /\ v = Zero
  <2>1. c = <<y>>
    <3>1. EndCleared(<<u, y, v>>, 2, v) = <<u, y>>
      BY <1>2, <1>4, <1>7 DEF EndCleared
    <3>2. Len(<<u, y>>) > 1 /\ IsZero(u)
      BY <1>4, <1>7
    <3>3. FrontCleared(<<u, y>>, u) = <<y>>
      BY <1>3, <3>2 DEF FrontCleared
    <3> QED BY <1>1, <3>1, <3>3 DEF Cleared
  <2>2. TotalOf(<<y>>) = TotalOf(<<x, y, z>>)
    BY <1>5, <1>6, <1>7, ZeroValue
  <2> QED BY <1>0, <2>1, <2>2 DEF LeftOfBlock
<1>8. CASE u # Zero /\ v = Zero
  <2>1. c = <<u, y>>
    BY <1>1, <1>2, <1>4, <1>8 DEF Cleared, EndCleared, FrontCleared
  <2>2. TotalOf(<<u, y>>) = TotalOf(<<x, y, z>>)
    BY <1>5, <1>6, <1>8, ZeroValue
  <2>3. u \in ShortNumerals /\ u.sign = x.sign
    BY <1>8
  <2>4. IsShort(<<u, y>>) /\ Len(<<u, y>>) = 2
    BY <2>3 DEF IsShort
  <2>5. Ascending(<<u, y>>)
    BY <2>3, AscendingTwo
  <2> QED BY <2>1, <2>2, <2>4, <2>5 DEF LeftOfBlock
<1>9. CASE u = Zero /\ v # Zero
  <2>1. c = <<y, v>>
    <3>1. EndCleared(<<u, y, v>>, 2, v) = <<u, y, v>>
      BY <1>4, <1>9 DEF EndCleared
    <3>2. Len(<<u, y, v>>) > 1 /\ IsZero(u)
      BY <1>4, <1>9
    <3>3. FrontCleared(<<u, y, v>>, u) = <<y, v>>
      BY <1>2, <3>2 DEF FrontCleared
    <3> QED BY <1>1, <3>1, <3>3 DEF Cleared
  <2>2. TotalOf(<<y, v>>) = TotalOf(<<x, y, z>>)
    BY <1>5, <1>6, <1>9, ZeroValue
  <2>3. v \in ShortNumerals /\ v.sign = z.sign
    BY <1>9
  <2>4. IsShort(<<y, v>>) /\ Len(<<y, v>>) = 2
    BY <2>3 DEF IsShort
  <2>5. Ascending(<<y, v>>)
    BY <2>3, AscendingTwo
  <2> QED BY <2>1, <2>2, <2>4, <2>5 DEF LeftOfBlock
<1> QED BY <1>7, <1>8, <1>9

LEMMA CancelBlock ==
  ASSUME NEW b, IsShort(b), Ascending(b), b[1].sign < 0, Last(b).sign > 0
  PROVE  LET p == RearrangeSum(b[1], Last(b))
         IN  LeftOfBlock(b, Cleared(b, Len(b) - 1, p[1], p[2]))
<1> DEFINE p == RearrangeSum(b[1], Last(b))
<1>1. CASE \E x, y \in ShortNumerals : b = <<x, y>>
  <2>1. PICK x \in ShortNumerals, y \in ShortNumerals : b = <<x, y>>
    BY <1>1
  <2>2. b[1] = x /\ Last(b) = y /\ Len(b) - 1 = 1
    BY <2>1 DEF Last
  <2>3. x.sign # y.sign
    BY <2>2, ShortNumeralFacts DEF Signs
  <2>4. /\ p[1] = Zero \/ p[2] = Zero
        /\ p[1] \in {Zero} \cup {z \in ShortNumerals : z.sign = x.sign}
        /\ p[2] \in {Zero} \cup {z \in ShortNumerals : z.sign = y.sign}
        /\ Value(p[1]) + Value(p[2]) = Value(x) + Value(y)
    BY <2>2, <2>3, RearrangedDiffer
  <2> HIDE DEF p
  <2>5. p[1] \in WholeNumerals /\ p[2] \in WholeNumerals
    BY <2>4, NumeralSets
  <2>6. LeftOfBlock(<<x, y>>, Cleared(<<x, y>>, 1, p[1], p[2]))
    BY <2>4, <2>5, LeftOfTwo
  <2>7. LeftOfBlock(b, Cleared(b, Len(b) - 1, p[1], p[2]))
    BY <2>1, <2>2, <2>6
  <2> QED BY <2>7 DEF p
<1>2. CASE \E x, y, z \in ShortNumerals : b = <<x, y, z>>
  <2>1. PICK x \in ShortNumerals, y \in ShortNumerals, z \in ShortNumerals : b = <<x, y, z>>
    BY <1>2
  <2>2. /\ b[1] = x /\ b[2] = y /\ b[3] = z /\ Last(b) = z /\ Len(b) - 1 = 2
        /\ DOMAIN b = {1, 2, 3}
    BY <2>1 DEF Last
  <2>3. x.sign # z.sign
    BY <2>2, ShortNumeralFacts DEF Signs
  <2>4. /\ p[1] = Zero \/ p[2] = Zero
        /\ p[1] \in {Zero} \cup {a \in ShortNumerals : a.sign = x.sign}
        /\ p[2] \in {Zero} \cup {a \in ShortNumerals : a.sign = z.sign}
        /\ Value(p[1]) + Value(p[2]) = Value(x) + Value(z)
    BY <2>2, <2>3, RearrangedDiffer
  <2>5. x.sign <= y.sign /\ y.sign <= z.sign
    BY <2>2 DEF Ascending
  <2> HIDE DEF p
  <2>6. LeftOfBlock(<<x, y, z>>, Cleared(<<x, y, z>>, 2, p[1], p[2]))
    BY <2>4, <2>5, LeftOfThree
  <2>7. LeftOfBlock(b, Cleared(b, Len(b) - 1, p[1], p[2]))
    BY <2>1, <2>2, <2>6
  <2> QED BY <2>7 DEF p
<1> QED BY <1>1, <1>2 DEF IsShort
-----------------------------------------------------------------------------
(* The invariant.                                                          *)

\* What the theorems are about: at most three numerals, each of at most two limbs.
ShortSum == Len(block) <= 3 /\ \A k \in DOMAIN block : Len(block[k].limbs) <= 2

InCancel(b) == IsShort(b) /\ Ascending(b)

\* The indices of a pair are in the block.
InSweep(b, m, k) ==
  IsShort(b) /\ (\E s \in Signs : OfSign(b, s)) /\ m \in 1 .. (Len(b) - 1) /\ k \in 1 .. m

\* Two are left unless memory ended the sweep.
Refused(b, lacking) == lacking = TRUE \/ Len(b) = 2

\* Until the sweep the block is in order, in the sweep it has one sign.
ShortInv ==
  /\ phase \in {"cancel", "sweep", "done", "gaveUp"}
  /\ starved \in BOOLEAN
  /\ phase = "cancel" => InCancel(block)
  /\ phase = "sweep" => InSweep(block, i, j)
  /\ phase \in {"done", "gaveUp"} => IsAnswer(block)
  /\ phase = "done" => Len(block) = 1
  /\ phase = "gaveUp" => Refused(block, starved)

LEMMA AnswerFacts ==
  ASSUME NEW b, IsAnswer(b)
  PROVE  /\ b # <<>> /\ b \in Seq(WholeNumerals) /\ TotalOf(b) \in Int
         /\ Len(b) \in 1 .. 3
<1>1. CASE \E x \in WholeNumerals : b = <<x>>
  <2>1. PICK x \in WholeNumerals : b = <<x>>
    BY <1>1
  <2>2. TotalOf(<<x>>) = Value(x) /\ Value(x) \in Int
    BY TotalsOfFew, ValuesInt
  <2> QED BY <2>1, <2>2
<1>2. CASE \E x, y \in WholeNumerals : b = <<x, y>>
  <2>1. PICK x \in WholeNumerals, y \in WholeNumerals : b = <<x, y>>
    BY <1>2
  <2>2. /\ TotalOf(<<x, y>>) = Value(x) + Value(y)
        /\ Value(x) \in Int /\ Value(y) \in Int
    BY TotalsOfFew, ValuesInt
  <2> QED BY <2>1, <2>2
<1>3. CASE \E x, y, z \in ShortNumerals : b = <<x, y, z>>
  <2>1. PICK x \in ShortNumerals, y \in ShortNumerals, z \in ShortNumerals : b = <<x, y, z>>
    BY <1>3
  <2>2. x \in WholeNumerals /\ y \in WholeNumerals /\ z \in WholeNumerals
    BY NumeralSets
  <2>3. /\ TotalOf(<<x, y, z>>) = Value(x) + Value(y) + Value(z)
        /\ Value(x) \in Int /\ Value(y) \in Int /\ Value(z) \in Int
    BY <2>2, TotalsOfFew, ValuesInt
  <2>4. <<x, y, z>> \in Seq(WholeNumerals) /\ Len(<<x, y, z>>) = 3
    BY <2>2
  <2> QED BY <2>1, <2>3, <2>4
<1>4. (\E x, y \in ShortNumerals : b = <<x, y>>) => (\E x, y \in WholeNumerals : b = <<x, y>>)
  BY NumeralSets
<1> QED BY <1>1, <1>2, <1>3, <1>4 DEF IsAnswer, IsShort

LEMMA ShortFacts ==
  ASSUME NEW b, IsShort(b)
  PROVE  /\ b \in Seq(ShortNumerals) /\ Len(b) \in 2 .. 3 /\ TotalOf(b) \in Int
         /\ b \in Seq(WholeNumerals) /\ b # <<>>
<1>1. b \in Seq(ShortNumerals) /\ Len(b) \in 2 .. 3
  <2>1. CASE \E x, y \in ShortNumerals : b = <<x, y>>
    BY <2>1
  <2>2. CASE \E x, y, z \in ShortNumerals : b = <<x, y, z>>
    <3>1. PICK x \in ShortNumerals, y \in ShortNumerals, z \in ShortNumerals :
            b = <<x, y, z>>
      BY <2>2
    <3>2. <<x, y, z>> \in Seq(ShortNumerals) /\ Len(<<x, y, z>>) = 3
      OBVIOUS
    <3> QED BY <3>1, <3>2
  <2> QED BY <2>1, <2>2 DEF IsShort
<1>2. IsAnswer(b)
  BY DEF IsAnswer
<1> QED BY <1>1, <1>2, AnswerFacts

LEMMA ShortLimbsAre ==
  ASSUME NEW l \in Seq(0 .. MaxLimb), l # <<>>, Len(l) <= 2, Last(l) # 0
  PROVE  l \in ShortLimbs
<1>1. CASE Len(l) = 1
  <2>1. l = <<l[1]>> /\ l[1] \in 1 .. MaxLimb
    BY <1>1, BaseFacts DEF Last
  <2> QED BY <2>1 DEF ShortLimbs, OneLimb
<1>2. CASE Len(l) = 2
  <2>1. l = <<l[1], l[2]>>
    BY <1>2, PairIs
  <2>2. l[1] \in 0 .. MaxLimb /\ l[2] \in 0 .. MaxLimb
    <3>1. 1 \in 1 .. Len(l) /\ 2 \in 1 .. Len(l)
      BY <1>2
    <3> QED BY <3>1, ElementOfSeq
  <2>3. l[2] # 0
    BY <1>2 DEF Last
  <2>4. l[2] \in 1 .. MaxLimb
    BY <2>2, <2>3, BaseFacts
  <2> QED BY <2>1, <2>2, <2>4 DEF ShortLimbs, TwoLimbs
<1>3. Len(l) = 1 \/ Len(l) = 2
  <2> DEFINE n == Len(l)
  <2>1. n \in Nat /\ n # 0 /\ n <= 2
    BY EmptySeq
  <2> HIDE DEF n
  <2>2. n = 1 \/ n = 2
    BY <2>1
  <2> QED BY <2>2 DEF n
<1> QED BY <1>1, <1>2, <1>3

\* The sums that the theorems are about are short in the sense of the proofs.
LEMMA InitShort == ShortSum /\ Init => ShortInv
<1> SUFFICES ASSUME ShortSum, Init PROVE ShortInv
  OBVIOUS
<1>1. /\ block \in Seq([sign : {-1, 1}, limbs : Seq(0..MaxLimb) \ {<<>>}])
      /\ Len(block) >= 2
      /\ \A k \in DOMAIN block : WastesNone(block[k])
      /\ Ascending(block)
  BY SummandsAssumption DEF Init, Ascending
<1>2. ASSUME NEW k \in DOMAIN block PROVE block[k] \in ShortNumerals
  <2>1. block[k] \in [sign : {-1, 1}, limbs : Seq(0..MaxLimb) \ {<<>>}]
    <3> DEFINE S == [sign : {-1, 1}, limbs : Seq(0..MaxLimb) \ {<<>>}]
    <3>1. block \in Seq(S)
      BY <1>1
    <3> HIDE DEF S
    <3>2. k \in 1 .. Len(block)
      BY <3>1
    <3>3. block[k] \in S
      BY <3>1, <3>2, ElementOfSeq
    <3> QED BY <3>3 DEF S
  <2>2. Len(block[k].limbs) <= 2
    BY DEF ShortSum
  <2>3. block[k].limbs \in Seq(0 .. MaxLimb) /\ block[k].limbs # <<>>
    BY <2>1
  <2>4. Last(block[k].limbs) # 0
    BY <1>1, <2>3 DEF WastesNone
  <2>5. block[k].limbs \in ShortLimbs
    BY <2>2, <2>3, <2>4, ShortLimbsAre
  <2> QED BY <2>1, <2>5 DEF ShortNumerals, Signs
<1>3. ASSUME Len(block) = 2 PROVE IsShort(block)
  <2>1. block = <<block[1], block[2]>>
    BY <1>1, <1>3
  <2>2. block[1] \in ShortNumerals /\ block[2] \in ShortNumerals
    BY <1>1, <1>2, <1>3
  <2> QED BY <2>1, <2>2 DEF IsShort
<1>4. ASSUME Len(block) = 3 PROVE IsShort(block)
  <2>1. block = <<block[1], block[2], block[3]>>
    BY <1>1, <1>4
  <2>2. block[1] \in ShortNumerals /\ block[2] \in ShortNumerals /\ block[3] \in ShortNumerals
    BY <1>1, <1>2, <1>4
  <2> QED BY <2>1, <2>2 DEF IsShort
<1>5. Len(block) = 2 \/ Len(block) = 3
  <2> DEFINE n == Len(block)
  <2>1. n \in Nat /\ n >= 2 /\ n <= 3
    BY <1>1 DEF ShortSum
  <2> HIDE DEF n
  <2>2. n = 2 \/ n = 3
    BY <2>1
  <2> QED BY <2>2 DEF n
<1>6. InCancel(block)
  BY <1>1, <1>3, <1>4, <1>5 DEF InCancel
<1>7. phase = "cancel" /\ starved = FALSE
  BY DEF Init
<1> QED BY <1>6, <1>7 DEF ShortInv

LEMMA ShortTyped == ShortInv => TypeOK
<1> SUFFICES ASSUME ShortInv PROVE TypeOK
  OBVIOUS
<1>1. block \in Seq(WholeNumerals) /\ block # <<>>
  <2>1. IsShort(block) \/ IsAnswer(block)
    BY DEF ShortInv, InCancel, InSweep
  <2> QED BY <2>1, ShortFacts, AnswerFacts
<1>2. ASSUME NEW k \in DOMAIN block
      PROVE  IsProper(block[k]) /\ (Len(block[k].limbs) <= 3 => WastesNone(block[k]))
  <2>1. block[k] \in WholeNumerals
    BY <1>1
  <2> QED BY <2>1, ProperNumerals
<1>3. ASSUME phase = "sweep"
      PROVE  /\ i < Len(block) /\ j \in 1..i
             /\ \E sign \in {-1, 1} : \A k \in DOMAIN block : block[k].sign = sign
  <2>1. InSweep(block, i, j)
    BY <1>3 DEF ShortInv
  <2>2. i < Len(block) /\ j \in 1 .. i
    BY <2>1, ShortFacts DEF InSweep
  <2> QED BY <2>1, <2>2 DEF InSweep, OfSign, Signs
<1>4. phase \in {"cancel", "sweep", "done", "gaveUp"}
  BY DEF ShortInv
<1>5. starved \in BOOLEAN
  BY DEF ShortInv
<1> QED BY <1>1, <1>2, <1>3, <1>4, <1>5 DEF TypeOK
-----------------------------------------------------------------------------
(* The steps.                                                              *)

LEMMA CancelStep ==
  ASSUME ShortInv, Cancel
  PROVE  ShortInv' /\ Total' = Total
<1> DEFINE n == Len(block) - 1
<1> DEFINE p == RearrangeSum(block[1], Last(block))
<1>1. IsShort(block) /\ Ascending(block) /\ phase = "cancel" /\ starved \in BOOLEAN
  BY DEF ShortInv, InCancel, Cancel
<1>2. block[1].sign < 0 /\ Last(block).sign > 0
  BY DEF Cancel, Outermost
<1>3. LeftOfBlock(block, Cleared(block, n, p[1], p[2]))
  BY <1>1, <1>2, CancelBlock
<1>4. block' = Cleared(block, n, p[1], p[2])
  <2>1. Outermost[1] = block[1] /\ Outermost[2] = Last(block)
    BY DEF Outermost
  <2> QED BY <2>1 DEF Cancel, Cleared, EndCleared, FrontCleared, Stored
<1> HIDE DEF n, p
<1>5. LeftOfBlock(block, block')
  BY <1>3, <1>4
<1>6. Total' = Total
  BY <1>5 DEF LeftOfBlock, Total
<1>7. /\ starved' = starved
      /\ Len(block') = 1 => phase' = "done"
      /\ Len(block') # 1 => phase' = phase
  BY DEF Cancel, Return
<1>8. CASE \E x \in WholeNumerals : block' = <<x>>
  <2>1. Len(block') = 1 /\ IsAnswer(block')
    BY <1>8 DEF IsAnswer
  <2>2. phase' = "done"
    BY <1>7, <2>1
  <2> QED BY <1>1, <1>6, <1>7, <2>1, <2>2 DEF ShortInv
<1>9. CASE IsShort(block') /\ Ascending(block') /\ Len(block') = 2
  <2>1. phase' = "cancel"
    <3>1. Len(block') # 1
      BY <1>9
    <3> QED BY <1>1, <1>7, <3>1
  <2> QED BY <1>1, <1>6, <1>7, <1>9, <2>1 DEF ShortInv, InCancel
<1> QED BY <1>5, <1>8, <1>9 DEF LeftOfBlock

\* A block in order whose ends do not have opposite signs has one sign.
LEMMA OneSign ==
  ASSUME NEW b, IsShort(b), Ascending(b), ~(b[1].sign < 0 /\ Last(b).sign > 0)
  PROVE  \E s \in Signs : OfSign(b, s)
<1>1. CASE \E x, y \in ShortNumerals : b = <<x, y>>
  <2>1. PICK x \in ShortNumerals, y \in ShortNumerals : b = <<x, y>>
    BY <1>1
  <2>2. b[1] = x /\ b[2] = y /\ Last(b) = y /\ DOMAIN b = {1, 2}
    BY <2>1 DEF Last
  <2>3. x.sign <= y.sign /\ ~(x.sign < 0 /\ y.sign > 0)
    BY <2>2 DEF Ascending
  <2>4. x.sign \in Signs /\ y.sign \in Signs
    BY ShortNumeralFacts
  <2>5. x.sign = y.sign
    BY <2>3, <2>4 DEF Signs
  <2> QED BY <2>1, <2>4, <2>5, OfSignTwo
<1>2. CASE \E x, y, z \in ShortNumerals : b = <<x, y, z>>
  <2>1. PICK x \in ShortNumerals, y \in ShortNumerals, z \in ShortNumerals : b = <<x, y, z>>
    BY <1>2
  <2>2. b[1] = x /\ b[2] = y /\ b[3] = z /\ Last(b) = z /\ DOMAIN b = {1, 2, 3}
    BY <2>1 DEF Last
  <2>3. x.sign <= y.sign /\ y.sign <= z.sign /\ ~(x.sign < 0 /\ z.sign > 0)
    BY <2>2 DEF Ascending
  <2>4. x.sign \in Signs /\ y.sign \in Signs /\ z.sign \in Signs
    BY ShortNumeralFacts
  <2>5. x.sign = y.sign /\ z.sign = y.sign
    BY <2>3, <2>4 DEF Signs
  <2> QED BY <2>1, <2>4, <2>5, OfSignThree
<1> QED BY <1>1, <1>2 DEF IsShort

LEMMA StartSweepStep ==
  ASSUME ShortInv, StartSweep
  PROVE  ShortInv' /\ Total' = Total
<1>1. IsShort(block) /\ Ascending(block) /\ starved \in BOOLEAN
  BY DEF ShortInv, InCancel, StartSweep
<1>2. ~(block[1].sign < 0 /\ Last(block).sign > 0)
  BY DEF StartSweep, Outermost
<1>3. \E s \in Signs : OfSign(block, s)
  BY <1>1, <1>2, OneSign
<1>4. /\ block' = block /\ starved' = starved /\ phase' = "sweep"
      /\ i' = Len(block) - 1 /\ j' = Len(block) - 1
  BY DEF StartSweep
<1>5. Len(block) - 1 \in 1 .. (Len(block) - 1) /\ Len(block) - 1 \in 1 .. 2
  <2> DEFINE n == Len(block)
  <2>1. n \in 2 .. 3
    BY <1>1, ShortFacts
  <2> HIDE DEF n
  <2>2. n - 1 \in 1 .. (n - 1) /\ n - 1 \in 1 .. 2
    BY <2>1
  <2> QED BY <2>2 DEF n
<1>6. InSweep(block', i', j')
  BY <1>1, <1>3, <1>4, <1>5 DEF InSweep
<1>7. Total' = Total
  BY <1>4 DEF Total
<1> QED BY <1>1, <1>4, <1>6, <1>7 DEF ShortInv

\* The pair of a round, and what forcing its sum makes of it.
LEMMA RoundFacts ==
  ASSUME NEW b, IsShort(b), NEW s \in Signs, OfSign(b, s),
         NEW n \in 1 .. (Len(b) - 1), NEW k \in 0 .. (n - 1), NEW memory \in BOOLEAN
  PROVE  LET f == Forced(RearrangeSum(b[k + 1], b[n + 1]), memory)
         IN  /\ f.sums \in BOOLEAN
             /\ f.sums => SumIn(f.pair, s)
             /\ ~f.sums => OverflowOf(f.pair, s)
             /\ \/ Value(f.pair[1]) + Value(f.pair[2]) = Value(b[k + 1]) + Value(b[n + 1])
                \/ ExactlyFull(b[k + 1], b[n + 1])
             /\ f.pair[1] \in WholeNumerals /\ f.pair[2] \in WholeNumerals
             /\ Value(b[k + 1]) \in Int /\ Value(b[n + 1]) \in Int
<1> DEFINE x == b[k + 1]
<1> DEFINE y == b[n + 1]
<1> DEFINE f == Forced(RearrangeSum(x, y), memory)
<1>1. x \in ShortNumerals /\ x.sign = s /\ y \in ShortNumerals /\ y.sign = s
  <2>1. PairStored(b, Stored(b, k, n, Zero, Zero), k, n, Zero, Zero, s)
    BY NumeralSets, StoredPair
  <2> QED BY <2>1 DEF PairStored
<1> HIDE DEF x, y
<1>2. /\ f.sums \in BOOLEAN
      /\ f.sums => SumIn(f.pair, x.sign)
      /\ ~f.sums => OverflowOf(f.pair, x.sign)
      /\ Summed(f.pair, x, y)
  BY <1>1, ForcedShort
<1> HIDE DEF f
<1>3. \/ Value(f.pair[1]) + Value(f.pair[2]) = Value(x) + Value(y)
      \/ ExactlyFull(x, y)
  BY <1>1, <1>2, SaidExactlyFull DEF Summed
<1>4. f.pair[1] \in WholeNumerals /\ f.pair[2] \in WholeNumerals
  <2>1. SumIn(f.pair, x.sign) \/ OverflowOf(f.pair, x.sign)
    BY <1>2
  <2>2. CASE SumIn(f.pair, x.sign)
    BY <2>2, NumeralSets DEF SumIn
  <2>3. CASE OverflowOf(f.pair, x.sign)
    BY <2>3, NumeralSets DEF OverflowOf
  <2> QED BY <2>1, <2>2, <2>3
<1>5. Value(x) \in Int /\ Value(y) \in Int
  BY <1>1, NumeralSets, ValuesInt
<1> QED BY <1>1, <1>2, <1>3, <1>4, <1>5 DEF f, x, y
\* In a block of three a deletion ends both loops.
LEMMA AfterDeletion ==
  ASSUME NEW m, Deleted(i - 1, m), i \in 1 .. 2
  PROVE  phase' = IF Len(block') = 1 THEN "done" ELSE "gaveUp"
<1>1. CASE Len(block') = 1
  BY <1>1 DEF Deleted, Return
<1>2. CASE Len(block') # 1
  <2>1. Continue(i - 1, 0)
    <3>1. i - 1 <= 1
      OBVIOUS
    <3> QED BY <1>2, <3>1 DEF Deleted
  <2>2. ~(i - 1 > 1)
    OBVIOUS
  <2> QED BY <1>2, <2>1, <2>2 DEF Continue, Return
<1> QED BY <1>1, <1>2

LEMMA AfterRefusal ==
  ASSUME i \in 1 .. 2, j \in 1 .. i, phase = "sweep", Continue(i, j - 1)
  PROVE  \/ phase' = "gaveUp"
         \/ phase' = "sweep" /\ i' \in 1 .. i /\ j' \in 1 .. i'
<1>1. CASE i > 1 /\ j - 1 = 0
  <2>1. i' = i - 1 /\ j' = i' /\ phase' = phase
    BY <1>1 DEF Continue
  <2> QED BY <1>1, <2>1
<1>2. CASE ~(i > 1) /\ j - 1 = 0
  BY <1>2 DEF Continue, Return
<1>3. CASE j - 1 # 0
  <2>1. i' = i /\ j' = j - 1 /\ phase' = phase
    BY <1>3 DEF Continue
  <2> QED BY <1>3, <2>1
<1> QED BY <1>1, <1>2, <1>3

\* A pair whose sum is in one of the two leaves a shorter block, a pair that memory was
\* refused for one of the same length.
LEMMA SweepStep ==
  ASSUME ShortInv, Sweep
  PROVE  /\ ShortInv'
         /\ Total' = Total \/ (phase = "sweep" /\ ExactlyFull(At(j - 1), At(i)))
<1>1. /\ phase = "sweep" /\ InSweep(block, i, j) /\ starved \in BOOLEAN
  BY DEF ShortInv, Sweep
<1>2. PICK s \in Signs : OfSign(block, s)
  BY <1>1 DEF InSweep
<1>3. IsShort(block) /\ i \in 1 .. (Len(block) - 1) /\ j \in 1 .. i
  BY <1>1 DEF InSweep
<1>4. /\ Len(block) \in 2 .. 3 /\ TotalOf(block) \in Int
      /\ i \in 1 .. 2 /\ j - 1 \in 0 .. (i - 1)
  <2> DEFINE n == Len(block)
  <2>1. n \in 2 .. 3 /\ TotalOf(block) \in Int
    BY <1>3, ShortFacts
  <2>2. i \in 1 .. (n - 1) /\ j \in 1 .. i
    BY <1>3
  <2> HIDE DEF n
  <2>3. i \in 1 .. 2 /\ j - 1 \in 0 .. (i - 1)
    BY <2>1, <2>2
  <2> QED BY <2>1, <2>3 DEF n
<1>5. PICK memory \in BOOLEAN :
        /\ Store(j - 1, Forced(RearrangeSum(At(j - 1), At(i)), memory))
        /\ starved' = (starved \/ ~Forced(RearrangeSum(At(j - 1), At(i)), memory).sums)
  BY DEF Sweep
<1> DEFINE k == j - 1
<1> DEFINE x == block[k + 1]
<1> DEFINE y == block[i + 1]
<1> DEFINE f == Forced(RearrangeSum(x, y), memory)
<1> DEFINE u == f.pair[1]
<1> DEFINE v == f.pair[2]
<1> DEFINE q == Stored(block, k, i, u, v)
<1>6. /\ f.sums \in BOOLEAN
      /\ f.sums => SumIn(f.pair, s)
      /\ ~f.sums => OverflowOf(f.pair, s)
      /\ Value(u) + Value(v) = Value(x) + Value(y) \/ ExactlyFull(x, y)
      /\ u \in WholeNumerals /\ v \in WholeNumerals
      /\ Value(x) \in Int /\ Value(y) \in Int
  BY <1>2, <1>3, <1>4, RoundFacts
<1>7. PairStored(block, q, k, i, u, v, s)
  <2> HIDE DEF u, v
  <2> QED BY <1>2, <1>3, <1>4, <1>6, StoredPair
<1>8. starved' = (starved \/ ~f.sums)
  BY <1>5 DEF At
<1>9. \/ f.sums /\ IsZero(u) /\ block' = FastDeleteIdx(k, q) /\ Deleted(i - 1, k)
      \/ f.sums /\ IsZero(v) /\ block' = FastDeleteIdx(i, q) /\ Deleted(i - 1, i - 1)
      \/ /\ ~f.sums \/ (~IsZero(u) /\ ~IsZero(v))
         /\ block' = q /\ Continue(i, k)
  BY <1>5 DEF Store, At, Stored
<1>10. At(j - 1) = x /\ At(i) = y
  BY DEF At
<1>11. (IsZero(u) <=> u = Zero) /\ (IsZero(v) <=> v = Zero)
       /\ Value(u) \in Int /\ Value(v) \in Int
  <2> HIDE DEF u, v
  <2> QED BY <1>6, ValuesInt
<1>12. f.sums => u = Zero \/ v = Zero
  BY <1>6 DEF SumIn
<1> HIDE DEF x, y, f, u, v, q
<1>13. TotalOf(q) + Value(x) + Value(y) = TotalOf(block) + Value(u) + Value(v)
  BY <1>7 DEF PairStored, x, y
<1>14. ASSUME TotalOf(q) \in Int, TotalOf(block') = TotalOf(q)
       PROVE  Total' = Total \/ (phase = "sweep" /\ ExactlyFull(At(j - 1), At(i)))
  <2>1. CASE Value(u) + Value(v) = Value(x) + Value(y)
    <3>1. TotalOf(q) = TotalOf(block)
      BY <1>4, <1>6, <1>11, <1>13, <1>14, <2>1
    <3> QED BY <1>14, <3>1 DEF Total
  <2>2. CASE ExactlyFull(x, y)
    BY <1>1, <1>10, <2>2
  <2> QED BY <1>6, <2>1, <2>2
<1>15. ASSUME IsAnswer(block'), Len(block') = Len(block) - 1, TotalOf(block') = TotalOf(q),
              starved' = starved, phase' = IF Len(block') = 1 THEN "done" ELSE "gaveUp"
       PROVE  /\ ShortInv'
              /\ Total' = Total \/ (phase = "sweep" /\ ExactlyFull(At(j - 1), At(i)))
  <2>1. TotalOf(block') \in Int
    BY <1>15, AnswerFacts
  <2>2. Len(block') = 1 \/ Len(block') = 2
    BY <1>4, <1>15
  <2>3. ShortInv'
    <3>1. CASE Len(block') = 1
      <4>1. phase' = "done"
        BY <1>15, <3>1
      <4> QED BY <1>1, <1>15, <3>1, <4>1 DEF ShortInv
    <3>2. CASE Len(block') = 2
      <4>1. phase' = "gaveUp"
        <5>1. Len(block') # 1
          BY <3>2
        <5> QED BY <1>15, <5>1
      <4>2. Refused(block', starved')
        BY <3>2 DEF Refused
      <4> QED BY <1>1, <1>15, <4>1, <4>2 DEF ShortInv
    <3> QED BY <2>2, <3>1, <3>2
  <2>4. Total' = Total \/ (phase = "sweep" /\ ExactlyFull(At(j - 1), At(i)))
    BY <1>14, <1>15, <2>1
  <2> QED BY <2>3, <2>4
<1>16. CASE f.sums /\ IsZero(u) /\ block' = FastDeleteIdx(k, q) /\ Deleted(i - 1, k)
  <2>1. /\ IsAnswer(block') /\ Len(block') = Len(block) - 1
        /\ TotalOf(block') = TotalOf(q)
    BY <1>7, <1>11, <1>16 DEF PairStored
  <2>2. starved' = starved
    BY <1>1, <1>8, <1>16
  <2>3. phase' = IF Len(block') = 1 THEN "done" ELSE "gaveUp"
    BY <1>4, <1>16, AfterDeletion
  <2> QED BY <1>15, <2>1, <2>2, <2>3
<1>17. CASE f.sums /\ IsZero(v) /\ block' = FastDeleteIdx(i, q) /\ Deleted(i - 1, i - 1)
  <2>1. /\ IsAnswer(block') /\ Len(block') = Len(block) - 1
        /\ TotalOf(block') = TotalOf(q)
    BY <1>7, <1>11, <1>17 DEF PairStored
  <2>2. starved' = starved
    BY <1>1, <1>8, <1>17
  <2>3. phase' = IF Len(block') = 1 THEN "done" ELSE "gaveUp"
    BY <1>4, <1>17, AfterDeletion
  <2> QED BY <1>15, <2>1, <2>2, <2>3
<1>18. CASE /\ ~f.sums \/ (~IsZero(u) /\ ~IsZero(v))
            /\ block' = q /\ Continue(i, k)
  <2>1. ~f.sums
    BY <1>11, <1>12, <1>18
  <2>2. /\ u \in ShortNumerals /\ u.sign = s
        /\ v \in ShortNumerals /\ v.sign = s
    BY <1>6, <2>1 DEF OverflowOf, u, v
  <2>3. IsShort(block') /\ Len(block') = Len(block) /\ OfSign(block', s)
    BY <1>7, <1>18, <2>2 DEF PairStored
  <2>4. starved' = TRUE
    BY <1>8, <2>1
  <2>5. \/ phase' = "gaveUp"
        \/ phase' = "sweep" /\ i' \in 1 .. i /\ j' \in 1 .. i'
    BY <1>1, <1>3, <1>4, <1>18, AfterRefusal
  <2>6. TotalOf(q) \in Int
    BY <1>18, <2>3, ShortFacts
  <2>7. Total' = Total \/ (phase = "sweep" /\ ExactlyFull(At(j - 1), At(i)))
    BY <1>14, <1>18, <2>6
  <2>8. CASE phase' = "gaveUp"
    <3>1. IsAnswer(block')
      BY <2>3 DEF IsAnswer
    <3>2. Refused(block', starved')
      BY <2>4 DEF Refused
    <3> QED BY <2>4, <2>7, <2>8, <3>1, <3>2 DEF ShortInv
  <2>9. CASE phase' = "sweep" /\ i' \in 1 .. i /\ j' \in 1 .. i'
    <3>1. i' \in 1 .. (Len(block') - 1)
      <4> DEFINE n == Len(block)
      <4>1. n \in 2 .. 3 /\ i \in 1 .. (n - 1)
        BY <1>3, <1>4
      <4> HIDE DEF n
      <4>2. i' \in 1 .. (n - 1)
        BY <2>9, <4>1
      <4> QED BY <2>3, <4>2 DEF n
    <3>2. InSweep(block', i', j')
      BY <2>3, <2>9, <3>1 DEF InSweep
    <3> QED BY <2>4, <2>7, <2>9, <3>2 DEF ShortInv
  <2> QED BY <2>5, <2>8, <2>9
<1> QED BY <1>9, <1>16, <1>17, <1>18

LEMMA ShortStep ==
  ASSUME ShortInv, [Next]_vars
  PROVE  /\ ShortInv'
         /\ Total' = Total \/ (phase = "sweep" /\ ExactlyFull(At(j - 1), At(i)))
<1>1. CASE Cancel
  BY <1>1, CancelStep
<1>2. CASE StartSweep
  BY <1>2, StartSweepStep
<1>3. CASE Sweep
  BY <1>3, SweepStep
<1>4. CASE UNCHANGED vars
  BY <1>4 DEF vars, ShortInv, Total
<1> QED BY <1>1, <1>2, <1>3, <1>4 DEF Next

-----------------------------------------------------------------------------
(* The theorems.                                                           *)

LEMMA ShortInvHolds == ShortSum /\ Spec => []ShortInv
<1>1. ShortInv /\ [Next]_vars => ShortInv'
  BY ShortStep
<1> QED BY InitShort, <1>1, PTL DEF Spec

(***************************************************************************)
(* Wherever the rule on a sum of two or three integers of one or two limbs  *)
(* is interrupted: every numeral is in order, and the unsigned indices of   *)
(* the pair that is next are in the block, also after a deletion under them.*)
(***************************************************************************)
THEOREM SumIsInOrder == ShortSum /\ Spec => []TypeOK
<1>1. ShortInv => TypeOK
  BY ShortTyped
<1> QED BY <1>1, ShortInvHolds, PTL

(***************************************************************************)
(* No round of the rule changes what such a sum adds up to, whatever is     *)
(* borrowed, carried, grown or refused for want of memory, but where two    *)
(* numerals overflow while below their highest limbs they add up to exactly *)
(* the largest limb.                                                       *)
(***************************************************************************)
THEOREM RoundsKeepTheSum == ShortSum /\ Spec => SumKept
<1>1. ShortInv /\ [Next]_vars
        => [Total' = Total \/ (phase = "sweep" /\ ExactlyFull(At(j - 1), At(i)))]_vars
  BY ShortStep
<1> QED BY <1>1, ShortInvHolds, PTL DEF Spec, SumKept

(***************************************************************************)
(* Such a sum that the rule is done with is one numeral; and it gives up    *)
(* only with two left, or when it was refused memory.                      *)
(***************************************************************************)
THEOREM AnswersMeanWhatTheySay ==
  ShortSum /\ Spec => [](/\ phase = "done" => Len(block) = 1
                         /\ phase = "gaveUp" => starved \/ Len(block) = 2)
<1>1. ShortInv => /\ phase = "done" => Len(block) = 1
                  /\ phase = "gaveUp" => starved \/ Len(block) = 2
  BY DEF ShortInv, Refused
<1> QED BY <1>1, ShortInvHolds, PTL

===============================================================================
