------------------------------ MODULE LoopLemmas ------------------------------
(***************************************************************************)
(* Induction and loops.  What the models compute turn by turn is a          *)
(* recursive function over 0 .. n whose k-th value comes of the k-th turn   *)
(* from the one before.  The lemmas give such functions their existence and *)
(* the induction to reason about them.  Induction itself is derived from    *)
(* the finiteness of intervals, since the induction theorems of the library *)
(* take an operator where these take a set.                                 *)
(***************************************************************************)
EXTENDS Integers, FiniteSetTheorems, TLAPS

(***************************************************************************)
(* Induction over the naturals.  Were m the wrong one, x |-> x - 1 would    *)
(* map the wrong ones up to m into themselves without reaching m.           *)
(***************************************************************************)
LEMMA NaturalsFromZero ==
  ASSUME NEW S, 0 \in S, \A n \in Nat : n \in S => n + 1 \in S
  PROVE  Nat \subseteq S
<1> SUFFICES ASSUME NEW m \in Nat, m \notin S PROVE FALSE
  OBVIOUS
<1> DEFINE U == {x \in 0 .. m : x \notin S}
<1> DEFINE f == [x \in U |-> x - 1]
<1>1. \A x \in U : x - 1 \in U
  OBVIOUS
<1>2. IsFiniteSet(U)
  <2>1. IsFiniteSet(0 .. m)
    BY FS_Interval
  <2>2. U \in SUBSET (0 .. m)
    OBVIOUS
  <2> HIDE DEF U
  <2> QED BY <2>1, <2>2, FS_Subset
<1>3. f \in Injection(U, U)
  BY <1>1 DEF Injection, IsInjective
<1>4. f \in Surjection(U, U)
  <2> HIDE DEF f, U
  <2> QED BY <1>2, <1>3, FS_Injection
<1>5. \E x \in U : f[x] = m
  <2>1. m \in U
    OBVIOUS
  <2> HIDE DEF f, U
  <2> QED BY <1>4, <2>1 DEF Surjection
<1> QED BY <1>5

(***************************************************************************)
(* Induction over the turns of a loop.                                      *)
(***************************************************************************)
LEMMA TurnByTurn ==
  ASSUME NEW n \in Nat, NEW S, 0 \in S, \A k \in 1 .. n : k - 1 \in S => k \in S
  PROVE  0 .. n \subseteq S
<1> DEFINE T == {k \in Nat : k <= n => k \in S}
<1>1. 0 \in T
  OBVIOUS
<1>2. \A k \in Nat : k \in T => k + 1 \in T
  <2> TAKE k \in Nat
  <2> SUFFICES ASSUME k \in S, k + 1 <= n PROVE k + 1 \in S
    OBVIOUS
  <2>1. k + 1 \in 1 .. n /\ (k + 1) - 1 = k
    OBVIOUS
  <2> QED BY <2>1
<1>3. Nat \subseteq T
  <2> HIDE DEF T
  <2> QED BY <1>1, <1>2, NaturalsFromZero
<1> QED BY <1>3

(***************************************************************************)
(* A set of naturals with an element has a least one.                       *)
(***************************************************************************)
LEMMA LeastNatural ==
  ASSUME NEW T \in SUBSET Nat, NEW t \in T
  PROVE  \E x \in T : \A y \in T : x <= y
<1> SUFFICES ASSUME \A x \in T : \E y \in T : y < x PROVE FALSE
  OBVIOUS
<1> DEFINE S == {k \in Nat : \A x \in T : x > k}
<1>1. 0 \in S
  OBVIOUS
<1>2. \A k \in Nat : k \in S => k + 1 \in S
  <2> TAKE k \in Nat
  <2> SUFFICES ASSUME \A x \in T : x > k, NEW x \in T PROVE x > k + 1
    OBVIOUS
  <2> PICK y \in T : y < x
    OBVIOUS
  <2> QED OBVIOUS
<1>3. t \in S
  <2> HIDE DEF S
  <2> QED BY <1>1, <1>2, NaturalsFromZero
<1> QED BY <1>3

(***************************************************************************)
(* A loop of n turns, the k-th of which takes d to step[k][d], has run.     *)
(***************************************************************************)
RunOf(g, base, n, step) ==
    /\ g[0] = base
    /\ \A k \in 1 .. n : g[k] = step[k][g[k - 1]]

LEMMA LoopRuns ==
  ASSUME NEW D, NEW base \in D, NEW n \in Nat, NEW step \in [1 .. n -> [D -> D]]
  PROVE  \E g \in [0 .. n -> D] : RunOf(g, base, n, step)
<1> DEFINE S == {k \in 0 .. n : \E g \in [0 .. k -> D] : RunOf(g, base, k, step)}
<1>1. 0 \in S
  <2> DEFINE g == [j \in 0 .. 0 |-> base]
  <2>1. g \in [0 .. 0 -> D] /\ g[0] = base
    OBVIOUS
  <2>2. 1 .. 0 = {}
    OBVIOUS
  <2> HIDE DEF g
  <2>3. RunOf(g, base, 0, step)
    BY <2>1, <2>2 DEF RunOf
  <2> QED BY <2>1, <2>3
<1>2. ASSUME NEW k \in 1 .. n, k - 1 \in S PROVE k \in S
  <2>1. PICK g \in [0 .. k - 1 -> D] : RunOf(g, base, k - 1, step)
    BY <1>2
  <2> DEFINE h == [j \in 0 .. k |-> IF j = k THEN step[k][g[k - 1]] ELSE g[j]]
  <2>2. g[k - 1] \in D /\ step[k][g[k - 1]] \in D
    OBVIOUS
  <2>3. h \in [0 .. k -> D]
    BY <2>2
  <2>4. h[0] = base
    BY <2>1 DEF RunOf
  <2>5. ASSUME NEW j \in 1 .. k PROVE h[j] = step[j][h[j - 1]]
    <3>1. h[j - 1] = g[j - 1]
      OBVIOUS
    <3>2. CASE j = k
      <4>1. h[k] = step[k][g[k - 1]]
        OBVIOUS
      <4> HIDE DEF h
      <4> QED BY <3>1, <3>2, <4>1
    <3>3. CASE j \in 1 .. k - 1
      BY <2>1, <3>1, <3>3 DEF RunOf
    <3> QED BY <3>2, <3>3
  <2> HIDE DEF h
  <2>6. RunOf(h, base, k, step)
    BY <2>4, <2>5 DEF RunOf
  <2> QED BY <2>3, <2>6
<1>3. n \in S
  <2>1. \A k \in 1 .. n : k - 1 \in S => k \in S
    BY <1>2
  <2>2. 0 .. n \subseteq S
    <3> HIDE DEF S
    <3> QED BY <1>1, <2>1, TurnByTurn
  <2> QED BY <2>2
<1> QED BY <1>3
===============================================================================
