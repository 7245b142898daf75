---------------------------- MODULE IntegerBlock ----------------------------
(***************************************************************************)
(* StdAddition::CleanIntegerNumeralBlock: the numerals at the front of a   *)
(* sum are added in place.  First the outermost two are cancelled while    *)
(* their signs differ, which needs no memory; then a sweep over all pairs  *)
(* forces the sums of one sign.  A numeral that became zero is deleted     *)
(* under the running indices.                                              *)
(*                                                                         *)
(* The numerals are whole: the rule's last part, on 1/n, is not modelled,  *)
(* and two or more whole numerals that are left make the rule give up.     *)
(***************************************************************************)
EXTENDS IntegerNumeral

CONSTANT Summands  \* the numerals a sum can begin with when the rule is chosen

\* The rule is for at least two, the sum has sorted them, and each is in order.
ASSUME SummandsAssumption ==
  \A b \in Summands :
    /\ b \in Seq([sign : {-1, 1}, limbs : Seq(0..MaxLimb) \ {<<>>}]) /\ Len(b) >= 2
    /\ \A k \in DOMAIN b : WastesNone(b[k])
    /\ \A k, m \in DOMAIN b : k < m => b[k].sign <= b[m].sign

VARIABLES
  block,    \* ArgArray, up to StrictUBIntBlock
  phase,    \* "cancel" and "sweep", then what the rule answered: "done", "gaveUp"
  i, j,     \* the sweep's indices, counted from 0 as in the code
  starved   \* history: a sum was refused for want of memory

vars == <<block, phase, i, j, starved>>

Outermost == <<block[1], Last(block)>>
At(k) == block[k + 1]
Put(k, x, b) == ReplaceAt(b, k + 1, x)
FastDeleteIdx(k, b) == RemoveAt(b, k + 1)

\* Some numeral is left, each proper; the highest limb is not zero, but in one of four
\* limbs, which a forced sum may have lengthened in vain.  In the sweep none is zero, all
\* have one sign, and the indices of the next pair, j - 1 and i, are in the block: they
\* are unsigned.
TypeOK ==
  /\ block # <<>>
  /\ \A k \in DOMAIN block :
       IsProper(block[k]) /\ (Len(block[k].limbs) <= 3 => WastesNone(block[k]))
  /\ phase \in {"cancel", "sweep", "done", "gaveUp"}
  /\ phase = "sweep" =>
       /\ i < Len(block) /\ j \in 1..i
       /\ \E sign \in {-1, 1} : \A k \in DOMAIN block : block[k].sign = sign
  /\ starved \in BOOLEAN

Init ==
  /\ block \in Summands
  /\ phase = "cancel"
  /\ i = 0 /\ j = 0
  /\ starved = FALSE

Return(answer) == phase' = answer /\ UNCHANGED <<i, j>>

\* The first loop, while the outermost signs differ.
Cancel ==
  /\ phase = "cancel"
  /\ Outermost[1].sign < 0 /\ Outermost[2].sign > 0
  /\ \E p \in {RearrangeSum(Outermost[1], Outermost[2])} :
       LET n == Len(block) - 1
           b == Put(0, p[1], Put(n, p[2], block))
           c == IF IsZero(p[2]) THEN FastDeleteIdx(n, b) ELSE b
       IN  block' = IF IsZero(p[1]) /\ Len(c) > 1 THEN FastDeleteIdx(0, c) ELSE c
  /\ IF Len(block') = 1 THEN Return("done") ELSE UNCHANGED <<phase, i, j>>
  /\ UNCHANGED starved

StartSweep ==
  /\ phase = "cancel"
  /\ ~(Outermost[1].sign < 0 /\ Outermost[2].sign > 0)
  /\ phase' = "sweep"
  /\ i' = Len(block) - 1 /\ j' = i'
  /\ UNCHANGED <<block, starved>>

\* The end of a round of the inner loop, and of the outer one when the inner is over.
\* Whole numerals that are left are what the last part gives up on.
Continue(newI, newJ) ==
  IF newI > 1 /\ newJ = 0 THEN i' = newI - 1 /\ j' = i' /\ UNCHANGED phase
  ELSE IF newJ = 0 THEN Return("gaveUp")
  ELSE i' = newI /\ j' = newJ /\ UNCHANGED phase

\* Mutant of Deleted: the index still counts the numeral that went.
DeletedUncounted(newI, newJ) ==
  IF Len(block') = 1 THEN Return("done")
  ELSE Continue(newI + 1, newJ)

\* Mutant of Deleted: index 2 ends both loops.
DeletedBelow(newI, newJ) ==
  IF Len(block') = 1 THEN Return("done")
  ELSE IF newI <= 2 THEN Return("gaveUp") ELSE Continue(newI, newJ)

\* After a deletion one numeral is the answer, and index 1 ends both loops.
Deleted(newI, newJ) ==
  IF Len(block') = 1 THEN Return("done")
  ELSE Continue(newI, IF newI <= 1 THEN 0 ELSE newJ)

\* What became of the pair k < i; a forced sum empties one of the two, never both.
Store(k, f) ==
  LET b == Put(k, f.pair[1], Put(i, f.pair[2], block))
  IN  \/ /\ f.sums /\ IsZero(f.pair[1])
         /\ block' = FastDeleteIdx(k, b)
         /\ Deleted(i - 1, k)
      \/ /\ f.sums /\ IsZero(f.pair[2])
         /\ block' = FastDeleteIdx(i, b)
         /\ Deleted(i - 1, i - 1)
      \/ /\ ~f.sums \/ (~IsZero(f.pair[1]) /\ ~IsZero(f.pair[2]))
         /\ block' = b
         /\ Continue(i, k)

\* A round of the sweep: ForceRearrangeSum of the next pair.
Sweep ==
  /\ phase = "sweep"
  /\ \E p \in {RearrangeSum(At(j - 1), At(i))}, memory \in BOOLEAN :
       \E f \in {Forced(p, memory)} :
          /\ Store(j - 1, f)
          /\ starved' = (starved \/ ~f.sums)

Next == Cancel \/ StartSweep \/ Sweep

\* The two loops run to their end within the call.
Spec == Init /\ [][Next]_vars /\ WF_vars(Next)

-----------------------------------------------------------------------------
TotalOf(b) ==
  LET sum[k \in 0..Len(b)] == IF k = 0 THEN 0 ELSE sum[k - 1] + Value(b[k])
  IN  sum[Len(b)]

Total == TotalOf(block)

\* Two numerals overflow the larger, and below their highest limbs two add up to exactly
\* the largest limb.
ExactlyFull(x, y) ==
  LET m == Min({Len(x.limbs), Len(y.limbs)})
      n == Max({Len(x.limbs), Len(y.limbs)})
  IN  /\ Weigh[x.limbs] + Weigh[y.limbs] > Weigh[[k \in 1..n |-> MaxLimb]]
      /\ \E k \in 1..(m - 1) : x.limbs[k] + y.limbs[k] = MaxLimb

\* No round changes what the numerals add up to, but for a sum that needs a new limb
\* while a lower limb is exactly full.
SumKept == [][Total' = Total \/ (phase = "sweep" /\ ExactlyFull(At(j - 1), At(i)))]_vars

\* Every call returns with the sum in one numeral; or it gives up, with two numerals
\* left, or with more when memory ran short.
SumsUp == <>(\/ phase = "done" /\ Len(block) = 1
             \/ phase = "gaveUp" /\ (starved \/ Len(block) = 2))

=============================================================================
