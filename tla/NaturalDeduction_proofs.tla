----------------------- MODULE NaturalDeduction_proofs -----------------------
(***************************************************************************)
(* Natural deduction is sound: what it proves is valid, and what an open   *)
(* level derived follows from the assumptions in force there.              *)
(***************************************************************************)
EXTENDS NaturalDeduction, SequenceTheorems, TLAPS

\* A level that is closed over one of its conclusions yields a formula that says
\* just that: the assumptions of the level imply the conclusion.
LEMMA ImplicationHolds ==
  ASSUME NEW hs \in Seq(Formula), Len(hs) \in 1..2, NEW c \in Formula,
         Implication(hs, c) \in Formula, NEW v \in Valuation
  PROVE  Holds(v, Implication(hs, c))
           <=> (AllHold(v, hs) => Holds(v, c))
<1>1. CASE Len(hs) = 1
  <2>1. Implication(hs, c) = Entails(hs[1], c)
    BY <1>1 DEF Implication
  <2>2. Entails(hs[1], c) \in Formula
    BY <2>1
  <2>3. Holds(v, Entails(hs[1], c)) <=> (Holds(v, hs[1]) => Holds(v, c))
    BY <2>2, FormulaAssumption DEF Entails
  <2>4. AllHold(v, hs) <=> Holds(v, hs[1])
    BY <1>1 DEF AllHold
  <2> QED BY <2>1, <2>3, <2>4
<1>2. CASE Len(hs) = 2
  <2>1. Implication(hs, c) = Entails2(hs[1], hs[2], c)
    BY <1>2 DEF Implication
  <2>2. Entails2(hs[1], hs[2], c) \in Formula
    BY <2>1
  <2>3. Holds(v, Entails2(hs[1], hs[2], c))
          <=> (Holds(v, hs[1]) /\ Holds(v, hs[2]) => Holds(v, c))
    BY <2>2, FormulaAssumption DEF Entails2
  <2>4. AllHold(v, hs) <=> Holds(v, hs[1]) /\ Holds(v, hs[2])
    BY <1>2 DEF AllHold
  <2> QED BY <2>1, <2>3, <2>4
<1> QED BY <1>1, <1>2

LEMMA IsASequence ==
  ASSUME NEW S, NEW n \in Nat, NEW f \in [1..n -> S]
  PROVE  f \in Seq(S) /\ Len(f) = n
<1>1. f \in Seq(S)
  BY SeqDef
<1>2. Len(f) \in Nat /\ DOMAIN f = 1..Len(f)
  BY <1>1, LenProperties
<1>3. DOMAIN f = 1..n
  OBVIOUS
<1> QED BY <1>1, <1>2, <1>3

LEMMA NonEmpty ==
  ASSUME NEW S, NEW s \in Seq(S)
  PROVE  Len(s) \in Nat /\ (s # <<>> <=> Len(s) > 0)
BY EmptySeq, LenProperties

LEMMA OpenLevelType ==
  ASSUME NEW l
  PROVE  l \in OpenLevel <=>
           \E a \in Seq(Formula), d \in SUBSET Formula :
              Len(a) \in 1..2 /\ l = [assumed |-> a, derived |-> d]
BY DEF OpenLevel

\* Deriving a formula touches nothing but what the innermost level derived.
LEMMA DeriveProperties ==
  ASSUME NEW ls \in Seq(OpenLevel), ls # <<>>, NEW f \in Formula
  PROVE  /\ Derive(ls, f) \in Seq(OpenLevel)
         /\ Len(Derive(ls, f)) = Len(ls)
         /\ \A i \in 1..Len(ls) :
              /\ Derive(ls, f)[i].assumed = ls[i].assumed
              /\ Derive(ls, f)[i].derived =
                   IF i = Len(ls) THEN ls[i].derived \cup {f} ELSE ls[i].derived
<1> DEFINE n == Len(ls)
           top == [assumed |-> ls[n].assumed, derived |-> ls[n].derived \cup {f}]
<1>1. n \in Nat /\ n > 0 /\ n \in 1..n
  OBVIOUS
<1>2. PICK a \in Seq(Formula), d \in SUBSET Formula :
        Len(a) \in 1..2 /\ ls[n] = [assumed |-> a, derived |-> d]
  <2>1. ls[n] \in OpenLevel
    BY <1>1
  <2> QED BY <2>1, OpenLevelType
<1>3. top = [assumed |-> a, derived |-> d \cup {f}]
  BY <1>2
<1>4. top \in OpenLevel
  BY <1>2, <1>3, OpenLevelType
<1>5. Derive(ls, f) = [ls EXCEPT ![n] = top]
  BY DEF Derive
<1>7. /\ Derive(ls, f) \in Seq(OpenLevel) /\ Len(Derive(ls, f)) = n
      /\ \A i \in 1..n : Derive(ls, f)[i] = IF i = n THEN top ELSE ls[i]
  <2> HIDE DEF top
  <2> QED BY <1>1, <1>4, <1>5, ExceptSeq, Z3
<1>8. top.assumed = ls[n].assumed /\ top.derived = ls[n].derived \cup {f}
  OBVIOUS
<1> HIDE DEF n, top
<1> QED BY <1>7, <1>8 DEF n

\* Closing the innermost level leaves the ones around it as they were.
LEMMA BelowProperties ==
  ASSUME NEW ls \in Seq(OpenLevel), Len(ls) > 1
  PROVE  LET below == SubSeq(ls, 1, Len(ls) - 1)
         IN  /\ below \in Seq(OpenLevel) /\ below # <<>>
             /\ Len(below) = Len(ls) - 1
             /\ \A i \in 1..(Len(ls) - 1) : below[i] = ls[i]
<1> DEFINE below == SubSeq(ls, 1, Len(ls) - 1)
<1>1. Len(ls) \in Nat /\ Len(ls) - 1 \in 1..Len(ls)
  OBVIOUS
<1>2. /\ Len(below) = Len(ls) - 1
      /\ below \in Seq(OpenLevel)
      /\ \A i \in 1..(Len(ls) - 1) : below[i] = ls[i]
  <2>1. \A i \in 1..(Len(ls) - 1) : ls[i] \in OpenLevel
    BY <1>1
  <2>2. /\ below \in Seq(OpenLevel)
        /\ Len(below) = IF 1 <= Len(ls) - 1 THEN (Len(ls) - 1) - 1 + 1 ELSE 0
        /\ \A i \in 1..((Len(ls) - 1) - 1 + 1) : below[i] = ls[1 + i - 1]
    BY <1>1, <2>1, SubSeqProperties
  <2> QED BY <1>1, <2>2
<1> HIDE DEF below
<1>3. below # <<>>
  BY <1>1, <1>2, NonEmpty
<1> QED BY <1>2, <1>3 DEF below

LEMMA KnownType == TypeOK => Known \subseteq Formula
<1> SUFFICES ASSUME TypeOK PROVE Known \subseteq Formula
  OBVIOUS
<1> DEFINE K == {Elements(levels[i].assumed) \cup levels[i].derived : i \in 1..Len(levels)}
<1>1. ASSUME NEW i \in 1..Len(levels)
      PROVE  Elements(levels[i].assumed) \cup levels[i].derived \subseteq Formula
  <2>1. levels[i] \in OpenLevel
    BY DEF TypeOK
  <2>2. PICK a \in Seq(Formula), d \in SUBSET Formula :
          levels[i] = [assumed |-> a, derived |-> d]
    BY <2>1, OpenLevelType
  <2>3. Elements(a) \subseteq Formula
    BY DEF Elements
  <2> QED BY <2>2, <2>3
<1>2. UNION K \subseteq Formula
  BY <1>1
<1> QED BY <1>2, PremisesAssumption DEF Known, TypeOK

\* The levels and the theorems are made of formulas.
THEOREM TypeCorrect == Spec => []TypeOK
<1>1. Init => TypeOK
  BY DEF Init, TypeOK
<1>2. TypeOK /\ [Next]_vars => TypeOK'
  <2> SUFFICES ASSUME TypeOK, [Next]_vars PROVE TypeOK'
    OBVIOUS
  <2>1. ASSUME NEW p \in Problem, Assume(p) PROVE TypeOK'
    <3>1. p \in Seq(Seq(Formula)) /\ Len(p) \in Nat
      BY ProblemAssumption
    <3>2. \A i \in 1..Len(p) : [assumed |-> p[i], derived |-> {}] \in OpenLevel
      <4>1. \A i \in 1..Len(p) : p[i] \in Seq(Formula) /\ Len(p[i]) \in 1..2
        BY <3>1, ProblemAssumption
      <4> QED BY <4>1, OpenLevelType
    <3>3. levels' \in Seq(OpenLevel)
      <4>1. levels' \in [1..Len(p) -> OpenLevel]
        BY <2>1, <3>2 DEF Assume
      <4> QED BY <3>1, <4>1, IsASequence
    <3> QED BY <2>1, <3>3 DEF Assume, TypeOK
  <2>2. ASSUME NEW f \in Known, ModusPonens(f) PROVE TypeOK'
    <3>1. f.con \in Formula
      BY <2>2, KnownType, FormulaAssumption DEF ModusPonens
    <3> QED BY <2>2, <3>1, DeriveProperties DEF ModusPonens, TypeOK
  <2>3. ASSUME levels # <<>>, NEW c \in levels[Len(levels)].derived, Discharge(c)
        PROVE  TypeOK'
    <3> DEFINE n == Len(levels)
               f == Implication(levels[n].assumed, c)
    <3>1. CASE n = 1
      BY <2>3, <3>1 DEF Discharge, TypeOK
    <3>2. CASE n # 1
      <4> DEFINE below == SubSeq(levels, 1, n - 1)
      <4>1. n \in Nat /\ n > 1
        <5>1. levels \in Seq(OpenLevel)
          BY DEF TypeOK
        <5> QED BY <2>3, <3>2, <5>1, NonEmpty, SMTT(30)
      <4>2. below \in Seq(OpenLevel) /\ below # <<>>
        BY <4>1, BelowProperties DEF TypeOK
      <4>3. f \in Formula /\ levels' = Derive(below, f) /\ theorems' = theorems
        BY <2>3, <3>2 DEF Discharge
      <4> HIDE DEF below, f
      <4> QED BY <4>2, <4>3, DeriveProperties DEF TypeOK
    <3> QED BY <3>1, <3>2
  <2>4. CASE GiveUp
    BY <2>4 DEF GiveUp, TypeOK
  <2>5. CASE UNCHANGED vars
    BY <2>5 DEF vars, TypeOK
  <2> QED BY <2>1, <2>2, <2>3, <2>4, <2>5 DEF Next
<1> QED BY <1>1, <1>2, PTL DEF Spec

-----------------------------------------------------------------------------
\* Under the assumptions of all the open levels, everything known is true.
LEMMA KnownHolds ==
  ASSUME TypeOK, Sound, NEW v \in Valuation, InForce(v, Len(levels)), NEW f \in Known
  PROVE  Holds(v, f)
<1>1. CASE f \in Premises
  BY <1>1, PremisesAssumption
<1>2. CASE f \in theorems
  BY <1>2 DEF Sound, TheoremsValid
<1>3. CASE f \in UNION {Elements(levels[i].assumed) \cup levels[i].derived : i \in 1..Len(levels)}
  <2>1. PICK i \in 1..Len(levels) : f \in Elements(levels[i].assumed) \cup levels[i].derived
    BY <1>3
  <2>2. Len(levels) \in Nat
    BY LenProperties DEF TypeOK
  <2>3. InForce(v, i)
    BY <2>2 DEF InForce
  <2>4. CASE f \in Elements(levels[i].assumed)
    BY <2>2, <2>4 DEF InForce, AllHold, Elements
  <2>5. CASE f \in levels[i].derived
    BY <2>3, <2>5 DEF Sound, ScopesSound
  <2> QED BY <2>1, <2>4, <2>5
<1> QED BY <1>1, <1>2, <1>3 DEF Known

LEMMA ImplicationType ==
  ASSUME TypeOK, levels # <<>>
  PROVE  /\ Len(levels) \in Nat /\ Len(levels) \in 1..Len(levels)
         /\ \A i \in 1..Len(levels) :
              /\ levels[i].assumed \in Seq(Formula) /\ Len(levels[i].assumed) \in 1..2
              /\ levels[i].derived \subseteq Formula
<1>1. levels \in Seq(OpenLevel) /\ Len(levels) \in Nat /\ Len(levels) > 0
  BY NonEmpty DEF TypeOK
<1>2. \A i \in 1..Len(levels) : levels[i] \in OpenLevel
  BY <1>1, ElementOfSeq
<1> QED BY <1>1, <1>2 DEF OpenLevel

\* What a discharge states follows from the levels around the one it closes.
LEMMA DischargeHolds ==
  ASSUME TypeOK, Sound, levels # <<>>,
         NEW c \in levels[Len(levels)].derived,
         Implication(levels[Len(levels)].assumed, c) \in Formula,
         NEW v \in Valuation, InForce(v, Len(levels) - 1)
  PROVE  Holds(v, Implication(levels[Len(levels)].assumed, c))
<1> DEFINE n == Len(levels)
           hs == levels[n].assumed
<1>1. n \in Nat /\ n \in 1..n /\ hs \in Seq(Formula) /\ Len(hs) \in 1..2 /\ c \in Formula
  BY ImplicationType
<1>2. ASSUME AllHold(v, hs) PROVE Holds(v, c)
  <2>1. \A j \in 1..n : j = n \/ j \in 1..(n - 1)
    BY <1>1
  <2>2. InForce(v, n)
    BY <1>2, <2>1 DEF InForce
  <2> QED BY <1>1, <2>2 DEF Sound, ScopesSound
<1> HIDE DEF n, hs
<1>3. Implication(hs, c) \in Formula
  BY DEF n, hs
<1>4. Holds(v, Implication(hs, c))
  BY <1>1, <1>2, <1>3, ImplicationHolds
<1> QED BY <1>4 DEF n, hs

\* A formula that holds under the assumptions of all the levels may be derived.
LEMMA DeriveSound ==
  ASSUME TypeOK, Sound, NEW n \in 1..Len(levels),
         NEW ls \in Seq(OpenLevel), ls # <<>>, Len(ls) = n,
         \A i \in 1..n : ls[i] = levels[i],
         NEW f \in Formula,
         \A v \in Valuation : InForce(v, n) => Holds(v, f),
         levels' = Derive(ls, f)
  PROVE  ScopesSound'
<1>1. /\ Len(levels') = n
      /\ \A i \in 1..n :
           /\ levels'[i].assumed = levels[i].assumed
           /\ levels'[i].derived =
                IF i = n THEN levels[i].derived \cup {f} ELSE levels[i].derived
  <2>1. /\ Len(Derive(ls, f)) = n
        /\ \A i \in 1..n :
             /\ Derive(ls, f)[i].assumed = ls[i].assumed
             /\ Derive(ls, f)[i].derived =
                  IF i = n THEN ls[i].derived \cup {f} ELSE ls[i].derived
    BY DeriveProperties, ZenonT(40)
  <2> QED BY <2>1
<1>2. Len(levels) \in Nat /\ n \in Nat
  BY LenProperties DEF TypeOK
<1> SUFFICES ASSUME NEW v \in Valuation, NEW i \in 1..n, InForce(v, i)',
                    NEW g \in levels'[i].derived
             PROVE  Holds(v, g)
  BY <1>1 DEF ScopesSound
<1>3. InForce(v, i)
  <2>0. \A j \in 1..i : j \in 1..n
    BY <1>2
  <2>1. \A j \in 1..i : levels'[j].assumed = levels[j].assumed
    BY <1>1, <2>0
  <2> QED BY <2>1 DEF InForce, AllHold
<1>4. CASE g \in levels[i].derived
  BY <1>2, <1>3, <1>4 DEF Sound, ScopesSound
<1>5. CASE g = f /\ i = n
  BY <1>3, <1>5
<1> QED BY <1>1, <1>4, <1>5

LEMMA SoundStep == TypeOK /\ Sound /\ [Next]_vars => Sound'
<1> SUFFICES ASSUME TypeOK, Sound, [Next]_vars PROVE Sound'
  OBVIOUS
<1>1. ASSUME NEW p \in Problem, Assume(p) PROVE Sound'
  <2>1. Len(p) \in Nat
    BY ProblemAssumption
  <2>2. \A i \in 1..Len(levels') : levels'[i].derived = {}
    BY <1>1, <2>1 DEF Assume
  <2> QED BY <1>1, <2>2 DEF Assume, Sound, TheoremsValid, ScopesSound
<1>2. ASSUME NEW f \in Known, ModusPonens(f) PROVE Sound'
  <2>1. f \in Formula /\ f.op = "entails" /\ f.hyp \in Known /\ f.con \in Formula
    BY <1>2, KnownType, FormulaAssumption DEF ModusPonens
  <2>2. \A v \in Valuation : InForce(v, Len(levels)) => Holds(v, f.con)
    BY <2>1, KnownHolds, FormulaAssumption
  <2>3. Len(levels) \in 1..Len(levels) /\ levels \in Seq(OpenLevel)
    BY <1>2, ImplicationType DEF ModusPonens, TypeOK
  <2>4. ScopesSound'
    BY <1>2, <2>1, <2>2, <2>3, DeriveSound DEF ModusPonens
  <2> QED BY <1>2, <2>4 DEF ModusPonens, Sound, TheoremsValid
<1>3. ASSUME levels # <<>>, NEW c \in levels[Len(levels)].derived, Discharge(c)
      PROVE  Sound'
  <2> DEFINE n == Len(levels)
             f == Implication(levels[n].assumed, c)
  <2>1. n \in Nat /\ n > 0 /\ f \in Formula
    BY <1>3, ImplicationType DEF Discharge
  <2>2. \A v \in Valuation : InForce(v, n - 1) => Holds(v, f)
    BY <1>3, <2>1, DischargeHolds
  <2>3. CASE n = 1
    <3>1. theorems' = theorems \cup {f} /\ levels' = <<>>
      BY <1>3, <2>3 DEF Discharge
    <3>2. \A v \in Valuation : InForce(v, 0)
      BY DEF InForce
    <3>3. \A v \in Valuation : Holds(v, f)
      BY <2>2, <2>3, <3>2
    <3>4. Len(levels') = 0
      BY <3>1
    <3> HIDE DEF f
    <3> QED BY <3>1, <3>3, <3>4 DEF Sound, TheoremsValid, ScopesSound
  <2>4. CASE n # 1
    <3> DEFINE below == SubSeq(levels, 1, n - 1)
    <3>1. n > 1 /\ n - 1 \in 1..Len(levels)
      <4>1. n \in Nat /\ n > 0
        BY <2>1
      <4> HIDE DEF n
      <4>2. n > 1 /\ n - 1 \in 1..n
        BY <2>4, <4>1
      <4> QED BY <4>2 DEF n
    <3>2. /\ below \in Seq(OpenLevel) /\ below # <<>> /\ Len(below) = n - 1
          /\ \A i \in 1..(n - 1) : below[i] = levels[i]
      BY <3>1, BelowProperties DEF TypeOK
    <3>3. levels' = Derive(below, f) /\ theorems' = theorems
      BY <1>3, <2>4 DEF Discharge
    <3> HIDE DEF below, f, n
    <3>4. ScopesSound'
      BY <2>1, <2>2, <3>1, <3>2, <3>3, DeriveSound
    <3> QED BY <3>3, <3>4 DEF Sound, TheoremsValid
  <2> QED BY <2>3, <2>4
<1>4. CASE GiveUp
  BY <1>4 DEF GiveUp, Sound, TheoremsValid, ScopesSound
<1>5. CASE UNCHANGED vars
  BY <1>5 DEF vars, Sound, TheoremsValid, ScopesSound, InForce
<1> QED BY <1>1, <1>2, <1>3, <1>4, <1>5 DEF Next

\* Natural deduction proves what is valid and derives what its assumptions imply.
THEOREM Soundness == Spec => []Sound
<1>1. Init => Sound
  BY DEF Init, Sound, TheoremsValid, ScopesSound
<1> QED BY <1>1, SoundStep, TypeCorrect, PTL DEF Spec

\* What a discharge of the outermost assumptions proves is valid (SoundStep).
THEOREM TheoremsAreValid == Spec => []TheoremsValid
<1>1. Sound => TheoremsValid
  BY DEF Sound
<1> QED BY <1>1, Soundness, PTL

=============================================================================
