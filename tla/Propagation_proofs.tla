-------------------------- MODULE Propagation_proofs --------------------------
(***************************************************************************)
(* For every network of expressions: propagation keeps its types, loses no *)
(* model of what was asserted, and so never reports a contradiction where  *)
(* there is a model; it empties no domain without reporting one; everyone  *)
(* watches whom its factory wired it to; and when the queue is empty the   *)
(* tables and the negations agree with the domains they watch.             *)
(***************************************************************************)
EXTENDS Propagation, SequenceTheorems, FiniteSetTheorems, WellFoundedInduction, TLAPS

-----------------------------------------------------------------------------
(* Sequences.                                                              *)

\* The smallest number of a set is a member of it.
LEMMA LeastIsMember ==
  ASSUME NEW I \in SUBSET Nat, I # {}
  PROVE  Min(I) \in I
<1> DEFINE Below == {p \in Nat \X Nat : p[1] < p[2]}
<1>1. IsWellFoundedOn(Below, Nat)
  BY NatLessThanWellFounded DEF OpToRel
<1>2. ASSUME NEW x \in Nat, NEW y \in Nat, <<y, x>> \notin Below
      PROVE  x <= y
  BY <1>2
<1> HIDE DEF Below
<1>3. PICK x \in I : \A y \in I : <<y, x>> \notin Below
  BY <1>1, WFMin
<1>4. \A y \in I : x <= y
  BY <1>2, <1>3
<1> QED BY <1>4, Zenon DEF Min

\* An element is erased from its place; what came after moves up.
ErasedAt(t, s, o, k) ==
  /\ k \in 1..Len(s) /\ s[k] = o
  /\ Len(t) = Len(s) - 1
  /\ \A i \in 1..(Len(s) - 1) : t[i] = IF i < k THEN s[i] ELSE s[i + 1]

LEMMA RemoveFirstErases ==
  ASSUME NEW S, NEW s \in Seq(S), NEW o
  PROVE  /\ RemoveFirst(s, o) \in Seq(S)
         /\ RemoveFirst(s, o) = s \/ \E k : ErasedAt(RemoveFirst(s, o), s, o, k)
<1>1. CASE \E i \in 1..Len(s) : s[i] = o
  <2> DEFINE I == {i \in 1..Len(s) : s[i] = o}
             k == Min(I)
             l == SubSeq(s, 1, k - 1)
             r == SubSeq(s, k + 1, Len(s))
  <2>1. Len(s) \in Nat
    BY LenProperties
  <2>2. k \in 1..Len(s) /\ s[k] = o
    <3>1. I \in SUBSET Nat /\ I # {}
      BY <1>1, <2>1
    <3> HIDE DEF I
    <3>2. Min(I) \in I
      BY <3>1, LeastIsMember
    <3> QED BY <3>2 DEF I
  <2>3. RemoveFirst(s, o) = l \o r
    BY <1>1 DEF RemoveFirst, RemoveAt, SelectInSeq
  <2> HIDE DEF k
  <2>4. /\ l \in Seq(S) /\ Len(l) = k - 1
        /\ \A i \in 1..(k - 1) : l[i] = s[i]
    <3>1. \A i \in 1..(k - 1) : s[i] \in S
      BY <2>1, <2>2, ElementOfSeq
    <3>2. /\ l \in Seq(S)
          /\ Len(l) = IF 1 <= k - 1 THEN k - 1 - 1 + 1 ELSE 0
          /\ \A i \in 1..(k - 1 - 1 + 1) : l[i] = s[1 + i - 1]
      BY <2>1, <2>2, <3>1, SubSeqProperties
    <3> QED BY <2>1, <2>2, <3>2
  <2>5. /\ r \in Seq(S) /\ Len(r) = Len(s) - k
        /\ \A i \in 1..(Len(s) - k) : r[i] = s[k + i]
    <3>1. \A i \in (k + 1)..Len(s) : s[i] \in S
      BY <2>1, <2>2, ElementOfSeq
    <3>2. /\ r \in Seq(S)
          /\ Len(r) = IF k + 1 <= Len(s) THEN Len(s) - (k + 1) + 1 ELSE 0
          /\ \A i \in 1..(Len(s) - (k + 1) + 1) : r[i] = s[(k + 1) + i - 1]
      BY <2>1, <2>2, <3>1, SubSeqProperties
    <3> QED BY <2>1, <2>2, <3>2
  <2> HIDE DEF l, r
  <2>6. /\ l \o r \in Seq(S) /\ Len(l \o r) = Len(l) + Len(r)
        /\ \A i \in 1..(Len(l) + Len(r)) :
             (l \o r)[i] = IF i <= Len(l) THEN l[i] ELSE r[i - Len(l)]
    BY <2>4, <2>5, ConcatProperties
  <2>7. ASSUME NEW i \in 1..(Len(s) - 1)
        PROVE  (l \o r)[i] = IF i < k THEN s[i] ELSE s[i + 1]
    <3>1. CASE i < k
      <4>1. i \in 1..(k - 1) /\ i <= Len(l) /\ i \in 1..(Len(l) + Len(r))
        BY <2>1, <2>2, <2>4, <2>5, <3>1
      <4> QED BY <2>4, <2>6, <3>1, <4>1
    <3>2. CASE ~(i < k)
      <4>1. /\ i - (k - 1) \in 1..(Len(s) - k) /\ k + (i - (k - 1)) = i + 1
            /\ i \in 1..(Len(l) + Len(r)) /\ ~(i <= Len(l)) /\ Len(l) = k - 1
        BY <2>1, <2>2, <2>4, <2>5, <3>2
      <4> QED BY <2>5, <2>6, <3>2, <4>1
    <3> QED BY <3>1, <3>2
  <2>8. Len(l \o r) = Len(s) - 1
    BY <2>1, <2>2, <2>4, <2>5, <2>6
  <2>9. ErasedAt(l \o r, s, o, k)
    BY <2>2, <2>7, <2>8 DEF ErasedAt
  <2> QED BY <2>3, <2>6, <2>9
<1>2. CASE ~(\E i \in 1..Len(s) : s[i] = o)
  BY <1>2 DEF RemoveFirst
<1> QED BY <1>1, <1>2

\* What is left once an element is erased was there before.
LEMMA RemoveFirstFacts ==
  ASSUME NEW S, NEW s \in Seq(S), NEW o
  PROVE  /\ RemoveFirst(s, o) \in Seq(S)
         /\ \A i \in 1..Len(RemoveFirst(s, o)) :
              \E j \in 1..Len(s) : RemoveFirst(s, o)[i] = s[j]
<1> DEFINE t == RemoveFirst(s, o)
<1>1. t \in Seq(S) /\ (t = s \/ \E k : ErasedAt(t, s, o, k))
  BY RemoveFirstErases
<1> HIDE DEF t
<1>2. ASSUME NEW k, ErasedAt(t, s, o, k), NEW i \in 1..Len(t)
      PROVE  \E j \in 1..Len(s) : t[i] = s[j]
  <2>1. /\ Len(s) \in Nat /\ k \in 1..Len(s) /\ i \in 1..(Len(s) - 1)
        /\ t[i] = IF i < k THEN s[i] ELSE s[i + 1]
    BY <1>2, LenProperties DEF ErasedAt
  <2>2. i \in 1..Len(s) /\ i + 1 \in 1..Len(s)
    BY <2>1
  <2> QED BY <2>1, <2>2
<1>3. \A i \in 1..Len(t) : \E j \in 1..Len(s) : t[i] = s[j]
  BY <1>1, <1>2
<1> QED BY <1>1, <1>3 DEF t

\* Appending observers, and joining queues.
LEMMA AppendFacts ==
  ASSUME NEW S, NEW s \in Seq(S), NEW o \in S
  PROVE  /\ Append(s, o) \in Seq(S)
         /\ \A i \in 1..Len(Append(s, o)) :
              Append(s, o)[i] = o \/ \E j \in 1..Len(s) : Append(s, o)[i] = s[j]
<1>1. Len(s) \in Nat
  BY LenProperties
<1>2. /\ Append(s, o) \in Seq(S)
      /\ Len(Append(s, o)) = Len(s) + 1
      /\ \A i \in 1..Len(s) : Append(s, o)[i] = s[i]
      /\ Append(s, o)[Len(s) + 1] = o
  BY AppendProperties
<1>3. ASSUME NEW i \in 1..(Len(s) + 1)
      PROVE  i = Len(s) + 1 \/ i \in 1..Len(s)
  BY <1>1
<1> QED BY <1>2, <1>3

LEMMA ConcatFacts ==
  ASSUME NEW S, NEW s \in Seq(S), NEW t \in Seq(S)
  PROVE  /\ s \o t \in Seq(S)
         /\ \A i \in 1..Len(s \o t) :
              \/ \E j \in 1..Len(s) : (s \o t)[i] = s[j]
              \/ \E j \in 1..Len(t) : (s \o t)[i] = t[j]
<1>1. Len(s) \in Nat /\ Len(t) \in Nat
  BY LenProperties
<1>2. /\ s \o t \in Seq(S)
      /\ Len(s \o t) = Len(s) + Len(t)
      /\ \A i \in 1..(Len(s) + Len(t)) :
           (s \o t)[i] = IF i <= Len(s) THEN s[i] ELSE t[i - Len(s)]
  BY ConcatProperties
<1>3. ASSUME NEW i \in 1..(Len(s) + Len(t))
      PROVE  (i <= Len(s) /\ i \in 1..Len(s)) \/ (~(i <= Len(s)) /\ i - Len(s) \in 1..Len(t))
  BY <1>1
<1> QED BY <1>2, <1>3

LEMMA TailFacts ==
  ASSUME NEW S, NEW s \in Seq(S), s # <<>>
  PROVE  /\ Head(s) = s[1] /\ 1 \in 1..Len(s) /\ Head(s) \in S
         /\ Tail(s) \in Seq(S)
         /\ \A i \in 1..Len(Tail(s)) : \E j \in 1..Len(s) : Tail(s)[i] = s[j]
<1>1. Len(s) \in Nat /\ Len(s) # 0
  BY LenProperties, EmptySeq
<1>2. /\ Head(s) \in S /\ Tail(s) \in Seq(S) /\ Len(Tail(s)) = Len(s) - 1
      /\ \A i \in 1..Len(Tail(s)) : Tail(s)[i] = s[i + 1]
  BY HeadTailProperties
<1>3. \A i \in 1..(Len(s) - 1) : i + 1 \in 1..Len(s)
  BY <1>1
<1>4. Head(s) = s[1] /\ 1 \in 1..Len(s)
  BY <1>1
<1> QED BY <1>2, <1>3, <1>4

-----------------------------------------------------------------------------
(* Values and expressions.                                                 *)

LEMMA ValueFacts ==
  ASSUME NEW l \in Logic
  PROVE  ValuesOf(l) \subseteq TruthValue /\ ValuesOf(l) # {}
BY DEF Logic, ValuesOf, TruthValue

LEMMA NegFacts ==
  ASSUME NEW x \in TruthValue
  PROVE  Neg(x) \in TruthValue /\ Neg(Neg(x)) = x
BY DEF TruthValue, Neg

LEMMA ShapeFacts ==
  ASSUME NEW e \in Expression
  PROVE  /\ LogicOf[e] \in Logic
         /\ IsNot(e) => Shape[e].of \in Expression
         /\ IsImplies(e) => \A c \in {1, 2} : Argument(e, c) \in Expression
         /\ IsVariable(e) \/ IsNot(e) \/ IsImplies(e)
         /\ ~(IsVariable(e) /\ IsNot(e)) /\ ~(IsVariable(e) /\ IsImplies(e))
         /\ ~(IsNot(e) /\ IsImplies(e))
<1>1. LogicOf[e] \in Logic
  BY LogicAssumption
<1>2. Shape[e] \in ShapeType
  BY ShapeAssumption
<1> QED BY <1>1, <1>2 DEF ShapeType, IsVariable, IsNot, IsImplies, Argument

\* The column of an argument holds that argument.
LEMMA ColumnFacts ==
  ASSUME NEW e \in Expression, NEW c \in {1, 2}
  PROVE  Column(e, c) \in {1, 2} /\ Argument(e, Column(e, c)) = Argument(e, c)
BY DEF Column

LEMMA ObserverTypes ==
  ASSUME NEW e \in Expression, NEW at \in Nat
  PROVE  /\ Negates(e, at) \in Observer /\ Ranges(e, at) \in Observer
         /\ \A c \in {1, 2} : Includes(e, at, c) \in Observer
BY ColumnFacts DEF Negates, Ranges, Includes, Observer

-----------------------------------------------------------------------------
(* Observers sit where their targets are arguments, and are only ever      *)
(* queued for domains of live expressions.                                 *)

\* A change of e's domain is the concern of observer o.
Concerns(e, o) ==
  /\ o.at # 0
  /\ o.kind = "negates" =>
       \/ IsNot(o.of) /\ Shape[o.of].of = e
       \/ IsNot(e) /\ Shape[e].of = o.of
  /\ o.kind = "includes" => IsImplies(o.of) /\ Argument(o.of, o.col) = e
  /\ o.kind = "ranges" => IsImplies(o.of) /\ o.of = e

Due(entry) == Alive(entry[1]) /\ Concerns(entry[1], entry[2])

WatchersFit ==
  \A e \in Expression : \A i \in 1..Len(watchers[e]) : Concerns(e, watchers[e][i])
QueueFits == \A i \in 1..Len(queue) : Due(queue[i])

TypeInv == TypeOK /\ WatchersFit /\ QueueFits

LEMMA NotificationsFacts ==
  ASSUME TypeOK, WatchersFit, NEW e \in Expression, Alive(e)
  PROVE  /\ Notifications(e) \in Seq(Expression \X Observer)
         /\ \A i \in 1..Len(Notifications(e)) : Due(Notifications(e)[i])
<1> DEFINE w == watchers[e]
           n == Len(w)
<1>1. w \in Seq(Observer) /\ n \in Nat
  BY LenProperties DEF TypeOK
<1>2. \A i \in 1..n : n + 1 - i \in 1..n
  BY <1>1
<1>3. \A i \in 1..n : w[n + 1 - i] \in Observer /\ Concerns(e, w[n + 1 - i])
  BY <1>1, <1>2, ElementOfSeq DEF WatchersFit
<1>4. Notifications(e) = [i \in 1..n |-> <<e, w[n + 1 - i]>>]
  BY DEF Notifications
<1>5. \A i \in 1..n : <<e, w[n + 1 - i]>> \in Expression \X Observer
  BY <1>3
<1>6. Notifications(e) \in Seq(Expression \X Observer)
  BY <1>1, <1>4, <1>5, IsASeq
<1>7. Len(Notifications(e)) = n
  BY <1>1, <1>4, <1>6, LenProperties
<1> QED BY <1>3, <1>4, <1>6, <1>7 DEF Due

\* What narrowing a domain does to the types.
LEMMA NarrowingFacts ==
  ASSUME TypeInv, NEW e \in Expression, Alive(e), live' = live,
         NEW rest \in Seq(Expression \X Observer),
         \A i \in 1..Len(rest) : Due(rest[i]),
         \/ \E v : ForceEqual(rest, e, v)
         \/ \E vs : RestrictTo(rest, e, vs)
  PROVE  /\ contradiction' \in BOOLEAN
         /\ dom' \in [Expression -> SUBSET TruthValue]
         /\ \A x \in Expression : dom'[x] \subseteq dom[x] /\ (x # e => dom'[x] = dom[x])
         /\ queue' \in Seq(Expression \X Observer)
         /\ \A i \in 1..Len(queue') : Due(queue'[i])
<1> DEFINE Q == Seq(Expression \X Observer)
           Fit(q) == q \in Q /\ \A i \in 1..Len(q) : Due(q[i])
<1>1. Fit(queue) /\ Fit(rest) /\ Fit(Notifications(e)) /\ Fit(<<>>)
  BY NotificationsFacts, EmptySeq DEF TypeInv, TypeOK, QueueFits
<1>2. ASSUME NEW q, NEW r, Fit(q), Fit(r)
      PROVE  Fit(q \o r)
  <2> DEFINE s == q \o r
  <2>1. /\ s \in Q
        /\ \A i \in 1..Len(s) : \/ \E j \in 1..Len(q) : s[i] = q[j]
                               \/ \E j \in 1..Len(r) : s[i] = r[j]
    <3> DEFINE S == Expression \X Observer
    <3>1. q \in Seq(S) /\ r \in Seq(S)
      BY <1>2
    <3> HIDE DEF S, Fit, Q
    <3>2. /\ q \o r \in Seq(S)
          /\ \A i \in 1..Len(q \o r) :
               \/ \E j \in 1..Len(q) : (q \o r)[i] = q[j]
               \/ \E j \in 1..Len(r) : (q \o r)[i] = r[j]
      BY <3>1, ConcatFacts
    <3> QED BY <3>2 DEF S, Q
  <2> HIDE DEF s
  <2>2. ASSUME NEW i \in 1..Len(s) PROVE Due(s[i])
    BY <1>2, <2>1
  <2> QED BY <2>1, <2>2 DEF s
<1>3. /\ contradiction' \in BOOLEAN
      /\ \E vs : dom' = [dom EXCEPT ![e] = dom[e] \cap vs]
      /\ \E q, r \in {queue, rest, Notifications(e), <<>>} : queue' = q \/ queue' = q \o r
  <2>1. CASE \E v : ForceEqual(rest, e, v)
    <3>1. PICK v : ForceEqual(rest, e, v)
      BY <2>1
    <3>2. dom \in [Expression -> SUBSET TruthValue]
      BY DEF TypeInv, TypeOK
    <3>3. dom' = [dom EXCEPT ![e] = dom[e] \cap (IF v \in dom[e] THEN {v} ELSE dom[e])]
      BY <3>1, <3>2 DEF ForceEqual
    <3> QED BY <3>1, <3>3 DEF ForceEqual
  <2>2. CASE \E vs : RestrictTo(rest, e, vs)
    <3>1. PICK vs : RestrictTo(rest, e, vs)
      BY <2>2
    <3> QED BY <3>1 DEF RestrictTo
  <2> QED BY <2>1, <2>2
<1>4. /\ dom' \in [Expression -> SUBSET TruthValue]
      /\ \A x \in Expression : dom'[x] \subseteq dom[x] /\ (x # e => dom'[x] = dom[x])
  BY <1>3 DEF TypeInv, TypeOK
<1>5. Fit(queue')
  <2>1. PICK q \in {queue, rest, Notifications(e), <<>>},
             r \in {queue, rest, Notifications(e), <<>>} : queue' = q \/ queue' = q \o r
    BY <1>3
  <2>2. Fit(q) /\ Fit(r)
    BY <1>1, Zenon
  <2> HIDE DEF Fit
  <2> QED BY <1>2, <2>1, <2>2
<1> QED BY <1>3, <1>4, <1>5

\* Adding an observer that belongs there keeps the watchers typed and in place.
LEMMA AppendWatcher ==
  ASSUME NEW w \in [Expression -> Seq(Observer)],
         \A x \in Expression : \A i \in 1..Len(w[x]) : Concerns(x, w[x][i]),
         NEW e \in Expression, NEW o \in Observer, Concerns(e, o)
  PROVE  LET u == [w EXCEPT ![e] = Append(@, o)]
         IN  /\ u \in [Expression -> Seq(Observer)]
             /\ \A x \in Expression : \A i \in 1..Len(u[x]) : Concerns(x, u[x][i])
<1> DEFINE u == [w EXCEPT ![e] = Append(@, o)]
<1>1. /\ Append(w[e], o) \in Seq(Observer)
      /\ \A i \in 1..Len(Append(w[e], o)) :
           Append(w[e], o)[i] = o \/ \E j \in 1..Len(w[e]) : Append(w[e], o)[i] = w[e][j]
  BY AppendFacts
<1>2. u[e] = Append(w[e], o) /\ \A x \in Expression : x # e => u[x] = w[x]
  OBVIOUS
<1>3. \A i \in 1..Len(Append(w[e], o)) : Concerns(e, Append(w[e], o)[i])
  BY <1>1
<1> QED BY <1>1, <1>2, <1>3

\* Giving an expression one observer, or none.
LEMMA ResetWatchers ==
  ASSUME NEW w \in [Expression -> Seq(Observer)],
         \A x \in Expression : \A i \in 1..Len(w[x]) : Concerns(x, w[x][i]),
         NEW e \in Expression, NEW s,
         \/ s = <<>>
         \/ \E o \in Observer : s = <<o>> /\ Concerns(e, o)
  PROVE  LET u == [w EXCEPT ![e] = s]
         IN  /\ u \in [Expression -> Seq(Observer)]
             /\ \A x \in Expression : \A i \in 1..Len(u[x]) : Concerns(x, u[x][i])
<1> DEFINE u == [w EXCEPT ![e] = s]
<1>1. s \in Seq(Observer) /\ \A i \in 1..Len(s) : Concerns(e, s[i])
  <2>1. CASE s = <<>>
    BY <2>1, EmptySeq
  <2>2. CASE \E o \in Observer : s = <<o>> /\ Concerns(e, o)
    BY <2>2
  <2> QED BY <2>1, <2>2
<1>2. u[e] = s /\ \A x \in Expression : x # e => u[x] = w[x]
  OBVIOUS
<1> QED BY <1>1, <1>2

\* construct_subtable_observers keeps the watchers typed and in place.
LEMMA WatchedFacts ==
  ASSUME TypeInv, NEW e \in Expression, IsImplies(e)
  PROVE  /\ Watched(e) \in [Expression -> Seq(Observer)]
         /\ \A x \in Expression : \A i \in 1..Len(Watched(e)[x]) :
              Concerns(x, Watched(e)[x][i])
<1> DEFINE at == born[e] + 1
           one == [watchers EXCEPT ![Argument(e, 1)] = Append(@, Includes(e, at, 1))]
           two == [one EXCEPT ![Argument(e, 2)] = Append(@, Includes(e, at, 2))]
<1>1. born[e] \in Nat
  BY DEF TypeInv, TypeOK
<1>2. at \in Nat /\ at # 0
  BY <1>1
<1>3. ASSUME NEW c \in {1, 2}
      PROVE  /\ Argument(e, c) \in Expression
             /\ Includes(e, at, c) \in Observer
             /\ Concerns(Argument(e, c), Includes(e, at, c))
  BY <1>2, ShapeFacts, ColumnFacts, ObserverTypes DEF Includes, Concerns
<1>4. /\ one \in [Expression -> Seq(Observer)]
      /\ \A x \in Expression : \A i \in 1..Len(one[x]) : Concerns(x, one[x][i])
  BY <1>3, AppendWatcher DEF TypeInv, TypeOK, WatchersFit
<1> HIDE DEF one, at
<1>5. /\ two \in [Expression -> Seq(Observer)]
      /\ \A x \in Expression : \A i \in 1..Len(two[x]) : Concerns(x, two[x][i])
  BY <1>3, <1>4, AppendWatcher
<1>6. Watched(e) = two
  BY DEF Watched, one, at
<1> QED BY <1>5, <1>6

-----------------------------------------------------------------------------
(* Every step keeps the types.                                             *)

LEMMA InitType == Init => TypeInv
<1> SUFFICES ASSUME Init PROVE TypeInv
  OBVIOUS
<1>1. /\ <<>> \in Seq(Observer) /\ <<>> \in Seq(Expression \X Observer)
      /\ Len(<<>>) = 0
  BY EmptySeq
<1>2. TypeOK
  <2>1. 0 \in Nat
    OBVIOUS
  <2>2. /\ born \in [Expression -> Nat] /\ live \in [Expression -> Nat]
        /\ watchers \in [Expression -> Seq(Observer)]
    BY <1>1, <2>1 DEF Init
  <2>3. /\ dom \in [Expression -> SUBSET TruthValue]
        /\ \A e \in Expression : dom[e] \subseteq ValuesOf(LogicOf[e])
        /\ table \in [Expression -> SUBSET (TruthValue \X TruthValue)]
    BY DEF Init
  <2> QED BY <1>1, <2>2, <2>3 DEF Init, TypeOK
<1>3. WatchersFit /\ QueueFits
  BY <1>1 DEF Init, WatchersFit, QueueFits
<1> QED BY <1>2, <1>3 DEF TypeInv

\* Constructions.
LEMMA ConstructType ==
  ASSUME TypeInv, NEW e \in Expression, Construct(e)
  PROVE  /\ born' \in [Expression -> Nat]
         /\ live' \in [Expression -> Nat]
         /\ dom' \in [Expression -> SUBSET TruthValue]
         /\ \A x \in Expression : dom'[x] \subseteq ValuesOf(LogicOf[x])
         /\ live'[e] = born[e] + 1 /\ live'[e] # 0 /\ dom'[e] = ValuesOf(LogicOf[e])
         /\ \A x \in Expression : x # e => live'[x] = live[x] /\ dom'[x] = dom[x]
<1>1. born[e] + 1 \in Nat /\ born[e] + 1 # 0
  BY DEF TypeInv, TypeOK
<1>2. ValuesOf(LogicOf[e]) \subseteq TruthValue
  BY ShapeFacts, ValueFacts
<1> QED BY <1>1, <1>2 DEF TypeInv, TypeOK, Construct

LEMMA VariableType ==
  ASSUME TypeInv, NEW e \in Expression, Variable(e)
  PROVE  TypeInv'
<1>1. TypeOK'
  BY ConstructType DEF Variable, MayConstruct, TypeInv, TypeOK
<1>2. WatchersFit'
  BY DEF Variable, TypeInv, WatchersFit, Concerns
<1>3. QueueFits'
  BY EmptySeq DEF Variable, MayConstruct, Ready, QueueFits
<1> QED BY <1>1, <1>2, <1>3 DEF TypeInv

LEMMA NotType ==
  ASSUME TypeInv, NEW e \in Expression, Not(e)
  PROVE  TypeInv'
<1> DEFINE a == Shape[e].of
           one == [watchers EXCEPT ![a] = Append(@, Negates(e, born[e] + 1))]
           two == [one EXCEPT ![e] = <<Negates(a, live[a])>>]
<1>1. /\ a \in Expression /\ live[a] \in Nat /\ live[a] # 0 /\ a # e
      /\ born[e] + 1 \in Nat /\ born[e] + 1 # 0
  <2>1. IsNot(e) /\ ~Alive(e) /\ MayConstruct(e)
    BY DEF Not
  <2>2. a \in Expression
    BY <2>1, ShapeFacts
  <2>3. Arguments(e) = {a}
    BY <2>1, ShapeFacts DEF Arguments
  <2>4. a # e /\ live[a] # 0
    BY <2>1, <2>3 DEF MayConstruct, Alive
  <2>5. born[e] \in Nat /\ live[a] \in Nat
    BY <2>2 DEF TypeInv, TypeOK
  <2> QED BY <2>2, <2>4, <2>5
<1>2. /\ Negates(e, born[e] + 1) \in Observer /\ Concerns(a, Negates(e, born[e] + 1))
      /\ Negates(a, live[a]) \in Observer /\ Concerns(e, Negates(a, live[a]))
  BY <1>1, ObserverTypes DEF Not, Negates, Concerns
<1>3. /\ one \in [Expression -> Seq(Observer)]
      /\ \A x \in Expression : \A i \in 1..Len(one[x]) : Concerns(x, one[x][i])
  BY <1>1, <1>2, AppendWatcher DEF TypeInv, TypeOK, WatchersFit
<1>4. watchers' = two
  BY DEF Not
<1>5. /\ two \in [Expression -> Seq(Observer)]
      /\ \A x \in Expression : \A i \in 1..Len(two[x]) : Concerns(x, two[x][i])
  <2> HIDE DEF one
  <2> QED BY <1>2, <1>3, ResetWatchers
<1> HIDE DEF two
<1>6. TypeOK'
  BY <1>4, <1>5, ConstructType DEF Not, MayConstruct, TypeInv, TypeOK
<1>7. WatchersFit'
  BY <1>4, <1>5 DEF WatchersFit, Concerns
<1>8. QueueFits'
  BY EmptySeq DEF Not, MayConstruct, Ready, QueueFits
<1> QED BY <1>6, <1>7, <1>8 DEF TypeInv

LEMMA ImpliesType ==
  ASSUME TypeInv, NEW e \in Expression, NonStrictlyImplies(e)
  PROVE  TypeInv'
<1> DEFINE two == [Watched(e) EXCEPT ![e] = <<Ranges(e, born[e] + 1)>>]
<1>1. born[e] + 1 \in Nat /\ born[e] + 1 # 0
  BY DEF TypeInv, TypeOK
<1>2. Ranges(e, born[e] + 1) \in Observer /\ Concerns(e, Ranges(e, born[e] + 1))
  BY <1>1, ObserverTypes DEF NonStrictlyImplies, Ranges, Concerns
<1>3. /\ Watched(e) \in [Expression -> Seq(Observer)]
      /\ \A x \in Expression : \A i \in 1..Len(Watched(e)[x]) : Concerns(x, Watched(e)[x][i])
  BY WatchedFacts DEF NonStrictlyImplies
<1>4. /\ two \in [Expression -> Seq(Observer)]
      /\ \A x \in Expression : \A i \in 1..Len(two[x]) : Concerns(x, two[x][i])
  BY <1>2, <1>3, ResetWatchers
<1>5. watchers' = two
  BY DEF NonStrictlyImplies
<1> HIDE DEF two
<1>6. dom[Argument(e, 1)] \X dom[Argument(e, 2)] \subseteq TruthValue \X TruthValue
  BY ShapeFacts DEF NonStrictlyImplies, TypeInv, TypeOK
<1>7. table' \in [Expression -> SUBSET (TruthValue \X TruthValue)]
  BY <1>6 DEF NonStrictlyImplies, TypeInv, TypeOK
<1>8. TypeOK'
  BY <1>4, <1>5, <1>7, ConstructType DEF NonStrictlyImplies, MayConstruct, TypeInv, TypeOK
<1>9. WatchersFit'
  BY <1>4, <1>5 DEF WatchersFit, Concerns
<1>10. QueueFits'
  BY EmptySeq DEF NonStrictlyImplies, MayConstruct, Ready, QueueFits
<1> QED BY <1>8, <1>9, <1>10 DEF TypeInv

LEMMA ImpliesAgainType ==
  ASSUME TypeInv, NEW e \in Expression, ImpliesAgain(e)
  PROVE  TypeInv'
<1>1. born[e] + 1 \in Nat
  BY DEF ImpliesAgain, MayConstruct, TypeInv, TypeOK
<1>2. /\ Watched(e) \in [Expression -> Seq(Observer)]
      /\ \A x \in Expression : \A i \in 1..Len(Watched(e)[x]) : Concerns(x, Watched(e)[x][i])
  BY WatchedFacts DEF ImpliesAgain
<1>3. TypeOK'
  BY <1>1, <1>2 DEF ImpliesAgain, TypeInv, TypeOK
<1>4. WatchersFit'
  BY <1>2 DEF ImpliesAgain, WatchersFit, Concerns
<1>5. QueueFits'
  BY EmptySeq DEF ImpliesAgain, MayConstruct, Ready, QueueFits
<1> QED BY <1>3, <1>4, <1>5 DEF TypeInv

LEMMA ReleaseType ==
  ASSUME TypeInv, NEW e \in Expression, Release(e)
  PROVE  TypeInv'
<1> DEFINE two == [watchers EXCEPT ![e] = <<>>]
<1>1. /\ two \in [Expression -> Seq(Observer)]
      /\ \A x \in Expression : \A i \in 1..Len(two[x]) : Concerns(x, two[x][i])
  BY ResetWatchers DEF TypeInv, TypeOK, WatchersFit
<1>2. watchers' = two
  BY DEF Release
<1> HIDE DEF two
<1>3. TypeOK'
  BY <1>1, <1>2 DEF Release, TypeInv, TypeOK
<1>4. WatchersFit'
  BY <1>1, <1>2 DEF WatchersFit, Concerns
<1>5. QueueFits'
  BY EmptySeq DEF Release, Ready, QueueFits
<1> QED BY <1>3, <1>4, <1>5 DEF TypeInv

\* Assertions.
LEMMA InferType ==
  ASSUME TypeInv, NEW e \in Expression, NEW v \in TruthValue, Infer(e, v)
  PROVE  TypeInv'
<1>1. /\ contradiction' \in BOOLEAN
      /\ dom' \in [Expression -> SUBSET TruthValue]
      /\ \A x \in Expression : dom'[x] \subseteq dom[x]
      /\ queue' \in Seq(Expression \X Observer)
      /\ \A i \in 1..Len(queue') : Due(queue'[i])
  <2>1. <<>> \in Seq(Expression \X Observer) /\ \A i \in 1..Len(<<>>) : Due((<<>>)[i])
    BY EmptySeq
  <2>2. Alive(e) /\ live' = live /\ ForceEqual(<<>>, e, v)
    BY DEF Infer
  <2> QED BY <2>1, <2>2, NarrowingFacts
<1>2. told' \subseteq Fact
  BY DEF Infer, Fact, TypeInv, TypeOK
<1>3. TypeOK'
  BY <1>1, <1>2 DEF Infer, TypeInv, TypeOK
<1>4. WatchersFit'
  BY DEF Infer, TypeInv, WatchersFit, Concerns
<1>5. QueueFits'
  BY <1>1 DEF Infer, QueueFits, Due, Alive, Concerns
<1> QED BY <1>3, <1>4, <1>5 DEF TypeInv

LEMMA ExcludeType ==
  ASSUME TypeInv, NEW e \in Expression, NEW v \in TruthValue, Exclude(e, v)
  PROVE  TypeInv'
<1>1. /\ Notifications(e) \in Seq(Expression \X Observer)
      /\ \A i \in 1..Len(Notifications(e)) : Due(Notifications(e)[i])
  BY NotificationsFacts DEF Exclude, TypeInv
<1>2. /\ queue' \in Seq(Expression \X Observer)
      /\ \A i \in 1..Len(queue') : Due(queue'[i])
  BY <1>1 DEF Exclude, TypeInv, TypeOK, QueueFits
<1>3. told' \subseteq Fact
  BY DEF Exclude, Fact, TypeInv, TypeOK
<1>4. /\ contradiction' \in BOOLEAN
      /\ dom' \in [Expression -> SUBSET TruthValue]
      /\ \A x \in Expression : dom'[x] \subseteq dom[x]
  BY DEF Exclude, TypeInv, TypeOK
<1>5. TypeOK'
  BY <1>2, <1>3, <1>4 DEF Exclude, TypeInv, TypeOK
<1>6. WatchersFit'
  BY DEF Exclude, TypeInv, WatchersFit, Concerns
<1>7. QueueFits'
  BY <1>2 DEF Exclude, QueueFits, Due, Alive, Concerns
<1> QED BY <1>5, <1>6, <1>7 DEF TypeInv

\* Deliveries.
LEMMA DeliverType ==
  ASSUME TypeInv, Deliver
  PROVE  TypeInv'
<1> DEFINE e == Head(queue)[1]
           o == Head(queue)[2]
           Q == Seq(Expression \X Observer)
<1>1. /\ Head(queue) \in Expression \X Observer
      /\ Tail(queue) \in Q
      /\ \A i \in 1..Len(Tail(queue)) : Due(Tail(queue)[i])
      /\ Due(Head(queue))
  BY TailFacts DEF Deliver, TypeInv, TypeOK, QueueFits
<1>2. e \in Expression /\ o \in Observer /\ Alive(e) /\ Concerns(e, o)
  BY <1>1 DEF Due
<1>3. born' = born /\ live' = live /\ told' = told
  BY DEF Deliver
<1>4. o.of \in Expression /\ o.col \in {1, 2} /\ (live[o.of] = o.at => Alive(o.of))
  BY <1>2 DEF Observer, Concerns, Alive
<1>5. DropObserver(e, o) \/ PassNegation(e, o) \/ PassInclusion(e, o) \/ PassRange(e, o)
  BY DEF Deliver
<1> HIDE DEF e, o
<1>6. CASE DropObserver(e, o)
  <2>0. watchers[e] \in Seq(Observer)
    BY <1>2 DEF TypeInv, TypeOK
  <2>1. /\ RemoveFirst(watchers[e], o) \in Seq(Observer)
        /\ \A i \in 1..Len(RemoveFirst(watchers[e], o)) :
             \E j \in 1..Len(watchers[e]) : RemoveFirst(watchers[e], o)[i] = watchers[e][j]
    BY <2>0, RemoveFirstFacts
  <2>2. \A i \in 1..Len(RemoveFirst(watchers[e], o)) :
          Concerns(e, RemoveFirst(watchers[e], o)[i])
    BY <1>2, <2>1 DEF TypeInv, WatchersFit
  <2>3. watchers' = [watchers EXCEPT ![e] = RemoveFirst(watchers[e], o)]
    BY <1>6 DEF DropObserver
  <2>4. TypeOK'
    BY <1>1, <1>3, <1>6, <2>1, <2>3 DEF DropObserver, TypeInv, TypeOK
  <2>5. watchers'[e] = RemoveFirst(watchers[e], o)
          /\ \A x \in Expression : x # e => watchers'[x] = watchers[x]
    BY <1>2, <2>3 DEF TypeInv, TypeOK
  <2>6. WatchersFit'
    BY <2>2, <2>5 DEF TypeInv, WatchersFit, Concerns
  <2>7. QueueFits'
    BY <1>1, <1>3, <1>6 DEF DropObserver, QueueFits, Due, Alive, Concerns
  <2> QED BY <2>4, <2>6, <2>7 DEF TypeInv
<1>7. CASE PassNegation(e, o)
  <2>1. /\ contradiction' \in BOOLEAN
        /\ dom' \in [Expression -> SUBSET TruthValue]
        /\ \A x \in Expression : dom'[x] \subseteq dom[x]
        /\ queue' \in Q
        /\ \A i \in 1..Len(queue') : Due(queue'[i])
    <3>1. \/ \E v : ForceEqual(Tail(queue), o.of, v)
          \/ \E vs : RestrictTo(Tail(queue), o.of, vs)
      BY <1>7 DEF PassNegation
    <3>2. Alive(o.of)
      BY <1>4, <1>7 DEF PassNegation
    <3> QED BY <1>1, <1>3, <1>4, <3>1, <3>2, NarrowingFacts
  <2>2. TypeOK'
    BY <1>3, <1>7, <2>1 DEF PassNegation, TypeInv, TypeOK
  <2>3. WatchersFit'
    BY <1>7 DEF PassNegation, TypeInv, WatchersFit, Concerns
  <2>4. QueueFits'
    BY <1>3, <2>1 DEF QueueFits, Due, Alive, Concerns
  <2> QED BY <2>2, <2>3, <2>4 DEF TypeInv
<1>8. CASE PassInclusion(e, o) \/ PassRange(e, o)
  <2>1. /\ watchers' = watchers /\ dom' = dom /\ contradiction' \in BOOLEAN
        /\ queue' = queue \/ queue' = Tail(queue)
    BY <1>8 DEF PassInclusion, PassRange, TypeInv, TypeOK
  <2>2. table' \in [Expression -> SUBSET (TruthValue \X TruthValue)]
    <3>1. /\ {r \in table[o.of] : r[o.col] \in dom[e]} \subseteq table[o.of]
          /\ {r \in table[o.of] : ValueOn(o.of, r) \in dom[e]} \subseteq table[o.of]
      OBVIOUS
    <3>2. \E rows \in SUBSET table[o.of] :
            table' = table \/ table' = [table EXCEPT ![o.of] = rows]
      <4>1. CASE PassInclusion(e, o)
        BY <3>1, <4>1 DEF PassInclusion
      <4>2. CASE PassRange(e, o)
        BY <3>1, <4>2 DEF PassRange
      <4> QED BY <1>8, <4>1, <4>2
    <3>3. PICK rows \in SUBSET table[o.of] :
            table' = table \/ table' = [table EXCEPT ![o.of] = rows]
      BY <3>2
    <3>4. table \in [Expression -> SUBSET (TruthValue \X TruthValue)]
      BY DEF TypeInv, TypeOK
    <3>5. rows \in SUBSET (TruthValue \X TruthValue)
      BY <1>4, <3>4
    <3>6. [table EXCEPT ![o.of] = rows] \in [Expression -> SUBSET (TruthValue \X TruthValue)]
      <4> DEFINE Rows == SUBSET (TruthValue \X TruthValue)
      <4>1. table \in [Expression -> Rows] /\ rows \in Rows
        BY <3>4, <3>5
      <4> HIDE DEF Rows
      <4>2. [table EXCEPT ![o.of] = rows] \in [Expression -> Rows]
        BY <4>1
      <4> QED BY <4>2 DEF Rows
    <3> QED BY <3>3, <3>4, <3>6
  <2>3. TypeOK'
    BY <1>1, <1>3, <2>1, <2>2 DEF TypeInv, TypeOK
  <2>4. WatchersFit'
    BY <2>1 DEF TypeInv, WatchersFit, Concerns
  <2>5. \A i \in 1..Len(queue') : Due(queue'[i])
    BY <1>1, <2>1 DEF TypeInv, QueueFits
  <2>6. QueueFits'
    BY <1>3, <2>5 DEF QueueFits, Due, Alive, Concerns
  <2> QED BY <2>3, <2>4, <2>6 DEF TypeInv
<1> QED BY <1>5, <1>6, <1>7, <1>8

LEMMA StutterType ==
  ASSUME TypeInv, UNCHANGED vars
  PROVE  TypeInv'
BY DEF vars, TypeInv, TypeOK, WatchersFit, QueueFits, Due, Alive, Concerns

LEMMA NextType == TypeInv /\ [Next]_vars => TypeInv'
<1> SUFFICES ASSUME TypeInv, [Next]_vars PROVE TypeInv'
  OBVIOUS
<1>1. CASE Deliver
  BY <1>1, DeliverType
<1>2. ASSUME NEW e \in Expression,
             \/ Variable(e) \/ Not(e) \/ NonStrictlyImplies(e) \/ ImpliesAgain(e) \/ Release(e)
             \/ \E v \in TruthValue : Infer(e, v) \/ Exclude(e, v)
      PROVE  TypeInv'
  BY <1>2, VariableType, NotType, ImpliesType, ImpliesAgainType, ReleaseType, InferType,
     ExcludeType
<1>3. CASE UNCHANGED vars
  BY <1>3, StutterType
<1> QED BY <1>1, <1>2, <1>3 DEF Next

\* The state keeps its types in every network: domains stay within their logics,
\* observers where they belong.
THEOREM TypeCorrect == PropagationSpec => []TypeOK
<1>1. PropagationSpec => []TypeInv
  BY InitType, NextType, PTL DEF PropagationSpec
<1>2. TypeInv => TypeOK
  BY DEF TypeInv
<1> QED BY <1>1, <1>2, PTL

-----------------------------------------------------------------------------
(* Every model of the asserted facts stays possible.                       *)

Possible(m) ==
  /\ ~contradiction
  /\ \A e \in Expression :
       Alive(e) => /\ m[e] \in dom[e]
                   /\ IsImplies(e) => <<m[Argument(e, 1)], m[Argument(e, 2)]>> \in table[e]

AllPossible == \A m \in Models(told) : Possible(m)

LEMMA ModelFacts ==
  ASSUME NEW facts, NEW m \in Models(facts), NEW e \in Expression
  PROVE  /\ m[e] \in ValuesOf(LogicOf[e]) /\ m[e] \in TruthValue
         /\ IsNot(e) => m[e] = Neg(m[Shape[e].of]) /\ m[Shape[e].of] = Neg(m[e])
         /\ IsImplies(e) => ValueOn(e, <<m[Argument(e, 1)], m[Argument(e, 2)]>>) = m[e]
<1>1. ASSUME NEW x \in Expression
      PROVE  m[x] \in ValuesOf(LogicOf[x]) /\ m[x] \in TruthValue
  BY ShapeFacts, ValueFacts DEF Models, Meanings, ObeysConnectives
<1>2. IsNot(e) => m[e] = Neg(m[Shape[e].of])
  BY DEF Models, Meanings, ObeysConnectives
<1>3. ASSUME IsNot(e) PROVE m[Shape[e].of] = Neg(m[e])
  BY <1>1, <1>2, <1>3, ShapeFacts, NegFacts
<1>4. ASSUME IsImplies(e)
      PROVE  ValueOn(e, <<m[Argument(e, 1)], m[Argument(e, 2)]>>) = m[e]
  <2> DEFINE row == <<m[Argument(e, 1)], m[Argument(e, 2)]>>
  <2>1. ASSUME NEW c \in {1, 2} PROVE row[Column(e, c)] = m[Argument(e, c)]
    BY DEF Column
  <2>2. m[e] = Implication(LogicOf[e], m[Argument(e, 1)], m[Argument(e, 2)])
    BY <1>4 DEF Models, Meanings, ObeysConnectives
  <2> QED BY <2>1, <2>2 DEF ValueOn
<1> QED BY <1>1, <1>2, <1>3, <1>4

\* A model of more facts is a model of fewer.
LEMMA FewerFacts ==
  ASSUME NEW facts, NEW more, facts \subseteq more
  PROVE  Models(more) \subseteq Models(facts)
BY DEF Models, Satisfies

\* Narrowing a domain to what a model allows keeps the model.
LEMMA NarrowingKeeps ==
  ASSUME TypeOK, NEW rest, NEW e \in Expression, NEW m, Possible(m), Alive(e),
         live' = live, table' = table,
         \/ ForceEqual(rest, e, m[e])
         \/ \E vs : m[e] \in vs /\ RestrictTo(rest, e, vs)
  PROVE  Possible(m)'
<1>1. m[e] \in dom[e]
  BY DEF Possible
<1>2. /\ ~contradiction'
      /\ \A x \in Expression : x # e => dom'[x] = dom[x]
      /\ m[e] \in dom'[e]
  BY <1>1 DEF ForceEqual, RestrictTo, TypeOK
<1> QED BY <1>1, <1>2 DEF Possible, Alive

\* Deliveries.
LEMMA DeliverKeeps ==
  ASSUME TypeInv, Deliver, NEW m \in Models(told), Possible(m)
  PROVE  Possible(m)'
<1> DEFINE e == Head(queue)[1]
           o == Head(queue)[2]
<1>1. e \in Expression /\ o \in Observer /\ Alive(e) /\ Concerns(e, o)
  BY TailFacts DEF Deliver, TypeInv, TypeOK, QueueFits, Due
<1>2. live' = live /\ TypeOK
  BY DEF Deliver, TypeInv
<1>3. o.of \in Expression /\ o.col \in {1, 2} /\ (live[o.of] = o.at => Alive(o.of))
  BY <1>1 DEF Observer, Concerns, Alive
<1>4. DropObserver(e, o) \/ PassNegation(e, o) \/ PassInclusion(e, o) \/ PassRange(e, o)
  BY DEF Deliver
<1> HIDE DEF e, o
<1>5. m[e] \in dom[e]
  BY <1>1 DEF Possible
<1>6. CASE DropObserver(e, o)
  BY <1>2, <1>6 DEF DropObserver, Possible, Alive
<1>7. CASE PassNegation(e, o)
  <2>1. Alive(o.of) /\ table' = table
    BY <1>3, <1>7 DEF PassNegation
  <2>2. m[o.of] = Neg(m[e])
    <3>1. \/ IsNot(o.of) /\ Shape[o.of].of = e
          \/ IsNot(e) /\ Shape[e].of = o.of
      BY <1>1, <1>7 DEF PassNegation, Concerns
    <3>2. /\ IsNot(o.of) => m[o.of] = Neg(m[Shape[o.of].of])
          /\ IsNot(e) => m[Shape[e].of] = Neg(m[e])
      BY <1>1, <1>3, ModelFacts
    <3> QED BY <3>1, <3>2
  <2>3. \/ ForceEqual(Tail(queue), o.of, m[o.of])
        \/ \E vs : m[o.of] \in vs /\ RestrictTo(Tail(queue), o.of, vs)
    BY <1>5, <1>7, <2>2 DEF PassNegation
  <2> QED BY <1>2, <1>3, <2>1, <2>3, NarrowingKeeps
<1> DEFINE row == <<m[Argument(o.of, 1)], m[Argument(o.of, 2)]>>
<1>8. CASE PassInclusion(e, o)
  <2>1. IsImplies(o.of) /\ Argument(o.of, o.col) = e /\ Alive(o.of)
    BY <1>1, <1>3, <1>8 DEF PassInclusion, Concerns
  <2>2. row \in table[o.of] /\ row[o.col] = m[e]
    BY <1>3, <2>1 DEF Possible
  <2>3. table' = [table EXCEPT ![o.of] = {r \in table[o.of] : r[o.col] \in dom[e]}]
    BY <1>5, <1>8 DEF PassInclusion
  <2>4. row \in table'[o.of] /\ \A x \in Expression : x # o.of => table'[x] = table[x]
    BY <1>2, <1>3, <1>5, <2>2, <2>3 DEF TypeOK
  <2>5. ~contradiction' /\ dom' = dom
    BY <1>5, <1>8 DEF PassInclusion
  <2> QED BY <1>2, <2>4, <2>5 DEF Possible, Alive
<1>9. CASE PassRange(e, o)
  <2>1. IsImplies(o.of) /\ o.of = e /\ Alive(o.of)
    BY <1>1, <1>3, <1>9 DEF PassRange, Concerns
  <2>2. row \in table[o.of] /\ ValueOn(o.of, row) = m[e]
    BY <1>3, <2>1, ModelFacts DEF Possible
  <2>3. table' = [table EXCEPT ![o.of] = {r \in table[o.of] : ValueOn(o.of, r) \in dom[e]}]
    BY <1>9 DEF PassRange
  <2>4. row \in table'[o.of] /\ \A x \in Expression : x # o.of => table'[x] = table[x]
    BY <1>2, <1>3, <1>5, <2>2, <2>3 DEF TypeOK
  <2>5. contradiction' = contradiction /\ dom' = dom
    BY <1>9 DEF PassRange
  <2> QED BY <1>2, <2>4, <2>5 DEF Possible, Alive
<1> QED BY <1>4, <1>6, <1>7, <1>8, <1>9

\* Calls.
LEMMA CallKeeps ==
  ASSUME TypeInv, NEW e \in Expression, NEW m \in Models(told'), Possible(m),
         \/ Variable(e) \/ Not(e) \/ NonStrictlyImplies(e) \/ ImpliesAgain(e) \/ Release(e)
         \/ \E v \in TruthValue : Infer(e, v) \/ Exclude(e, v)
  PROVE  Possible(m)'
<1>1. TypeOK
  BY DEF TypeInv
<1>2. CASE Variable(e) \/ Not(e)
  <2>1. Construct(e) /\ table' = table /\ contradiction' = contradiction /\ ~IsImplies(e)
    BY <1>2, ShapeFacts DEF Variable, Not
  <2>2. m[e] \in dom'[e]
    BY <1>1, <2>1, ModelFacts DEF Construct, TypeOK
  <2>3. \A x \in Expression : x # e => live'[x] = live[x] /\ dom'[x] = dom[x]
    BY <1>1, <2>1 DEF Construct, TypeOK
  <2> QED BY <2>1, <2>2, <2>3 DEF Possible, Alive
<1>3. CASE NonStrictlyImplies(e)
  <2>1. /\ Construct(e) /\ contradiction' = contradiction
        /\ table' = [table EXCEPT ![e] = dom[Argument(e, 1)] \X dom[Argument(e, 2)]]
    BY <1>3 DEF NonStrictlyImplies
  <2>2. m[e] \in dom'[e]
    BY <1>1, <2>1, ModelFacts DEF Construct, TypeOK
  <2>3. \A x \in Expression :
          x # e => live'[x] = live[x] /\ dom'[x] = dom[x] /\ table'[x] = table[x]
    BY <1>1, <2>1 DEF Construct, TypeOK
  <2>4. ASSUME NEW c \in {1, 2} PROVE m[Argument(e, c)] \in dom[Argument(e, c)]
    <3>1. Argument(e, c) \in Expression /\ Alive(Argument(e, c))
      BY <1>3, ShapeFacts DEF NonStrictlyImplies, MayConstruct, Arguments, IsImplies, IsVariable, IsNot
    <3> QED BY <3>1 DEF Possible
  <2>5. <<m[Argument(e, 1)], m[Argument(e, 2)]>> \in table'[e]
    BY <1>1, <2>1, <2>4 DEF TypeOK
  <2> QED BY <2>1, <2>2, <2>3, <2>5 DEF Possible, Alive
<1>4. CASE ImpliesAgain(e)
  BY <1>4 DEF ImpliesAgain, Possible, Alive
<1>5. CASE Release(e)
  <2>1. /\ live'[e] = 0 /\ contradiction' = contradiction
        /\ \A x \in Expression :
             x # e => live'[x] = live[x] /\ dom'[x] = dom[x] /\ table'[x] = table[x]
    BY <1>1, <1>5 DEF Release, TypeOK
  <2> QED BY <2>1 DEF Possible, Alive
<1>6. ASSUME NEW v \in TruthValue, Infer(e, v)
      PROVE  Possible(m)'
  <2>1. m[e] = v
    BY <1>6 DEF Infer, Models, Satisfies
  <2> QED BY <1>1, <1>6, <2>1, NarrowingKeeps DEF Infer
<1>7. ASSUME NEW v \in TruthValue, Exclude(e, v)
      PROVE  Possible(m)'
  <2>1. m[e] # v
    BY <1>7 DEF Exclude, Models, Satisfies
  <2>2. m[e] \in dom[e] /\ live' = live /\ table' = table
    BY <1>7 DEF Exclude, Possible
  <2>3. /\ ~contradiction' /\ m[e] \in dom'[e]
        /\ \A x \in Expression : x # e => dom'[x] = dom[x]
    BY <1>1, <1>7, <2>1, <2>2 DEF Exclude, TypeOK
  <2> QED BY <2>2, <2>3 DEF Possible, Alive
<1> QED BY <1>2, <1>3, <1>4, <1>5, <1>6, <1>7

LEMMA NextKeeps == TypeInv /\ AllPossible /\ [Next]_vars => AllPossible'
<1> SUFFICES ASSUME TypeInv, AllPossible, [Next]_vars,
                    NEW m \in Models(told')
             PROVE  Possible(m)'
  BY DEF AllPossible, Models, Satisfies
<1>1. told \subseteq told'
  BY DEF Next, Deliver, Variable, Not, NonStrictlyImplies, ImpliesAgain, Release, Infer,
         Exclude, vars
<1>2. m \in Models(told) /\ Possible(m)
  BY <1>1, FewerFacts DEF AllPossible
<1>3. CASE Deliver
  BY <1>2, <1>3, DeliverKeeps
<1>4. ASSUME NEW e \in Expression,
             \/ Variable(e) \/ Not(e) \/ NonStrictlyImplies(e) \/ ImpliesAgain(e) \/ Release(e)
             \/ \E v \in TruthValue : Infer(e, v) \/ Exclude(e, v)
      PROVE  Possible(m)'
  BY <1>2, <1>4, CallKeeps
<1>5. CASE UNCHANGED vars
  BY <1>2, <1>5 DEF vars, Possible, Alive
<1> QED BY <1>3, <1>4, <1>5 DEF Next

LEMMA AlwaysPossible == PropagationSpec => [](TypeInv /\ AllPossible)
<1>1. Init => AllPossible
  BY DEF Init, AllPossible, Possible, Alive
<1>2. TypeInv /\ AllPossible /\ [Next]_vars => (TypeInv /\ AllPossible)'
  BY NextType, NextKeeps
<1> QED BY InitType, <1>1, <1>2, PTL DEF PropagationSpec

\* In every network, no delivery and no call ever removes a value or a row that some
\* model of the asserted facts uses.
THEOREM SolutionsSurvive == PropagationSpec => []ModelsKept
<1>1. AllPossible => ModelsKept
  BY DEF AllPossible, Possible, ModelsKept
<1> QED BY <1>1, AlwaysPossible, PTL

\* In every network, a contradiction is thrown only when the facts have no model.
THEOREM ContradictionsAreReal == PropagationSpec => []ContradictionJustified
<1>1. AllPossible => ContradictionJustified
  BY DEF AllPossible, Possible, ContradictionJustified
<1> QED BY <1>1, AlwaysPossible, PTL

-----------------------------------------------------------------------------
(* No domain is emptied in silence.                                        *)

LEMMA NarrowingLeaves ==
  ASSUME TypeOK, NeverEmpty, ~contradiction, NEW rest, NEW e \in Expression, live' = live,
         \/ \E v : ForceEqual(rest, e, v)
         \/ \E vs : RestrictTo(rest, e, vs)
  PROVE  NeverEmpty'
<1>1. /\ ~contradiction' => dom'[e] # {}
      /\ \A x \in Expression : x # e => dom'[x] = dom[x]
  BY DEF ForceEqual, RestrictTo, TypeOK
<1> QED BY <1>1 DEF NeverEmpty, Alive

LEMMA NextLeaves == TypeInv /\ NeverEmpty /\ [Next]_vars => NeverEmpty'
<1> SUFFICES ASSUME TypeInv, NeverEmpty, [Next]_vars PROVE NeverEmpty'
  OBVIOUS
<1>1. TypeOK
  BY DEF TypeInv
<1>2. CASE Deliver
  <2> DEFINE e == Head(queue)[1]
             o == Head(queue)[2]
  <2>1. ~contradiction /\ live' = live
        /\ (DropObserver(e, o) \/ PassNegation(e, o) \/ PassInclusion(e, o) \/ PassRange(e, o))
    BY <1>2 DEF Deliver
  <2>2. o.of \in Expression
    BY <1>1, <1>2, TailFacts DEF Deliver, TypeOK, Observer
  <2> HIDE DEF e, o
  <2>3. CASE PassNegation(e, o)
    BY <1>1, <2>1, <2>2, <2>3, NarrowingLeaves DEF PassNegation
  <2>4. CASE DropObserver(e, o) \/ PassInclusion(e, o) \/ PassRange(e, o)
    BY <2>1, <2>4 DEF DropObserver, PassInclusion, PassRange, NeverEmpty, Alive
  <2> QED BY <2>1, <2>3, <2>4
<1>3. ASSUME NEW e \in Expression,
             Variable(e) \/ Not(e) \/ NonStrictlyImplies(e)
      PROVE  NeverEmpty'
  <2>1. Construct(e) /\ contradiction' = contradiction
    BY <1>3 DEF Variable, Not, NonStrictlyImplies
  <2>2. /\ dom'[e] # {}
        /\ \A x \in Expression : x # e => live'[x] = live[x] /\ dom'[x] = dom[x]
    BY <1>1, <2>1, ShapeFacts, ValueFacts DEF Construct, TypeOK
  <2> QED BY <2>1, <2>2 DEF NeverEmpty, Alive
<1>4. ASSUME NEW e \in Expression, ImpliesAgain(e) PROVE NeverEmpty'
  BY <1>4 DEF ImpliesAgain, NeverEmpty, Alive
<1>5. ASSUME NEW e \in Expression, Release(e) PROVE NeverEmpty'
  <2>1. /\ live'[e] = 0 /\ contradiction' = contradiction
        /\ \A x \in Expression : x # e => live'[x] = live[x] /\ dom'[x] = dom[x]
    BY <1>1, <1>5 DEF Release, TypeOK
  <2> QED BY <2>1 DEF NeverEmpty, Alive
<1>6. ASSUME NEW e \in Expression, NEW v \in TruthValue, Infer(e, v) PROVE NeverEmpty'
  BY <1>1, <1>6, NarrowingLeaves DEF Infer, MayTell, Ready
<1>7. ASSUME NEW e \in Expression, NEW v \in TruthValue, Exclude(e, v) PROVE NeverEmpty'
  <2>1. ~contradiction /\ live' = live /\ dom[e] # {}
    BY <1>7 DEF Exclude, MayTell, Ready, NeverEmpty
  <2>2. /\ ~contradiction' => dom'[e] # {}
        /\ \A x \in Expression : x # e => dom'[x] = dom[x]
    BY <1>1, <1>7, <2>1 DEF Exclude, TypeOK
  <2> QED BY <2>1, <2>2 DEF NeverEmpty, Alive
<1>8. CASE UNCHANGED vars
  BY <1>8 DEF vars, NeverEmpty, Alive
<1> QED BY <1>2, <1>3, <1>4, <1>5, <1>6, <1>7, <1>8 DEF Next

\* In every network, a live expression without a value comes with a contradiction.
THEOREM DomainsStayInhabited == PropagationSpec => []NeverEmpty
<1>1. Init => NeverEmpty
  BY DEF Init, NeverEmpty, Alive
<1>2. PropagationSpec => [](TypeInv /\ NeverEmpty)
  BY InitType, NextType, NextLeaves, <1>1, PTL DEF PropagationSpec
<1> QED BY <1>2, PTL

-----------------------------------------------------------------------------
(* The wiring: where in a list of watchers an observer stands.             *)

Places(s, o) == {i \in DOMAIN s : s[i] = o}
Once(s, o)   == \E i : Places(s, o) = {i}
Twice(s, o)  == \E i, j : i # j /\ Places(s, o) = {i, j}

LEMMA CountedPlaces ==
  ASSUME NEW s, NEW o
  PROVE  /\ Once(s, o) => Cardinality({i \in DOMAIN s : s[i] = o}) = 1
         /\ Twice(s, o) => Cardinality({i \in DOMAIN s : s[i] = o}) = 2
<1>1. ASSUME NEW i, Places(s, o) = {i}
      PROVE  Cardinality(Places(s, o)) = 1
  BY <1>1, FS_Singleton
<1>2. ASSUME NEW i, NEW j, i # j, Places(s, o) = {i, j}
      PROVE  Cardinality(Places(s, o)) = 2
  <2>1. IsFiniteSet({i}) /\ Cardinality({i}) = 1
    BY FS_Singleton
  <2>2. Cardinality({i} \cup {j}) = 1 + 1
    BY <1>2, <2>1, FS_AddElement
  <2>3. {i} \cup {j} = {i, j}
    OBVIOUS
  <2> QED BY <1>2, <2>2, <2>3
<1> QED BY <1>1, <1>2 DEF Once, Twice, Places

LEMMA PlacesAppended ==
  ASSUME NEW S, NEW s \in Seq(S), NEW x \in S, NEW o
  PROVE  /\ o # x => Places(Append(s, x), o) = Places(s, o)
         /\ o = x => Places(Append(s, x), o) = Places(s, o) \cup {Len(s) + 1}
<1>1. /\ Append(s, x) \in Seq(S) /\ Len(Append(s, x)) = Len(s) + 1 /\ Len(s) \in Nat
      /\ \A i \in 1..Len(s) : Append(s, x)[i] = s[i]
      /\ Append(s, x)[Len(s) + 1] = x
  BY AppendProperties, LenProperties
<1>2. DOMAIN Append(s, x) = 1..(Len(s) + 1) /\ DOMAIN s = 1..Len(s)
  BY <1>1, LenProperties
<1>3. 1..(Len(s) + 1) = 1..Len(s) \cup {Len(s) + 1}
  BY <1>1
<1> QED BY <1>1, <1>2, <1>3 DEF Places

\* Erasing another observer moves places without merging them.
LEMMA PlacesErased ==
  ASSUME NEW S, NEW s \in Seq(S), NEW x, NEW o, o # x
  PROVE  /\ Once(s, o) => Once(RemoveFirst(s, x), o)
         /\ Twice(s, o) => Twice(RemoveFirst(s, x), o)
<1> DEFINE t == RemoveFirst(s, x)
<1>1. t \in Seq(S) /\ (t = s \/ \E k : ErasedAt(t, s, x, k))
  BY RemoveFirstErases
<1> HIDE DEF t
<1>2. ASSUME NEW k, ErasedAt(t, s, x, k)
      PROVE  (Once(s, o) => Once(t, o)) /\ (Twice(s, o) => Twice(t, o))
  <2> DEFINE moved(i) == IF i < k THEN i ELSE i - 1
  <2>1. /\ Len(s) \in Nat /\ k \in 1..Len(s) /\ s[k] = x
        /\ DOMAIN s = 1..Len(s) /\ DOMAIN t = 1..(Len(s) - 1)
        /\ \A i \in 1..(Len(s) - 1) : t[i] = IF i < k THEN s[i] ELSE s[i + 1]
    BY <1>1, <1>2, LenProperties DEF ErasedAt
  <2>2. ASSUME NEW i \in Places(s, o)
        PROVE  i \in Int /\ i # k /\ moved(i) \in Places(t, o)
    <3>1. i \in 1..Len(s) /\ s[i] = o /\ i # k
      BY <2>1 DEF Places
    <3>2. CASE i < k
      BY <2>1, <3>1, <3>2 DEF Places
    <3>3. CASE i > k
      <4>1. i - 1 \in 1..(Len(s) - 1) /\ (i - 1) + 1 = i /\ ~(i - 1 < k) /\ ~(i < k)
        BY <2>1, <3>1, <3>3
      <4> QED BY <2>1, <3>1, <4>1 DEF Places
    <3> QED BY <2>1, <3>1, <3>2, <3>3
  <2>3. ASSUME NEW j \in Places(t, o)
        PROVE  \E i \in Places(s, o) : j = moved(i)
    <3>1. j \in 1..(Len(s) - 1) /\ t[j] = o
      BY <2>1 DEF Places
    <3>2. CASE j < k
      <4>1. j \in 1..Len(s) /\ s[j] = o
        BY <2>1, <3>1, <3>2
      <4> QED BY <2>1, <3>2, <4>1 DEF Places
    <3>3. CASE ~(j < k)
      <4>1. j + 1 \in 1..Len(s) /\ s[j + 1] = o /\ ~(j + 1 < k) /\ (j + 1) - 1 = j
        BY <2>1, <3>1, <3>3
      <4> QED BY <2>1, <4>1 DEF Places
    <3> QED BY <3>2, <3>3
  <2>4. ASSUME NEW i, Places(s, o) = {i} PROVE Once(t, o)
    <3>1. Places(t, o) = {moved(i)}
      <4> HIDE DEF moved
      <4> QED BY <2>2, <2>3, <2>4
    <3> QED BY <3>1 DEF Once
  <2>5. ASSUME NEW i, NEW j, i # j, Places(s, o) = {i, j} PROVE Twice(t, o)
    <3>1. Places(t, o) = {moved(i), moved(j)}
      <4> HIDE DEF moved
      <4> QED BY <2>2, <2>3, <2>5
    <3>2. moved(i) # moved(j)
      <4>1. i \in Int /\ j \in Int /\ i # k /\ j # k
        BY <2>2, <2>5
      <4> QED BY <2>1, <2>5, <4>1
    <3> QED BY <3>1, <3>2 DEF Twice
  <2> QED BY <2>4, <2>5 DEF Once, Twice
<1> QED BY <1>1, <1>2 DEF t

\* No observer is newer than its expression, and who is held is alive.
Fresh ==
  /\ \A e \in Expression : live[e] <= born[e]
  /\ \A e \in Expression : \A i \in 1..Len(watchers[e]) :
       watchers[e][i].at <= born[watchers[e][i].of]
Supported == \A e \in Expression : Alive(e) => \A a \in Arguments(e) : Alive(a)

NegationWired(e) ==
  LET a == Shape[e].of
  IN  Once(watchers[a], Negates(e, live[e])) /\ Once(watchers[e], Negates(a, live[a]))

ImplicationWired(e) ==
  /\ Once(watchers[e], Ranges(e, live[e]))
  /\ \A c \in {1, 2} :
       IF Argument(e, 1) = Argument(e, 2)
       THEN Twice(watchers[Argument(e, c)], Includes(e, live[e], c))
       ELSE Once(watchers[Argument(e, c)], Includes(e, live[e], c))

Wired ==
  \A e \in Expression :
    Alive(e) => /\ IsNot(e) => NegationWired(e)
                /\ IsImplies(e) => ImplicationWired(e)

WiringInv == TypeInv /\ Fresh /\ Supported /\ Wired

LEMMA WiredIsIntact == Wired => WiringIntact
BY CountedPlaces DEF Wired, NegationWired, ImplicationWired, WiringIntact

\* What keeps the wiring of an expression: it and its arguments stay who they are,
\* and no observer of theirs as they are is lost or doubled.
Concerned(e) == {e} \cup Arguments(e)

LEMMA WiringKept ==
  ASSUME NEW e \in Expression, TypeOK, Alive(e) , \A a \in Arguments(e) : Alive(a),
         IsNot(e) => NegationWired(e), IsImplies(e) => ImplicationWired(e),
         \A x \in Concerned(e) : live'[x] = live[x],
         \A x \in Concerned(e) : \A o \in Observer :
           o.of \in Concerned(e) /\ o.at = live[o.of]
             => /\ Once(watchers[x], o) => Once(watchers'[x], o)
                /\ Twice(watchers[x], o) => Twice(watchers'[x], o)
  PROVE  (IsNot(e) => NegationWired(e)') /\ (IsImplies(e) => ImplicationWired(e)')
<1>1. ASSUME IsNot(e) PROVE NegationWired(e)'
  <2> DEFINE a == Shape[e].of
  <2>1. a \in Expression /\ Concerned(e) = {e, a} /\ live[a] \in Nat /\ live[e] \in Nat
    BY <1>1, ShapeFacts DEF Concerned, Arguments, IsNot, IsVariable, TypeOK
  <2>2. Negates(e, live[e]) \in Observer /\ Negates(a, live[a]) \in Observer
    BY <2>1, ObserverTypes
  <2>3. /\ Negates(e, live[e]).of = e /\ Negates(e, live[e]).at = live[e]
        /\ Negates(a, live[a]).of = a /\ Negates(a, live[a]).at = live[a]
    BY DEF Negates
  <2> HIDE DEF a
  <2>4. Once(watchers[a], Negates(e, live[e])) /\ Once(watchers[e], Negates(a, live[a]))
    BY <1>1 DEF NegationWired, a
  <2>5. Once(watchers'[a], Negates(e, live[e])) /\ Once(watchers'[e], Negates(a, live[a]))
    BY <2>1, <2>2, <2>3, <2>4
  <2>6. live'[e] = live[e] /\ live'[a] = live[a]
    BY <2>1
  <2> QED BY <2>5, <2>6 DEF NegationWired, Negates, a
<1>2. ASSUME IsImplies(e) PROVE ImplicationWired(e)'
  <2>1. /\ \A c \in {1, 2} : Argument(e, c) \in Concerned(e)
        /\ e \in Concerned(e) /\ live[e] \in Nat /\ live'[e] = live[e]
    BY <1>2, ShapeFacts DEF Concerned, Arguments, IsImplies, IsNot, IsVariable, TypeOK
  <2>2. /\ Ranges(e, live[e]) \in Observer
        /\ Ranges(e, live[e]).of = e /\ Ranges(e, live[e]).at = live[e]
    BY <2>1, ObserverTypes DEF Ranges
  <2>3. \A c \in {1, 2} : /\ Includes(e, live[e], c) \in Observer
                          /\ Includes(e, live[e], c).of = e
                          /\ Includes(e, live[e], c).at = live[e]
    BY <2>1, ObserverTypes DEF Includes
  <2>4. Once(watchers'[e], Ranges(e, live'[e]))
    BY <1>2, <2>1, <2>2 DEF ImplicationWired
  <2>5. ASSUME NEW c \in {1, 2}
        PROVE  IF Argument(e, 1) = Argument(e, 2)
               THEN Twice(watchers'[Argument(e, c)], Includes(e, live'[e], c))
               ELSE Once(watchers'[Argument(e, c)], Includes(e, live'[e], c))
    BY <1>2, <2>1, <2>3 DEF ImplicationWired
  <2> QED BY <2>4, <2>5 DEF ImplicationWired, Ranges, Includes, Column, Argument
<1> QED BY <1>1, <1>2

\* construct_subtable_observers adds the two inclusions and nothing else.
InclusionsAdded(w, e, at) ==
  /\ \A x \in Expression, o \in Observer :
       o # Includes(e, at, 1) /\ o # Includes(e, at, 2)
         => Places(w[x], o) = Places(watchers[x], o)
  /\ Argument(e, 1) # Argument(e, 2) => \A c \in {1, 2} :
       \E i : Places(w[Argument(e, c)], Includes(e, at, c))
                = Places(watchers[Argument(e, c)], Includes(e, at, c)) \cup {i}
  /\ Argument(e, 1) = Argument(e, 2) => \A c \in {1, 2} :
       \E i, j : /\ i # j
                 /\ Places(w[Argument(e, c)], Includes(e, at, c))
                      = Places(watchers[Argument(e, c)], Includes(e, at, c)) \cup {i, j}

LEMMA WatchedPlaces ==
  ASSUME TypeInv, NEW e \in Expression, IsImplies(e)
  PROVE  InclusionsAdded(Watched(e), e, born[e] + 1)
<1> DEFINE at == born[e] + 1
           l == Argument(e, 1)
           r == Argument(e, 2)
           o1 == Includes(e, at, 1)
           o2 == Includes(e, at, 2)
           one == [watchers EXCEPT ![l] = Append(@, o1)]
           two == [one EXCEPT ![r] = Append(@, o2)]
<1>1. /\ watchers \in [Expression -> Seq(Observer)] /\ l \in Expression /\ r \in Expression
      /\ at \in Nat
  BY ShapeFacts DEF TypeInv, TypeOK
<1>2. o1 \in Observer /\ o2 \in Observer /\ (l = r => o1 = o2)
  BY <1>1, ObserverTypes DEF Includes, Column
<1>3. l # r => o1 # o2
  BY DEF Includes, Column
<1>4. Watched(e) = two
  BY DEF Watched
<1> HIDE DEF at, l, r, o1, o2
<1>5. /\ one \in [Expression -> Seq(Observer)]
      /\ one[l] = Append(watchers[l], o1)
      /\ \A x \in Expression : x # l => one[x] = watchers[x]
  <2>1. Append(watchers[l], o1) \in Seq(Observer)
    BY <1>1, <1>2, AppendProperties
  <2> QED BY <1>1, <2>1
<1> HIDE DEF one
<1>6. /\ two[r] = Append(one[r], o2)
      /\ \A x \in Expression : x # r => two[x] = one[x]
  BY <1>1, <1>5
<1> HIDE DEF two
<1>7. ASSUME NEW x \in Expression, NEW o \in Observer
      PROVE  /\ o # o1 \/ x # l => Places(one[x], o) = Places(watchers[x], o)
             /\ o # o2 \/ x # r => Places(two[x], o) = Places(one[x], o)
  <2>1. watchers[x] \in Seq(Observer) /\ one[x] \in Seq(Observer)
    BY <1>1, <1>5
  <2>2. o # o1 => Places(Append(watchers[x], o1), o) = Places(watchers[x], o)
    BY <1>2, <2>1, PlacesAppended
  <2>3. o # o2 => Places(Append(one[x], o2), o) = Places(one[x], o)
    BY <1>2, <2>1, PlacesAppended
  <2> QED BY <1>5, <1>6, <2>2, <2>3
<1>8. /\ Places(one[l], o1) = Places(watchers[l], o1) \cup {Len(watchers[l]) + 1}
      /\ Places(two[r], o2) = Places(one[r], o2) \cup {Len(one[r]) + 1}
  <2>1. watchers[l] \in Seq(Observer) /\ one[r] \in Seq(Observer)
    BY <1>1, <1>5
  <2> QED BY <1>2, <1>5, <1>6, <2>1, PlacesAppended
<1>9. ASSUME l # r, NEW c \in {1, 2}
      PROVE  \E i : Places(two[Argument(e, c)], Includes(e, at, c))
                      = Places(watchers[Argument(e, c)], Includes(e, at, c)) \cup {i}
  <2>1. CASE c = 1
    <3>1. Places(two[l], o1) = Places(watchers[l], o1) \cup {Len(watchers[l]) + 1}
      BY <1>1, <1>2, <1>7, <1>8, <1>9
    <3> QED BY <2>1, <3>1 DEF l, o1
  <2>2. CASE c = 2
    <3>1. Places(two[r], o2) = Places(watchers[r], o2) \cup {Len(one[r]) + 1}
      BY <1>1, <1>2, <1>7, <1>8, <1>9
    <3> QED BY <2>2, <3>1 DEF r, o2
  <2> QED BY <2>1, <2>2
<1>10. ASSUME l = r, NEW c \in {1, 2}
       PROVE  \E i, j : /\ i # j
                        /\ Places(two[Argument(e, c)], Includes(e, at, c))
                             = Places(watchers[Argument(e, c)], Includes(e, at, c)) \cup {i, j}
  <2>0. Argument(e, c) = l
    BY <1>10 DEF l, r
  <2>1. Includes(e, at, c) = o1 /\ o1 = o2
    BY <1>2, <1>10 DEF o1, o2
  <2>2. Len(one[l]) = Len(watchers[l]) + 1 /\ Len(watchers[l]) \in Nat
    BY <1>1, <1>2, <1>5, AppendProperties, LenProperties
  <2>3. Places(two[l], o1)
          = Places(watchers[l], o1) \cup {Len(watchers[l]) + 1, Len(one[l]) + 1}
    BY <1>8, <1>10, <2>1
  <2>4. Len(watchers[l]) + 1 # Len(one[l]) + 1
    BY <2>2
  <2> QED BY <2>0, <2>1, <2>3, <2>4
<1>11. \A x \in Expression, o \in Observer :
         o # o1 /\ o # o2 => Places(two[x], o) = Places(watchers[x], o)
  BY <1>7
<1>12. InclusionsAdded(two, e, at)
  BY <1>9, <1>10, <1>11 DEF InclusionsAdded, l, r, o1, o2
<1> QED BY <1>4, <1>12 DEF at

\* Nobody knows an incarnation that is to come.
LEMMA NotYetThere ==
  ASSUME TypeInv, Fresh, NEW x \in Expression, NEW o \in Observer, o.at = born[o.of] + 1
  PROVE  Places(watchers[x], o) = {}
<1>1. DOMAIN watchers[x] = 1..Len(watchers[x])
  BY LenProperties DEF TypeInv, TypeOK
<1>2. born[o.of] \in Nat
  BY DEF TypeInv, TypeOK, Observer
<1> QED BY <1>1, <1>2 DEF Places, Fresh

\* Every observer was there or is no newer than its expression.
LEMMA StaysFresh ==
  ASSUME TypeInv, Fresh, \A e \in Expression : born'[e] \in Nat /\ born[e] <= born'[e],
         \A e \in Expression : live'[e] <= born'[e],
         \A e \in Expression : \A i \in 1..Len(watchers'[e]) :
           \/ \E j \in 1..Len(watchers[e]) : watchers'[e][i] = watchers[e][j]
           \/ watchers'[e][i].at <= born'[watchers'[e][i].of]
  PROVE  Fresh'
<1>1. ASSUME NEW e \in Expression, NEW j \in 1..Len(watchers[e])
      PROVE  watchers[e][j].at <= born'[watchers[e][j].of]
  <2>1. watchers[e][j] \in Observer
    BY ElementOfSeq DEF TypeInv, TypeOK
  <2>2. /\ watchers[e][j].at \in Nat /\ watchers[e][j].of \in Expression
        /\ watchers[e][j].at <= born[watchers[e][j].of]
    BY <2>1 DEF Fresh, Observer
  <2>3. born[watchers[e][j].of] \in Nat
    BY <2>2 DEF TypeInv, TypeOK
  <2> QED BY <2>2, <2>3
<1> QED BY <1>1 DEF Fresh

\* The observers of Watched(e) are those there were and the two new ones.
LEMMA WatchedMembers ==
  ASSUME TypeInv, NEW e \in Expression, IsImplies(e), NEW x \in Expression,
         NEW i \in 1..Len(Watched(e)[x])
  PROVE  \/ \E j \in 1..Len(watchers[x]) : Watched(e)[x][i] = watchers[x][j]
         \/ \E c \in {1, 2} : Watched(e)[x][i] = Includes(e, born[e] + 1, c)
<1> DEFINE at == born[e] + 1
           l == Argument(e, 1)
           r == Argument(e, 2)
           o1 == Includes(e, at, 1)
           o2 == Includes(e, at, 2)
           one == [watchers EXCEPT ![l] = Append(@, o1)]
           two == [one EXCEPT ![r] = Append(@, o2)]
<1>1. /\ watchers \in [Expression -> Seq(Observer)] /\ l \in Expression /\ r \in Expression
      /\ at \in Nat
  BY ShapeFacts DEF TypeInv, TypeOK
<1>2. o1 \in Observer /\ o2 \in Observer
  BY <1>1, ObserverTypes
<1>3. Watched(e) = two
  BY DEF Watched
<1> HIDE DEF at, o1, o2
<1>4. one[x] \in Seq(Observer) /\ (one[x] = watchers[x] \/ one[x] = Append(watchers[x], o1))
  BY <1>1, <1>2, AppendProperties
<1>5. two[x] = one[x] \/ two[x] = Append(one[x], o2)
  BY <1>1
<1> HIDE DEF one, two
<1>6. ASSUME NEW k \in 1..Len(one[x])
      PROVE  one[x][k] = o1 \/ \E j \in 1..Len(watchers[x]) : one[x][k] = watchers[x][j]
  <2>1. watchers[x] \in Seq(Observer)
    BY <1>1
  <2>2. \A n \in 1..Len(Append(watchers[x], o1)) :
          \/ Append(watchers[x], o1)[n] = o1
          \/ \E j \in 1..Len(watchers[x]) : Append(watchers[x], o1)[n] = watchers[x][j]
    BY <1>2, <2>1, AppendFacts
  <2> QED BY <1>4, <2>2
<1>7. two[x][i] = o2 \/ \E k \in 1..Len(one[x]) : two[x][i] = one[x][k]
  <2>1. i \in 1..Len(two[x])
    BY <1>3
  <2> QED BY <1>2, <1>4, <1>5, <2>1, AppendFacts
<1>8. \/ two[x][i] = o2 \/ two[x][i] = o1
      \/ \E j \in 1..Len(watchers[x]) : two[x][i] = watchers[x][j]
  BY <1>6, <1>7
<1> QED BY <1>3, <1>8 DEF o1, o2, at

LEMMA FreshStep ==
  ASSUME TypeInv, Fresh, [Next]_vars
  PROVE  Fresh'
<1>0. TypeOK
  BY DEF TypeInv
<1>1. CASE Deliver
  <2> DEFINE e == Head(queue)[1]
             o == Head(queue)[2]
  <2>1. /\ born' = born /\ live' = live
        /\ \/ watchers' = watchers
           \/ watchers' = [watchers EXCEPT ![e] = RemoveFirst(@, o)]
    BY <1>1 DEF Deliver, DropObserver, PassNegation, PassInclusion, PassRange
  <2> HIDE DEF e, o
  <2>2. ASSUME NEW x \in Expression, NEW i \in 1..Len(watchers'[x])
        PROVE  \E j \in 1..Len(watchers[x]) : watchers'[x][i] = watchers[x][j]
    <3>1. watchers[x] \in Seq(Observer)
      BY <1>0 DEF TypeOK
    <3>2. watchers'[x] = watchers[x] \/ watchers'[x] = RemoveFirst(watchers[x], o)
      BY <1>0, <2>1 DEF TypeOK
    <3> QED BY <2>2, <3>1, <3>2, RemoveFirstFacts
  <2>3. \A x \in Expression : born'[x] \in Nat /\ born[x] <= born'[x]
    BY <1>0, <2>1 DEF TypeOK
  <2>4. \A x \in Expression : live'[x] <= born'[x]
    BY <2>1 DEF Fresh
  <2> QED BY <2>2, <2>3, <2>4, StaysFresh
<1>2. ASSUME NEW e \in Expression,
             \/ Variable(e) \/ Not(e) \/ NonStrictlyImplies(e) \/ ImpliesAgain(e)
      PROVE  Fresh'
  <2>1. /\ born' = [born EXCEPT ![e] = born[e] + 1] /\ born[e] \in Nat
        /\ live' = live \/ live' = [live EXCEPT ![e] = born[e] + 1]
    BY <1>0, <1>2
       DEF Variable, Not, NonStrictlyImplies, ImpliesAgain, Construct, TypeOK
  <2>2. /\ \A x \in Expression : born'[x] \in Nat /\ born[x] <= born'[x]
        /\ born'[e] = born[e] + 1
    BY <1>0, <2>1 DEF TypeOK
  <2>3. \A x \in Expression : live'[x] <= born'[x]
    BY <1>0, <2>1 DEF TypeOK, Fresh
  <2>4. ASSUME NEW x \in Expression, NEW i \in 1..Len(watchers'[x])
        PROVE  \/ \E j \in 1..Len(watchers[x]) : watchers'[x][i] = watchers[x][j]
               \/ watchers'[x][i].at <= born'[watchers'[x][i].of]
    <3>1. CASE Variable(e)
      BY <2>4, <3>1 DEF Variable
    <3>2. CASE Not(e)
      <4> DEFINE a == Shape[e].of
      <4>1. a \in Expression /\ a # e /\ live[a] \in Nat /\ live[a] <= born'[a]
        BY <1>0, <2>1, <3>2, ShapeFacts
           DEF Not, MayConstruct, Arguments, Alive, IsNot, IsVariable, TypeOK, Fresh
      <4> HIDE DEF a
      <4>2. Negates(e, born[e] + 1) \in Observer /\ watchers[a] \in Seq(Observer)
        BY <1>0, <2>1, <4>1, ObserverTypes DEF TypeOK
      <4>3. /\ x = e => watchers'[x] = <<Negates(a, live[a])>>
            /\ x = a => watchers'[x] = Append(watchers[a], Negates(e, born[e] + 1))
            /\ x # a /\ x # e => watchers'[x] = watchers[x]
        BY <1>0, <3>2, <4>1 DEF Not, TypeOK, a
      <4>4. CASE x = e
        <5>1. watchers'[x][i] = Negates(a, live[a])
          BY <2>4, <4>3, <4>4
        <5> QED BY <4>1, <5>1 DEF Negates
      <4>5. CASE x = a
        <5>1. \/ watchers'[x][i] = Negates(e, born[e] + 1)
              \/ \E j \in 1..Len(watchers[x]) : watchers'[x][i] = watchers[x][j]
          <6>1. watchers'[x] = Append(watchers[a], Negates(e, born[e] + 1))
            BY <4>3, <4>5
          <6>2. i \in 1..Len(Append(watchers[a], Negates(e, born[e] + 1)))
            BY <2>4, <6>1
          <6> QED BY <4>2, <4>5, <6>1, <6>2, AppendFacts
        <5> QED BY <2>1, <2>2, <5>1 DEF Negates
      <4> QED BY <2>4, <4>3, <4>4, <4>5
    <3>3. CASE NonStrictlyImplies(e) \/ ImpliesAgain(e)
      <4>1. /\ IsImplies(e)
            /\ \/ watchers' = Watched(e)
               \/ watchers' = [Watched(e) EXCEPT ![e] = <<Ranges(e, born[e] + 1)>>]
        BY <3>3 DEF NonStrictlyImplies, ImpliesAgain
      <4>2. Watched(e) \in [Expression -> Seq(Observer)]
        BY <4>1, WatchedFacts
      <4>3. \/ watchers'[x] = Watched(e)[x]
            \/ watchers'[x] = <<Ranges(e, born[e] + 1)>>
        BY <4>1, <4>2
      <4>4. CASE watchers'[x] = Watched(e)[x]
        <5>1. \/ \E j \in 1..Len(watchers[x]) : watchers'[x][i] = watchers[x][j]
              \/ \E c \in {1, 2} : watchers'[x][i] = Includes(e, born[e] + 1, c)
          BY <2>4, <4>1, <4>4, WatchedMembers
        <5> QED BY <2>1, <2>2, <5>1 DEF Includes
      <4>5. CASE watchers'[x] = <<Ranges(e, born[e] + 1)>>
        <5>1. watchers'[x][i] = Ranges(e, born[e] + 1)
          BY <2>4, <4>5
        <5> QED BY <2>1, <2>2, <5>1 DEF Ranges
      <4> QED BY <4>3, <4>4, <4>5
    <3> QED BY <1>2, <3>1, <3>2, <3>3
  <2> QED BY <2>2, <2>3, <2>4, StaysFresh
<1>3. ASSUME NEW e \in Expression, Release(e)
      PROVE  Fresh'
  <2>1. /\ born' = born /\ live' = [live EXCEPT ![e] = 0]
        /\ watchers' = [watchers EXCEPT ![e] = <<>>]
    BY <1>3 DEF Release
  <2>2. \A x \in Expression : born'[x] \in Nat /\ born[x] <= born'[x] /\ live'[x] <= born'[x]
    BY <1>0, <2>1 DEF TypeOK, Fresh
  <2>3. ASSUME NEW x \in Expression, NEW i \in 1..Len(watchers'[x])
        PROVE  \E j \in 1..Len(watchers[x]) : watchers'[x][i] = watchers[x][j]
    BY <1>0, <2>1, <2>3 DEF TypeOK
  <2> QED BY <2>2, <2>3, StaysFresh
<1>4. CASE born' = born /\ live' = live /\ watchers' = watchers
  BY <1>4 DEF Fresh
<1>5. ASSUME NEW e \in Expression, NEW v \in TruthValue, Infer(e, v) \/ Exclude(e, v)
      PROVE  Fresh'
  BY <1>4, <1>5 DEF Infer, Exclude
<1>6. CASE UNCHANGED vars
  BY <1>4, <1>6 DEF vars
<1> QED BY <1>1, <1>2, <1>3, <1>5, <1>6 DEF Next

LEMMA SupportedStep ==
  ASSUME TypeInv, Supported, [Next]_vars
  PROVE  Supported'
<1>0. TypeOK
  BY DEF TypeInv
<1>1. ASSUME NEW e \in Expression,
             Variable(e) \/ Not(e) \/ NonStrictlyImplies(e)
      PROVE  Supported'
  <2>1. /\ \A a \in Arguments(e) : Alive(a) /\ a \in Expression
        /\ live' = [live EXCEPT ![e] = born[e] + 1] /\ born[e] + 1 # 0
    BY <1>0, <1>1, ShapeFacts
       DEF Variable, Not, NonStrictlyImplies, MayConstruct, Construct, TypeOK, Arguments
  <2> QED BY <1>0, <2>1 DEF Supported, Alive, TypeOK
<1>2. ASSUME NEW e \in Expression, Release(e) PROVE Supported'
  <2>1. /\ live' = [live EXCEPT ![e] = 0]
        /\ \A p \in Expression : Alive(p) => e \notin Arguments(p)
    BY <1>2 DEF Release
  <2> QED BY <1>0, <2>1 DEF Supported, Alive, TypeOK
<1>3. CASE live' = live
  BY <1>3 DEF Supported, Alive
<1>4. ASSUME NEW e \in Expression,
             ImpliesAgain(e) \/ \E v \in TruthValue : Infer(e, v) \/ Exclude(e, v)
      PROVE  Supported'
  BY <1>3, <1>4 DEF ImpliesAgain, Infer, Exclude
<1>5. CASE Deliver \/ UNCHANGED vars
  BY <1>3, <1>5 DEF Deliver, vars
<1> QED BY <1>1, <1>2, <1>4, <1>5 DEF Next

\* Dropping an observer that is not its expression any more keeps the wiring.
LEMMA DeliverWired ==
  ASSUME WiringInv, Deliver
  PROVE  Wired'
<1> DEFINE h == Head(queue)[1]
           d == Head(queue)[2]
<1>1. /\ live' = live
      /\ \/ watchers' = watchers
         \/ watchers' = [watchers EXCEPT ![h] = RemoveFirst(@, d)] /\ live[d.of] # d.at
  BY DEF Deliver, DropObserver, PassNegation, PassInclusion, PassRange
<1> HIDE DEF h, d
<1>2. ASSUME NEW x \in Expression, NEW o \in Observer, o.at = live[o.of]
      PROVE  /\ Once(watchers[x], o) => Once(watchers'[x], o)
             /\ Twice(watchers[x], o) => Twice(watchers'[x], o)
  <2>1. watchers[x] \in Seq(Observer)
    BY DEF WiringInv, TypeInv, TypeOK
  <2>2. \/ watchers'[x] = watchers[x]
        \/ watchers'[x] = RemoveFirst(watchers[x], d) /\ o # d
    BY <1>1, <1>2 DEF WiringInv, TypeInv, TypeOK
  <2> QED BY <2>1, <2>2, PlacesErased
<1>3. ASSUME NEW e \in Expression, Alive(e)
      PROVE  (IsNot(e) => NegationWired(e)') /\ (IsImplies(e) => ImplicationWired(e)')
  <2>1. /\ TypeOK /\ \A a \in Arguments(e) : Alive(a)
        /\ IsNot(e) => NegationWired(e)
        /\ IsImplies(e) => ImplicationWired(e)
    BY <1>3 DEF WiringInv, TypeInv, Supported, Wired
  <2>2. \A x \in Concerned(e) : x \in Expression /\ live'[x] = live[x]
    BY <1>1, ShapeFacts DEF Concerned, Arguments
  <2>3. \A x \in Concerned(e) : \A o \in Observer :
          o.of \in Concerned(e) /\ o.at = live[o.of]
            => /\ Once(watchers[x], o) => Once(watchers'[x], o)
               /\ Twice(watchers[x], o) => Twice(watchers'[x], o)
    BY <1>2, <2>2
  <2> QED BY <1>3, <2>1, <2>2, <2>3, WiringKept
<1> QED BY <1>1, <1>3 DEF Wired, Alive, IsNot, IsImplies

\* A step that only adds observers still to come leaves an expression wired.
LEMMA OthersWired ==
  ASSUME WiringInv, NEW e \in Expression, Alive(e),
         \A x \in Concerned(e) : live'[x] = live[x],
         \A x \in Concerned(e) : \A o \in Observer :
           o.at <= born[o.of] => Places(watchers'[x], o) = Places(watchers[x], o)
  PROVE  (IsNot(e) => NegationWired(e)') /\ (IsImplies(e) => ImplicationWired(e)')
<1>1. /\ TypeOK /\ \A a \in Arguments(e) : Alive(a)
      /\ IsNot(e) => NegationWired(e)
      /\ IsImplies(e) => ImplicationWired(e)
  BY DEF WiringInv, TypeInv, Supported, Wired
<1>2. \A x \in Concerned(e) : x \in Expression /\ live[x] <= born[x]
  BY ShapeFacts DEF Concerned, Arguments, WiringInv, Fresh
<1>3. \A x \in Concerned(e) : \A o \in Observer :
        o.of \in Concerned(e) /\ o.at = live[o.of]
          => /\ Once(watchers[x], o) => Once(watchers'[x], o)
             /\ Twice(watchers[x], o) => Twice(watchers'[x], o)
  BY <1>2 DEF Once, Twice
<1> QED BY <1>1, <1>3, WiringKept

\* Between a release and the next construction an expression is nobody's argument.
LEMMA Unconcerned ==
  ASSUME WiringInv, NEW p \in Expression, NEW e \in Expression, Alive(e), ~Alive(p)
  PROVE  p \notin Concerned(e)
BY DEF WiringInv, Supported, Concerned

LEMMA NotWired ==
  ASSUME WiringInv, NEW p \in Expression, Not(p)
  PROVE  Wired'
<1> DEFINE a == Shape[p].of
           at == born[p] + 1
           new == Negates(p, at)
<1>0. TypeOK /\ TypeInv /\ Fresh
  BY DEF WiringInv, TypeInv
<1>1. /\ a \in Expression /\ a # p /\ ~Alive(p) /\ IsNot(p) /\ ~IsImplies(p)
      /\ live[a] \in Nat /\ at \in Nat /\ born[p] \in Nat
  BY <1>0, ShapeFacts
     DEF Not, MayConstruct, Arguments, Alive, IsNot, IsVariable, IsImplies, TypeOK
<1>2. /\ live'[p] = at /\ \A x \in Expression : x # p => live'[x] = live[x]
  BY <1>0 DEF Not, Construct, TypeOK
<1>3. /\ watchers'[p] = <<Negates(a, live[a])>>
      /\ watchers'[a] = Append(watchers[a], new)
      /\ \A x \in Expression : x # p /\ x # a => watchers'[x] = watchers[x]
  BY <1>0, <1>1 DEF Not, TypeOK
<1> HIDE DEF a, at
<1>4. new \in Observer /\ new.at = at /\ new.of = p /\ Negates(a, live[a]) \in Observer
  BY <1>1, ObserverTypes DEF Negates
<1>5. watchers[a] \in Seq(Observer)
  BY <1>0, <1>1 DEF TypeOK
<1> HIDE DEF new
<1>6. ASSUME NEW x \in Expression, x # p, NEW o \in Observer, o.at <= born[o.of]
      PROVE  Places(watchers'[x], o) = Places(watchers[x], o)
  <2>1. o # new
    <3>1. ~(at <= born[p])
      BY <1>1 DEF at
    <3> QED BY <1>4, <1>6, <3>1
  <2>2. Places(Append(watchers[a], new), o) = Places(watchers[a], o)
    BY <1>4, <1>5, <2>1, PlacesAppended
  <2> QED BY <1>3, <1>6, <2>2
<1>7. ASSUME NEW e \in Expression, Alive(e)
      PROVE  (IsNot(e) => NegationWired(e)') /\ (IsImplies(e) => ImplicationWired(e)')
  <2>1. p \notin Concerned(e) /\ \A x \in Concerned(e) : x \in Expression
    BY <1>1, <1>7, Unconcerned, ShapeFacts DEF Concerned, Arguments
  <2> QED BY <1>2, <1>6, <1>7, <2>1, OthersWired
<1>8. NegationWired(p)'
  <2>1. Places(watchers[a], new) = {}
    BY <1>0, <1>1, <1>4, NotYetThere DEF at
  <2>2. Places(watchers'[a], new) = {Len(watchers[a]) + 1}
    BY <1>3, <1>4, <1>5, <2>1, PlacesAppended
  <2>3. Places(watchers'[p], Negates(a, live[a])) = {1}
    <3>1. DOMAIN <<Negates(a, live[a])>> = {1}
      OBVIOUS
    <3> QED BY <1>3, <3>1 DEF Places
  <2>4. Once(watchers'[a], new) /\ Once(watchers'[p], Negates(a, live[a]))
    BY <2>2, <2>3 DEF Once
  <2>5. live'[a] = live[a]
    BY <1>1, <1>2
  <2> QED BY <1>2, <2>4, <2>5 DEF NegationWired, Negates, a, new
<1>9. ASSUME NEW e \in Expression, e # p, live'[e] # 0
      PROVE  (IsNot(e) => NegationWired(e)') /\ (IsImplies(e) => ImplicationWired(e)')
  BY <1>2, <1>7, <1>9 DEF Alive
<1> QED BY <1>1, <1>8, <1>9 DEF Wired, Alive, IsNot, IsImplies

LEMMA ImpliesWired ==
  ASSUME WiringInv, NEW p \in Expression, NonStrictlyImplies(p)
  PROVE  Wired'
<1> DEFINE at == born[p] + 1
<1>0. TypeOK /\ TypeInv /\ Fresh
  BY DEF WiringInv, TypeInv
<1>1. /\ \A c \in {1, 2} : Argument(p, c) \in Expression /\ Argument(p, c) # p
      /\ ~Alive(p) /\ IsImplies(p) /\ ~IsNot(p) /\ at \in Nat /\ born[p] \in Nat
  BY <1>0, ShapeFacts
     DEF NonStrictlyImplies, MayConstruct, Arguments, Alive, IsNot, IsVariable, IsImplies, TypeOK
<1>2. /\ live'[p] = at /\ \A x \in Expression : x # p => live'[x] = live[x]
  BY <1>0 DEF NonStrictlyImplies, Construct, TypeOK
<1>3. /\ watchers'[p] = <<Ranges(p, at)>>
      /\ \A x \in Expression : x # p => watchers'[x] = Watched(p)[x]
  <2>1. Watched(p) \in [Expression -> Seq(Observer)]
    BY <1>0, <1>1, WatchedFacts
  <2> QED BY <2>1 DEF NonStrictlyImplies
<1>4. InclusionsAdded(Watched(p), p, at)
  BY <1>0, <1>1, WatchedPlaces
<1>5. \A c \in {1, 2} : /\ Includes(p, at, c) \in Observer
                        /\ Includes(p, at, c).at = at /\ Includes(p, at, c).of = p
  BY <1>1, ObserverTypes DEF Includes
<1>6. ASSUME NEW x \in Expression, x # p, NEW o \in Observer, o.at <= born[o.of]
      PROVE  Places(watchers'[x], o) = Places(watchers[x], o)
  <2>1. ~(at <= born[p])
    BY <1>1
  <2> HIDE DEF at
  <2>2. o # Includes(p, at, 1) /\ o # Includes(p, at, 2)
    BY <1>5, <1>6, <2>1
  <2> QED BY <1>3, <1>4, <1>6, <2>2 DEF InclusionsAdded
<1>7. ASSUME NEW e \in Expression, Alive(e)
      PROVE  (IsNot(e) => NegationWired(e)') /\ (IsImplies(e) => ImplicationWired(e)')
  <2>1. p \notin Concerned(e) /\ \A x \in Concerned(e) : x \in Expression
    BY <1>1, <1>7, Unconcerned, ShapeFacts DEF Concerned, Arguments
  <2> QED BY <1>2, <1>6, <1>7, <2>1, OthersWired
<1>8. ImplicationWired(p)'
  <2>1. Once(watchers'[p], Ranges(p, at))
    <3>1. DOMAIN <<Ranges(p, at)>> = {1}
      OBVIOUS
    <3>2. Places(watchers'[p], Ranges(p, at)) = {1}
      BY <1>3, <3>1 DEF Places
    <3> QED BY <3>2 DEF Once
  <2>2. ASSUME NEW c \in {1, 2}
        PROVE  Places(watchers[Argument(p, c)], Includes(p, at, c)) = {}
    BY <1>0, <1>1, <1>5, NotYetThere
  <2>3. \A c \in {1, 2} : watchers'[Argument(p, c)] = Watched(p)[Argument(p, c)]
    BY <1>1, <1>3
  <2> HIDE DEF at
  <2>4. ASSUME NEW c \in {1, 2}
        PROVE  IF Argument(p, 1) = Argument(p, 2)
               THEN Twice(watchers'[Argument(p, c)], Includes(p, at, c))
               ELSE Once(watchers'[Argument(p, c)], Includes(p, at, c))
    <3>1. CASE Argument(p, 1) = Argument(p, 2)
      <4>1. PICK i, j : /\ i # j
                        /\ Places(Watched(p)[Argument(p, c)], Includes(p, at, c))
                             = Places(watchers[Argument(p, c)], Includes(p, at, c)) \cup {i, j}
        BY <1>4, <3>1 DEF InclusionsAdded
      <4>2. Places(watchers'[Argument(p, c)], Includes(p, at, c)) = {i, j}
        BY <2>2, <2>3, <4>1
      <4> QED BY <3>1, <4>1, <4>2 DEF Twice
    <3>2. CASE Argument(p, 1) # Argument(p, 2)
      <4>1. PICK i : Places(Watched(p)[Argument(p, c)], Includes(p, at, c))
                       = Places(watchers[Argument(p, c)], Includes(p, at, c)) \cup {i}
        BY <1>4, <3>2 DEF InclusionsAdded
      <4>2. Places(watchers'[Argument(p, c)], Includes(p, at, c)) = {i}
        BY <2>2, <2>3, <4>1
      <4> QED BY <3>2, <4>2 DEF Once
    <3> QED BY <3>1, <3>2
  <2> QED BY <1>2, <2>1, <2>4 DEF ImplicationWired, Ranges, Includes, Column, Argument
<1>9. ASSUME NEW e \in Expression, e # p, live'[e] # 0
      PROVE  (IsNot(e) => NegationWired(e)') /\ (IsImplies(e) => ImplicationWired(e)')
  BY <1>2, <1>7, <1>9 DEF Alive
<1> QED BY <1>1, <1>8, <1>9 DEF Wired, Alive, IsNot, IsImplies

LEMMA WiredStep ==
  ASSUME WiringInv, [Next]_vars
  PROVE  Wired'
<1>0. TypeOK /\ TypeInv /\ Fresh
  BY DEF WiringInv, TypeInv
<1>1. CASE Deliver
  BY <1>1, DeliverWired
<1>2. ASSUME NEW p \in Expression, Variable(p) \/ Release(p)
      PROVE  Wired'
  <2>1. /\ \A x \in Expression : x # p => live'[x] = live[x] /\ watchers'[x] = watchers[x]
        /\ live'[p] = 0 \/ (IsVariable(p) /\ ~Alive(p))
    BY <1>0, <1>2 DEF Variable, Release, Construct, TypeOK
  <2>2. ASSUME NEW e \in Expression, e # p, Alive(e)
        PROVE  (IsNot(e) => NegationWired(e)') /\ (IsImplies(e) => ImplicationWired(e)')
    <3>1. p \notin Concerned(e)
      <4>1. CASE Variable(p)
        BY <2>2, <4>1, Unconcerned DEF Variable
      <4>2. CASE Release(p)
        BY <2>2, <4>2 DEF Release, Concerned
      <4> QED BY <1>2, <4>1, <4>2
    <3>2. \A x \in Concerned(e) : x \in Expression
      BY ShapeFacts DEF Concerned, Arguments
    <3> QED BY <2>1, <2>2, <3>1, <3>2, OthersWired
  <2> QED BY <2>1, <2>2, ShapeFacts DEF Wired, Alive, IsNot, IsImplies, IsVariable
<1>3. ASSUME NEW p \in Expression, Not(p) PROVE Wired'
  BY <1>3, NotWired
<1>4. ASSUME NEW p \in Expression, NonStrictlyImplies(p) PROVE Wired'
  BY <1>4, ImpliesWired
<1>5. ASSUME NEW p \in Expression, ImpliesAgain(p) PROVE Wired'
  <2> DEFINE at == born[p] + 1
  <2>1. live' = live /\ watchers' = Watched(p) /\ IsImplies(p)
    BY <1>5 DEF ImpliesAgain
  <2>2. InclusionsAdded(Watched(p), p, at)
    BY <1>0, <2>1, WatchedPlaces
  <2>3. born[p] \in Nat /\ ~(at <= born[p])
    BY <1>0 DEF TypeOK
  <2> HIDE DEF at
  <2>4. ASSUME NEW x \in Expression, NEW o \in Observer, o.at <= born[o.of]
        PROVE  Places(watchers'[x], o) = Places(watchers[x], o)
    <3>1. o # Includes(p, at, 1) /\ o # Includes(p, at, 2)
      BY <2>3, <2>4 DEF Includes
    <3> QED BY <2>1, <2>2, <3>1 DEF InclusionsAdded
  <2>5. ASSUME NEW e \in Expression, Alive(e)
        PROVE  (IsNot(e) => NegationWired(e)') /\ (IsImplies(e) => ImplicationWired(e)')
    <3>1. \A x \in Concerned(e) : x \in Expression
      BY ShapeFacts DEF Concerned, Arguments
    <3> QED BY <2>1, <2>4, <2>5, <3>1, OthersWired
  <2> QED BY <2>1, <2>5 DEF Wired, Alive, IsNot, IsImplies
<1>6. CASE live' = live /\ watchers' = watchers
  BY <1>6 DEF WiringInv, Wired, Alive, NegationWired, ImplicationWired, IsNot, IsImplies,
              Negates, Ranges, Includes, Column, Argument
<1>7. ASSUME NEW p \in Expression, NEW v \in TruthValue, Infer(p, v) \/ Exclude(p, v)
      PROVE  Wired'
  BY <1>6, <1>7 DEF Infer, Exclude
<1>8. CASE UNCHANGED vars
  BY <1>6, <1>8 DEF vars
<1> QED BY <1>1, <1>2, <1>3, <1>4, <1>5, <1>7, <1>8 DEF Next

LEMMA AlwaysWired == PropagationSpec => []WiringInv
<1>1. Init => WiringInv
  <2> SUFFICES ASSUME Init PROVE WiringInv
    OBVIOUS
  <2>1. TypeInv
    BY InitType
  <2>2. \A e \in Expression : live[e] = 0 /\ born[e] = 0 /\ watchers[e] = <<>>
    BY DEF Init
  <2>3. Fresh /\ Supported /\ Wired
    BY <2>2 DEF Fresh, Supported, Wired, Alive
  <2> QED BY <2>1, <2>3 DEF WiringInv
<1>2. WiringInv /\ [Next]_vars => WiringInv'
  BY NextType, FreshStep, SupportedStep, WiredStep DEF WiringInv
<1> QED BY <1>1, <1>2, PTL DEF PropagationSpec

\* In every network, however often expressions are discarded and built again, each
\* live one and its arguments watch each other, and nobody twice (wire_in, onNext).
THEOREM WiringStaysIntact == PropagationSpec => []WiringIntact
<1>1. WiringInv => WiringIntact
  BY WiredIsIntact DEF WiringInv
<1> QED BY <1>1, AlwaysWired, PTL

-----------------------------------------------------------------------------
(* What the queue still owes.                                              *)

Pending(q, entry) == \E i \in 1..Len(q) : q[i] = entry
InQueue(entry)    == Pending(queue, entry)

\* Rows that are still possible are in the table; a row that is not is about to be
\* removed by an observer in the queue.
RowsTracked(e) ==
  /\ \A r \in dom[Argument(e, 1)] \X dom[Argument(e, 2)] :
       ValueOn(e, r) \in dom[e] => r \in table[e]
  /\ \A c \in {1, 2} : \/ \A r \in table[e] : r[c] \in dom[Argument(e, c)]
                      \/ InQueue(<<Argument(e, c), Includes(e, live[e], c)>>)
  /\ \/ \A r \in table[e] : ValueOn(e, r) \in dom[e]
     \/ InQueue(<<e, Ranges(e, live[e])>>)

\* A value that the argument allows is allowed, negated, or about to be taken from it.
Covers(e) ==
  LET a == Shape[e].of
  IN  Mirror(e) \subseteq dom[e] \/ InQueue(<<e, Negates(a, live[a])>>)

Tracked(e) ==
  /\ (IsImplies(e) /\ Argument(e, 1) # Argument(e, 2)) => RowsTracked(e)
  /\ IsNot(e) => Covers(e)

QueueOwes == ~contradiction => \A e \in Expression : Alive(e) => Tracked(e)

\* A step leaves a negation that followed its argument following it.
StillFollows(e) == IsNot(e) /\ Follows(e) => Follows(e)'

\* The connectives stay in their logics' ranges, and a logic in those above it.
LEMMA ImplicationRange ==
  ASSUME NEW l \in Logic, NEW x \in ValuesOf(l), NEW y \in ValuesOf(l)
  PROVE  Implication(l, x, y) \in ValuesOf(l)
<1>1. Neg(x) \in ValuesOf(l)
  BY DEF Logic, ValuesOf, TruthValue, Neg
<1> DEFINE nx == Neg(x)
<1>2. nx \in ValuesOf(l)
  BY <1>1
<1> HIDE DEF nx
<1>3. Or(l, nx, y) \in ValuesOf(l)
  BY <1>2 DEF Logic, ValuesOf, TruthValue, Or, Core, OrIdentity, OrAnnihilator, AndAnnihilator,
     IsCommutative
<1> QED BY <1>3 DEF Implication, nx

LEMMA CommonRange ==
  ASSUME NEW e \in Expression, IsImplies(e), NEW c \in {1, 2}
  PROVE  ValuesOf(LogicOf[Argument(e, c)]) \subseteq ValuesOf(LogicOf[e])
<1>1. /\ Comparable(LogicOf[Argument(e, 1)], LogicOf[Argument(e, 2)])
      /\ LogicOf[e] = CommonLogic(LogicOf[Argument(e, 1)], LogicOf[Argument(e, 2)])
  BY LogicAssumption DEF IsImplies, Argument
<1>2. ASSUME NEW l \in Logic, NEW m \in Logic, IsSublogic(l, m)
      PROVE  ValuesOf(l) \subseteq ValuesOf(m)
  BY <1>2 DEF Logic, IsSublogic, ValuesOf, TruthValue
<1>3. \A d \in {1, 2} : LogicOf[Argument(e, d)] \in Logic
  BY ShapeFacts
<1> QED BY <1>1, <1>2, <1>3 DEF Comparable, CommonLogic

LEMMA RowInRange ==
  ASSUME NEW e \in Expression, IsImplies(e), Argument(e, 1) # Argument(e, 2),
         NEW r \in ValuesOf(LogicOf[Argument(e, 1)]) \X ValuesOf(LogicOf[Argument(e, 2)])
  PROVE  ValueOn(e, r) \in ValuesOf(LogicOf[e])
<1>1. Column(e, 1) = 1 /\ Column(e, 2) = 2
  BY DEF Column
<1>2. r[1] \in ValuesOf(LogicOf[e]) /\ r[2] \in ValuesOf(LogicOf[e])
  BY CommonRange
<1>3. LogicOf[e] \in Logic
  BY ShapeFacts
<1> QED BY <1>1, <1>2, <1>3, ImplicationRange DEF ValueOn

\* Every observer on a domain is among its notifications.
LEMMA EveryoneIsNotified ==
  ASSUME TypeOK, NEW e \in Expression, NEW o, Places(watchers[e], o) # {}
  PROVE  \E i \in 1..Len(Notifications(e)) : Notifications(e)[i] = <<e, o>>
<1> DEFINE w == watchers[e]
           n == Len(w)
<1>1. w \in Seq(Observer) /\ n \in Nat /\ DOMAIN w = 1..n
  BY LenProperties DEF TypeOK
<1>2. PICK j \in 1..n : w[j] = o
  BY <1>1 DEF Places
<1>3. Notifications(e) = [i \in 1..n |-> <<e, w[n + 1 - i]>>]
  BY DEF Notifications
<1>4. Len(Notifications(e)) = n
  <2> DEFINE S == Expression \X Observer
  <2>1. \A i \in 1..n : <<e, w[n + 1 - i]>> \in S
    BY <1>1, ElementOfSeq
  <2> HIDE DEF S
  <2>2. Notifications(e) \in Seq(S)
    BY <1>1, <1>3, <2>1, IsASeq
  <2> QED BY <1>1, <1>3, <2>2, LenProperties
<1>5. n + 1 - j \in 1..n /\ n + 1 - (n + 1 - j) = j
  BY <1>1
<1> QED BY <1>2, <1>3, <1>4, <1>5

\* What a narrowing of x's domain leaves in a queue whose other entries are "rest".
Narrowed(x, rest) ==
  /\ live' = live
  /\ \A y \in Expression : dom'[y] \subseteq dom[y] /\ (y # x => dom'[y] = dom[y])
  /\ \A entry : Pending(rest, entry) => Pending(queue', entry)
  /\ dom'[x] # dom[x] =>
       \A o : Places(watchers[x], o) # {} => Pending(queue', <<x, o>>)

LEMMA PendingConcat ==
  ASSUME NEW S, NEW q \in Seq(S), NEW r \in Seq(S), NEW entry
  PROVE  Pending(q \o r, entry) <=> Pending(q, entry) \/ Pending(r, entry)
<1>1. /\ Len(q) \in Nat /\ Len(r) \in Nat /\ Len(q \o r) = Len(q) + Len(r)
      /\ \A i \in 1..(Len(q) + Len(r)) :
           (q \o r)[i] = IF i <= Len(q) THEN q[i] ELSE r[i - Len(q)]
  BY LenProperties, ConcatProperties
<1>2. ASSUME Pending(q \o r, entry) PROVE Pending(q, entry) \/ Pending(r, entry)
  <2>1. PICK i \in 1..(Len(q) + Len(r)) : (q \o r)[i] = entry
    BY <1>1, <1>2 DEF Pending
  <2>2. CASE i <= Len(q)
    BY <1>1, <2>1, <2>2 DEF Pending
  <2>3. CASE ~(i <= Len(q))
    <3>1. i - Len(q) \in 1..Len(r) /\ r[i - Len(q)] = entry
      BY <1>1, <2>1, <2>3
    <3> QED BY <3>1 DEF Pending
  <2> QED BY <2>2, <2>3
<1>3. ASSUME NEW i \in 1..Len(q), q[i] = entry PROVE Pending(q \o r, entry)
  <2>1. i \in 1..(Len(q) + Len(r)) /\ (q \o r)[i] = entry
    BY <1>1, <1>3
  <2> QED BY <1>1, <2>1 DEF Pending
<1>4. ASSUME NEW i \in 1..Len(r), r[i] = entry PROVE Pending(q \o r, entry)
  <2>1. i + Len(q) \in 1..(Len(q) + Len(r)) /\ ~(i + Len(q) <= Len(q)) /\ i + Len(q) - Len(q) = i
    BY <1>1
  <2>2. (q \o r)[i + Len(q)] = entry
    BY <1>1, <1>4, <2>1
  <2> QED BY <1>1, <2>1, <2>2 DEF Pending
<1> QED BY <1>2, <1>3, <1>4 DEF Pending

\* A narrowing that does not throw queues every observer of the domain it narrowed.
LEMMA NarrowingIsTold ==
  ASSUME TypeInv, NEW x \in Expression, Alive(x), live' = live, ~contradiction',
         NEW rest \in Seq(Expression \X Observer), \A i \in 1..Len(rest) : Due(rest[i]),
         \/ \E v : ForceEqual(rest, x, v)
         \/ \E vs : RestrictTo(rest, x, vs)
  PROVE  Narrowed(x, rest)
<1>1. \A y \in Expression : dom'[y] \subseteq dom[y] /\ (y # x => dom'[y] = dom[y])
  BY NarrowingFacts
<1>2. /\ queue' = rest \/ queue' = rest \o Notifications(x) \/ queue' = rest \o <<>>
      /\ dom'[x] # dom[x] => queue' = rest \o Notifications(x)
  BY DEF ForceEqual, RestrictTo, TypeInv, TypeOK
<1>3. Notifications(x) \in Seq(Expression \X Observer)
  BY NotificationsFacts DEF TypeInv
<1> DEFINE S == Expression \X Observer
<1>4. rest \in Seq(S) /\ Notifications(x) \in Seq(S) /\ <<>> \in Seq(S)
  BY <1>3
<1> HIDE DEF S
<1>5. ASSUME NEW entry, Pending(rest, entry) PROVE Pending(queue', entry)
  <2>1. Pending(rest \o Notifications(x), entry) /\ Pending(rest \o <<>>, entry)
    BY <1>4, <1>5, PendingConcat
  <2> QED BY <1>2, <1>5, <2>1
<1>6. ASSUME dom'[x] # dom[x], NEW o, Places(watchers[x], o) # {}
      PROVE  Pending(queue', <<x, o>>)
  <2>1. Pending(Notifications(x), <<x, o>>)
    BY <1>6, EveryoneIsNotified DEF Pending, TypeInv
  <2>2. Pending(rest \o Notifications(x), <<x, o>>)
    BY <1>4, <2>1, PendingConcat
  <2> QED BY <1>2, <1>6, <2>2
<1> QED BY <1>1, <1>5, <1>6 DEF Narrowed

\* Who watches a live implication's arguments and a live negation's.
LEMMA WatchersOf ==
  ASSUME WiringInv, NEW e \in Expression, Alive(e)
  PROVE  /\ IsImplies(e) =>
              /\ Places(watchers[e], Ranges(e, live[e])) # {}
              /\ \A c \in {1, 2} : Places(watchers[Argument(e, c)], Includes(e, live[e], c)) # {}
         /\ IsNot(e) =>
              /\ Places(watchers[Shape[e].of], Negates(e, live[e])) # {}
              /\ Places(watchers[e], Negates(Shape[e].of, live[Shape[e].of])) # {}
<1>1. /\ IsNot(e) => NegationWired(e)
      /\ IsImplies(e) => ImplicationWired(e)
  BY DEF WiringInv, Wired
<1>2. \A s, o : Once(s, o) \/ Twice(s, o) => Places(s, o) # {}
  BY DEF Once, Twice
<1> QED BY <1>1, <1>2 DEF NegationWired, ImplicationWired

LEMMA NarrowedRows ==
  ASSUME WiringInv, NEW e \in Expression, Alive(e), IsImplies(e), RowsTracked(e),
         NEW x, NEW rest, Narrowed(x, rest), table' = table,
         \A c \in {1, 2} :
           LET owed == <<Argument(e, c), Includes(e, live[e], c)>>
           IN  InQueue(owed) => Pending(rest, owed),
         InQueue(<<e, Ranges(e, live[e])>>) => Pending(rest, <<e, Ranges(e, live[e])>>)
  PROVE  RowsTracked(e)'
<1>1. \A c \in {1, 2} : Argument(e, c) \in Expression
  BY ShapeFacts
<1>2. \A y \in Expression : dom'[y] \subseteq dom[y] /\ (y # x => dom'[y] = dom[y])
  BY DEF Narrowed
<1>3. live' = live
  BY DEF Narrowed
<1>4. ASSUME NEW r \in dom'[Argument(e, 1)] \X dom'[Argument(e, 2)], ValueOn(e, r) \in dom'[e]
      PROVE  r \in table'[e]
  <2>1. r \in dom[Argument(e, 1)] \X dom[Argument(e, 2)]
    BY <1>1, <1>2
  <2> QED BY <1>2, <1>4, <2>1 DEF RowsTracked
<1>5. ASSUME NEW c \in {1, 2}
      PROVE  \/ \A r \in table'[e] : r[c] \in dom'[Argument(e, c)]
             \/ Pending(queue', <<Argument(e, c), Includes(e, live[e], c)>>)
  <2> DEFINE a == Argument(e, c)
             o == Includes(e, live[e], c)
  <2>1. Places(watchers[a], o) # {}
    BY WatchersOf
  <2>2. (\A r \in table[e] : r[c] \in dom[a]) \/ Pending(rest, <<a, o>>)
    BY DEF RowsTracked
  <2>3. a \in Expression
    BY <1>1
  <2> HIDE DEF a, o
  <2>4. dom'[a] # dom[a] => Pending(queue', <<a, o>>)
    BY <1>2, <2>1, <2>3 DEF Narrowed
  <2>5. Pending(rest, <<a, o>>) => Pending(queue', <<a, o>>)
    BY DEF Narrowed
  <2>6. (\A r \in table'[e] : r[c] \in dom'[a]) \/ Pending(queue', <<a, o>>)
    BY <2>2, <2>4, <2>5
  <2> QED BY <2>6 DEF a, o
<1>6. \/ \A r \in table'[e] : ValueOn(e, r) \in dom'[e]
      \/ Pending(queue', <<e, Ranges(e, live[e])>>)
  <2>1. Places(watchers[e], Ranges(e, live[e])) # {}
    BY WatchersOf
  <2>2. dom'[e] # dom[e] => Pending(queue', <<e, Ranges(e, live[e])>>)
    BY <1>2, <2>1 DEF Narrowed
  <2>3. /\ (\A r \in table[e] : ValueOn(e, r) \in dom[e]) \/ Pending(rest, <<e, Ranges(e, live[e])>>)
        /\ Pending(rest, <<e, Ranges(e, live[e])>>) => Pending(queue', <<e, Ranges(e, live[e])>>)
    BY DEF RowsTracked, Narrowed
  <2> QED BY <2>2, <2>3
<1> QED BY <1>3, <1>4, <1>5, <1>6
        DEF RowsTracked, InQueue, ValueOn, Includes, Ranges, Column, Argument

\* The two directions of a negation, when something else than their own delivery
\* is dealt with, or this has done its work.
LEMMA NarrowedNegation ==
  ASSUME WiringInv, NEW e \in Expression, Alive(e), IsNot(e), NEW x, NEW rest, Narrowed(x, rest)
  PROVE  /\ LET a == Shape[e].of
            IN  (Mirror(e)' \subseteq dom[e] \/ Pending(rest, <<e, Negates(a, live[a])>>))
                  => Covers(e)'
         /\ (dom'[e] \subseteq Mirror(e) \/ Pending(rest, <<Shape[e].of, Negates(e, live[e])>>))
              => Follows(e)'
<1> DEFINE a == Shape[e].of
           up == <<e, Negates(a, live[a])>>
           down == <<a, Negates(e, live[e])>>
<1>1. a \in Expression
  BY ShapeFacts
<1>2. /\ live' = live
      /\ \A y \in Expression : dom'[y] \subseteq dom[y] /\ (y # x => dom'[y] = dom[y])
  BY DEF Narrowed
<1>3. /\ dom'[e] # dom[e] => Pending(queue', up)
      /\ dom'[a] # dom[a] => Pending(queue', down)
  BY <1>1, <1>2, WatchersOf DEF Narrowed
<1>4. \A entry : Pending(rest, entry) => Pending(queue', entry)
  BY DEF Narrowed
<1>5. (Mirror(e)' \subseteq dom[e] \/ Pending(rest, up)) => Covers(e)'
  <2>1. Covers(e)' = (Mirror(e)' \subseteq dom'[e] \/ Pending(queue', up))
    BY <1>2 DEF Covers, InQueue, Negates
  <2> HIDE DEF up
  <2> QED BY <1>3, <1>4, <2>1
<1>6. (dom'[e] \subseteq Mirror(e) \/ Pending(rest, down)) => Follows(e)'
  <2>1. Follows(e)' = (dom'[e] \subseteq Mirror(e)' \/ Pending(queue', down))
    BY <1>2 DEF Follows, Pending, Negates
  <2>2. dom'[a] = dom[a] => Mirror(e)' = Mirror(e)
    BY DEF Mirror
  <2> HIDE DEF down
  <2> QED BY <1>3, <1>4, <2>1, <2>2
<1> QED BY <1>5, <1>6

LEMMA QueueSplit ==
  ASSUME TypeInv, queue # <<>>
  PROVE  /\ \A entry : InQueue(entry) <=> entry = Head(queue) \/ Pending(Tail(queue), entry)
         /\ Tail(queue) \in Seq(Expression \X Observer)
         /\ \A i \in 1..Len(Tail(queue)) : Due(Tail(queue)[i])
         /\ Head(queue) \in Expression \X Observer /\ Due(Head(queue))
<1>1. queue \in Seq(Expression \X Observer)
  BY DEF TypeInv, TypeOK
<1>2. /\ Tail(queue) \in Seq(Expression \X Observer)
      /\ \A i \in 1..Len(Tail(queue)) : Due(Tail(queue)[i])
      /\ Head(queue) \in Expression \X Observer /\ Due(Head(queue))
  BY <1>1, TailFacts DEF TypeInv, QueueFits
<1>3. /\ Len(queue) \in Nat \ {0} /\ Len(Tail(queue)) = Len(queue) - 1 /\ Head(queue) = queue[1]
      /\ \A i \in 1..Len(Tail(queue)) : Tail(queue)[i] = queue[i + 1]
  <2> DEFINE S == Expression \X Observer
  <2>1. queue \in Seq(S)
    BY <1>1
  <2> HIDE DEF S
  <2>2. Len(queue) \in Nat \ {0}
    BY <2>1, EmptySeq, LenProperties
  <2> QED BY <2>1, <2>2, HeadTailProperties
<1>4. ASSUME NEW entry
      PROVE  InQueue(entry) <=> entry = Head(queue) \/ Pending(Tail(queue), entry)
  <2>1. ASSUME NEW i \in 1..Len(queue), queue[i] = entry, i # 1
        PROVE  Pending(Tail(queue), entry)
    <3>1. i - 1 \in 1..Len(Tail(queue)) /\ (i - 1) + 1 = i
      BY <1>3, <2>1
    <3>2. Tail(queue)[i - 1] = entry
      BY <1>3, <2>1, <3>1
    <3> QED BY <3>1, <3>2 DEF Pending
  <2>2. ASSUME NEW i \in 1..Len(Tail(queue)), Tail(queue)[i] = entry
        PROVE  InQueue(entry)
    <3>1. i + 1 \in 1..Len(queue) /\ queue[i + 1] = entry
      BY <1>3, <2>2
    <3> QED BY <3>1 DEF InQueue, Pending
  <2>3. 1 \in 1..Len(queue)
    BY <1>3
  <2> QED BY <1>3, <2>1, <2>2, <2>3 DEF InQueue, Pending
<1> QED BY <1>2, <1>4

\* When domains stay, an expression stays tracked if its table does and whatever the
\* queue owed it is still owed.
LEMMA UntouchedTracked ==
  ASSUME NEW e \in Expression, Tracked(e),
         \A x \in Concerned(e) : live'[x] = live[x] /\ dom'[x] = dom[x],
         table'[e] = table[e],
         \A x \in Expression, o \in Observer :
           InQueue(<<x, o>>) /\ o.of \in Concerned(e) /\ o.at = live[o.of]
             => Pending(queue', <<x, o>>),
         TypeOK
  PROVE  Tracked(e)' /\ StillFollows(e)
<1>0. e \in Concerned(e) /\ \A x \in Concerned(e) : x \in Expression /\ live[x] \in Nat
  BY ShapeFacts DEF Concerned, Arguments, TypeOK
<1>1. live'[e] = live[e] /\ dom'[e] = dom[e]
  BY <1>0
<1>2. ASSUME IsImplies(e), Argument(e, 1) # Argument(e, 2)
      PROVE  RowsTracked(e)'
  <2>1. RowsTracked(e)
    BY <1>2 DEF Tracked
  <2>2. \A c \in {1, 2} : Argument(e, c) \in Concerned(e) /\ Argument(e, c) \in Expression
    BY <1>2, ShapeFacts DEF Concerned, Arguments, IsImplies, IsNot, IsVariable
  <2>3. ASSUME NEW c \in {1, 2}, InQueue(<<Argument(e, c), Includes(e, live[e], c)>>)
        PROVE  Pending(queue', <<Argument(e, c), Includes(e, live[e], c)>>)
    <3>1. /\ Includes(e, live[e], c) \in Observer
          /\ Includes(e, live[e], c).of = e /\ Includes(e, live[e], c).at = live[e]
      BY <1>0, ObserverTypes DEF Includes
    <3> QED BY <1>0, <2>2, <2>3, <3>1
  <2>4. InQueue(<<e, Ranges(e, live[e])>>) => Pending(queue', <<e, Ranges(e, live[e])>>)
    <3>1. /\ Ranges(e, live[e]) \in Observer
          /\ Ranges(e, live[e]).of = e /\ Ranges(e, live[e]).at = live[e]
      BY <1>0, ObserverTypes DEF Ranges
    <3> QED BY <1>0, <3>1
  <2>5. \A c \in {1, 2} : dom'[Argument(e, c)] = dom[Argument(e, c)]
    BY <2>2
  <2>6. \A r \in dom'[Argument(e, 1)] \X dom'[Argument(e, 2)] :
          ValueOn(e, r) \in dom'[e] => r \in table'[e]
    BY <1>1, <2>1, <2>5 DEF RowsTracked
  <2>7. \A c \in {1, 2} : \/ \A r \in table'[e] : r[c] \in dom'[Argument(e, c)]
                         \/ Pending(queue', <<Argument(e, c), Includes(e, live[e], c)>>)
    BY <2>1, <2>3, <2>5 DEF RowsTracked
  <2>8. \/ \A r \in table'[e] : ValueOn(e, r) \in dom'[e]
        \/ Pending(queue', <<e, Ranges(e, live[e])>>)
    BY <1>1, <2>1, <2>4 DEF RowsTracked
  <2> QED BY <1>1, <2>6, <2>7, <2>8
          DEF RowsTracked, InQueue, ValueOn, Includes, Ranges, Column, Argument
<1>3. ASSUME IsNot(e) PROVE Covers(e)' /\ (Follows(e) => Follows(e)')
  <2> DEFINE a == Shape[e].of
             up == Negates(a, live[a])
             down == Negates(e, live[e])
  <2>0. a \in Concerned(e)
    BY <1>3, ShapeFacts DEF Concerned, Arguments
  <2>1. a \in Concerned(e) /\ a \in Expression /\ live'[a] = live[a] /\ dom'[a] = dom[a]
    BY <1>0, <2>0
  <2>2. /\ up \in Observer /\ up.of = a /\ up.at = live[a]
        /\ down \in Observer /\ down.of = e /\ down.at = live[e]
    BY <1>0, <2>1, ObserverTypes DEF Negates
  <2>3. /\ InQueue(<<e, up>>) => Pending(queue', <<e, up>>)
        /\ InQueue(<<a, down>>) => Pending(queue', <<a, down>>)
    <3> HIDE DEF up, down
    <3> QED BY <1>0, <2>1, <2>2
  <2>4. Mirror(e)' = Mirror(e)
    BY <2>1 DEF Mirror
  <2>5. Covers(e)'
    BY <1>1, <1>3, <2>1, <2>3, <2>4 DEF Covers, Tracked, InQueue, Negates
  <2>6. Follows(e) => Follows(e)'
    BY <1>1, <1>3, <2>1, <2>3, <2>4 DEF Follows, Pending, InQueue, Negates
  <2> QED BY <2>5, <2>6
<1> QED BY <1>2, <1>3 DEF Tracked, StillFollows, IsNot, IsImplies, Argument

\* A notification has reached a target that is alive no more.
LEMMA DropTracks ==
  ASSUME TypeInv, NEW h, NEW o, Head(queue) = <<h, o>>, queue # <<>>, DropObserver(h, o),
         live' = live, NEW e \in Expression, Tracked(e)
  PROVE  Tracked(e)' /\ StillFollows(e)
<1>1. dom' = dom /\ table' = table /\ queue' = Tail(queue) /\ live[o.of] # o.at
  BY DEF DropObserver
<1>2. ASSUME NEW x, NEW p, InQueue(<<x, p>>), p.at = live[p.of]
      PROVE  Pending(queue', <<x, p>>)
  <2>1. p # o
    BY <1>1, <1>2
  <2> QED BY <1>1, <1>2, <2>1, QueueSplit
<1> QED BY <1>1, <1>2, UntouchedTracked DEF TypeInv

\* An argument's domain has reached a table, or an implication's own has.
LEMMA TablePassTracks ==
  ASSUME TypeInv, NEW h \in Expression, NEW o \in Observer, Head(queue) = <<h, o>>,
         queue # <<>>, Concerns(h, o), live' = live, ~contradiction',
         PassInclusion(h, o) \/ PassRange(h, o),
         NEW e \in Expression, Alive(e), Tracked(e)
  PROVE  Tracked(e)' /\ StillFollows(e)
<1>1. /\ dom' = dom /\ queue' = Tail(queue) /\ live[o.of] = o.at
      /\ o.kind \in {"includes", "ranges"} /\ IsImplies(o.of) /\ o.of \in Expression
  BY DEF PassInclusion, PassRange, Concerns, Observer
<1>2. \A x, p : InQueue(<<x, p>>) => <<x, p>> = <<h, o>> \/ Pending(queue', <<x, p>>)
  BY <1>1, QueueSplit
<1>3. \A x \in Expression : x # o.of => table'[x] = table[x]
  BY <1>1 DEF PassInclusion, PassRange, TypeInv, TypeOK
<1>4. CASE e # o.of /\ ~IsNot(e)
  <2>1. \A c \in {1, 2} : Includes(e, live[e], c).of = e /\ Ranges(e, live[e]).of = e
    BY DEF Includes, Ranges
  <2>2. ASSUME IsImplies(e), Argument(e, 1) # Argument(e, 2) PROVE RowsTracked(e)'
    <3>1. /\ RowsTracked(e) /\ table'[e] = table[e]
          /\ \A c \in {1, 2} : InQueue(<<Argument(e, c), Includes(e, live[e], c)>>)
                => Pending(queue', <<Argument(e, c), Includes(e, live[e], c)>>)
          /\ InQueue(<<e, Ranges(e, live[e])>>) => Pending(queue', <<e, Ranges(e, live[e])>>)
      BY <1>2, <1>3, <1>4, <2>1, <2>2 DEF Tracked
    <3> QED BY <1>1, <3>1
            DEF RowsTracked, InQueue, ValueOn, Includes, Ranges, Column, Argument
  <2> QED BY <1>4, <2>2 DEF Tracked, StillFollows, IsNot, IsImplies, Argument
<1>5. CASE IsNot(e)
  <2>1. e # o.of /\ ~IsImplies(e)
    BY <1>1, <1>5, ShapeFacts
  <2>2. \A x, y, at : InQueue(<<x, Negates(y, at)>>) => Pending(queue', <<x, Negates(y, at)>>)
    <3>1. \A y, at : Negates(y, at) # o
      BY <1>1 DEF Negates
    <3> QED BY <1>2, <3>1
  <2>3. Mirror(e)' = Mirror(e) /\ Covers(e)
    BY <1>1, <1>5 DEF Mirror, Tracked
  <2>4. Covers(e)'
    BY <1>1, <2>2, <2>3 DEF Covers, InQueue, Negates
  <2>5. Follows(e) => Follows(e)'
    <3>1. ASSUME InQueue(<<Shape[e].of, Negates(e, live[e])>>)
          PROVE  Pending(queue', <<Shape[e].of, Negates(e, live'[e])>>)
      BY <1>1, <2>2, <3>1
    <3> QED BY <1>1, <2>3, <3>1 DEF Follows, Pending, InQueue
  <2> QED BY <2>1, <2>4, <2>5 DEF Tracked, StillFollows, IsNot, IsImplies
<1>6. CASE e = o.of /\ ~IsNot(e)
  <2>1. ASSUME Argument(e, 1) # Argument(e, 2) PROVE RowsTracked(e)'
    <3>1. RowsTracked(e) /\ Column(e, 1) = 1 /\ Column(e, 2) = 2
      BY <1>1, <1>6, <2>1 DEF Tracked, Column
    <3>2. /\ \A c \in {1, 2} : /\ Includes(e, live[e], c).kind = "includes"
                               /\ Includes(e, live[e], c).col = c
          /\ Ranges(e, live[e]).kind = "ranges"
      BY <3>1 DEF Includes, Ranges
    <3>3. CASE PassInclusion(h, o)
      <4>1. /\ o.kind = "includes" /\ o.col \in {1, 2} /\ Argument(e, o.col) = h
            /\ dom[h] # {} /\ table'[e] = {r \in table[e] : r[o.col] \in dom[h]}
        BY <1>1, <1>6, <3>3 DEF PassInclusion, Concerns, Observer, TypeInv, TypeOK
      <4>2. ASSUME NEW c \in {1, 2}
            PROVE  \/ \A r \in table'[e] : r[c] \in dom[Argument(e, c)]
                   \/ Pending(queue', <<Argument(e, c), Includes(e, live[e], c)>>)
        <5>1. CASE c = o.col
          BY <4>1, <5>1
        <5>2. CASE c # o.col
          <6>1. Includes(e, live[e], c) # o
            BY <3>2, <5>2
          <6> QED BY <1>2, <3>1, <4>1, <6>1 DEF RowsTracked
        <5> QED BY <5>1, <5>2
      <4>3. \A r \in dom[Argument(e, 1)] \X dom[Argument(e, 2)] :
              ValueOn(e, r) \in dom[e] => r \in table'[e]
        BY <3>1, <4>1 DEF RowsTracked
      <4>4. \/ \A r \in table'[e] : ValueOn(e, r) \in dom[e]
            \/ Pending(queue', <<e, Ranges(e, live[e])>>)
        <5>1. Ranges(e, live[e]) # o
          BY <3>2, <4>1
        <5> QED BY <1>2, <3>1, <4>1, <5>1 DEF RowsTracked
      <4> QED BY <1>1, <4>2, <4>3, <4>4
              DEF RowsTracked, InQueue, ValueOn, Includes, Ranges, Column, Argument
    <3>4. CASE PassRange(h, o)
      <4>1. /\ o.kind = "ranges" /\ e = h
            /\ table'[e] = {r \in table[e] : ValueOn(e, r) \in dom[e]}
        BY <1>1, <1>6, <3>4 DEF PassRange, Concerns, TypeInv, TypeOK
      <4>2. ASSUME NEW c \in {1, 2}
            PROVE  \/ \A r \in table'[e] : r[c] \in dom[Argument(e, c)]
                   \/ Pending(queue', <<Argument(e, c), Includes(e, live[e], c)>>)
        <5>1. Includes(e, live[e], c) # o
          BY <3>2, <4>1
        <5> QED BY <1>2, <3>1, <4>1, <5>1 DEF RowsTracked
      <4>3. \A r \in dom[Argument(e, 1)] \X dom[Argument(e, 2)] :
              ValueOn(e, r) \in dom[e] => r \in table'[e]
        BY <3>1, <4>1 DEF RowsTracked
      <4>4. \A r \in table'[e] : ValueOn(e, r) \in dom[e]
        BY <4>1
      <4> QED BY <1>1, <4>2, <4>3, <4>4
              DEF RowsTracked, InQueue, ValueOn, Includes, Ranges, Column, Argument
    <3> QED BY <3>3, <3>4
  <2> QED BY <1>6, <2>1 DEF Tracked, StillFollows, IsNot, IsImplies, Argument
<1> QED BY <1>4, <1>5, <1>6

\* A negation's argument has narrowed it, or it its argument.
LEMMA NegationPassTracks ==
  ASSUME WiringInv, NEW h \in Expression, NEW o \in Observer, Head(queue) = <<h, o>>,
         queue # <<>>, Concerns(h, o), live' = live, ~contradiction', PassNegation(h, o),
         NEW e \in Expression, Alive(e), Tracked(e)
  PROVE  Tracked(e)' /\ StillFollows(e)
<1> DEFINE rest == Tail(queue)
           x == o.of
<1>0. TypeInv /\ TypeOK
  BY DEF WiringInv, TypeInv
<1>1. x \in Expression /\ Alive(x) /\ o.kind = "negates" /\ table' = table
  BY DEF PassNegation, Observer, Concerns, Alive
<1>2. Narrowed(x, rest)
  <2>1. rest \in Seq(Expression \X Observer) /\ \A i \in 1..Len(rest) : Due(rest[i])
    BY <1>0, QueueSplit
  <2>2. (\E v : ForceEqual(rest, x, v)) \/ \E vs : RestrictTo(rest, x, vs)
    BY DEF PassNegation
  <2> HIDE DEF rest, x
  <2> QED BY <1>0, <1>1, <2>1, <2>2, NarrowingIsTold
<1>3. dom'[x] \subseteq {Neg(v) : v \in dom[h]}
  <2>1. ASSUME NEW v \in dom[h], ForceEqual(rest, x, Neg(v))
        PROVE  dom'[x] = {Neg(v)}
    BY <1>0, <1>1, <2>1 DEF ForceEqual, TypeOK
  <2>2. ASSUME NEW vs, RestrictTo(rest, x, vs)
        PROVE  dom'[x] \subseteq vs
    BY <1>0, <1>1, <2>2 DEF RestrictTo, TypeOK
  <2>3. \/ \E v \in dom[h] : ForceEqual(rest, x, Neg(v))
        \/ RestrictTo(rest, x, {Neg(v) : v \in dom[h]})
    BY DEF PassNegation
  <2> HIDE DEF rest, x
  <2> QED BY <2>1, <2>2, <2>3
<1>4. \A y, p : InQueue(<<y, p>>) => <<y, p>> = <<h, o>> \/ Pending(rest, <<y, p>>)
  BY <1>0, QueueSplit
<1> HIDE DEF rest
<1>5. \A y \in Expression : dom'[y] \subseteq dom[y] /\ dom[y] \subseteq TruthValue
  BY <1>0, <1>2 DEF Narrowed, TypeOK
<1>6. ASSUME IsImplies(e), Argument(e, 1) # Argument(e, 2)
      PROVE  RowsTracked(e)'
  <2>1. \A c \in {1, 2} : Includes(e, live[e], c) # o /\ Ranges(e, live[e]) # o
    BY <1>1 DEF Includes, Ranges
  <2> QED BY <1>1, <1>2, <1>4, <1>6, <2>1, NarrowedRows DEF Tracked
<1>7. ASSUME IsNot(e) PROVE Covers(e)' /\ (Follows(e) => Follows(e)')
  <2> DEFINE a == Shape[e].of
  <2>1. a \in Expression
    BY <1>7, ShapeFacts
  <2>2. Mirror(e)' \subseteq dom[e] \/ Pending(rest, <<e, Negates(a, live[a])>>)
    <3>1. CASE Mirror(e) \subseteq dom[e]
      BY <1>5, <2>1, <3>1 DEF Mirror
    <3>2. CASE <<e, Negates(a, live[a])>> = <<h, o>>
      <4>1. dom'[a] \subseteq {Neg(v) : v \in dom[e]}
        BY <1>3, <3>2 DEF Negates
      <4> QED BY <1>5, <4>1, NegFacts DEF Mirror
    <3> QED BY <1>4, <1>7, <3>1, <3>2 DEF Tracked, Covers
  <2>3. Follows(e) => \/ dom'[e] \subseteq Mirror(e)
                      \/ Pending(rest, <<a, Negates(e, live[e])>>)
    <3>1. CASE dom[e] \subseteq Mirror(e)
      BY <1>5, <3>1
    <3>2. CASE <<a, Negates(e, live[e])>> = <<h, o>>
      BY <1>3, <3>2 DEF Negates, Mirror
    <3> QED BY <1>4, <3>1, <3>2 DEF Follows, InQueue, Pending
  <2> QED BY <1>2, <1>7, <2>2, <2>3, NarrowedNegation
<1> QED BY <1>6, <1>7 DEF Tracked, StillFollows, IsNot, IsImplies, Argument

LEMMA DeliverTracks ==
  ASSUME WiringInv, Deliver, QueueOwes, ~contradiction',
         NEW e \in Expression, Alive(e)
  PROVE  Tracked(e)' /\ StillFollows(e)
<1> DEFINE h == Head(queue)[1]
           o == Head(queue)[2]
<1>1. TypeInv /\ queue # <<>> /\ live' = live /\ Tracked(e)
  BY DEF Deliver, WiringInv, QueueOwes
<1>2. /\ h \in Expression /\ o \in Observer /\ Head(queue) = <<h, o>> /\ Concerns(h, o)
  BY <1>1, QueueSplit DEF Due
<1>3. DropObserver(h, o) \/ PassNegation(h, o) \/ PassInclusion(h, o) \/ PassRange(h, o)
  BY DEF Deliver
<1> HIDE DEF h, o
<1> QED BY <1>1, <1>2, <1>3, DropTracks, TablePassTracks, NegationPassTracks

\* Construction and release concern no expression that lives through them.
LEMMA LifeTracks ==
  ASSUME WiringInv, QueueOwes, NEW p \in Expression,
         Variable(p) \/ Not(p) \/ NonStrictlyImplies(p) \/ Release(p),
         NEW e \in Expression, e # p, Alive(e)
  PROVE  Tracked(e)' /\ StillFollows(e)
<1>0. TypeOK /\ Tracked(e)
  BY DEF WiringInv, TypeInv, QueueOwes, Variable, Not, NonStrictlyImplies, Release,
         MayConstruct, Ready
<1>1. /\ queue' = queue /\ queue = <<>>
      /\ \A x \in Expression : x # p => live'[x] = live[x] /\ dom'[x] = dom[x]
                                         /\ table'[x] = table[x]
  BY <1>0 DEF Variable, Not, NonStrictlyImplies, Release, MayConstruct, Ready, Construct, TypeOK
<1>2. p \notin Concerned(e)
  <2>1. CASE Release(p)
    BY <2>1 DEF Release, Concerned
  <2>2. CASE Variable(p) \/ Not(p) \/ NonStrictlyImplies(p)
    BY <2>2, Unconcerned DEF Variable, Not, NonStrictlyImplies
  <2> QED BY <2>1, <2>2
<1>3. \A x \in Concerned(e) : x \in Expression
  BY ShapeFacts DEF Concerned, Arguments
<1>4. \A entry : ~InQueue(entry)
  BY <1>1 DEF InQueue, Pending
<1> QED BY <1>0, <1>1, <1>2, <1>3, <1>4, UntouchedTracked

\* What a construction starts from.
LEMMA NewTracked ==
  ASSUME WiringInv, NEW p \in Expression, Not(p) \/ NonStrictlyImplies(p)
  PROVE  /\ Tracked(p)'
         /\ (IsNot(p) /\ dom[Shape[p].of] = ValuesOf(LogicOf[p])) => Follows(p)'
<1>0. TypeOK
  BY DEF WiringInv, TypeInv
<1>1. /\ dom'[p] = ValuesOf(LogicOf[p])
      /\ \A x \in Expression : x # p => dom'[x] = dom[x]
      /\ \A a \in Arguments(p) : Alive(a) /\ a # p
  BY <1>0 DEF Not, NonStrictlyImplies, MayConstruct, Construct, Alive, TypeOK
<1>2. CASE NonStrictlyImplies(p)
  <2>1. IsImplies(p) /\ ~IsNot(p) /\ \A c \in {1, 2} : Argument(p, c) \in Expression
    BY <1>2, ShapeFacts DEF NonStrictlyImplies
  <2>2. \A c \in {1, 2} : dom'[Argument(p, c)] = dom[Argument(p, c)]
    <3>1. \A c \in {1, 2} : Argument(p, c) \in Arguments(p)
      BY <2>1, ShapeFacts DEF Arguments
    <3> QED BY <1>1, <2>1, <3>1
  <2>3. table'[p] = dom[Argument(p, 1)] \X dom[Argument(p, 2)]
    BY <1>0, <1>2 DEF NonStrictlyImplies, TypeOK
  <2>4. ASSUME Argument(p, 1) # Argument(p, 2), NEW r \in table'[p]
        PROVE  ValueOn(p, r) \in dom'[p]
    <3>1. r \in ValuesOf(LogicOf[Argument(p, 1)]) \X ValuesOf(LogicOf[Argument(p, 2)])
      BY <1>0, <2>1, <2>3, <2>4 DEF TypeOK
    <3> QED BY <1>1, <2>1, <2>4, <3>1, RowInRange
  <2>5. ASSUME Argument(p, 1) # Argument(p, 2) PROVE RowsTracked(p)'
    <3>1. \A c \in {1, 2}, r \in table'[p] : r[c] \in dom'[Argument(p, c)]
      BY <2>2, <2>3
    <3>2. \A r \in dom'[Argument(p, 1)] \X dom'[Argument(p, 2)] : r \in table'[p]
      BY <2>2, <2>3
    <3>3. \A r \in table'[p] : ValueOn(p, r) \in dom'[p]
      BY <2>4, <2>5
    <3> QED BY <3>1, <3>2, <3>3 DEF RowsTracked, ValueOn, Column, Argument
  <2> QED BY <2>1, <2>5 DEF Tracked, IsNot, IsImplies, Argument
<1>3. CASE Not(p)
  <2> DEFINE a == Shape[p].of
  <2>1. IsNot(p) /\ ~IsImplies(p) /\ a \in Expression
    BY <1>3, ShapeFacts DEF Not
  <2>2. a \in Arguments(p)
    BY <2>1, ShapeFacts DEF Arguments
  <2>3. dom'[a] = dom[a] /\ dom[a] \subseteq ValuesOf(LogicOf[p])
    <3>1. LogicOf[a] = LogicOf[p]
      BY <2>1, LogicAssumption DEF IsNot
    <3> QED BY <1>0, <1>1, <2>1, <2>2, <3>1 DEF TypeOK
  <2>4. \A v \in ValuesOf(LogicOf[p]) : Neg(v) \in ValuesOf(LogicOf[p]) /\ Neg(Neg(v)) = v
    <3>1. LogicOf[p] \in Logic
      BY ShapeFacts
    <3>2. ASSUME NEW l \in Logic, NEW v \in ValuesOf(l)
          PROVE  Neg(v) \in ValuesOf(l) /\ Neg(Neg(v)) = v
      BY <3>2 DEF Logic, ValuesOf, TruthValue, Neg
    <3> QED BY <3>1, <3>2
  <2>5. Mirror(p)' = {Neg(v) : v \in dom[a]}
    BY <2>3 DEF Mirror
  <2>6. Covers(p)'
    <3>1. Mirror(p)' \subseteq dom'[p]
      BY <1>1, <2>3, <2>4, <2>5
    <3> QED BY <3>1 DEF Covers
  <2>7. ASSUME dom[a] = ValuesOf(LogicOf[p]) PROVE Follows(p)'
    <3>1. dom'[p] \subseteq Mirror(p)'
      <4>1. ASSUME NEW v \in dom'[p] PROVE v \in Mirror(p)'
        <5>1. Neg(v) \in dom[a] /\ Neg(Neg(v)) = v
          BY <1>1, <2>4, <2>7, <4>1
        <5> HIDE DEF a
        <5>2. v \in {Neg(w) : w \in dom[a]}
          BY <5>1
        <5> QED BY <2>5, <5>2
      <4> QED BY <4>1
    <3> QED BY <3>1 DEF Follows
  <2> QED BY <2>1, <2>6, <2>7 DEF Tracked, IsNot, IsImplies, Argument
<1> QED BY <1>2, <1>3

\* A fact narrows one domain, with nothing else in the queue.
LEMMA FactTracks ==
  ASSUME WiringInv, QueueOwes, NEW p \in Expression, NEW v \in TruthValue,
         Infer(p, v) \/ Exclude(p, v), ~contradiction',
         NEW e \in Expression, Alive(e)
  PROVE  Tracked(e)' /\ StillFollows(e)
<1>0. TypeInv /\ TypeOK
  BY DEF WiringInv, TypeInv
<1>1. /\ queue = <<>> /\ Alive(p) /\ live' = live /\ table' = table /\ Tracked(e)
  BY DEF Infer, Exclude, MayTell, Ready, QueueOwes
<1>2. \A entry : ~InQueue(entry) /\ ~Pending(<<>>, entry)
  BY <1>1 DEF InQueue, Pending
<1>3. Narrowed(p, <<>>)
  <2>1. CASE Infer(p, v)
    <3>1. <<>> \in Seq(Expression \X Observer) /\ \A i \in 1..Len(<<>>) : Due(<<>>[i])
      BY EmptySeq
    <3> QED BY <1>0, <1>1, <2>1, <3>1, NarrowingIsTold DEF Infer
  <2>2. CASE Exclude(p, v)
    <3>1. /\ \A y \in Expression : dom'[y] \subseteq dom[y] /\ (y # p => dom'[y] = dom[y])
          /\ dom'[p] # dom[p] => queue' = Notifications(p)
      BY <1>0, <2>2 DEF Exclude, TypeOK
    <3>2. ASSUME NEW o, dom'[p] # dom[p], Places(watchers[p], o) # {}
          PROVE  Pending(queue', <<p, o>>)
      BY <1>0, <3>1, <3>2, EveryoneIsNotified DEF Pending
    <3> QED BY <1>1, <1>2, <3>1, <3>2 DEF Narrowed
  <2> QED BY <2>1, <2>2
<1>4. (IsImplies(e) /\ Argument(e, 1) # Argument(e, 2)) => RowsTracked(e)'
  BY <1>1, <1>2, <1>3, NarrowedRows DEF Tracked
<1>5. ASSUME IsNot(e) PROVE Covers(e)' /\ (Follows(e) => Follows(e)')
  <2>1. \A y \in Expression : dom'[y] \subseteq dom[y]
    BY <1>3 DEF Narrowed
  <2>2. Mirror(e) \subseteq dom[e]
    BY <1>1, <1>2, <1>5 DEF Tracked, Covers
  <2>3. Mirror(e)' \subseteq dom[e]
    BY <1>5, <2>1, <2>2, ShapeFacts DEF Mirror
  <2>4. Follows(e) => dom'[e] \subseteq Mirror(e)
    BY <1>2, <2>1 DEF Follows, InQueue, Pending
  <2> QED BY <1>3, <1>5, <2>3, <2>4, NarrowedNegation
<1> QED BY <1>4, <1>5 DEF Tracked, StillFollows, IsNot, IsImplies, Argument

\* One step, and what it leaves of the negations that follow their arguments.
FollowingKept ==
  \A e \in Expression :
    (/\ IsNot(e) /\ live'[e] # 0 /\ ~contradiction'
     /\ \/ live'[e] = live[e] /\ Follows(e)
        \/ ~Alive(e) /\ dom[Shape[e].of] = ValuesOf(LogicOf[e]))
      => Follows(e)'

LEMMA StepTracks ==
  ASSUME WiringInv, QueueOwes, [Next]_vars
  PROVE  QueueOwes' /\ FollowingKept
<1>0. TypeInv /\ TypeOK
  BY DEF WiringInv, TypeInv
<1>1. SUFFICES ASSUME ~contradiction', NEW e \in Expression, live'[e] # 0
               PROVE  /\ Tracked(e)'
                      /\ \/ StillFollows(e) /\ Alive(e)
                         \/ /\ live'[e] # live[e]
                            /\ (IsNot(e) /\ dom[Shape[e].of] = ValuesOf(LogicOf[e]))
                                 => Follows(e)'
  BY <1>1 DEF QueueOwes, FollowingKept, StillFollows, Alive
<1>2. CASE Deliver
  <2>1. Alive(e)
    BY <1>1, <1>2 DEF Deliver, Alive
  <2> QED BY <1>1, <1>2, <2>1, DeliverTracks
<1>3. ASSUME NEW p \in Expression,
             Variable(p) \/ Not(p) \/ NonStrictlyImplies(p) \/ Release(p)
      PROVE  /\ Tracked(e)'
             /\ \/ StillFollows(e) /\ Alive(e)
                \/ /\ live'[e] # live[e]
                   /\ (IsNot(e) /\ dom[Shape[e].of] = ValuesOf(LogicOf[e])) => Follows(e)'
  <2>1. CASE e # p
    <3>1. Alive(e)
      BY <1>0, <1>1, <1>3, <2>1
         DEF Variable, Not, NonStrictlyImplies, Release, Construct, Alive, TypeOK
    <3> QED BY <1>1, <1>3, <2>1, <3>1, LifeTracks
  <2>2. CASE e = p
    <3>1. ~Release(p) /\ ~Alive(p)
      BY <1>0, <1>1, <1>3, <2>2
         DEF Variable, Not, NonStrictlyImplies, Release, Alive, TypeOK
    <3>2. CASE Variable(p)
      BY <1>1, <2>2, <3>1, <3>2, ShapeFacts DEF Variable, Tracked, IsNot, IsImplies, Argument, Alive
    <3>3. CASE Not(p) \/ NonStrictlyImplies(p)
      BY <1>1, <2>2, <3>1, <3>3, NewTracked DEF Alive
    <3> QED BY <1>3, <3>1, <3>2, <3>3
  <2> QED BY <2>1, <2>2
<1>4. ASSUME NEW p \in Expression, ImpliesAgain(p)
      PROVE  Tracked(e)' /\ StillFollows(e) /\ Alive(e)
  <2>1. /\ live' = live /\ dom' = dom /\ table' = table /\ queue' = queue /\ Alive(e) /\ Tracked(e)
    BY <1>1, <1>4 DEF ImpliesAgain, MayConstruct, Ready, Alive, QueueOwes
  <2>2. \A entry : InQueue(entry) => Pending(queue', entry)
    BY <2>1 DEF InQueue
  <2> QED BY <1>0, <2>1, <2>2, UntouchedTracked
<1>5. ASSUME NEW p \in Expression, NEW v \in TruthValue, Infer(p, v) \/ Exclude(p, v)
      PROVE  Tracked(e)' /\ StillFollows(e) /\ Alive(e)
  <2>1. Alive(e)
    BY <1>1, <1>5 DEF Infer, Exclude, Alive
  <2> QED BY <1>1, <1>5, <2>1, FactTracks
<1>6. CASE UNCHANGED vars
  <2>1. /\ live' = live /\ dom' = dom /\ table' = table /\ queue' = queue /\ Alive(e) /\ Tracked(e)
    BY <1>1, <1>6 DEF vars, Alive, QueueOwes
  <2>2. \A entry : InQueue(entry) => Pending(queue', entry)
    BY <2>1 DEF InQueue
  <2> QED BY <1>0, <2>1, <2>2, UntouchedTracked
<1> QED BY <1>2, <1>3, <1>4, <1>5, <1>6 DEF Next

LEMMA AlwaysTracked == PropagationSpec => [](WiringInv /\ QueueOwes)
<1>1. Init => QueueOwes
  BY DEF Init, QueueOwes, Alive
<1>2. WiringInv /\ QueueOwes /\ [Next]_vars => QueueOwes'
  BY StepTracks
<1> QED BY <1>1, <1>2, AlwaysWired, PTL DEF PropagationSpec

\* Between calls every table holds exactly the rows that are still possible, in every
\* network and in whatever order it was built and told facts (the constructor's
\* product, EnforceInclusionMap, EnforceRangeConstraint).
THEOREM TablesAreExact == PropagationSpec => []TablesExact
<1>1. WiringInv /\ QueueOwes => TablesExact
  <2> SUFFICES ASSUME WiringInv, QueueOwes, Ready,
                      NEW e \in Expression, Alive(e), IsImplies(e),
                      Argument(e, 1) # Argument(e, 2)
               PROVE  table[e] = {r \in dom[Argument(e, 1)] \X dom[Argument(e, 2)] :
                                    ValueOn(e, r) \in dom[e]}
    BY DEF TablesExact
  <2>1. RowsTracked(e) /\ \A entry : ~InQueue(entry)
    BY DEF QueueOwes, Tracked, Ready, InQueue, Pending
  <2>2. table[e] \subseteq TruthValue \X TruthValue
    BY DEF WiringInv, TypeInv, TypeOK
  <2>3. \A r \in table[e] : /\ r[1] \in dom[Argument(e, 1)] /\ r[2] \in dom[Argument(e, 2)]
                            /\ ValueOn(e, r) \in dom[e]
    BY <2>1 DEF RowsTracked
  <2>4. \A r \in table[e] : r \in dom[Argument(e, 1)] \X dom[Argument(e, 2)]
    BY <2>2, <2>3
  <2> QED BY <2>1, <2>3, <2>4 DEF RowsTracked
<1> QED BY <1>1, AlwaysTracked, PTL

\* Between calls a negation allows what its argument does, negated, and one that was
\* built over a full domain, or has caught up once, keeps to it (Not, src_to_new,
\* new_to_src).
THEOREM NegationsFollow == PropagationSpec => NegationsMirror
<1>1. WiringInv /\ QueueOwes =>
        (Ready => \A e \in Expression : (Alive(e) /\ IsNot(e)) => Mirror(e) \subseteq dom[e])
  BY DEF QueueOwes, Tracked, Covers, Ready, InQueue, Pending
<1>2. WiringInv /\ QueueOwes /\ [Next]_vars => [FollowingKept]_vars
  BY StepTracks
<1>3. PropagationSpec => [][FollowingKept]_vars
  BY <1>2, AlwaysTracked, PTL DEF PropagationSpec
<1> QED BY <1>1, <1>3, AlwaysTracked, PTL DEF NegationsMirror, FollowingKept

=============================================================================
