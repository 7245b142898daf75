--------------------------- MODULE Saturation_proofs ---------------------------
(***************************************************************************)
(* What the configuration stage keeps, for every configuration file, every  *)
(* number of axioms and every coming and going of observers.                *)
(***************************************************************************)
EXTENDS Saturation, LoopLemmas, SequenceTheorems

-------------------------------------------------------------------------------
(***************************************************************************)
(* Sequences and the sets of what is in them                                *)
(***************************************************************************)
LEMMA AppendElems ==
  ASSUME NEW W, NEW s \in Seq(W), NEW x \in W
  PROVE  /\ Append(s, x) \in Seq(W)
         /\ Elems(Append(s, x)) = Elems(s) \union {x}
<1> DEFINE t == Append(s, x)
<1>1. t \in Seq(W) /\ Len(t) = Len(s) + 1
  BY AppendProperties
<1>2. \A i \in 1 .. Len(s) : t[i] = s[i]
  BY AppendProperties
<1>3. t[Len(s) + 1] = x
  BY AppendProperties
<1>4. DOMAIN t = 1 .. Len(s) + 1 /\ DOMAIN s = 1 .. Len(s) /\ Len(s) \in Nat
  BY <1>1
<1> HIDE DEF t
<1>5. Elems(t) \subseteq Elems(s) \union {x}
  BY <1>2, <1>3, <1>4 DEF Elems
<1>6. Elems(s) \union {x} \subseteq Elems(t)
  BY <1>2, <1>3, <1>4 DEF Elems
<1> QED BY <1>1, <1>5, <1>6 DEF t

LEMMA TailElems ==
  ASSUME NEW W, NEW s \in Seq(W), s # <<>>
  PROVE  /\ Head(s) \in W /\ Tail(s) \in Seq(W)
         /\ Elems(s) = {Head(s)} \union Elems(Tail(s))
<1>1. Head(s) \in W /\ Tail(s) \in Seq(W) /\ Head(s) = s[1] /\ Len(s) \in Nat \ {0}
  OBVIOUS
<1>2. Len(Tail(s)) = Len(s) - 1 /\ \A i \in 1 .. Len(s) - 1 : Tail(s)[i] = s[i + 1]
  OBVIOUS
<1>3. DOMAIN s = 1 .. Len(s) /\ DOMAIN Tail(s) = 1 .. Len(s) - 1
  BY <1>1, <1>2
<1>4. Elems(s) \subseteq {Head(s)} \union Elems(Tail(s))
  <2> SUFFICES ASSUME NEW i \in 1 .. Len(s) PROVE s[i] \in {s[1]} \union Elems(Tail(s))
    BY <1>1, <1>3 DEF Elems
  <2>1. CASE i = 1
    BY <2>1
  <2>2. CASE i # 1
    <3>1. i - 1 \in 1 .. Len(s) - 1 /\ (i - 1) + 1 = i
      BY <2>2, <1>1
    <3> QED BY <3>1, <1>2, <1>3 DEF Elems
  <2> QED BY <2>1, <2>2
<1>5. {Head(s)} \union Elems(Tail(s)) \subseteq Elems(s)
  <2>1. s[1] \in Elems(s)
    BY <1>1, <1>3 DEF Elems
  <2>2. ASSUME NEW i \in 1 .. Len(s) - 1 PROVE Tail(s)[i] \in Elems(s)
    <3>1. i + 1 \in 1 .. Len(s)
      BY <1>1
    <3> QED BY <3>1, <1>2, <1>3 DEF Elems
  <2> QED BY <2>1, <2>2, <1>1, <1>3 DEF Elems
<1> QED BY <1>1, <1>4, <1>5

-------------------------------------------------------------------------------
(***************************************************************************)
(* Removing by swapping with the back.  A list is trimmed above m when up   *)
(* to m it is as it was, and above m it holds, in whatever order, those     *)
(* that were there and are to be kept.                                      *)
(***************************************************************************)
Trimmed(left, ws, m, keep) ==
    /\ Len(left) >= m
    /\ \A p \in 1 .. m : left[p] = ws[p]
    /\ \A p \in m + 1 .. Len(left) : \E q \in m + 1 .. Len(ws) : left[p] = ws[q] /\ ws[q] \in keep
    /\ \A q \in m + 1 .. Len(ws) :
          ws[q] \in keep => \E p \in m + 1 .. Len(left) : left[p] = ws[q]

LEMMA DroppedAt ==
  ASSUME NEW W, NEW s \in Seq(W), NEW i \in 1 .. Len(s)
  PROVE  /\ Dropped(s, i) \in Seq(W)
         /\ Len(Dropped(s, i)) = Len(s) - 1
         /\ \A p \in 1 .. Len(s) - 1 :
               Dropped(s, i)[p] = IF p = i THEN s[Len(s)] ELSE s[p]
<1>1. Len(s) \in Nat \ {0} /\ Len(s) - 1 \in Nat
  OBVIOUS
<1> DEFINE e(p) == IF p = i THEN s[Len(s)] ELSE s[p]
<1>2. \A p \in 1 .. Len(s) - 1 : e(p) \in W
  BY <1>1
<1>3. Dropped(s, i) = [p \in 1 .. Len(s) - 1 |-> e(p)]
  BY DEF Dropped
<1> HIDE DEF e
<1>4. Dropped(s, i) \in [1 .. Len(s) - 1 -> W]
  BY <1>2, <1>3
<1>5. DOMAIN Dropped(s, i) = 1 .. Len(s) - 1
  BY <1>3
<1>6. Dropped(s, i) \in Seq(W)
  BY <1>1, <1>4
<1>7. Len(Dropped(s, i)) = Len(s) - 1
  BY <1>1, <1>5, <1>6
<1> QED BY <1>3, <1>6, <1>7 DEF e

LEMMA TrimStarts ==
  ASSUME NEW W, NEW ws \in Seq(W), NEW keep
  PROVE  Trimmed(ws, ws, Len(ws), keep)
<1>1. Len(ws) \in Nat /\ Len(ws) + 1 .. Len(ws) = {}
  OBVIOUS
<1> QED BY <1>1 DEF Trimmed

LEMMA TrimKeeps ==
  ASSUME NEW W, NEW ws \in Seq(W), NEW left \in Seq(W), NEW keep, NEW m \in Nat,
         m + 1 \in 1 .. Len(ws), Trimmed(left, ws, m + 1, keep), ws[m + 1] \in keep
  PROVE  Trimmed(left, ws, m, keep)
<1>1. Len(ws) \in Nat /\ Len(left) \in Nat /\ m + 1 \in 1 .. Len(left) /\ left[m + 1] = ws[m + 1]
  BY DEF Trimmed
<1>2. ASSUME NEW p \in m + 1 .. Len(left)
      PROVE  \E q \in m + 1 .. Len(ws) : left[p] = ws[q] /\ ws[q] \in keep
  <2>1. CASE p = m + 1
    BY <1>1, <2>1
  <2>2. CASE p \in m + 1 + 1 .. Len(left)
    BY <1>1, <2>2 DEF Trimmed
  <2> QED BY <2>1, <2>2
<1>3. ASSUME NEW q \in m + 1 .. Len(ws), ws[q] \in keep
      PROVE  \E p \in m + 1 .. Len(left) : left[p] = ws[q]
  <2>1. CASE q = m + 1
    BY <1>1, <2>1
  <2>2. CASE q \in m + 1 + 1 .. Len(ws)
    BY <1>1, <1>3, <2>2 DEF Trimmed
  <2> QED BY <2>1, <2>2
<1>4. \A p \in 1 .. m : left[p] = ws[p]
  BY DEF Trimmed
<1> QED BY <1>1, <1>2, <1>3, <1>4 DEF Trimmed

LEMMA TrimDrops ==
  ASSUME NEW W, NEW ws \in Seq(W), NEW left \in Seq(W), NEW keep, NEW m \in Nat,
         m + 1 \in 1 .. Len(ws), Trimmed(left, ws, m + 1, keep), ws[m + 1] \notin keep
  PROVE  Trimmed(Dropped(left, m + 1), ws, m, keep)
<1> DEFINE new == Dropped(left, m + 1)
<1> DEFINE L == Len(left)
<1>1. Len(ws) \in Nat /\ L \in Nat /\ m + 1 \in 1 .. L
  BY DEF Trimmed
<1>2. /\ Len(new) = L - 1
      /\ \A p \in 1 .. L - 1 : new[p] = IF p = m + 1 THEN left[L] ELSE left[p]
  BY <1>1, DroppedAt
<1>3. /\ \A p \in 1 .. m + 1 : left[p] = ws[p]
      /\ \A p \in m + 1 + 1 .. L :
            \E q \in m + 1 + 1 .. Len(ws) : left[p] = ws[q] /\ ws[q] \in keep
      /\ \A q \in m + 1 + 1 .. Len(ws) :
            ws[q] \in keep => \E p \in m + 1 + 1 .. L : left[p] = ws[q]
  BY DEF Trimmed
<1> HIDE DEF new, L
<1>4. \A p \in 1 .. m : new[p] = ws[p]
  BY <1>1, <1>2, <1>3
<1>5. ASSUME NEW p \in m + 1 .. L - 1
      PROVE  \E q \in m + 1 .. Len(ws) : new[p] = ws[q] /\ ws[q] \in keep
  <2>1. PICK r \in m + 1 + 1 .. L : new[p] = left[r]
    BY <1>1, <1>2
  <2>2. PICK q \in m + 1 + 1 .. Len(ws) : left[r] = ws[q] /\ ws[q] \in keep
    BY <1>3
  <2> QED BY <1>1, <2>1, <2>2
<1>6. ASSUME NEW q \in m + 1 .. Len(ws), ws[q] \in keep
      PROVE  \E p \in m + 1 .. L - 1 : new[p] = ws[q]
  <2>1. q # m + 1
    BY <1>6
  <2>2. q \in m + 1 + 1 .. Len(ws)
    BY <2>1
  <2>3. PICK r \in m + 1 + 1 .. L : left[r] = ws[q]
    BY <1>3, <1>6, <2>2
  <2>4. CASE r = L
    <3>1. m + 1 \in 1 .. L - 1
      BY <2>3, <2>4, <1>1
    <3> QED BY <3>1, <2>3, <2>4, <1>2
  <2>5. CASE r # L
    <3>1. r \in 1 .. L - 1 /\ r \in m + 1 .. L - 1 /\ r # m + 1
      BY <2>5, <1>1
    <3> QED BY <3>1, <2>3, <1>2
  <2> QED BY <2>4, <2>5
<1>7. Len(new) >= m
  BY <1>1, <1>2
<1>8. Trimmed(new, ws, m, keep)
  BY <1>2, <1>4, <1>5, <1>6, <1>7 DEF Trimmed
<1> QED BY <1>8 DEF new

LEMMA TrimEnds ==
  ASSUME NEW W, NEW ws \in Seq(W), NEW left \in Seq(W), NEW keep,
         Trimmed(left, ws, 0, keep)
  PROVE  Elems(left) = Elems(ws) \intersect keep
<1>1. DOMAIN left = 1 .. Len(left) /\ DOMAIN ws = 1 .. Len(ws)
  OBVIOUS
<1>2. /\ \A p \in 1 .. Len(left) : \E q \in 1 .. Len(ws) : left[p] = ws[q] /\ ws[q] \in keep
      /\ \A q \in 1 .. Len(ws) : ws[q] \in keep => \E p \in 1 .. Len(left) : left[p] = ws[q]
  BY DEF Trimmed
<1>3. Elems(left) = {left[p] : p \in 1 .. Len(left)} /\ Elems(ws) = {ws[q] : q \in 1 .. Len(ws)}
  BY <1>1 DEF Elems
<1>4. Elems(left) \subseteq Elems(ws) \intersect keep
  BY <1>2, <1>3
<1>5. Elems(ws) \intersect keep \subseteq Elems(left)
  BY <1>2, <1>3
<1> QED BY <1>4, <1>5

-------------------------------------------------------------------------------
(***************************************************************************)
(* notify                                                                   *)
(***************************************************************************)
RunOfNotify(after, ws, held, staying) ==
    /\ after[0] = [left |-> ws, told |-> <<>>]
    /\ \A k \in 1 .. Len(ws) :
         after[k] = Visit(after[k - 1], Downwards(Len(ws), k), held, staying)
    /\ Notified(ws, held, staying) = after[Len(ws)]

LEMMA NotifyRuns ==
  ASSUME NEW W, NEW ws \in Seq(W), NEW held, NEW staying
  PROVE  \E after \in [0 .. Len(ws) -> [left : Seq(W), told : Seq(W)]] :
           RunOfNotify(after, ws, held, staying)
<1> DEFINE D == [left : Seq(W), told : Seq(W)]
<1> DEFINE base == [left |-> ws, told |-> <<>>]
<1> DEFINE n == Len(ws)
<1> DEFINE turn(acc, k) == Visit(acc, Downwards(n, k), held, staying)
<1> DEFINE step == [k \in 1 .. n |-> [acc \in D |-> turn(acc, k)]]
<1>1. base \in D /\ n \in Nat
  OBVIOUS
<1>2. ASSUME NEW acc \in D, NEW k \in 1 .. n PROVE turn(acc, k) \in D
  <2>1. Downwards(n, k) \in 1 .. n
    BY <1>1 DEF Downwards
  <2>2. ASSUME NEW i \in 1 .. n PROVE Visit(acc, i, held, staying) \in D
    <3>1. CASE i > Len(acc.left)
      BY <3>1 DEF Visit
    <3>2. CASE i <= Len(acc.left)
      <4>1. Dropped(acc.left, i) \in Seq(W)
        BY <3>2 DEF Dropped
      <4>2. acc.left[i] \in W /\ Append(acc.told, acc.left[i]) \in Seq(W)
        BY <3>2
      <4> QED BY <4>1, <4>2, <3>2 DEF Visit
    <3> QED BY <3>1, <3>2
  <2> HIDE DEF D, n
  <2> QED BY <2>1, <2>2
<1>3. step \in [1 .. n -> [D -> D]]
  <2> HIDE DEF D, n, turn
  <2> QED BY <1>2
<1>4. PICK g \in [0 .. n -> D] : RunOf(g, base, n, step)
  <2> HIDE DEF D, base, step, n
  <2> QED BY <1>1, <1>3, LoopRuns
<1> DEFINE value(h, k) == IF k = 0 THEN base ELSE turn(h[k - 1], k)
<1>5. ASSUME NEW k \in 0 .. n PROVE g[k] = value(g, k)
  <2>1. CASE k = 0
    BY <2>1, <1>4 DEF RunOf
  <2>2. CASE k \in 1 .. n
    <3>1. g[k - 1] \in D
      <4> HIDE DEF D
      <4> QED BY <1>1, <2>2
    <3> HIDE DEF D, turn, n
    <3> QED BY <1>4, <2>2, <3>1 DEF RunOf
  <2> QED BY <2>1, <2>2, <1>1
<1>6. g = [k \in 0 .. n |-> value(g, k)]
  <2> HIDE DEF value, n, D, base, step
  <2> QED BY <1>5
<1> DEFINE after == CHOOSE h : h = [k \in 0 .. n |-> value(h, k)]
<1>7. after = [k \in 0 .. n |-> value(after, k)]
  <2> HIDE DEF value, n
  <2> QED BY <1>6
<1>8. Notified(ws, held, staying) = after[n]
  BY DEF Notified
<1> HIDE DEF after
<1>9. after[0] = base /\ \A k \in 1 .. n : after[k] = turn(after[k - 1], k)
  BY <1>1, <1>7
<1>10. after \in [0 .. n -> D]
  <2> DEFINE S == {k \in 0 .. n : after[k] \in D}
  <2> HIDE DEF D, turn, base, n
  <2>1. 0 \in S
    BY <1>1, <1>9
  <2>2. \A k \in 1 .. n : k - 1 \in S => k \in S
    BY <1>1, <1>2, <1>9
  <2>3. 0 .. n \subseteq S
    <3> HIDE DEF S
    <3> QED BY <2>1, <2>2, <1>1, TurnByTurn
  <2> QED BY <2>3, <1>7
<1>11. RunOfNotify(after, ws, held, staying)
  BY <1>8, <1>9 DEF RunOfNotify
<1> HIDE DEF D, n
<1>12. \E h \in [0 .. n -> D] : RunOfNotify(h, ws, held, staying)
  BY <1>10, <1>11
<1> QED BY <1>12 DEF D, n

(***************************************************************************)
(* notify tells the watchers that live, whatever leaves the list meanwhile, *)
(* and those that live and answer true stay on it.                          *)
(***************************************************************************)
LEMMA NotifyTellsTheLiving ==
  ASSUME NEW W, NEW ws \in Seq(W), NEW held, NEW staying
  PROVE  LET result == Notified(ws, held, staying) IN
         /\ result \in [left : Seq(W), told : Seq(W)]
         /\ Elems(result.left) = Elems(ws) \intersect held \intersect staying
         /\ Elems(result.told) = Elems(ws) \intersect held
<1> DEFINE D == [left : Seq(W), told : Seq(W)]
<1> DEFINE n == Len(ws)
<1> DEFINE keep == held \intersect staying
<1>1. PICK after \in [0 .. n -> D] :
        /\ after[0] = [left |-> ws, told |-> <<>>]
        /\ \A k \in 1 .. n : after[k] = Visit(after[k - 1], Downwards(n, k), held, staying)
        /\ Notified(ws, held, staying) = after[n]
  BY NotifyRuns DEF RunOfNotify
<1>2. n \in Nat /\ DOMAIN ws = 1 .. n
  OBVIOUS
<1> DEFINE Told(told, m) == Elems(told) = {ws[q] : q \in m + 1 .. n} \intersect held
<1> DEFINE S == {k \in 0 .. n : /\ Trimmed(after[k].left, ws, n - k, keep)
                               /\ Told(after[k].told, n - k)}
<1>3. 0 \in S
  <2>1. after[0].left = ws /\ after[0].told = <<>>
    BY <1>1
  <2>2. Told(<<>>, n)
    <3>1. n + 1 .. n = {} /\ DOMAIN <<>> = {}
      BY <1>2
    <3> QED BY <3>1 DEF Elems
  <2> HIDE DEF Told
  <2> QED BY <2>1, <2>2, <1>2, TrimStarts
<1>4. ASSUME NEW k \in 1 .. n, k - 1 \in S PROVE k \in S
  <2> DEFINE m == n - k
  <2> DEFINE acc == after[k - 1]
  <2>1. m \in Nat /\ m + 1 \in 1 .. n /\ n - (k - 1) = m + 1 /\ k - 1 \in 0 .. n
    BY <1>2
  <2>2. acc \in D /\ acc.left \in Seq(W) /\ acc.told \in Seq(W)
    BY <2>1
  <2>3. Trimmed(acc.left, ws, m + 1, keep) /\ Told(acc.told, m + 1)
    BY <1>4, <2>1
  <2>4. after[k] = Visit(acc, m + 1, held, staying)
    BY <1>1, <1>2, <2>1 DEF Downwards
  <2> HIDE DEF acc, m, D, n, S, Told
  <2>5. acc.left[m + 1] = ws[m + 1] /\ m + 1 \in 1 .. Len(acc.left) /\ ws[m + 1] \in W
    BY <2>1, <2>2, <2>3, <1>2 DEF Trimmed
  <2>6. /\ after[k].left = IF ws[m + 1] \in keep THEN acc.left ELSE Dropped(acc.left, m + 1)
        /\ after[k].told = IF ws[m + 1] \in held THEN Append(acc.told, ws[m + 1])
                                                   ELSE acc.told
    BY <2>1, <2>2, <2>4, <2>5 DEF Visit
  <2>7. Trimmed(after[k].left, ws, m, keep)
    <3>1. m + 1 \in 1 .. Len(ws)
      BY <2>1 DEF n
    <3>2. CASE ws[m + 1] \in keep
      <4> HIDE DEF keep
      <4> QED BY <2>1, <2>2, <2>3, <2>6, <3>1, <3>2, TrimKeeps
    <3>3. CASE ws[m + 1] \notin keep
      <4> HIDE DEF keep
      <4> QED BY <2>1, <2>2, <2>3, <2>6, <3>1, <3>3, TrimDrops
    <3> QED BY <3>2, <3>3
  <2>8. Told(after[k].told, m)
    <3>1. {ws[q] : q \in m + 1 .. n} = {ws[q] : q \in m + 1 + 1 .. n} \union {ws[m + 1]}
      <4>1. m + 1 .. n = (m + 1 + 1 .. n) \union {m + 1}
        BY <2>1, <1>2
      <4> QED BY <4>1
    <3>2. Elems(acc.told) = {ws[q] : q \in m + 1 + 1 .. n} \intersect held
      BY <2>3 DEF Told
    <3>3. Elems(Append(acc.told, ws[m + 1])) = Elems(acc.told) \union {ws[m + 1]}
      BY <2>2, <2>5, AppendElems
    <3> QED BY <3>1, <3>2, <3>3, <2>6 DEF Told
  <2> QED BY <2>7, <2>8, <1>2 DEF m, S
<1>5. n \in S
  <2>1. \A k \in 1 .. n : k - 1 \in S => k \in S
    BY <1>4
  <2>2. 0 .. n \subseteq S
    <3> HIDE DEF S, n
    <3> QED BY <1>2, <1>3, <2>1, TurnByTurn
  <2> HIDE DEF S, n
  <2> QED BY <2>2, <1>2
<1>6. Trimmed(after[n].left, ws, 0, keep) /\ Told(after[n].told, 0)
  <2>1. n - n = 0
    BY <1>2
  <2> HIDE DEF Told, n
  <2> QED BY <1>5, <2>1
<1>7. after[n] \in D /\ after[n].left \in Seq(W) /\ after[n].told \in Seq(W)
  <2>1. after[n] \in D
    <3> HIDE DEF D, n
    <3> QED BY <1>2
  <2> HIDE DEF n
  <2> QED BY <2>1
<1>8. Elems(after[n].left) = Elems(ws) \intersect keep
  <2> HIDE DEF keep, n, D
  <2> QED BY <1>6, <1>7, TrimEnds
<1>9. Elems(after[n].told) = Elems(ws) \intersect held
  <2>1. {ws[q] : q \in 0 + 1 .. n} = Elems(ws)
    BY <1>2 DEF Elems
  <2> HIDE DEF n
  <2> QED BY <1>6, <2>1
<1> HIDE DEF D, Told, S, n
<1>10. Elems(after[n].left) = Elems(ws) \intersect held \intersect staying
  BY <1>8
<1> QED BY <1>1, <1>7, <1>9, <1>10 DEF D

-------------------------------------------------------------------------------
(***************************************************************************)
(* seen_by                                                                  *)
(***************************************************************************)
RunOfSeenBy(after, ws, who, held) ==
    /\ after[0] = [left |-> ws, over |-> FALSE]
    /\ \A k \in 1 .. Len(ws) :
         after[k] = Sift(after[k - 1], Downwards(Len(ws), k), who, held)
    /\ SeenBy(ws, who, held) =
         IF after[Len(ws)].over THEN after[Len(ws)].left
         ELSE Append(after[Len(ws)].left, who)

LEMMA SeenByRuns ==
  ASSUME NEW W, NEW ws \in Seq(W), NEW who, NEW held
  PROVE  \E after \in [0 .. Len(ws) -> [left : Seq(W), over : BOOLEAN]] :
           RunOfSeenBy(after, ws, who, held)
<1> DEFINE D == [left : Seq(W), over : BOOLEAN]
<1> DEFINE base == [left |-> ws, over |-> FALSE]
<1> DEFINE n == Len(ws)
<1> DEFINE turn(acc, k) == Sift(acc, Downwards(n, k), who, held)
<1> DEFINE step == [k \in 1 .. n |-> [acc \in D |-> turn(acc, k)]]
<1>1. base \in D /\ n \in Nat
  OBVIOUS
<1>2. ASSUME NEW acc \in D, NEW k \in 1 .. n PROVE turn(acc, k) \in D
  <2>1. ASSUME NEW i \in 1 .. n PROVE Dropped(acc.left, i) \in Seq(W)
    <3>1. CASE acc.left = <<>>
      <4> DEFINE e(p) == IF p = i THEN acc.left[Len(acc.left)] ELSE acc.left[p]
      <4>1. 1 .. Len(acc.left) - 1 = 1 .. 0
        BY <3>1
      <4>2. Dropped(acc.left, i) = [p \in 1 .. 0 |-> e(p)]
        BY <4>1 DEF Dropped
      <4> HIDE DEF e
      <4>3. Dropped(acc.left, i) \in [1 .. 0 -> W]
        BY <4>2
      <4> QED BY <4>3
    <3>2. CASE acc.left # <<>>
      <4> DEFINE L == Len(acc.left) - 1
      <4> DEFINE e(p) == IF p = i THEN acc.left[Len(acc.left)] ELSE acc.left[p]
      <4>1. L \in Nat /\ \A p \in 1 .. L : e(p) \in W
        BY <3>2
      <4>2. Dropped(acc.left, i) = [p \in 1 .. L |-> e(p)]
        BY DEF Dropped
      <4> HIDE DEF L, e
      <4> QED BY <4>1, <4>2
    <3> QED BY <3>1, <3>2
  <2>2. ASSUME NEW i \in 1 .. n PROVE Sift(acc, i, who, held) \in D
    <3>1. acc.left \in Seq(W) /\ acc.over \in BOOLEAN
      OBVIOUS
    <3>2. CASE acc.over
      BY <3>2 DEF Sift
    <3>3. CASE ~acc.over /\ acc.left[i] \in held
      <4>1. Sift(acc, i, who, held) = [acc EXCEPT !.over = (acc.left[i] = who)]
        BY <3>3 DEF Sift
      <4>2. (acc.left[i] = who) \in BOOLEAN
        OBVIOUS
      <4> QED BY <4>1, <4>2
    <3>4. CASE ~acc.over /\ acc.left[i] \notin held
      <4>1. Sift(acc, i, who, held)
              = [left |-> Dropped(acc.left, i), over |-> (Len(acc.left) = 1)]
        BY <3>4 DEF Sift
      <4>2. (Len(acc.left) = 1) \in BOOLEAN
        OBVIOUS
      <4> QED BY <4>1, <4>2, <2>1
    <3> QED BY <3>2, <3>3, <3>4
  <2>3. Downwards(n, k) \in 1 .. n
    BY <1>1 DEF Downwards
  <2> HIDE DEF D, n
  <2> QED BY <2>2, <2>3
<1>3. step \in [1 .. n -> [D -> D]]
  <2> HIDE DEF D, n, turn
  <2> QED BY <1>2
<1>4. PICK g \in [0 .. n -> D] : RunOf(g, base, n, step)
  <2> HIDE DEF D, base, step, n
  <2> QED BY <1>1, <1>3, LoopRuns
<1> DEFINE value(h, k) == IF k = 0 THEN base ELSE turn(h[k - 1], k)
<1>5. ASSUME NEW k \in 0 .. n PROVE g[k] = value(g, k)
  <2>1. CASE k = 0
    BY <2>1, <1>4 DEF RunOf
  <2>2. CASE k \in 1 .. n
    <3>1. g[k - 1] \in D
      <4> HIDE DEF D
      <4> QED BY <1>1, <2>2
    <3> HIDE DEF D, turn, n
    <3> QED BY <1>4, <2>2, <3>1 DEF RunOf
  <2> QED BY <2>1, <2>2, <1>1
<1>6. g = [k \in 0 .. n |-> value(g, k)]
  <2> HIDE DEF value, n, D, base, step
  <2> QED BY <1>5
<1> DEFINE after == CHOOSE h : h = [k \in 0 .. n |-> value(h, k)]
<1>7. after = [k \in 0 .. n |-> value(after, k)]
  <2> HIDE DEF value, n
  <2> QED BY <1>6
<1>8. SeenBy(ws, who, held) = IF after[n].over THEN after[n].left
                                ELSE Append(after[n].left, who)
  BY DEF SeenBy
<1> HIDE DEF after
<1>9. after[0] = base /\ \A k \in 1 .. n : after[k] = turn(after[k - 1], k)
  <2> HIDE DEF base, turn, n, D
  <2> QED BY <1>1, <1>7
<1>10. after \in [0 .. n -> D]
  <2> DEFINE S == {k \in 0 .. n : after[k] \in D}
  <2> HIDE DEF D, turn, base, n
  <2>1. 0 \in S
    BY <1>1, <1>9
  <2>2. \A k \in 1 .. n : k - 1 \in S => k \in S
    BY <1>1, <1>2, <1>9
  <2>3. 0 .. n \subseteq S
    <3> HIDE DEF S
    <3> QED BY <2>1, <2>2, <1>1, TurnByTurn
  <2> QED BY <2>3, <1>7
<1>11. RunOfSeenBy(after, ws, who, held)
  BY <1>8, <1>9 DEF RunOfSeenBy
<1> HIDE DEF D, n
<1>12. \E h \in [0 .. n -> D] : RunOfSeenBy(h, ws, who, held)
  BY <1>10, <1>11
<1> QED BY <1>12 DEF D, n

LEMMA TrimmedElems ==
  ASSUME NEW W, NEW ws \in Seq(W), NEW left \in Seq(W), NEW keep, NEW m \in 0 .. Len(ws),
         Trimmed(left, ws, m, keep)
  PROVE  Elems(left) \subseteq Elems(ws) /\ Elems(ws) \intersect keep \subseteq Elems(left)
<1>1. DOMAIN left = 1 .. Len(left) /\ DOMAIN ws = 1 .. Len(ws)
  OBVIOUS
<1>2. Elems(left) = {left[p] : p \in 1 .. Len(left)} /\ Elems(ws) = {ws[q] : q \in 1 .. Len(ws)}
  BY <1>1 DEF Elems
<1>3. ASSUME NEW p \in 1 .. Len(left) PROVE left[p] \in Elems(ws)
  <2>1. CASE p \in 1 .. m
    BY <2>1, <1>2 DEF Trimmed
  <2>2. CASE p \in m + 1 .. Len(left)
    <3>1. PICK q \in m + 1 .. Len(ws) : left[p] = ws[q]
      BY <2>2 DEF Trimmed
    <3> QED BY <3>1, <1>2
  <2> QED BY <2>1, <2>2
<1>4. ASSUME NEW q \in 1 .. Len(ws), ws[q] \in keep PROVE ws[q] \in Elems(left)
  <2>1. CASE q \in 1 .. m
    <3>1. left[q] = ws[q] /\ q \in 1 .. Len(left)
      BY <2>1 DEF Trimmed
    <3> QED BY <3>1, <1>2
  <2>2. CASE q \in m + 1 .. Len(ws)
    <3>1. PICK p \in m + 1 .. Len(left) : left[p] = ws[q]
      BY <2>2, <1>4 DEF Trimmed
    <3> QED BY <3>1, <1>2
  <2> QED BY <2>1, <2>2
<1> QED BY <1>2, <1>3, <1>4

(***************************************************************************)
(* seen_by loses no living watcher, and adds the one that asks unless all   *)
(* there were had died.                                                     *)
(***************************************************************************)
LEMMA SeenByKeepsTheLiving ==
  ASSUME NEW W, NEW ws \in Seq(W), NEW who \in W, NEW held
  PROVE  LET result == SeenBy(ws, who, held) IN
         /\ result \in Seq(W)
         /\ Elems(result) \subseteq Elems(ws) \union {who}
         /\ Elems(ws) \intersect held \subseteq Elems(result)
         /\ who \in Elems(result) \/ (ws # <<>> /\ Elems(ws) \intersect held = {})
<1> DEFINE D == [left : Seq(W), over : BOOLEAN]
<1> DEFINE n == Len(ws)
<1>1. PICK after \in [0 .. n -> D] :
        /\ after[0] = [left |-> ws, over |-> FALSE]
        /\ \A k \in 1 .. n : after[k] = Sift(after[k - 1], Downwards(n, k), who, held)
        /\ SeenBy(ws, who, held) =
             IF after[n].over THEN after[n].left ELSE Append(after[n].left, who)
  <2>1. PICK h \in [0 .. n -> D] : RunOfSeenBy(h, ws, who, held)
    BY SeenByRuns
  <2> QED BY <2>1 DEF RunOfSeenBy
<1>2. n \in Nat /\ DOMAIN ws = 1 .. n
  OBVIOUS
<1> DEFINE Sound(left) ==
      /\ Elems(left) \subseteq Elems(ws)
      /\ Elems(ws) \intersect held \subseteq Elems(left)
      /\ who \in Elems(left) \/ (ws # <<>> /\ Elems(ws) \intersect held = {})
<1> DEFINE Good(acc, m) == IF acc.over THEN Sound(acc.left) ELSE Trimmed(acc.left, ws, m, held)
<1> DEFINE S == {k \in 0 .. n : Good(after[k], n - k)}
<1>3. 0 \in S
  <2>1. after[0].left = ws /\ after[0].over = FALSE
    BY <1>1
  <2>2. Trimmed(ws, ws, n, held)
    BY TrimStarts
  <2> QED BY <2>1, <2>2, <1>2
<1>4. ASSUME NEW k \in 1 .. n, k - 1 \in S PROVE k \in S
  <2> DEFINE m == n - k
  <2> DEFINE acc == after[k - 1]
  <2>1. /\ m \in Nat /\ m + 1 \in 1 .. n /\ n - (k - 1) = m + 1 /\ k - 1 \in 0 .. n
        /\ m + 1 \in 0 .. n
    BY <1>2
  <2>2. acc \in D /\ acc.left \in Seq(W) /\ acc.over \in BOOLEAN
    BY <2>1
  <2>3. Good(acc, m + 1)
    BY <1>4, <2>1
  <2>4. after[k] = Sift(acc, m + 1, who, held)
    BY <1>1, <1>2, <2>1 DEF Downwards
  <2> HIDE DEF acc, m, S, Sound
  <2>5. CASE acc.over
    <3>1. after[k] = acc
      BY <2>4, <2>5 DEF Sift
    <3> HIDE DEF n
    <3>2. Good(after[k], m)
      BY <2>3, <2>5, <3>1
    <3> QED BY <3>2, <1>2 DEF S, m
  <2>6. CASE ~acc.over
    <3>1. Trimmed(acc.left, ws, m + 1, held)
      BY <2>3, <2>6
    <3>2. acc.left[m + 1] = ws[m + 1] /\ m + 1 \in 1 .. Len(acc.left)
      BY <2>1, <2>2, <3>1, <1>2 DEF Trimmed
    <3>3. /\ Elems(acc.left) \subseteq Elems(ws)
          /\ Elems(ws) \intersect held \subseteq Elems(acc.left)
      BY <3>1, <2>1, <2>2, TrimmedElems
    <3>4. Good(after[k], m)
      <4>1. CASE ws[m + 1] \in held
        <5>1. after[k].left = acc.left /\ after[k].over = (ws[m + 1] = who)
          <6>1. after[k] = [acc EXCEPT !.over = (ws[m + 1] = who)]
            BY <4>1, <2>4, <2>6, <3>2 DEF Sift
          <6> QED BY <6>1, <2>2
        <5>2. CASE ws[m + 1] = who
          <6>1. who \in Elems(acc.left)
            <7>1. DOMAIN acc.left = 1 .. Len(acc.left)
              BY <2>2
            <7> QED BY <7>1, <3>2, <5>2 DEF Elems
          <6> QED BY <6>1, <5>1, <5>2, <3>3 DEF Sound
        <5>3. CASE ws[m + 1] # who
          <6>1. Trimmed(acc.left, ws, m, held)
            BY <2>1, <2>2, <3>1, <4>1, TrimKeeps
          <6> QED BY <6>1, <5>1, <5>3
        <5> QED BY <5>2, <5>3
      <4>2. CASE ws[m + 1] \notin held
        <5>1. after[k] = [left |-> Dropped(acc.left, m + 1), over |-> (Len(acc.left) = 1)]
          BY <4>2, <2>4, <2>6, <3>2 DEF Sift
        <5>2. /\ after[k].left = Dropped(acc.left, m + 1)
              /\ after[k].over = (Len(acc.left) = 1)
          BY <5>1
        <5>3. Trimmed(after[k].left, ws, m, held)
          BY <5>2, <2>1, <2>2, <3>1, <4>2, TrimDrops
        <5>4. CASE Len(acc.left) # 1
          BY <5>2, <5>3, <5>4
        <5>5. CASE Len(acc.left) = 1
          <6>1. m = 0 /\ ws # <<>>
            BY <5>5, <3>2, <2>1, <1>2
          <6>2. Dropped(acc.left, m + 1) \in Seq(W) /\ Len(Dropped(acc.left, m + 1)) = 0
            <7>1. /\ Dropped(acc.left, m + 1) \in Seq(W)
                  /\ Len(Dropped(acc.left, m + 1)) = Len(acc.left) - 1
              BY <2>2, <3>2, DroppedAt
            <7> QED BY <5>5, <7>1
          <6>3. after[k].left = <<>>
            BY <6>2, <5>2
          <6>4. Elems(after[k].left) = {}
            BY <6>3 DEF Elems
          <6>5. Elems(after[k].left) = Elems(ws) \intersect held
            <7>1. Trimmed(after[k].left, ws, 0, held)
              BY <6>1, <5>3
            <7>2. after[k].left \in Seq(W)
              BY <6>3
            <7> QED BY <7>1, <7>2, TrimEnds
          <6>6. Sound(after[k].left)
            BY <6>1, <6>4, <6>5 DEF Sound
          <6> QED BY <6>6, <5>2, <5>5
        <5> QED BY <5>4, <5>5
      <4> QED BY <4>1, <4>2
    <3> HIDE DEF Good, n
    <3> QED BY <3>4, <1>2 DEF S, m
  <2> QED BY <2>5, <2>6
<1>5. n \in S
  <2>1. \A k \in 1 .. n : k - 1 \in S => k \in S
    BY <1>4
  <2>2. 0 .. n \subseteq S
    <3> HIDE DEF S, n
    <3> QED BY <1>2, <1>3, <2>1, TurnByTurn
  <2> HIDE DEF S, n
  <2> QED BY <2>2, <1>2
<1>6. Good(after[n], 0)
  <2>1. n - n = 0
    BY <1>2
  <2> HIDE DEF Good, n
  <2> QED BY <1>5, <2>1
<1>7. after[n] \in D /\ after[n].left \in Seq(W) /\ after[n].over \in BOOLEAN
  <2>1. after[n] \in D
    <3> HIDE DEF D, n
    <3> QED BY <1>2
  <2> HIDE DEF n
  <2> QED BY <2>1
<1> DEFINE last == after[n]
<1>8. /\ last.over => SeenBy(ws, who, held) = last.left
      /\ ~last.over => SeenBy(ws, who, held) = Append(last.left, who)
  BY <1>1
<1> HIDE DEF D, S, n, last, Sound
<1>9. CASE last.over
  <2>1. Sound(last.left)
    BY <1>6, <1>9 DEF last
  <2> QED BY <1>7, <1>8, <1>9, <2>1 DEF Sound, last
<1>10. CASE ~last.over
  <2>1. Elems(last.left) = Elems(ws) \intersect held
    BY <1>6, <1>7, <1>10, TrimEnds DEF last
  <2>2. /\ Append(last.left, who) \in Seq(W)
        /\ Elems(Append(last.left, who)) = Elems(last.left) \union {who}
    BY <1>7, AppendElems DEF last
  <2> QED BY <1>8, <1>10, <2>1, <2>2
<1> QED BY <1>9, <1>10

-------------------------------------------------------------------------------
(***************************************************************************)
(* Types                                                                    *)
(***************************************************************************)
EntryType ==
    [phrase : {Phrase[d] : d \in ClosedDefinitions},
     definiens : {Definiens[d] : d \in ClosedDefinitions},
     definition : ClosedDefinitions,
     sources : SUBSET Lines]

LEMMA DeclaredType ==
  ASSUME NEW names, NEW cat \in CatalogType(names), NEW kind \in Kinds, NEW name \in names
  PROVE  Declared(cat, kind, name) \in CatalogType(names)
<1> DEFINE Item == [name : names, kinds : SUBSET SyntaxKinds]
<1>1. cat.symbols \in Seq(Item) /\ cat.constants \subseteq names
      /\ cat = [symbols |-> cat.symbols, constants |-> cat.constants]
  BY DEF CatalogType
<1>2. CASE kind = "constant"
  BY <1>1, <1>2 DEF Declared, CatalogType
<1>3. CASE kind # "constant" /\ OnlyWarned(kind, name)
  BY <1>3 DEF Declared
<1>4. CASE kind # "constant" /\ ~OnlyWarned(kind, name)
  <2>1. kind \in SyntaxKinds
    BY <1>4 DEF Kinds
  <2>2. CASE name \in SymbolNames(cat)
    <3> DEFINE e(i) == WithKind(cat.symbols[i], kind, name)
    <3>1. ASSUME NEW i \in DOMAIN cat.symbols PROVE e(i) \in Item
      <4>1. cat.symbols[i] \in Item
        <5> HIDE DEF Item
        <5> QED BY <1>1
      <4> QED BY <4>1, <2>1 DEF WithKind
    <3>2. DOMAIN cat.symbols = 1 .. Len(cat.symbols) /\ Len(cat.symbols) \in Nat
      BY <1>1
    <3>3. Declared(cat, kind, name) = [cat EXCEPT !.symbols = [i \in DOMAIN cat.symbols |-> e(i)]]
      BY <1>4, <2>2 DEF Declared
    <3> HIDE DEF e, Item
    <3>4. [i \in DOMAIN cat.symbols |-> e(i)] \in Seq(Item)
      BY <3>1, <3>2
    <3> QED BY <1>1, <3>3, <3>4 DEF CatalogType, Item
  <2>3. CASE name \notin SymbolNames(cat)
    <3>1. [name |-> name, kinds |-> {kind}] \in Item
      BY <2>1
    <3>2. Append(cat.symbols, [name |-> name, kinds |-> {kind}]) \in Seq(Item)
      <4> HIDE DEF Item
      <4> QED BY <1>1, <3>1, AppendProperties
    <3>3. Declared(cat, kind, name)
            = [cat EXCEPT !.symbols = Append(cat.symbols, [name |-> name, kinds |-> {kind}])]
      BY <1>4, <2>3 DEF Declared
    <3> QED BY <1>1, <3>2, <3>3 DEF CatalogType
  <2> QED BY <2>2, <2>3
<1> QED BY <1>2, <1>3, <1>4

LEMMA PairsType ==
  ASSUME TypeOK, NEW line \in Lines
  PROVE  PairsOf(line) \in Seq(Schemas \X Declarations)
<1>1. /\ schemas \in Seq(Schemas) /\ declarations \in Seq(Declarations)
      /\ DOMAIN schemas = 1 .. Len(schemas) /\ Len(schemas) \in Nat
      /\ DOMAIN declarations = 1 .. Len(declarations) /\ Len(declarations) \in Nat
  BY DEF TypeOK
<1>2. CASE line \in Declarations
  <2>1. PairsOf(line) = [i \in DOMAIN schemas |-> <<schemas[i], line>>]
    BY <1>2, LinesAssumption DEF PairsOf
  <2> QED BY <1>1, <1>2, <2>1
<1>3. CASE line \in Schemas
  <2>1. PairsOf(line) = [i \in DOMAIN declarations |-> <<line, declarations[i]>>]
    BY <1>3, LinesAssumption DEF PairsOf
  <2> QED BY <1>1, <1>3, <2>1
<1>4. CASE line \in Formulas
  <2>1. PairsOf(line) = <<>>
    BY <1>4, LinesAssumption DEF PairsOf
  <2> QED BY <2>1
<1> QED BY <1>2, <1>3, <1>4 DEF Lines

\* what a saturating pair concludes is a statement
LEMMA InstanceType ==
  ASSUME NEW pair \in Schemas \X Declarations, Yields(pair)
  PROVE  Instance(pair) \in Statements
BY LinesAssumption DEF Yields, Instance

LEMMA EntryIsTyped ==
  ASSUME NEW st \in ClosedDefinitions
  PROVE  Entry(st) \in EntryType
BY DEF Entry, EntryType

LEMMA AttributedType ==
  ASSUME NEW entries \in Seq(EntryType), NEW st, NEW pair \in Schemas \X Declarations
  PROVE  Attributed(entries, st, pair) \in Seq(EntryType)
<1> DEFINE e(i) == IF entries[i].definition = st
                   THEN [entries[i] EXCEPT !.sources = @ \union {pair[1], pair[2]}]
                   ELSE entries[i]
<1>1. DOMAIN entries = 1 .. Len(entries) /\ Len(entries) \in Nat
  OBVIOUS
<1>2. ASSUME NEW i \in DOMAIN entries PROVE e(i) \in EntryType
  <2>1. pair[1] \in Lines /\ pair[2] \in Lines
    BY DEF Lines
  <2>2. entries[i] \in EntryType
    OBVIOUS
  <2>3. [entries[i] EXCEPT !.sources = @ \union {pair[1], pair[2]}] \in EntryType
    BY <2>1, <2>2 DEF EntryType
  <2> QED BY <2>2, <2>3
<1>3. Attributed(entries, st, pair) = [i \in DOMAIN entries |-> e(i)]
  BY DEF Attributed
<1> HIDE DEF e
<1> QED BY <1>1, <1>2, <1>3

LEMMA DefinitionsWithType ==
  ASSUME definitions \in Seq(EntryType), NEW st
  PROVE  DefinitionsWith(st) \in Seq(EntryType)
<1>1. CASE Known(st) \/ Clashes(st) \/ st \notin ClosedDefinitions
  BY <1>1 DEF DefinitionsWith
<1>2. CASE ~(Known(st) \/ Clashes(st) \/ st \notin ClosedDefinitions)
  <2>1. DefinitionsWith(st) = Append(definitions, Entry(st)) /\ st \in ClosedDefinitions
    BY <1>2 DEF DefinitionsWith
  <2>2. Entry(st) \in EntryType
    BY <2>1, EntryIsTyped
  <2> QED BY <2>1, <2>2, AppendElems
<1> QED BY <1>1, <1>2

(***************************************************************************)
(* Values keep their kinds (every variable of gentzen::axioms, of           *)
(* saturation, and of the root lemmas and definitions).                     *)
(***************************************************************************)
THEOREM TypeCorrect == Spec => []TypeOK
<1>1. Init => TypeOK
  <2> SUFFICES ASSUME Init PROVE TypeOK
    OBVIOUS
  <2>1. \A W : <<>> \in Seq(W)
    OBVIOUS
  <2>2. catalog \in CatalogType(Symbols)
    BY <2>1 DEF Init, EmptyCatalog, CatalogType
  <2> QED BY <2>1, <2>2 DEF Init, TypeOK
<1>2. TypeOK /\ [Next]_vars => TypeOK'
  <2> SUFFICES ASSUME TypeOK, [Next]_vars PROVE TypeOK'
    OBVIOUS
  <2>0. definitions \in Seq(EntryType)
    BY DEF TypeOK, EntryType
  <2>1. ASSUME NEW line \in Lines, NEW leaving \in SUBSET Others, AddAxiom(line, leaving)
        PROVE  TypeOK'
    <3> DEFINE result == Notified(watchers, living, Observer \ leaving)
    <3>1. result.left \in Seq(Observer)
      BY NotifyTellsTheLiving DEF TypeOK
    <3>2. watchers' \in Seq(Observer)
      BY <2>1, <3>1 DEF AddAxiom, Tell
    <3>3. heard' \in [Observer -> Seq(Lines)]
      <4>1. ASSUME NEW o \in Observer PROVE Append(heard[o], line) \in Seq(Lines)
        BY AppendProperties DEF TypeOK
      <4> HIDE DEF result
      <4> QED BY <2>1, <4>1 DEF AddAxiom, Tell, TypeOK, result
    <3>4. inbox' \in Seq(Lines)
      <4>1. inbox' = <<line>> \/ inbox' = <<>>
        BY <2>1 DEF AddAxiom, Tell
      <4>2. <<line>> \in Seq(Lines) /\ <<>> \in Seq(Lines)
        OBVIOUS
      <4> QED BY <4>1, <4>2
    <3>5. axioms' \in Seq(Lines)
      BY <2>1, AppendProperties DEF AddAxiom, TypeOK
    <3>6. catalog' \in CatalogType(Symbols)
      <4>1. CASE line \in Declarations
        <5>1. Kind[line] \in Kinds /\ Subject[line] \in Symbols
          BY <4>1, LinesAssumption
        <5> QED BY <2>1, <4>1, <5>1, DeclaredType DEF AddAxiom, CatalogWith, TypeOK
      <4>2. CASE line \notin Declarations
        BY <2>1, <4>2 DEF AddAxiom, CatalogWith, TypeOK
      <4> QED BY <4>1, <4>2
    <3> QED BY <2>1, <3>2, <3>3, <3>4, <3>5, <3>6 DEF AddAxiom, TypeOK, saturated
  <2>2. CASE WatchSaturation
    <3>1. Saturator \in Observer
      BY DEF Observer
    <3>2. SeenBy(watchers, Saturator, living) \in Seq(Observer)
      BY <3>1, SeenByKeepsTheLiving DEF TypeOK
    <3> QED BY <2>2, <3>1, <3>2 DEF WatchSaturation, Replayed, TypeOK, saturated
  <2>3. ASSUME NEW o \in Others, NEW n \in 1 .. MaxAxioms + 1, Watch(o, n)
        PROVE  TypeOK'
    <3>1. o \in Observer
      BY DEF Observer
    <3>2. SeenBy(watchers, o, living) \in Seq(Observer)
      BY <3>1, SeenByKeepsTheLiving DEF TypeOK
    <3>3. watchers' \in Seq(Observer)
      BY <2>3, <3>2 DEF Watch, TypeOK
    <3>4. heard' \in [Observer -> Seq(Lines)]
      <4>1. n <= Len(axioms) => SubSeq(axioms, 1, n) \in Seq(Lines)
        BY DEF TypeOK
      <4>2. axioms \in Seq(Lines) /\ heard \in [Observer -> Seq(Lines)]
        BY DEF TypeOK
      <4> QED BY <2>3, <4>1, <4>2 DEF Watch, Replayed
    <3> QED BY <2>3, <3>1, <3>3, <3>4 DEF Watch, TypeOK, saturated
  <2>4. ASSUME NEW o \in Others, Expire(o) PROVE TypeOK'
    BY <2>4 DEF Expire, TypeOK, saturated
  <2>5. CASE HearNext
    <3>1. inbox \in Seq(Lines) /\ inbox # <<>>
      BY <2>5 DEF HearNext, TypeOK
    <3>2. Head(inbox) \in Lines /\ Tail(inbox) \in Seq(Lines)
      BY <3>1, TailElems
    <3>3. heard' \in [Observer -> Seq(Lines)]
      <4>1. Append(heard[Saturator], Head(inbox)) \in Seq(Lines)
        BY <3>2, AppendProperties DEF TypeOK, Observer
      <4> QED BY <2>5, <4>1 DEF HearNext, TypeOK
    <3>4. schemas' \in Seq(Schemas) /\ declarations' \in Seq(Declarations)
      BY <2>5, AppendProperties DEF HearNext, TypeOK
    <3>5. pairs' \in Seq(Schemas \X Declarations)
      BY <2>5, <3>2, PairsType DEF HearNext
    <3> QED BY <2>5, <3>2, <3>3, <3>4, <3>5 DEF HearNext, TypeOK, loading
  <2>6. CASE SaturatePair
    <3> DEFINE pair == Head(pairs)
    <3>1. pair \in Schemas \X Declarations /\ pairs' \in Seq(Schemas \X Declarations)
      BY <2>6, TailElems DEF SaturatePair, TypeOK
    <3>2. lemmas' \in Seq(Statements)
      <4>1. CASE Yields(pair)
        <5>1. Instance(pair) \in Statements
          BY <3>1, <4>1, InstanceType
        <5>2. lemmas' = LemmasWith(Instance(pair))
          BY <2>6, <4>1 DEF SaturatePair
        <5> HIDE DEF pair
        <5> QED BY <5>1, <5>2, AppendProperties DEF LemmasWith, TypeOK
      <4>2. CASE ~Yields(pair)
        BY <2>6, <4>2 DEF SaturatePair, TypeOK
      <4> QED BY <4>1, <4>2
    <3>3. definitions' \in Seq(EntryType)
      <4>1. CASE Yields(pair)
        <5>1. definitions' = Attributed(DefinitionsWith(Instance(pair)), Instance(pair), pair)
          BY <2>6, <4>1 DEF SaturatePair
        <5> HIDE DEF pair
        <5>2. DefinitionsWith(Instance(pair)) \in Seq(EntryType)
          BY <2>0, DefinitionsWithType
        <5> QED BY <3>1, <5>1, <5>2, AttributedType
      <4>2. CASE ~Yields(pair)
        BY <2>0, <2>6, <4>2 DEF SaturatePair
      <4> QED BY <4>1, <4>2
    <3> HIDE DEF pair
    <3> QED BY <2>6, <3>1, <3>2, <3>3 DEF SaturatePair, TypeOK, loading, EntryType
  <2>7. CASE UNCHANGED vars
    BY <2>7 DEF vars, TypeOK
  <2> QED BY <2>1, <2>2, <2>3, <2>4, <2>5, <2>6, <2>7 DEF Next
<1> QED BY <1>1, <1>2, PTL DEF Spec

-------------------------------------------------------------------------------
(***************************************************************************)
(* Watchers                                                                 *)
(***************************************************************************)

\* who has not asked to watch is not told of anything
Watching ==
    /\ Saturator \in living
    /\ inbox # <<>> => Saturator \in asked
    /\ Elems(watchers) \subseteq asked
    /\ \A o \in Observer \ asked : heard[o] = <<>>

\* the next of those to come moved to the end of those that came
LEMMA MovedOver ==
  ASSUME NEW W, NEW s \in Seq(W), NEW t \in Seq(W), t # <<>>
  PROVE  Append(s, Head(t)) \o Tail(t) = s \o t
<1> DEFINE u == Append(s, Head(t))
<1> DEFINE v == Tail(t)
<1>1. /\ Len(s) \in Nat /\ Len(t) \in Nat /\ Len(t) >= 1
      /\ Head(t) = t[1] /\ Head(t) \in W
      /\ v \in Seq(W) /\ Len(v) = Len(t) - 1
      /\ \A i \in 1 .. Len(t) - 1 : v[i] = t[i + 1]
  OBVIOUS
<1>2. /\ u \in Seq(W) /\ Len(u) = Len(s) + 1
      /\ \A i \in 1 .. Len(s) : u[i] = s[i]
      /\ u[Len(s) + 1] = t[1]
  BY <1>1, AppendProperties
<1> HIDE DEF u, v
<1>3. /\ u \o v \in Seq(W) /\ s \o t \in Seq(W)
      /\ Len(u \o v) = Len(s) + Len(t) /\ Len(s \o t) = Len(s) + Len(t)
  <2>1. Len(u \o v) = Len(u) + Len(v) /\ u \o v \in Seq(W)
    BY <1>1, <1>2, ConcatProperties
  <2>2. Len(s \o t) = Len(s) + Len(t) /\ s \o t \in Seq(W)
    BY ConcatProperties
  <2> QED BY <1>1, <1>2, <2>1, <2>2
<1>4. ASSUME NEW i \in 1 .. Len(s) + Len(t) PROVE (u \o v)[i] = (s \o t)[i]
  <2>1. CASE i \in 1 .. Len(s)
    <3>1. (u \o v)[i] = u[i] /\ (s \o t)[i] = s[i]
      BY <2>1, <1>1, <1>2, ConcatProperties
    <3> QED BY <3>1, <2>1, <1>2
  <2>2. CASE i = Len(s) + 1
    <3>1. (u \o v)[i] = u[i] /\ (s \o t)[i] = t[1]
      BY <2>2, <1>1, <1>2, ConcatProperties
    <3> QED BY <3>1, <2>2, <1>2
  <2>3. CASE i > Len(s) + 1
    <3>1. (u \o v)[i] = v[i - (Len(s) + 1)]
      BY <2>3, <1>1, <1>2, ConcatProperties
    <3>2. (s \o t)[i] = t[i - Len(s)]
      BY <2>3, <1>1, ConcatProperties
    <3>3. i - (Len(s) + 1) \in 1 .. Len(t) - 1 /\ i - (Len(s) + 1) + 1 = i - Len(s)
      BY <2>3, <1>1
    <3> QED BY <3>1, <3>2, <3>3, <1>1
  <2>4. i \in 1 .. Len(s) \/ i = Len(s) + 1 \/ i > Len(s) + 1
    <3>1. Len(s) \in Nat /\ Len(t) \in Nat
      OBVIOUS
    <3> QED BY <3>1
  <2> QED BY <2>1, <2>2, <2>3, <2>4
<1>5. u \o v = s \o t
  BY <1>3, <1>4, SeqEqual
<1> QED BY <1>5 DEF u, v

LEMMA HearingStep ==
  ASSUME TypeOK, Watching, HeardExactly, [Next]_vars
  PROVE  Watching' /\ HeardExactly'
<1>0. Saturator \in Observer /\ Saturator \notin Others
  BY LinesAssumption DEF Observer
<1>1. ASSUME NEW line \in Lines, NEW leaving \in SUBSET Others, AddAxiom(line, leaving)
      PROVE  Watching' /\ HeardExactly'
  <2> DEFINE result == Notified(watchers, living, Observer \ leaving)
  <2>1. /\ Elems(result.left) = Elems(watchers) \intersect living \intersect (Observer \ leaving)
        /\ Elems(result.told) = Elems(watchers) \intersect living
    BY NotifyTellsTheLiving DEF TypeOK
  <2>2. /\ watchers' = result.left
        /\ heard' = [o \in Observer |->
                       IF o \in Others /\ o \in Elems(result.told) THEN Append(heard[o], line)
                                                                  ELSE heard[o]]
        /\ inbox' = IF Saturator \in Elems(result.told) THEN <<line>> ELSE <<>>
        /\ axioms' = Append(axioms, line) /\ living' = living /\ asked' = asked
        /\ inbox = <<>>
    BY <1>1 DEF AddAxiom, Tell, AtRest
  <2> HIDE DEF result
  <2>3. Elems(watchers') = Elems(watchers) \intersect living \intersect (Observer \ leaving)
    BY <2>1, <2>2
  <2>4. Watching'
    <3>1. \A o \in Observer \ asked : heard'[o] = heard[o]
      BY <2>1, <2>2 DEF Watching
    <3>2. inbox' # <<>> => Saturator \in asked
      BY <2>1, <2>2 DEF Watching
    <3> QED BY <2>2, <2>3, <3>1, <3>2 DEF Watching
  <2>5. ASSUME NEW o \in living' \intersect Elems(watchers')
        PROVE  axioms' = IF o = Saturator THEN heard'[o] \o inbox' ELSE heard'[o]
    <3>1. o \in living \intersect Elems(watchers) /\ o \in Elems(result.told) /\ o \in Observer
      BY <2>1, <2>2, <2>3
    <3>2. axioms = IF o = Saturator THEN heard[o] \o inbox ELSE heard[o]
      BY <3>1 DEF HeardExactly
    <3>3. CASE o = Saturator
      <4>1. heard[o] \in Seq(Lines) /\ heard[o] \o <<>> = heard[o]
        BY <3>1, ConcatEmptySeq DEF TypeOK
      <4>2. axioms = heard[o]
        BY <4>1, <3>2, <3>3, <2>2
      <4>3. heard'[o] = heard[o] /\ inbox' = <<line>>
        BY <3>3, <3>1, <2>2, <1>0
      <4>4. Append(heard[o], line) = heard[o] \o <<line>>
        BY <4>1, AppendIsConcat
      <4> QED BY <4>2, <4>3, <4>4, <2>2, <3>3
    <3>4. CASE o # Saturator
      <4>1. o \in Others
        BY <3>1, <3>4 DEF Observer
      <4> QED BY <4>1, <3>1, <3>2, <3>4, <2>2
    <3> QED BY <3>3, <3>4
  <2> QED BY <2>4, <2>5 DEF HeardExactly
<1>2. CASE WatchSaturation
  <2>1. /\ Saturator \notin asked /\ asked' = asked \union {Saturator}
        /\ inbox' = axioms /\ inbox = <<>>
        /\ watchers' = SeenBy(watchers, Saturator, living)
        /\ axioms' = axioms /\ living' = living /\ heard' = heard
    BY <1>2 DEF WatchSaturation, Replayed, AtRest
  <2>2. Elems(watchers') \subseteq Elems(watchers) \union {Saturator}
    BY <1>0, <2>1, SeenByKeepsTheLiving DEF TypeOK
  <2>3. Watching'
    BY <2>1, <2>2 DEF Watching
  <2>4. ASSUME NEW o \in living' \intersect Elems(watchers')
        PROVE  axioms' = IF o = Saturator THEN heard'[o] \o inbox' ELSE heard'[o]
    <3>1. CASE o = Saturator
      <4>1. heard[o] = <<>>
        BY <1>0, <2>1, <3>1 DEF Watching
      <4>2. axioms \in Seq(Lines) /\ <<>> \o axioms = axioms
        BY ConcatEmptySeq DEF TypeOK
      <4> QED BY <2>1, <3>1, <4>1, <4>2
    <3>2. CASE o # Saturator
      BY <2>1, <2>2, <3>2 DEF HeardExactly
    <3> QED BY <3>1, <3>2
  <2> QED BY <2>3, <2>4 DEF HeardExactly
<1>3. ASSUME NEW who \in Others, NEW n \in 1 .. MaxAxioms + 1, Watch(who, n)
      PROVE  Watching' /\ HeardExactly'
  <2>0. who \in Observer /\ who # Saturator
    BY <1>0 DEF Observer
  <2>1. /\ who \notin asked /\ asked' = asked \union {who}
        /\ axioms' = axioms /\ living' = living /\ inbox' = inbox
        /\ \A o \in Observer \ {who} : heard'[o] = heard[o]
    BY <1>3 DEF Watch, TypeOK
  <2>2. \/ watchers' = watchers
        \/ watchers' = SeenBy(watchers, who, living) /\ heard'[who] = axioms
    BY <1>3, <2>0 DEF Watch, Replayed, TypeOK
  <2>3. Elems(watchers') \subseteq Elems(watchers) \union {who}
    BY <2>0, <2>2, SeenByKeepsTheLiving DEF TypeOK
  <2>4. Watching'
    BY <2>1, <2>3 DEF Watching
  <2>5. ASSUME NEW o \in living' \intersect Elems(watchers')
        PROVE  axioms' = IF o = Saturator THEN heard'[o] \o inbox' ELSE heard'[o]
    <3>1. CASE o = who
      <4>1. who \notin Elems(watchers)
        BY <2>1 DEF Watching
      <4>2. watchers' # watchers
        BY <4>1, <3>1
      <4> QED BY <4>2, <3>1, <2>0, <2>1, <2>2
    <3>2. CASE o # who
      <4>1. o \in living \intersect Elems(watchers) /\ o \in Observer
        BY <3>2, <2>1, <2>3 DEF TypeOK
      <4> QED BY <4>1, <3>2, <2>1 DEF HeardExactly
    <3> QED BY <3>1, <3>2
  <2> QED BY <2>4, <2>5 DEF HeardExactly
<1>4. ASSUME NEW o \in Others, Expire(o) PROVE Watching' /\ HeardExactly'
  BY <1>0, <1>4 DEF Expire, Watching, HeardExactly
<1>5. CASE HearNext
  <2>1. /\ inbox # <<>> /\ inbox' = Tail(inbox)
        /\ heard' = [heard EXCEPT ![Saturator] = Append(@, Head(inbox))]
        /\ axioms' = axioms /\ living' = living /\ watchers' = watchers /\ asked' = asked
    BY <1>5 DEF HearNext, loading
  <2>2. /\ heard'[Saturator] = Append(heard[Saturator], Head(inbox))
        /\ \A o \in Observer \ {Saturator} : heard'[o] = heard[o]
    BY <1>0, <2>1 DEF TypeOK
  <2>3. heard'[Saturator] \o inbox' = heard[Saturator] \o inbox
    <3>1. heard[Saturator] \in Seq(Lines) /\ inbox \in Seq(Lines)
      BY <1>0 DEF TypeOK
    <3> QED BY <2>1, <2>2, <3>1, MovedOver
  <2>4. Saturator \in asked
    BY <2>1 DEF Watching
  <2> QED BY <2>1, <2>2, <2>3, <2>4 DEF Watching, HeardExactly, TypeOK
<1>6. CASE SaturatePair
  BY <1>6 DEF SaturatePair, loading, Watching, HeardExactly
<1>7. CASE UNCHANGED vars
  BY <1>7 DEF vars, Watching, HeardExactly
<1> QED BY <1>1, <1>2, <1>3, <1>4, <1>5, <1>6, <1>7 DEF Next

(***************************************************************************)
(* A watcher on the list has been shown every axiom once and in order,      *)
(* saturation's call under way included (watched_by, notify).               *)
(***************************************************************************)
THEOREM HearingIsExact == Spec => []HeardExactly
<1>1. Init => Watching /\ HeardExactly
  BY DEF Init, Watching, HeardExactly, Elems, Observer
<1>2. TypeOK /\ Watching /\ HeardExactly /\ [Next]_vars => Watching' /\ HeardExactly'
  BY HearingStep
<1> QED BY <1>1, <1>2, TypeCorrect, PTL DEF Spec

(***************************************************************************)
(* Nobody living is dropped but by its own answer, and nobody who asks is   *)
(* left out but where everyone before it had died (notify, seen_by).        *)
(***************************************************************************)
THEOREM RegistrationsAreHeld == Spec => RegistrationsHold
<1>1. Init => Watching /\ HeardExactly
  BY DEF Init, Watching, HeardExactly, Elems, Observer
<1>2. TypeOK /\ Watching /\ HeardExactly /\ [Next]_vars => Watching' /\ HeardExactly'
  BY HearingStep
<1> DEFINE Held(o) == \/ o \in Elems(watchers')
                      \/ Answered(o)
                      \/ o \in asked' \ asked /\ AllDead
<1>3. ASSUME TypeOK, Watching, [Next]_vars,
             NEW o \in living', o \in Elems(watchers) \union (asked' \ asked)
      PROVE  Held(o)
  <2>1. ASSUME NEW line \in Lines, NEW leaving \in SUBSET Others, AddAxiom(line, leaving)
        PROVE  Held(o)
    <3> DEFINE result == Notified(watchers, living, Observer \ leaving)
    <3>1. /\ Elems(result.left) = Elems(watchers) \intersect living \intersect (Observer \ leaving)
          /\ Elems(result.told) = Elems(watchers) \intersect living
      BY <1>3, NotifyTellsTheLiving DEF TypeOK
    <3>2. /\ watchers' = result.left /\ living' = living /\ asked' = asked
          /\ heard' = [p \in Observer |->
                         IF p \in Others /\ p \in Elems(result.told) THEN Append(heard[p], line)
                                                                    ELSE heard[p]]
      BY <2>1 DEF AddAxiom, Tell
    <3> HIDE DEF result
    <3>3. o \in Elems(watchers) \intersect living /\ o \in Observer
      BY <1>3, <3>2 DEF TypeOK
    <3>4. CASE o \in leaving
      <4>1. o \in Others /\ heard'[o] = Append(heard[o], line) /\ heard[o] \in Seq(Lines)
        BY <1>3, <3>1, <3>2, <3>3, <3>4 DEF TypeOK
      <4>2. Append(heard[o], line) # heard[o]
        <5>1. Len(Append(heard[o], line)) = Len(heard[o]) + 1 /\ Len(heard[o]) \in Nat
          BY <4>1, AppendProperties
        <5> QED BY <5>1
      <4> QED BY <4>1, <4>2 DEF Answered
    <3>5. CASE o \notin leaving
      BY <3>1, <3>2, <3>3, <3>5
    <3> QED BY <3>4, <3>5
  <2>2. CASE WatchSaturation
    <3>1. /\ asked' = asked \union {Saturator} /\ Saturator \notin asked
          /\ watchers' = SeenBy(watchers, Saturator, living) /\ living' = living
      BY <2>2 DEF WatchSaturation
    <3>2. Saturator \in Observer
      BY DEF Observer
    <3>3. /\ Elems(watchers) \intersect living \subseteq Elems(watchers')
          /\ \/ Saturator \in Elems(watchers')
             \/ watchers # <<>> /\ Elems(watchers) \intersect living = {}
      BY <1>3, <3>1, <3>2, SeenByKeepsTheLiving DEF TypeOK
    <3> QED BY <1>3, <3>1, <3>3 DEF AllDead
  <2>3. ASSUME NEW who \in Others, NEW n \in 1 .. MaxAxioms + 1, Watch(who, n)
        PROVE  Held(o)
    <3>1. /\ asked' = asked \union {who} /\ who \notin asked /\ living' = living
          /\ who \in Observer
      BY <2>3 DEF Watch, Observer
    <3>2. CASE n <= Len(axioms)
      <4>1. watchers' = watchers /\ heard'[who] = SubSeq(axioms, 1, n)
        BY <1>3, <2>3, <3>1, <3>2 DEF Watch, Replayed, TypeOK
      <4>2. heard[who] = <<>>
        BY <1>3, <3>1 DEF Watching
      <4>3. SubSeq(axioms, 1, n) # <<>>
        <5>1. axioms \in Seq(Lines) /\ n \in 1 .. Len(axioms)
          BY <1>3, <3>2 DEF TypeOK
        <5>2. Len(SubSeq(axioms, 1, n)) = n
          BY <5>1
        <5> QED BY <5>1, <5>2
      <4> QED BY <1>3, <3>1, <4>1, <4>2, <4>3 DEF Answered
    <3>3. CASE ~(n <= Len(axioms))
      <4>1. watchers' = SeenBy(watchers, who, living)
        BY <2>3, <3>3 DEF Watch
      <4>2. /\ Elems(watchers) \intersect living \subseteq Elems(watchers')
            /\ \/ who \in Elems(watchers')
               \/ watchers # <<>> /\ Elems(watchers) \intersect living = {}
        BY <1>3, <3>1, <4>1, SeenByKeepsTheLiving DEF TypeOK
      <4> QED BY <1>3, <3>1, <4>2 DEF AllDead
    <3> QED BY <3>2, <3>3
  <2>4. CASE watchers' = watchers /\ asked' = asked
    BY <1>3, <2>4
  <2>5. ASSUME NEW p \in Others, Expire(p) PROVE Held(o)
    BY <2>4, <2>5 DEF Expire
  <2>6. CASE HearNext \/ SaturatePair \/ UNCHANGED vars
    BY <2>4, <2>6 DEF HearNext, SaturatePair, loading, vars
  <2> QED BY <1>3, <2>1, <2>2, <2>3, <2>5, <2>6 DEF Next
<1>4. TypeOK /\ Watching /\ [Next]_vars
        => [\A o \in living' :
              o \in Elems(watchers) \union (asked' \ asked) =>
                \/ o \in Elems(watchers')
                \/ Answered(o)
                \/ o \in asked' \ asked /\ AllDead]_vars
  BY <1>3
<1> QED BY <1>1, <1>2, <1>4, TypeCorrect, PTL DEF Spec, RegistrationsHold

-------------------------------------------------------------------------------
(***************************************************************************)
(* Saturation                                                               *)
(***************************************************************************)

\* what saturation has filed is what it has heard, and that are axioms
Digested ==
    /\ Elems(heard[Saturator]) \union Elems(inbox) \subseteq Elems(axioms)
    /\ Elems(schemas) = Elems(heard[Saturator]) \intersect Schemas
    /\ Elems(declarations) = Elems(heard[Saturator]) \intersect Declarations

\* the pairs met, and those whose turn is over and that conclude something
Met == Elems(schemas) \X Elems(declarations)
Done == {p \in Met \ Elems(pairs) : Yields(p)}

\* a pair whose turn is over left its conclusion, and lemmas come of pairs only
Settled ==
    /\ Elems(pairs) \subseteq Met
    /\ \A p \in Done : Known(Instance(p)) \/ Clashes(Instance(p))
    /\ \A st \in Elems(lemmas) : \E p \in Met : Yields(p) /\ st = Instance(p)

\* an entry is one for its definition
EntriesSound ==
    \A i \in DOMAIN definitions :
       /\ definitions[i].definition \in ClosedDefinitions
       /\ definitions[i].phrase = Phrase[definitions[i].definition]
       /\ definitions[i].definiens = Definiens[definitions[i].definition]

\* it is attributed to pairs that conclude it, and to all whose turn is over
Attributions ==
    \A i \in DOMAIN definitions :
       /\ \A x \in definitions[i].sources :
             \E p \in Met : /\ Yields(p) /\ Instance(p) = definitions[i].definition
                            /\ x \in {p[1], p[2]}
       /\ \A p \in Done :
             Instance(p) = definitions[i].definition => {p[1], p[2]} \subseteq definitions[i].sources

LEMMA DigestedStep ==
  ASSUME TypeOK, Digested, [Next]_vars
  PROVE  Digested'
<1>0. Saturator \in Observer /\ Saturator \notin Others
  BY LinesAssumption DEF Observer
<1>1. ASSUME NEW line \in Lines, NEW leaving \in SUBSET Others, AddAxiom(line, leaving)
      PROVE  Digested'
  <2>1. /\ heard'[Saturator] = heard[Saturator]
        /\ inbox' = <<line>> \/ inbox' = <<>>
        /\ schemas' = schemas /\ declarations' = declarations
        /\ axioms' = Append(axioms, line)
    BY <1>0, <1>1 DEF AddAxiom, Tell, saturated
  <2>2. Elems(axioms') = Elems(axioms) \union {line}
    BY <2>1, AppendElems DEF TypeOK
  <2>3. Elems(inbox') \subseteq {line}
    BY <2>1 DEF Elems
  <2> QED BY <2>1, <2>2, <2>3 DEF Digested
<1>2. CASE WatchSaturation
  BY <1>2 DEF WatchSaturation, Replayed, Digested, saturated
<1>3. ASSUME NEW o \in Others, NEW n \in 1 .. MaxAxioms + 1, Watch(o, n)
      PROVE  Digested'
  <2>1. heard'[Saturator] = heard[Saturator]
    BY <1>0, <1>3 DEF Watch, TypeOK
  <2> QED BY <1>3, <2>1 DEF Watch, Digested, saturated
<1>4. ASSUME NEW o \in Others, Expire(o) PROVE Digested'
  BY <1>4 DEF Expire, Digested, saturated
<1>5. CASE HearNext
  <2> DEFINE line == Head(inbox)
  <2>1. /\ line \in Lines /\ inbox' = Tail(inbox)
        /\ Elems(inbox) = {line} \union Elems(inbox')
    BY <1>5, TailElems DEF HearNext, TypeOK
  <2>2. /\ heard'[Saturator] = Append(heard[Saturator], line) /\ axioms' = axioms
        /\ schemas' = IF line \in Schemas THEN Append(schemas, line) ELSE schemas
        /\ declarations' = IF line \in Declarations THEN Append(declarations, line)
                                                    ELSE declarations
    BY <1>0, <1>5 DEF HearNext, TypeOK, loading
  <2> HIDE DEF line
  <2>3. Elems(heard'[Saturator]) = Elems(heard[Saturator]) \union {line}
    BY <1>0, <2>1, <2>2, AppendElems DEF TypeOK
  <2>4. Elems(schemas') = IF line \in Schemas THEN Elems(schemas) \union {line} ELSE Elems(schemas)
    <3>1. line \in Schemas => Elems(Append(schemas, line)) = Elems(schemas) \union {line}
      BY AppendElems DEF TypeOK
    <3> QED BY <2>2, <3>1
  <2>5. Elems(declarations') = IF line \in Declarations THEN Elems(declarations) \union {line}
                                                        ELSE Elems(declarations)
    <3>1. line \in Declarations
            => Elems(Append(declarations, line)) = Elems(declarations) \union {line}
      BY AppendElems DEF TypeOK
    <3> QED BY <2>2, <3>1
  <2> QED BY <2>1, <2>2, <2>3, <2>4, <2>5 DEF Digested
<1>6. CASE SaturatePair
  BY <1>6 DEF SaturatePair, loading, Digested
<1>7. CASE UNCHANGED vars
  BY <1>7 DEF vars, Digested
<1> QED BY <1>1, <1>2, <1>3, <1>4, <1>5, <1>6, <1>7 DEF Next

(* What the schemas and the declarations conclude is recorded by saturate
   alone; a step that leaves its lists alone settles nothing and loses nothing. *)
LEMMA QuietStep ==
  ASSUME Settled, EntriesSound, DefinitionsMirrorLemmas, Attributions,
         Elems(axioms) \subseteq Elems(axioms'), UNCHANGED saturated
  PROVE  Settled' /\ EntriesSound' /\ DefinitionsMirrorLemmas' /\ Attributions'
<1>1. /\ schemas' = schemas /\ declarations' = declarations /\ pairs' = pairs
      /\ lemmas' = lemmas /\ definitions' = definitions
  BY DEF saturated
<1>2. Met' = Met /\ Done' = Done
  BY <1>1 DEF Met, Done, Yields
<1>3. \A st : /\ Known(st) => Known(st)'
              /\ Clashes(st) <=> Clashes(st)'
  BY <1>1 DEF Known, Clashes
<1>4. Settled'
  BY <1>1, <1>2, <1>3 DEF Settled, Yields, Instance
<1>5. EntriesSound' /\ DefinitionsMirrorLemmas'
  BY <1>1 DEF EntriesSound, DefinitionsMirrorLemmas
<1>6. Attributions'
  BY <1>1, <1>2 DEF Attributions, Yields, Instance
<1> QED BY <1>4, <1>5, <1>6

\* onNext leaves the pairs of what is new to come
LEMMA NewPairs ==
  ASSUME TypeOK, NEW line \in Lines
  PROVE  Elems(PairsOf(line)) =
           {p \in (Elems(schemas) \union {line}) \X (Elems(declarations) \union {line}) :
              /\ line \in {p[1], p[2]}
              /\ p[1] \in Schemas /\ p[2] \in Declarations}
<1> DEFINE New == {p \in (Elems(schemas) \union {line}) \X (Elems(declarations) \union {line}) :
                     /\ line \in {p[1], p[2]}
                     /\ p[1] \in Schemas /\ p[2] \in Declarations}
<1>1. Elems(schemas) \subseteq Schemas /\ Elems(declarations) \subseteq Declarations
  BY DEF TypeOK, Elems
<1>2. CASE line \in Declarations
  <2>1. PairsOf(line) = [i \in DOMAIN schemas |-> <<schemas[i], line>>]
    BY <1>2, LinesAssumption DEF PairsOf
  <2>2. Elems(PairsOf(line)) = Elems(schemas) \X {line}
    BY <2>1 DEF Elems
  <2>3. line \notin Schemas
    BY <1>2, LinesAssumption
  <2>4. New = Elems(schemas) \X {line}
    BY <1>1, <1>2, <2>3
  <2> QED BY <2>2, <2>4
<1>3. CASE line \in Schemas
  <2>1. PairsOf(line) = [i \in DOMAIN declarations |-> <<line, declarations[i]>>]
    BY <1>3, LinesAssumption DEF PairsOf
  <2>2. Elems(PairsOf(line)) = {line} \X Elems(declarations)
    BY <2>1 DEF Elems
  <2>3. line \notin Declarations
    BY <1>3, LinesAssumption
  <2>4. New = {line} \X Elems(declarations)
    BY <1>1, <1>3, <2>3
  <2> QED BY <2>2, <2>4
<1>4. CASE line \in Formulas
  <2>1. PairsOf(line) = <<>> /\ line \notin Schemas /\ line \notin Declarations
    BY <1>4, LinesAssumption DEF PairsOf
  <2>2. Elems(PairsOf(line)) = {}
    BY <2>1 DEF Elems
  <2>3. New = {}
    BY <2>1
  <2> QED BY <2>2, <2>3
<1> QED BY <1>2, <1>3, <1>4 DEF Lines

LEMMA HearNextStep ==
  ASSUME TypeOK, Settled, EntriesSound, DefinitionsMirrorLemmas, Attributions, HearNext
  PROVE  Settled' /\ EntriesSound' /\ DefinitionsMirrorLemmas' /\ Attributions'
<1> DEFINE line == Head(inbox)
<1>1. line \in Lines
  BY TailElems DEF HearNext, TypeOK
<1>2. /\ pairs = <<>> /\ pairs' = PairsOf(line) /\ lemmas' = lemmas
      /\ definitions' = definitions /\ axioms' = axioms
      /\ schemas' = IF line \in Schemas THEN Append(schemas, line) ELSE schemas
      /\ declarations' = IF line \in Declarations THEN Append(declarations, line)
                                                  ELSE declarations
  BY DEF HearNext, loading
<1> HIDE DEF line
<1>3. Elems(schemas') = IF line \in Schemas THEN Elems(schemas) \union {line} ELSE Elems(schemas)
  <2>1. line \in Schemas => Elems(Append(schemas, line)) = Elems(schemas) \union {line}
    BY AppendElems DEF TypeOK
  <2> QED BY <1>2, <2>1
<1>4. Elems(declarations') = IF line \in Declarations THEN Elems(declarations) \union {line}
                                                      ELSE Elems(declarations)
  <2>1. line \in Declarations
          => Elems(Append(declarations, line)) = Elems(declarations) \union {line}
    BY AppendElems DEF TypeOK
  <2> QED BY <1>2, <2>1
<1>5. Elems(schemas) \subseteq Schemas /\ Elems(declarations) \subseteq Declarations
  BY DEF TypeOK, Elems
<1>6. Elems(pairs') =
        {p \in (Elems(schemas) \union {line}) \X (Elems(declarations) \union {line}) :
           line \in {p[1], p[2]} /\ p[1] \in Schemas /\ p[2] \in Declarations}
  BY <1>1, <1>2, NewPairs
<1>7. Met' = Met \union Elems(pairs')
  BY <1>3, <1>4, <1>5, <1>6 DEF Met
<1>8. Elems(pairs) = {}
  BY <1>2 DEF Elems
<1>9. Done' \subseteq Done
  BY <1>7, <1>8 DEF Done, Yields
<1>10. \A st : /\ Known(st) <=> Known(st)'
               /\ Clashes(st) <=> Clashes(st)'
  BY <1>2 DEF Known, Clashes
<1>11. Settled'
  BY <1>2, <1>7, <1>9, <1>10 DEF Settled, Yields, Instance
<1>12. EntriesSound' /\ DefinitionsMirrorLemmas'
  BY <1>2 DEF EntriesSound, DefinitionsMirrorLemmas
<1>13. Attributions'
  BY <1>2, <1>7, <1>9 DEF Attributions, Yields, Instance
<1> QED BY <1>11, <1>12, <1>13

(***************************************************************************)
(* What saturate does to the definitions: an entry keeps its place and what *)
(* it defines, and at most one is added, at the end.                        *)
(***************************************************************************)
RecordingLeaves(new, st, pair, n, added) ==
    /\ n \in Nat /\ DOMAIN definitions = 1 .. n
    /\ added <=> ~Known(st) /\ ~Clashes(st) /\ st \in ClosedDefinitions
    /\ DOMAIN new = 1 .. (IF added THEN n + 1 ELSE n)
    /\ \A i \in 1 .. n :
         /\ new[i].phrase = definitions[i].phrase
         /\ new[i].definiens = definitions[i].definiens
         /\ new[i].definition = definitions[i].definition
         /\ new[i].sources = IF definitions[i].definition = st
                             THEN definitions[i].sources \union {pair[1], pair[2]}
                             ELSE definitions[i].sources
    /\ added => /\ new[n + 1].phrase = Phrase[st]
                /\ new[n + 1].definiens = Definiens[st]
                /\ new[n + 1].definition = st
                /\ new[n + 1].sources = {pair[1], pair[2]}

LEMMA RecordedEntries ==
  ASSUME definitions \in Seq(EntryType), NEW st \in Statements, NEW pair
  PROVE  \E n, added : RecordingLeaves(Attributed(DefinitionsWith(st), st, pair), st, pair, n, added)
<1> DEFINE n == Len(definitions)
<1> DEFINE added == ~(Known(st) \/ Clashes(st) \/ st \notin ClosedDefinitions)
<1> DEFINE with == DefinitionsWith(st)
<1> DEFINE new == Attributed(with, st, pair)
<1> DEFINE src(i) == IF definitions[i].definition = st
                     THEN definitions[i].sources \union {pair[1], pair[2]}
                     ELSE definitions[i].sources
<1>1. n \in Nat /\ DOMAIN definitions = 1 .. n
  OBVIOUS
<1>2. with = IF added THEN Append(definitions, Entry(st)) ELSE definitions
  BY DEF DefinitionsWith
<1>3. added => Entry(st) \in EntryType
  BY EntryIsTyped
<1> HIDE DEF added
<1>4. /\ with \in Seq(EntryType)
      /\ DOMAIN with = 1 .. (IF added THEN n + 1 ELSE n)
      /\ \A i \in 1 .. n : with[i] = definitions[i]
      /\ added => with[n + 1] = Entry(st)
  <2>1. CASE added
    <3>1. with = Append(definitions, Entry(st))
      BY <1>2, <2>1
    <3>2. /\ with \in Seq(EntryType) /\ Len(with) = n + 1
          /\ \A i \in 1 .. n : with[i] = definitions[i]
          /\ with[n + 1] = Entry(st)
      BY <1>3, <2>1, <3>1, AppendProperties
    <3> HIDE DEF with
    <3>3. DOMAIN with = 1 .. n + 1
      BY <3>2
    <3> QED BY <2>1, <3>2, <3>3
  <2>2. CASE ~added
    BY <1>1, <1>2, <2>2
  <2> QED BY <2>1, <2>2
<1> HIDE DEF with
<1> DEFINE e(i) == IF with[i].definition = st
                   THEN [with[i] EXCEPT !.sources = @ \union {pair[1], pair[2]}]
                   ELSE with[i]
<1>5. new = [i \in DOMAIN with |-> e(i)]
  BY DEF Attributed
<1>6. DOMAIN new = DOMAIN with /\ \A i \in DOMAIN with : new[i] = e(i)
  BY <1>5
<1> HIDE DEF new, n
<1>7. ASSUME NEW i \in 1 .. n
      PROVE  /\ new[i].phrase = definitions[i].phrase
             /\ new[i].definiens = definitions[i].definiens
             /\ new[i].definition = definitions[i].definition
             /\ new[i].sources = src(i)
  <2>1. i \in DOMAIN with /\ with[i] = definitions[i] /\ definitions[i] \in EntryType
    BY <1>1, <1>4
  <2>2. new[i] = e(i)
    BY <1>6, <2>1
  <2> QED BY <2>1, <2>2 DEF EntryType
<1>8. ASSUME added
      PROVE  /\ new[n + 1].phrase = Phrase[st]
             /\ new[n + 1].definiens = Definiens[st]
             /\ new[n + 1].definition = st
             /\ new[n + 1].sources = {pair[1], pair[2]}
  <2>1. n + 1 \in DOMAIN with /\ with[n + 1] = Entry(st)
    BY <1>1, <1>4, <1>8
  <2>2. new[n + 1] = e(n + 1)
    BY <1>6, <2>1
  <2>3. new[n + 1] = [Entry(st) EXCEPT !.sources = @ \union {pair[1], pair[2]}]
    BY <2>1, <2>2 DEF Entry
  <2> QED BY <2>3 DEF Entry
<1>9. DOMAIN new = 1 .. (IF added THEN n + 1 ELSE n)
  BY <1>4, <1>6
<1>10. added <=> ~Known(st) /\ ~Clashes(st) /\ st \in ClosedDefinitions
  BY DEF added
<1>11. RecordingLeaves(new, st, pair, n, added)
  BY <1>1, <1>7, <1>8, <1>9, <1>10 DEF RecordingLeaves, n
<1> QED BY <1>11 DEF new, with

LEMMA SaturatePairStep ==
  ASSUME TypeOK, Settled, EntriesSound, DefinitionsMirrorLemmas, Attributions, SaturatePair
  PROVE  Settled' /\ EntriesSound' /\ DefinitionsMirrorLemmas' /\ Attributions'
<1> PICK pair : pair = Head(pairs)
  OBVIOUS
<1> PICK st : st = Instance(pair)
  OBVIOUS
<1>0. definitions \in Seq(EntryType)
  BY DEF TypeOK, EntryType
<1>1. /\ pair \in Schemas \X Declarations
      /\ Elems(pairs) = {pair} \union Elems(pairs')
  BY TailElems DEF SaturatePair, TypeOK
<1>2. /\ schemas' = schemas /\ declarations' = declarations /\ axioms' = axioms
      /\ Yields(pair) => /\ lemmas' = LemmasWith(st)
                         /\ definitions' = Attributed(DefinitionsWith(st), st, pair)
      /\ ~Yields(pair) => lemmas' = lemmas /\ definitions' = definitions
  BY DEF SaturatePair, loading
<1>3. pair \in Met /\ Elems(pairs') \subseteq Met
  BY <1>1 DEF Settled
<1>4. Met' = Met
  BY <1>2 DEF Met
<1>5. Done' \subseteq Done \union {p \in {pair} : Yields(p)} /\ Done \subseteq Done'
  BY <1>1, <1>4 DEF Done, Yields
<1>6. CASE ~Yields(pair)
  <2>1. Done' = Done /\ lemmas' = lemmas /\ definitions' = definitions
    BY <1>2, <1>5, <1>6
  <2>2. \A p : /\ Known(p) <=> Known(p)'
               /\ Clashes(p) <=> Clashes(p)'
    BY <1>2, <2>1 DEF Known, Clashes
  <2>3. Settled'
    BY <1>3, <1>4, <2>1, <2>2 DEF Settled, Yields, Instance
  <2>4. EntriesSound' /\ DefinitionsMirrorLemmas'
    BY <2>1 DEF EntriesSound, DefinitionsMirrorLemmas
  <2>5. Attributions'
    BY <1>4, <2>1 DEF Attributions, Yields, Instance
  <2> QED BY <2>3, <2>4, <2>5
<1>7. CASE Yields(pair)
  <2>1. st \in Statements
    BY <1>1, <1>7, InstanceType
  <2>2. /\ lemmas' = IF Known(st) \/ Clashes(st) THEN lemmas ELSE Append(lemmas, st)
        /\ definitions' = Attributed(DefinitionsWith(st), st, pair)
    BY <1>2, <1>7 DEF LemmasWith
  <2>3. Elems(lemmas') = IF Known(st) \/ Clashes(st) THEN Elems(lemmas)
                                                     ELSE Elems(lemmas) \union {st}
    <3>1. Elems(Append(lemmas, st)) = Elems(lemmas) \union {st}
      BY <2>1, AppendElems DEF TypeOK
    <3> QED BY <2>2, <3>1
  <2> PICK n, added : RecordingLeaves(definitions', st, pair, n, added)
    BY <1>0, <2>1, <2>2, RecordedEntries
  <2>4. /\ n \in Nat /\ DOMAIN definitions = 1 .. n
        /\ added => DOMAIN definitions' = 1 .. n + 1
        /\ ~added => DOMAIN definitions' = 1 .. n
        /\ \A i \in 1 .. n :
             /\ definitions'[i].phrase = definitions[i].phrase
             /\ definitions'[i].definiens = definitions[i].definiens
             /\ definitions'[i].definition = definitions[i].definition
             /\ definitions[i].definition = st =>
                  definitions'[i].sources = definitions[i].sources \union {pair[1], pair[2]}
             /\ definitions[i].definition # st =>
                  definitions'[i].sources = definitions[i].sources
        /\ added => /\ definitions'[n + 1].phrase = Phrase[st]
                    /\ definitions'[n + 1].definiens = Definiens[st]
                    /\ definitions'[n + 1].definition = st
                    /\ definitions'[n + 1].sources = {pair[1], pair[2]}
    BY DEF RecordingLeaves
  <2>5. added <=> ~Known(st) /\ ~Clashes(st) /\ st \in ClosedDefinitions
    BY DEF RecordingLeaves
  <2>6. \A s : /\ Known(s) => Known(s)'
               /\ Clashes(s) => Clashes(s)'
    <3>1. \A s : Known(s) => Known(s)'
      BY <1>2, <2>3 DEF Known
    <3>2. DOMAIN definitions \subseteq DOMAIN definitions'
      BY <2>4
    <3>3. \A s : Clashes(s) => Clashes(s)'
      BY <2>4, <3>2 DEF Clashes
    <3> QED BY <3>1, <3>3
  <2>7. Known(st)' \/ Clashes(st)'
    BY <2>3, <2>6 DEF Known
  <2>8. Settled'
    <3>1. \A p \in Done' : Known(Instance(p))' \/ Clashes(Instance(p))'
      BY <1>5, <2>6, <2>7 DEF Settled
    <3>2. \A s \in Elems(lemmas') : \E p \in Met : Yields(p) /\ s = Instance(p)
      BY <1>3, <1>7, <2>3 DEF Settled
    <3> QED BY <1>3, <1>4, <3>1, <3>2 DEF Settled, Yields, Instance
  <2>9. EntriesSound'
    <3> SUFFICES ASSUME NEW i \in DOMAIN definitions'
                 PROVE  /\ definitions'[i].definition \in ClosedDefinitions
                        /\ definitions'[i].phrase = Phrase[definitions'[i].definition]
                        /\ definitions'[i].definiens = Definiens[definitions'[i].definition]
      BY DEF EntriesSound
    <3>1. CASE i \in 1 .. n
      BY <2>4, <3>1 DEF EntriesSound
    <3>2. CASE i = n + 1 /\ added
      BY <2>4, <2>5, <3>2
    <3> QED BY <2>4, <3>1, <3>2
  <2>10. DefinitionsMirrorLemmas'
    <3>1. {definitions'[i].definition : i \in DOMAIN definitions'}
            = {definitions[i].definition : i \in DOMAIN definitions}
                \union (IF added THEN {st} ELSE {})
      <4>1. CASE added
        BY <2>4, <4>1
      <4>2. CASE ~added
        BY <2>4, <4>2
      <4> QED BY <4>1, <4>2
    <3>2. {definitions'[i].definition : i \in DOMAIN definitions'}
            = Elems(lemmas') \intersect ClosedDefinitions
      BY <2>3, <2>5, <3>1 DEF DefinitionsMirrorLemmas
    <3>3. ASSUME added, NEW i \in 1 .. n PROVE definitions[i].phrase # Phrase[st]
      <4> SUFFICES ASSUME definitions[i].phrase = Phrase[st] PROVE FALSE
        OBVIOUS
      <4>1. definitions[i].definiens = Definiens[st]
        BY <2>4, <2>5, <3>3 DEF Clashes
      <4>2. definitions[i].definition = st
        BY <2>4, <2>5, <3>3, <4>1, LinesAssumption DEF EntriesSound, ClosedDefinitions
      <4>3. st \in Elems(lemmas)
        BY <2>4, <4>2 DEF DefinitionsMirrorLemmas
      <4> QED BY <2>5, <3>3, <4>3 DEF Known
    <3>4. ASSUME NEW i \in DOMAIN definitions', NEW j \in DOMAIN definitions',
                 definitions'[i].phrase = definitions'[j].phrase
          PROVE  i = j
      <4>1. CASE i \in 1 .. n /\ j \in 1 .. n
        BY <2>4, <3>4, <4>1 DEF DefinitionsMirrorLemmas
      <4>2. CASE added /\ i = n + 1 /\ j \in 1 .. n
        BY <2>4, <3>3, <3>4, <4>2
      <4>3. CASE added /\ i \in 1 .. n /\ j = n + 1
        BY <2>4, <3>3, <3>4, <4>3
      <4>4. CASE i = n + 1 /\ j = n + 1
        BY <4>4
      <4> QED BY <2>4, <4>1, <4>2, <4>3, <4>4
    <3> QED BY <3>2, <3>4 DEF DefinitionsMirrorLemmas
  <2>11. Attributions'
    <3>1. ASSUME NEW i \in DOMAIN definitions', NEW x \in definitions'[i].sources
          PROVE  \E p \in Met : /\ Yields(p) /\ Instance(p) = definitions'[i].definition
                                /\ x \in {p[1], p[2]}
      <4>1. CASE x \in {pair[1], pair[2]} /\ definitions'[i].definition = st
        BY <1>3, <1>7, <4>1
      <4>2. CASE i \in 1 .. n /\ x \in definitions[i].sources
        BY <2>4, <4>2 DEF Attributions
      <4> QED BY <2>4, <3>1, <4>1, <4>2
    <3>2. ASSUME NEW i \in DOMAIN definitions', NEW p \in Done',
                 Instance(p) = definitions'[i].definition
          PROVE  {p[1], p[2]} \subseteq definitions'[i].sources
      <4>1. CASE p = pair
        <5>1. definitions'[i].definition = st
          BY <3>2, <4>1
        <5> QED BY <2>4, <4>1, <5>1
      <4>2. CASE p \in Done /\ i \in 1 .. n
        BY <2>4, <3>2, <4>2 DEF Attributions
      <4>3. CASE p \in Done /\ i = n + 1 /\ added
        <5>1. Instance(p) = st
          BY <2>4, <3>2, <4>3
        <5> QED BY <2>5, <4>3, <5>1 DEF Settled
      <4> QED BY <1>5, <2>4, <4>1, <4>2, <4>3
    <3> QED BY <1>2, <1>4, <3>1, <3>2 DEF Attributions, Yields, Instance
  <2> QED BY <2>8, <2>9, <2>10, <2>11
<1> QED BY <1>6, <1>7

Filed == Settled /\ EntriesSound /\ DefinitionsMirrorLemmas /\ Attributions

(***************************************************************************)
(* The inductive invariant of the configuration stage.                      *)
(***************************************************************************)
SaturationInv ==
    /\ TypeOK
    /\ Watching
    /\ HeardExactly
    /\ Digested
    /\ Settled
    /\ EntriesSound
    /\ DefinitionsMirrorLemmas
    /\ Attributions

(***************************************************************************)
(* The inductive invariant: the parts above hold together between any two   *)
(* steps, those of a call under way included.                               *)
(***************************************************************************)
THEOREM SaturationInductive == Spec => []SaturationInv
<1>1. Init => Watching /\ HeardExactly
  BY DEF Init, Watching, HeardExactly, Elems, Observer
<1>2. Init => Digested /\ Settled /\ EntriesSound /\ DefinitionsMirrorLemmas /\ Attributions
  <2> SUFFICES ASSUME Init
               PROVE  Digested /\ Settled /\ EntriesSound /\ DefinitionsMirrorLemmas /\ Attributions
    OBVIOUS
  <2>1. /\ heard[Saturator] = <<>> /\ inbox = <<>> /\ schemas = <<>> /\ declarations = <<>>
        /\ pairs = <<>> /\ lemmas = <<>> /\ definitions = <<>>
    BY DEF Init, Observer
  <2>2. Elems(<<>>) = {}
    BY DEF Elems
  <2>3. Met = {} /\ Done = {}
    BY <2>1, <2>2 DEF Met, Done
  <2> QED BY <2>1, <2>2, <2>3
         DEF Digested, Settled, EntriesSound, DefinitionsMirrorLemmas, Attributions
<1>3. SaturationInv /\ TypeOK' /\ [Next]_vars => SaturationInv'
  <2> SUFFICES ASSUME SaturationInv, TypeOK', [Next]_vars PROVE SaturationInv'
    OBVIOUS
  <2>0. Filed /\ TypeOK
    BY DEF SaturationInv, Filed
  <2>1. Watching' /\ HeardExactly' /\ Digested'
    BY HearingStep, DigestedStep DEF SaturationInv
  <2>2. Elems(axioms) \subseteq Elems(axioms') /\ UNCHANGED saturated => Filed'
    BY <2>0, QuietStep DEF Filed
  <2>3. Filed'
    <3>1. ASSUME NEW line \in Lines, NEW leaving \in SUBSET Others, AddAxiom(line, leaving)
          PROVE  Filed'
      <4>1. Elems(Append(axioms, line)) = Elems(axioms) \union {line}
        BY <2>0, AppendElems DEF TypeOK
      <4> QED BY <2>2, <3>1, <4>1 DEF AddAxiom
    <3>2. CASE WatchSaturation
      BY <2>2, <3>2 DEF WatchSaturation
    <3>3. ASSUME NEW o \in Others, NEW n \in 1 .. MaxAxioms + 1, Watch(o, n)
          PROVE  Filed'
      BY <2>2, <3>3 DEF Watch
    <3>4. ASSUME NEW o \in Others, Expire(o) PROVE Filed'
      BY <2>2, <3>4 DEF Expire
    <3>5. CASE HearNext
      BY <2>0, <3>5, HearNextStep DEF Filed
    <3>6. CASE SaturatePair
      BY <2>0, <3>6, SaturatePairStep DEF Filed
    <3>7. CASE UNCHANGED vars
      BY <2>2, <3>7 DEF vars, saturated
    <3> QED BY <3>1, <3>2, <3>3, <3>4, <3>5, <3>6, <3>7 DEF Next
  <2> QED BY <2>1, <2>3 DEF SaturationInv, Filed
<1> QED BY <1>1, <1>2, <1>3, TypeCorrect, PTL DEF Spec, SaturationInv

\* between calls what is registered has met all that the axioms hold
LEMMA MetAtRest ==
  ASSUME SaturationInv, AtRest, Registered
  PROVE  Done = AxiomPairs /\ {p \in Met : Yields(p)} = AxiomPairs
<1>1. Saturator \in living \intersect Elems(watchers) /\ inbox = <<>> /\ pairs = <<>>
  BY DEF SaturationInv, Watching, AtRest, Registered
<1>2. axioms = heard[Saturator] \o inbox
  BY <1>1 DEF SaturationInv, HeardExactly
<1>3. heard[Saturator] \in Seq(Lines)
  BY DEF SaturationInv, TypeOK, Observer
<1>4. axioms = heard[Saturator]
  BY <1>1, <1>2, <1>3, ConcatEmptySeq
<1>5. Met = (Elems(axioms) \intersect Schemas) \X (Elems(axioms) \intersect Declarations)
  BY <1>4 DEF SaturationInv, Digested, Met
<1>6. Elems(pairs) = {}
  BY <1>1 DEF Elems
<1> QED BY <1>5, <1>6 DEF Done, AxiomPairs

(***************************************************************************)
(* In whatever order schemas, declarations and saturation itself came,      *)
(* every pair has been instantiated and nothing else is a lemma (onNext,    *)
(* saturate).                                                               *)
(***************************************************************************)
THEOREM SaturationIsComplete == Spec => []SaturationComplete
<1>1. SaturationInv => SaturationComplete
  <2> SUFFICES ASSUME SaturationInv, AtRest, Registered
               PROVE  /\ \A p \in AxiomPairs : Known(Instance(p)) \/ Clashes(Instance(p))
                      /\ Elems(lemmas) \subseteq {Instance(p) : p \in AxiomPairs}
    BY DEF SaturationComplete
  <2>1. Done = AxiomPairs /\ {p \in Met : Yields(p)} = AxiomPairs
    BY MetAtRest
  <2> QED BY <2>1 DEF SaturationInv, Settled
<1> QED BY <1>1, SaturationInductive, PTL

(***************************************************************************)
(* The defined notations are the closed definitions among the lemmas, one   *)
(* for each phrase (before_add_lemma, defined_SVO::declare).                *)
(***************************************************************************)
THEOREM DefinitionsMirror == Spec => []DefinitionsMirrorLemmas
<1>1. SaturationInv => DefinitionsMirrorLemmas
  BY DEF SaturationInv
<1> QED BY <1>1, SaturationInductive, PTL

(***************************************************************************)
(* Between calls a defined notation names the schemas and declarations it   *)
(* follows from, all of them and no others (defined_SVO::attribute).        *)
(***************************************************************************)
THEOREM SourcesAreExact == Spec => []SourcesExact
<1>1. SaturationInv => SourcesExact
  <2> SUFFICES ASSUME SaturationInv, AtRest, Registered, NEW i \in DOMAIN definitions
               PROVE  definitions[i].sources =
                        UNION {{p[1], p[2]} : p \in {q \in AxiomPairs :
                                                 Instance(q) = definitions[i].definition}}
    BY DEF SourcesExact
  <2> DEFINE from == {q \in AxiomPairs : Instance(q) = definitions[i].definition}
  <2>1. Done = AxiomPairs /\ {p \in Met : Yields(p)} = AxiomPairs
    BY MetAtRest
  <2>2. Attributions
    BY DEF SaturationInv
  <2>3. \A x \in definitions[i].sources : \E p \in from : x \in {p[1], p[2]}
    BY <2>1, <2>2 DEF Attributions
  <2>4. \A p \in from : {p[1], p[2]} \subseteq definitions[i].sources
    BY <2>1, <2>2 DEF Attributions
  <2> HIDE DEF from
  <2>5. definitions[i].sources = UNION {{p[1], p[2]} : p \in from}
    BY <2>3, <2>4
  <2> QED BY <2>5 DEF from
<1> QED BY <1>1, SaturationInductive, PTL

-------------------------------------------------------------------------------
(***************************************************************************)
(* The symbol catalog                                                       *)
(***************************************************************************)

\* what a catalog says, and that it says it once
Says(cat) ==
    {<<"constant", c>> : c \in cat.constants} \union
    UNION {{<<k, cat.symbols[i].name>> : k \in cat.symbols[i].kinds} : i \in DOMAIN cat.symbols}

Coherent(cat) ==
    /\ SymbolNames(cat) \intersect cat.constants = {}
    /\ \A i, j \in DOMAIN cat.symbols : cat.symbols[i].name = cat.symbols[j].name => i = j

Syntactic(symbols) ==
    UNION {{<<k, symbols[i].name>> : k \in symbols[i].kinds} : i \in DOMAIN symbols}

LEMMA SymbolSaid ==
  ASSUME NEW symbols, NEW x
  PROVE  x \in Syntactic(symbols) <=>
           \E i \in DOMAIN symbols : \E k \in symbols[i].kinds : x = <<k, symbols[i].name>>
BY DEF Syntactic

(***************************************************************************)
(* A declaration that does not err enters what it says, unless it warned.   *)
(***************************************************************************)
LEMMA DeclaredSays ==
  ASSUME NEW names, NEW cat \in CatalogType(names), NEW kind \in Kinds, NEW name \in names,
         Coherent(cat), ~DeclareRefuses(cat, kind, name)
  PROVE  LET new == Declared(cat, kind, name) IN
         /\ Coherent(new)
         /\ Says(new) = Says(cat) \union {d \in {<<kind, name>>} : ~OnlyWarned(d[1], d[2])}
<1> DEFINE Item == [name : names, kinds : SUBSET SyntaxKinds]
<1> DEFINE new == Declared(cat, kind, name)
<1>1. cat.symbols \in Seq(Item) /\ cat.constants \subseteq names
      /\ cat = [symbols |-> cat.symbols, constants |-> cat.constants]
      /\ DOMAIN cat.symbols = 1 .. Len(cat.symbols) /\ Len(cat.symbols) \in Nat
  BY DEF CatalogType
<1>2. CASE kind = "constant"
  <2>1. new.symbols = cat.symbols /\ new.constants = cat.constants \union {name}
    BY <1>1, <1>2 DEF Declared
  <2>2. name \notin SymbolNames(cat)
    BY <1>2 DEF DeclareRefuses
  <2>3. ~OnlyWarned(kind, name)
    BY <1>2 DEF OnlyWarned, SyntaxKinds
  <2> HIDE DEF new
  <2>4. Coherent(new)
    BY <2>1, <2>2 DEF Coherent, SymbolNames
  <2>5. Says(new) = Says(cat) \union {<<kind, name>>}
    BY <1>2, <2>1 DEF Says
  <2>6. {d \in {<<kind, name>>} : ~OnlyWarned(d[1], d[2])} = {<<kind, name>>}
    BY <2>3
  <2> QED BY <2>4, <2>5, <2>6 DEF new
<1>3. CASE kind # "constant" /\ OnlyWarned(kind, name)
  <2>1. new = cat
    BY <1>3 DEF Declared
  <2>2. {d \in {<<kind, name>>} : ~OnlyWarned(d[1], d[2])} = {}
    BY <1>3
  <2> HIDE DEF new
  <2> QED BY <2>1, <2>2 DEF new
<1>4. CASE kind # "constant" /\ ~OnlyWarned(kind, name)
  <2>1. kind \in SyntaxKinds /\ name \notin cat.constants
    BY <1>4 DEF Kinds, DeclareRefuses
  <2>2. {d \in {<<kind, name>>} : ~OnlyWarned(d[1], d[2])} = {<<kind, name>>}
    BY <1>4
  <2>3. \A c : Says(c) = {<<"constant", d>> : d \in c.constants} \union Syntactic(c.symbols)
    BY DEF Says, Syntactic
  <2>4. CASE name \in SymbolNames(cat)
    <3> DEFINE e(i) == WithKind(cat.symbols[i], kind, name)
    <3>1. new = [cat EXCEPT !.symbols = [i \in DOMAIN cat.symbols |-> e(i)]]
      BY <1>4, <2>4 DEF Declared
    <3>2. ASSUME NEW i \in DOMAIN cat.symbols
          PROVE  /\ e(i).name = cat.symbols[i].name
                 /\ e(i).kinds = IF cat.symbols[i].name = name
                                 THEN cat.symbols[i].kinds \union {kind} ELSE cat.symbols[i].kinds
      <4>1. cat.symbols[i] \in Item
        <5> HIDE DEF Item
        <5> QED BY <1>1
      <4> QED BY <4>1 DEF WithKind
    <3> HIDE DEF e, Item
    <3>3. /\ new.constants = cat.constants /\ DOMAIN new.symbols = DOMAIN cat.symbols
          /\ \A i \in DOMAIN cat.symbols : new.symbols[i] = e(i)
      BY <1>1, <3>1
    <3> HIDE DEF new
    <3>4. \A i \in DOMAIN cat.symbols :
            /\ new.symbols[i].name = cat.symbols[i].name
            /\ cat.symbols[i].name = name => new.symbols[i].kinds = cat.symbols[i].kinds \union {kind}
            /\ cat.symbols[i].name # name => new.symbols[i].kinds = cat.symbols[i].kinds
      BY <3>2, <3>3
    <3>5. Coherent(new)
      BY <3>3, <3>4 DEF Coherent, SymbolNames
    <3>6. PICK here \in DOMAIN cat.symbols : cat.symbols[here].name = name
      BY <2>4 DEF SymbolNames
    <3>7. Syntactic(new.symbols) \subseteq Syntactic(cat.symbols) \union {<<kind, name>>}
      <4> SUFFICES ASSUME NEW i \in DOMAIN new.symbols, NEW k \in new.symbols[i].kinds
                   PROVE  <<k, new.symbols[i].name>> \in Syntactic(cat.symbols) \union {<<kind, name>>}
        BY SymbolSaid
      <4> QED BY <3>3, <3>4, SymbolSaid
    <3>8. Syntactic(cat.symbols) \union {<<kind, name>>} \subseteq Syntactic(new.symbols)
      <4>1. ASSUME NEW i \in DOMAIN cat.symbols, NEW k \in cat.symbols[i].kinds
            PROVE  <<k, cat.symbols[i].name>> \in Syntactic(new.symbols)
        <5>1. k \in new.symbols[i].kinds
          BY <3>4
        <5> QED BY <5>1, <3>3, <3>4, SymbolSaid
      <4>2. <<kind, name>> \in Syntactic(new.symbols)
        <5>1. kind \in new.symbols[here].kinds
          BY <3>4, <3>6
        <5> QED BY <5>1, <3>3, <3>4, <3>6, SymbolSaid
      <4> QED BY <4>1, <4>2, SymbolSaid
    <3> QED BY <2>2, <2>3, <3>3, <3>5, <3>7, <3>8 DEF new
  <2>5. CASE name \notin SymbolNames(cat)
    <3> DEFINE added == [name |-> name, kinds |-> {kind}]
    <3> DEFINE n == Len(cat.symbols)
    <3>1. new = [cat EXCEPT !.symbols = Append(cat.symbols, added)]
      BY <1>4, <2>5 DEF Declared
    <3>2. added \in Item /\ added.name = name /\ added.kinds = {kind}
      BY <2>1
    <3> HIDE DEF Item, added
    <3>3. /\ new.constants = cat.constants /\ new.symbols = Append(cat.symbols, added)
      BY <1>1, <3>1
    <3> HIDE DEF new
    <3>4. /\ new.symbols \in Seq(Item) /\ Len(new.symbols) = n + 1
          /\ \A i \in 1 .. n : new.symbols[i] = cat.symbols[i]
          /\ new.symbols[n + 1] = added
      BY <1>1, <3>2, <3>3, AppendProperties
    <3>5. DOMAIN new.symbols = 1 .. n + 1 /\ DOMAIN cat.symbols = 1 .. n /\ n \in Nat
      BY <1>1, <3>4
    <3> HIDE DEF n
    <3>6. Coherent(new)
      <4>1. SymbolNames(new) = SymbolNames(cat) \union {name}
        BY <3>2, <3>4, <3>5 DEF SymbolNames
      <4>2. \A i \in 1 .. n : cat.symbols[i].name # name
        BY <2>5, <3>5 DEF SymbolNames
      <4>3. ASSUME NEW i \in 1 .. n + 1, NEW j \in 1 .. n + 1,
                   new.symbols[i].name = new.symbols[j].name
            PROVE  i = j
        <5>1. CASE i \in 1 .. n /\ j \in 1 .. n
          BY <3>4, <3>5, <4>3, <5>1 DEF Coherent
        <5>2. CASE i = n + 1 \/ j = n + 1
          BY <3>2, <3>4, <3>5, <4>2, <4>3, <5>2
        <5> QED BY <5>1, <5>2, <3>5
      <4> QED BY <2>1, <3>3, <3>5, <4>1, <4>3 DEF Coherent
    <3>7. Syntactic(new.symbols) \subseteq Syntactic(cat.symbols) \union {<<kind, name>>}
      <4> SUFFICES ASSUME NEW i \in DOMAIN new.symbols, NEW k \in new.symbols[i].kinds
                   PROVE  <<k, new.symbols[i].name>> \in Syntactic(cat.symbols) \union {<<kind, name>>}
        BY SymbolSaid
      <4>1. CASE i \in 1 .. n
        BY <3>4, <3>5, <4>1, SymbolSaid
      <4>2. CASE i = n + 1
        BY <3>2, <3>4, <4>2
      <4> QED BY <4>1, <4>2, <3>5
    <3>8. Syntactic(cat.symbols) \union {<<kind, name>>} \subseteq Syntactic(new.symbols)
      <4>1. ASSUME NEW i \in DOMAIN cat.symbols, NEW k \in cat.symbols[i].kinds
            PROVE  <<k, cat.symbols[i].name>> \in Syntactic(new.symbols)
        <5>1. i \in DOMAIN new.symbols /\ new.symbols[i] = cat.symbols[i]
          BY <3>4, <3>5
        <5> QED BY <5>1, SymbolSaid
      <4>2. <<kind, name>> \in Syntactic(new.symbols)
        <5>1. n + 1 \in DOMAIN new.symbols
          BY <3>5
        <5> QED BY <5>1, <3>2, <3>4, SymbolSaid
      <4> QED BY <4>1, <4>2, SymbolSaid
    <3> QED BY <2>2, <2>3, <3>3, <3>6, <3>7, <3>8 DEF new
  <2> QED BY <2>4, <2>5
<1> QED BY <1>2, <1>3, <1>4

(***************************************************************************)
(* The catalog says what the admitted declarations say, less what they      *)
(* merely warned about, and no symbol twice or in two ways (add_axiom,      *)
(* the declarations of symbol_catalog).                                     *)
(***************************************************************************)
THEOREM CatalogIsTold == Spec => []CatalogTellsAxioms
<1> DEFINE Declaring(known) == {<<Kind[d], Subject[d]>> : d \in known}
<1>0. CatalogTellsAxioms <=>
        /\ Says(catalog) = {d \in Declaring(Elems(axioms) \intersect Declarations) :
                              ~OnlyWarned(d[1], d[2])}
        /\ Coherent(catalog)
  BY DEF CatalogTellsAxioms, Says, Coherent
<1>1. Init => CatalogTellsAxioms
  <2> SUFFICES ASSUME Init PROVE CatalogTellsAxioms
    OBVIOUS
  <2>1. catalog.symbols = <<>> /\ catalog.constants = {} /\ Elems(axioms) = {}
    BY DEF Init, EmptyCatalog, Elems
  <2> QED BY <2>1 DEF CatalogTellsAxioms, SymbolNames
<1>2. ASSUME TypeOK, CatalogTellsAxioms, NEW line \in Lines, NEW leaving \in SUBSET Others,
             AddAxiom(line, leaving)
      PROVE  CatalogTellsAxioms'
  <2>1. axioms' = Append(axioms, line) /\ catalog' = CatalogWith(line) /\ ~Refused(line)
    BY <1>2 DEF AddAxiom
  <2>2. Elems(axioms') = Elems(axioms) \union {line}
    BY <1>2, <2>1, AppendElems DEF TypeOK
  <2>3. /\ Says(catalog) = {d \in Declaring(Elems(axioms) \intersect Declarations) :
                              ~OnlyWarned(d[1], d[2])}
        /\ Coherent(catalog)
    BY <1>0, <1>2
  <2>4. /\ Says(catalog') = {d \in Declaring(Elems(axioms') \intersect Declarations) :
                               ~OnlyWarned(d[1], d[2])}
        /\ Coherent(catalog')
    <3>1. CASE line \in Declarations
      <4>1. Kind[line] \in Kinds /\ Subject[line] \in Symbols
        BY <3>1, LinesAssumption
      <4>2. catalog' = Declared(catalog, Kind[line], Subject[line])
            /\ ~DeclareRefuses(catalog, Kind[line], Subject[line])
        BY <2>1, <3>1 DEF CatalogWith, Refused
      <4>3. /\ Coherent(catalog')
            /\ Says(catalog') = Says(catalog) \union
                 {d \in {<<Kind[line], Subject[line]>>} : ~OnlyWarned(d[1], d[2])}
        BY <1>2, <2>3, <4>1, <4>2, DeclaredSays DEF TypeOK
      <4>4. Declaring(Elems(axioms') \intersect Declarations)
              = Declaring(Elems(axioms) \intersect Declarations) \union {<<Kind[line], Subject[line]>>}
        BY <2>2, <3>1
      <4> HIDE DEF Declaring
      <4> QED BY <2>3, <4>3, <4>4
    <3>2. CASE line \notin Declarations
      <4>1. catalog' = catalog
        BY <2>1, <3>2 DEF CatalogWith
      <4>2. Elems(axioms') \intersect Declarations = Elems(axioms) \intersect Declarations
        BY <2>2, <3>2
      <4> QED BY <2>3, <4>1, <4>2
    <3> QED BY <3>1, <3>2
  <2> QED BY <2>4 DEF CatalogTellsAxioms, Says, Coherent
<1>3. CatalogTellsAxioms /\ axioms' = axioms /\ catalog' = catalog => CatalogTellsAxioms'
  BY DEF CatalogTellsAxioms
<1>4. TypeOK /\ CatalogTellsAxioms /\ [Next]_vars => CatalogTellsAxioms'
  <2> SUFFICES ASSUME TypeOK, CatalogTellsAxioms, [Next]_vars PROVE CatalogTellsAxioms'
    OBVIOUS
  <2>1. \/ \E line \in Lines, leaving \in SUBSET Others : AddAxiom(line, leaving)
        \/ axioms' = axioms /\ catalog' = catalog
    BY DEF Next, WatchSaturation, Watch, Expire, HearNext, SaturatePair, loading, vars
  <2> QED BY <1>2, <1>3, <2>1
<1> QED BY <1>1, <1>4, TypeCorrect, PTL DEF Spec
================================================================================
