------------------------------ MODULE Observers ------------------------------
(***************************************************************************)
(* zaimoni::observed: a list of weak pointers to watchers.  Both traversals *)
(* run from the last watcher to the first and remove a watcher by swapping  *)
(* it with the back of the list, so that what is swapped in has already     *)
(* been visited.  These are the values the two calls leave behind.          *)
(***************************************************************************)
EXTENDS Integers, Sequences

(***************************************************************************)
(* _watchers[i].swap(_watchers.back()); _watchers.pop_back() -- or, for the *)
(* only watcher, the emptied vector.                                        *)
(***************************************************************************)
Dropped(ws, i) ==
    [k \in 1..(Len(ws) - 1) |-> IF k = i THEN ws[Len(ws)] ELSE ws[k]]

(* ub = size(); while (0 <= --ub): the k-th of the n turns looks at this one *)
Downwards(n, k) == n + 1 - k

(***************************************************************************)
(* notify(value): who is told, and who is still on the list.  living are    *)
(* the watchers whose weak pointer locks, staying those that answer true.   *)
(***************************************************************************)
Visit(acc, i, living, staying) ==
    IF i > Len(acc.left) THEN acc ELSE
    LET whom == acc.left[i] IN
    [ left |-> IF whom \in living /\ whom \in staying THEN acc.left
                                                       ELSE Dropped(acc.left, i),
      told |-> IF whom \in living THEN Append(acc.told, whom) ELSE acc.told ]

\* the same from the first watcher to the last, as a careless rewrite would
NotifiedUpwards(ws, living, staying) ==
    LET after[k \in 0 .. Len(ws)] ==
          IF k = 0 THEN [left |-> ws, told |-> <<>>]
          ELSE Visit(after[k - 1], k, living, staying)
    IN  after[Len(ws)]

Notified(ws, living, staying) ==
    LET after[k \in 0 .. Len(ws)] ==
          IF k = 0 THEN [left |-> ws, told |-> <<>>]
          ELSE Visit(after[k - 1], Downwards(Len(ws), k), living, staying)
    IN  after[Len(ws)]

(***************************************************************************)
(* seen_by(src): a watcher already there is not added again; expired ones   *)
(* are dropped on the way; and when the only one left turns out to have     *)
(* expired the list is emptied and the call returns without adding src.     *)
(***************************************************************************)
Sift(acc, i, who, living) ==
    IF acc.over THEN acc
    ELSE IF acc.left[i] \in living THEN [acc EXCEPT !.over = (acc.left[i] = who)]
    ELSE [left |-> Dropped(acc.left, i), over |-> (Len(acc.left) = 1)]

\* seen_by without pruning, which keeps the expired in front of the new
SeenByKeeping(ws, who, living) ==
    IF who \in {ws[i] : i \in DOMAIN ws} THEN ws
    ELSE IF \E i \in DOMAIN ws : ws[i] \notin living THEN ws ELSE Append(ws, who)

SeenBy(ws, who, living) ==
    LET after[k \in 0 .. Len(ws)] ==
          IF k = 0 THEN [left |-> ws, over |-> FALSE]
          ELSE Sift(after[k - 1], Downwards(Len(ws), k), who, living)
        sifted == after[Len(ws)]
    IN  IF sifted.over THEN sifted.left ELSE Append(sifted.left, who)
==============================================================================
