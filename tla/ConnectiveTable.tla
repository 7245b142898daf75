--------------------------- MODULE ConnectiveTable ---------------------------
(***************************************************************************)
(* Connective::enumerate: the truth table of a connective over a list of   *)
(* domains.  An odometer (Gray_code) walks the argument tuples; each tuple *)
(* is folded from the right, the last two arguments first, and pushed with *)
(* its value.  Before it, the caller has fixed the logic that hosts it.    *)
(***************************************************************************)
EXTENDS Logics, Naturals, Sequences, SequencesExt

CONSTANTS
  Connective,  \* the binary truth functions it is asked about: "and", "or", "implies"
  Domain,      \* the argument domains, sequences without repetition
  MaxArity     \* the longest list of domains asked for (the code allows 7)

\* MaxArity is the model's bound within the code's own.
ASSUME ConnectiveAssumption == Connective \subseteq {"and", "or", "implies"}
ASSUME DomainAssumption ==
  \A d \in Domain : d \in Seq(TruthValue) /\ d # <<>> /\ IsInjective(d)
ASSUME ArityAssumption == MaxArity \in 1..7

VARIABLES
  host,   \* the logic
  op,     \* the connective
  src,    \* the domains
  index,  \* the odometer, 0 for the first value of each domain; <<>> once it has run out
  ret     \* the rows: argument tuples with their values

vars == <<host, op, src, index, ret>>

-----------------------------------------------------------------------------

Eval(l, f, x, y) ==
  CASE f = "and"     -> And(l, x, y)
    [] f = "or"      -> Or(l, x, y)
    [] f = "implies" -> Implication(l, x, y)

\* A tuple folded from the right: the last member, then each before it in turn.
FoldedFromRight(l, f, t) ==
  LET acc[k \in 0..(Len(t) - 1)] ==
        IF k = 0 THEN t[Len(t)] ELSE Eval(l, f, t[Len(t) - k], acc[k - 1])
  IN  acc[Len(t) - 1]

\* The value of a tuple: on the diagonal if it has one member, else folded from the right.
RowValue(l, f, t) ==
  IF Len(t) = 1 THEN Eval(l, f, t[1], t[1]) ELSE FoldedFromRight(l, f, t)

\* cast_to: the tuple that the odometer points at.
Tuple(key, domains) == [i \in DOMAIN domains |-> domains[i][key[i] + 1]]

\* Mutant of Increment: the wheels before the one that turns stay where they are.
IncrementNoCarry(key, domains) ==
  LET turns == {i \in DOMAIN key : key[i] + 1 < Len(domains[i])}
  IN  IF turns = {} THEN <<>> ELSE [key EXCEPT ![Min(turns)] = @ + 1]

\* increment: the first wheel that can still turn does, those before it go back to
\* zero; <<>> stands for the false that ends the loop.
Increment(key, domains) ==
  LET turns == {i \in DOMAIN key : key[i] + 1 < Len(domains[i])}
  IN  IF turns = {} THEN <<>>
      ELSE LET w == Min(turns)
           IN  [i \in DOMAIN key |-> IF i < w THEN 0 ELSE IF i = w THEN key[i] + 1 ELSE key[i]]

\* A call: the domains are those of expressions of this logic or of sublogics.
Call ==
  /\ host \in Logic
  /\ op \in Connective
  /\ src \in UNION {[1..n -> {d \in Domain : \A i \in DOMAIN d : d[i] \in ValuesOf(host)}] :
                      n \in 1..MaxArity}
  /\ index = [i \in DOMAIN src |-> 0]
  /\ ret = <<>>

Init == Call

Row ==
  /\ index # <<>>
  /\ LET t == Tuple(index, src)
     IN  ret' = Append(ret, <<t, RowValue(host, op, t)>>)
  /\ index' = Increment(index, src)
  /\ UNCHANGED <<host, op, src>>

Next == Row
TableSpec == Init /\ [][Next]_vars

-----------------------------------------------------------------------------
(* Properties.                                                             *)

Tuples == {t \in [DOMAIN src -> TruthValue] : \A i \in DOMAIN src : t[i] \in Range(src[i])}

\* The odometer visits every tuple of arguments exactly once: no row is repeated on
\* the way, and none is missing when it has run out.
EveryTupleOnce ==
  /\ \A i, j \in DOMAIN ret : i # j => ret[i][1] # ret[j][1]
  /\ index = <<>> => {ret[i][1] : i \in DOMAIN ret} = Tuples

\* The other grouping, from the left.
FoldedFromLeft(l, f, t) ==
  LET acc[k \in 0..(Len(t) - 1)] ==
        IF k = 0 THEN t[1] ELSE Eval(l, f, acc[k - 1], t[k + 1])
  IN  acc[Len(t) - 1]

\* enumerate's comment "assume truth-functional associative": for conjunction and
\* disjunction of every logic the value of a row, which the connectives of the logic take
\* in turn, does not depend on its grouping, nor, in a logic that is_commutative, on its
\* order.
GroupingIrrelevant ==
  op \in {"and", "or"} =>
    \A i \in DOMAIN ret :
      LET t == ret[i][1]
      IN  Len(t) > 1 =>
            /\ ~IsOutOfRange(host, ret[i][2])
            /\ ret[i][2] = FoldedFromLeft(host, op, t)
            /\ IsCommutative(host) => ret[i][2] = RowValue(host, op, Reverse(t))

\* A row that a sublogic of the host has too (is_sublogic, by which expressions of
\* two logics are joined under the larger) has the same value there.
SublogicAgrees ==
  \A i \in DOMAIN ret, sub \in Logic :
    LET t == ret[i][1]
    IN  (IsSublogic(sub, host) /\ Range(t) \subseteq ValuesOf(sub))
          => RowValue(sub, op, t) = ret[i][2]

=============================================================================
