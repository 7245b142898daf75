----------------------------- MODULE ProofLedger -----------------------------
(***************************************************************************)
(* The row ledger of a proof script: what run_proof_script writes, beside  *)
(* the session itself, into the script's theorem file.  Rows carry the     *)
(* notation ids that the registry hands out; a rationale cites by id, and  *)
(* rewrite_labels turns a cited id into the number of the first row that   *)
(* has it.                                                                 *)
(***************************************************************************)
EXTENDS ProofSession

ASSUME FiniteAxioms == IsFiniteSet(Axioms)

VARIABLES
  numbering,  \* the ids of the registry's live entries, and the next id
  rows        \* the rows of the running script, or of the one just proven

ledgerVars == <<vars, numbering, rows>>

\* Axioms have the first ids.  The others are counted up from there; the code
\* counts them down from the largest size_t, and hands none out twice.
AxiomId ==
  CHOOSE f \in [Axioms -> 1..Cardinality(Axioms)] :
    \A a, b \in Axioms : f[a] = f[b] => a = b

\* What allocate does to the ids when it registers s.
Enter(n, s) ==
  LET a == Allocate(DOMAIN n.ids, s)
  IN  IF a \in Axioms \cup DOMAIN n.ids THEN n
      ELSE [ids  |-> [t \in DOMAIN n.ids \cup {a} |-> IF t = a THEN n.next ELSE n.ids[t]],
            next |-> n.next + 1]

\* What introduction_start::construct does to them for a level, and a script for
\* its levels.
LevelEntered(n, ss) ==
  IF Len(ss) = 1 THEN Enter(n, ss[1]) ELSE Enter(Enter(n, ss[1]), ss[2])

ScriptEntered(n, sc) ==
  IF Len(sc) = 1 THEN LevelEntered(n, sc[1])
  ELSE LevelEntered(LevelEntered(n, sc[1]), sc[2])

\* The id that allocate reads back for s.
IdOf(n, s) ==
  LET a == Allocate(DOMAIN n.ids, s) IN IF a \in Axioms THEN AxiomId[a] ELSE n.ids[a]

\* Mutant of Pruned: an id is an entry's place in the registry.
PrunedByPlace(n, reg) ==
  [ids |-> [s \in reg |-> n.ids[s]], next |-> Cardinality(reg) + Cardinality(Axioms) + 1]

\* Pruning the entries that expired; their ids are not reused.
Pruned(n, reg) == [ids |-> [s \in reg |-> n.ids[s]], next |-> n.next]

\* The ids while a menu is up, the probe of the discharge included.
ProbedIds ==
  IF Dischargeable /\ Len(chain[Level].facts) = 1 THEN Enter(numbering, Discharged)
  ELSE numbering

\* hypothesis_depth: the enclosing levels, less the outermost one.
Depth(c) ==
  LET levels == Cardinality({i \in DOMAIN c : c[i].kind = "start"})
  IN  IF levels = 0 THEN 0 ELSE levels - 1

Row(n, s, role, cites, depth) ==
  [id |-> IdOf(n, s), text |-> Notation(s), role |-> role, cites |-> cites,
   depth |-> depth]

-----------------------------------------------------------------------------
LedgerInit ==
  /\ Init
  /\ numbering = [ids |-> <<>>, next |-> Cardinality(Axioms) + 1]
  /\ rows = <<>>

\* Mutant of OpenedRows: one row for a level, whatever it assumes.
OpenedFirstRows(n, sc) ==
  [i \in 1..Len(sc) |-> Row(n, sc[i][1], "opened", <<>>, i - 1)]

\* The rows that open_level writes for the levels of a script.
LevelRows(n, ss, depth) == [k \in 1..Len(ss) |-> Row(n, ss[k], "opened", <<>>, depth)]

OpenedRows(n, sc) ==
  IF Len(sc) = 1 THEN LevelRows(n, sc[1], 0)
  ELSE LevelRows(n, sc[1], 0) \o LevelRows(n, sc[2], 1)

LedgerOpen(sc) ==
  /\ OpenScript(sc)
  /\ numbering' = ScriptEntered(numbering, sc)
  /\ rows' = OpenedRows(numbering', sc)

\* A refused script writes no file; the ids of the level it had opened are spent.
RefusedEntered(n, sc) == IF Len(sc[1]) \in 1..2 THEN LevelEntered(n, sc[1]) ELSE n

LedgerRefuse(sc) ==
  /\ RefuseScript(sc)
  /\ numbering' = Pruned(RefusedEntered(numbering, sc), registry)
  /\ rows' = <<>>

\* Mutant of LedgerInfer: an id that has a row gets no other.
LedgerInferOnce(m) ==
  /\ Infer(m)
  /\ LET n == Enter(ProbedIds, Consequent(m)) IN
       /\ numbering' = Pruned(n, registry')
       /\ rows' = IF \E i \in DOMAIN rows : rows[i].id = IdOf(n, Consequent(m)) THEN rows
                  ELSE Append(rows, Row(n, Consequent(m), "inferred",
                                        <<IdOf(n, m), IdOf(n, Minor(m))>>, Depth(chain')))

\* An inferred row cites its major and minor hypotheses.
LedgerInfer(m) ==
  /\ Infer(m)
  /\ LET n == Enter(ProbedIds, Consequent(m)) IN
       /\ numbering' = Pruned(n, registry')
       /\ rows' = Append(rows, Row(n, Consequent(m), "inferred",
                                   <<IdOf(n, m), IdOf(n, Minor(m))>>, Depth(chain')))

\* Mutant of Introduced: the row is measured in the scope it closes.
IntroducedInside(n, dest) ==
  IF Len(chain[Level].facts) = 1
  THEN Append(rows, Row(n, Discharged, "introduced",
                        <<IdOf(n, chain[Level].facts[1]), IdOf(n, Conclusion)>>, Depth(chain)))
  ELSE rows

\* Only the discharge of a single hypothesis writes a row, which cites the
\* hypothesis and the last line of the scope; it is measured at its destination.
Introduced(n, dest) ==
  IF Len(chain[Level].facts) = 1
  THEN Append(rows, Row(n, Discharged, "introduced",
                        <<IdOf(n, chain[Level].facts[1]), IdOf(n, Conclusion)>>, Depth(dest)))
  ELSE rows

LedgerDischarge ==
  /\ DischargeInner \/ DischargeOuter
  /\ LET n == Enter(ProbedIds, Discharged) IN
       /\ numbering' = Pruned(n, registry')
       /\ rows' = Introduced(n, chain')

\* The rows of an abandoned script die with its other locals.
LedgerAbandon ==
  /\ Cancel \/ NothingApplicable
  /\ numbering' = Pruned(ProbedIds, registry')
  /\ rows' = <<>>

LedgerNext ==
  \/ \E sc \in Script : LedgerOpen(sc)
  \/ \E sc \in Script : LedgerRefuse(sc)
  \/ \E m \in Visible : LedgerInfer(m)
  \/ LedgerDischarge
  \/ LedgerAbandon
  \/ Finished /\ UNCHANGED <<numbering, rows>>

LedgerSpec == LedgerInit /\ [][LedgerNext]_ledgerVars

-----------------------------------------------------------------------------
\* rewrite_labels: the first row with the id, 0 when there is none.
RowNumber(id) ==
  LET having == {i \in DOMAIN rows : rows[i].id = id}
  IN  IF having = {} THEN 0 ELSE CHOOSE i \in having : \A j \in having : i <= j

Cited(i) == {rows[i].cites[k] : k \in DOMAIN rows[i].cites}

\* Row j is in a scope that is still open where row i is read from, which for an
\* introduction is the last line of the scope it closes.
InScope(j, i) ==
  \A k \in (j + 1)..i :
    rows[k].depth < rows[j].depth => k = i /\ rows[k].role = "introduced"

-----------------------------------------------------------------------------
\* An id stands for one notation over the whole table, and for a statement still
\* alive it is that statement's: pruning and reallocation never move an id, so
\* a label cannot come to name another row's text.  The live entries are those with an
\* id, and an id to come is none of theirs.
IdsNameOneText ==
  /\ numbering.ids \in [registry -> 1..(numbering.next - 1)]
  /\ \A i, j \in DOMAIN rows : rows[i].id = rows[j].id => rows[i].text = rows[j].text
  /\ \A i \in DOMAIN rows, s \in registry :
       numbering.ids[s] = rows[i].id => rows[i].text = Notation(s)

\* The ids of what every scope of every script can see.
SeenEverywhere(id) ==
  \/ \E a \in Axioms : AxiomId[a] = id
  \/ \E s \in registry : numbering.ids[s] = id /\ s \in Elements(lemmas)

\* Whatever a row cites, and the table has a row for, has a row above the citing
\* one in a scope that is open there: the Fitch rendering of the depths is a
\* proof.  (The row number printed is the first row's with the id, which may be a
\* row of that text in a scope already closed.)  What every script can see needs no
\* row: an axiom that a closed scope had assumed is cited by that scope's row.
CitesOpenScopes ==
  \A i \in DOMAIN rows : \A id \in Cited(i) :
    RowNumber(id) = 0 \/ SeenEverywhere(id)
      \/ \E j \in 1..(i - 1) : rows[j].id = id /\ InScope(j, i)

\* An introduction stands just outside the scope of the hypothesis it discharges,
\* and that scope runs unbroken from the one to the other.
IntroductionsCloseScopes ==
  \A i \in DOMAIN rows : rows[i].role = "introduced" =>
    LET h == RowNumber(rows[i].cites[1])
    IN  /\ h \in 1..(i - 1)
        /\ rows[i].depth = (IF rows[h].depth = 0 THEN 0 ELSE rows[h].depth - 1)
        /\ \A k \in h..(i - 1) : rows[k].depth >= rows[h].depth

PrintsAsRule(s) == \E r \in Statement : r.kind = "rule" /\ Notation(r) = Notation(s)

\* A label stays a label only for what no row of this script states: an axiom, a
\* theorem of an earlier script, or the 2-ary rule of a discharged pair.
OnlyTheseStayLabels ==
  [][Proving /\ Len(rows') > Len(rows) =>
       \A k \in DOMAIN Top(rows').cites :
         LET id == Top(rows').cites[k]
         IN  \/ \E i \in DOMAIN rows : rows[i].id = id
             \/ SeenEverywhere(id)
             \/ \E s \in registry : numbering.ids[s] = id /\ PrintsAsRule(s)]_ledgerVars

\* "Row labels inside rationales are already rewritten to (n) form": a theorem
\* file has no label left.
LabelsResolve ==
  result # <<>> => \A i \in DOMAIN rows : \A id \in Cited(i) : RowNumber(id) # 0

=============================================================================
