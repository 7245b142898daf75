---------------------------- MODULE ProofSession ----------------------------
(***************************************************************************)
(* The proof assistant's session: gentzenw runs the proof scripts of its   *)
(* command line one after another over one database of root lemmas.  A     *)
(* script opens one or two levels of hypotheses; the user then picks, from *)
(* a menu, forward inferences by modus ponens and discharges of the        *)
(* innermost level, until no level is left (proven) or the script is       *)
(* abandoned.                                                              *)
(***************************************************************************)
EXTENDS Statements, Naturals, Sequences, FiniteSets

CONSTANTS
  Statement,    \* the statements a session can speak of
  Script,       \* the proof scripts: sequences of levels of statements
  Axioms,       \* the statements of the configured axioms
  Notation(_),  \* to_s(): what a statement prints as
  Parts(_),     \* the statements a statement's shared pointers keep alive
  MenuKeys,     \* keys the menu has for its entries (36 in the code)
  MaxScripts    \* bound: scripts run in one session

ASSUME StatementAssumption ==
  \A s \in Statement :
     /\ s.kind \in Kinds
     /\ s.kind # "atom" => s.hyp \in Statement /\ s.con \in Statement
     /\ s.kind = "rule" => s.hyp2 \in Statement
     /\ s.kind \in {"atom", "parsed", "opaque"} => Parts(s) = {s}
     /\ s \in Parts(s) /\ Parts(s) \subseteq Statement
     /\ s.kind \in {"minted", "rule"} =>
          Parts(s.hyp) \cup Parts(s.con) \subseteq Parts(s)
     /\ s.kind = "rule" => Parts(s.hyp2) \subseteq Parts(s)
     /\ \A t \in Parts(s) : Parts(t) \subseteq Parts(s)

ASSUME ScriptAssumption ==
  /\ \A sc \in Script :
       /\ sc \in Seq(Seq(Statement)) /\ Len(sc) \in 1..2
       /\ \A i \in DOMAIN sc : Len(sc[i]) > 0

ASSUME AxiomsAssumption ==
  /\ Axioms \subseteq Statement
  /\ \A a, b \in Axioms : Notation(a) = Notation(b) => a = b

ASSUME BoundsAssumption == MenuKeys \in Nat /\ MaxScripts \in Nat

VARIABLES
  lemmas,    \* lemmas::get(): the statements recorded at the root, in order
  chain,     \* the spine above the root lemmas, outermost node first
  script,    \* the running script's given/hypothesis vectors, <<>> when idle
  pinned,    \* facts of the discharged branches that run_proof_script pins
  registry,  \* notation_ids::_registry: the live statements that own an id
  result,    \* last_discharged when a script was just proven, else <<>>
  ran        \* scripts of the command line run so far

vars == <<lemmas, chain, script, pinned, registry, result, ran>>

Elements(q) == {q[i] : i \in DOMAIN q}
Node(k, fs) == [kind |-> k, facts |-> fs]
Top(c) == c[Len(c)]

\* What the nodes of a spine say, and what those between the i-th and the j-th do.
Between(c, i, j) == UNION {Elements(c[k].facts) : k \in i..j}
Facts(c) == Between(c, 1, Len(c))

-----------------------------------------------------------------------------
(* The notation registry.                                                  *)

\* Mutant of Allocate: the ids are not shared by notation.
AllocateAfresh(reg, s) == s

\* notation_ids::allocate: the live statement of the same notation, failing
\* that the axiom of that notation, failing that the statement itself.
Allocate(reg, s) ==
  LET same  == {r \in reg : Notation(r) = Notation(s)}
      axiom == {a \in Axioms : Notation(a) = Notation(s)}
  IN  IF same # {} THEN CHOOSE r \in same : TRUE
      ELSE IF axiom # {} THEN CHOOSE a \in axiom : TRUE
      ELSE s

\* Mutant of Registered: the statement is entered as it came, an axiom aside.
RegisteredAsIs(reg, s) == IF Allocate(reg, s) \in Axioms THEN reg ELSE reg \cup {s}

\* The registry after that call.
Registered(reg, s) ==
  IF Allocate(reg, s) \in Axioms THEN reg ELSE reg \cup {Allocate(reg, s)}

\* What is still referenced: everything expires that no node, script vector,
\* pinned branch or root lemma keeps alive.
Kept(ls, c, sc, pins) ==
  UNION {Parts(s) : s \in Elements(ls) \cup Facts(c) \cup pins
                          \cup UNION {Elements(sc[i]) : i \in DOMAIN sc}}

Live(reg, ls, c, sc, pins) == reg \cap Kept(ls, c, sc, pins)

-----------------------------------------------------------------------------
(* What a tip can see and do.                                              *)

Proving == chain # <<>>

\* visible_statements: every statement of the spine, down to the axioms.
Visible == Facts(chain) \cup Elements(lemmas) \cup Axioms
Seen(s) == \E w \in Visible : Notation(w) = Notation(s)

ASSUME ArmAssumption ==
  \A m \in Statement : IsMajor(m) => {Minor(m), Consequent(m)} \subseteq Statement

\* Mutants of Applicable: a consequent already visible is offered again; the
\* minor hypothesis is not looked for.
ApplicableAgain == {m \in Visible : IsMajor(m) /\ Seen(Minor(m))}
ApplicableWithoutMinor == {m \in Visible : IsMajor(m) /\ ~Seen(Consequent(m))}

\* enumerate_applicable_2ary: the majors whose minor hypothesis is visible,
\* by notation, and whose consequent is not.
Applicable ==
  {m \in Visible : IsMajor(m) /\ Seen(Minor(m)) /\ ~Seen(Consequent(m))}

\* The levels of hypotheses of the spine.
Starts == {i \in DOMAIN chain : chain[i].kind = "start"}
\* Mutant of Level: the outermost level of hypotheses.
Outermost == CHOOSE i \in Starts : \A j \in Starts : i <= j

\* find_ancestor: the innermost of them.
Level == CHOOSE i \in Starts : \A j \in Starts : j <= i

\* The last statement of the tip, which a discharge concludes.
Conclusion == Top(Top(chain).facts)

\* What discharging that level would state.
Discharged == Closed(chain[Level].facts, Conclusion)

\* construct() probes: none when the tip itself opens the level.
Dischargeable == Proving /\ Top(chain).kind # "start"

\* The probe of a minted statement registers it while the menu is up; a
\* 2-ary rule is registered only when it is recorded.
Probed ==
  IF Dischargeable /\ Len(chain[Level].facts) = 1
  THEN Registered(registry, Discharged)
  ELSE registry

\* The menu offers the discharge last, and has keys for MenuKeys entries.
DischargeListed == Dischargeable /\ ~Seen(Discharged)
DischargeOffered == DischargeListed /\ Cardinality(Applicable) < MenuKeys

\* Bound of the model, which no passing run reaches: a menu beyond it would be a
\* deadlock.
WithinUniverse == DischargeListed => Discharged \in Statement

-----------------------------------------------------------------------------
Init ==
  /\ lemmas = <<>>
  /\ chain = <<>>
  /\ script = <<>>
  /\ pinned = {}
  /\ registry = {}
  /\ result = <<>>
  /\ ran = 0

\* introduction_start::construct allocates a level's statements in order.
LevelFacts(reg, ss) ==
  IF Len(ss) = 1 THEN <<Allocate(reg, ss[1])>>
  ELSE <<Allocate(reg, ss[1]), Allocate(Registered(reg, ss[1]), ss[2])>>

LevelRegistered(reg, ss) ==
  IF Len(ss) = 1 THEN Registered(reg, ss[1])
  ELSE Registered(Registered(reg, ss[1]), ss[2])

Supported(sc) == \A i \in DOMAIN sc : Len(sc[i]) \in 1..2

\* run_proof_script, up to its first menu: one node per level, over the root.
OpenScript(sc) ==
  /\ ~Proving /\ ran < MaxScripts
  /\ Supported(sc)
  /\ LET first == LevelRegistered(registry, sc[1])
         outer == Node("start", LevelFacts(registry, sc[1]))
     IN  IF Len(sc) = 1
         THEN /\ chain' = <<outer>>
              /\ registry' = first
         ELSE /\ chain' = <<outer, Node("start", LevelFacts(first, sc[2]))>>
              /\ registry' = LevelRegistered(first, sc[2])
  /\ script' = sc
  /\ result' = <<>>
  /\ ran' = ran + 1
  /\ UNCHANGED <<lemmas, pinned>>

\* open_level refuses a level of more than two statements; the script ends,
\* and what it allocated expires.
RefuseScript(sc) ==
  /\ ~Proving /\ ran < MaxScripts
  /\ ~Supported(sc)
  /\ result' = <<>>
  /\ ran' = ran + 1
  /\ UNCHANGED <<lemmas, chain, script, pinned, registry>>

\* The user picks the inference whose major hypothesis is m.
Infer(m) ==
  /\ Proving /\ m \in Applicable
  /\ WithinUniverse
  /\ LET c == Consequent(m) IN
       /\ chain' = Append(chain, Node("infer", <<Allocate(Probed, c)>>))
       /\ registry' = Live(Registered(Probed, c), lemmas, chain', script, pinned)
  /\ UNCHANGED <<lemmas, script, pinned, result, ran>>

\* Mutant of Recorded: the test for a notation already recorded is inverted.
RecordedIfKnown(fs, s) ==
  IF \E i \in DOMAIN fs : Notation(fs[i]) = Notation(s) THEN Append(fs, s) ELSE fs

\* lemmas::record: an axiom, and a notation already recorded, are not added.
Recorded(fs, s) ==
  IF s \in Axioms \/ \E i \in DOMAIN fs : Notation(fs[i]) = Notation(s)
  THEN fs ELSE Append(fs, s)

\* Mutant of Staged: the converse of the discharge.
StagedConverse ==
  Allocate(Probed, Minted(Conclusion, chain[Level].facts[1]))

\* The statement recorded for the discharge of the innermost level.
Staged == Allocate(Probed, Discharged)

\* steps pins the branch that the discharge of a single hypothesis closes.
PinnedBranch ==
  IF Len(chain[Level].facts) = 1 THEN pinned \cup Facts(chain) \cup {Staged}
  ELSE pinned

\* Mutant of DischargeInner: the conclusion itself leaves the level with it.
DischargeInnerLeaking ==
  /\ DischargeOffered
  /\ WithinUniverse
  /\ Level > 1
  /\ chain' = Append(SubSeq(chain, 1, Level - 1),
                     Node("lemmas", <<Conclusion, Staged>>))
  /\ pinned' = PinnedBranch
  /\ registry' = Live(Registered(Probed, Discharged), lemmas, chain', script, pinned')
  /\ UNCHANGED <<lemmas, script, result, ran>>

\* The user discharges the inner level: the tip moves to the lemmas recorded
\* over the outer one.
DischargeInner ==
  /\ DischargeOffered
  /\ WithinUniverse
  /\ Level > 1
  /\ chain' = Append(SubSeq(chain, 1, Level - 1),
                     Node("lemmas", Recorded(<<>>, Staged)))
  /\ pinned' = PinnedBranch
  /\ registry' = Live(Registered(Probed, Discharged), lemmas, chain', script, pinned')
  /\ UNCHANGED <<lemmas, script, result, ran>>

\* The user discharges the outer level: the script is proven.
DischargeOuter ==
  /\ DischargeOffered
  /\ WithinUniverse
  /\ Level = 1
  /\ lemmas' = Recorded(lemmas, Staged)
  /\ chain' = <<>> /\ script' = <<>> /\ pinned' = {}
  /\ registry' = Live(Registered(Probed, Discharged), lemmas', <<>>, <<>>, {})
  /\ result' = <<Staged>>
  /\ UNCHANGED ran

\* Mutant of Abandon: only the innermost level is undone, back to its hypotheses.
AbandonToLevel ==
  /\ chain' = SubSeq(chain, 1, Level)
  /\ registry' = Live(registry, lemmas, chain', script, pinned)
  /\ UNCHANGED <<lemmas, script, pinned, result, ran>>

\* The script's locals die, and with them all it did not record at the root.
Abandon ==
  /\ chain' = <<>> /\ script' = <<>> /\ pinned' = {}
  /\ registry' = Live(registry, lemmas, <<>>, <<>>, {})
  /\ UNCHANGED <<lemmas, result, ran>>

\* The user answers a menu with a blank line, or closes the input.
Cancel ==
  /\ Proving
  /\ WithinUniverse
  /\ Applicable # {} \/ DischargeListed
  /\ Abandon

\* There is nothing to put on a menu.
NothingApplicable ==
  /\ Proving
  /\ Applicable = {} /\ ~DischargeListed
  /\ Abandon

\* The command line is exhausted.
Finished ==
  /\ ~Proving /\ ran = MaxScripts
  /\ UNCHANGED vars

Answer == (\E m \in Visible : Infer(m)) \/ DischargeInner \/ DischargeOuter
            \/ Cancel \/ NothingApplicable

Next ==
  \/ \E sc \in Script : OpenScript(sc)
  \/ \E sc \in Script : RefuseScript(sc)
  \/ \E m \in Visible : Infer(m)
  \/ DischargeInner
  \/ DischargeOuter
  \/ Cancel
  \/ NothingApplicable
  \/ Finished

Spec == Init /\ [][Next]_vars

\* The loop computes its menu and reads the answer without waiting on anything
\* but the input, and the end of the input is an answer too.
FairSpec == Spec /\ WF_vars(Answer)

-----------------------------------------------------------------------------
NodeType == [kind : {"start", "infer", "lemmas"}, facts : Seq(Statement)]

\* The types of the session's state.
TypeOK ==
  /\ lemmas \in Seq(Statement)
  /\ chain \in Seq(NodeType)
  /\ script \in Seq(Seq(Statement))
  /\ pinned \subseteq Statement
  /\ registry \subseteq Statement
  /\ result \in Seq(Statement)
  /\ ran \in 0..MaxScripts

\* "in bijection with statement notations actually used": no two live entries
\* of the registry, and no entry and axiom, print the same.  It is the deduplication
\* of allocate, and the pruning of what expired, that keep it so.
OneOwnerPerNotation ==
  \A r, s \in registry \cup Axioms : Notation(r) = Notation(s) => r = s

\* Allocating what is already visible is idempotent ("reads back the
\* registered id"): no statement of the spine has lost its registry entry, or
\* had it taken over, through any discharge, abandonment or expiry.
VisibleReadsBack == \A s \in Visible : Allocate(registry, s) = s

\* The spine starts with the levels of hypotheses and goes on with the inferences
\* and the lemmas over the innermost one; no node is without statements.
SpineShape ==
  /\ \A i \in 1..Len(chain) : Len(chain[i].facts) \in 1..2
  /\ Proving => \E d \in 1..Len(chain) :
                  \A i \in 1..Len(chain) : chain[i].kind = "start" <=> i <= d

\* A discharge that is offered can be made: the tip has a last statement to
\* conclude, and the level it closes stands on a node that inference_destination
\* knows (a null destination ends the script with an error).
DischargeHasDestination ==
  Dischargeable =>
    /\ Len(Top(chain).facts) > 0
    /\ Level > 1 => chain[Level - 1].kind \in {"start", "lemmas"}

\* No derived statement repeats the notation of one it can see below itself, and
\* no theorem is recorded twice at the root: every step of a script says something
\* new, which is what makes the forward inferences of a script run out.
NothingDerivedTwice ==
  /\ \A i \in DOMAIN chain : chain[i].kind # "start" =>
       \A s \in Elements(chain[i].facts) :
         \A w \in Between(chain, 1, i - 1) \cup Elements(lemmas) \cup Axioms :
            Notation(w) # Notation(s)
  /\ \A i, j \in DOMAIN lemmas : i # j => Notation(lemmas[i]) # Notation(lemmas[j])

\* A script that was opened ends, proven or abandoned, whatever is picked: the
\* menus cannot keep the user inferring for ever.
ScriptEnds == Proving ~> ~Proving

=============================================================================
