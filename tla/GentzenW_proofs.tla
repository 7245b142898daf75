--------------------------- MODULE GentzenW_proofs ---------------------------
(***************************************************************************)
(* What holds of every session with the proof scripts of GentzenW.         *)
(*                                                                         *)
(* What it keeps: the session's types, the shape of its spine, and that a  *)
(* discharge that is offered always finds its destination.                 *)
(*                                                                         *)
(* What it proves: as long as statements that print alike mean alike, each *)
(* of its steps is one of natural deduction or none at all, so what it     *)
(* announces as proven is valid.                                           *)
(*                                                                         *)
(* What it writes down: an id of the ledger never names two texts, what a  *)
(* row cites is in a scope that is still open there, an introduction       *)
(* stands just outside the scope it closes, and labels stay only for what  *)
(* has no row.                                                             *)
(***************************************************************************)
EXTENDS ProofLedger, ProofSoundness, SequenceTheorems, FiniteSetTheorems, FunctionTheorems,
        TLAPS

-----------------------------------------------------------------------------
(* Sequences.                                                              *)

LEMMA NonEmpty ==
  ASSUME NEW S, NEW s \in Seq(S)
  PROVE  Len(s) \in Nat /\ DOMAIN s = 1..Len(s) /\ (s # <<>> <=> Len(s) > 0)
BY EmptySeq, LenProperties

LEMMA ElementsType ==
  ASSUME NEW S, NEW q \in Seq(S)
  PROVE  Elements(q) \subseteq S
BY ElementOfSeq, LenProperties DEF Elements

\* A prefix of a sequence, and the sequence extended by one element.
LEMMA PrefixProperties ==
  ASSUME NEW S, NEW q \in Seq(S), NEW n \in 0..Len(q)
  PROVE  /\ SubSeq(q, 1, n) \in Seq(S)
         /\ Len(SubSeq(q, 1, n)) = n
         /\ \A i \in 1..n : SubSeq(q, 1, n)[i] = q[i]
<1>1. Len(q) \in Nat /\ n \in Nat /\ \A i \in 1..n : q[i] \in S
  BY LenProperties, ElementOfSeq
<1>2. /\ SubSeq(q, 1, n) \in Seq(S)
      /\ Len(SubSeq(q, 1, n)) = IF 1 <= n THEN n - 1 + 1 ELSE 0
      /\ \A i \in 1..(n - 1 + 1) : SubSeq(q, 1, n)[i] = q[1 + i - 1]
  BY <1>1, SubSeqProperties
<1> QED BY <1>1, <1>2

LEMMA AppendFacts ==
  ASSUME NEW S, NEW q \in Seq(S), NEW e \in S
  PROVE  /\ Append(q, e) \in Seq(S)
         /\ Len(Append(q, e)) = Len(q) + 1
         /\ \A i \in 1..(Len(q) + 1) :
              Append(q, e)[i] = IF i <= Len(q) THEN q[i] ELSE e
<1>1. Len(q) \in Nat
  BY LenProperties
<1> QED BY <1>1, AppendProperties

-----------------------------------------------------------------------------
(* Statements and the registry.                                            *)

\* Allocation answers with a statement of the same notation.
LEMMA AllocateFacts ==
  ASSUME NEW reg, NEW s
  PROVE  /\ Notation(Allocate(reg, s)) = Notation(s)
         /\ Allocate(reg, s) \in reg \cup Axioms \cup {s}
BY DEF Allocate

LEMMA AllocateType ==
  ASSUME NEW reg \in SUBSET Statement, NEW s \in Statement
  PROVE  /\ Allocate(reg, s) \in Statement
         /\ Registered(reg, s) \in SUBSET Statement
         /\ Registered(reg, s) \subseteq reg \cup {Allocate(reg, s)}
BY AllocateFacts, AxiomsAssumption DEF Registered

LEMMA NodeFacts ==
  ASSUME NEW k \in {"start", "infer", "lemmas"}, NEW fs \in Seq(Statement)
  PROVE  Node(k, fs) \in NodeType /\ Node(k, fs).kind = k /\ Node(k, fs).facts = fs
BY DEF Node, NodeType

LEMMA NodeTypeFacts ==
  ASSUME NEW c \in Seq(NodeType), NEW i \in 1..Len(c)
  PROVE  c[i] \in NodeType /\ c[i].facts \in Seq(Statement)
           /\ c[i].kind \in {"start", "infer", "lemmas"}
<1>1. c[i] \in NodeType
  BY ElementOfSeq
<1> QED BY <1>1 DEF NodeType

\* What the nodes of a spine say.
LEMMA FactsMember ==
  ASSUME NEW c \in Seq(NodeType), NEW s
  PROVE  s \in Facts(c) <=> \E i \in 1..Len(c) : s \in Elements(c[i].facts)
BY DEF Facts, Between

LEMMA FactsType ==
  ASSUME NEW c \in Seq(NodeType)
  PROVE  Facts(c) \subseteq Statement
BY FactsMember, NodeTypeFacts, ElementsType

LEMMA FactsAppend ==
  ASSUME NEW c \in Seq(NodeType), NEW n \in NodeType
  PROVE  /\ Append(c, n) \in Seq(NodeType)
         /\ Facts(Append(c, n)) = Facts(c) \cup Elements(n.facts)
<1>1. /\ Append(c, n) \in Seq(NodeType) /\ Len(Append(c, n)) = Len(c) + 1
      /\ \A i \in 1..(Len(c) + 1) : Append(c, n)[i] = IF i <= Len(c) THEN c[i] ELSE n
  BY AppendFacts
<1>2. Len(c) \in Nat
  BY LenProperties
<1>3. ASSUME NEW s
      PROVE  s \in Facts(Append(c, n)) <=> s \in Facts(c) \/ s \in Elements(n.facts)
  <2>1. s \in Facts(Append(c, n))
          <=> \E i \in 1..(Len(c) + 1) : s \in Elements(Append(c, n)[i].facts)
    BY <1>1, FactsMember
  <2>2. ASSUME NEW i \in 1..(Len(c) + 1), s \in Elements(Append(c, n)[i].facts)
        PROVE  s \in Facts(c) \/ s \in Elements(n.facts)
    <3>1. CASE i <= Len(c)
      BY <1>1, <1>2, <2>2, <3>1, FactsMember
    <3>2. CASE ~(i <= Len(c))
      BY <1>1, <2>2, <3>2
    <3> QED BY <3>1, <3>2
  <2>3. ASSUME s \in Facts(c)
        PROVE  \E i \in 1..(Len(c) + 1) : s \in Elements(Append(c, n)[i].facts)
    <3>1. PICK i \in 1..Len(c) : s \in Elements(c[i].facts)
      BY <2>3, FactsMember
    <3>2. i \in 1..(Len(c) + 1) /\ i <= Len(c)
      BY <1>2
    <3> QED BY <1>1, <3>1, <3>2
  <2>4. ASSUME s \in Elements(n.facts)
        PROVE  \E i \in 1..(Len(c) + 1) : s \in Elements(Append(c, n)[i].facts)
    <3>1. Len(c) + 1 \in 1..(Len(c) + 1) /\ ~(Len(c) + 1 <= Len(c))
      BY <1>2
    <3> QED BY <1>1, <2>4, <3>1
  <2> QED BY <2>1, <2>2, <2>3, <2>4
<1> QED BY <1>1, <1>3

LEMMA FactsPrefix ==
  ASSUME NEW c \in Seq(NodeType), NEW n \in 0..Len(c)
  PROVE  Facts(SubSeq(c, 1, n)) \subseteq Facts(c)
<1>1. /\ SubSeq(c, 1, n) \in Seq(NodeType) /\ Len(SubSeq(c, 1, n)) = n
      /\ \A i \in 1..n : SubSeq(c, 1, n)[i] = c[i]
  BY PrefixProperties
<1>2. Len(c) \in Nat /\ \A i \in 1..n : i \in 1..Len(c)
  BY LenProperties
<1> QED BY <1>1, <1>2, FactsMember

LEMMA SingletonElements == \A s : Elements(<<s>>) = {s}
BY DEF Elements

LEMMA VisibleType == TypeOK => Visible \subseteq Statement
BY FactsType, ElementsType, AxiomsAssumption DEF TypeOK, Visible

-----------------------------------------------------------------------------
(* Owners: no two statements of a registry, or of it and the axioms, print *)
(* alike.                                                                  *)

Owners(reg) ==
  \A r, s \in reg \cup Axioms : Notation(r) = Notation(s) => r = s

LEMMA RegisteredOwners ==
  ASSUME NEW reg, NEW s, Owners(reg)
  PROVE  /\ Owners(Registered(reg, s))
         /\ reg \subseteq Registered(reg, s)
         /\ Allocate(reg, s) \in Registered(reg, s) \cup Axioms
<1> DEFINE same == {r \in reg : Notation(r) = Notation(s)}
           axiom == {a \in Axioms : Notation(a) = Notation(s)}
<1>1. CASE same # {}
  BY <1>1 DEF Allocate, Registered, Owners
<1>2. CASE same = {} /\ axiom # {}
  BY <1>2 DEF Allocate, Registered, Owners
<1>3. CASE same = {} /\ axiom = {}
  <2>1. Registered(reg, s) = reg \cup {s} /\ Allocate(reg, s) = s
    BY <1>3 DEF Allocate, Registered
  <2>2. \A r \in reg \cup Axioms : Notation(r) # Notation(s)
    BY <1>3
  <2> QED BY <2>1, <2>2 DEF Owners
<1> QED BY <1>1, <1>2, <1>3

\* A visible statement owns its notation, and so it reads back as itself.
LEMMA OwnerReadsBack ==
  ASSUME NEW reg, Owners(reg), NEW s \in reg \cup Axioms
  PROVE  Allocate(reg, s) = s
BY DEF Allocate, Owners

\* Pruning expires nothing that a node, a root lemma, a script or a pinned branch
\* still holds.
LEMMA LiveFacts ==
  ASSUME NEW reg, NEW ls, NEW c, NEW sc, NEW pins, Owners(reg)
  PROVE  /\ Owners(Live(reg, ls, c, sc, pins))
         /\ Live(reg, ls, c, sc, pins) \subseteq reg
         /\ \A s \in Statement :
              s \in reg /\ s \in Elements(ls) \cup Facts(c) => s \in Live(reg, ls, c, sc, pins)
<1>1. Live(reg, ls, c, sc, pins) \subseteq reg
  BY DEF Live
<1>2. ASSUME NEW s \in Statement, s \in reg, s \in Elements(ls) \cup Facts(c)
      PROVE  s \in Live(reg, ls, c, sc, pins)
  <2>1. s \in Parts(s)
    BY StatementAssumption
  <2> QED BY <1>2, <2>1 DEF Live, Kept
<1> QED BY <1>1, <1>2 DEF Owners

-----------------------------------------------------------------------------
(* The inductive invariant: types, one owner per notation, every visible   *)
(* statement an owner, and the shape of the spine.                         *)

VisibleOwned == Visible \subseteq registry \cup Axioms

SessionInv == TypeOK /\ OneOwnerPerNotation /\ VisibleOwned /\ SpineShape

\* The level a tip stands in is the last of the start nodes.
LEMMA SpineLevel ==
  ASSUME TypeOK, SpineShape, Proving
  PROVE  /\ Len(chain) \in Nat /\ Level \in 1..Len(chain)
         /\ \A i \in 1..Len(chain) : chain[i].kind = "start" <=> i <= Level
         /\ \A i \in 1..Len(chain) :
              chain[i].facts \in Seq(Statement) /\ Len(chain[i].facts) \in 1..2
<1>1. PICK d \in 1..Len(chain) : \A i \in 1..Len(chain) : chain[i].kind = "start" <=> i <= d
  BY DEF SpineShape
<1>2. chain \in Seq(NodeType) /\ Len(chain) \in Nat /\ DOMAIN chain = 1..Len(chain)
  BY LenProperties DEF TypeOK
<1>3. Starts = 1..d
  BY <1>1, <1>2 DEF Starts
<1>4. Level = d
  <2>1. d \in Starts /\ \A j \in Starts : j <= d
    BY <1>2, <1>3
  <2>2. \A i \in Starts : (\A j \in Starts : j <= i) => i = d
    BY <1>2, <1>3
  <2> QED BY <2>1, <2>2 DEF Level
<1> QED BY <1>1, <1>2, <1>4, NodeTypeFacts DEF SpineShape

\* The probe of a discharge changes nothing that is visible.
LEMMA ProbedFacts ==
  ASSUME SessionInv, Proving, WithinUniverse
  PROVE  Probed \in SUBSET Statement /\ Owners(Probed) /\ registry \subseteq Probed
<1>1. Owners(registry) /\ registry \in SUBSET Statement
  BY DEF SessionInv, OneOwnerPerNotation, Owners, TypeOK
<1>2. Probed = registry \/ (Dischargeable /\ Probed = Registered(registry, Discharged))
  BY DEF Probed
<1>3. ASSUME Dischargeable PROVE Registered(registry, Discharged) \in SUBSET Statement
  <2>1. CASE DischargeListed
    BY <1>1, <2>1, AllocateType DEF WithinUniverse
  <2>2. CASE Seen(Discharged)
    <3>1. PICK w \in registry \cup Axioms : Notation(w) = Notation(Discharged)
      BY <2>2 DEF Seen, SessionInv, VisibleOwned
    <3>2. Allocate(registry, Discharged) \in registry \cup Axioms
      BY <3>1 DEF Allocate
    <3> QED BY <1>1, <3>2 DEF Registered
  <2> QED BY <1>3, <2>1, <2>2 DEF DischargeListed
<1> QED BY <1>1, <1>2, <1>3, RegisteredOwners

\* A level of one or two statements is allocated to as many, all owned.
LEMMA LevelAllocation ==
  ASSUME NEW reg \in SUBSET Statement, Owners(reg),
         NEW ss \in Seq(Statement), Len(ss) \in 1..2
  PROVE  /\ LevelFacts(reg, ss) \in Seq(Statement)
         /\ Len(LevelFacts(reg, ss)) \in 1..2
         /\ LevelRegistered(reg, ss) \in SUBSET Statement
         /\ Owners(LevelRegistered(reg, ss))
         /\ reg \subseteq LevelRegistered(reg, ss)
         /\ Elements(LevelFacts(reg, ss)) \subseteq LevelRegistered(reg, ss) \cup Axioms
<1>1. CASE Len(ss) = 1
  <2>1. ss[1] \in Statement
    BY <1>1
  <2>2. LevelFacts(reg, ss) = <<Allocate(reg, ss[1])>> /\ LevelRegistered(reg, ss) = Registered(reg, ss[1])
    BY <1>1 DEF LevelFacts, LevelRegistered
  <2>3. Allocate(reg, ss[1]) \in Statement
    BY <2>1, AllocateType
  <2>4. <<Allocate(reg, ss[1])>> \in Seq(Statement) /\ Len(<<Allocate(reg, ss[1])>>) = 1
    BY <2>3
  <2> QED BY <2>1, <2>2, <2>4, AllocateType, RegisteredOwners, SingletonElements
<1>2. CASE Len(ss) = 2
  <2> DEFINE r1 == Registered(reg, ss[1])
             a1 == Allocate(reg, ss[1])
             a2 == Allocate(r1, ss[2])
  <2>1. ss[1] \in Statement /\ ss[2] \in Statement
    BY <1>2
  <2>2. LevelFacts(reg, ss) = <<a1, a2>> /\ LevelRegistered(reg, ss) = Registered(r1, ss[2])
    BY <1>2 DEF LevelFacts, LevelRegistered
  <2>3. a1 \in Statement /\ r1 \in SUBSET Statement /\ Owners(r1) /\ reg \subseteq r1
          /\ a1 \in r1 \cup Axioms
    BY <2>1, AllocateType, RegisteredOwners
  <2> HIDE DEF r1, a1
  <2>4. /\ a2 \in Statement /\ Registered(r1, ss[2]) \in SUBSET Statement
        /\ Owners(Registered(r1, ss[2])) /\ r1 \subseteq Registered(r1, ss[2])
        /\ a2 \in Registered(r1, ss[2]) \cup Axioms
    BY <2>1, <2>3, AllocateType, RegisteredOwners
  <2> HIDE DEF a2
  <2>5. <<a1, a2>> \in Seq(Statement) /\ Len(<<a1, a2>>) = 2
    BY <2>3, <2>4
  <2>6. Elements(<<a1, a2>>) = {a1, a2}
    BY DEF Elements
  <2> QED BY <2>2, <2>3, <2>4, <2>5, <2>6
<1> QED BY <1>1, <1>2

\* A new tip over a spine keeps the spine's shape.
LEMMA ShapeAppend ==
  ASSUME NEW c \in Seq(NodeType), NEW n \in NodeType, n.kind # "start",
         Len(n.facts) \in 1..2,
         \A i \in 1..Len(c) : Len(c[i].facts) \in 1..2,
         NEW d \in 1..Len(c), \A i \in 1..Len(c) : c[i].kind = "start" <=> i <= d
  PROVE  LET e == Append(c, n)
         IN  /\ \A i \in 1..Len(e) : Len(e[i].facts) \in 1..2
             /\ d \in 1..Len(e)
             /\ \A i \in 1..Len(e) : e[i].kind = "start" <=> i <= d
<1>1. Len(c) \in Nat /\ d <= Len(c) /\ d \in Nat
  BY LenProperties
<1>2. /\ Len(Append(c, n)) = Len(c) + 1
      /\ \A i \in 1..(Len(c) + 1) : Append(c, n)[i] = IF i <= Len(c) THEN c[i] ELSE n
  BY AppendFacts
<1> DEFINE e == Append(c, n)
<1> HIDE DEF e
<1>3. Len(e) = Len(c) + 1 /\ \A i \in 1..(Len(c) + 1) : e[i] = IF i <= Len(c) THEN c[i] ELSE n
  BY <1>2 DEF e
<1>4. ASSUME NEW i \in 1..Len(e)
      PROVE  Len(e[i].facts) \in 1..2 /\ (e[i].kind = "start" <=> i <= d)
  <2>1. CASE i <= Len(c)
    <3>1. i \in 1..Len(c) /\ e[i] = c[i]
      BY <1>1, <1>3, <2>1
    <3> QED BY <3>1
  <2>2. CASE ~(i <= Len(c))
    <3>1. e[i] = n /\ ~(i <= d)
      BY <1>1, <1>3, <2>2
    <3> QED BY <3>1
  <2> QED BY <2>1, <2>2
<1>5. d \in 1..Len(e)
  BY <1>1, <1>3
<1> QED BY <1>4, <1>5 DEF e

-----------------------------------------------------------------------------
(* One lemma per action.                                                   *)

LEMMA OpenScriptInv ==
  ASSUME SessionInv, NEW sc \in Script, OpenScript(sc)
  PROVE  SessionInv'
<1> DEFINE first == LevelRegistered(registry, sc[1])
           outer == Node("start", LevelFacts(registry, sc[1]))
           inner == Node("start", LevelFacts(first, sc[2]))
<1>1. /\ sc \in Seq(Seq(Statement)) /\ Len(sc) \in 1..2
      /\ \A i \in 1..Len(sc) : sc[i] \in Seq(Statement) /\ Len(sc[i]) \in 1..2
  <2>1. sc \in Seq(Seq(Statement)) /\ Len(sc) \in 1..2
    BY ScriptAssumption
  <2>2. DOMAIN sc = 1..Len(sc)
    BY <2>1, LenProperties
  <2>3. \A i \in 1..Len(sc) : sc[i] \in Seq(Statement)
    BY <2>1, ElementOfSeq
  <2>4. \A i \in 1..Len(sc) : Len(sc[i]) \in 1..2
    BY <2>2 DEF OpenScript, Supported
  <2> QED BY <2>1, <2>3, <2>4
<1>2. registry \in SUBSET Statement /\ Owners(registry)
        /\ Elements(lemmas) \subseteq registry \cup Axioms
  BY DEF SessionInv, OneOwnerPerNotation, Owners, TypeOK, VisibleOwned, Visible
<1>3. /\ outer \in NodeType /\ outer.kind = "start" /\ Len(outer.facts) \in 1..2
      /\ first \in SUBSET Statement /\ Owners(first) /\ registry \subseteq first
      /\ Elements(outer.facts) \subseteq first \cup Axioms
  BY <1>1, <1>2, LevelAllocation, NodeFacts
<1> HIDE DEF outer, first
<1>0. /\ script' \in Seq(Seq(Statement)) /\ result' \in Seq(Statement)
      /\ ran' \in 0..MaxScripts /\ UNCHANGED <<lemmas, pinned>>
  <2>1. ran \in 0..MaxScripts /\ ran < MaxScripts /\ ran' = ran + 1
    BY DEF OpenScript, SessionInv, TypeOK
  <2>2. ran' \in 0..MaxScripts
    BY <2>1, BoundsAssumption
  <2>3. script' = sc /\ result' = <<>>
    BY DEF OpenScript
  <2> QED BY <1>1, <2>2, <2>3 DEF OpenScript
<1>4. CASE Len(sc) = 1
  <2>1. chain' = <<outer>> /\ registry' = first
    BY <1>4 DEF OpenScript, outer, first
  <2>2. chain' \in Seq(NodeType) /\ Len(chain') = 1 /\ chain'[1] = outer
    BY <1>3, <2>1
  <2>3. Facts(chain') = Elements(outer.facts)
    <3>1. \A i : i \in 1..1 <=> i = 1
      OBVIOUS
    <3>2. \A s : s \in Facts(chain') <=> s \in Elements(outer.facts)
      BY <2>2, <3>1, FactsMember
    <3> QED BY <3>2
  <2>4. SpineShape'
    BY <1>3, <2>2 DEF SpineShape
  <2>5. TypeOK'
    BY <1>0, <1>3, <2>1, <2>2 DEF SessionInv, TypeOK
  <2> QED BY <1>2, <1>3, <2>1, <2>3, <2>4, <2>5
    DEF OpenScript, SessionInv, OneOwnerPerNotation, Owners, VisibleOwned, Visible
<1>5. CASE Len(sc) = 2
  <2> DEFINE second == LevelRegistered(first, sc[2])
  <2>1. chain' = <<outer, inner>> /\ registry' = second
    BY <1>5 DEF OpenScript, outer, first
  <2>2. /\ inner \in NodeType /\ inner.kind = "start" /\ Len(inner.facts) \in 1..2
        /\ second \in SUBSET Statement /\ Owners(second) /\ first \subseteq second
        /\ Elements(inner.facts) \subseteq second \cup Axioms
    BY <1>1, <1>3, <1>5, LevelAllocation, NodeFacts
  <2> HIDE DEF inner, second
  <2>3. chain' \in Seq(NodeType) /\ Len(chain') = 2 /\ chain'[1] = outer /\ chain'[2] = inner
    BY <1>3, <2>1, <2>2
  <2>4. Facts(chain') = Elements(outer.facts) \cup Elements(inner.facts)
    <3>1. \A i : i \in 1..2 <=> i = 1 \/ i = 2
      OBVIOUS
    <3>2. \A s : s \in Facts(chain') <=> s \in Elements(outer.facts) \/ s \in Elements(inner.facts)
      BY <2>3, <3>1, FactsMember
    <3> QED BY <3>2
  <2>5. SpineShape'
    <3>1. \A i \in 1..2 : chain'[i].kind = "start" /\ Len(chain'[i].facts) \in 1..2
      BY <1>3, <2>2, <2>3
    <3> QED BY <2>3, <3>1 DEF SpineShape
  <2>6. TypeOK'
    BY <1>0, <2>1, <2>2, <2>3 DEF SessionInv, TypeOK
  <2> QED BY <1>2, <1>3, <2>1, <2>2, <2>4, <2>5, <2>6
    DEF OpenScript, SessionInv, OneOwnerPerNotation, Owners, VisibleOwned, Visible
<1> QED BY <1>1, <1>4, <1>5

LEMMA RefuseScriptInv ==
  ASSUME SessionInv, NEW sc \in Script, RefuseScript(sc)
  PROVE  SessionInv'
<1>1. ran' \in 0..MaxScripts
  BY BoundsAssumption DEF SessionInv, TypeOK, RefuseScript
<1>2. result' \in Seq(Statement)
  BY DEF RefuseScript
<1> QED BY <1>1, <1>2 DEF RefuseScript, SessionInv, TypeOK, OneOwnerPerNotation,
  VisibleOwned, Visible, SpineShape, Proving

LEMMA InferInv ==
  ASSUME SessionInv, NEW m \in Visible, Infer(m)
  PROVE  SessionInv'
<1> DEFINE c == Consequent(m)
           n == Node("infer", <<Allocate(Probed, c)>>)
           reg == Registered(Probed, c)
<1>1. TypeOK /\ SpineShape /\ Proving /\ m \in Statement /\ IsMajor(m)
  <2>1. TypeOK /\ SpineShape /\ m \in Applicable
    BY DEF SessionInv, Infer
  <2>2. Proving
    BY DEF Infer
  <2> QED BY <2>1, <2>2, VisibleType DEF Applicable
<1>2. c \in Statement
  BY <1>1, ArmAssumption
<1>3. Probed \in SUBSET Statement /\ Owners(Probed) /\ registry \subseteq Probed
  BY <1>1, ProbedFacts DEF Infer
<1>4. /\ Allocate(Probed, c) \in Statement
      /\ reg \in SUBSET Statement /\ Owners(reg) /\ registry \subseteq reg
      /\ Allocate(Probed, c) \in reg \cup Axioms
  BY <1>2, <1>3, AllocateType, RegisteredOwners
<1>5. /\ n \in NodeType /\ n.kind = "infer" /\ Len(n.facts) = 1
      /\ Elements(n.facts) = {Allocate(Probed, c)}
  <2>1. <<Allocate(Probed, c)>> \in Seq(Statement) /\ Len(<<Allocate(Probed, c)>>) = 1
    BY <1>4
  <2>2. n \in NodeType /\ n.kind = "infer" /\ n.facts = <<Allocate(Probed, c)>>
    BY <2>1, NodeFacts, ZenonT(40)
  <2> QED BY <2>1, <2>2, SingletonElements, ZenonT(40)
<1> HIDE DEF n
<1>6. chain' = Append(chain, n) /\ registry' = Live(reg, lemmas, chain', script, pinned)
  BY DEF Infer, n
<1>7. chain' \in Seq(NodeType) /\ Facts(chain') = Facts(chain) \cup {Allocate(Probed, c)}
  BY <1>1, <1>5, <1>6, FactsAppend DEF TypeOK
<1>8. UNCHANGED <<lemmas, script, pinned, result, ran>>
  BY DEF Infer
<1>9. /\ Owners(registry') /\ registry' \subseteq reg
      /\ \A s \in Statement : s \in reg /\ s \in Elements(lemmas) \cup Facts(chain') => s \in registry'
  BY <1>4, <1>6, LiveFacts
<1>10. TypeOK'
  BY <1>1, <1>4, <1>7, <1>8, <1>9 DEF TypeOK
<1>11. SpineShape'
  <2>1. PICK d \in 1..Len(chain) : \A i \in 1..Len(chain) : chain[i].kind = "start" <=> i <= d
    BY <1>1 DEF SpineShape
  <2>2. \A i \in 1..Len(chain) : Len(chain[i].facts) \in 1..2
    BY <1>1 DEF SpineShape
  <2>3. chain \in Seq(NodeType) /\ n.kind # "start" /\ Len(n.facts) \in 1..2
    BY <1>1, <1>5 DEF TypeOK
  <2>4. LET e == Append(chain, n)
        IN  /\ \A i \in 1..Len(e) : Len(e[i].facts) \in 1..2
            /\ d \in 1..Len(e)
            /\ \A i \in 1..Len(e) : e[i].kind = "start" <=> i <= d
    BY <1>5, <2>1, <2>2, <2>3, ShapeAppend
  <2> QED BY <1>6, <2>4 DEF SpineShape
<1>12. VisibleOwned'
  <2>1. ASSUME NEW s \in Elements(lemmas) \cup Facts(chain')
        PROVE  s \in registry' \cup Axioms
    <3>1. s \in reg \cup Axioms
      BY <1>4, <1>7 DEF SessionInv, VisibleOwned, Visible
    <3>2. s \in Statement
      BY <1>1, <1>4, <1>7, VisibleType DEF Visible
    <3> QED BY <1>9, <3>1, <3>2
  <2> QED BY <1>8, <2>1 DEF VisibleOwned, Visible
<1> QED BY <1>9, <1>10, <1>11, <1>12 DEF SessionInv, OneOwnerPerNotation, Owners

\* What a discharge that is offered records is a new statement, and no axiom.
LEMMA StagedFacts ==
  ASSUME SessionInv, DischargeOffered, WithinUniverse
  PROVE  /\ Discharged \in Statement /\ Proving
         /\ Staged \in Statement /\ Staged \notin Axioms
         /\ Notation(Staged) = Notation(Discharged)
         /\ Registered(Probed, Discharged) \in SUBSET Statement
         /\ Owners(Registered(Probed, Discharged))
         /\ registry \subseteq Registered(Probed, Discharged)
         /\ Staged \in Registered(Probed, Discharged)
<1>1. Discharged \in Statement /\ Proving /\ ~Seen(Discharged)
  BY DEF DischargeOffered, DischargeListed, WithinUniverse, Dischargeable
<1>2. Probed \in SUBSET Statement /\ Owners(Probed) /\ registry \subseteq Probed
  BY <1>1, ProbedFacts
<1>3. Staged \in Statement /\ Notation(Staged) = Notation(Discharged)
  BY <1>1, <1>2, AllocateType, AllocateFacts DEF Staged
<1>4. Staged \notin Axioms
  BY <1>1, <1>3 DEF Seen, Visible
<1> QED BY <1>1, <1>2, <1>3, <1>4, AllocateType, RegisteredOwners DEF Staged

LEMMA DischargeInnerInv ==
  ASSUME SessionInv, DischargeInner
  PROVE  SessionInv'
<1> DEFINE reg == Registered(Probed, Discharged)
           below == SubSeq(chain, 1, Level - 1)
           n == Node("lemmas", <<Staged>>)
<1>1. /\ TypeOK /\ SpineShape /\ Proving
      /\ Staged \in Statement /\ Staged \notin Axioms
      /\ reg \in SUBSET Statement /\ Owners(reg) /\ registry \subseteq reg
      /\ Staged \in reg
  BY StagedFacts DEF SessionInv, DischargeInner
<1> HIDE DEF reg
<1>2. /\ Level \in 1..Len(chain) /\ Level > 1 /\ Len(chain) \in Nat
      /\ \A i \in 1..Len(chain) : chain[i].kind = "start" <=> i <= Level
      /\ \A i \in 1..Len(chain) : Len(chain[i].facts) \in 1..2
  BY <1>1, SpineLevel DEF DischargeInner
<1>3. /\ n \in NodeType /\ n.kind = "lemmas" /\ Len(n.facts) = 1
      /\ Elements(n.facts) = {Staged}
  <2>1. <<Staged>> \in Seq(Statement) /\ Len(<<Staged>>) = 1
    BY <1>1
  <2> QED BY <2>1, NodeFacts, SingletonElements, ZenonT(40)
<1>4. Recorded(<<>>, Staged) = <<Staged>>
  <2>1. ~ \E i \in DOMAIN <<>> : Notation(<<>>[i]) = Notation(Staged)
    OBVIOUS
  <2>2. Append(<<>>, Staged) = <<Staged>>
    OBVIOUS
  <2> QED BY <1>1, <2>1, <2>2 DEF Recorded
<1>5. /\ chain' = Append(below, n) /\ pinned' = PinnedBranch
      /\ registry' = Live(reg, lemmas, chain', script, pinned')
      /\ UNCHANGED <<lemmas, script, result, ran>>
  BY <1>4 DEF DischargeInner, reg
<1> HIDE DEF n
<1>6. /\ below \in Seq(NodeType) /\ Len(below) = Level - 1
      /\ \A i \in 1..(Level - 1) : below[i] = chain[i]
      /\ Facts(below) \subseteq Facts(chain)
  <2>1. Level - 1 \in 0..Len(chain) /\ chain \in Seq(NodeType)
    BY <1>1, <1>2 DEF TypeOK
  <2> QED BY <2>1, PrefixProperties, FactsPrefix
<1> HIDE DEF below
<1>7. chain' \in Seq(NodeType) /\ Facts(chain') = Facts(below) \cup {Staged}
  BY <1>3, <1>5, <1>6, FactsAppend
<1>8. /\ Owners(registry') /\ registry' \subseteq reg
      /\ \A s \in Statement : s \in reg /\ s \in Elements(lemmas) \cup Facts(chain') => s \in registry'
  BY <1>1, <1>5, LiveFacts
<1>9. pinned' \subseteq Statement
  <2>1. pinned \subseteq Statement /\ Facts(chain) \subseteq Statement
    BY <1>1, FactsType DEF TypeOK
  <2> QED BY <1>1, <1>5, <2>1 DEF PinnedBranch
<1>10. TypeOK'
  BY <1>1, <1>5, <1>7, <1>8, <1>9 DEF TypeOK
<1>11. SpineShape'
  <2> DEFINE e == Append(below, n)
  <2>1. /\ Level - 1 \in 1..Len(below)
        /\ \A i \in 1..Len(below) : Len(below[i].facts) \in 1..2
        /\ \A i \in 1..Len(below) : below[i].kind = "start" <=> i <= Level - 1
    BY <1>2, <1>6
  <2>2. n.kind # "start" /\ Len(n.facts) \in 1..2
    BY <1>3
  <2>3. /\ \A i \in 1..Len(e) : Len(e[i].facts) \in 1..2
        /\ Level - 1 \in 1..Len(e)
        /\ \A i \in 1..Len(e) : e[i].kind = "start" <=> i <= Level - 1
    BY <1>3, <1>6, <2>1, <2>2, ShapeAppend
  <2> HIDE DEF e
  <2> QED BY <1>5, <2>3 DEF SpineShape, e
<1>12. VisibleOwned'
  <2>1. ASSUME NEW s \in Elements(lemmas) \cup Facts(chain')
        PROVE  s \in registry' \cup Axioms
    <3>1. s \in reg \cup Axioms
      BY <1>1, <1>6, <1>7 DEF SessionInv, VisibleOwned, Visible
    <3>2. s \in Statement
      BY <1>1, <1>6, <1>7, VisibleType DEF Visible
    <3> QED BY <1>8, <3>1, <3>2
  <2> QED BY <1>5, <2>1 DEF VisibleOwned, Visible
<1> QED BY <1>8, <1>10, <1>11, <1>12 DEF SessionInv, OneOwnerPerNotation, Owners

LEMMA DischargeOuterInv ==
  ASSUME SessionInv, DischargeOuter
  PROVE  SessionInv'
<1> DEFINE reg == Registered(Probed, Discharged)
<1>1. /\ TypeOK /\ Staged \in Statement
      /\ reg \in SUBSET Statement /\ Owners(reg) /\ registry \subseteq reg
      /\ Staged \in reg
  BY StagedFacts DEF SessionInv, DischargeOuter
<1> HIDE DEF reg
<1>2. /\ lemmas' \in Seq(Statement)
      /\ Elements(lemmas') \subseteq Elements(lemmas) \cup {Staged}
  <2>1. lemmas' = lemmas \/ lemmas' = Append(lemmas, Staged)
    BY DEF DischargeOuter, Recorded
  <2>2. CASE lemmas' = lemmas
    BY <1>1, <2>2 DEF TypeOK
  <2>3. CASE lemmas' = Append(lemmas, Staged)
    <3>1. /\ lemmas' \in Seq(Statement) /\ Len(lemmas') = Len(lemmas) + 1
          /\ \A i \in 1..(Len(lemmas) + 1) :
               lemmas'[i] = IF i <= Len(lemmas) THEN lemmas[i] ELSE Staged
      BY <1>1, <2>3, AppendFacts DEF TypeOK
    <3>2. Len(lemmas) \in Nat /\ DOMAIN lemmas = 1..Len(lemmas) /\ DOMAIN lemmas' = 1..(Len(lemmas) + 1)
      BY <1>1, <3>1, LenProperties DEF TypeOK
    <3> QED BY <3>1, <3>2 DEF Elements
  <2> QED BY <2>1, <2>2, <2>3
<1>3. /\ registry' = Live(reg, lemmas', <<>>, <<>>, {})
      /\ chain' = <<>> /\ script' = <<>> /\ pinned' = {}
      /\ result' = <<Staged>> /\ ran' = ran
  BY DEF DischargeOuter, reg
<1>4. /\ Owners(registry') /\ registry' \subseteq reg
      /\ \A s \in Statement : s \in reg /\ s \in Elements(lemmas') => s \in registry'
  BY <1>1, <1>3, LiveFacts
<1>5. Elements(lemmas') \subseteq registry' \cup Axioms
  <2>1. Elements(lemmas') \subseteq reg \cup Axioms
    BY <1>1, <1>2 DEF SessionInv, VisibleOwned, Visible
  <2>2. Elements(lemmas') \subseteq Statement
    BY <1>2, ElementsType
  <2> QED BY <1>4, <2>1, <2>2
<1>6. result' \in Seq(Statement) /\ ran' \in 0..MaxScripts /\ registry' \in SUBSET Statement
  BY <1>1, <1>3, <1>4 DEF TypeOK
<1>7. Facts(chain') = {} /\ Len(chain') = 0 /\ ~(chain' # <<>>)
  BY <1>3 DEF Facts, Between
<1>8. chain' \in Seq(NodeType) /\ script' \in Seq(Seq(Statement))
  BY <1>3
<1> QED BY <1>2, <1>3, <1>4, <1>5, <1>6, <1>7, <1>8
  DEF SessionInv, TypeOK, OneOwnerPerNotation, Owners, VisibleOwned, Visible, SpineShape, Proving

LEMMA AbandonInv ==
  ASSUME SessionInv, Abandon
  PROVE  SessionInv'
<1>1. TypeOK /\ Owners(registry) /\ Elements(lemmas) \subseteq registry \cup Axioms
  BY DEF SessionInv, OneOwnerPerNotation, Owners, VisibleOwned, Visible
<1>2. /\ registry' = Live(registry, lemmas, <<>>, <<>>, {})
      /\ chain' = <<>> /\ script' = <<>> /\ pinned' = {}
      /\ lemmas' = lemmas /\ result' = result /\ ran' = ran
  BY DEF Abandon
<1>3. /\ Owners(registry') /\ registry' \subseteq registry
      /\ \A s \in Statement : s \in registry /\ s \in Elements(lemmas) => s \in registry'
  BY <1>1, <1>2, LiveFacts
<1>4. Elements(lemmas) \subseteq Statement
  BY <1>1, ElementsType DEF TypeOK
<1>5. Facts(chain') = {} /\ Len(chain') = 0 /\ ~(chain' # <<>>)
  BY <1>2 DEF Facts, Between
<1>6. chain' \in Seq(NodeType) /\ script' \in Seq(Seq(Statement))
  BY <1>2
<1> QED BY <1>1, <1>2, <1>3, <1>4, <1>5, <1>6
  DEF SessionInv, TypeOK, OneOwnerPerNotation, Owners, VisibleOwned, Visible, SpineShape, Proving

LEMMA SessionInvStep == SessionInv /\ [Next]_vars => SessionInv'
<1> SUFFICES ASSUME SessionInv, [Next]_vars PROVE SessionInv'
  OBVIOUS
<1>1. CASE Cancel \/ NothingApplicable
  BY <1>1, AbandonInv DEF Cancel, NothingApplicable
<1>2. CASE UNCHANGED vars
  BY <1>2 DEF vars, SessionInv, TypeOK, OneOwnerPerNotation, VisibleOwned, Visible,
    SpineShape, Proving
<1>3. CASE Finished
  BY <1>2, <1>3 DEF Finished
<1> QED BY <1>1, <1>2, <1>3, OpenScriptInv, RefuseScriptInv, InferInv,
  DischargeInnerInv, DischargeOuterInv DEF Next

LEMMA SessionInvInit == Init => SessionInv
<1> SUFFICES ASSUME Init PROVE SessionInv
  OBVIOUS
<1>1. Facts(chain) = {} /\ Elements(lemmas) = {} /\ Len(chain) = 0 /\ ~Proving
  BY DEF Init, Facts, Between, Elements, Proving
<1>2. /\ lemmas \in Seq(Statement) /\ chain \in Seq(NodeType)
      /\ script \in Seq(Seq(Statement)) /\ result \in Seq(Statement)
      /\ ran \in 0..MaxScripts
  BY BoundsAssumption DEF Init
<1>3. OneOwnerPerNotation
  BY AxiomsAssumption DEF Init, OneOwnerPerNotation
<1> QED BY <1>1, <1>2, <1>3
  DEF Init, SessionInv, TypeOK, VisibleOwned, Visible, SpineShape

LEMMA SessionInvHolds == Spec => []SessionInv
BY SessionInvInit, SessionInvStep, PTL DEF Spec

\* The session's state is made of statements, whatever the scripts, the axioms and
\* the answers.
THEOREM TypeCorrect == Spec => []TypeOK
<1>1. SessionInv => TypeOK
  BY DEF SessionInv
<1> QED BY <1>1, SessionInvHolds, PTL

\* The registry stays a bijection between the live statements and their
\* notations: allocation after allocation, and whatever the pruning removed.
THEOREM RegistryIsABijection == Spec => []OneOwnerPerNotation
<1>1. SessionInv => OneOwnerPerNotation
  BY DEF SessionInv
<1> QED BY <1>1, SessionInvHolds, PTL

\* A visible statement never loses its entry in the registry.
THEOREM ReadsBack == Spec => []VisibleReadsBack
<1>1. SessionInv => VisibleReadsBack
  BY OwnerReadsBack DEF SessionInv, OneOwnerPerNotation, Owners, VisibleOwned, VisibleReadsBack
<1> QED BY <1>1, SessionInvHolds, PTL

\* A discharge finds a conclusion to discharge, and a node to record it over.
THEOREM DestinationExists == Spec => []DischargeHasDestination
<1>1. SessionInv => DischargeHasDestination
  <2> SUFFICES ASSUME SessionInv, Dischargeable
               PROVE  /\ Len(Top(chain).facts) > 0
                      /\ Level > 1 => chain[Level - 1].kind \in {"start", "lemmas"}
    BY DEF DischargeHasDestination
  <2>1. TypeOK /\ SpineShape /\ Proving
    BY DEF SessionInv, Dischargeable
  <2>2. /\ Len(chain) \in Nat /\ Level \in 1..Len(chain)
        /\ \A i \in 1..Len(chain) : chain[i].kind = "start" <=> i <= Level
        /\ \A i \in 1..Len(chain) : Len(chain[i].facts) \in 1..2
    BY <2>1, SpineLevel
  <2>3. Len(Top(chain).facts) > 0
    BY <2>2 DEF Top
  <2>4. Level > 1 => chain[Level - 1].kind = "start"
    BY <2>2
  <2> QED BY <2>3, <2>4
<1> QED BY <1>1, SessionInvHolds, PTL

-----------------------------------------------------------------------------
(* Nothing is derived twice.                                               *)

LEMMA BetweenMember ==
  ASSUME NEW c, NEW i, NEW j, NEW s
  PROVE  s \in Between(c, i, j) <=> \E k \in i..j : s \in Elements(c[k].facts)
BY DEF Between

\* A tip that says something new, over a spine that does.
LEMMA NothingTwiceAppend ==
  ASSUME NEW c \in Seq(NodeType), NEW known, NEW n \in NodeType,
         \A i \in 1..Len(c) : c[i].kind # "start" =>
            \A s \in Elements(c[i].facts) : \A w \in Between(c, 1, i - 1) \cup known :
               Notation(w) # Notation(s),
         \A s \in Elements(n.facts) : \A w \in Facts(c) \cup known : Notation(w) # Notation(s)
  PROVE  LET e == Append(c, n)
         IN  \A i \in 1..Len(e) : e[i].kind # "start" =>
               \A s \in Elements(e[i].facts) : \A w \in Between(e, 1, i - 1) \cup known :
                  Notation(w) # Notation(s)
<1> DEFINE e == Append(c, n)
<1>1. /\ Len(c) \in Nat /\ Len(e) = Len(c) + 1
      /\ \A i \in 1..(Len(c) + 1) : e[i] = IF i <= Len(c) THEN c[i] ELSE n
  BY AppendFacts, LenProperties
<1> HIDE DEF e
<1> SUFFICES ASSUME NEW i \in 1..Len(e), e[i].kind # "start",
                    NEW s \in Elements(e[i].facts), NEW w \in Between(e, 1, i - 1) \cup known
             PROVE  Notation(w) # Notation(s)
  BY DEF e
<1>2. i - 1 <= Len(c) /\ i \in Nat /\ \A k \in 1..(i - 1) : k \in 1..Len(c) /\ e[k] = c[k]
  BY <1>1
<1>3. w \in Between(e, 1, i - 1) => w \in Between(c, 1, i - 1)
  BY <1>2, BetweenMember
<1>4. CASE i <= Len(c)
  <2>1. i \in 1..Len(c) /\ e[i] = c[i]
    BY <1>1, <1>2, <1>4
  <2> QED BY <1>3, <2>1
<1>5. CASE ~(i <= Len(c))
  <2>1. e[i] = n /\ i - 1 = Len(c)
    BY <1>1, <1>2, <1>5
  <2>2. w \in Facts(c) \cup known
    BY <1>3, <2>1 DEF Facts
  <2> QED BY <2>1, <2>2
<1> QED BY <1>4, <1>5

LEMMA NothingTwiceStep ==
  ASSUME SessionInv, NothingDerivedTwice, [Next]_vars
  PROVE  NothingDerivedTwice'
<1> DEFINE known == Elements(lemmas) \cup Axioms
<1>1. /\ TypeOK /\ SpineShape /\ chain \in Seq(NodeType) /\ Len(chain) \in Nat
      /\ DOMAIN chain = 1..Len(chain)
      /\ lemmas \in Seq(Statement) /\ Len(lemmas) \in Nat /\ DOMAIN lemmas = 1..Len(lemmas)
  BY LenProperties DEF SessionInv, TypeOK
<1>2. /\ \A i \in 1..Len(chain) : chain[i].kind # "start" =>
           \A s \in Elements(chain[i].facts) : \A w \in Between(chain, 1, i - 1) \cup known :
              Notation(w) # Notation(s)
      /\ \A i, j \in DOMAIN lemmas : i # j => Notation(lemmas[i]) # Notation(lemmas[j])
  BY <1>1 DEF NothingDerivedTwice
<1>3. \A s : ~Seen(s) => \A w \in Facts(chain) \cup known : Notation(w) # Notation(s)
  BY DEF Seen, Visible
<1>4. ASSUME NEW sc \in Script, OpenScript(sc) PROVE NothingDerivedTwice'
  <2>1. \A i \in DOMAIN chain' : chain'[i].kind = "start"
    BY <1>4 DEF OpenScript, Node
  <2> QED BY <1>2, <1>4, <2>1 DEF OpenScript, NothingDerivedTwice
<1>5. ASSUME NEW m \in Visible, Infer(m) PROVE NothingDerivedTwice'
  <2> DEFINE n == Node("infer", <<Allocate(Probed, Consequent(m))>>)
  <2>1. Proving /\ ~Seen(Consequent(m)) /\ Consequent(m) \in Statement
    BY <1>1, <1>5, VisibleType, ArmAssumption DEF Infer, Applicable
  <2>2. Allocate(Probed, Consequent(m)) \in Statement
          /\ Notation(Allocate(Probed, Consequent(m))) = Notation(Consequent(m))
    BY <1>5, <2>1, ProbedFacts, AllocateType, AllocateFacts DEF Infer
  <2>3. n \in NodeType /\ Elements(n.facts) = {Allocate(Probed, Consequent(m))}
    <3>1. <<Allocate(Probed, Consequent(m))>> \in Seq(Statement)
      BY <2>2
    <3> QED BY <3>1, NodeFacts, SingletonElements, ZenonT(40)
  <2>4. chain' = Append(chain, n) /\ lemmas' = lemmas
    BY <1>5 DEF Infer
  <2> HIDE DEF n, known
  <2>5. \A s \in Elements(n.facts) : \A w \in Facts(chain) \cup known : Notation(w) # Notation(s)
    BY <1>3, <2>1, <2>2, <2>3
  <2>6. LET e == Append(chain, n)
        IN  \A i \in 1..Len(e) : e[i].kind # "start" =>
              \A s \in Elements(e[i].facts) : \A w \in Between(e, 1, i - 1) \cup known :
                 Notation(w) # Notation(s)
    BY <1>1, <1>2, <2>3, <2>5, NothingTwiceAppend
  <2>7. DOMAIN chain' = 1..Len(chain')
    BY <1>1, <2>3, <2>4, AppendFacts, LenProperties
  <2> QED BY <1>2, <2>4, <2>6, <2>7 DEF NothingDerivedTwice, known
<1>6. CASE DischargeInner
  <2> DEFINE below == SubSeq(chain, 1, Level - 1)
             n == Node("lemmas", <<Staged>>)
  <2>1. /\ Staged \in Statement /\ Staged \notin Axioms /\ Proving
        /\ Notation(Staged) = Notation(Discharged)
    BY <1>6, StagedFacts DEF DischargeInner
  <2>2. ~Seen(Discharged)
    BY <1>6 DEF DischargeInner, DischargeOffered, DischargeListed
  <2>3. n \in NodeType /\ Elements(n.facts) = {Staged}
    <3>1. <<Staged>> \in Seq(Statement)
      BY <2>1
    <3> QED BY <3>1, NodeFacts, SingletonElements, ZenonT(40)
  <2>4. chain' = Append(below, n) /\ lemmas' = lemmas
    <3>1. Recorded(<<>>, Staged) = <<Staged>>
      <4>1. ~ \E i \in DOMAIN <<>> : Notation(<<>>[i]) = Notation(Staged)
        OBVIOUS
      <4>2. Append(<<>>, Staged) = <<Staged>>
        OBVIOUS
      <4> QED BY <2>1, <4>1, <4>2 DEF Recorded
    <3> QED BY <1>6, <3>1 DEF DischargeInner
  <2>5. /\ below \in Seq(NodeType) /\ Facts(below) \subseteq Facts(chain)
        /\ \A i \in 1..Len(below) : below[i].kind = "start"
    <3>1. /\ Level \in 1..Len(chain)
          /\ \A i \in 1..Len(chain) : chain[i].kind = "start" <=> i <= Level
      BY <1>1, <2>1, SpineLevel
    <3>2. Level - 1 \in 0..Len(chain) /\ \A i \in 1..(Level - 1) : i \in 1..Len(chain) /\ i <= Level
      BY <1>1, <3>1
    <3> QED BY <1>1, <3>1, <3>2, PrefixProperties, FactsPrefix
  <2> HIDE DEF below, n, known
  <2>6. \A s \in Elements(n.facts) : \A w \in Facts(below) \cup known : Notation(w) # Notation(s)
    BY <1>3, <2>1, <2>2, <2>3, <2>5
  <2>7. LET e == Append(below, n)
        IN  \A i \in 1..Len(e) : e[i].kind # "start" =>
              \A s \in Elements(e[i].facts) : \A w \in Between(e, 1, i - 1) \cup known :
                 Notation(w) # Notation(s)
    BY <2>3, <2>5, <2>6, NothingTwiceAppend
  <2>8. DOMAIN chain' = 1..Len(chain')
    BY <2>3, <2>4, <2>5, AppendFacts, LenProperties
  <2> QED BY <1>2, <2>4, <2>7, <2>8 DEF NothingDerivedTwice, known
<1>7. CASE DischargeOuter
  <2>1. /\ Staged \in Statement /\ Notation(Staged) = Notation(Discharged)
    BY <1>7, StagedFacts DEF DischargeOuter
  <2>2. ~Seen(Discharged)
    BY <1>7 DEF DischargeOuter, DischargeOffered, DischargeListed
  <2>3. \A i \in DOMAIN lemmas : Notation(lemmas[i]) # Notation(Staged)
    BY <1>3, <2>1, <2>2 DEF Elements
  <2>4. lemmas' = lemmas \/ lemmas' = Append(lemmas, Staged)
    BY <1>7 DEF DischargeOuter, Recorded
  <2>5. \A i, j \in DOMAIN lemmas' : i # j => Notation(lemmas'[i]) # Notation(lemmas'[j])
    <3>1. CASE lemmas' = lemmas
      BY <1>2, <3>1
    <3>2. CASE lemmas' = Append(lemmas, Staged)
      <4>1. /\ lemmas' \in Seq(Statement) /\ Len(lemmas') = Len(lemmas) + 1
            /\ \A i \in 1..(Len(lemmas) + 1) :
                 lemmas'[i] = IF i <= Len(lemmas) THEN lemmas[i] ELSE Staged
        BY <1>1, <2>1, <3>2, AppendFacts
      <4>2. DOMAIN lemmas' = 1..(Len(lemmas) + 1)
        BY <4>1, LenProperties
      <4>3. ASSUME NEW i \in DOMAIN lemmas', NEW j \in DOMAIN lemmas', i # j
            PROVE  Notation(lemmas'[i]) # Notation(lemmas'[j])
        <5>1. CASE i \in 1..Len(lemmas) /\ j \in 1..Len(lemmas)
          <6>1. lemmas'[i] = lemmas[i] /\ lemmas'[j] = lemmas[j]
            BY <1>1, <4>1, <5>1
          <6> QED BY <1>1, <1>2, <4>3, <5>1, <6>1
        <5>2. CASE i \in 1..Len(lemmas) /\ j = Len(lemmas) + 1
          BY <1>1, <2>3, <4>1, <4>2, <5>2
        <5>3. CASE j \in 1..Len(lemmas) /\ i = Len(lemmas) + 1
          BY <1>1, <2>3, <4>1, <4>2, <5>3
        <5>4. \A k \in 1..(Len(lemmas) + 1) : k \in 1..Len(lemmas) \/ k = Len(lemmas) + 1
          BY <1>1
        <5> QED BY <4>2, <4>3, <5>1, <5>2, <5>3, <5>4
      <4> QED BY <4>3
    <3> QED BY <2>4, <3>1, <3>2
  <2>6. DOMAIN chain' = {}
    BY <1>7 DEF DischargeOuter
  <2> QED BY <2>5, <2>6 DEF NothingDerivedTwice
<1>8. CASE Abandon
  <2>1. DOMAIN chain' = {} /\ lemmas' = lemmas
    BY <1>8 DEF Abandon
  <2> QED BY <1>2, <2>1 DEF NothingDerivedTwice
<1>9. ASSUME UNCHANGED <<chain, lemmas>> PROVE NothingDerivedTwice'
  BY <1>9 DEF NothingDerivedTwice, Between, Elements
<1> QED BY <1>4, <1>5, <1>6, <1>7, <1>8, <1>9
  DEF Next, vars, RefuseScript, Cancel, NothingApplicable, Finished

\* Every inference and every discharge says what was not said below it, so that
\* no theorem is recorded twice.
THEOREM DerivesOnlyTheNew == Spec => []NothingDerivedTwice
<1>1. Init => NothingDerivedTwice
  <2>1. ASSUME Init PROVE DOMAIN chain = {} /\ DOMAIN lemmas = {}
    BY <2>1 DEF Init
  <2> QED BY <2>1 DEF NothingDerivedTwice
<1>2. SessionInv /\ NothingDerivedTwice /\ [Next]_vars => NothingDerivedTwice'
  BY NothingTwiceStep
<1> QED BY <1>1, <1>2, SessionInvHolds, PTL DEF Spec

-----------------------------------------------------------------------------
(* A session is natural deduction.                                         *)

NDP == INSTANCE NaturalDeduction_proofs WITH
         theorems <- {Meaning(s) : s \in Elements(lemmas)},
         levels   <- OpenLevels,
         Premises <- {Meaning(a) : a \in Axioms},
         Problem  <- Problems

-----------------------------------------------------------------------------
(* Meanings.                                                               *)

LEMMA FunctionAsSequence ==
  ASSUME NEW n \in Nat, NEW f, f = [i \in 1..n |-> f[i]]
  PROVE  f \in Seq({f[i] : i \in 1..n}) /\ Len(f) = n
<1> DEFINE S == {f[i] : i \in 1..n}
<1>1. f \in [1..n -> S]
  OBVIOUS
<1>2. f \in Seq(S)
  BY <1>1, SeqDef
<1>3. Len(f) \in Nat /\ DOMAIN f = 1..Len(f) /\ DOMAIN f = 1..n
  BY <1>1, <1>2, LenProperties
<1> QED BY <1>2, <1>3

LEMMA MeaningsFacts ==
  ASSUME NEW q \in Seq(Statement)
  PROVE  /\ Len(Meanings(q)) = Len(q) /\ Len(q) \in Nat
         /\ \A i \in 1..Len(q) : Meanings(q)[i] = Meaning(q[i]) /\ Meaning(q[i]) \in Formula
         /\ Meanings(q) \in Seq(Formula)
<1>1. Len(q) \in Nat /\ \A i \in 1..Len(q) : q[i] \in Statement
  BY LenProperties, ElementOfSeq
<1>2. Meanings(q) = [i \in 1..Len(q) |-> Meanings(q)[i]]
  BY DEF Meanings
<1>3. \A i \in 1..Len(q) : Meanings(q)[i] = Meaning(q[i]) /\ Meaning(q[i]) \in Formula
  BY <1>1, MeaningAssumption DEF Meanings
<1>4. Len(Meanings(q)) = Len(q)
  BY <1>1, <1>2, FunctionAsSequence
<1>5. Meanings(q) \in [1..Len(q) -> Formula]
  BY <1>3 DEF Meanings
<1> QED BY <1>1, <1>3, <1>4, <1>5, SeqDef

\* Modus ponens cuts out statements that mean what the major's arms mean.
LEMMA ArmMeaning ==
  ASSUME NEW m \in Statement, IsMajor(m)
  PROVE  /\ Minor(m) \in Statement /\ Consequent(m) \in Statement
         /\ Meaning(m) = Entails(Meaning(Minor(m)), Meaning(Consequent(m)))
<1>1. Minor(m) \in Statement /\ Consequent(m) \in Statement
  BY ArmAssumption
<1>2. m.kind \in {"parsed", "minted"} /\ m.hyp \in Statement /\ m.con \in Statement
  BY StatementAssumption DEF IsMajor
<1>3. ASSUME NEW s \in Statement, Arm(m, s) \in Statement PROVE Meaning(Arm(m, s)) = Meaning(s)
  <2>1. CASE m.kind = "parsed" /\ s.kind = "parsed"
    <3>1. Arm(m, s) = Opaque(s.hyp, s.con)
      BY <2>1 DEF Arm
    <3>2. Meaning(Opaque(s.hyp, s.con)) = Entails(Meaning(s.hyp), Meaning(s.con))
      BY <1>3, <3>1, MeaningAssumption DEF Opaque
    <3> QED BY <2>1, <3>1, <3>2, MeaningAssumption
  <2>2. CASE ~(m.kind = "parsed" /\ s.kind = "parsed")
    BY <2>2 DEF Arm
  <2> QED BY <2>1, <2>2
<1>4. Meaning(Minor(m)) = Meaning(m.hyp) /\ Meaning(Consequent(m)) = Meaning(m.con)
  BY <1>1, <1>2, <1>3 DEF Minor, Consequent
<1> QED BY <1>1, <1>2, <1>4, MeaningAssumption

\* Closing a level means what an implication from the level does.
LEMMA ClosedMeaning ==
  ASSUME NEW hs \in Seq(Statement), Len(hs) \in 1..2, NEW c \in Statement,
         Closed(hs, c) \in Statement
  PROVE  Meaning(Closed(hs, c)) = Implication(Meanings(hs), Meaning(c))
<1>1. CASE Len(hs) = 1
  <2>1. Closed(hs, c) = Minted(hs[1], c)
    BY <1>1 DEF Closed
  <2>2. Meaning(Minted(hs[1], c)) = Entails(Meaning(hs[1]), Meaning(c))
    BY <2>1, MeaningAssumption DEF Minted
  <2>3. Implication(Meanings(hs), Meaning(c)) = Entails(Meaning(hs[1]), Meaning(c))
    BY <1>1, MeaningsFacts DEF Implication
  <2> QED BY <2>1, <2>2, <2>3
<1>2. CASE Len(hs) = 2
  <2>1. Closed(hs, c) = Rule(hs[1], hs[2], c)
    BY <1>2 DEF Closed
  <2>2. Meaning(Rule(hs[1], hs[2], c)) = Entails2(Meaning(hs[1]), Meaning(hs[2]), Meaning(c))
    BY <2>1, MeaningAssumption DEF Rule
  <2>3. Implication(Meanings(hs), Meaning(c))
          = Entails2(Meaning(hs[1]), Meaning(hs[2]), Meaning(c))
    BY <1>2, MeaningsFacts DEF Implication
  <2> QED BY <2>1, <2>2, <2>3
<1> QED BY <1>1, <1>2

\* Deduplication does not change what a statement means.
LEMMA AllocateMeaning ==
  ASSUME NotationsUnambiguous, NEW reg \in SUBSET Compared, NEW s \in Compared
  PROVE  /\ Meaning(Allocate(reg, s)) = Meaning(s)
         /\ Registered(reg, s) \in SUBSET Compared
<1>1. Axioms \subseteq Compared
  BY DEF Compared, Visible
<1> QED BY <1>1, AllocateFacts DEF NotationsUnambiguous, Registered

LEMMA LevelMeaning ==
  ASSUME NotationsUnambiguous, NEW reg \in SUBSET Compared, reg \in SUBSET Statement,
         Owners(reg), NEW ss \in Seq(Statement), Len(ss) \in 1..2, Elements(ss) \subseteq Compared
  PROVE  /\ Meanings(LevelFacts(reg, ss)) = Meanings(ss)
         /\ LevelRegistered(reg, ss) \in SUBSET Compared
<1>1. LevelFacts(reg, ss) \in Seq(Statement)
  BY LevelAllocation
<1>2. DOMAIN ss = 1..Len(ss)
  BY LenProperties
<1>3. CASE Len(ss) = 1
  <2>1. ss[1] \in Compared
    BY <1>2, <1>3 DEF Elements
  <2>2. LevelFacts(reg, ss) = <<Allocate(reg, ss[1])>> /\ LevelRegistered(reg, ss) = Registered(reg, ss[1])
    BY <1>3 DEF LevelFacts, LevelRegistered
  <2>3. Len(LevelFacts(reg, ss)) = Len(ss)
          /\ \A i \in 1..Len(ss) : Meaning(LevelFacts(reg, ss)[i]) = Meaning(ss[i])
    BY <1>3, <2>1, <2>2, AllocateMeaning
  <2> QED BY <2>1, <2>2, <2>3, AllocateMeaning DEF Meanings
<1>4. CASE Len(ss) = 2
  <2> DEFINE r1 == Registered(reg, ss[1])
             a1 == Allocate(reg, ss[1])
             a2 == Allocate(r1, ss[2])
  <2>1. ss[1] \in Compared /\ ss[2] \in Compared
    BY <1>2, <1>4 DEF Elements
  <2>2. LevelFacts(reg, ss) = <<a1, a2>> /\ LevelRegistered(reg, ss) = Registered(r1, ss[2])
    BY <1>4 DEF LevelFacts, LevelRegistered
  <2>3. Meaning(a1) = Meaning(ss[1]) /\ r1 \in SUBSET Compared
    BY <2>1, AllocateMeaning
  <2> HIDE DEF a1, r1
  <2>4. Meaning(a2) = Meaning(ss[2]) /\ Registered(r1, ss[2]) \in SUBSET Compared
    BY <2>1, <2>3, AllocateMeaning
  <2> HIDE DEF a2
  <2>5. Len(LevelFacts(reg, ss)) = Len(ss)
          /\ \A i \in 1..Len(ss) : Meaning(LevelFacts(reg, ss)[i]) = Meaning(ss[i])
    BY <1>4, <2>2, <2>3, <2>4
  <2> QED BY <2>2, <2>4, <2>5 DEF Meanings
<1> QED BY <1>3, <1>4

-----------------------------------------------------------------------------
(* The open levels of a spine.                                             *)

\* The innermost level of a spine whose first d nodes are its start nodes.
LEMMA Innermost ==
  ASSUME NEW c \in Seq(NodeType), NEW d \in 1..Len(c),
         \A i \in 1..Len(c) : c[i].kind = "start" <=> i <= d
  PROVE  LET starts == {i \in DOMAIN c : c[i].kind = "start"}
         IN  (CHOOSE i \in starts : \A j \in starts : j <= i) = d
<1> DEFINE starts == {i \in DOMAIN c : c[i].kind = "start"}
<1>1. Len(c) \in Nat /\ DOMAIN c = 1..Len(c)
  BY LenProperties
<1>2. starts = 1..d
  BY <1>1
<1> HIDE DEF starts
<1>3. d \in starts /\ \A j \in starts : j <= d
  BY <1>1, <1>2
<1>4. \A i \in starts : (\A j \in starts : j <= i) => i = d
  BY <1>1, <1>2
<1>5. (CHOOSE i \in starts : \A j \in starts : j <= i) = d
  BY <1>3, <1>4
<1> QED BY <1>5 DEF starts

LEMMA LevelsOfFacts ==
  ASSUME NEW c, NEW l \in Nat
  PROVE  /\ Len(LevelsOf(c, l)) = l /\ (\E S : LevelsOf(c, l) \in Seq(S))
         /\ DOMAIN LevelsOf(c, l) = 1..l
         /\ \A k \in 1..l :
              LevelsOf(c, l)[k] =
                [assumed |-> Meanings(c[k].facts),
                 derived |-> IF k = l THEN {Meaning(s) : s \in Between(c, l + 1, Len(c))} ELSE {}]
<1>1. LevelsOf(c, l) = [k \in 1..l |-> LevelsOf(c, l)[k]]
  BY DEF LevelsOf
<1>2. \A k \in 1..l :
        LevelsOf(c, l)[k] =
          [assumed |-> Meanings(c[k].facts),
           derived |-> IF k = l THEN {Meaning(s) : s \in Between(c, l + 1, Len(c))} ELSE {}]
  BY DEF LevelsOf
<1>3. DOMAIN LevelsOf(c, l) = 1..l
  BY DEF LevelsOf
<1> HIDE DEF LevelsOf
<1> QED BY <1>1, <1>2, <1>3, FunctionAsSequence

\* What is visible is known to the natural deduction.
LEMMA VisibleKnown ==
  ASSUME SessionInv, NEW s \in Visible
  PROVE  Meaning(s) \in NDP!Known
<1>1. TypeOK /\ SpineShape /\ chain \in Seq(NodeType)
  BY DEF SessionInv, TypeOK
<1>2. CASE s \in Axioms \cup Elements(lemmas)
  BY <1>2 DEF NDP!Known
<1>3. CASE s \in Facts(chain)
  <2>1. PICK i \in 1..Len(chain) : s \in Elements(chain[i].facts)
    BY <1>1, <1>3, FactsMember
  <2>2. Proving
    BY <1>1, <2>1, NonEmpty DEF Proving
  <2>3. /\ Len(chain) \in Nat /\ Level \in 1..Len(chain)
        /\ chain[i].facts \in Seq(Statement)
    BY <1>1, <2>2, SpineLevel
  <2>4. Level \in Nat
    BY <2>3
  <2>5. /\ Len(OpenLevels) = Level
        /\ \A k \in 1..Level :
             OpenLevels[k] =
               [assumed |-> Meanings(chain[k].facts),
                derived |-> IF k = Level
                            THEN {Meaning(x) : x \in Between(chain, Level + 1, Len(chain))} ELSE {}]
    BY <2>2, <2>4, LevelsOfFacts DEF OpenLevels
  <2>6. CASE i <= Level
    <3>1. i \in 1..Level
      BY <2>3, <2>6
    <3>2. Meaning(s) \in NDP!Elements(Meanings(chain[i].facts))
      <4>1. PICK k \in DOMAIN chain[i].facts : s = chain[i].facts[k]
        BY <2>1 DEF Elements
      <4>2. k \in 1..Len(chain[i].facts)
        BY <2>3, LenProperties
      <4> QED BY <2>3, <4>1, <4>2, MeaningsFacts DEF NDP!Elements
    <3> QED BY <2>5, <3>1, <3>2 DEF NDP!Known
  <2>7. CASE ~(i <= Level)
    <3>1. i \in (Level + 1)..Len(chain) /\ Level \in 1..Level
      BY <2>3, <2>7
    <3>2. s \in Between(chain, Level + 1, Len(chain))
      BY <2>1, <3>1, BetweenMember
    <3> QED BY <2>5, <3>1, <3>2 DEF NDP!Known
  <2> QED BY <2>6, <2>7
<1> QED BY <1>2, <1>3 DEF Visible

-----------------------------------------------------------------------------
(* Each step is one of the natural deduction.                              *)

LEMMA OpenScriptAssumes ==
  ASSUME SessionInv, NotationsUnambiguous, NEW sc \in Script, OpenScript(sc)
  PROVE  \E p \in Problems : NDP!Assume(p)
<1> DEFINE p == [i \in 1..Len(sc) |-> Meanings(sc[i])]
           n == Len(sc)
           first == LevelRegistered(registry, sc[1])
<1>1. /\ sc \in Seq(Seq(Statement)) /\ n \in 1..2 /\ Supported(sc) /\ ~Proving
      /\ DOMAIN sc = 1..n
      /\ \A i \in 1..n : sc[i] \in Seq(Statement) /\ Len(sc[i]) \in 1..2
  <2>1. sc \in Seq(Seq(Statement)) /\ n \in 1..2 /\ Supported(sc) /\ ~Proving
    BY ScriptAssumption DEF OpenScript
  <2>2. DOMAIN sc = 1..n
    BY <2>1, LenProperties
  <2>3. \A i \in 1..n : sc[i] \in Seq(Statement)
    BY <2>1, ElementOfSeq
  <2> QED BY <2>1, <2>2, <2>3 DEF Supported
<1>2. p \in Problems
  BY <1>1 DEF Problems
<1>3. /\ registry \in SUBSET Compared /\ registry \in SUBSET Statement /\ Owners(registry)
      /\ \A i \in 1..n : Elements(sc[i]) \subseteq Compared
  <2>1. Texts \subseteq Compared
    BY <1>1 DEF Compared
  <2>2. \A i \in 1..n : Elements(sc[i]) \subseteq Texts
    BY <1>1 DEF Texts
  <2> QED BY <2>1, <2>2 DEF Compared, SessionInv, TypeOK, OneOwnerPerNotation, Owners
<1>4. /\ Len(chain') = n /\ chain' \in Seq(NodeType)
      /\ \A i \in 1..n : chain'[i].kind = "start" /\ Meanings(chain'[i].facts) = Meanings(sc[i])
  <2> DEFINE outer == Node("start", LevelFacts(registry, sc[1]))
             inner == Node("start", LevelFacts(first, sc[2]))
  <2>1. /\ Meanings(LevelFacts(registry, sc[1])) = Meanings(sc[1])
        /\ first \in SUBSET Compared /\ first \in SUBSET Statement /\ Owners(first)
    BY <1>1, <1>3, LevelMeaning, LevelAllocation
  <2>2. /\ outer \in NodeType /\ outer.kind = "start"
        /\ Meanings(outer.facts) = Meanings(sc[1])
    BY <1>1, <1>3, <2>1, LevelAllocation, NodeFacts
  <2>3. n = 1 => chain' = <<outer>>
    BY DEF OpenScript
  <2>4. n = 2 => chain' = <<outer, inner>>
    BY DEF OpenScript
  <2> HIDE DEF outer, first
  <2>5. CASE n = 1
    <3>1. chain' = <<outer>>
      BY <2>3, <2>5
    <3>2. Len(chain') = 1 /\ chain' \in Seq(NodeType) /\ chain'[1] = outer
      BY <2>2, <3>1
    <3>3. \A i \in 1..1 : i = 1
      OBVIOUS
    <3> QED BY <2>2, <2>5, <3>2, <3>3
  <2>6. CASE n = 2
    <3>1. /\ inner \in NodeType /\ inner.kind = "start"
          /\ Meanings(inner.facts) = Meanings(sc[2])
      BY <1>1, <1>3, <2>1, <2>6, LevelMeaning, LevelAllocation, NodeFacts
    <3> HIDE DEF inner
    <3>0. chain' = <<outer, inner>>
      BY <2>4, <2>6
    <3>2. Len(chain') = 2 /\ chain' \in Seq(NodeType) /\ chain'[1] = outer /\ chain'[2] = inner
      BY <2>2, <3>0, <3>1
    <3>3. \A i \in 1..2 : i = 1 \/ i = 2
      OBVIOUS
    <3> QED BY <2>2, <2>6, <3>1, <3>2, <3>3
  <2> QED BY <1>1, <2>5, <2>6
<1>5. Proving' /\ Level' = n
  <2>1. n \in 1..Len(chain') /\ \A i \in 1..Len(chain') : chain'[i].kind = "start" <=> i <= n
    BY <1>1, <1>4
  <2>2. Level' = n
    BY <1>4, <2>1, Innermost DEF Level, Starts
  <2>3. chain' # <<>>
    BY <1>1, <1>4, NonEmpty
  <2> QED BY <2>2, <2>3 DEF Proving
<1>6. OpenLevels' = [i \in 1..n |-> [assumed |-> p[i], derived |-> {}]]
  <2>1. OpenLevels' = LevelsOf(chain', n)
    BY <1>5 DEF OpenLevels
  <2>2. Between(chain', n + 1, Len(chain')) = {}
    BY <1>1, <1>4 DEF Between
  <2>3. \A k \in 1..n :
          [assumed |-> Meanings(chain'[k].facts),
           derived |-> IF k = n THEN {Meaning(s) : s \in Between(chain', n + 1, Len(chain'))} ELSE {}]
          = [assumed |-> p[k], derived |-> {}]
    BY <1>4, <2>2
  <2> QED BY <2>1, <2>3 DEF LevelsOf
<1>7. Len(p) = n
  BY <1>1, FunctionAsSequence
<1>8. OpenLevels = <<>> /\ lemmas' = lemmas
  BY <1>1 DEF OpenLevels, OpenScript
<1> HIDE DEF p, n
<1>9. NDP!Assume(p)
  BY <1>6, <1>7, <1>8 DEF NDP!Assume, Elements
<1> QED BY <1>2, <1>9

\* A tip with one more statement derives what that means at the innermost level.
LEMMA LevelsAppend ==
  ASSUME NEW c \in Seq(NodeType), NEW n \in NodeType, NEW s, Elements(n.facts) = {s},
         NEW l \in 1..Len(c)
  PROVE  LevelsOf(Append(c, n), l) = NDP!Derive(LevelsOf(c, l), Meaning(s))
<1> DEFINE e == Append(c, n)
           old == LevelsOf(c, l)
           new == LevelsOf(e, l)
<1>1. /\ Len(c) \in Nat /\ l \in Nat /\ l <= Len(c) /\ l \in 1..l
      /\ Len(e) = Len(c) + 1
      /\ \A i \in 1..(Len(c) + 1) : e[i] = IF i <= Len(c) THEN c[i] ELSE n
  BY LenProperties, AppendFacts
<1> HIDE DEF e
<1>2. Between(e, l + 1, Len(e)) = Between(c, l + 1, Len(c)) \cup {s}
  <2>1. ASSUME NEW x, x \in Between(e, l + 1, Len(e))
        PROVE  x \in Between(c, l + 1, Len(c)) \cup {s}
    <3>1. PICK k \in (l + 1)..(Len(c) + 1) : x \in Elements(e[k].facts)
      BY <1>1, <2>1, BetweenMember
    <3>2. CASE k <= Len(c)
      <4>1. k \in (l + 1)..Len(c) /\ e[k] = c[k]
        BY <1>1, <3>2
      <4> QED BY <3>1, <4>1, BetweenMember
    <3>3. CASE ~(k <= Len(c))
      BY <1>1, <3>1, <3>3
    <3> QED BY <3>2, <3>3
  <2>2. ASSUME NEW x, x \in Between(c, l + 1, Len(c))
        PROVE  x \in Between(e, l + 1, Len(e))
    <3>1. PICK k \in (l + 1)..Len(c) : x \in Elements(c[k].facts)
      BY <2>2, BetweenMember
    <3>2. k \in (l + 1)..Len(e) /\ e[k] = c[k]
      BY <1>1
    <3> QED BY <3>1, <3>2, BetweenMember
  <2>3. s \in Between(e, l + 1, Len(e))
    <3>1. Len(e) \in (l + 1)..Len(e) /\ e[Len(e)] = n
      BY <1>1
    <3> QED BY <3>1, BetweenMember
  <2> QED BY <2>1, <2>2, <2>3
<1>3. /\ Len(old) = l /\ DOMAIN old = 1..l /\ DOMAIN new = 1..l
      /\ \A k \in 1..l :
           old[k] = [assumed |-> Meanings(c[k].facts),
                     derived |-> IF k = l THEN {Meaning(x) : x \in Between(c, l + 1, Len(c))} ELSE {}]
      /\ \A k \in 1..l :
           new[k] = [assumed |-> Meanings(e[k].facts),
                     derived |-> IF k = l THEN {Meaning(x) : x \in Between(e, l + 1, Len(e))} ELSE {}]
  BY <1>1, LevelsOfFacts
<1>4. new = [k \in 1..l |-> new[k]] /\ old = [k \in 1..l |-> old[k]]
  BY DEF LevelsOf
<1> HIDE DEF old, new
<1>5. \A k \in 1..l : e[k] = c[k]
  BY <1>1
<1>6. \A k \in 1..l : k # l => new[k] = old[k]
  BY <1>3, <1>5
<1>7. new[l] = [assumed |-> old[l].assumed, derived |-> old[l].derived \cup {Meaning(s)}]
  <2> DEFINE was == {Meaning(x) : x \in Between(c, l + 1, Len(c))}
             is == {Meaning(x) : x \in Between(e, l + 1, Len(e))}
  <2>1. is = was \cup {Meaning(s)}
    BY <1>2
  <2>2. old[l] = [assumed |-> Meanings(c[l].facts), derived |-> was]
    BY <1>1, <1>3
  <2>3. new[l] = [assumed |-> Meanings(c[l].facts), derived |-> is]
    BY <1>1, <1>3, <1>5
  <2> HIDE DEF was, is
  <2> QED BY <2>1, <2>2, <2>3
<1>8. NDP!Derive(old, Meaning(s))
        = [k \in 1..l |->
             IF k = l
             THEN [assumed |-> old[l].assumed, derived |-> old[l].derived \cup {Meaning(s)}]
             ELSE old[k]]
  BY <1>3, <1>4 DEF NDP!Derive
<1>9. new = NDP!Derive(old, Meaning(s))
  BY <1>4, <1>6, <1>7, <1>8
<1> QED BY <1>9 DEF e, old, new

\* While a script is running.
LEMMA OpenLevelsFacts ==
  ASSUME SessionInv, Proving
  PROVE  /\ OpenLevels = LevelsOf(chain, Level) /\ Len(OpenLevels) = Level
         /\ OpenLevels # <<>> /\ Level \in Nat /\ Level \in 1..Level
         /\ Level \in 1..Len(chain) /\ Len(chain) \in Nat /\ chain \in Seq(NodeType)
         /\ \A i \in 1..Len(chain) : chain[i].kind = "start" <=> i <= Level
         /\ \A i \in 1..Len(chain) :
              chain[i].facts \in Seq(Statement) /\ Len(chain[i].facts) \in 1..2
         /\ OpenLevels[Level].assumed = Meanings(chain[Level].facts)
         /\ OpenLevels[Level].derived = {Meaning(s) : s \in Between(chain, Level + 1, Len(chain))}
<1>1. TypeOK /\ SpineShape /\ chain \in Seq(NodeType)
  BY DEF SessionInv, TypeOK
<1>2. /\ Level \in 1..Len(chain) /\ Len(chain) \in Nat
      /\ \A i \in 1..Len(chain) : chain[i].kind = "start" <=> i <= Level
      /\ \A i \in 1..Len(chain) :
           chain[i].facts \in Seq(Statement) /\ Len(chain[i].facts) \in 1..2
  BY <1>1, SpineLevel
<1>3. Level \in Nat /\ Level \in 1..Level
  BY <1>2
<1>4. OpenLevels = LevelsOf(chain, Level)
  BY DEF OpenLevels
<1>5. Len(OpenLevels) = Level
        /\ OpenLevels[Level] =
             [assumed |-> Meanings(chain[Level].facts),
              derived |-> {Meaning(s) : s \in Between(chain, Level + 1, Len(chain))}]
  BY <1>3, <1>4, LevelsOfFacts
<1>6. OpenLevels # <<>>
  <2>1. OpenLevels = <<>> => Len(OpenLevels) = 0
    OBVIOUS
  <2> QED BY <1>3, <1>5, <2>1
<1> QED BY <1>1, <1>2, <1>3, <1>4, <1>5, <1>6

LEMMA ProbedCompared ==
  ASSUME SessionInv, NotationsUnambiguous
  PROVE  Probed \in SUBSET Compared
<1>1. registry \in SUBSET Compared
  BY DEF Compared
<1>2. Dischargeable => Discharged \in Compared
  BY DEF Compared
<1> QED BY <1>1, <1>2, AllocateMeaning DEF Probed

LEMMA InferApplies ==
  ASSUME SessionInv, NotationsUnambiguous, NEW m \in Visible, Infer(m)
  PROVE  \E f \in NDP!Known : NDP!ModusPonens(f)
<1> DEFINE c == Consequent(m)
           new == Allocate(Probed, c)
           n == Node("infer", <<new>>)
           f == Meaning(m)
<1>1. Proving /\ m \in Statement /\ IsMajor(m) /\ Seen(Minor(m)) /\ TypeOK /\ SpineShape
  <2>1. TypeOK /\ SpineShape
    BY DEF SessionInv
  <2> QED BY <2>1, VisibleType DEF Infer, Applicable
<1>2. /\ Minor(m) \in Statement /\ c \in Statement
      /\ f = Entails(Meaning(Minor(m)), Meaning(c))
  BY <1>1, ArmMeaning
<1>3. Visible \subseteq Compared /\ Minor(m) \in Compared /\ c \in Compared
  BY <1>1 DEF Compared
<1>4. Meaning(Minor(m)) \in NDP!Known /\ f \in NDP!Known
  <2>1. PICK w \in Visible : Notation(w) = Notation(Minor(m))
    BY <1>1 DEF Seen
  <2>2. Meaning(w) = Meaning(Minor(m))
    BY <1>3, <2>1 DEF NotationsUnambiguous
  <2> QED BY <2>1, <2>2, VisibleKnown
<1>5. new \in Statement /\ Meaning(new) = Meaning(c)
  <2>1. Probed \in SUBSET Statement
    BY <1>1, ProbedFacts DEF Infer
  <2> QED BY <1>2, <1>3, <2>1, AllocateType, ProbedCompared, AllocateMeaning
<1> HIDE DEF new
<1>6. /\ n \in NodeType /\ n.kind = "infer" /\ Len(n.facts) = 1 /\ Elements(n.facts) = {new}
  <2>1. <<new>> \in Seq(Statement) /\ Len(<<new>>) = 1
    BY <1>5
  <2> QED BY <2>1, NodeFacts, SingletonElements, ZenonT(40)
<1>7. chain' = Append(chain, n) /\ lemmas' = lemmas
  BY DEF Infer, new
<1> HIDE DEF n
<1>8. Proving' /\ Level' = Level
  <2>1. /\ chain' \in Seq(NodeType) /\ Len(chain') > 0
        /\ Level \in 1..Len(chain')
        /\ \A i \in 1..Len(chain') : chain'[i].kind = "start" <=> i <= Level
    <3>1. n.kind # "start" /\ Len(n.facts) \in 1..2
      BY <1>6
    <3>2. chain' \in Seq(NodeType) /\ Len(chain') = Len(chain) + 1
      BY <1>1, <1>6, <1>7, AppendFacts DEF TypeOK
    <3>3. Len(chain') > 0
      BY <1>1, <3>2, OpenLevelsFacts
    <3> QED BY <1>1, <1>6, <1>7, <3>1, <3>2, <3>3, OpenLevelsFacts, ShapeAppend
  <2>2. Level' = Level
    BY <2>1, Innermost DEF Level, Starts
  <2> QED BY <2>1, <2>2, NonEmpty DEF Proving
<1>9. OpenLevels' = NDP!Derive(OpenLevels, Meaning(c))
  <2>1. OpenLevels' = LevelsOf(chain', Level)
    BY <1>8 DEF OpenLevels
  <2>2. LevelsOf(Append(chain, n), Level) = NDP!Derive(LevelsOf(chain, Level), Meaning(new))
    BY <1>1, <1>6, OpenLevelsFacts, LevelsAppend
  <2>3. OpenLevels = LevelsOf(chain, Level)
    BY <1>1, OpenLevelsFacts
  <2> QED BY <1>5, <1>7, <2>1, <2>2, <2>3
<1>10. OpenLevels # <<>>
  BY <1>1, OpenLevelsFacts
<1>11. f.op = "entails" /\ f.hyp = Meaning(Minor(m)) /\ f.con = Meaning(c)
  BY <1>2 DEF Entails
<1>12. {Meaning(s) : s \in Elements(lemmas)}' = {Meaning(s) : s \in Elements(lemmas)}
  BY <1>7 DEF Elements
<1> HIDE DEF f, c
<1>13. NDP!ModusPonens(f)
  BY <1>4, <1>9, <1>10, <1>11, <1>12 DEF NDP!ModusPonens
<1> QED BY <1>4, <1>13

\* Closing the innermost level leaves the ones around it as they were.
LEMMA LevelsPrefix ==
  ASSUME NEW c \in Seq(NodeType), NEW d \in 1..Len(c), NEW l \in Nat, l + 1 = d
  PROVE  LevelsOf(SubSeq(c, 1, l), l) = SubSeq(LevelsOf(c, d), 1, l)
<1> DEFINE b == SubSeq(c, 1, l)
<1>1. /\ Len(c) \in Nat /\ d \in Nat /\ l \in 0..Len(c)
      /\ \A k \in 1..l : k \in 1..d /\ k # d
  BY LenProperties
<1>2. Len(b) = l /\ \A k \in 1..l : b[k] = c[k]
  BY <1>1, PrefixProperties
<1> HIDE DEF b
<1>3. Between(b, l + 1, Len(b)) = {}
  BY <1>2 DEF Between
<1>4. PICK mine : mine = LevelsOf(b, l)
  OBVIOUS
<1>5. PICK all : all = LevelsOf(c, d)
  OBVIOUS
<1>6. /\ Len(mine) = l /\ (\E S : mine \in Seq(S))
      /\ \A k \in 1..l : mine[k] = [assumed |-> Meanings(c[k].facts), derived |-> {}]
  <2>1. \A k \in 1..l :
          [assumed |-> Meanings(b[k].facts),
           derived |-> IF k = l THEN {Meaning(s) : s \in Between(b, l + 1, Len(b))} ELSE {}]
          = [assumed |-> Meanings(c[k].facts), derived |-> {}]
    BY <1>2, <1>3
  <2>2. /\ Len(LevelsOf(b, l)) = l /\ (\E S : LevelsOf(b, l) \in Seq(S))
        /\ \A k \in 1..l :
             LevelsOf(b, l)[k] =
               [assumed |-> Meanings(b[k].facts),
                derived |-> IF k = l THEN {Meaning(s) : s \in Between(b, l + 1, Len(b))} ELSE {}]
    BY LevelsOfFacts
  <2> QED BY <1>4, <2>1, <2>2
<1>7. /\ Len(all) = d /\ (\E S : all \in Seq(S))
      /\ \A k \in 1..l : all[k] = [assumed |-> Meanings(c[k].facts), derived |-> {}]
  <2>1. \A k \in 1..l :
          [assumed |-> Meanings(c[k].facts),
           derived |-> IF k = d THEN {Meaning(s) : s \in Between(c, d + 1, Len(c))} ELSE {}]
          = [assumed |-> Meanings(c[k].facts), derived |-> {}]
    BY <1>1
  <2> QED BY <1>1, <1>5, <2>1, LevelsOfFacts
<1>8. PICK S : all \in Seq(S)
  BY <1>7
<1>9. /\ SubSeq(all, 1, l) \in Seq(S) /\ Len(SubSeq(all, 1, l)) = l
      /\ \A k \in 1..l : SubSeq(all, 1, l)[k] = all[k]
  <2>1. l \in 0..Len(all)
    BY <1>1, <1>7
  <2> QED BY <1>8, <2>1, PrefixProperties
<1>10. mine = SubSeq(all, 1, l)
  <2>1. PICK T : mine \in Seq(T)
    BY <1>6
  <2>2. mine \in [1..l -> T] /\ SubSeq(all, 1, l) \in [1..l -> S]
    BY <1>6, <1>9, <2>1, LenProperties
  <2> QED BY <1>6, <1>7, <1>9, <2>2
<1> QED BY <1>4, <1>5, <1>10 DEF b

LEMMA SameImplication ==
  ASSUME NEW hs, NEW c
  PROVE  NDP!Implication(hs, c) = Implication(hs, c)
BY DEF Implication, NDP!Implication, Entails, NDP!Entails, Entails2, NDP!Entails2

\* A sequence of one or two elements has a last one.
LEMMA LastIndex ==
  ASSUME NEW n, n \in 1..2
  PROVE  n \in 1..n
  OBVIOUS

\* Either discharge states the implication of the level from a formula derived there.
LEMMA DischargeStates ==
  ASSUME SessionInv, NotationsUnambiguous, DischargeOffered, WithinUniverse
  PROVE  /\ Meaning(Conclusion) \in OpenLevels[Level].derived
         /\ Meaning(Staged) = Implication(OpenLevels[Level].assumed, Meaning(Conclusion))
         /\ Meaning(Staged) \in Formula
<1>1. Proving /\ Dischargeable /\ Top(chain).kind # "start" /\ Discharged \in Statement
  BY StagedFacts DEF DischargeOffered, DischargeListed, Dischargeable
<1>2. /\ Level \in 1..Len(chain) /\ Len(chain) \in Nat
      /\ \A i \in 1..Len(chain) : chain[i].kind = "start" <=> i <= Level
      /\ \A i \in 1..Len(chain) :
           chain[i].facts \in Seq(Statement) /\ Len(chain[i].facts) \in 1..2
  BY <1>1, OpenLevelsFacts
<1>3. Len(chain) \in (Level + 1)..Len(chain) /\ Len(chain) \in 1..Len(chain)
  BY <1>1, <1>2 DEF Top
<1> DEFINE fs == chain[Len(chain)].facts
<1>4. fs \in Seq(Statement) /\ Len(fs) \in 1..Len(fs) /\ Conclusion = fs[Len(fs)]
  <2>1. fs \in Seq(Statement) /\ Len(fs) \in 1..2
    BY <1>2, <1>3
  <2>2. Conclusion = fs[Len(fs)]
    BY DEF Conclusion, Top
  <2>3. Len(fs) \in 1..Len(fs)
    BY <2>1, LastIndex
  <2> QED BY <2>1, <2>2, <2>3
<1>5. Conclusion \in Elements(fs) /\ Conclusion \in Statement
  <2>1. DOMAIN fs = 1..Len(fs)
    BY <1>4, LenProperties
  <2> QED BY <1>4, <2>1, ElementOfSeq DEF Elements
<1>6. Conclusion \in Between(chain, Level + 1, Len(chain))
  BY <1>3, <1>5, BetweenMember
<1>7. Meaning(Discharged) = Implication(Meanings(chain[Level].facts), Meaning(Conclusion))
  BY <1>1, <1>2, <1>5, ClosedMeaning DEF Discharged
<1>8. Discharged \in Compared
  BY <1>1 DEF Compared
<1>9. Meaning(Staged) = Meaning(Discharged)
  BY <1>8, ProbedCompared, AllocateMeaning DEF Staged
<1>10. Meaning(Discharged) \in Formula
  BY <1>1, MeaningAssumption
<1> QED BY <1>1, <1>6, <1>7, <1>9, <1>10, OpenLevelsFacts

LEMMA DischargeInnerDischarges ==
  ASSUME SessionInv, NotationsUnambiguous, DischargeInner
  PROVE  OpenLevels # <<>> /\ \E f \in OpenLevels[Len(OpenLevels)].derived : NDP!Discharge(f)
<1> DEFINE n == Node("lemmas", <<Staged>>)
           below == SubSeq(chain, 1, Level - 1)
           d == Meaning(Conclusion)
           l == Level - 1
<1>1. Proving /\ Staged \in Statement /\ Staged \notin Axioms /\ Level > 1
  BY StagedFacts DEF DischargeInner
<1>2. /\ d \in OpenLevels[Level].derived /\ Meaning(Staged) \in Formula
      /\ Meaning(Staged) = Implication(OpenLevels[Level].assumed, d)
  BY DischargeStates DEF DischargeInner
<1>3. /\ OpenLevels # <<>> /\ Len(OpenLevels) = Level /\ Level \in Nat
      /\ OpenLevels = LevelsOf(chain, Level)
      /\ Level \in 1..Len(chain) /\ Len(chain) \in Nat /\ chain \in Seq(NodeType)
      /\ \A i \in 1..Len(chain) : chain[i].kind = "start" <=> i <= Level
      /\ \A i \in 1..Len(chain) : Len(chain[i].facts) \in 1..2
  BY <1>1, OpenLevelsFacts
<1>4. l \in Nat /\ l \in 1..l /\ l + 1 = Level /\ l \in 0..Len(chain) /\ l # 0
  BY <1>1, <1>3
<1>5. /\ n \in NodeType /\ n.kind = "lemmas" /\ Len(n.facts) = 1 /\ Elements(n.facts) = {Staged}
  <2>1. <<Staged>> \in Seq(Statement) /\ Len(<<Staged>>) = 1
    BY <1>1
  <2> QED BY <2>1, NodeFacts, SingletonElements, ZenonT(40)
<1>6. chain' = Append(below, n) /\ lemmas' = lemmas
  <2>1. Recorded(<<>>, Staged) = <<Staged>>
    <3>1. ~ \E i \in DOMAIN <<>> : Notation(<<>>[i]) = Notation(Staged)
      OBVIOUS
    <3>2. Append(<<>>, Staged) = <<Staged>>
      OBVIOUS
    <3> QED BY <1>1, <3>1, <3>2 DEF Recorded
  <2> QED BY <2>1 DEF DischargeInner
<1>7. /\ below \in Seq(NodeType) /\ Len(below) = l
      /\ \A i \in 1..l : below[i] = chain[i]
  BY <1>3, <1>4, PrefixProperties
<1> HIDE DEF n, below, d, l
<1>8. Proving' /\ Level' = l
  <2>1. /\ l \in 1..Len(below)
        /\ \A i \in 1..Len(below) : Len(below[i].facts) \in 1..2
        /\ \A i \in 1..Len(below) : below[i].kind = "start" <=> i <= l
    BY <1>3, <1>4, <1>7
  <2>2. n.kind # "start" /\ Len(n.facts) \in 1..2
    BY <1>5
  <2>3. l \in 1..Len(chain') /\ \A i \in 1..Len(chain') : chain'[i].kind = "start" <=> i <= l
    BY <1>5, <1>6, <1>7, <2>1, <2>2, ShapeAppend
  <2>4. chain' \in Seq(NodeType) /\ Len(chain') = l + 1
    BY <1>5, <1>6, <1>7, AppendFacts
  <2>5. Level' = l
    BY <2>3, <2>4, Innermost DEF Level, Starts
  <2>6. Len(chain') > 0
    BY <1>4, <2>4
  <2> QED BY <2>4, <2>5, <2>6, NonEmpty DEF Proving
<1>9. LevelsOf(below, l) = SubSeq(OpenLevels, 1, l)
  BY <1>3, <1>4, LevelsPrefix DEF below
<1>10. OpenLevels' = NDP!Derive(SubSeq(OpenLevels, 1, l), Meaning(Staged))
  <2>1. OpenLevels' = LevelsOf(chain', l)
    BY <1>8 DEF OpenLevels
  <2>2. LevelsOf(Append(below, n), l) = NDP!Derive(LevelsOf(below, l), Meaning(Staged))
    BY <1>4, <1>5, <1>7, LevelsAppend
  <2> QED BY <1>6, <1>9, <2>1, <2>2
<1>11. {Meaning(s) : s \in Elements(lemmas)}' = {Meaning(s) : s \in Elements(lemmas)}
  BY <1>6 DEF Elements
<1>12. Level # 1 /\ Level - 1 = l
  BY <1>1, <1>4
<1>13. NDP!Discharge(d)
  BY <1>2, <1>3, <1>10, <1>11, <1>12, SameImplication DEF NDP!Discharge
<1>14. d \in OpenLevels[Len(OpenLevels)].derived
  BY <1>2, <1>3
<1>15. \E f \in OpenLevels[Len(OpenLevels)].derived : NDP!Discharge(f)
  BY <1>13, <1>14 DEF NDP!Discharge
<1> QED BY <1>3, <1>15

LEMMA DischargeOuterDischarges ==
  ASSUME SessionInv, NotationsUnambiguous, DischargeOuter
  PROVE  OpenLevels # <<>> /\ \E f \in OpenLevels[Len(OpenLevels)].derived : NDP!Discharge(f)
<1> DEFINE d == Meaning(Conclusion)
<1>1. /\ Proving /\ Staged \in Statement /\ Staged \notin Axioms /\ Level = 1
      /\ Notation(Staged) = Notation(Discharged) /\ ~Seen(Discharged)
  BY StagedFacts DEF DischargeOuter, DischargeOffered, DischargeListed
<1>2. /\ d \in OpenLevels[Level].derived /\ Meaning(Staged) \in Formula
      /\ Meaning(Staged) = Implication(OpenLevels[Level].assumed, d)
  BY DischargeStates DEF DischargeOuter
<1>3. OpenLevels # <<>> /\ Len(OpenLevels) = Level
  BY <1>1, OpenLevelsFacts
<1>4. lemmas \in Seq(Statement) /\ Len(lemmas) \in Nat /\ DOMAIN lemmas = 1..Len(lemmas)
  BY LenProperties DEF SessionInv, TypeOK
<1>5. lemmas' = Append(lemmas, Staged)
  <2>1. ~ \E i \in DOMAIN lemmas : Notation(lemmas[i]) = Notation(Staged)
    BY <1>1 DEF Seen, Visible, Elements
  <2> QED BY <1>1, <2>1 DEF DischargeOuter, Recorded
<1>6. Elements(lemmas') = Elements(lemmas) \cup {Staged}
  <2>1. /\ lemmas' \in Seq(Statement) /\ Len(lemmas') = Len(lemmas) + 1
        /\ \A i \in 1..(Len(lemmas) + 1) :
             lemmas'[i] = IF i <= Len(lemmas) THEN lemmas[i] ELSE Staged
    BY <1>1, <1>4, <1>5, AppendFacts
  <2>2. DOMAIN lemmas' = 1..(Len(lemmas) + 1)
    BY <2>1, LenProperties
  <2>3. \A i \in 1..(Len(lemmas) + 1) : lemmas'[i] \in Elements(lemmas) \cup {Staged}
    BY <1>4, <2>1 DEF Elements
  <2>4. \A i \in 1..Len(lemmas) : i \in 1..(Len(lemmas) + 1) /\ lemmas'[i] = lemmas[i]
    BY <1>4, <2>1
  <2>5. Len(lemmas) + 1 \in 1..(Len(lemmas) + 1) /\ lemmas'[Len(lemmas) + 1] = Staged
    BY <1>4, <2>1
  <2>6. Elements(lemmas) \subseteq Elements(lemmas')
    BY <1>4, <2>2, <2>4 DEF Elements
  <2>7. Staged \in Elements(lemmas')
    BY <2>2, <2>5 DEF Elements
  <2>8. Elements(lemmas') \subseteq Elements(lemmas) \cup {Staged}
    BY <2>2, <2>3 DEF Elements
  <2> QED BY <2>6, <2>7, <2>8
<1>7. OpenLevels' = <<>>
  BY DEF DischargeOuter, OpenLevels, Proving
<1>8. {Meaning(s) : s \in Elements(lemmas)}'
        = {Meaning(s) : s \in Elements(lemmas)} \cup {Meaning(Staged)}
  BY <1>6
<1> HIDE DEF d
<1>9. NDP!Discharge(d)
  BY <1>1, <1>2, <1>3, <1>7, <1>8, SameImplication DEF NDP!Discharge
<1>10. d \in OpenLevels[Len(OpenLevels)].derived
  BY <1>2, <1>3
<1>11. \E f \in OpenLevels[Len(OpenLevels)].derived : NDP!Discharge(f)
  BY <1>9, <1>10 DEF NDP!Discharge
<1> QED BY <1>3, <1>11

\* A step of the session is a step of natural deduction, or none.
LEMMA SessionStep ==
  ASSUME SessionInv, NotationsUnambiguous, [Next]_vars
  PROVE  [NDP!Next]_(NDP!vars)
<1>1. ASSUME NEW sc \in Script, OpenScript(sc) PROVE NDP!Next
  BY <1>1, OpenScriptAssumes DEF NDP!Next
<1>2. ASSUME NEW m \in Visible, Infer(m) PROVE NDP!Next
  BY <1>2, InferApplies DEF NDP!Next
<1>3. CASE DischargeInner
  BY <1>3, DischargeInnerDischarges DEF NDP!Next
<1>4. CASE DischargeOuter
  BY <1>4, DischargeOuterDischarges DEF NDP!Next
<1>5. CASE Abandon
  <2>1. OpenLevels' = <<>> /\ lemmas' = lemmas
    BY <1>5 DEF Abandon, OpenLevels, Proving
  <2>2. NDP!GiveUp
    BY <2>1 DEF NDP!GiveUp
  <2> QED BY <2>2 DEF NDP!Next
<1>6. ASSUME UNCHANGED <<chain, lemmas>> PROVE UNCHANGED NDP!vars
  <2>1. OpenLevels' = OpenLevels
    BY <1>6 DEF OpenLevels, Proving, Level, Starts
  <2>2. {Meaning(s) : s \in Elements(lemmas)}' = {Meaning(s) : s \in Elements(lemmas)}
    BY <1>6
  <2> QED BY <2>1, <2>2 DEF NDP!vars
<1> QED BY <1>1, <1>2, <1>3, <1>4, <1>5, <1>6
  DEF Next, vars, RefuseScript, Cancel, NothingApplicable, Finished

\* The session opens on nothing proven and nothing assumed.
LEMMA SessionInit == Init => NDP!Init
<1> SUFFICES ASSUME Init PROVE NDP!Init
  OBVIOUS
<1>1. {Meaning(s) : s \in Elements(lemmas)} = {} /\ OpenLevels = <<>>
  BY DEF Init, Elements, OpenLevels, Proving
<1> QED BY <1>1 DEF NDP!Init

\* The two instances of natural deduction, with and without its proofs.
LEMMA SameInit == NDP!Init => ND!Init
BY DEF NDP!Init, ND!Init

LEMMA SameStep == [NDP!Next]_(NDP!vars) => [ND!Next]_(ND!vars)
BY DEF NDP!Next, ND!Next, NDP!vars, ND!vars, NDP!Assume, ND!Assume, NDP!ModusPonens,
  ND!ModusPonens, NDP!Discharge, ND!Discharge, NDP!GiveUp, ND!GiveUp, NDP!Known, ND!Known,
  NDP!Elements, ND!Elements, NDP!Derive, ND!Derive, NDP!Implication, ND!Implication,
  NDP!Entails, ND!Entails, NDP!Entails2, ND!Entails2

-----------------------------------------------------------------------------
(* The assumptions of natural deduction hold of a session's formulas.      *)

LEMMA FormulasOfASession == NDP!FormulaAssumption
BY HoldsAssumption DEF NDP!FormulaAssumption

LEMMA PremisesOfASession == NDP!PremisesAssumption
<1>1. \A a \in Axioms : Meaning(a) \in Formula
  BY AxiomsAssumption, MeaningAssumption
<1> QED BY <1>1, HoldsAssumption DEF NDP!PremisesAssumption

LEMMA ProblemsOfASession == NDP!ProblemAssumption
<1> SUFFICES ASSUME NEW sc \in Script, Supported(sc)
             PROVE  LET p == [i \in 1..Len(sc) |-> Meanings(sc[i])]
                    IN  /\ p \in Seq(Seq(Formula)) /\ Len(p) \in 1..2
                        /\ \A i \in 1..Len(p) : Len(p[i]) \in 1..2
  BY DEF NDP!ProblemAssumption, Problems
<1> DEFINE p == [i \in 1..Len(sc) |-> Meanings(sc[i])]
<1>1. sc \in Seq(Seq(Statement)) /\ Len(sc) \in 1..2
  BY ScriptAssumption
<1>2. /\ DOMAIN sc = 1..Len(sc)
      /\ \A i \in 1..Len(sc) : sc[i] \in Seq(Statement)
  BY <1>1, LenProperties, ElementOfSeq
<1>3. \A i \in 1..Len(sc) : Len(sc[i]) \in 1..2
  BY <1>2 DEF Supported
<1>4. \A i \in 1..Len(sc) : p[i] \in Seq(Formula) /\ Len(p[i]) \in 1..2
  BY <1>2, <1>3, MeaningsFacts
<1>5. p \in Seq(Seq(Formula)) /\ Len(p) = Len(sc)
  <2>1. Len(sc) \in Nat /\ p \in [1..Len(sc) -> Seq(Formula)]
    BY <1>1, <1>4
  <2>2. p \in Seq(Seq(Formula))
    BY <2>1, SeqDef
  <2> QED BY <2>1, <2>2, FunctionAsSequence
<1> QED BY <1>1, <1>4, <1>5

-----------------------------------------------------------------------------
\* A session in which statements that print alike always mean alike does natural
\* deduction and nothing else, for any scripts, axioms and answers.
THEOREM Refinement == Spec /\ []NotationsUnambiguous => DoesNaturalDeduction
<1>1. Init => ND!Init
  BY SessionInit, SameInit
<1>2. SessionInv /\ NotationsUnambiguous /\ [Next]_vars => [ND!Next]_(ND!vars)
  BY SessionStep, SameStep
<1> QED BY <1>1, <1>2, SessionInvHolds, PTL DEF Spec, DoesNaturalDeduction, ND!Spec

\* What such a session announces as proven is true under every interpretation that
\* makes its axioms true.
THEOREM LemmasAreValid == Spec /\ []NotationsUnambiguous => []RootLemmasValid
<1>1. Init => NDP!Init
  BY SessionInit
<1>2. SessionInv /\ NotationsUnambiguous /\ [Next]_vars => [NDP!Next]_(NDP!vars)
  BY SessionStep
<1>3. NDP!Spec => []NDP!Sound
  BY FormulasOfASession, PremisesOfASession, ProblemsOfASession, NDP!Soundness, PTL
<1>4. NDP!Sound => RootLemmasValid
  BY DEF NDP!Sound, NDP!TheoremsValid, RootLemmasValid
<1> QED BY <1>1, <1>2, <1>3, <1>4, SessionInvHolds, PTL DEF Spec, NDP!Spec

\* And what it has derived under open hypotheses follows from those.
THEOREM OpenScopesAreSound == Spec /\ []NotationsUnambiguous => []ScopesSound
<1>1. Init => NDP!Init
  BY SessionInit
<1>2. SessionInv /\ NotationsUnambiguous /\ [Next]_vars => [NDP!Next]_(NDP!vars)
  BY SessionStep
<1>3. NDP!Spec => []NDP!Sound
  BY FormulasOfASession, PremisesOfASession, ProblemsOfASession, NDP!Soundness, PTL
<1>4. NDP!Sound => ScopesSound
  BY DEF NDP!Sound, NDP!ScopesSound, NDP!InForce, NDP!AllHold,
    ScopesSound, ND!ScopesSound, ND!InForce, ND!AllHold
<1> QED BY <1>1, <1>2, <1>3, <1>4, SessionInvHolds, PTL DEF Spec, NDP!Spec

-----------------------------------------------------------------------------
(* The ids.                                                                *)

\* The axioms are numbered from 1, no two alike.
LEMMA AxiomIds ==
  /\ Cardinality(Axioms) \in Nat
  /\ AxiomId \in [Axioms -> 1..Cardinality(Axioms)]
  /\ \A a, b \in Axioms : AxiomId[a] = AxiomId[b] => a = b
<1> DEFINE N == Cardinality(Axioms)
<1>1. N \in Nat /\ ExistsBijection(1..N, Axioms)
  BY FiniteAxioms, FS_CardinalityType
<1> HIDE DEF N
<1>2. ExistsBijection(Axioms, 1..N)
  BY <1>1, Fun_ExistsBijSymmetric
<1>3. PICK f \in Bijection(Axioms, 1..N) : TRUE
  BY <1>2 DEF ExistsBijection
<1>4. /\ f \in [Axioms -> 1..N]
      /\ \A a, b \in Axioms : f[a] = f[b] => a = b
  BY <1>3 DEF Bijection, Injection, IsInjective
<1> QED BY <1>1, <1>4 DEF AxiomId, N

\* A numbering of a registry: ids above the axioms' and below the next, all different.
Numbers(n, reg) ==
  /\ n.next \in Nat /\ Cardinality(Axioms) < n.next
  /\ n.ids \in [reg -> (Cardinality(Axioms) + 1)..(n.next - 1)]
  /\ \A r, s \in reg : n.ids[r] = n.ids[s] => r = s

\* The id of a statement that owns one.
OwnId(n, w) == IF w \in Axioms THEN AxiomId[w] ELSE n.ids[w]

\* A numbering that goes on from another: no id moves, and the new ones are new.
Grows(n, reg, m, upto) ==
  /\ reg \subseteq upto /\ n.next <= m.next
  /\ \A s \in reg : m.ids[s] = n.ids[s]
  /\ \A s \in upto : s \notin reg => m.ids[s] >= n.next

LEMMA GrowsFurther ==
  ASSUME NEW n, NEW m, NEW k, NEW reg, NEW mid, NEW upto,
         n.next \in Nat, m.next \in Nat, k.next \in Nat,
         m.ids \in [mid -> Nat], k.ids \in [upto -> Nat],
         Grows(n, reg, m, mid), Grows(m, mid, k, upto)
  PROVE  Grows(n, reg, k, upto)
<1>1. reg \subseteq upto /\ n.next <= k.next
  BY DEF Grows
<1>2. \A s \in reg : k.ids[s] = n.ids[s]
  BY DEF Grows
<1>3. ASSUME NEW s \in upto, s \notin reg PROVE k.ids[s] >= n.next
  <2>1. CASE s \in mid
    BY <1>3, <2>1 DEF Grows
  <2>2. CASE s \notin mid
    BY <1>3, <2>2 DEF Grows
  <2> QED BY <2>1, <2>2
<1> QED BY <1>1, <1>2, <1>3 DEF Grows

LEMMA NumbersTyped ==
  ASSUME NEW n, NEW reg, Numbers(n, reg)
  PROVE  n.next \in Nat /\ n.ids \in [reg -> Nat] /\ DOMAIN n.ids = reg
<1>1. Cardinality(Axioms) \in Nat
  BY AxiomIds
<1> QED BY <1>1 DEF Numbers

LEMMA EnterNumbers ==
  ASSUME NEW n, NEW reg, Numbers(n, reg), NEW s
  PROVE  /\ Numbers(Enter(n, s), Registered(reg, s))
         /\ Grows(n, reg, Enter(n, s), Registered(reg, s))
<1> DEFINE a == Allocate(reg, s)
           new == [t \in reg \cup {a} |-> IF t = a THEN n.next ELSE n.ids[t]]
<1>1. Cardinality(Axioms) \in Nat /\ n.next \in Nat /\ n.ids \in [reg -> Nat] /\ DOMAIN n.ids = reg
  BY AxiomIds, NumbersTyped
<1>2. CASE a \in Axioms \cup reg
  <2>1. Enter(n, s) = n /\ Registered(reg, s) = reg
    BY <1>1, <1>2 DEF Enter, Registered
  <2> QED BY <1>1, <2>1 DEF Grows
<1>3. CASE a \notin Axioms \cup reg
  <2>1. /\ Enter(n, s) = [ids |-> new, next |-> n.next + 1]
        /\ Registered(reg, s) = reg \cup {a}
    BY <1>1, <1>3 DEF Enter, Registered
  <2> HIDE DEF a
  <2>2. \A t \in reg : new[t] = n.ids[t] /\ new[t] \in (Cardinality(Axioms) + 1)..(n.next - 1)
    BY <1>3 DEF Numbers
  <2>3. new[a] = n.next
    OBVIOUS
  <2>4. new \in [reg \cup {a} -> (Cardinality(Axioms) + 1)..n.next]
    BY <1>1, <2>2, <2>3 DEF Numbers
  <2>5. \A t, u \in reg \cup {a} : new[t] = new[u] => t = u
    BY <1>1, <2>2, <2>3 DEF Numbers
  <2> HIDE DEF new
  <2>6. n.next + 1 - 1 = n.next /\ n.next + 1 \in Nat /\ Cardinality(Axioms) < n.next + 1
    BY <1>1 DEF Numbers
  <2>7. Numbers([ids |-> new, next |-> n.next + 1], reg \cup {a})
    BY <2>4, <2>5, <2>6 DEF Numbers
  <2>8. Grows(n, reg, [ids |-> new, next |-> n.next + 1], reg \cup {a})
    BY <1>1, <2>2, <2>3 DEF Grows
  <2> QED BY <2>1, <2>7, <2>8
<1> QED BY <1>2, <1>3

\* Pruning moves no id and forgets those that expired.
LEMMA PrunedNumbers ==
  ASSUME NEW n, NEW reg, Numbers(n, reg), NEW kept \in SUBSET reg
  PROVE  /\ Numbers(Pruned(n, kept), kept)
         /\ Pruned(n, kept).next = n.next
         /\ \A s \in kept : Pruned(n, kept).ids[s] = n.ids[s]
BY DEF Pruned, Numbers

\* What is read back for a statement is its owner's id.
LEMMA ReadBackId ==
  ASSUME NEW n, NEW reg, Numbers(n, reg), Owners(reg),
         NEW s, NEW w \in reg \cup Axioms, Notation(w) = Notation(s)
  PROVE  IdOf(n, s) = OwnId(n, w)
<1>1. DOMAIN n.ids = reg
  BY NumbersTyped
<1>2. Allocate(reg, s) = w
  <2>1. Notation(Allocate(reg, s)) = Notation(w)
    BY AllocateFacts
  <2>2. Allocate(reg, s) \in reg \cup Axioms
    BY DEF Allocate
  <2> QED BY <2>1, <2>2 DEF Owners
<1> QED BY <1>1, <1>2 DEF IdOf, OwnId

-----------------------------------------------------------------------------
(* The texts of the rows.                                                  *)

RowType ==
  [id : Nat, text : {Notation(s) : s \in Statement},
   role : {"opened", "inferred", "introduced"}, cites : Seq(Nat), depth : {0, 1}]

\* The ids of a table's rows are spent, and name one text each: the text of the live
\* statement or the axiom that has the id.
Reads(n, reg, q) ==
  /\ \A i \in 1..Len(q) : q[i].id \in 1..(n.next - 1)
  /\ \A i, j \in 1..Len(q) : q[i].id = q[j].id => q[i].text = q[j].text
  /\ \A i \in 1..Len(q) : \A s \in reg : n.ids[s] = q[i].id => q[i].text = Notation(s)
  /\ \A i \in 1..Len(q) : \A a \in Axioms : AxiomId[a] = q[i].id => q[i].text = Notation(a)

\* No two owners share an id.
LEMMA OwnIdFacts ==
  ASSUME NEW n, NEW reg, Numbers(n, reg)
  PROVE  /\ \A w \in reg \cup Axioms : OwnId(n, w) \in 1..(n.next - 1) /\ OwnId(n, w) \in Nat
         /\ \A v, w \in reg \cup Axioms : OwnId(n, v) = OwnId(n, w) => v = w
         /\ \A w \in reg \cup Axioms : \A s \in reg : n.ids[s] = OwnId(n, w) => s = w
<1>1. Cardinality(Axioms) \in Nat /\ n.next \in Nat /\ Cardinality(Axioms) < n.next
  BY AxiomIds DEF Numbers
<1>2. ASSUME NEW w \in Axioms
      PROVE  OwnId(n, w) = AxiomId[w] /\ OwnId(n, w) \in 1..Cardinality(Axioms)
  BY AxiomIds DEF OwnId
<1>3. ASSUME NEW w \in reg, w \notin Axioms
      PROVE  OwnId(n, w) = n.ids[w]
  BY <1>3 DEF OwnId
<1>4. \A w \in reg : n.ids[w] \in (Cardinality(Axioms) + 1)..(n.next - 1)
  BY DEF Numbers
<1>5. \A v, w \in reg : n.ids[v] = n.ids[w] => v = w
  BY DEF Numbers
<1>6. \A v, w \in Axioms : AxiomId[v] = AxiomId[w] => v = w
  BY AxiomIds
<1>7. ASSUME NEW w \in reg \cup Axioms PROVE OwnId(n, w) \in 1..(n.next - 1) /\ OwnId(n, w) \in Nat
  <2>1. CASE w \in Axioms
    BY <1>1, <1>2, <2>1
  <2>2. CASE w \notin Axioms
    BY <1>1, <1>3, <1>4, <2>2
  <2> QED BY <2>1, <2>2
<1>8. ASSUME NEW w \in reg \cup Axioms, NEW s \in reg, n.ids[s] = OwnId(n, w) PROVE s = w
  <2>1. CASE w \in Axioms
    BY <1>1, <1>2, <1>4, <1>8, <2>1
  <2>2. CASE w \notin Axioms
    BY <1>3, <1>5, <1>8, <2>2
  <2> QED BY <2>1, <2>2
<1>9. ASSUME NEW v \in reg \cup Axioms, NEW w \in reg \cup Axioms, OwnId(n, v) = OwnId(n, w)
      PROVE  v = w
  <2>1. CASE v \notin Axioms
    BY <1>3, <1>8, <1>9, <2>1
  <2>2. CASE w \notin Axioms
    BY <1>3, <1>8, <1>9, <2>2
  <2>3. CASE v \in Axioms /\ w \in Axioms
    BY <1>2, <1>6, <1>9, <2>3
  <2> QED BY <2>1, <2>2, <2>3
<1> QED BY <1>7, <1>8, <1>9

\* Registering and pruning change no row's reading.
LEMMA ReadsGrow ==
  ASSUME NEW n, NEW m, NEW reg, NEW upto, NEW q \in Seq(RowType),
         Numbers(n, reg), Numbers(m, upto), Grows(n, reg, m, upto), Reads(n, reg, q)
  PROVE  Reads(m, upto, q)
<1>1. n.next \in Nat /\ m.next \in Nat /\ n.next <= m.next
  BY DEF Numbers, Grows
<1>2. \A i \in 1..Len(q) : q[i].id \in 1..(n.next - 1) /\ q[i].id \in 1..(m.next - 1)
  BY <1>1 DEF Reads
<1>3. ASSUME NEW i \in 1..Len(q), NEW s \in upto, m.ids[s] = q[i].id
      PROVE  q[i].text = Notation(s)
  <2>1. q[i].id < n.next /\ q[i].id \in Nat
    BY <1>1, <1>2
  <2>2. s \in reg
    BY <1>1, <1>3, <2>1 DEF Grows
  <2> QED BY <1>3, <2>2 DEF Grows, Reads
<1> QED BY <1>2, <1>3 DEF Reads

LEMMA ReadsPruned ==
  ASSUME NEW n, NEW reg, NEW kept \in SUBSET reg, NEW q,
         Numbers(n, reg), Reads(n, reg, q)
  PROVE  Reads(Pruned(n, kept), kept, q)
BY PrunedNumbers DEF Reads

\* A table of rows that read as the statements whose ids they have.
LEMMA ReadsAll ==
  ASSUME NEW n, NEW reg, NEW q, Numbers(n, reg),
         \A i \in 1..Len(q) : \E w \in reg \cup Axioms :
            q[i].id = OwnId(n, w) /\ q[i].text = Notation(w)
  PROVE  Reads(n, reg, q)
<1>1. \A i \in 1..Len(q) : q[i].id \in 1..(n.next - 1)
  BY OwnIdFacts
<1>2. ASSUME NEW i \in 1..Len(q), NEW j \in 1..Len(q), q[i].id = q[j].id
      PROVE  q[i].text = q[j].text
  BY <1>2, OwnIdFacts
<1>3. ASSUME NEW i \in 1..Len(q), NEW s \in reg, n.ids[s] = q[i].id
      PROVE  q[i].text = Notation(s)
  BY <1>3, OwnIdFacts
<1>4. ASSUME NEW i \in 1..Len(q), NEW a \in Axioms, AxiomId[a] = q[i].id
      PROVE  q[i].text = Notation(a)
  <2>1. OwnId(n, a) = AxiomId[a]
    BY DEF OwnId
  <2> QED BY <1>4, <2>1, OwnIdFacts
<1> QED BY <1>1, <1>2, <1>3, <1>4 DEF Reads

\* A row for an owned statement, with what it says of the statement.
LEMMA RowFacts ==
  ASSUME NEW n, NEW reg, Numbers(n, reg), Owners(reg),
         NEW s \in Statement, NEW w \in reg \cup Axioms, Notation(w) = Notation(s),
         NEW role \in {"opened", "inferred", "introduced"},
         NEW cites \in Seq(Nat), NEW depth \in {0, 1}
  PROVE  LET r == Row(n, s, role, cites, depth)
         IN  /\ r \in RowType
             /\ r.id = OwnId(n, w) /\ r.text = Notation(w) /\ r.text = Notation(s)
             /\ r.role = role /\ r.cites = cites /\ r.depth = depth
<1>1. IdOf(n, s) = OwnId(n, w) /\ OwnId(n, w) \in Nat
  BY ReadBackId, OwnIdFacts
<1> QED BY <1>1 DEF Row, RowType

LEMMA ReadsAppend ==
  ASSUME NEW n, NEW reg, NEW q \in Seq(RowType), NEW r \in RowType,
         Numbers(n, reg), Reads(n, reg, q),
         NEW w \in reg \cup Axioms, r.id = OwnId(n, w), r.text = Notation(w)
  PROVE  Reads(n, reg, Append(q, r))
<1> DEFINE p == Append(q, r)
<1>1. /\ p \in Seq(RowType) /\ Len(p) = Len(q) + 1 /\ Len(q) \in Nat
      /\ \A i \in 1..(Len(q) + 1) : p[i] = IF i <= Len(q) THEN q[i] ELSE r
  BY AppendFacts, LenProperties
<1> HIDE DEF p
<1>2. \A i \in 1..Len(p) : (i \in 1..Len(q) /\ p[i] = q[i]) \/ p[i] = r
  BY <1>1
<1>3. ASSUME NEW i \in 1..Len(q), q[i].id = OwnId(n, w) PROVE q[i].text = Notation(w)
  BY <1>3 DEF Reads, OwnId
<1>4. \A i \in 1..Len(p) : p[i].id \in 1..(n.next - 1)
  BY <1>2, OwnIdFacts DEF Reads
<1>5. ASSUME NEW i \in 1..Len(p), NEW j \in 1..Len(p), p[i].id = p[j].id
      PROVE  p[i].text = p[j].text
  BY <1>2, <1>3, <1>5 DEF Reads
<1>6. ASSUME NEW i \in 1..Len(p), NEW s \in reg, n.ids[s] = p[i].id
      PROVE  p[i].text = Notation(s)
  <2>1. CASE i \in 1..Len(q) /\ p[i] = q[i]
    BY <1>6, <2>1 DEF Reads
  <2>2. CASE p[i] = r
    BY <1>6, <2>2, OwnIdFacts
  <2> QED BY <1>2, <2>1, <2>2
<1>7. ASSUME NEW i \in 1..Len(p), NEW a \in Axioms, AxiomId[a] = p[i].id
      PROVE  p[i].text = Notation(a)
  <2>1. CASE i \in 1..Len(q) /\ p[i] = q[i]
    BY <1>7, <2>1 DEF Reads
  <2>2. CASE p[i] = r
    <3>1. OwnId(n, a) = AxiomId[a]
      BY DEF OwnId
    <3> QED BY <1>7, <2>2, <3>1, OwnIdFacts
  <2> QED BY <1>2, <2>1, <2>2
<1> QED BY <1>4, <1>5, <1>6, <1>7 DEF Reads, p

-----------------------------------------------------------------------------
(* The numbering, along the session's steps.                               *)

LEMMA NumbersAreTwice ==
  ASSUME NEW n, NEW m, NEW k, NEW reg, NEW mid, NEW upto,
         Numbers(n, reg), Numbers(m, mid), Numbers(k, upto),
         Grows(n, reg, m, mid), Grows(m, mid, k, upto)
  PROVE  Grows(n, reg, k, upto)
<1>1. /\ n.next \in Nat /\ m.next \in Nat /\ k.next \in Nat
      /\ m.ids \in [mid -> Nat] /\ k.ids \in [upto -> Nat]
  BY NumbersTyped
<1> QED BY <1>1, GrowsFurther

\* An owner keeps its id.
LEMMA GrowsOwnId ==
  ASSUME NEW n, NEW m, NEW reg, NEW upto, Grows(n, reg, m, upto), NEW w \in reg \cup Axioms
  PROVE  OwnId(m, w) = OwnId(n, w)
BY DEF Grows, OwnId

LEMMA ProbedNumbers ==
  ASSUME Numbers(numbering, registry)
  PROVE  /\ Numbers(ProbedIds, Probed)
         /\ Grows(numbering, registry, ProbedIds, Probed)
<1>1. Grows(numbering, registry, numbering, registry)
  BY NumbersTyped DEF Grows
<1> QED BY <1>1, EnterNumbers DEF ProbedIds, Probed

\* What a step that records s does to the ids, before the pruning.
LEMMA RecordNumbers ==
  ASSUME SessionInv, Proving, WithinUniverse, Numbers(numbering, registry),
         rows \in Seq(RowType), Reads(numbering, registry, rows), NEW s \in Statement
  PROVE  LET n == Enter(ProbedIds, s)
             reg == Registered(Probed, s)
         IN  /\ Numbers(n, reg) /\ Owners(reg)
             /\ Reads(n, reg, rows)
             /\ registry \subseteq reg
             /\ \A w \in registry \cup Axioms : OwnId(n, w) = OwnId(numbering, w)
             /\ Allocate(Probed, s) \in reg \cup Axioms
<1> DEFINE n == Enter(ProbedIds, s)
           reg == Registered(Probed, s)
<1>1. /\ Numbers(ProbedIds, Probed)
      /\ Grows(numbering, registry, ProbedIds, Probed)
  BY ProbedNumbers
<1>2. Owners(Probed) /\ registry \subseteq Probed
  BY ProbedFacts
<1>3. Numbers(n, reg) /\ Grows(ProbedIds, Probed, n, reg)
  BY <1>1, EnterNumbers
<1>4. Owners(reg) /\ Probed \subseteq reg /\ Allocate(Probed, s) \in reg \cup Axioms
  BY <1>2, RegisteredOwners
<1> HIDE DEF n, reg
<1>5. Grows(numbering, registry, n, reg)
  BY <1>1, <1>3, NumbersAreTwice
<1>6. Reads(n, reg, rows)
  BY <1>3, <1>5, ReadsGrow
<1>7. \A w \in registry \cup Axioms : OwnId(n, w) = OwnId(numbering, w)
  BY <1>5, GrowsOwnId
<1>8. /\ Numbers(n, reg) /\ Owners(reg) /\ Reads(n, reg, rows) /\ registry \subseteq reg
      /\ \A w \in registry \cup Axioms : OwnId(n, w) = OwnId(numbering, w)
      /\ Allocate(Probed, s) \in reg \cup Axioms
  BY <1>2, <1>3, <1>4, <1>6, <1>7
<1> QED BY <1>8 DEF n, reg

\* An owner that is not pruned keeps its id.
LEMMA PrunedOwnId ==
  ASSUME NEW n, NEW reg, Numbers(n, reg), NEW kept \in SUBSET reg, NEW w \in kept \cup Axioms
  PROVE  OwnId(Pruned(n, kept), w) = OwnId(n, w)
BY PrunedNumbers DEF OwnId

\* The statements of a level, as they are recorded.
LEMMA LevelNamed ==
  ASSUME NEW reg \in SUBSET Statement, Owners(reg),
         NEW ss \in Seq(Statement), Len(ss) \in 1..2
  PROVE  /\ LevelFacts(reg, ss) \in Seq(Statement)
         /\ Len(LevelFacts(reg, ss)) = Len(ss)
         /\ \A k \in 1..Len(ss) :
              /\ LevelFacts(reg, ss)[k] \in LevelRegistered(reg, ss) \cup Axioms
              /\ Notation(LevelFacts(reg, ss)[k]) = Notation(ss[k])
<1>1. /\ LevelFacts(reg, ss) \in Seq(Statement)
      /\ Elements(LevelFacts(reg, ss)) \subseteq LevelRegistered(reg, ss) \cup Axioms
  BY LevelAllocation
<1>2. CASE Len(ss) = 1
  <2>1. LevelFacts(reg, ss) = <<Allocate(reg, ss[1])>>
    BY <1>2 DEF LevelFacts
  <2>2. Notation(Allocate(reg, ss[1])) = Notation(ss[1])
    BY AllocateFacts
  <2>3. Elements(LevelFacts(reg, ss)) = {Allocate(reg, ss[1])}
    BY <2>1, SingletonElements
  <2> QED BY <1>1, <1>2, <2>1, <2>2, <2>3
<1>3. CASE Len(ss) = 2
  <2> DEFINE a1 == Allocate(reg, ss[1])
             a2 == Allocate(Registered(reg, ss[1]), ss[2])
  <2>1. LevelFacts(reg, ss) = <<a1, a2>>
    BY <1>3 DEF LevelFacts
  <2>2. Notation(a1) = Notation(ss[1]) /\ Notation(a2) = Notation(ss[2])
    BY AllocateFacts
  <2> HIDE DEF a1, a2
  <2>3. a1 \in Elements(LevelFacts(reg, ss)) /\ a2 \in Elements(LevelFacts(reg, ss))
    <3>1. 1 \in DOMAIN <<a1, a2>> /\ 2 \in DOMAIN <<a1, a2>> /\ <<a1, a2>>[1] = a1 /\ <<a1, a2>>[2] = a2
      OBVIOUS
    <3> QED BY <2>1, <3>1 DEF Elements
  <2>4. Len(LevelFacts(reg, ss)) = 2 /\ LevelFacts(reg, ss)[1] = a1 /\ LevelFacts(reg, ss)[2] = a2
    BY <2>1
  <2>5. a1 \in LevelRegistered(reg, ss) \cup Axioms /\ a2 \in LevelRegistered(reg, ss) \cup Axioms
    BY <1>1, <2>3
  <2> QED BY <1>1, <1>3, <2>2, <2>4, <2>5
<1> QED BY <1>2, <1>3

LEMMA LevelNumbers ==
  ASSUME NEW n, NEW reg, Numbers(n, reg), NEW ss
  PROVE  /\ Numbers(LevelEntered(n, ss), LevelRegistered(reg, ss))
         /\ Grows(n, reg, LevelEntered(n, ss), LevelRegistered(reg, ss))
<1>1. CASE Len(ss) = 1
  BY <1>1, EnterNumbers DEF LevelEntered, LevelRegistered
<1>2. CASE Len(ss) # 1
  <2> DEFINE m == Enter(n, ss[1])
             mid == Registered(reg, ss[1])
  <2>1. Numbers(m, mid) /\ Grows(n, reg, m, mid)
    BY EnterNumbers
  <2>2. LevelEntered(n, ss) = Enter(m, ss[2]) /\ LevelRegistered(reg, ss) = Registered(mid, ss[2])
    BY <1>2 DEF LevelEntered, LevelRegistered
  <2> HIDE DEF m, mid
  <2>3. Numbers(Enter(m, ss[2]), Registered(mid, ss[2])) /\ Grows(m, mid, Enter(m, ss[2]), Registered(mid, ss[2]))
    BY <2>1, EnterNumbers
  <2> QED BY <2>1, <2>2, <2>3, NumbersAreTwice
<1> QED BY <1>1, <1>2

\* The rows of a level are those of the statements it records.
LEMMA LevelRowsFacts ==
  ASSUME NEW n, NEW reg, Numbers(n, reg), Owners(reg),
         NEW ss \in Seq(Statement), NEW fs, Len(fs) = Len(ss),
         \A k \in 1..Len(ss) : fs[k] \in reg \cup Axioms /\ Notation(fs[k]) = Notation(ss[k]),
         NEW depth \in {0, 1}
  PROVE  LET q == LevelRows(n, ss, depth)
         IN  /\ q \in Seq(RowType) /\ Len(q) = Len(fs)
             /\ \A k \in 1..Len(fs) :
                  /\ q[k].id = OwnId(n, fs[k]) /\ q[k].text = Notation(fs[k])
                  /\ q[k].depth = depth /\ q[k].cites = <<>> /\ q[k].role = "opened"
<1> DEFINE q == LevelRows(n, ss, depth)
<1>1. Len(ss) \in Nat
  OBVIOUS
<1>2. q = [k \in 1..Len(ss) |-> Row(n, ss[k], "opened", <<>>, depth)]
  BY DEF LevelRows
<1> HIDE DEF q
<1>3. ASSUME NEW k \in 1..Len(ss)
      PROVE  /\ q[k] \in RowType
             /\ q[k].id = OwnId(n, fs[k]) /\ q[k].text = Notation(fs[k])
             /\ q[k].depth = depth /\ q[k].cites = <<>> /\ q[k].role = "opened"
  <2>1. q[k] = Row(n, ss[k], "opened", <<>>, depth)
    BY <1>2
  <2>2. ss[k] \in Statement /\ <<>> \in Seq(Nat)
    BY <1>1
  <2>3. fs[k] \in reg \cup Axioms /\ Notation(fs[k]) = Notation(ss[k])
    OBVIOUS
  <2> DEFINE w == fs[k]
             s == ss[k]
             role == "opened"
             cites == <<>>
             r == Row(n, s, role, cites, depth)
  <2>4. /\ s \in Statement /\ cites \in Seq(Nat) /\ role \in {"opened", "inferred", "introduced"}
        /\ w \in reg \cup Axioms /\ Notation(w) = Notation(s)
    BY <2>2, <2>3
  <2> HIDE DEF w, s, role, cites
  <2>5. /\ r \in RowType /\ r.id = OwnId(n, w) /\ r.text = Notation(w)
        /\ r.role = role /\ r.cites = cites /\ r.depth = depth
    BY <2>4, RowFacts
  <2> HIDE DEF r
  <2>6. q[k] = r /\ role = "opened" /\ cites = <<>> /\ w = fs[k]
    BY <2>1 DEF r, s, role, cites, w
  <2> QED BY <2>5, <2>6
<1>4. q \in [1..Len(ss) -> RowType]
  BY <1>2, <1>3
<1>5. q \in Seq(RowType) /\ Len(q) = Len(ss)
  BY <1>1, <1>4
<1> QED BY <1>3, <1>5 DEF q

-----------------------------------------------------------------------------
(* A script that opens.                                                    *)

LEMMA LastStart ==
  ASSUME NEW S, NEW d \in Nat, S = 1..d, d > 0
  PROVE  (CHOOSE i \in S : \A j \in S : j <= i) = d
<1>1. d \in S /\ \A j \in S : j <= d
  OBVIOUS
<1>2. \A i \in S : (\A j \in S : j <= i) => i = d
  OBVIOUS
<1> QED BY <1>1, <1>2

\* The spine of a script that has just opened: its levels, recorded as they are read back.
OpenedAs(sc, c, reg) ==
  /\ c \in Seq(NodeType) /\ Len(c) = Len(sc)
  /\ \A i \in 1..Len(sc) :
       /\ c[i].kind = "start" /\ Len(c[i].facts) = Len(sc[i])
       /\ c[i].facts \in Seq(Statement)
       /\ \A k \in 1..Len(sc[i]) :
            c[i].facts[k] \in reg \cup Axioms /\ Notation(c[i].facts[k]) = Notation(sc[i][k])

LEMMA ScriptTyped ==
  ASSUME NEW sc \in Script, Supported(sc)
  PROVE  /\ Len(sc) \in 1..2
         /\ \A i \in 1..Len(sc) : sc[i] \in Seq(Statement) /\ Len(sc[i]) \in 1..2
<1>1. sc \in Seq(Seq(Statement)) /\ Len(sc) \in 1..2
  BY ScriptAssumption
<1>2. DOMAIN sc = 1..Len(sc)
  BY <1>1, LenProperties
<1>3. \A i \in 1..Len(sc) : sc[i] \in Seq(Statement)
  BY <1>1, ElementOfSeq
<1> QED BY <1>1, <1>2, <1>3 DEF Supported

LEMMA OpenedLevels ==
  ASSUME SessionInv, NEW sc \in Script, OpenScript(sc), Numbers(numbering, registry)
  PROVE  /\ OpenedAs(sc, chain', registry')
         /\ Numbers(ScriptEntered(numbering, sc), registry')
         /\ Owners(registry')
<1> DEFINE first == LevelRegistered(registry, sc[1])
           outer == Node("start", LevelFacts(registry, sc[1]))
           inner == Node("start", LevelFacts(first, sc[2]))
           n1 == LevelEntered(numbering, sc[1])
<1>1. Supported(sc)
  BY DEF OpenScript
<1>2. /\ Len(sc) \in 1..2
      /\ \A i \in 1..Len(sc) : sc[i] \in Seq(Statement) /\ Len(sc[i]) \in 1..2
  BY <1>1, ScriptTyped
<1>3. registry \in SUBSET Statement /\ Owners(registry)
  BY DEF SessionInv, OneOwnerPerNotation, Owners, TypeOK
<1>4. /\ first \in SUBSET Statement /\ Owners(first)
      /\ LevelFacts(registry, sc[1]) \in Seq(Statement)
      /\ Len(LevelFacts(registry, sc[1])) = Len(sc[1])
      /\ \A k \in 1..Len(sc[1]) :
           /\ LevelFacts(registry, sc[1])[k] \in first \cup Axioms
           /\ Notation(LevelFacts(registry, sc[1])[k]) = Notation(sc[1][k])
  BY <1>2, <1>3, LevelAllocation, LevelNamed
<1>5. Numbers(n1, first)
  BY LevelNumbers
<1>6. /\ outer \in NodeType /\ outer.kind = "start"
      /\ outer.facts \in Seq(Statement) /\ Len(outer.facts) = Len(sc[1])
      /\ \A k \in 1..Len(sc[1]) :
           outer.facts[k] \in first \cup Axioms /\ Notation(outer.facts[k]) = Notation(sc[1][k])
  BY <1>4, NodeFacts
<1>7. CASE Len(sc) = 1
  <2>1. chain' = <<outer>> /\ registry' = first /\ ScriptEntered(numbering, sc) = n1
    BY <1>7 DEF OpenScript, ScriptEntered
  <2> HIDE DEF outer, first, n1
  <2>2. chain' \in Seq(NodeType) /\ Len(chain') = 1 /\ chain'[1] = outer
    BY <1>6, <2>1
  <2>3. OpenedAs(sc, chain', registry')
    BY <1>6, <1>7, <2>1, <2>2 DEF OpenedAs
  <2> QED BY <1>4, <1>5, <2>1, <2>3
<1>8. CASE Len(sc) = 2
  <2> DEFINE second == LevelRegistered(first, sc[2])
             n2 == LevelEntered(n1, sc[2])
  <2>1. chain' = <<outer, inner>> /\ registry' = second /\ ScriptEntered(numbering, sc) = n2
    BY <1>8 DEF OpenScript, ScriptEntered
  <2> HIDE DEF outer, first, n1
  <2>2. sc[2] \in Seq(Statement) /\ Len(sc[2]) \in 1..2
    BY <1>2, <1>8
  <2>3. /\ second \in SUBSET Statement /\ Owners(second) /\ first \subseteq second
        /\ LevelFacts(first, sc[2]) \in Seq(Statement)
        /\ Len(LevelFacts(first, sc[2])) = Len(sc[2])
        /\ \A k \in 1..Len(sc[2]) :
             /\ LevelFacts(first, sc[2])[k] \in second \cup Axioms
             /\ Notation(LevelFacts(first, sc[2])[k]) = Notation(sc[2][k])
    BY <1>4, <2>2, LevelAllocation, LevelNamed
  <2>4. Numbers(n2, second)
    BY <1>5, LevelNumbers
  <2>5. /\ inner \in NodeType /\ inner.kind = "start"
        /\ inner.facts \in Seq(Statement) /\ Len(inner.facts) = Len(sc[2])
        /\ \A k \in 1..Len(sc[2]) :
             inner.facts[k] \in second \cup Axioms /\ Notation(inner.facts[k]) = Notation(sc[2][k])
    BY <2>3, NodeFacts
  <2> HIDE DEF inner, second, n2
  <2>6. chain' \in Seq(NodeType) /\ Len(chain') = 2 /\ chain'[1] = outer /\ chain'[2] = inner
    BY <1>6, <2>1, <2>5
  <2>7. \A i \in 1..2 : i = 1 \/ i = 2
    OBVIOUS
  <2>8. \A k \in 1..Len(sc[1]) : outer.facts[k] \in second \cup Axioms
    BY <1>6, <2>3
  <2>9. OpenedAs(sc, chain', registry')
    <3>1. ASSUME NEW i \in 1..2
          PROVE  /\ chain'[i].kind = "start" /\ Len(chain'[i].facts) = Len(sc[i])
                 /\ chain'[i].facts \in Seq(Statement)
                 /\ \A k \in 1..Len(sc[i]) :
                      /\ chain'[i].facts[k] \in registry' \cup Axioms
                      /\ Notation(chain'[i].facts[k]) = Notation(sc[i][k])
      <4>1. CASE i = 1
        BY <1>6, <2>1, <2>6, <2>8, <4>1
      <4>2. CASE i = 2
        BY <2>1, <2>5, <2>6, <4>2
      <4> QED BY <2>7, <4>1, <4>2
    <3> QED BY <1>8, <2>6, <3>1 DEF OpenedAs
  <2> QED BY <2>1, <2>3, <2>4, <2>9
<1> QED BY <1>2, <1>7, <1>8

\* The table of a spine that has just opened: a row for each hypothesis, in order.
OpenTable(q, c, n) ==
  /\ q \in Seq(RowType)
  /\ \A j \in 1..Len(q) : q[j].cites = <<>> /\ q[j].role = "opened"
  /\ \A j \in 1..Len(q) : \E i \in 1..Len(c) : \E w \in Elements(c[i].facts) :
       q[j].id = OwnId(n, w) /\ q[j].text = Notation(w) /\ q[j].depth = i - 1
  /\ \A i \in 1..Len(c) : \A w \in Elements(c[i].facts) :
       \E j \in 1..Len(q) : q[j].id = OwnId(n, w) /\ q[j].depth = i - 1
  /\ \A i, j \in 1..Len(q) : i <= j => q[i].depth <= q[j].depth

LEMMA OpenedTable ==
  ASSUME NEW n, NEW reg, NEW c, NEW sc \in Script, Supported(sc),
         Numbers(n, reg), Owners(reg), OpenedAs(sc, c, reg)
  PROVE  OpenTable(OpenedRows(n, sc), c, n)
<1> DEFINE q == OpenedRows(n, sc)
           q1 == LevelRows(n, sc[1], 0)
           q2 == LevelRows(n, sc[2], 1)
<1>1. /\ Len(sc) \in 1..2
      /\ \A i \in 1..Len(sc) : sc[i] \in Seq(Statement) /\ Len(sc[i]) \in 1..2
  BY ScriptTyped
<1>2. ASSUME NEW i \in 1..Len(sc)
      PROVE  /\ LevelRows(n, sc[i], i - 1) \in Seq(RowType)
             /\ Len(LevelRows(n, sc[i], i - 1)) = Len(c[i].facts)
             /\ \A k \in 1..Len(c[i].facts) :
                  LET r == LevelRows(n, sc[i], i - 1)[k]
                  IN  /\ r.id = OwnId(n, c[i].facts[k]) /\ r.text = Notation(c[i].facts[k])
                      /\ r.depth = i - 1 /\ r.cites = <<>> /\ r.role = "opened"
  <2> DEFINE ss == sc[i]
             fs == c[i].facts
             depth == i - 1
  <2>1. ss \in Seq(Statement) /\ depth \in {0, 1}
    BY <1>1
  <2>2. /\ Len(fs) = Len(ss)
        /\ \A k \in 1..Len(ss) : fs[k] \in reg \cup Axioms /\ Notation(fs[k]) = Notation(ss[k])
    BY DEF OpenedAs
  <2> HIDE DEF ss, fs, depth
  <2>3. /\ LevelRows(n, ss, depth) \in Seq(RowType)
        /\ Len(LevelRows(n, ss, depth)) = Len(fs)
        /\ \A k \in 1..Len(fs) :
             LET r == LevelRows(n, ss, depth)[k]
             IN  /\ r.id = OwnId(n, fs[k]) /\ r.text = Notation(fs[k])
                 /\ r.depth = depth /\ r.cites = <<>> /\ r.role = "opened"
    BY <2>1, <2>2, LevelRowsFacts
  <2> QED BY <2>3 DEF ss, fs, depth
<1>3. \A i \in 1..Len(sc) : c[i].facts \in Seq(Statement)
  BY DEF OpenedAs
<1>4. Len(c) = Len(sc)
  BY DEF OpenedAs
<1>5. \A i \in 1..Len(sc) : \A w : w \in Elements(c[i].facts) <=>
         \E k \in 1..Len(c[i].facts) : w = c[i].facts[k]
  BY <1>3, LenProperties DEF Elements
<1>6. CASE Len(sc) = 1
  <2>1. q = q1
    BY <1>6 DEF OpenedRows
  <2>2. /\ q1 \in Seq(RowType) /\ Len(q1) = Len(c[1].facts)
        /\ \A k \in 1..Len(c[1].facts) :
             /\ q1[k].id = OwnId(n, c[1].facts[k]) /\ q1[k].text = Notation(c[1].facts[k])
             /\ q1[k].depth = 0 /\ q1[k].cites = <<>> /\ q1[k].role = "opened"
    BY <1>2, <1>6
  <2> HIDE DEF q1
  <2>3. \A i \in 1..Len(c) : i = 1
    BY <1>4, <1>6
  <2>4. \A j \in 1..Len(q1) : \E i \in 1..Len(c) : \E w \in Elements(c[i].facts) :
          q1[j].id = OwnId(n, w) /\ q1[j].text = Notation(w) /\ q1[j].depth = i - 1
    BY <1>4, <1>5, <1>6, <2>2
  <2>5. \A i \in 1..Len(c) : \A w \in Elements(c[i].facts) :
          \E j \in 1..Len(q1) : q1[j].id = OwnId(n, w) /\ q1[j].depth = i - 1
    BY <1>4, <1>5, <1>6, <2>2, <2>3
  <2>6. \A i, j \in 1..Len(q1) : i <= j => q1[i].depth <= q1[j].depth
    BY <2>2
  <2>7. OpenTable(q1, c, n)
    BY <2>2, <2>4, <2>5, <2>6 DEF OpenTable
  <2> QED BY <2>1, <2>7
<1>7. CASE Len(sc) = 2
  <2>1. q = q1 \o q2
    BY <1>7 DEF OpenedRows
  <2>2. /\ q1 \in Seq(RowType) /\ Len(q1) = Len(c[1].facts)
        /\ \A k \in 1..Len(c[1].facts) :
             /\ q1[k].id = OwnId(n, c[1].facts[k]) /\ q1[k].text = Notation(c[1].facts[k])
             /\ q1[k].depth = 0 /\ q1[k].cites = <<>> /\ q1[k].role = "opened"
    BY <1>2, <1>7
  <2>3. /\ q2 \in Seq(RowType) /\ Len(q2) = Len(c[2].facts)
        /\ \A k \in 1..Len(c[2].facts) :
             /\ q2[k].id = OwnId(n, c[2].facts[k]) /\ q2[k].text = Notation(c[2].facts[k])
             /\ q2[k].depth = 1 /\ q2[k].cites = <<>> /\ q2[k].role = "opened"
    BY <1>2, <1>7
  <2> HIDE DEF q1, q2
  <2> DEFINE p == q1 \o q2
  <2>4. /\ p \in Seq(RowType) /\ Len(p) = Len(q1) + Len(q2)
        /\ Len(q1) \in Nat /\ Len(q2) \in Nat
        /\ \A j \in 1..(Len(q1) + Len(q2)) :
             p[j] = IF j <= Len(q1) THEN q1[j] ELSE q2[j - Len(q1)]
    <3>1. q1 \in Seq(RowType) /\ q2 \in Seq(RowType)
      BY <2>2, <2>3
    <3> QED BY <3>1, ConcatProperties, LenProperties
  <2> HIDE DEF p
  <2>5. \A j \in 1..Len(p) : \/ j \in 1..Len(q1) /\ p[j] = q1[j]
                             \/ j - Len(q1) \in 1..Len(q2) /\ j > Len(q1) /\ p[j] = q2[j - Len(q1)]
    BY <2>4
  <2>6. \A k \in 1..Len(q1) : k \in 1..Len(p) /\ p[k] = q1[k]
    BY <2>4
  <2>7. \A k \in 1..Len(q2) : Len(q1) + k \in 1..Len(p) /\ p[Len(q1) + k] = q2[k]
    BY <2>4
  <2>8. 1 \in 1..Len(c) /\ 2 \in 1..Len(c) /\ \A i \in 1..Len(c) : i = 1 \/ i = 2
    BY <1>4, <1>7
  <2>9. \A j \in 1..Len(p) : p[j].cites = <<>> /\ p[j].role = "opened"
    <3>1. \A k \in 1..Len(q1) : q1[k].cites = <<>> /\ q1[k].role = "opened"
      BY <2>2
    <3>2. \A k \in 1..Len(q2) : q2[k].cites = <<>> /\ q2[k].role = "opened"
      BY <2>3
    <3> QED BY <2>5, <3>1, <3>2
  <2>10. ASSUME NEW j \in 1..Len(p)
         PROVE  \E i \in 1..Len(c) : \E w \in Elements(c[i].facts) :
                  p[j].id = OwnId(n, w) /\ p[j].text = Notation(w) /\ p[j].depth = i - 1
    <3>1. CASE j \in 1..Len(q1) /\ p[j] = q1[j]
      <4>1. c[1].facts[j] \in Elements(c[1].facts)
        BY <1>4, <1>5, <2>2, <2>8, <3>1
      <4> QED BY <2>2, <2>8, <3>1, <4>1
    <3>2. CASE j - Len(q1) \in 1..Len(q2) /\ j > Len(q1) /\ p[j] = q2[j - Len(q1)]
      <4>1. c[2].facts[j - Len(q1)] \in Elements(c[2].facts)
        BY <1>4, <1>5, <2>3, <2>8, <3>2
      <4> QED BY <2>3, <2>8, <3>2, <4>1
    <3> QED BY <2>5, <3>1, <3>2
  <2>11. ASSUME NEW i \in 1..Len(c), NEW w \in Elements(c[i].facts)
         PROVE  \E j \in 1..Len(p) : p[j].id = OwnId(n, w) /\ p[j].depth = i - 1
    <3>1. PICK k \in 1..Len(c[i].facts) : w = c[i].facts[k]
      BY <1>4, <1>5
    <3>2. CASE i = 1
      BY <2>2, <2>6, <3>1, <3>2
    <3>3. CASE i = 2
      <4>1. k \in 1..Len(q2) /\ q2[k].id = OwnId(n, w) /\ q2[k].depth = i - 1
        BY <2>3, <3>1, <3>3
      <4> QED BY <2>7, <4>1
    <3> QED BY <2>8, <3>2, <3>3
  <2>12. ASSUME NEW i \in 1..Len(p), NEW j \in 1..Len(p), i <= j
         PROVE  p[i].depth <= p[j].depth
    <3>1. CASE j \in 1..Len(q1) /\ p[j] = q1[j]
      <4>1. i \in 1..Len(q1) /\ p[i] = q1[i]
        BY <2>4, <2>6, <2>12, <3>1
      <4> QED BY <2>2, <3>1, <4>1
    <3>2. CASE j - Len(q1) \in 1..Len(q2) /\ j > Len(q1) /\ p[j] = q2[j - Len(q1)]
      <4>1. p[j].depth = 1
        BY <2>3, <3>2
      <4>2. p[i].depth = 0 \/ p[i].depth = 1
        BY <2>2, <2>3, <2>5
      <4> QED BY <4>1, <4>2
    <3> QED BY <2>5, <3>1, <3>2
  <2>13. OpenTable(p, c, n)
    BY <2>4, <2>9, <2>10, <2>11, <2>12 DEF OpenTable
  <2> QED BY <2>1, <2>13 DEF p
<1> QED BY <1>1, <1>6, <1>7

-----------------------------------------------------------------------------
(* What the session's steps do to the spine.                               *)

LEMMA DepthOf ==
  ASSUME NEW c \in Seq(NodeType), NEW d \in 0..Len(c),
         \A i \in 1..Len(c) : c[i].kind = "start" <=> i <= d
  PROVE  Depth(c) = IF d = 0 THEN 0 ELSE d - 1
<1>1. Len(c) \in Nat /\ DOMAIN c = 1..Len(c)
  BY LenProperties
<1>2. {i \in DOMAIN c : c[i].kind = "start"} = 1..d
  BY <1>1
<1>3. Cardinality(1..d) = d
  BY <1>1, FS_Interval
<1> QED BY <1>2, <1>3 DEF Depth

LEMMA InferFacts ==
  ASSUME SessionInv, NEW m \in Visible, Infer(m)
  PROVE  LET a == Allocate(Probed, Consequent(m))
         IN  /\ Proving /\ WithinUniverse /\ Consequent(m) \in Statement
             /\ ~Seen(Consequent(m)) /\ Seen(Minor(m))
             /\ Notation(a) = Notation(Consequent(m)) /\ a \notin Axioms
             /\ chain' \in Seq(NodeType) /\ Len(chain) \in Nat /\ Len(chain') = Len(chain) + 1
             /\ \A i \in 1..Len(chain) : chain'[i] = chain[i]
             /\ Elements(chain'[Len(chain) + 1].facts) = {a}
             /\ Facts(chain') = Facts(chain) \cup {a}
             /\ \A i \in 1..Len(chain') : chain'[i].kind = "start" <=> i <= Level
             /\ Proving' /\ Level \in 1..Len(chain) /\ Level' = Level
             /\ registry' \in SUBSET Registered(Probed, Consequent(m)) /\ a \in registry'
             /\ \A s \in registry : s \in Elements(lemmas) => s \in registry'
             /\ lemmas' = lemmas /\ SessionInv'
<1> DEFINE c == Consequent(m)
           a == Allocate(Probed, c)
           node == Node("infer", <<a>>)
           reg == Registered(Probed, c)
<1>1. /\ Proving /\ WithinUniverse /\ m \in Applicable
      /\ chain' = Append(chain, node) /\ lemmas' = lemmas
      /\ registry' = Live(reg, lemmas, chain', script, pinned)
  BY DEF Infer
<1>2. /\ TypeOK /\ SpineShape /\ m \in Statement /\ c \in Statement
      /\ ~Seen(c) /\ Seen(Minor(m))
  BY <1>1, VisibleType, ArmAssumption DEF SessionInv, Applicable
<1>3. Probed \in SUBSET Statement /\ Owners(Probed) /\ registry \subseteq Probed
  BY <1>1, ProbedFacts
<1>4. /\ Notation(a) = Notation(c) /\ a \in Statement /\ a \in reg \cup Axioms
      /\ Owners(reg) /\ Probed \subseteq reg
  BY <1>2, <1>3, AllocateFacts, AllocateType, RegisteredOwners
<1>5. a \notin Axioms
  BY <1>2, <1>4 DEF Seen, Visible
<1> HIDE DEF a, reg, c
<1>6. node \in NodeType /\ node.kind = "infer" /\ Elements(node.facts) = {a}
  <2>1. <<a>> \in Seq(Statement)
    BY <1>4
  <2> QED BY <2>1, NodeFacts, SingletonElements
<1> HIDE DEF node
<1>7. /\ Len(chain) \in Nat /\ Level \in 1..Len(chain) /\ chain \in Seq(NodeType)
      /\ \A i \in 1..Len(chain) : chain[i].kind = "start" <=> i <= Level
  BY <1>1, <1>2, SpineLevel DEF TypeOK
<1>8. /\ chain' \in Seq(NodeType) /\ Len(chain') = Len(chain) + 1
      /\ \A i \in 1..(Len(chain) + 1) : chain'[i] = IF i <= Len(chain) THEN chain[i] ELSE node
      /\ Facts(chain') = Facts(chain) \cup {a}
  BY <1>1, <1>6, <1>7, AppendFacts, FactsAppend
<1>9. \A i \in 1..Len(chain') : chain'[i].kind = "start" <=> i <= Level
  BY <1>6, <1>7, <1>8
<1>10. Level' = Level
  <2>1. Starts' = 1..Level
    <3>1. DOMAIN chain' = 1..Len(chain')
      BY <1>8, LenProperties
    <3> QED BY <1>7, <1>8, <1>9, <3>1 DEF Starts
  <2>2. (CHOOSE i \in Starts' : \A j \in Starts' : j <= i) = Level
    <3>1. Level \in Nat /\ Level > 0
      BY <1>7
    <3> QED BY <2>1, <3>1, LastStart
  <2> QED BY <2>2 DEF Level
<1>11. Proving'
  BY <1>7, <1>8, LenProperties DEF Proving
<1>12. SessionInv'
  BY InferInv
<1>13. registry' \in SUBSET reg
  BY <1>1, <1>4, LiveFacts
<1>14. \A s \in registry : s \in Elements(lemmas) => s \in registry'
  <2>1. registry \in SUBSET Statement
    BY <1>2 DEF TypeOK
  <2> QED BY <1>1, <1>3, <1>4, <2>1, LiveFacts
<1>15. a \in registry'
  BY <1>5, <1>8, <1>12 DEF SessionInv, VisibleOwned, Visible
<1>16. /\ \A i \in 1..Len(chain) : chain'[i] = chain[i]
       /\ Elements(chain'[Len(chain) + 1].facts) = {a}
  BY <1>6, <1>7, <1>8
<1> QED BY <1>1, <1>2, <1>4, <1>5, <1>7, <1>8, <1>9, <1>10, <1>11, <1>12, <1>13, <1>14,
  <1>15, <1>16 DEF a, reg, c

\* What a discharge states, and what it records.
LEMMA DischargeFacts ==
  ASSUME SessionInv, DischargeOffered, WithinUniverse
  PROVE  /\ Proving /\ Discharged \in Statement /\ ~Seen(Discharged)
         /\ Staged \notin Axioms /\ Notation(Staged) = Notation(Discharged)
         /\ Staged \in Registered(Probed, Discharged) /\ registry \subseteq Registered(Probed, Discharged)
         /\ Owners(Registered(Probed, Discharged))
         /\ Level \in 1..Len(chain) /\ Len(chain[Level].facts) \in 1..2
         /\ chain[Level].facts \in Seq(Statement)
         /\ \A k \in 1..Len(chain[Level].facts) :
              chain[Level].facts[k] \in Elements(chain[Level].facts)
         /\ Elements(chain[Level].facts) \subseteq Facts(chain)
         /\ Conclusion \in Facts(chain)
         /\ Len(chain[Level].facts) # 1 => Discharged.kind = "rule"
<1>1. /\ Proving /\ Discharged \in Statement /\ ~Seen(Discharged)
      /\ Staged \notin Axioms /\ Notation(Staged) = Notation(Discharged)
      /\ Staged \in Registered(Probed, Discharged) /\ registry \subseteq Registered(Probed, Discharged)
      /\ Owners(Registered(Probed, Discharged))
  BY StagedFacts DEF DischargeOffered, DischargeListed
<1>2. /\ chain \in Seq(NodeType) /\ Len(chain) \in Nat /\ Level \in 1..Len(chain)
      /\ \A i \in 1..Len(chain) :
           chain[i].facts \in Seq(Statement) /\ Len(chain[i].facts) \in 1..2
  BY <1>1, SpineLevel DEF SessionInv, TypeOK
<1>3. \A i \in 1..Len(chain) : \A k \in 1..Len(chain[i].facts) :
         chain[i].facts[k] \in Elements(chain[i].facts)
  BY <1>2, LenProperties DEF Elements
<1>4. \A i \in 1..Len(chain) : Elements(chain[i].facts) \subseteq Facts(chain)
  BY <1>2, FactsMember
<1>5. Conclusion \in Facts(chain)
  <2> DEFINE L == Len(chain)
  <2>1. L \in 1..Len(chain) /\ Len(chain[L].facts) \in 1..Len(chain[L].facts)
    <3>1. L \in 1..Len(chain)
      BY <1>2
    <3> HIDE DEF L
    <3>2. Len(chain[L].facts) \in 1..2
      BY <1>2, <3>1
    <3>3. \A n \in 1..2 : n \in 1..n
      OBVIOUS
    <3> QED BY <3>1, <3>2, <3>3
  <2>2. chain[L].facts[Len(chain[L].facts)] \in Elements(chain[L].facts)
    BY <1>3, <2>1
  <2>3. Conclusion = chain[L].facts[Len(chain[L].facts)]
    BY DEF Conclusion, Top
  <2> QED BY <1>4, <2>1, <2>2, <2>3
<1>6. ASSUME Len(chain[Level].facts) # 1 PROVE Discharged.kind = "rule"
  BY <1>6 DEF Discharged, Closed, Rule
<1> QED BY <1>1, <1>2, <1>3, <1>4, <1>5, <1>6

LEMMA DischargeInnerFacts ==
  ASSUME SessionInv, DischargeInner
  PROVE  /\ DischargeOffered /\ WithinUniverse /\ Level > 1
         /\ chain' \in Seq(NodeType) /\ Len(chain') = Level
         /\ \A i \in 1..(Level - 1) : chain'[i] = chain[i]
         /\ Elements(chain'[Level].facts) = {Staged}
         /\ \A i \in 1..Len(chain') : chain'[i].kind = "start" <=> i <= Level - 1
         /\ Proving' /\ Level' = Level - 1
         /\ registry' \in SUBSET Registered(Probed, Discharged) /\ Staged \in registry'
         /\ \A s \in registry : s \in Elements(lemmas) => s \in registry'
         /\ lemmas' = lemmas /\ SessionInv'
<1> DEFINE reg == Registered(Probed, Discharged)
           below == SubSeq(chain, 1, Level - 1)
           node == Node("lemmas", <<Staged>>)
<1>1. /\ DischargeOffered /\ WithinUniverse /\ Level > 1 /\ lemmas' = lemmas
      /\ chain' = Append(below, Node("lemmas", Recorded(<<>>, Staged)))
      /\ registry' = Live(reg, lemmas, chain', script, pinned')
  BY DEF DischargeInner
<1>2. /\ TypeOK /\ SpineShape /\ Proving /\ Staged \in Statement /\ Staged \notin Axioms
      /\ reg \in SUBSET Statement /\ Owners(reg) /\ registry \subseteq reg
  BY <1>1, StagedFacts DEF SessionInv
<1>3. /\ Level \in 1..Len(chain) /\ Len(chain) \in Nat /\ chain \in Seq(NodeType)
      /\ \A i \in 1..Len(chain) : chain[i].kind = "start" <=> i <= Level
  BY <1>2, SpineLevel DEF TypeOK
<1>4. Recorded(<<>>, Staged) = <<Staged>>
  <2>1. ~ \E i \in DOMAIN <<>> : Notation(<<>>[i]) = Notation(Staged)
    OBVIOUS
  <2>2. Append(<<>>, Staged) = <<Staged>>
    OBVIOUS
  <2> QED BY <1>2, <2>1, <2>2 DEF Recorded
<1>5. node \in NodeType /\ node.kind = "lemmas" /\ Elements(node.facts) = {Staged}
  <2>1. <<Staged>> \in Seq(Statement)
    BY <1>2
  <2> QED BY <2>1, NodeFacts, SingletonElements, ZenonT(40)
<1>6. chain' = Append(below, node)
  BY <1>1, <1>4
<1>7. /\ below \in Seq(NodeType) /\ Len(below) = Level - 1
      /\ \A i \in 1..(Level - 1) : below[i] = chain[i]
  <2>1. Level - 1 \in 0..Len(chain)
    BY <1>3
  <2> QED BY <1>3, <2>1, PrefixProperties
<1> HIDE DEF reg, below, node
<1>8. /\ chain' \in Seq(NodeType) /\ Len(chain') = Level
      /\ \A i \in 1..Level : chain'[i] = IF i <= Level - 1 THEN below[i] ELSE node
      /\ Staged \in Facts(chain')
  <2>1. Len(below) + 1 = Level
    BY <1>3, <1>7
  <2>2. /\ chain' \in Seq(NodeType) /\ Len(chain') = Len(below) + 1
        /\ \A i \in 1..(Len(below) + 1) : chain'[i] = IF i <= Len(below) THEN below[i] ELSE node
        /\ Facts(chain') = Facts(below) \cup Elements(node.facts)
    BY <1>5, <1>6, <1>7, AppendFacts, FactsAppend
  <2> QED BY <1>5, <1>7, <2>1, <2>2
<1>9. /\ \A i \in 1..(Level - 1) : chain'[i] = chain[i]
      /\ chain'[Level] = node
  BY <1>3, <1>7, <1>8
<1>10. \A i \in 1..Len(chain') : chain'[i].kind = "start" <=> i <= Level - 1
  BY <1>3, <1>5, <1>8, <1>9
<1>11. Level' = Level - 1
  <2>1. Starts' = 1..(Level - 1)
    <3>1. DOMAIN chain' = 1..Len(chain')
      BY <1>8, LenProperties
    <3> QED BY <1>3, <1>8, <1>10, <3>1 DEF Starts
  <2>2. (CHOOSE i \in Starts' : \A j \in Starts' : j <= i) = Level - 1
    <3>1. Level - 1 \in Nat /\ Level - 1 > 0
      BY <1>1, <1>3
    <3> QED BY <2>1, <3>1, LastStart
  <2> QED BY <2>2 DEF Level
<1>12. Proving'
  BY <1>3, <1>8, LenProperties DEF Proving
<1>13. SessionInv'
  BY DischargeInnerInv
<1>14. registry' \in SUBSET reg
  BY <1>1, <1>2, LiveFacts
<1>15. \A s \in registry : s \in Elements(lemmas) => s \in registry'
  <2>1. registry \in SUBSET Statement
    BY <1>2 DEF TypeOK
  <2> QED BY <1>1, <1>2, <2>1, LiveFacts
<1>16. Staged \in registry'
  BY <1>2, <1>8, <1>13 DEF SessionInv, VisibleOwned, Visible
<1> QED BY <1>1, <1>5, <1>8, <1>9, <1>10, <1>11, <1>12, <1>13, <1>14, <1>15, <1>16 DEF reg

LEMMA DischargeOuterFacts ==
  ASSUME SessionInv, DischargeOuter
  PROVE  /\ DischargeOffered /\ WithinUniverse /\ Level = 1
         /\ chain' = <<>> /\ ~Proving'
         /\ registry' \in SUBSET Registered(Probed, Discharged) /\ Staged \in registry'
         /\ \A s \in registry : s \in Elements(lemmas) => s \in registry'
         /\ Elements(lemmas) \subseteq Elements(lemmas') /\ SessionInv'
<1> DEFINE reg == Registered(Probed, Discharged)
<1>1. /\ DischargeOffered /\ WithinUniverse /\ Level = 1
      /\ lemmas' = Recorded(lemmas, Staged) /\ chain' = <<>>
      /\ registry' = Live(reg, lemmas', <<>>, <<>>, {})
  BY DEF DischargeOuter
<1>2. /\ TypeOK /\ Staged \in Statement /\ Staged \notin Axioms /\ ~Seen(Discharged)
      /\ Notation(Staged) = Notation(Discharged)
      /\ reg \in SUBSET Statement /\ Owners(reg) /\ registry \subseteq reg
  BY <1>1, StagedFacts, DischargeFacts DEF SessionInv
<1> HIDE DEF reg
<1>3. lemmas \in Seq(Statement) /\ DOMAIN lemmas = 1..Len(lemmas) /\ Len(lemmas) \in Nat
  BY <1>2, LenProperties DEF TypeOK
<1>4. ~ \E i \in DOMAIN lemmas : Notation(lemmas[i]) = Notation(Staged)
  BY <1>2 DEF Seen, Visible, Elements
<1>5. lemmas' = Append(lemmas, Staged)
  BY <1>1, <1>2, <1>4 DEF Recorded
<1>6. /\ lemmas' \in Seq(Statement) /\ Len(lemmas') = Len(lemmas) + 1
      /\ \A i \in 1..(Len(lemmas) + 1) : lemmas'[i] = IF i <= Len(lemmas) THEN lemmas[i] ELSE Staged
  BY <1>2, <1>3, <1>5, AppendFacts
<1>7. DOMAIN lemmas' = 1..(Len(lemmas) + 1)
  BY <1>6, LenProperties
<1>8. Staged \in Elements(lemmas') /\ Elements(lemmas) \subseteq Elements(lemmas')
  <2>1. Len(lemmas) + 1 \in DOMAIN lemmas' /\ lemmas'[Len(lemmas) + 1] = Staged
    BY <1>3, <1>6, <1>7
  <2>2. \A i \in DOMAIN lemmas : i \in DOMAIN lemmas' /\ lemmas'[i] = lemmas[i]
    BY <1>3, <1>6, <1>7
  <2> QED BY <2>1, <2>2 DEF Elements
<1>9. SessionInv'
  BY DischargeOuterInv
<1>10. Staged \in registry'
  BY <1>2, <1>8, <1>9 DEF SessionInv, VisibleOwned, Visible
<1>11. registry' \in SUBSET reg
  BY <1>1, <1>2, LiveFacts
<1>12. \A s \in registry : s \in Elements(lemmas) => s \in registry'
  <2>1. registry \in SUBSET Statement
    BY <1>2 DEF TypeOK
  <2> QED BY <1>1, <1>2, <1>8, <2>1, LiveFacts
<1>13. ~Proving'
  BY <1>1 DEF Proving
<1> QED BY <1>1, <1>8, <1>9, <1>10, <1>11, <1>12, <1>13 DEF reg

-----------------------------------------------------------------------------
(* The inductive invariant.                                                *)

NamingInv ==
  /\ Numbers(numbering, registry)
  /\ rows \in Seq(RowType)
  /\ Reads(numbering, registry, rows)

NoRowIn(q, id) == \A j \in 1..Len(q) : q[j].id # id

\* Givens, and at most one level over them.
LevelsBounded == Proving => Level \in 1..2

\* While the inner level is open, no row has left it, and none says what cannot be seen.
InnerRows ==
  Proving /\ Level = 2 =>
    /\ \A i, j \in 1..Len(rows) : i <= j => rows[i].depth <= rows[j].depth
    /\ \A i \in 1..Len(rows) : \E w \in Facts(chain) : Notation(w) = rows[i].text

\* An open level's hypothesis has a row at its depth, with no deeper one above.
OpenedAt(i, w) ==
  \E j \in 1..Len(rows) : /\ rows[j].id = OwnId(numbering, w) /\ rows[j].depth = i - 1
                          /\ \A k \in 1..j : rows[k].depth <= i - 1

HypothesesOpened ==
  Proving => \A i \in 1..Level : \A w \in Elements(chain[i].facts) : OpenedAt(i, w)

\* What the spine says has a row in a scope that is open, but for what every script
\* can see and for the rule of a discharged pair, which has none.
RowedAt(i, w) ==
  \/ SeenEverywhere(OwnId(numbering, w))
  \/ \E j \in 1..Len(rows) : /\ rows[j].id = OwnId(numbering, w)
                             /\ rows[j].depth = 0 \/ (Level = 2 /\ i >= 2)
  \/ Level = 1 /\ PrintsAsRule(w) /\ NoRowIn(rows, OwnId(numbering, w))

FactsHaveRows ==
  Proving => \A i \in 1..Len(chain) : \A w \in Elements(chain[i].facts) : RowedAt(i, w)

\* What a row cites has a row in scope, or will never have one.
OwedAt(i, id) ==
  \/ SeenEverywhere(id)
  \/ \E j \in 1..(i - 1) : rows[j].id = id /\ InScope(j, i)
  \/ NoRowIn(rows, id) /\ (Proving => Level = 1 /\ \E w \in Facts(chain) : OwnId(numbering, w) = id)

CitesOwed == \A i \in 1..Len(rows) : \A id \in Cited(i) : OwedAt(i, id)

LedgerInv ==
  /\ SessionInv /\ NamingInv /\ LevelsBounded /\ InnerRows
  /\ HypothesesOpened /\ FactsHaveRows /\ CitesOwed /\ IntroductionsCloseScopes

-----------------------------------------------------------------------------
(* A step that records a statement which nothing visible says yet.         *)

\* The ids after it; and the row of what it records, were it to write one.
Recording(s, a) ==
  LET n == Enter(ProbedIds, s)
  IN  /\ Numbers(numbering', registry') /\ Reads(numbering', registry', rows)
      /\ \A w \in Visible : w \in registry' \cup Axioms =>
           OwnId(numbering', w) = OwnId(numbering, w)
      /\ \A w \in Visible : OwnId(numbering, w) # OwnId(numbering', a)
      /\ \A w \in Visible : \A t : Notation(t) = Notation(w) => IdOf(n, t) = OwnId(numbering, w)
      /\ \A w \in Visible : OwnId(numbering, w) \in Nat
      /\ \A id : SeenEverywhere(id) => SeenEverywhere(id)'
      /\ \A j \in 1..Len(rows) :
           rows[j].id = OwnId(numbering', a) => rows[j].text = Notation(s)
      /\ \A role \in {"opened", "inferred", "introduced"} :
         \A cites \in Seq(Nat) : \A depth \in {0, 1} :
           LET r == Row(n, s, role, cites, depth)
           IN  /\ r \in RowType /\ Reads(numbering', registry', Append(rows, r))
               /\ r.id = OwnId(numbering', a) /\ r.text = Notation(a)
               /\ r.role = role /\ r.cites = cites /\ r.depth = depth

LEMMA RecordingFacts ==
  ASSUME SessionInv, NamingInv, Proving, WithinUniverse,
         NEW s \in Statement, ~Seen(s), NEW a, a = Allocate(Probed, s), a \in registry',
         registry' \in SUBSET Registered(Probed, s),
         numbering' = Pruned(Enter(ProbedIds, s), registry'),
         \A t \in registry : t \in Elements(lemmas) => t \in registry',
         Elements(lemmas) \subseteq Elements(lemmas')
  PROVE  Recording(s, a)
<1> DEFINE n == Enter(ProbedIds, s)
           reg == Registered(Probed, s)
<1>1. /\ Numbers(numbering, registry) /\ rows \in Seq(RowType)
      /\ Reads(numbering, registry, rows)
  BY DEF NamingInv
<1>2. /\ Numbers(n, reg) /\ Owners(reg) /\ Reads(n, reg, rows) /\ registry \subseteq reg
      /\ \A w \in registry \cup Axioms : OwnId(n, w) = OwnId(numbering, w)
  BY <1>1, RecordNumbers
<1>3. numbering' = Pruned(n, registry') /\ registry' \in SUBSET reg
  OBVIOUS
<1> HIDE DEF n, reg
<1>4. Notation(a) = Notation(s)
  BY AllocateFacts
<1>5. Numbers(numbering', registry') /\ Reads(numbering', registry', rows)
  BY <1>2, <1>3, PrunedNumbers, ReadsPruned
<1>6. \A w \in registry' \cup Axioms : OwnId(numbering', w) = OwnId(n, w)
  BY <1>2, <1>3, PrunedOwnId
<1>7. \A w \in Visible : w \in registry \cup Axioms
  BY DEF SessionInv, VisibleOwned
<1>8. \A w \in Visible : w \in registry' \cup Axioms => OwnId(numbering', w) = OwnId(numbering, w)
  BY <1>2, <1>6, <1>7
<1>9. ASSUME NEW w \in Visible PROVE OwnId(numbering, w) # OwnId(numbering', a)
  <2>1. OwnId(numbering, w) = OwnId(n, w) /\ OwnId(numbering', a) = OwnId(n, a)
    BY <1>2, <1>6, <1>7
  <2>2. w \in reg \cup Axioms /\ a \in reg \cup Axioms
    BY <1>2, <1>3, <1>7
  <2>3. OwnId(n, w) = OwnId(n, a) => w = a
    BY <1>2, <2>2, OwnIdFacts
  <2>4. w # a
    BY <1>4 DEF Seen
  <2> QED BY <2>1, <2>3, <2>4
<1>10. ASSUME NEW w \in Visible, NEW t, Notation(t) = Notation(w)
       PROVE  IdOf(n, t) = OwnId(numbering, w)
  <2>1. w \in reg \cup Axioms
    BY <1>2, <1>7
  <2>2. IdOf(n, t) = OwnId(n, w)
    BY <1>2, <1>10, <2>1, ReadBackId
  <2> QED BY <1>2, <1>7, <2>2
<1>11. \A w \in Visible : OwnId(numbering, w) \in Nat
  BY <1>1, <1>7, OwnIdFacts
<1>12. ASSUME NEW id, SeenEverywhere(id) PROVE SeenEverywhere(id)'
  <2>1. CASE \E b \in Axioms : AxiomId[b] = id
    BY <2>1 DEF SeenEverywhere
  <2>2. CASE \E t \in registry : numbering.ids[t] = id /\ t \in Elements(lemmas)
    <3>1. PICK t \in registry : numbering.ids[t] = id /\ t \in Elements(lemmas)
      BY <2>2
    <3>2. t \in registry' /\ t \in Elements(lemmas')
      BY <3>1
    <3>3. CASE t \in Axioms
      <4>1. Grows(numbering, registry, ProbedIds, Probed) /\ Grows(ProbedIds, Probed, n, reg)
        BY <1>1, ProbedNumbers, EnterNumbers DEF n, reg
      <4>2. n.ids[t] = numbering.ids[t]
        BY <3>1, <4>1 DEF Grows
      <4>3. numbering'.ids[t] = n.ids[t]
        BY <1>2, <1>3, <3>2, PrunedNumbers
      <4> QED BY <3>1, <3>2, <4>2, <4>3 DEF SeenEverywhere
    <3>4. CASE t \notin Axioms
      <4>1. numbering'.ids[t] = numbering.ids[t]
        BY <1>2, <1>6, <3>1, <3>2, <3>4 DEF OwnId
      <4> QED BY <3>1, <3>2, <4>1 DEF SeenEverywhere
    <3> QED BY <3>3, <3>4
  <2> QED BY <1>12, <2>1, <2>2 DEF SeenEverywhere
<1>13. ASSUME NEW j \in 1..Len(rows), rows[j].id = OwnId(numbering', a)
       PROVE  rows[j].text = Notation(s)
  BY <1>4, <1>5, <1>13 DEF Reads, OwnId
<1>14. ASSUME NEW role \in {"opened", "inferred", "introduced"},
              NEW cites \in Seq(Nat), NEW depth \in {0, 1}
       PROVE  LET r == Row(n, s, role, cites, depth)
              IN  /\ r \in RowType /\ Reads(numbering', registry', Append(rows, r))
                  /\ r.id = OwnId(numbering', a) /\ r.text = Notation(a)
                  /\ r.role = role /\ r.cites = cites /\ r.depth = depth
  <2> DEFINE r == Row(n, s, role, cites, depth)
  <2>1. a \in reg \cup Axioms /\ OwnId(numbering', a) = OwnId(n, a)
    BY <1>3, <1>6
  <2>2. /\ r \in RowType /\ r.id = OwnId(n, a) /\ r.text = Notation(a)
        /\ r.role = role /\ r.cites = cites /\ r.depth = depth
    BY <1>2, <1>4, <2>1, RowFacts
  <2> HIDE DEF r
  <2>3. Reads(numbering', registry', Append(rows, r))
    BY <1>1, <1>5, <2>1, <2>2, ReadsAppend
  <2> QED BY <2>1, <2>2, <2>3 DEF r
<1> QED BY <1>5, <1>8, <1>9, <1>10, <1>11, <1>12, <1>13, <1>14 DEF Recording, n

-----------------------------------------------------------------------------
(* The row a step writes.                                                  *)

\* What RowNumber searches a table for.
FirstOf(q, id) ==
  LET having == {i \in DOMAIN q : q[i].id = id}
  IN  IF having = {} THEN 0 ELSE CHOOSE i \in having : \A j \in having : i <= j

LEMMA FirstOfIs ==
  ASSUME NEW q \in Seq(RowType), NEW id, NEW h \in 1..Len(q), q[h].id = id,
         \A j \in 1..Len(q) : q[j].id = id => h <= j
  PROVE  FirstOf(q, id) = h
<1> DEFINE having == {i \in DOMAIN q : q[i].id = id}
<1>1. DOMAIN q = 1..Len(q) /\ Len(q) \in Nat
  BY LenProperties
<1>2. h \in having /\ \A j \in having : h <= j
  BY <1>1
<1>3. \A i \in having : (\A j \in having : i <= j) => i = h
  BY <1>1, <1>2
<1>4. (CHOOSE i \in having : \A j \in having : i <= j) = h
  BY <1>2, <1>3
<1> QED BY <1>2, <1>4 DEF FirstOf

LEMMA FirstOfExists ==
  ASSUME NEW q \in Seq(RowType), NEW id, NEW k \in 1..Len(q), q[k].id = id
  PROVE  /\ FirstOf(q, id) \in 1..k /\ FirstOf(q, id) \in 1..Len(q)
         /\ q[FirstOf(q, id)].id = id
         /\ \A j \in 1..Len(q) : q[j].id = id => FirstOf(q, id) <= j
<1> DEFINE Below == {p \in Nat \X Nat : p[1] < p[2]}
           having == {i \in 1..Len(q) : q[i].id = id}
<1>1. IsWellFoundedOn(Below, Nat)
  BY NatLessThanWellFounded DEF OpToRel
<1>2. ASSUME NEW x \in Nat, NEW y \in Nat, <<y, x>> \notin Below
      PROVE  x <= y
  BY <1>2
<1> HIDE DEF Below
<1>3. having \subseteq Nat /\ k \in having /\ Len(q) \in Nat
  BY LenProperties
<1>4. PICK h \in having : \A y \in having : <<y, h>> \notin Below
  BY <1>1, <1>3, WFMin
<1>5. \A y \in having : h <= y
  BY <1>2, <1>3, <1>4
<1>6. h \in 1..Len(q) /\ q[h].id = id /\ \A j \in 1..Len(q) : q[j].id = id => h <= j
  BY <1>5
<1>7. FirstOf(q, id) = h
  BY <1>6, FirstOfIs
<1> QED BY <1>3, <1>6, <1>7

LEMMA FirstOfAppend ==
  ASSUME NEW q \in Seq(RowType), NEW r \in RowType, NEW id, NEW k \in 1..Len(q), q[k].id = id
  PROVE  FirstOf(Append(q, r), id) = FirstOf(q, id)
<1> DEFINE p == Append(q, r)
           h == FirstOf(q, id)
<1>1. /\ p \in Seq(RowType) /\ Len(p) = Len(q) + 1 /\ Len(q) \in Nat
      /\ \A i \in 1..(Len(q) + 1) : p[i] = IF i <= Len(q) THEN q[i] ELSE r
  BY AppendFacts, LenProperties
<1>2. /\ h \in 1..Len(q) /\ q[h].id = id
      /\ \A j \in 1..Len(q) : q[j].id = id => h <= j
  BY FirstOfExists
<1> HIDE DEF p, h
<1>3. h \in 1..Len(p) /\ p[h].id = id
  BY <1>1, <1>2
<1>4. \A j \in 1..Len(p) : p[j].id = id => h <= j
  BY <1>1, <1>2
<1>5. FirstOf(p, id) = h
  BY <1>1, <1>3, <1>4, FirstOfIs
<1> QED BY <1>5 DEF p, h

LEMMA TwoCites ==
  ASSUME NEW x \in Nat, NEW y \in Nat
  PROVE  /\ <<x, y>> \in Seq(Nat) /\ <<x, y>>[1] = x
         /\ {<<x, y>>[k] : k \in DOMAIN <<x, y>>} = {x, y}
<1>1. <<x, y>>[1] = x /\ <<x, y>>[2] = y /\ DOMAIN <<x, y>> = {1, 2}
  OBVIOUS
<1>2. <<x, y>> \in Seq(Nat)
  OBVIOUS
<1> DEFINE p == <<x, y>>
<1>3. p[1] = x /\ p[2] = y /\ DOMAIN p = {1, 2}
  BY <1>1
<1> HIDE DEF p
<1>4. {p[k] : k \in DOMAIN p} = {x, y}
  BY <1>3
<1> QED BY <1>1, <1>2, <1>4 DEF p

CitedIn(q, i) == {q[i].cites[k] : k \in DOMAIN q[i].cites}

\* The table with one more row: for a, citing what u and v are.
WroteRow(a, role, depth, u, v) ==
  LET last == Len(rows) + 1
  IN  /\ \E r \in RowType : rows' = Append(rows, r)
      /\ Reads(numbering', registry', rows')
      /\ rows' \in Seq(RowType) /\ Len(rows) \in Nat /\ Len(rows') = last
      /\ \A j \in 1..Len(rows) : rows'[j] = rows[j]
      /\ rows'[last].id = OwnId(numbering', a) /\ rows'[last].text = Notation(a)
      /\ rows'[last].role = role /\ rows'[last].depth = depth
      /\ rows'[last].cites[1] = OwnId(numbering, u)
      /\ CitedIn(rows', last) = {OwnId(numbering, u), OwnId(numbering, v)}

LEMMA WrittenRow ==
  ASSUME NEW s, NEW a, Recording(s, a), rows \in Seq(RowType),
         NEW role \in {"inferred", "introduced"}, NEW depth \in {0, 1},
         NEW x, NEW y, NEW u \in Visible, NEW v \in Visible,
         Notation(x) = Notation(u), Notation(y) = Notation(v),
         LET n == Enter(ProbedIds, s)
         IN  rows' = Append(rows, Row(n, s, role, <<IdOf(n, x), IdOf(n, y)>>, depth))
  PROVE  WroteRow(a, role, depth, u, v)
<1> DEFINE n == Enter(ProbedIds, s)
           i1 == IdOf(n, x)
           i2 == IdOf(n, y)
           cites == <<i1, i2>>
           r == Row(n, s, role, cites, depth)
           last == Len(rows) + 1
<1>1. i1 = OwnId(numbering, u) /\ i2 = OwnId(numbering, v)
  BY DEF Recording
<1>2. i1 \in Nat /\ i2 \in Nat
  BY <1>1 DEF Recording
<1>3. rows' = Append(rows, r)
  OBVIOUS
<1> HIDE DEF i1, i2
<1>4. /\ cites \in Seq(Nat) /\ cites[1] = i1
      /\ {cites[k] : k \in DOMAIN cites} = {i1, i2}
  BY <1>2, TwoCites
<1> HIDE DEF cites
<1>5. /\ r \in RowType /\ Reads(numbering', registry', Append(rows, r))
      /\ r.id = OwnId(numbering', a) /\ r.text = Notation(a)
      /\ r.role = role /\ r.cites = cites /\ r.depth = depth
  BY <1>4 DEF Recording
<1> HIDE DEF r
<1>6. /\ rows' \in Seq(RowType) /\ Len(rows') = Len(rows) + 1 /\ Len(rows) \in Nat
      /\ \A i \in 1..(Len(rows) + 1) : rows'[i] = IF i <= Len(rows) THEN rows[i] ELSE r
  BY <1>3, <1>5, AppendFacts, LenProperties
<1>7. rows'[last] = r /\ \A j \in 1..Len(rows) : rows'[j] = rows[j]
  BY <1>6
<1>8. CitedIn(rows', last) = {i1, i2}
  <2>1. rows'[last].cites = cites
    BY <1>5, <1>7
  <2>2. CitedIn(rows', last) = {cites[k] : k \in DOMAIN cites}
    BY <2>1 DEF CitedIn
  <2> QED BY <1>4, <2>2
<1>9. /\ \E e \in RowType : rows' = Append(rows, e)
      /\ Reads(numbering', registry', rows')
  BY <1>3, <1>5
<1> HIDE DEF last
<1>10. last = Len(rows) + 1
  BY DEF last
<1> QED BY <1>1, <1>4, <1>5, <1>6, <1>7, <1>8, <1>9, <1>10 DEF WroteRow

\* The table as it was, or with one more row, for a.
KeepsRows(a) ==
  /\ rows \in Seq(RowType) /\ rows' \in Seq(RowType)
  /\ Len(rows) \in Nat /\ Len(rows') \in Len(rows)..(Len(rows) + 1)
  /\ \A j \in 1..Len(rows) : rows'[j] = rows[j]
  /\ \A j \in 1..Len(rows') :
       j \in 1..Len(rows) \/ (j = Len(rows) + 1 /\ rows'[j].id = OwnId(numbering', a))

LEMMA WroteKeeps ==
  ASSUME NEW a, NEW role, NEW depth, NEW u, NEW v,
         rows \in Seq(RowType), WroteRow(a, role, depth, u, v)
  PROVE  KeepsRows(a)
BY DEF WroteRow, KeepsRows

LEMMA SameKeeps ==
  ASSUME NEW a, rows \in Seq(RowType), rows' = rows
  PROVE  KeepsRows(a)
<1>1. Len(rows) \in Nat
  BY LenProperties
<1> QED BY <1>1 DEF KeepsRows
\* No statement visible before gets a row from it.
LEMMA NoRowKept ==
  ASSUME NEW s, NEW a, Recording(s, a), KeepsRows(a), NEW w \in Visible,
         NoRowIn(rows, OwnId(numbering, w))
  PROVE  NoRowIn(rows', OwnId(numbering, w))
<1>1. OwnId(numbering, w) # OwnId(numbering', a)
  BY DEF Recording
<1> QED BY <1>1 DEF KeepsRows, NoRowIn

\* The depths of a table are 0 and 1.
LEMMA DepthsTyped ==
  ASSUME NEW q \in Seq(RowType)
  PROVE  /\ \A i \in 1..Len(q) : q[i].depth \in {0, 1} /\ q[i].id \in Nat
         /\ Len(q) \in Nat /\ DOMAIN q = 1..Len(q)
<1>1. \A i \in 1..Len(q) : q[i] \in RowType
  BY ElementOfSeq
<1> QED BY <1>1, LenProperties DEF RowType

\* What stays in the spine has a row still.
LEMMA OpenedKept ==
  ASSUME NEW s, NEW a, Recording(s, a), KeepsRows(a), NEW w \in Visible,
         w \in registry' \cup Axioms, NEW i, OpenedAt(i, w)
  PROVE  OpenedAt(i, w)'
<1>1. PICK j \in 1..Len(rows) : /\ rows[j].id = OwnId(numbering, w) /\ rows[j].depth = i - 1
                                /\ \A k \in 1..j : rows[k].depth <= i - 1
  BY DEF OpenedAt
<1>2. OwnId(numbering', w) = OwnId(numbering, w)
  BY DEF Recording
<1>3. j \in 1..Len(rows') /\ \A k \in 1..j : k \in 1..Len(rows) /\ rows'[k] = rows[k]
  BY DEF KeepsRows
<1>4. j \in 1..j
  BY DEF KeepsRows
<1> QED BY <1>1, <1>2, <1>3, <1>4 DEF OpenedAt

LEMMA RowedKept ==
  ASSUME NEW s, NEW a, Recording(s, a), KeepsRows(a), NEW w \in Visible,
         w \in registry' \cup Axioms, NEW i, RowedAt(i, w),
         Level' = Level \/ (Level = 2 /\ i = 1)
  PROVE  RowedAt(i, w)'
<1>1. OwnId(numbering', w) = OwnId(numbering, w)
  BY DEF Recording
<1>2. CASE SeenEverywhere(OwnId(numbering, w))
  <2> DEFINE id == OwnId(numbering, w)
  <2>1. PICK c : c = OwnId(numbering, w)
    OBVIOUS
  <2>2. SeenEverywhere(c) /\ SeenEverywhere(c)'
    BY <1>2, <2>1 DEF Recording
  <2>3. SeenEverywhere(OwnId(numbering, w))'
    BY <1>1, <2>1, <2>2 DEF SeenEverywhere
  <2> QED BY <2>3 DEF RowedAt
<1>3. CASE \E j \in 1..Len(rows) : /\ rows[j].id = OwnId(numbering, w)
                                   /\ rows[j].depth = 0 \/ (Level = 2 /\ i >= 2)
  <2>1. PICK j \in 1..Len(rows) : /\ rows[j].id = OwnId(numbering, w)
                                  /\ rows[j].depth = 0 \/ (Level = 2 /\ i >= 2)
    BY <1>3
  <2>2. j \in 1..Len(rows') /\ rows'[j] = rows[j]
    BY DEF KeepsRows
  <2>3. rows'[j].depth = 0 \/ (Level' = 2 /\ i >= 2)
    BY <2>1, <2>2
  <2> QED BY <1>1, <2>1, <2>2, <2>3 DEF RowedAt
<1>4. CASE Level = 1 /\ PrintsAsRule(w) /\ NoRowIn(rows, OwnId(numbering, w))
  <2>1. NoRowIn(rows', OwnId(numbering', w))
    BY <1>1, <1>4, NoRowKept
  <2>2. Level' = 1
    BY <1>4
  <2> QED BY <1>4, <2>1, <2>2 DEF RowedAt, PrintsAsRule
<1> QED BY <1>2, <1>3, <1>4 DEF RowedAt

-----------------------------------------------------------------------------
(* Citations.                                                              *)

\* Row j of a table is in a scope that is open at row i.
ScopeIn(q, j, i) ==
  \A k \in (j + 1)..i : q[k].depth < q[j].depth => k = i /\ q[k].role = "introduced"

\* A step at Level 1 leaves what the spine says where it is, or ends the script.
StillSaid ==
  Proving' => Level > 1 \/ (Level' = 1 /\ Facts(chain) \subseteq Facts(chain'))

\* What has no row, and is said by the spine, gets none.
LEMMA NeverRowed ==
  ASSUME NEW s, NEW a, Recording(s, a), KeepsRows(a), SessionInv', StillSaid,
         NEW id, NEW w \in Facts(chain), OwnId(numbering, w) = id, Level = 1,
         NoRowIn(rows, id)
  PROVE  /\ NoRowIn(rows', id)
         /\ Proving' => Level' = 1 /\ \E t \in Facts(chain') : OwnId(numbering', t) = id
<1>1. w \in Visible
  BY DEF Visible
<1>2. NoRowIn(rows', id)
  BY <1>1, NoRowKept
<1>3. ASSUME Proving'
      PROVE  Level' = 1 /\ \E t \in Facts(chain') : OwnId(numbering', t) = id
  <2>1. Level' = 1 /\ w \in Facts(chain')
    BY <1>3 DEF StillSaid
  <2>2. w \in registry' \cup Axioms
    BY <2>1 DEF SessionInv, VisibleOwned, Visible
  <2>3. OwnId(numbering', w) = id
    BY <1>1, <2>2 DEF Recording
  <2> QED BY <2>1, <2>3
<1> QED BY <1>2, <1>3

LEMMA OwedKept ==
  ASSUME NEW s, NEW a, Recording(s, a), KeepsRows(a), Proving, SessionInv', StillSaid,
         NEW i \in 1..Len(rows), NEW id, OwedAt(i, id)
  PROVE  OwedAt(i, id)'
<1>1. CASE SeenEverywhere(id)
  BY <1>1 DEF Recording, OwedAt
<1>2. CASE \E j \in 1..(i - 1) : rows[j].id = id /\ InScope(j, i)
  <2>1. PICK j \in 1..(i - 1) : rows[j].id = id /\ InScope(j, i)
    BY <1>2
  <2>2. Len(rows) \in Nat /\ \A k \in 1..i : rows'[k] = rows[k]
    BY DEF KeepsRows
  <2>3. j \in 1..i /\ \A k \in (j + 1)..i : k \in 1..i
    BY <2>2
  <2>4. rows'[j].id = id /\ InScope(j, i)'
    BY <2>1, <2>2, <2>3 DEF InScope
  <2> QED BY <2>4 DEF OwedAt
<1>3. CASE NoRowIn(rows, id) /\ Level = 1 /\ \E w \in Facts(chain) : OwnId(numbering, w) = id
  <2>1. PICK w \in Facts(chain) : OwnId(numbering, w) = id
    BY <1>3
  <2>2. /\ NoRowIn(rows', id)
        /\ Proving' => Level' = 1 /\ \E t \in Facts(chain') : OwnId(numbering', t) = id
    BY <1>3, <2>1, NeverRowed
  <2> QED BY <2>2 DEF OwedAt
<1> QED BY <1>1, <1>2, <1>3 DEF OwedAt

\* What a new row cites: something visible.
LEMMA OwedNew ==
  ASSUME NEW s, NEW a, Recording(s, a), NEW role, NEW depth, NEW u, NEW v,
         rows \in Seq(RowType), WroteRow(a, role, depth, u, v),
         SessionInv, SessionInv', LevelsBounded, InnerRows, FactsHaveRows, StillSaid, Proving,
         role = "introduced" \/ depth = Level - 1,
         NEW w \in Visible, NEW id, id = OwnId(numbering, w), NEW last, last = Len(rows) + 1
  PROVE  OwedAt(last, id)'
<1>1. KeepsRows(a)
  BY WroteKeeps
<1>2. CASE SeenEverywhere(id)
  BY <1>2 DEF Recording, OwedAt
<1>3. CASE w \in Axioms
  BY <1>2, <1>3 DEF OwnId, SeenEverywhere
<1>4. CASE w \in Elements(lemmas) /\ w \notin Axioms
  <2>1. w \in registry
    BY <1>4 DEF SessionInv, VisibleOwned, Visible
  <2> QED BY <1>2, <1>4, <2>1 DEF OwnId, SeenEverywhere
<1>5. ASSUME NEW i \in 1..Len(chain), w \in Elements(chain[i].facts)
      PROVE  OwedAt(last, id)'
  <2>1. RowedAt(i, w)
    BY <1>5 DEF FactsHaveRows
  <2>2. CASE \E j \in 1..Len(rows) : /\ rows[j].id = id
                                     /\ rows[j].depth = 0 \/ (Level = 2 /\ i >= 2)
    <3>1. PICK j \in 1..Len(rows) : /\ rows[j].id = id
                                    /\ rows[j].depth = 0 \/ (Level = 2 /\ i >= 2)
      BY <2>2
    <3>2. /\ Len(rows) \in Nat /\ rows' \in Seq(RowType) /\ Len(rows') = Len(rows) + 1
          /\ \A k \in 1..Len(rows) : rows'[k] = rows[k]
          /\ rows'[last].role = role /\ rows'[last].depth = depth
      BY DEF WroteRow
    <3>3. j \in 1..(last - 1) /\ rows'[j] = rows[j]
      BY <3>2
    <3>4. \A k \in 1..last : rows'[k].depth \in {0, 1}
      BY <3>2, DepthsTyped
    <3>5. ASSUME NEW k \in (j + 1)..last, rows'[k].depth < rows'[j].depth
          PROVE  k = last /\ rows'[k].role = "introduced"
      <4>1. rows'[j].depth = 1 /\ rows'[k].depth = 0 /\ k \in 1..last /\ j <= k
        BY <3>2, <3>3, <3>4, <3>5
      <4>2. Level = 2
        BY <3>1, <3>3, <4>1
      <4>3. k = last
        <5>1. SUFFICES ASSUME k # last PROVE FALSE
          OBVIOUS
        <5>2. k \in 1..Len(rows) /\ rows[k].depth = 0 /\ rows[j].depth = 1
          BY <3>2, <3>3, <4>1, <5>1
        <5>3. rows[j].depth <= rows[k].depth
          BY <4>1, <4>2, <5>2 DEF InnerRows
        <5> QED BY <5>2, <5>3
      <4>4. role = "introduced"
        BY <3>2, <4>1, <4>2, <4>3
      <4> QED BY <3>2, <4>3, <4>4
    <3>6. InScope(j, last)'
      BY <3>5 DEF InScope
    <3> QED BY <3>1, <3>3, <3>6 DEF OwedAt
  <2>3. CASE Level = 1 /\ NoRowIn(rows, id)
    <3>1. w \in Facts(chain)
      BY <1>5, FactsMember DEF SessionInv, TypeOK
    <3>2. /\ NoRowIn(rows', id)
          /\ Proving' => Level' = 1 /\ \E t \in Facts(chain') : OwnId(numbering', t) = id
      BY <1>1, <2>3, <3>1, NeverRowed
    <3> QED BY <3>2 DEF OwedAt
  <2> QED BY <1>2, <2>1, <2>2, <2>3 DEF RowedAt
<1>6. w \in Facts(chain) => \E i \in 1..Len(chain) : w \in Elements(chain[i].facts)
  BY FactsMember DEF SessionInv, TypeOK
<1> QED BY <1>3, <1>4, <1>5, <1>6 DEF Visible

-----------------------------------------------------------------------------
(* Introductions.                                                          *)

\* The introduction at row i of a table stands just outside the scope it closes.
ClosesAt(q, i) ==
  LET h == FirstOf(q, q[i].cites[1])
  IN  /\ h \in 1..(i - 1)
      /\ q[i].depth = (IF q[h].depth = 0 THEN 0 ELSE q[h].depth - 1)
      /\ \A k \in h..(i - 1) : q[k].depth >= q[h].depth

LEMMA IntroductionsAre ==
  ASSUME rows \in Seq(RowType)
  PROVE  IntroductionsCloseScopes <=>
           \A i \in 1..Len(rows) : rows[i].role = "introduced" => ClosesAt(rows, i)
<1>1. DOMAIN rows = 1..Len(rows)
  BY LenProperties
<1>2. \A id : RowNumber(id) = FirstOf(rows, id)
  BY DEF RowNumber, FirstOf
<1> QED BY <1>1, <1>2 DEF IntroductionsCloseScopes, ClosesAt

LEMMA ClosesKept ==
  ASSUME NEW q \in Seq(RowType), NEW r \in RowType, NEW i \in 1..Len(q), ClosesAt(q, i)
  PROVE  ClosesAt(Append(q, r), i)
<1> DEFINE p == Append(q, r)
           id == q[i].cites[1]
           h == FirstOf(q, id)
<1>1. /\ p \in Seq(RowType) /\ Len(p) = Len(q) + 1 /\ Len(q) \in Nat
      /\ \A k \in 1..(Len(q) + 1) : p[k] = IF k <= Len(q) THEN q[k] ELSE r
  BY AppendFacts, LenProperties
<1>2. \A k \in 1..i : k \in 1..Len(q) /\ p[k] = q[k]
  BY <1>1
<1>3. /\ h \in 1..(i - 1)
      /\ q[i].depth = (IF q[h].depth = 0 THEN 0 ELSE q[h].depth - 1)
      /\ \A k \in h..(i - 1) : q[k].depth >= q[h].depth
  BY DEF ClosesAt
<1>4. CASE FirstOf(p, id) = h
  <2>1. p[i] = q[i] /\ p[i].cites[1] = id
    BY <1>1, <1>2
  <2> HIDE DEF p, id, h
  <2>2. \A k \in h..(i - 1) : k \in 1..i
    BY <1>3
  <2>3. h \in 1..i /\ p[h] = q[h]
    BY <1>2, <1>3
  <2>4. \A k \in h..(i - 1) : p[k] = q[k]
    BY <1>2, <2>2
  <2>5. ClosesAt(p, i)
    BY <1>3, <1>4, <2>1, <2>3, <2>4 DEF ClosesAt
  <2> QED BY <2>5 DEF p
<1>5. CASE \A k \in 1..Len(q) : q[k].id # id
  <2>1. DOMAIN q = 1..Len(q)
    BY LenProperties
  <2>2. h = 0
    BY <1>5, <2>1 DEF FirstOf
  <2> QED BY <1>3, <2>2
<1>6. ASSUME NEW k \in 1..Len(q), q[k].id = id PROVE FirstOf(p, id) = h
  BY <1>6, FirstOfAppend
<1> QED BY <1>4, <1>5, <1>6

LEMMA ClosesNew ==
  ASSUME NEW a, NEW u, NEW v, rows \in Seq(RowType), WroteRow(a, "introduced", 0, u, v),
         SessionInv, LevelsBounded, InnerRows, HypothesesOpened, Proving,
         u \in Elements(chain[Level].facts), NEW last, last = Len(rows) + 1
  PROVE  ClosesAt(rows', last)
<1> DEFINE id == OwnId(numbering, u)
           h == FirstOf(rows, id)
<1>1. Level \in 1..2 /\ Level \in 1..Level
  BY DEF LevelsBounded
<1>2. OpenedAt(Level, u)
  BY <1>1 DEF HypothesesOpened
<1>3. PICK j \in 1..Len(rows) : /\ rows[j].id = id /\ rows[j].depth = Level - 1
                                /\ \A k \in 1..j : rows[k].depth <= Level - 1
  BY <1>2 DEF OpenedAt
<1>4. h \in 1..j /\ h \in 1..Len(rows) /\ rows[h].id = id
  BY <1>3, FirstOfExists
<1>5. FirstOf(rows', id) = h
  <2>1. PICK r \in RowType : rows' = Append(rows, r)
    BY DEF WroteRow
  <2> QED BY <1>3, <2>1, FirstOfAppend
<1>6. /\ Len(rows) \in Nat /\ rows'[last].depth = 0 /\ rows'[last].cites[1] = id
      /\ \A k \in 1..Len(rows) : rows'[k] = rows[k]
  BY DEF WroteRow
<1>7. \A k \in 1..Len(rows) : rows[k].depth \in {0, 1}
  BY DepthsTyped
<1> HIDE DEF id, h
<1>8. h \in 1..(last - 1) /\ \A k \in h..(last - 1) : k \in 1..Len(rows)
  BY <1>4, <1>6
<1>9. ASSUME NEW k \in h..(last - 1) PROVE rows[k].depth >= rows[h].depth
  <2>1. k \in 1..Len(rows) /\ h <= k
    BY <1>8
  <2>2. CASE rows[h].depth = 0
    BY <1>7, <2>1, <2>2
  <2>3. CASE rows[h].depth = 1
    <3>1. Level = 2
      BY <1>1, <1>3, <1>4, <2>3
    <3>2. rows[h].depth <= rows[k].depth
      BY <1>4, <2>1, <3>1 DEF InnerRows
    <3> QED BY <1>7, <2>1, <2>3, <3>2
  <2> QED BY <1>4, <1>7, <2>2, <2>3
<1>10. rows'[h] = rows[h] /\ \A k \in h..(last - 1) : rows'[k] = rows[k]
  BY <1>4, <1>6, <1>8
<1>11. rows'[last].depth = (IF rows'[h].depth = 0 THEN 0 ELSE rows'[h].depth - 1)
  BY <1>4, <1>6, <1>7, <1>10
<1> QED BY <1>5, <1>6, <1>8, <1>9, <1>10, <1>11 DEF ClosesAt

-----------------------------------------------------------------------------
(* One lemma per action.                                                   *)

\* A step that ends the script, or does not open it, and leaves no table.
LEMMA EmptyTable ==
  ASSUME SessionInv', ~Proving', Numbers(numbering', registry'), rows' = <<>>
  PROVE  LedgerInv'
<1>1. rows' \in Seq(RowType) /\ Len(rows') = 0 /\ DOMAIN rows' = {}
  OBVIOUS
<1>2. NamingInv'
  BY <1>1 DEF NamingInv, Reads
<1>3. LevelsBounded' /\ InnerRows' /\ HypothesesOpened' /\ FactsHaveRows'
  BY DEF LevelsBounded, InnerRows, HypothesesOpened, FactsHaveRows
<1>4. CitesOwed' /\ IntroductionsCloseScopes'
  BY <1>1 DEF CitesOwed, IntroductionsCloseScopes
<1> QED BY <1>2, <1>3, <1>4 DEF LedgerInv

LEMMA AbandonStep ==
  ASSUME LedgerInv, LedgerAbandon
  PROVE  LedgerInv'
<1>1. /\ SessionInv /\ Numbers(numbering, registry) /\ Abandon
      /\ numbering' = Pruned(ProbedIds, registry') /\ rows' = <<>>
  BY DEF LedgerInv, NamingInv, LedgerAbandon, Cancel, NothingApplicable
<1>2. SessionInv' /\ ~Proving'
  BY <1>1, AbandonInv DEF Abandon, Proving
<1>3. Numbers(ProbedIds, Probed) /\ registry \subseteq Probed
  BY <1>1, ProbedNumbers DEF Grows
<1>4. registry' \in SUBSET Probed
  BY <1>1, <1>3 DEF Abandon, Live
<1>5. Numbers(numbering', registry')
  BY <1>1, <1>3, <1>4, PrunedNumbers
<1> QED BY <1>1, <1>2, <1>5, EmptyTable

LEMMA RefuseStep ==
  ASSUME LedgerInv, NEW sc \in Script, LedgerRefuse(sc)
  PROVE  LedgerInv'
<1>1. /\ SessionInv /\ Numbers(numbering, registry) /\ RefuseScript(sc)
      /\ numbering' = Pruned(RefusedEntered(numbering, sc), registry) /\ rows' = <<>>
  BY DEF LedgerInv, NamingInv, LedgerRefuse
<1>2. SessionInv' /\ ~Proving' /\ registry' = registry
  BY <1>1, RefuseScriptInv DEF RefuseScript, Proving
<1>3. Numbers(numbering', registry')
  <2>1. CASE Len(sc[1]) \in 1..2
    <3> DEFINE up == LevelRegistered(registry, sc[1])
    <3>1. Numbers(LevelEntered(numbering, sc[1]), up) /\ registry \subseteq up
      BY <1>1, LevelNumbers DEF Grows
    <3>2. RefusedEntered(numbering, sc) = LevelEntered(numbering, sc[1])
      BY <2>1 DEF RefusedEntered
    <3> HIDE DEF up
    <3> QED BY <1>1, <1>2, <3>1, <3>2, PrunedNumbers
  <2>2. CASE Len(sc[1]) \notin 1..2
    <3>1. RefusedEntered(numbering, sc) = numbering
      BY <2>2 DEF RefusedEntered
    <3> QED BY <1>1, <1>2, <3>1, PrunedNumbers
  <2> QED BY <2>1, <2>2
<1> QED BY <1>1, <1>2, <1>3, EmptyTable

LEMMA OpenStep ==
  ASSUME LedgerInv, NEW sc \in Script, LedgerOpen(sc)
  PROVE  LedgerInv'
<1>1. /\ SessionInv /\ Numbers(numbering, registry) /\ OpenScript(sc) /\ Supported(sc)
      /\ numbering' = ScriptEntered(numbering, sc) /\ rows' = OpenedRows(numbering', sc)
  BY DEF LedgerInv, NamingInv, LedgerOpen, OpenScript
<1>2. OpenedAs(sc, chain', registry') /\ Numbers(numbering', registry') /\ Owners(registry')
  BY <1>1, OpenedLevels
<1>3. OpenTable(rows', chain', numbering')
  BY <1>1, <1>2, OpenedTable
<1>4. SessionInv'
  BY <1>1, OpenScriptInv
<1>5. /\ Len(sc) \in 1..2 /\ chain' \in Seq(NodeType) /\ Len(chain') = Len(sc)
      /\ \A i \in 1..Len(chain') : chain'[i].kind = "start"
  BY <1>1, <1>2, ScriptTyped DEF OpenedAs
<1>6. Level' = Len(sc) /\ Proving'
  <2>1. Starts' = 1..Len(sc)
    <3>1. DOMAIN chain' = 1..Len(chain')
      BY <1>5, LenProperties
    <3> QED BY <1>5, <3>1 DEF Starts
  <2>2. Len(sc) \in Nat /\ Len(sc) > 0
    BY <1>5
  <2>3. (CHOOSE i \in Starts' : \A j \in Starts' : j <= i) = Len(sc)
    BY <2>1, <2>2, LastStart
  <2> QED BY <1>5, <2>2, <2>3 DEF Level, Proving
<1>7. /\ rows' \in Seq(RowType)
      /\ \A j \in 1..Len(rows') : rows'[j].cites = <<>> /\ rows'[j].role = "opened"
      /\ \A j \in 1..Len(rows') : \E i \in 1..Len(chain') : \E w \in Elements(chain'[i].facts) :
           /\ rows'[j].id = OwnId(numbering', w) /\ rows'[j].text = Notation(w)
           /\ rows'[j].depth = i - 1
      /\ \A i \in 1..Len(chain') : \A w \in Elements(chain'[i].facts) :
           \E j \in 1..Len(rows') : rows'[j].id = OwnId(numbering', w) /\ rows'[j].depth = i - 1
      /\ \A i, j \in 1..Len(rows') : i <= j => rows'[i].depth <= rows'[j].depth
  BY <1>3 DEF OpenTable
<1>8. \A i \in 1..Len(chain') : \A w \in Elements(chain'[i].facts) : w \in Facts(chain')
  BY <1>5, FactsMember
<1>9. \A w \in Facts(chain') : w \in registry' \cup Axioms
  BY <1>4 DEF SessionInv, VisibleOwned, Visible
<1>10. NamingInv'
  <2>1. \A j \in 1..Len(rows') : \E w \in registry' \cup Axioms :
          rows'[j].id = OwnId(numbering', w) /\ rows'[j].text = Notation(w)
    BY <1>7, <1>8, <1>9
  <2>2. Reads(numbering', registry', rows')
    BY <1>2, <2>1, ReadsAll
  <2> QED BY <1>2, <1>7, <2>2 DEF NamingInv
<1>11. LevelsBounded'
  BY <1>5, <1>6 DEF LevelsBounded
<1>12. InnerRows'
  BY <1>7, <1>8 DEF InnerRows
<1>13. HypothesesOpened'
  <2>1. ASSUME NEW i \in 1..Len(chain'), NEW w \in Elements(chain'[i].facts)
        PROVE  OpenedAt(i, w)'
    <3>1. PICK j \in 1..Len(rows') : rows'[j].id = OwnId(numbering', w) /\ rows'[j].depth = i - 1
      BY <1>7
    <3>2. Len(rows') \in Nat
      BY <1>7, LenProperties
    <3>3. \A k \in 1..j : k \in 1..Len(rows') /\ rows'[k].depth <= rows'[j].depth
      BY <1>7, <3>2
    <3> QED BY <3>1, <3>3 DEF OpenedAt
  <2> QED BY <1>5, <1>6, <2>1 DEF HypothesesOpened
<1>14. FactsHaveRows'
  <2>1. ASSUME NEW i \in 1..Len(chain'), NEW w \in Elements(chain'[i].facts)
        PROVE  RowedAt(i, w)'
    <3>1. PICK j \in 1..Len(rows') : rows'[j].id = OwnId(numbering', w) /\ rows'[j].depth = i - 1
      BY <1>7
    <3>2. i = 1 \/ (Level' = 2 /\ i >= 2)
      BY <1>5, <1>6
    <3>3. rows'[j].depth = 0 \/ (Level' = 2 /\ i >= 2)
      BY <3>1, <3>2
    <3> QED BY <3>1, <3>3 DEF RowedAt
  <2> QED BY <2>1 DEF FactsHaveRows
<1>15. CitesOwed'
  <2>1. \A k : k \notin DOMAIN <<>>
    OBVIOUS
  <2>2. \A i \in 1..Len(rows') : Cited(i)' = {}
    BY <1>7, <2>1 DEF Cited
  <2> QED BY <2>2 DEF CitesOwed
<1>16. IntroductionsCloseScopes'
  <2>1. DOMAIN rows' = 1..Len(rows')
    BY <1>7, LenProperties
  <2>2. \A j \in DOMAIN rows' : rows'[j].role # "introduced"
    BY <1>7, <2>1
  <2> QED BY <2>2 DEF IntroductionsCloseScopes
<1> QED BY <1>4, <1>10, <1>11, <1>12, <1>13, <1>14, <1>15, <1>16 DEF LedgerInv

\* The citations, after a step that writes a row.
LEMMA CitesStep ==
  ASSUME NEW s, NEW a, Recording(s, a), NEW role, NEW depth,
         NEW u \in Visible, NEW v \in Visible,
         LedgerInv, WroteRow(a, role, depth, u, v), SessionInv', StillSaid, Proving,
         role = "introduced" \/ depth = Level - 1
  PROVE  CitesOwed'
<1>1. /\ rows \in Seq(RowType) /\ SessionInv /\ LevelsBounded /\ InnerRows /\ FactsHaveRows
      /\ CitesOwed
  BY DEF LedgerInv, NamingInv
<1>2. /\ Len(rows) \in Nat /\ Len(rows') = Len(rows) + 1
      /\ \A j \in 1..Len(rows) : rows'[j] = rows[j]
      /\ CitedIn(rows', Len(rows) + 1) = {OwnId(numbering, u), OwnId(numbering, v)}
  BY DEF WroteRow
<1>3. KeepsRows(a)
  BY <1>1, WroteKeeps
<1>4. \A i : Cited(i) = CitedIn(rows, i)
  BY DEF Cited, CitedIn
<1>5. \A i : Cited(i)' = CitedIn(rows', i)
  BY DEF Cited, CitedIn
<1>6. ASSUME NEW i \in 1..Len(rows'), NEW id \in CitedIn(rows', i)
      PROVE  OwedAt(i, id)'
  <2>1. CASE i \in 1..Len(rows)
    <3>1. CitedIn(rows', i) = CitedIn(rows, i)
      BY <1>2, <2>1 DEF CitedIn
    <3>2. OwedAt(i, id)
      BY <1>1, <1>4, <1>6, <2>1, <3>1 DEF CitesOwed
    <3> QED BY <1>3, <2>1, <3>2, OwedKept
  <2>2. CASE i = Len(rows) + 1
    <3>1. id = OwnId(numbering, u) \/ id = OwnId(numbering, v)
      BY <1>2, <1>6, <2>2
    <3>2. PICK w \in Visible : id = OwnId(numbering, w)
      BY <3>1
    <3> QED BY <1>1, <2>2, <3>2, OwedNew
  <2> QED BY <1>2, <2>1, <2>2
<1> QED BY <1>5, <1>6 DEF CitesOwed

\* The introductions already written, after any step that keeps the table.
LEMMA ClosesStep ==
  ASSUME LedgerInv, NEW a, NEW role, NEW depth, NEW u, NEW v,
         WroteRow(a, role, depth, u, v),
         \A last : last = Len(rows) + 1 /\ role = "introduced" => ClosesAt(rows', last)
  PROVE  IntroductionsCloseScopes'
<1>1. /\ rows \in Seq(RowType)
      /\ \A i \in 1..Len(rows) : rows[i].role = "introduced" => ClosesAt(rows, i)
  BY IntroductionsAre DEF LedgerInv, NamingInv
<1>2. PICK r \in RowType : rows' = Append(rows, r)
  BY DEF WroteRow
<1>3. /\ Len(rows) \in Nat /\ Len(rows') = Len(rows) + 1 /\ rows' \in Seq(RowType)
      /\ \A j \in 1..Len(rows) : rows'[j] = rows[j]
      /\ rows'[Len(rows) + 1].role = role
  BY DEF WroteRow
<1>4. ASSUME NEW i \in 1..Len(rows'), rows'[i].role = "introduced"
      PROVE  ClosesAt(rows', i)
  <2>1. CASE i \in 1..Len(rows)
    BY <1>1, <1>2, <1>3, <1>4, <2>1, ClosesKept
  <2>2. CASE i = Len(rows) + 1
    BY <1>3, <1>4, <2>2
  <2> QED BY <1>3, <2>1, <2>2
<1>5. DOMAIN rows' = 1..Len(rows')
  BY <1>3, LenProperties
<1>6. \A id : RowNumber(id)' = FirstOf(rows', id)
  BY DEF RowNumber, FirstOf
<1> QED BY <1>4, <1>5, <1>6 DEF IntroductionsCloseScopes, ClosesAt

LEMMA InferWrites ==
  ASSUME LedgerInv, NEW m \in Visible, LedgerInfer(m)
  PROVE  LET a == Allocate(Probed, Consequent(m))
         IN  /\ Recording(Consequent(m), a)
             /\ \E v \in Visible : WroteRow(a, "inferred", Level - 1, m, v)
<1> DEFINE s == Consequent(m)
           a == Allocate(Probed, s)
           n == Enter(ProbedIds, s)
<1>1. /\ SessionInv /\ NamingInv /\ Infer(m) /\ LevelsBounded /\ rows \in Seq(RowType)
  BY DEF LedgerInv, LedgerInfer, NamingInv
<1>2. /\ Proving /\ WithinUniverse /\ s \in Statement /\ ~Seen(s) /\ Seen(Minor(m))
      /\ chain' \in Seq(NodeType) /\ Len(chain) \in Nat /\ Len(chain') = Len(chain) + 1
      /\ \A i \in 1..Len(chain') : chain'[i].kind = "start" <=> i <= Level
      /\ Level \in 1..Len(chain)
      /\ registry' \in SUBSET Registered(Probed, s) /\ a \in registry'
      /\ \A t \in registry : t \in Elements(lemmas) => t \in registry'
      /\ lemmas' = lemmas
  BY <1>1, InferFacts
<1>3. Depth(chain') = Level - 1
  <2>1. Level \in 0..Len(chain') /\ Level # 0
    BY <1>2
  <2> QED BY <1>2, <2>1, DepthOf
<1>4. Level - 1 \in {0, 1}
  BY <1>1, <1>2 DEF LevelsBounded
<1>5. /\ numbering' = Pruned(n, registry')
      /\ rows' = Append(rows, Row(n, s, "inferred", <<IdOf(n, m), IdOf(n, Minor(m))>>, Level - 1))
  BY <1>3 DEF LedgerInfer
<1> HIDE DEF s
<1>6. Recording(s, a)
  BY <1>1, <1>2, <1>5, RecordingFacts
<1>7. PICK v \in Visible : Notation(v) = Notation(Minor(m))
  BY <1>2 DEF Seen
<1> DEFINE role == "inferred"
           depth == Level - 1
           x == m
           y == Minor(m)
<1>8. /\ role \in {"inferred", "introduced"} /\ depth \in {0, 1}
      /\ Notation(x) = Notation(m) /\ Notation(y) = Notation(v)
      /\ rows' = Append(rows, Row(n, s, role, <<IdOf(n, x), IdOf(n, y)>>, depth))
  BY <1>4, <1>5, <1>7
<1> HIDE DEF role, depth, x, y, a
<1>9. WroteRow(a, role, depth, m, v)
  BY <1>1, <1>6, <1>8, WrittenRow
<1> QED BY <1>6, <1>9 DEF role, depth, a, s

LEMMA InferStep ==
  ASSUME LedgerInv, NEW m \in Visible, LedgerInfer(m)
  PROVE  LedgerInv'
<1> DEFINE s == Consequent(m)
           a == Allocate(Probed, s)
<1>1. /\ SessionInv /\ NamingInv /\ Infer(m) /\ LevelsBounded /\ rows \in Seq(RowType)
      /\ InnerRows /\ HypothesesOpened /\ FactsHaveRows
  BY DEF LedgerInv, LedgerInfer, NamingInv
<1>2. Recording(s, a) /\ \E v \in Visible : WroteRow(a, "inferred", Level - 1, m, v)
  BY InferWrites
<1>3. PICK v \in Visible : WroteRow(a, "inferred", Level - 1, m, v)
  BY <1>2
<1>4. /\ Proving /\ Notation(a) = Notation(s) /\ chain' \in Seq(NodeType)
      /\ Len(chain) \in Nat /\ Len(chain') = Len(chain) + 1
      /\ \A i \in 1..Len(chain) : chain'[i] = chain[i]
      /\ Elements(chain'[Len(chain) + 1].facts) = {a}
      /\ Facts(chain') = Facts(chain) \cup {a}
      /\ Proving' /\ Level \in 1..Len(chain) /\ Level' = Level
      /\ a \in registry' /\ lemmas' = lemmas /\ SessionInv'
  BY <1>1, InferFacts
<1> HIDE DEF s, a
<1>5. KeepsRows(a)
  BY <1>1, <1>3, WroteKeeps
<1>6. /\ Len(rows) \in Nat /\ Len(rows') = Len(rows) + 1 /\ rows' \in Seq(RowType)
      /\ Reads(numbering', registry', rows')
      /\ \A j \in 1..Len(rows) : rows'[j] = rows[j]
      /\ rows'[Len(rows) + 1].id = OwnId(numbering', a)
      /\ rows'[Len(rows) + 1].text = Notation(a)
      /\ rows'[Len(rows) + 1].depth = Level - 1
  BY <1>3 DEF WroteRow
<1>7. NamingInv'
  BY <1>2, <1>6 DEF NamingInv, Recording
<1>8. LevelsBounded' /\ Level \in 1..2
  BY <1>1, <1>4 DEF LevelsBounded
<1>9. \A w \in Facts(chain) : w \in Visible /\ w \in registry' \cup Axioms
  BY <1>4 DEF SessionInv, VisibleOwned, Visible
<1>10. \A i \in 1..Len(chain) : \A w \in Elements(chain[i].facts) : w \in Facts(chain)
  BY <1>1, FactsMember DEF SessionInv, TypeOK
<1>11. InnerRows'
  <2> SUFFICES ASSUME Level = 2
               PROVE  /\ \A i, j \in 1..Len(rows') : i <= j => rows'[i].depth <= rows'[j].depth
                      /\ \A i \in 1..Len(rows') : \E w \in Facts(chain') : Notation(w) = rows'[i].text
    BY <1>4 DEF InnerRows
  <2>1. \A i \in 1..Len(rows') : rows'[i].depth \in {0, 1}
    BY <1>6, DepthsTyped
  <2>2. ASSUME NEW i \in 1..Len(rows'), NEW j \in 1..Len(rows'), i <= j
        PROVE  rows'[i].depth <= rows'[j].depth
    <3>1. CASE j = Len(rows) + 1
      <4>1. rows'[j].depth = 1
        BY <1>6, <3>1
      <4> QED BY <2>1, <4>1
    <3>2. CASE j \in 1..Len(rows)
      <4>1. i \in 1..Len(rows) /\ rows'[i] = rows[i] /\ rows'[j] = rows[j]
        BY <1>6, <2>2, <3>2
      <4>2. rows[i].depth <= rows[j].depth
        BY <1>1, <1>4, <2>2, <3>2, <4>1 DEF InnerRows
      <4> QED BY <4>1, <4>2
    <3> QED BY <1>6, <3>1, <3>2
  <2>3. ASSUME NEW i \in 1..Len(rows')
        PROVE  \E w \in Facts(chain') : Notation(w) = rows'[i].text
    <3>1. CASE i = Len(rows) + 1
      BY <1>4, <1>6, <3>1
    <3>2. CASE i \in 1..Len(rows)
      <4>1. \E w \in Facts(chain) : Notation(w) = rows[i].text
        BY <1>1, <1>4, <3>2 DEF InnerRows
      <4> QED BY <1>4, <1>6, <3>2, <4>1
    <3> QED BY <1>6, <3>1, <3>2
  <2> QED BY <2>2, <2>3
<1>12. HypothesesOpened'
  <2>1. ASSUME NEW i \in 1..Level, NEW w \in Elements(chain'[i].facts)
        PROVE  OpenedAt(i, w)'
    <3>1. i \in 1..Len(chain) /\ w \in Elements(chain[i].facts)
      BY <1>4
    <3>2. OpenedAt(i, w)
      BY <1>1, <1>4, <3>1 DEF HypothesesOpened
    <3> QED BY <1>2, <1>5, <1>9, <1>10, <3>1, <3>2, OpenedKept
  <2> QED BY <1>4, <2>1 DEF HypothesesOpened
<1>13. FactsHaveRows'
  <2>1. ASSUME NEW i \in 1..Len(chain'), NEW w \in Elements(chain'[i].facts)
        PROVE  RowedAt(i, w)'
    <3>1. CASE i \in 1..Len(chain)
      <4>1. w \in Elements(chain[i].facts)
        BY <1>4, <3>1
      <4>2. RowedAt(i, w)
        BY <1>1, <1>4, <3>1, <4>1 DEF FactsHaveRows
      <4> QED BY <1>2, <1>4, <1>5, <1>9, <1>10, <3>1, <4>1, <4>2, RowedKept
    <3>2. CASE i = Len(chain) + 1
      <4>1. w = a
        BY <1>4, <2>1, <3>2
      <4>2. Len(rows) + 1 \in 1..Len(rows') /\ i >= 2
        BY <1>4, <1>6, <3>2
      <4>3. rows'[Len(rows) + 1].depth = 0 \/ (Level' = 2 /\ i >= 2)
        BY <1>4, <1>6, <1>8, <4>2
      <4> QED BY <1>6, <4>1, <4>2, <4>3 DEF RowedAt
    <3> QED BY <1>4, <3>1, <3>2
  <2> QED BY <2>1 DEF FactsHaveRows
<1>14. StillSaid
  BY <1>4, <1>8 DEF StillSaid
<1>15. CitesOwed'
  <2> DEFINE role == "inferred"
             depth == Level - 1
  <2>1. WroteRow(a, role, depth, m, v) /\ depth = Level - 1
    BY <1>3
  <2> HIDE DEF role, depth
  <2> QED BY <1>2, <1>4, <1>14, <2>1, CitesStep
<1>16. IntroductionsCloseScopes'
  <2> DEFINE role == "inferred"
             depth == Level - 1
  <2>1. WroteRow(a, role, depth, m, v) /\ role # "introduced"
    BY <1>3
  <2> HIDE DEF role, depth
  <2> QED BY <2>1, ClosesStep
<1> QED BY <1>4, <1>7, <1>8, <1>11, <1>12, <1>13, <1>15, <1>16 DEF LedgerInv

LEMMA DischargeWrites ==
  ASSUME LedgerInv, LedgerDischarge
  PROVE  /\ Recording(Discharged, Staged) /\ DischargeOffered /\ WithinUniverse
         /\ KeepsRows(Staged)
         /\ Len(chain[Level].facts) = 1 =>
              WroteRow(Staged, "introduced", 0, chain[Level].facts[1], Conclusion)
         /\ Len(chain[Level].facts) # 1 => rows' = rows
         /\ SessionInv' /\ StillSaid
<1> DEFINE n == Enter(ProbedIds, Discharged)
<1>1. /\ SessionInv /\ NamingInv /\ LevelsBounded /\ rows \in Seq(RowType)
      /\ DischargeInner \/ DischargeOuter
      /\ numbering' = Pruned(n, registry') /\ rows' = Introduced(n, chain')
  BY DEF LedgerInv, LedgerDischarge, NamingInv
<1>2. /\ DischargeOffered /\ WithinUniverse
      /\ registry' \in SUBSET Registered(Probed, Discharged) /\ Staged \in registry'
      /\ \A s \in registry : s \in Elements(lemmas) => s \in registry'
      /\ Elements(lemmas) \subseteq Elements(lemmas') /\ SessionInv'
  BY <1>1, DischargeInnerFacts, DischargeOuterFacts
<1>3. /\ Proving /\ Discharged \in Statement /\ ~Seen(Discharged)
      /\ Level \in 1..Len(chain) /\ Len(chain[Level].facts) \in 1..2
      /\ \A k \in 1..Len(chain[Level].facts) :
           chain[Level].facts[k] \in Elements(chain[Level].facts)
      /\ Elements(chain[Level].facts) \subseteq Facts(chain)
      /\ Conclusion \in Facts(chain)
  BY <1>1, <1>2, DischargeFacts
<1>4. Depth(chain') = 0
  <2>1. CASE DischargeInner
    <3>1. /\ chain' \in Seq(NodeType) /\ Len(chain') = Level /\ Level > 1
          /\ \A i \in 1..Len(chain') : chain'[i].kind = "start" <=> i <= Level - 1
      BY <1>1, <2>1, DischargeInnerFacts
    <3>2. Level = 2
      BY <1>1, <1>3, <3>1 DEF LevelsBounded
    <3>3. 1 \in 0..Len(chain') /\ \A i \in 1..Len(chain') : chain'[i].kind = "start" <=> i <= 1
      BY <3>1, <3>2
    <3> QED BY <3>1, <3>3, DepthOf
  <2>2. CASE DischargeOuter
    <3>1. chain' = <<>>
      BY <1>1, <2>2, DischargeOuterFacts
    <3>2. <<>> \in Seq(NodeType) /\ Len(<<>>) = 0 /\ 0 \in 0..Len(<<>>)
      OBVIOUS
    <3>3. \A i \in 1..Len(<<>>) : <<>>[i].kind = "start" <=> i <= 0
      BY <3>2
    <3> QED BY <3>1, <3>2, <3>3, DepthOf
  <2> QED BY <1>1, <2>1, <2>2
<1>5. StillSaid
  <2>1. CASE DischargeInner
    BY <1>1, <2>1, DischargeInnerFacts DEF StillSaid
  <2>2. CASE DischargeOuter
    BY <1>1, <2>2, DischargeOuterFacts DEF StillSaid
  <2> QED BY <1>1, <2>1, <2>2
<1> DEFINE s == Discharged
           a == Staged
           u == chain[Level].facts[1]
           v == Conclusion
<1>6. /\ s \in Statement /\ ~Seen(s) /\ a = Allocate(Probed, s) /\ a \in registry'
      /\ registry' \in SUBSET Registered(Probed, s)
      /\ numbering' = Pruned(Enter(ProbedIds, s), registry')
  BY <1>1, <1>2, <1>3 DEF Staged
<1>7. u \in Visible /\ v \in Visible
  BY <1>3 DEF Visible
<1>8. ASSUME Len(chain[Level].facts) = 1
      PROVE  rows' = Append(rows, Row(Enter(ProbedIds, s), s, "introduced",
                       <<IdOf(Enter(ProbedIds, s), u), IdOf(Enter(ProbedIds, s), v)>>, 0))
  BY <1>1, <1>4, <1>8 DEF Introduced
<1> HIDE DEF s, a, u, v
<1>9. Recording(s, a)
  BY <1>1, <1>2, <1>3, <1>6, RecordingFacts
<1>10. ASSUME Len(chain[Level].facts) = 1
       PROVE  WroteRow(a, "introduced", 0, u, v)
  <2> DEFINE role == "introduced"
             depth == 0
  <2>1. /\ role \in {"inferred", "introduced"} /\ depth \in {0, 1}
        /\ rows' = Append(rows, Row(Enter(ProbedIds, s), s, role,
                     <<IdOf(Enter(ProbedIds, s), u), IdOf(Enter(ProbedIds, s), v)>>, depth))
    BY <1>8, <1>10
  <2> HIDE DEF role, depth
  <2>2. WroteRow(a, role, depth, u, v)
    BY <1>1, <1>7, <1>9, <2>1, WrittenRow
  <2> QED BY <2>2 DEF role, depth
<1>11. Len(chain[Level].facts) # 1 => rows' = rows
  BY <1>1 DEF Introduced
<1>12. KeepsRows(a)
  <2>1. CASE Len(chain[Level].facts) = 1
    <3> DEFINE role == "introduced"
               depth == 0
    <3>1. WroteRow(a, role, depth, u, v)
      BY <1>10, <2>1
    <3> HIDE DEF role, depth
    <3> QED BY <1>1, <3>1, WroteKeeps
  <2>2. CASE Len(chain[Level].facts) # 1
    BY <1>1, <1>11, <2>2, SameKeeps
  <2> QED BY <2>1, <2>2
<1> QED BY <1>2, <1>5, <1>9, <1>10, <1>11, <1>12 DEF s, a, u, v

\* What the two discharges have in common.
LEMMA DischargeTable ==
  ASSUME LedgerInv, LedgerDischarge
  PROVE  NamingInv' /\ CitesOwed' /\ IntroductionsCloseScopes'
<1> DEFINE s == Discharged
           a == Staged
           u == chain[Level].facts[1]
           v == Conclusion
<1>1. /\ Recording(s, a) /\ KeepsRows(a) /\ SessionInv' /\ StillSaid
      /\ Len(chain[Level].facts) = 1 => WroteRow(a, "introduced", 0, u, v)
      /\ Len(chain[Level].facts) # 1 => rows' = rows
      /\ DischargeOffered /\ WithinUniverse
  BY DischargeWrites
<1>2. /\ SessionInv /\ rows \in Seq(RowType) /\ LevelsBounded /\ InnerRows /\ HypothesesOpened
      /\ CitesOwed /\ IntroductionsCloseScopes
  BY DEF LedgerInv, NamingInv
<1>3. /\ Proving /\ Len(chain[Level].facts) \in 1..2 /\ u \in Elements(chain[Level].facts)
      /\ u \in Visible /\ v \in Visible
  <2>1. /\ Proving /\ Len(chain[Level].facts) \in 1..2
        /\ \A k \in 1..Len(chain[Level].facts) :
             chain[Level].facts[k] \in Elements(chain[Level].facts)
        /\ Elements(chain[Level].facts) \subseteq Facts(chain)
        /\ Conclusion \in Facts(chain)
    BY <1>1, <1>2, DischargeFacts
  <2>2. 1 \in 1..Len(chain[Level].facts)
    BY <2>1
  <2> QED BY <2>1, <2>2 DEF Visible
<1> HIDE DEF s, a, u, v
<1>4. CASE Len(chain[Level].facts) = 1
  <2> DEFINE role == "introduced"
             depth == 0
  <2>1. WroteRow(a, role, depth, u, v)
    BY <1>1, <1>4
  <2>2. role = "introduced"
    OBVIOUS
  <2>3. ASSUME NEW last, last = Len(rows) + 1 PROVE ClosesAt(rows', last)
    BY <1>2, <1>3, <2>1, <2>3, ClosesNew
  <2> HIDE DEF role, depth
  <2>4. CitesOwed'
    BY <1>1, <1>3, <2>1, <2>2, CitesStep
  <2>5. IntroductionsCloseScopes'
    BY <2>1, <2>3, ClosesStep
  <2>6. NamingInv'
    BY <1>1, <2>1 DEF NamingInv, Recording, WroteRow
  <2> QED BY <2>4, <2>5, <2>6
<1>5. CASE Len(chain[Level].facts) # 1
  <2>1. rows' = rows
    BY <1>1, <1>5
  <2>2. NamingInv'
    BY <1>1, <1>2, <2>1 DEF NamingInv, Recording
  <2>3. IntroductionsCloseScopes'
    <3>1. /\ \A id : RowNumber(id) = FirstOf(rows, id)
          /\ \A id : RowNumber(id)' = FirstOf(rows', id)
      BY DEF RowNumber, FirstOf
    <3>2. \A id : RowNumber(id)' = RowNumber(id)
      BY <2>1, <3>1
    <3> QED BY <1>2, <2>1, <3>2 DEF IntroductionsCloseScopes
  <2>4. ASSUME NEW i \in 1..Len(rows), NEW id \in Cited(i) PROVE OwedAt(i, id)'
    <3>1. OwedAt(i, id)
      BY <1>2 DEF CitesOwed
    <3> QED BY <1>1, <1>3, <3>1, OwedKept
  <2>5. CitesOwed'
    BY <2>1, <2>4 DEF CitesOwed, Cited
  <2> QED BY <2>2, <2>3, <2>5
<1> QED BY <1>4, <1>5

LEMMA DischargeStep ==
  ASSUME LedgerInv, LedgerDischarge
  PROVE  LedgerInv'
<1>1. NamingInv' /\ CitesOwed' /\ IntroductionsCloseScopes'
  BY DischargeTable
<1>2. /\ SessionInv /\ NamingInv /\ LevelsBounded /\ InnerRows /\ HypothesesOpened /\ FactsHaveRows
      /\ DischargeInner \/ DischargeOuter
  BY DEF LedgerInv, LedgerDischarge
<1>3. /\ Recording(Discharged, Staged) /\ DischargeOffered /\ WithinUniverse
      /\ KeepsRows(Staged) /\ SessionInv'
      /\ Len(chain[Level].facts) = 1 =>
           WroteRow(Staged, "introduced", 0, chain[Level].facts[1], Conclusion)
      /\ Len(chain[Level].facts) # 1 => rows' = rows
  BY DischargeWrites
<1>4. CASE DischargeOuter
  <2>1. ~Proving'
    BY <1>2, <1>4, DischargeOuterFacts
  <2>2. LevelsBounded' /\ InnerRows' /\ HypothesesOpened' /\ FactsHaveRows'
    BY <2>1 DEF LevelsBounded, InnerRows, HypothesesOpened, FactsHaveRows
  <2> QED BY <1>1, <1>3, <2>2 DEF LedgerInv
<1>5. CASE DischargeInner
  <2> DEFINE s == Discharged
             a == Staged
  <2>1. /\ Level > 1 /\ chain' \in Seq(NodeType) /\ Len(chain') = Level
        /\ \A i \in 1..(Level - 1) : chain'[i] = chain[i]
        /\ Elements(chain'[Level].facts) = {a}
        /\ Proving' /\ Level' = Level - 1 /\ a \in registry'
    BY <1>2, <1>5, DischargeInnerFacts
  <2>2. /\ Proving /\ s \in Statement /\ ~Seen(s) /\ Level \in 1..Len(chain)
        /\ a \notin Axioms /\ Notation(a) = Notation(s)
        /\ Len(chain[Level].facts) \in 1..2
        /\ Len(chain[Level].facts) # 1 => s.kind = "rule"
    BY <1>2, <1>3, DischargeFacts
  <2>3. /\ Recording(s, a) /\ KeepsRows(a)
        /\ Len(chain[Level].facts) = 1 =>
             WroteRow(a, "introduced", 0, chain[Level].facts[1], Conclusion)
        /\ Len(chain[Level].facts) # 1 => rows' = rows
    BY <1>3
  <2> HIDE DEF s, a
  <2>4. Level = 2 /\ Level' = 1 /\ Len(chain') = 2
    BY <1>2, <2>1, <2>2 DEF LevelsBounded
  <2>5. chain'[1] = chain[1] /\ Elements(chain'[2].facts) = {a} /\ 1 \in 1..Len(chain) /\ 1 \in 1..Level
    BY <2>1, <2>2, <2>4
  <2>6. LevelsBounded' /\ InnerRows'
    BY <2>4 DEF LevelsBounded, InnerRows
  <2>7. \A w \in Elements(chain[1].facts) : w \in Visible /\ w \in registry' \cup Axioms
    <3>1. \A w \in Elements(chain[1].facts) : w \in Facts(chain)
      BY <1>2, <2>5, FactsMember DEF SessionInv, TypeOK
    <3>2. \A w \in Elements(chain'[1].facts) : w \in Facts(chain')
      BY <2>1, <2>4, FactsMember
    <3> QED BY <1>3, <2>5, <3>1, <3>2 DEF SessionInv, VisibleOwned, Visible
  <2>8. HypothesesOpened'
    <3>1. ASSUME NEW w \in Elements(chain[1].facts) PROVE OpenedAt(1, w)'
      <4>1. OpenedAt(1, w)
        BY <1>2, <2>2, <2>5 DEF HypothesesOpened
      <4> QED BY <2>3, <2>7, <4>1, OpenedKept
    <3>2. \A i \in 1..Level' : i = 1
      BY <2>4
    <3> QED BY <2>5, <3>1, <3>2 DEF HypothesesOpened
  <2>9. FactsHaveRows'
    <3>1. ASSUME NEW w \in Elements(chain[1].facts) PROVE RowedAt(1, w)'
      <4>1. RowedAt(1, w)
        BY <1>2, <2>2, <2>5 DEF FactsHaveRows
      <4> QED BY <2>3, <2>4, <2>7, <4>1, RowedKept
    <3>2. ASSUME NEW w, w = a PROVE RowedAt(2, w)'
      <4>1. CASE Len(chain[Level].facts) = 1
        <5>1. /\ Len(rows) \in Nat /\ Len(rows') = Len(rows) + 1
              /\ rows'[Len(rows) + 1].id = OwnId(numbering', a)
              /\ rows'[Len(rows) + 1].depth = 0
          BY <2>3, <4>1 DEF WroteRow
        <5>2. Len(rows) + 1 \in 1..Len(rows')
          BY <5>1
        <5> QED BY <3>2, <5>1, <5>2 DEF RowedAt
      <4>2. CASE Len(chain[Level].facts) # 1
        <5>1. rows' = rows /\ PrintsAsRule(w)
          BY <2>2, <2>3, <3>2, <4>2 DEF PrintsAsRule
        <5>2. ASSUME NEW j \in 1..Len(rows), rows[j].id = OwnId(numbering', a) PROVE FALSE
          <6>1. rows[j].text = Notation(s)
            BY <2>3, <5>2 DEF Recording
          <6>2. \E t \in Facts(chain) : Notation(t) = rows[j].text
            BY <1>2, <2>2, <2>4 DEF InnerRows
          <6>3. Seen(s)
            BY <6>1, <6>2 DEF Seen, Visible
          <6> QED BY <2>2, <6>3
        <5>3. NoRowIn(rows', OwnId(numbering', w))
          BY <3>2, <5>1, <5>2 DEF NoRowIn
        <5> QED BY <2>4, <5>1, <5>3 DEF RowedAt, PrintsAsRule
      <4> QED BY <4>1, <4>2
    <3>3. \A i \in 1..Len(chain') : i = 1 \/ i = 2
      BY <2>4
    <3>4. ASSUME NEW i \in 1..Len(chain'), NEW w \in Elements(chain'[i].facts)
          PROVE  RowedAt(i, w)'
      <4>1. CASE i = 1
        BY <2>5, <3>1, <3>4, <4>1
      <4>2. CASE i = 2
        BY <2>5, <3>2, <3>4, <4>2
      <4> QED BY <3>3, <4>1, <4>2
    <3> QED BY <3>4 DEF FactsHaveRows
  <2> QED BY <1>1, <1>3, <2>6, <2>8, <2>9 DEF LedgerInv
<1> QED BY <1>2, <1>4, <1>5

LEMMA LedgerInitInv == LedgerInit => LedgerInv
<1> SUFFICES ASSUME LedgerInit PROVE LedgerInv
  OBVIOUS
<1>1. /\ SessionInv /\ registry = {} /\ ~Proving /\ rows = <<>>
      /\ numbering = [ids |-> <<>>, next |-> Cardinality(Axioms) + 1]
  BY SessionInvInit DEF LedgerInit, Init, Proving
<1>2. Cardinality(Axioms) \in Nat
  BY AxiomIds
<1>3. Numbers(numbering, registry)
  BY <1>1, <1>2 DEF Numbers
<1>4. rows \in Seq(RowType) /\ Len(rows) = 0 /\ DOMAIN rows = {}
  BY <1>1
<1>5. NamingInv
  BY <1>3, <1>4 DEF NamingInv, Reads
<1>6. LevelsBounded /\ InnerRows /\ HypothesesOpened /\ FactsHaveRows
  BY <1>1 DEF LevelsBounded, InnerRows, HypothesesOpened, FactsHaveRows
<1>7. CitesOwed /\ IntroductionsCloseScopes
  BY <1>4 DEF CitesOwed, IntroductionsCloseScopes
<1> QED BY <1>1, <1>5, <1>6, <1>7 DEF LedgerInv

\* A step that changes neither the session nor the ledger.
LEMMA LedgerStutter ==
  ASSUME LedgerInv, UNCHANGED ledgerVars
  PROVE  LedgerInv'
<1>1. SessionInv'
  BY SessionInvStep DEF LedgerInv, ledgerVars
<1>2. /\ lemmas' = lemmas /\ chain' = chain /\ registry' = registry
      /\ numbering' = numbering /\ rows' = rows
  BY DEF ledgerVars, vars
<1>3. Proving' = Proving /\ Level' = Level
  BY <1>2 DEF Proving, Level, Starts
<1>4. NamingInv'
  BY <1>2 DEF LedgerInv, NamingInv
<1>5. LevelsBounded' /\ InnerRows'
  BY <1>2, <1>3 DEF LedgerInv, LevelsBounded, InnerRows
<1>6. \A i, w : OpenedAt(i, w)' = OpenedAt(i, w)
  BY <1>2 DEF OpenedAt
<1>7. \A id : SeenEverywhere(id)' = SeenEverywhere(id)
  BY <1>2 DEF SeenEverywhere
<1>8. \A i, w : RowedAt(i, w)' = RowedAt(i, w)
  BY <1>2, <1>3, <1>7 DEF RowedAt, PrintsAsRule
<1>9. \A i, id : OwedAt(i, id)' = OwedAt(i, id)
  BY <1>2, <1>3, <1>7 DEF OwedAt, InScope
<1>10. HypothesesOpened' /\ FactsHaveRows'
  BY <1>2, <1>3, <1>6, <1>8 DEF LedgerInv, HypothesesOpened, FactsHaveRows
<1>11. CitesOwed'
  BY <1>2, <1>9 DEF LedgerInv, CitesOwed, Cited
<1>12. IntroductionsCloseScopes'
  <2>1. \A id : RowNumber(id)' = RowNumber(id)
    BY <1>2 DEF RowNumber
  <2> QED BY <1>2, <2>1 DEF LedgerInv, IntroductionsCloseScopes
<1> QED BY <1>1, <1>4, <1>5, <1>10, <1>11, <1>12 DEF LedgerInv

LEMMA LedgerInvHolds == LedgerSpec => []LedgerInv
<1>1. LedgerInv /\ [LedgerNext]_ledgerVars => LedgerInv'
  <2> SUFFICES ASSUME LedgerInv, [LedgerNext]_ledgerVars PROVE LedgerInv'
    OBVIOUS
  <2>1. ASSUME NEW sc \in Script, LedgerOpen(sc) PROVE LedgerInv'
    BY <2>1, OpenStep
  <2>2. ASSUME NEW sc \in Script, LedgerRefuse(sc) PROVE LedgerInv'
    BY <2>2, RefuseStep
  <2>3. ASSUME NEW m \in Visible, LedgerInfer(m) PROVE LedgerInv'
    BY <2>3, InferStep
  <2>4. CASE LedgerDischarge
    BY <2>4, DischargeStep
  <2>5. CASE LedgerAbandon
    BY <2>5, AbandonStep
  <2>6. CASE (Finished /\ UNCHANGED <<numbering, rows>>) \/ UNCHANGED ledgerVars
    <3>1. UNCHANGED ledgerVars
      BY <2>6 DEF Finished, ledgerVars
    <3> QED BY <3>1, LedgerStutter
  <2> QED BY <2>1, <2>2, <2>3, <2>4, <2>5, <2>6 DEF LedgerNext
<1> QED BY <1>1, LedgerInitInv, PTL DEF LedgerSpec

-----------------------------------------------------------------------------
(* What a reader of a theorem file may count on.                           *)

\* A script changes the session as it does without its file: what is proved of the
\* session above holds while the rows are written.
THEOREM WritesBesideTheSession == LedgerSpec => Spec
<1>1. LedgerInit => Init
  BY DEF LedgerInit
<1>2. [LedgerNext]_ledgerVars => [Next]_vars
  BY DEF LedgerNext, LedgerOpen, LedgerRefuse, LedgerInfer, LedgerDischarge, LedgerAbandon,
         Next, ledgerVars
<1> QED BY <1>1, <1>2, PTL DEF LedgerSpec, Spec

\* An id names one text for as long as a row or a live statement has it: the ids spent
\* by registration are never handed out again, and pruning moves none.
THEOREM IdsAreKept == LedgerSpec => []IdsNameOneText
<1>1. LedgerInv => IdsNameOneText
  <2> SUFFICES ASSUME LedgerInv PROVE IdsNameOneText
    OBVIOUS
  <2>1. /\ Numbers(numbering, registry) /\ Reads(numbering, registry, rows)
        /\ DOMAIN rows = 1..Len(rows)
    BY LenProperties DEF LedgerInv, NamingInv
  <2>2. numbering.ids \in [registry -> 1..(numbering.next - 1)]
    BY <2>1, AxiomIds DEF Numbers
  <2> QED BY <2>1, <2>2 DEF Reads, IdsNameOneText
<1> QED BY <1>1, LedgerInvHolds, PTL

\* The Fitch rendering is a proof: a row cites only rows above it in a scope that is
\* still open, beside what every script can see.
THEOREM CitationsInScope == LedgerSpec => []CitesOpenScopes
<1>1. LedgerInv => CitesOpenScopes
  <2> SUFFICES ASSUME LedgerInv, NEW i \in DOMAIN rows, NEW id \in Cited(i)
               PROVE  \/ RowNumber(id) = 0 \/ SeenEverywhere(id)
                      \/ \E j \in 1..(i - 1) : rows[j].id = id /\ InScope(j, i)
    BY DEF CitesOpenScopes
  <2>1. DOMAIN rows = 1..Len(rows)
    BY LenProperties DEF LedgerInv, NamingInv
  <2>2. OwedAt(i, id)
    BY <2>1 DEF LedgerInv, CitesOwed
  <2>3. NoRowIn(rows, id) => RowNumber(id) = 0
    BY <2>1 DEF NoRowIn, RowNumber
  <2> QED BY <2>2, <2>3 DEF OwedAt
<1> QED BY <1>1, LedgerInvHolds, PTL

\* The depth of an introduction is that of the scope it discharges into, and that scope
\* runs without a break from the hypothesis to the row above.
THEOREM IntroductionsClose == LedgerSpec => []IntroductionsCloseScopes
<1>1. LedgerInv => IntroductionsCloseScopes
  BY DEF LedgerInv
<1> QED BY <1>1, LedgerInvHolds, PTL

\* The id of something visible has a row, is seen by every script, or is a rule's.
LEMMA VisibleIdRowed ==
  ASSUME LedgerInv, Proving, NEW w \in Visible, NEW id, id = OwnId(numbering, w)
  PROVE  \/ \E i \in DOMAIN rows : rows[i].id = id
         \/ SeenEverywhere(id)
         \/ \E s \in registry : numbering.ids[s] = id /\ PrintsAsRule(s)
<1>1. /\ SessionInv /\ FactsHaveRows /\ w \in registry \cup Axioms
      /\ DOMAIN rows = 1..Len(rows)
  BY LenProperties DEF LedgerInv, NamingInv, SessionInv, VisibleOwned
<1>2. CASE w \in Axioms
  BY <1>2 DEF OwnId, SeenEverywhere
<1>3. CASE w \notin Axioms /\ w \in Elements(lemmas)
  BY <1>1, <1>3 DEF OwnId, SeenEverywhere
<1>4. CASE w \notin Axioms /\ w \in Facts(chain)
  <2>1. PICK i \in 1..Len(chain) : w \in Elements(chain[i].facts)
    BY <1>1, <1>4, FactsMember DEF SessionInv, TypeOK
  <2>2. RowedAt(i, w)
    BY <1>1, <2>1 DEF FactsHaveRows
  <2> QED BY <1>1, <1>4, <2>2 DEF RowedAt, OwnId
<1> QED BY <1>2, <1>3, <1>4 DEF Visible

\* Every id a row cites is rewritten to a row number, but for axioms, theorems of earlier
\* scripts and the rules of discharged pairs: no other rationale keeps a label.
THEOREM LabelsAreFew == LedgerSpec => OnlyTheseStayLabels
<1>1. ASSUME LedgerInv, LedgerNext, Proving, Len(rows') > Len(rows)
      PROVE  \E a, role, depth : \E u, v \in Visible : WroteRow(a, role, depth, u, v)
  <2>1. Len(rows) \in Nat
    BY <1>1, LenProperties DEF LedgerInv, NamingInv
  <2>2. rows' # <<>> /\ rows' # rows
    BY <1>1, <2>1
  <2>3. CASE \E m \in Visible : LedgerInfer(m)
    BY <1>1, <2>3, InferWrites
  <2>4. CASE LedgerDischarge
    <3>1. /\ DischargeOffered /\ SessionInv /\ WithinUniverse
          /\ Len(chain[Level].facts) = 1 =>
               WroteRow(Staged, "introduced", 0, chain[Level].facts[1], Conclusion)
          /\ Len(chain[Level].facts) # 1 => rows' = rows
      BY <1>1, <2>4, DischargeWrites DEF LedgerInv
    <3>2. chain[Level].facts[1] \in Visible /\ Conclusion \in Visible
      <4>1. /\ Len(chain[Level].facts) \in 1..2
            /\ \A k \in 1..Len(chain[Level].facts) :
                 chain[Level].facts[k] \in Elements(chain[Level].facts)
            /\ Elements(chain[Level].facts) \subseteq Facts(chain)
            /\ Conclusion \in Facts(chain)
        BY <3>1, DischargeFacts
      <4>2. 1 \in 1..Len(chain[Level].facts)
        BY <4>1
      <4> QED BY <4>1, <4>2 DEF Visible
    <3> QED BY <2>2, <3>1, <3>2
  <2> QED BY <1>1, <2>2, <2>3, <2>4 DEF LedgerNext, LedgerOpen, OpenScript, LedgerRefuse,
       RefuseScript, LedgerAbandon, Finished
<1>2. ASSUME LedgerInv, [LedgerNext]_ledgerVars,
             Proving, Len(rows') > Len(rows), NEW k \in DOMAIN Top(rows').cites
      PROVE  LET id == Top(rows').cites[k]
             IN  \/ \E i \in DOMAIN rows : rows[i].id = id
                 \/ SeenEverywhere(id)
                 \/ \E s \in registry : numbering.ids[s] = id /\ PrintsAsRule(s)
  <2> DEFINE id == Top(rows').cites[k]
  <2>1. Len(rows) \in Nat
    BY <1>2, LenProperties DEF LedgerInv, NamingInv
  <2>2. ~UNCHANGED ledgerVars
    BY <1>2, <2>1 DEF ledgerVars
  <2>3. PICK a, role, depth : \E u, v \in Visible : WroteRow(a, role, depth, u, v)
    BY <1>1, <1>2, <2>2
  <2>4. PICK u \in Visible, v \in Visible : WroteRow(a, role, depth, u, v)
    BY <2>3
  <2>5. id \in {OwnId(numbering, u), OwnId(numbering, v)}
    <3>1. id \in CitedIn(rows', Len(rows'))
      BY <1>2 DEF CitedIn, Top
    <3> QED BY <2>4, <3>1 DEF WroteRow
  <2> HIDE DEF id
  <2>6. \/ \E i \in DOMAIN rows : rows[i].id = id
        \/ SeenEverywhere(id)
        \/ \E s \in registry : numbering.ids[s] = id /\ PrintsAsRule(s)
    <3>1. PICK w \in Visible : id = OwnId(numbering, w)
      BY <2>5
    <3> QED BY <1>2, <3>1, VisibleIdRowed
  <2> QED BY <2>6 DEF id
<1>3. LedgerInv /\ [LedgerNext]_ledgerVars =>
        [Proving /\ Len(rows') > Len(rows) =>
           \A k \in DOMAIN Top(rows').cites :
             LET id == Top(rows').cites[k]
             IN  \/ \E i \in DOMAIN rows : rows[i].id = id
                 \/ SeenEverywhere(id)
                 \/ \E s \in registry : numbering.ids[s] = id /\ PrintsAsRule(s)]_ledgerVars
  BY <1>2
<1> QED BY <1>3, LedgerInvHolds, PTL DEF LedgerSpec, OnlyTheseStayLabels

=====
