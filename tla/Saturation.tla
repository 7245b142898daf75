------------------------------ MODULE Saturation ------------------------------
(***************************************************************************)
(* The configuration stage of GentzenW: the axioms are loaded one after     *)
(* another (gentzen::axioms), the symbol catalog grows with them, observers *)
(* hear of them, and one observer, `saturation', instantiates each          *)
(* conditional definition axiom (a schema) at each declared symbol and      *)
(* records what it concludes as a root lemma.  A recorded definition with   *)
(* a closed definiendum becomes a defined notation (defined_SVO).           *)
(*                                                                          *)
(* Lines of the configuration enter already parsed, and a statement stands  *)
(* for its notation, by which all this code compares.                       *)
(***************************************************************************)
EXTENDS Integers, Sequences, Observers, SymbolCatalog

CONSTANTS
    Declarations, Schemas, Formulas,  \* the lines: "x is a ...", "_ is a ... |- C", others
    Symbols,        \* what a declaration can be about
    SymbolLike,     \* single words, tagged or not
    Kind,           \* the phrase of a declaration, or of a schema's hypothesis
    Subject,        \* what a declaration is about
    Recognized,     \* the entailments tagged as such by the parser
    AltersSyntax,   \* schemas concluding a prefix, postfix or infix declaration
    Statements,     \* the notations of what schemas conclude; Formulas print like some
    Conclusion,     \* <<schema, symbol>> -> statement, where the instance has no error
    Phrase,         \* definition with a closed definiendum -> its definiendum
    Definiens,      \* ... -> its definiens
    Others,         \* observers other than saturation
    MaxAxioms       \* bound on the axioms loaded

Saturator == "saturation"
Observer == Others \union {Saturator}
Lines == Declarations \union Schemas \union Formulas
ClosedDefinitions == DOMAIN Phrase

ASSUME LinesAssumption ==
    /\ Schemas \intersect (Declarations \union Formulas) = {}
    /\ Declarations \intersect (Schemas \union Formulas \union Statements) = {}
    /\ Schemas \intersect Statements = {}
    /\ Formulas \subseteq Statements
    /\ Subject \in [Declarations -> Symbols]
    /\ Kind \in [Declarations \union Schemas -> Kinds]
    /\ DOMAIN Conclusion \subseteq Schemas \X Symbols
    /\ \A p \in DOMAIN Conclusion : Conclusion[p] \in Statements
    /\ DOMAIN Phrase \subseteq Statements \ Formulas  \* A := B is no entailment
    /\ DOMAIN Definiens = DOMAIN Phrase
    /\ \A d, e \in DOMAIN Phrase : Phrase[d] = Phrase[e] /\ Definiens[d] = Definiens[e] => d = e
    /\ Saturator \notin Others
    /\ MaxAxioms \in Nat

VARIABLES
    axioms,        \* axioms::_axioms
    catalog,       \* the symbol catalog
    watchers,      \* axioms::_watchers
    living,        \* the observers whose owners still hold them
    asked,         \* the observers watched_by has been called for
    heard,         \* what onNext has been called with, for each observer
    inbox,         \* axioms saturation is still to be told of by the call under way
    schemas,       \* saturation::_schemas
    declarations,  \* saturation::_declarations
    pairs,         \* the calls of saturate the onNext under way still has to make
    lemmas,        \* _lemmas of the root instance
    definitions    \* defined_SVO::_entries

vars == <<axioms, catalog, watchers, living, asked, heard, inbox, schemas,
          declarations, pairs, lemmas, definitions>>
loading == <<axioms, catalog, watchers, living, asked>>
saturated == <<schemas, declarations, pairs, lemmas, definitions>>

Elems(s) == {s[i] : i \in DOMAIN s}

\* no call is under way
AtRest == inbox = <<>> /\ pairs = <<>>

Init ==
    /\ axioms = <<>>
    /\ catalog = EmptyCatalog
    /\ watchers = <<>>
    /\ living = Observer
    /\ asked = {}
    /\ heard = [o \in Observer |-> <<>>]
    /\ inbox = <<>>
    /\ schemas = <<>>
    /\ declarations = <<>>
    /\ pairs = <<>>
    /\ lemmas = <<>>
    /\ definitions = <<>>

-------------------------------------------------------------------------------
(***************************************************************************)
(* Loading                                                                  *)
(***************************************************************************)

\* is_not_legal_axiom and, for what is still a lex_node, the tests of add_axiom
Legal(line) ==
    IF line \in Declarations THEN Subject[line] \in SymbolLike
    ELSE line \in Recognized /\ line \notin AltersSyntax

Refused(line) ==
    \/ ~Legal(line)
    \/ line \in Declarations /\ DeclareRefuses(catalog, Kind[line], Subject[line])

CatalogWith(line) ==
    IF line \in Declarations THEN Declared(catalog, Kind[line], Subject[line]) ELSE catalog

\* watched_by, while axioms are already loaded
Replayed == axioms

\* notify: saturation always answers true, the other observers may not
Tell(line, leaving) ==
    LET result == Notified(watchers, living, Observer \ leaving) IN
    /\ watchers' = result.left
    /\ heard' = [o \in Observer |->
                   IF o \in Others /\ o \in Elems(result.told) THEN Append(heard[o], line)
                                                              ELSE heard[o]]
    /\ inbox' = IF Saturator \in Elems(result.told) THEN <<line>> ELSE <<>>

\* axioms::add_axiom, both overloads
AddAxiom(line, leaving) ==
    /\ AtRest
    /\ Len(axioms) < MaxAxioms
    /\ ~Refused(line)
    /\ leaving \subseteq Others \intersect Elems(watchers)
    /\ axioms' = Append(axioms, line)
    /\ catalog' = CatalogWith(line)
    /\ Tell(line, leaving)
    /\ UNCHANGED <<living, asked, saturated>>

\* axioms::watched_by for saturation: every axiom is replayed to it first
WatchSaturation ==
    /\ AtRest
    /\ Saturator \notin asked
    /\ asked' = asked \union {Saturator}
    /\ inbox' = Replayed
    /\ watchers' = SeenBy(watchers, Saturator, living)
    /\ UNCHANGED <<axioms, catalog, living, heard, saturated>>

(* ... and for another observer, which may answer false to the n-th axiom it
   is shown and is then not registered *)
Watch(o, n) ==
    /\ AtRest
    /\ o \in living \ asked
    /\ asked' = asked \union {o}
    /\ IF n <= Len(axioms)
       THEN heard' = [heard EXCEPT ![o] = SubSeq(Replayed, 1, n)] /\ UNCHANGED watchers
       ELSE heard' = [heard EXCEPT ![o] = Replayed] /\ watchers' = SeenBy(watchers, o, living)
    /\ UNCHANGED <<axioms, catalog, living, inbox, saturated>>

\* the last owner of an observer lets go of it
Expire(o) ==
    /\ AtRest
    /\ o \in living
    /\ living' = living \ {o}
    /\ UNCHANGED <<axioms, catalog, watchers, asked, heard, inbox, saturated>>

-------------------------------------------------------------------------------
(***************************************************************************)
(* Saturating                                                               *)
(***************************************************************************)

\* had onNext looked in one direction only
PairsOfDeclaration(line) ==
    IF line \in Declarations THEN [i \in DOMAIN schemas |-> <<schemas[i], line>>] ELSE <<>>

\* the two of a pair confused
PairsConfused(line) ==
    CASE line \in Declarations -> [i \in DOMAIN schemas |-> <<line, schemas[i]>>]
      [] line \in Schemas -> [i \in DOMAIN declarations |-> <<line, declarations[i]>>]
      [] line \in Formulas -> <<>>

\* the calls onNext makes: a new declaration against the schemas, a new schema
\* against the declarations
PairsOf(line) ==
    CASE line \in Declarations -> [i \in DOMAIN schemas |-> <<schemas[i], line>>]
      [] line \in Schemas -> [i \in DOMAIN declarations |-> <<line, declarations[i]>>]
      [] line \in Formulas -> <<>>

HearNext ==
    /\ pairs = <<>>
    /\ inbox # <<>>
    /\ inbox' = Tail(inbox)
    /\ heard' = [heard EXCEPT ![Saturator] = Append(@, Head(inbox))]
    /\ schemas' = IF Head(inbox) \in Schemas THEN Append(schemas, Head(inbox)) ELSE schemas
    /\ declarations' = IF Head(inbox) \in Declarations THEN Append(declarations, Head(inbox))
                                                       ELSE declarations
    /\ pairs' = PairsOf(Head(inbox))
    /\ UNCHANGED <<loading, lemmas, definitions>>

\* get_uniform_substitution and try_instantiate
Yields(pair) ==
    /\ Kind[pair[1]] = Kind[pair[2]]
    /\ Subject[pair[2]] \notin Placeholders
    /\ <<pair[1], Subject[pair[2]]>> \in DOMAIN Conclusion

\* detach_conclusion: the instantiated hypothesis is the declaration
Instance(pair) == Conclusion[<<pair[1], Subject[pair[2]]>>]

Known(statement) == statement \in Elems(axioms) \union Elems(lemmas)

\* defined_SVO::declare finds the phrase with another definiens
Clashes(statement) ==
    /\ statement \in ClosedDefinitions
    /\ \E i \in DOMAIN definitions :
         /\ definitions[i].phrase = Phrase[statement]
         /\ definitions[i].definiens # Definiens[statement]

Entry(statement) ==
    [ phrase |-> Phrase[statement], definiens |-> Definiens[statement],
      definition |-> statement, sources |-> {} ]

\* a declare that lets the last definition of a phrase win
DefinitionsOverwritten(statement) ==
    IF Known(statement) \/ statement \notin ClosedDefinitions THEN definitions
    ELSE IF \E i \in DOMAIN definitions : definitions[i].phrase = Phrase[statement]
         THEN [i \in DOMAIN definitions |->
                 IF definitions[i].phrase = Phrase[statement] THEN Entry(statement)
                                                              ELSE definitions[i]]
         ELSE Append(definitions, Entry(statement))

\* lemmas::record, with before_add_lemma: what the definitions become
DefinitionsWith(statement) ==
    IF Known(statement) \/ Clashes(statement) \/ statement \notin ClosedDefinitions
    THEN definitions
    ELSE Append(definitions, Entry(statement))

LemmasWith(statement) ==
    IF Known(statement) \/ Clashes(statement) THEN lemmas ELSE Append(lemmas, statement)

\* attributing only the latest pair
AttributedLast(entries, statement, pair) ==
    [i \in DOMAIN entries |->
       IF entries[i].definition = statement
       THEN [entries[i] EXCEPT !.sources = {pair[1], pair[2]}]
       ELSE entries[i]]

\* defined_SVO::attribute, for the declaration and for the schema
Attributed(entries, statement, pair) ==
    [i \in DOMAIN entries |->
       IF entries[i].definition = statement
       THEN [entries[i] EXCEPT !.sources = @ \union {pair[1], pair[2]}]
       ELSE entries[i]]

\* saturation::saturate
SaturatePair ==
    /\ pairs # <<>>
    /\ pairs' = Tail(pairs)
    /\ LET pair == Head(pairs) IN
       IF Yields(pair)
       THEN /\ lemmas' = LemmasWith(Instance(pair))
            /\ definitions' = Attributed(DefinitionsWith(Instance(pair)), Instance(pair), pair)
       ELSE UNCHANGED <<lemmas, definitions>>
    /\ UNCHANGED <<loading, heard, inbox, schemas, declarations>>

-------------------------------------------------------------------------------
Next ==
    \/ \E line \in Lines, leaving \in SUBSET Others : AddAxiom(line, leaving)
    \/ WatchSaturation
    \/ \E o \in Others, n \in 1..(MaxAxioms + 1) : Watch(o, n)
    \/ \E o \in Others : Expire(o)
    \/ HearNext
    \/ SaturatePair

Spec == Init /\ [][Next]_vars
-------------------------------------------------------------------------------
(***************************************************************************)
(* Properties                                                               *)
(***************************************************************************)

\* Values of the right kind; the calls under way are saturation's.
TypeOK ==
    /\ axioms \in Seq(Lines)
    /\ catalog \in CatalogType(Symbols)
    /\ watchers \in Seq(Observer)
    /\ living \subseteq Observer
    /\ asked \subseteq Observer
    /\ heard \in [Observer -> Seq(Lines)]
    /\ inbox \in Seq(Lines)
    /\ schemas \in Seq(Schemas)
    /\ declarations \in Seq(Declarations)
    /\ pairs \in Seq(Schemas \X Declarations)
    /\ lemmas \in Seq(Statements)
    /\ definitions \in Seq([phrase : {Phrase[d] : d \in ClosedDefinitions},
                            definiens : {Definiens[d] : d \in ClosedDefinitions},
                            definition : ClosedDefinitions,
                            sources : SUBSET Lines])

Registered == Saturator \in Elems(watchers)

(* A watcher that is still there has been shown every axiom exactly once and
   in order, by the replay or by notify, whatever other watchers expired or
   answered false in the meantime (watched_by, notify). *)
HeardExactly ==
    \A o \in living \intersect Elems(watchers) :
        axioms = IF o = Saturator THEN heard[o] \o inbox ELSE heard[o]

(* A living watcher leaves the list only by its own answer, and one that asks
   to watch is put on it unless everyone on the list had died: then seen_by
   empties the list and forgets the one that asked. *)
AllDead == watchers # <<>> /\ Elems(watchers) \intersect living = {}
Answered(o) == o \in Others /\ heard'[o] # heard[o]
RegistrationsHold ==
    [][\A o \in living' :
         o \in Elems(watchers) \union (asked' \ asked) =>
           \/ o \in Elems(watchers')
           \/ Answered(o)
           \/ o \in asked' \ asked /\ AllDead]_vars

(* Instances that schemas and declarations among the axioms give. *)
AxiomPairs ==
    {p \in (Elems(axioms) \intersect Schemas) \X (Elems(axioms) \intersect Declarations) :
        Yields(p)}

(* Between calls, and whatever came first -- schema, declaration or
   saturation itself -- every pair of them has been instantiated, and what it
   concludes is an axiom, a lemma, or a phrase that had been defined
   otherwise; and nothing else has become a lemma. *)
SaturationComplete ==
    AtRest /\ Registered =>
      /\ \A p \in AxiomPairs : Known(Instance(p)) \/ Clashes(Instance(p))
      /\ Elems(lemmas) \subseteq {Instance(p) : p \in AxiomPairs}

(* The defined notations are the closed definitions among the lemmas, one for
   each phrase: a phrase once defined means what the recorded lemma says. *)
DefinitionsMirrorLemmas ==
    /\ {definitions[i].definition : i \in DOMAIN definitions}
         = Elems(lemmas) \intersect ClosedDefinitions
    /\ \A i, j \in DOMAIN definitions : definitions[i].phrase = definitions[j].phrase => i = j

(* Between calls a defined notation is attributed to the schemas and
   declarations it follows from and to no others: the theorem file lists them
   as axioms used wherever the name is rendered. *)
SourcesExact ==
    AtRest /\ Registered =>
      \A i \in DOMAIN definitions :
        definitions[i].sources =
          UNION {{p[1], p[2]} : p \in {q \in AxiomPairs :
                                         Instance(q) = definitions[i].definition}}

(* The catalog is what the admitted declarations say: no symbol is both a
   constant and another kind, none has two entries, and an entry's kinds are
   those of the axioms -- of which the catalog only lacks the ones the
   declarations merely warn about. *)
CatalogTellsAxioms ==
    LET declared == {<<Kind[d], Subject[d]>> : d \in Elems(axioms) \intersect Declarations}
        entered  == {<<"constant", c>> : c \in catalog.constants} \union
                    UNION {{<<k, catalog.symbols[i].name>> : k \in catalog.symbols[i].kinds} :
                             i \in DOMAIN catalog.symbols}
    IN  /\ entered = {d \in declared : ~OnlyWarned(d[1], d[2])}
        /\ SymbolNames(catalog) \intersect catalog.constants = {}
        /\ \A i, j \in DOMAIN catalog.symbols :
             catalog.symbols[i].name = catalog.symbols[j].name => i = j
==============================================================================
