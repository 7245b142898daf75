# Verification of Franci / GentzenW

This directory models the core of the repository's proof assistant in TLA+,
checks the models with TLC on small instances, and proves the properties that
matter most with TLAPS for every value of the constants.

## The system

The repository builds four programs.

| part | files | state it keeps | operations |
|---|---|---|---|
| **GentzenW** proof sessions | `GentzenW.cpp` 5607-6014 | a spine of `fact_database` nodes (axioms, root `lemmas`, `introduction_start` levels, `2ary_infer`, local `lemmas`), the rows of the running script | `run_proof_script`: open levels, infer, discharge, abandon, write the theorem |
| notation registry | `GentzenW.cpp` 1836-1930 | `notation_ids::_registry`, weak references with ids | `allocate`, pruning, `lookup` |
| root lemmas | `GentzenW.cpp` 3043-3160 | `_lemmas`, a weak cache of local instances | `record`, `infer_dest_for`, `watched_by` |
| theorem writer | `GentzenW.cpp` 5623-5693, 5856-5923 | `rows`, `schemas_used` | one row per level statement, inference, introduction; `rewrite_labels` |
| axioms, configuration | `GentzenW.cpp` 1723-1834, 4390-4560, `cfg/core.yaml` | `_axioms`, watchers | `add_axiom`, `notify`, `watched_by` |
| config-time saturation | `GentzenW.cpp` 4755-5178, `Zaimoni.STL/observer.hpp` | `_schemas`, `_declarations`, `defined_SVO::_entries` | `onNext`, `saturate`, `declare`, `attribute` |
| symbol catalog, undefined notations | `GentzenW.cpp` 1119-1517, 4163-4755 | tables filled at startup | `declare_*`, look-ups |
| grammar and printing | `Zaimoni.STL/LexParse/*`, `HTMLtag.cpp` | parse trees | Kuroda reductions, `to_s` |
| **TheoremTable** | `TheoremTable.cpp` | none | `theorem.yaml` to HTML |
| **LogicC** | `Logic.hpp`, `Logic.cpp` | `enumerated::Set` domains, watchers, a global queue of notifications | `force_equal`, `restrict_to`, `exclude`, `Notify`, truth-table observers |
| **Franci** engine | `MetaCon*.cxx`, `Equal.cxx`, `TVal.cxx`, ... | the expression under evaluation | rule-based rewriting |
| Franci arithmetic | `__IntegerNumeral.cxx`, `Std*.cxx`, `Interval.cxx`, ... | numerals, series | exact arithmetic and simplification |
| Franci shell, parser | `CmdShell.cxx`, `InParse.cxx`, `LexParse.cxx`, ... | the command line | parse, dispatch |
| memory manager | `Zaimoni.STL/core.RAM/memory.cpp` | a sorted table of live pointers; how far the table and the blocks are committed | `malloc`, `calloc`, `free`, `realloc`, `_expand` |
| consoles, OS | `OS.cxx`, `VConsole.cxx`, `Zaimoni.STL/OS/*` | handles | I/O |

How they interact in GentzenW: `main` loads the axioms, lets saturation watch
them, then runs each script of the command line.  A script parses its `given:`
and `hypothesis:` statements, opens a level for each over the root lemmas, and
loops: list the applications of modus ponens the spine allows, probe whether
the innermost level can be discharged, show a menu, apply the answer.
Statements are shared objects; the registry holds them weakly, deduplicates
them *by what they print as*, and hands out ids, which the rows of the theorem
file cite.  A discharge moves the tip outward, to a lemmas node over the level
that is now innermost; when there is none left, the theorem is recorded at the
root and the rows are written out.

What is hard in it is not concurrency: there is one thread.  It is the
lifetime of shared objects behind weak references, comparison by notation in
place of comparison by meaning, the succession of scripts over one database,
menus that may have no good answer, and rows that cite what is no longer there.
`PROJECT.json` lists these hazards at the lines where they bite.

LogicC is a library of constraint propagation with a small driver.  Each
expression of propositional logic, in one of six logics of up to four truth
values, owns a domain.  Negations and implications hang observers on the domains
they depend on; a narrowed domain queues its observers, and `ExecNotify` delivers
the queue, in order, before the call returns.  An implication also keeps the
table of argument values that are still possible.  What is hard there is the
order of deliveries, which read the domain later than they were queued; the
observers of expressions that have died; expressions built before or after the
facts; and whether mutual observers come to rest.

The memory manager replaces the C heap of the programs.  It reserves one range of
addresses; the table of live pointers grows up from its bottom, the blocks grow down
from its top, and each of the two stacks commits pages when it needs them and gives
spare ones back.  What is hard there is arithmetic: holes, alignment, header words and
pages are counted in several ways that must agree after every sequence of calls, and
the OS may deny a request at any time, whereupon one stack is stripped for the other.

The configuration stage is a chain of callbacks: `add_axiom` declares symbols, appends
the axiom and notifies the watchers; the watcher `saturation` records root lemmas, and
recording one may define a notation.  What is hard there is order: schemas,
declarations and the registration of the watcher come in any order, watchers die or
resign while others are notified, and several sources may give one definition.

What makes each part correct:

| part | properties |
|---|---|
| proof sessions | what is proved follows; a level's hypothesis never leaks; every offered answer can be carried out; every script ends |
| registry | live notations and statements correspond one to one; what is visible reads back |
| root lemmas | valid in every interpretation of the axioms; none twice |
| theorem writer | an id names one text; citations stay in open scopes; labels resolve |
| observers | who watches has been shown every axiom once, in order; nobody is dropped but by dying or resigning |
| saturation | every schema has met every declaration, whatever came first; defined notations mirror the recorded lemmas and name their sources |
| symbol catalog | it says what the admitted declarations say; no symbol is both a constant and an operator |
| memory manager | blocks never overlap, are found by the search and lie in mapped memory; callers see a heap |
| LogicC | no solution lost, no contradiction invented, no domain emptied in silence, tables exact, propagation ends, live observers stay hooked |
| integer sums | no round changes the total; limbs and running indices stay in range; the rule ends, with one numeral or giving up on two |
| logics | sublogics agree, conjunction and disjunction do not depend on grouping, enumeration is exhaustive |

## Modules

| module | models | its abstraction |
|---|---|---|
| `Statements` | `statement_t`, modus ponens' reading of a statement, the statement a discharge builds | five kinds of record tell apart the objects the code treats differently |
| `StatementForms` | `to_s()`, what a statement keeps alive, its meaning | by structural recursion; used as values of constants, so that the proofs need not know them |
| `ProofSession` | `run_proof_script`, `notation_ids::allocate`, `lemmas::record`, the spine, the menu | parsing, wording and files left out |
| `Formulas`, `NaturalDeduction` | what a session promises: levels of assumptions, modus ponens, discharge | no objects, no notations, no menus |
| `ProofSoundness` | the meaning of a session, and its refinement of `NaturalDeduction` | refinement mapping |
| `ProofLedger` | the rows, ids and labels beside the session | composes with `ProofSession`: each action is one of the session's with its rows |
| `Logics` | truth values, the six logics, `is_sublogic` | operators only |
| `ConnectiveTable` | `Connective::enumerate` and the Gray_code odometer | rows are pairs, not packed bits |
| `Propagation` | `TruthTable`'s factories, `infer`, `exclude`, over `enumerated::Set` and its observers | expressions are named by the caller; dead observers are told apart by incarnation |
| `Observers` | `zaimoni::observed`: `notify` and `seen_by` over a list of weak pointers | what a call leaves behind, as recursive functions over the visits |
| `SymbolCatalog` | `symbol_catalog`'s four declarations | a symbol is its name; classification bits cached in parse trees are left out |
| `Saturation` | `axioms::add_axiom`, `watched_by`, class `saturation`, `lemmas::record` at the root, `defined_SVO` | lines enter parsed; what an instance concludes is a constant |
| `Heap` | what a memory manager promises its callers | blocks as addresses and sizes |
| `MemoryManager` | `core.RAM/memory.cpp` | what blocks hold is left out |
| `IntegerNumeral` | `RearrangeSum` and `ForceRearrangeSum` of `_IntegerNumeral`, for whole numbers | limbs and signs as in the code, over a small base; pure operators |
| `IntegerBlock` | `StdAddition::CleanIntegerNumeralBlock` | the other arguments of the sum, and 1/n, left out |
| `LoopLemmas` | nothing: induction over the turns of a loop | lemmas for the theorem modules |
| `NaturalDeduction_proofs`, `GentzenW_proofs`, `ConnectiveTable_proofs`, `Propagation_proofs`, `Saturation_proofs`, `MemoryManager_proofs`, `IntegerBlock_proofs` | theorems; `GentzenW_proofs` has those of `ProofSession`, `ProofSoundness` and `ProofLedger` | |
| `MC*`, `*.cfg` | instances for TLC | |

### Statements

`A |- B` read from a script (`parsed`), built by discharging (`minted`), or cut
out of another statement by substitution (`opaque`) print alike but behave
differently.  `prepared_rename::decode` strips the symbol tag of the top `|-` of
what it substitutes, so a consequent cut out of a parsed statement can no longer be a
major hypothesis, counts as no entailment and gets no grouping parentheses.
What was built by a discharge wraps the original nodes and keeps its tags, and
keeps the originals alive.  Discharging two hypotheses builds a
`syntactical_entailment_2ary` (`rule`), which no modus ponens of the session
uses.  Statements that are not entailments are atoms; the modus ponens axiom
itself is the rule the session applies and not an element of `Axioms`.

### ProofSession

| variable | code |
|---|---|
| `lemmas` | `_lemmas` of `lemmas::get()` |
| `chain` | the nodes from the root lemmas (excluded) to `tip` |
| `script` | the vectors `given` and `hypotheses` (owners of the parsed statements) |
| `pinned` | what `steps` keeps alive |
| `registry` | the live entries of `notation_ids::_registry` |
| `result` | `last_discharged` of a script that ended as proven |
| `ran` | scripts run so far |

| action | code |
|---|---|
| `OpenScript` | from the first line of `run_proof_script` to the first menu |
| `RefuseScript` | `open_level` returned false |
| `Infer` | lines 5804-5827 |
| `DischargeInner`, `DischargeOuter` | lines 5829-5853, the tip landing on a level's lemmas or on the root's |
| `Cancel`, `NothingApplicable` | the two ways a script is abandoned |

The menu's probe of the discharge allocates: `Probed` is the registry while the
menu is up.  Expired entries leave `registry` at the step that lets their
statement die; the code prunes them when `allocate` next walks over them, which no
one can tell from outside, since an expired entry never matches.  `Live` computes
what is still referenced from `Parts`, the shared pointers a statement holds.

The definitions that config-time saturation records at the root before any
script runs never match modus ponens or a script's statements; they are among the
`Axioms` of an instance if it wants them.  The weak cache of `infer_dest_for`
(3143-3157) is left out: it makes two discharges onto one node share one `lemmas`
object, and a live entry holds its key, so that what it answers is what the
spine holds anyway; an entry that has expired never answers.  `Script` also stands for the choice
of files: the order and the number of scripts (`MaxScripts`) are arbitrary.

### ProofLedger

`numbering` gives the live entries their ids and `rows` is the table.  The code
counts ids down from the largest `size_t`; the model counts them up from the
axioms', which nothing can tell apart, and are finitely many (`FiniteAxioms`: they were
read from a file).  A row keeps its id, its text, its role, the ids its rationale cites
and its depth.  What the session leaves to the file is decided by the session alone: a
behaviour of the ledger is one of the session (`WritesBesideTheSession`).

### ConnectiveTable

One `Row` is one round of the loop of `enumerate`: the tuple under the odometer
is folded and pushed, and the odometer incremented.  `enumerate` is public but no
caller is left in the repository; `UniformCartesianProductSubset::bootstrap` walks
the arguments of a table with the same odometer.  That a conjunction or disjunction does not
depend on the grouping that `enumerate` picks is therefore no property of a run: it is
proved (`GroupingDoesNotMatter`) as a fact about the logics.

### Propagation

| variable | code |
|---|---|
| `dom` | the elements of an expression's `_prop_variable` |
| `table` | the elements of an implication's `_table` |
| `watchers` | `_watchers` of `_prop_variable`, in order of registration |
| `queue` | `notify_queue()` of `Set<TruthValue>` |
| `contradiction` | `proof_by_contradiction` has been thrown |
| `live`, `born` | which construction of an expression the weak references still reach |
| `told` | history: what the client asserted |

| action | code |
|---|---|
| `Deliver` | one round of `ExecNotify`: the observer is dead (`DropObserver`), or belongs to a negation, an implication's argument or an implication's own value |
| `Variable`, `Not`, `NonStrictlyImplies` | the factories, when the cache has no such expression |
| `ImpliesAgain` | the implication is in the cache, which is noticed after a second one was wired in |
| `Release` | the last holder lets go |
| `Infer`, `Exclude` | `force_equal`, `force_unequal` up to the queueing; the deliveries follow as steps of their own |

The queue of the inner `Set<std::vector<TruthValue>>` of a table is left out: nothing
watches these sets.  So is what `_table->watched_by` registers, which nothing
notifies (see Findings).  A throw ends the program: the driver catches nothing.

### Observers, SymbolCatalog, Saturation

| variable | code |
|---|---|
| `axioms`, `watchers` | `axioms::_axioms`, `_watchers` |
| `catalog` | `_symbols` and `_constant_symbols` |
| `living` | the observers somebody still owns |
| `asked`, `heard` | history: who called `watched_by`, what `onNext` was called with |
| `inbox`, `pairs` | what the call under way still has to do: the axioms saturation is still to be shown, the pairs `onNext` still has to saturate |
| `schemas`, `declarations` | `saturation::_schemas`, `_declarations` |
| `lemmas`, `definitions` | `_lemmas` of `lemmas::get()`, `defined_SVO::_entries` |

| action | code |
|---|---|
| `AddAxiom` | both overloads of `add_axiom`: tests, declaration, append, `notify` |
| `WatchSaturation`, `Watch` | `watched_by` with its replay; an observer other than saturation may resign during it |
| `Expire` | the last owner of an observer lets go |
| `HearNext` | `onNext` of saturation up to its loop |
| `SaturatePair` | one call of `saturate`, with `record`, `declare` and `attribute` |

`main` calls these in one order; the model allows any, since `watched_by` says that
registering late equals registering early.  A call runs to its end before the next one
begins (`AtRest`): there is one thread.  A declaration that `declare_infix` and its
siblings only warn about (placeholders, reserved symbols) is admitted as an axiom all
the same.  A definition axiom (`A := B`) that is no entailment is not recognized, so no
axiom is a closed definition.  `Conclusion` gives an instance's text, by schema and symbol
alone, and is undefined where instantiating reports an error; in the code `reparse`
(4890-4930) also consults the catalog as it stands when the instance is made.  Of the ten
kinds of `phrase_postfix` the model has the four that declare something; on the six others
(`core.yaml` 7-12) the handler does nothing (4389-4397), and no axiom of `core.yaml` is of
one of them.  The sources of a definition are a set: the code
keeps them in order without repetition.  An observer asks to watch at most once.

### Heap, MemoryManager

| variable | code |
|---|---|
| `table` | `RawBlock.records[0 .. CountPointersAllocated - 1]` |
| `space.top`, `space.low` | `StrictHighBoundIndexPages`, `LowBoundPtrSpace`, from `RawBlock` |
| `space.committed` | the pages the OS has committed, which the manager does not know |
| `space.denied` | history: requests that did not succeed at the first attempt |
| `status` | `fresh` until the first `malloc`; `stopped` by `__ReportErrorAndCrash` over a call it cannot serve, `corrupted` by an audit, `faulted` on unmapped memory |

`Malloc`, `Free`, `Realloc`, `Expand` are the calls, each one step: a call holds
`RAMBlock` and the programs have one thread.  A call with a pointer that is none of the
manager's is among them (`High`).  A request for pages succeeds at first, `later` -
after the emergency compaction of the other stack and perhaps a message box - or
`never`.  `__CommitNextPtrPages` asks again at `StrictHighBoundIndexPages`, which is
the other stack's end; the model does as the code does, and `space.low` is then
below what is committed.  Later compactions count from there; `KeepsItsBlocks` says
that all the same none of them reaches a block.  `calloc` is `malloc` with a fill, and `realloc(NULL, n)`,
`realloc(p, 0)`, `malloc(0)` reduce to other calls.

Read off the code while modelling, and outside of the model's bounds: nothing looks
whether the stacks meet; `AlignedSize` wraps near the largest `size_t`; `calloc(n, 0)`
divides by zero (755); `malloc` audits a null pointer when the pages for a new lowest
block are denied (741), which the model has as `faulted`; a stray `free` returns without
unlocking `RAMBlock` (780), which one thread does not notice.

Within the bounds, and stated by no property since it fails: the retry for pointer pages
(395, in a function marked as formally correct, 394) does not always end in a fault.
When more is asked for than half of what is left between the stacks, the pages it gets overlap
the wanted ones.  With the run's constants: `malloc(9)` gives 36 and leaves the lower
bound at 30; the next `malloc(9)` is granted its index page, which ends at 12, is
denied pages 3 and 4, and is then granted 2 and 3.  The size word of its block, at 20, is
on page 3 and the guard, at 31, on page 5, so that `InitBlock` succeeds and the block 22..30 is
handed out with page 4 uncommitted in its middle: the caller's first write there
faults.  `BlocksSound` and `KeepsItsBlocks` speak of header words and of what a block
already has.

### IntegerNumeral and IntegerBlock

| variable | code |
|---|---|
| `block` | `ArgArray` below `StrictUBIntBlock`: signs and limbs |
| `phase` | the loop at work (`AddMult.cxx` 148, 178), or the answer (`true`, `false`) |
| `i`, `j` | the sweep's indices before the next round |
| `starved` | history: an allocation in `ForceRearrangeSum` failed |

| action | code |
|---|---|
| `Cancel` | a round of the first loop, with its deletions |
| `StartSweep` | between the loops |
| `Sweep` | a round of the inner loop of the sweep; any allocation may fail |

`RearrangeSum` never allocates: what does not fit in one numeral stays
in the other, and `ForceRearrangeSum` then lengthens the larger by one limb.  The
operators compute, limb by limb, what the code's loops do, wrong results included; the
number a numeral stands for (`Value`) serves the properties only.  A cancellation
borrows, as the code does, from where the *smaller* number has a limb.

## Runs

| run | what it shows | bounds |
|---|---|---|
| `proof_session` | type and registry invariants, soundness, refinement, termination of scripts | two scripts in a row out of six: the cut rule, a given that a discharge only respells, a pair of hypotheses under a given, a theorem a second script uses, an axiom as minor hypothesis, a level of three |
| `session_clash` | the printing of untagged entailments confuses two statements | three scripts, the fewest with which it happens |
| `natural_deduction` | the abstract specification is sound, on its own | every one-hypothesis level and some pairs over twelve formulas |
| `proof_ledger` | ids, citations and scopes of the table | two scripts in a row out of eight, one of which assumes an axiom |
| `ledger_labels` | a label is left in a theorem file | one script |
| `connective_table` | enumeration, sublogics | every list of up to three domains out of four, every logic |
| `propagation` | soundness of propagation, exactness of tables, live observers stay hooked, termination | a network of six expressions over two logics, under three budgets |
| `saturation` | order of axioms and registrations, observers that die or resign, definitions and their sources, the catalog | three axioms of eleven lines, two observers beside saturation |
| `memory_manager` | blocks, table and pages stay sound; no call takes memory from a block it leaves alone; the manager implements `Heap` | eight pages of six bytes, words of two, sizes 1 and 9, four blocks, one denied request |
| `integer_sums` | totals are kept, indices stay in range, the rule ends | base 4; every sum of two or three numerals of one and two limbs, sums of four from sixteen of them |
| `memory_overread` | growing the topmost block reads past the reserve | the same, nothing denied |
| `propagation_rows` | a contradiction goes unnoticed in a table | three facts, the fewest with which it happens |

Bounds: `MaxScripts` caps the number of scripts.  Two are enough for everything
that one script leaves to the next (root lemmas, live objects, ids).  `MenuKeys` is the
code's 36.  `Statement` is the set of statements the scripts can lead to.  A menu that
listed a discharge outside it could not be answered, not even by a cancellation
(`WithinUniverse` guards them all): the model would deadlock, and `proof_session` and
`proof_ledger` check deadlock.  Their universe is therefore no limit on the behaviours.
That of `session_clash` is closed under two scripts and not always under the third; there
the run stops, which only leaves out behaviours.

`MaxAxioms` is 3: two schemas that give one phrase and a declaration, or a schema and
two declarations, are the fewest axioms with which definitions clash or share sources.
Two more observers can die and resign in one notification, on either side of
saturation.  Its run uses the symmetry of these two.

In the memory runs a page holds a record and a half, so that the table crosses pages
at odd places; size 1 leaves alignment slack, size 9 needs two pages; four blocks reach a hole
in the middle with blocks on both sides, and every compaction, emergency or not, takes
place.  `CommitLimit` pages fill the reserve, so that the
two stacks never meet (`Within`): the reserve of the real program is most of the address
space.

`Budget` is a set of bounds, each capping the different facts and the constructions of
every expression; a behaviour keeps within one of them.  The run has three: P, Q, ~Q
and P=>Q built once with three facts, P=>Q twice with two facts, and P, ~P and P=>P twice
with two facts.  With three facts the first network reaches every kind of queue: a domain
narrowed twice before its first notification is delivered, and contradictions from
either side.  A second construction is what a first one's leftover observers can
harm, and in P=>P two observers look alike.

`WrapLB` is 4 where the code has 10^9: a limb can be zero, the largest, or neither, and two
that are neither can fill a limb, exceed it or stay below.  Sums of four numerals grow to four limbs: long enough for carries and
surpluses to pass over limbs between the highest and the lowest.  `MaxArity` is 3 where the code allows 7: a third wheel is what it takes to
carry past a wheel.

Fairness: `FairSpec` asks that a menu on screen is answered.  The loop waits for
nothing but standard input, and the end of the input is an answer (a
cancellation).  Which answer is not constrained: `ScriptEnds` holds for every
strategy, because each inference shows something not yet visible and each discharge
closes a level.
`PropagationSpec` asks that deliveries go on: `ExecNotify` is a loop that the call
itself runs to the end.  Nothing is assumed of the client.
`IntegerBlock`'s fairness says the same of the rule's two loops.

`CHECK_DEADLOCK FALSE` stands in the runs of `Propagation`, where a thrown
contradiction is the end, of `ConnectiveTable`, which stops when the odometer
has run out, of `Saturation`, where loading is over after `MaxAxioms` lines, of
`MemoryManager`, where the program may end, of `IntegerBlock`, where the rule returns,
and of `session_clash`, whose universe ends.

## Theorems

Proved by TLAPS for every universe of statements, every printing `Notation`, every
ownership `Parts`, every set of scripts and any number of them, from the named
assumptions of the modules only.

* `GentzenW_proofs`, the session: the inductive invariant `SessionInv` is `TypeOK`,
  `OneOwnerPerNotation`, *every visible statement that is not an axiom is in the
  registry*, and the shape of the spine (`SpineShape`).  It is needed because
  `VisibleReadsBack` alone does not survive the expiry of entries: one must know that
  what is visible is kept alive, hence still registered.  From it:
  `TypeCorrect`, `RegistryIsABijection`, `ReadsBack`, `DestinationExists`,
  and, with the shape of recorded nodes, `DerivesOnlyTheNew`.
* `NaturalDeduction_proofs`: `Soundness`, by induction on the steps, a case for each rule,
  and from it `TheoremsAreValid`.
* `GentzenW_proofs`, its meaning: `Refinement` - if notation determines meaning among the
  statements compared (`NotationsUnambiguous`), the session implements natural
  deduction - and, through `Soundness`, `LemmasAreValid` and `OpenScopesAreSound`.
  The hypothesis is necessary: `session_clash` is what happens without it.

* `ConnectiveTable_proofs`: for every logic, connective and list of domains, of any length the
  code allows.  `TableInv` says that the rows are those of the positions the odometer has
  left behind, each once.  A position is left behind if it comes before the odometer's in the
  order that compares the highest wheel that differs (`Before`).  `EveryTupleOnce` by
  itself says nothing of the way there; what it needs is that `Increment` goes to the next
  position of that order and leaves none out: the wheels it resets were at their last
  values, and whatever differs from the new position differs above them or comes later.
  From it: `OdometerIsExhaustive`; and, since every row has the value that its tuple folds to,
  `GroupingDoesNotMatter` and `SublogicsAgree`, by induction over the turns of the fold,
  from the laws of the six logics on single values (associativity, commutativity, closure,
  agreement with a sublogic), which are finite and proved case by case.

* `Propagation_proofs`: for every network of expressions, any number of facts and of
  constructions.  `TypeInv` adds to `TypeOK` that an observer sits where its target
  is an argument and is queued only for live domains (`WatchersFit`, `QueueFits`); this
  is what makes a delivery mean anything.  `AllPossible` says that every model of the
  facts is within all domains and tables *and* that there is no contradiction; the two
  halves need each other, since a throw is justified by the domain that lacks the value, and
  `ModelsKept` alone would say nothing once something was thrown.  From
  it: `SolutionsSurvive` and `ContradictionsAreReal`.  `DomainsStayInhabited` is
  inductive beside `TypeInv`.

  `WiringInv` adds to `TypeInv` that no observer is newer than its expression
  (`Fresh`), that whatever is alive has live arguments (`Supported`) and how often each
  observer is registered, by incarnation (`Wired`); it gives `WiringStaysIntact` however many
  constructions come and go.  `QueueOwes` says what a queue is for: a row that is no longer
  possible and still in a table, or a value that a negation must still lose, has its
  observer in the queue.  Since the queue is empty when propagation has ended, `TablesAreExact`
  follows.  `NegationsFollow` is a step property: what a delivery takes from the argument
  of a negation that mirrors it, the negation loses before the queue is empty.

* `Saturation_proofs`: for every set of lines, schemas, observers and conclusions, and
  any number of axioms.  `SaturationInv` ties what is under way to what is done: what an
  observer was shown, followed by what it is still to be shown, is the axioms in order
  (`HeardExactly`); what saturation filed is what it heard (`Digested`); a pair that is not still to
  be saturated left its conclusion or clashed with a definition (`Settled`); entries are
  sound, mirror the lemmas and name only, and all, the pairs that led to them
  (`EntriesSound`, `DefinitionsMirrorLemmas`, `Attributions`).  None of the parts is inductive
  alone: completeness needs to know which pairs are owed, and that needs what was
  heard.  At rest nothing is owed, whence `SaturationIsComplete` and
  `SourcesAreExact`.  What `notify` and `seen_by` leave of a list of watchers from which
  visits take some is reasoned about by invariants of their loops.
  `RegistrationsAreHeld` is a step property.

* `GentzenW_proofs`, the ledger: from `FiniteAxioms` beside the session's assumptions.
  `LedgerInv` is `SessionInv` with: ids and live entries correspond and no id is used
  twice (`NamingInv`); there are at most two levels (`LevelsBounded`); while the inner one is
  open no row has left it (`InnerRows`); every open hypothesis has the row that
  opened its scope (`HypothesesOpened`), and every visible fact of the script its
  row (`FactsHaveRows`); whatever a row cites has a row in scope, can be seen by every script or has
  none (`CitesOwed`).  `CitesOpenScopes` alone does not survive a step, since the next row
  cites what is visible, and that has a row in scope only by `FactsHaveRows`.
  From it: `IdsAreKept`, `CitationsInScope`, `IntroductionsClose`, `LabelsAreFew`.

* `MemoryManager_proofs`: for every word and page size, every reserve and set of sizes, any
  number of blocks and of denied requests, from `SpaceAssumption` only; that the two stacks
  have not met when a call ends is a guard of every call (`Within`), as it is in the runs.
  `MemoryInv` says of the table that each block ends a word under the bound and two words
  under the block above (`Layout`), so that addresses descend; of the space that both bounds lie on
  pages, that the index is committed, has room for the records and at most two pages
  more, that the lower bound is at most a word above the start of the lowest size word and, if
  it is above it at all, that the page below the bound is not committed (`Spaced`); and, while nothing
  was denied, that exactly the pages between the bounds are committed.  The last-but-one part is
  what `BlocksSound` lacks to be inductive: after an emergency compaction the bound may
  have passed the lowest size word, so that the room under it is negative and
  `__CreateAtBottom` takes it for a huge one; no block is ever put there, because the guard
  bytes would fall on the missing page and the call faults first (`BottomFits`), and no
  audit passes (`AuditedFloor`).  From it: `BlocksStaySound`, with the binary search against
  its reference (`SearchFinds`, by induction on the distance of its bounds, which are one argument, a pair,
  since the provers read functions of one argument only); `AuditsAlwaysPass`;
  `ImplementsTheHeap`, where each call is shown to be one of the abstract heap's steps
  or none; and `BlocksKeepTheirMemory`, a step property: a page from a block's first one up
  is never released by a call that leaves the block alone, since the index's top is below
  every block when a page of it is given up (or, after a page was just added, too
  low for a second compaction) and the pointer space is given up to the lowest block at
  most (`Kept`).  `FaultsNeedFailure` is refuted by `memory_overread`.

* `IntegerBlock_proofs`: for every base above two, the code's 10^9 among them, every sum of two
  or three whole numerals of one or two limbs (`ShortSum`), and any allocation failing.
  `ShortInv` says that until the sweep the block is in order by sign; that in the sweep
  all its numerals have one sign, are still of at most two limbs and the indices of a
  pair are in it; and that what the rule leaves is one numeral, or two, or what memory was
  refused for.  A forced sum may have three limbs, but then the sweep is over: a
  deletion in a block of three ends both loops, which is why numerals of three limbs
  never meet.  What the pure operators do to one or two limbs is proved case by case,
  down to the limbs: cancelling with its borrow, condensing with its carry and its
  surplus, growing by a limb.  The totals are recursive functions, unrolled by
  `LoopLemmas`.  From it: `SumIsInOrder`, `RoundsKeepTheSum` and `AnswersMeanWhatTheySay`.
  For longer numerals `TypeOK` is false (see Findings), so that the theorems stop where
  the code does.  Sums of four numerals are model-checked only.

* `LoopLemmas`: induction over the turns of a loop, for recursive functions over
  `0 .. n`.  The library's induction theorems take an operator; these take a set, and are
  proved from the finiteness of intervals.

Only model-checked: liveness (`ScriptEnds`, `QueueDrains`, `SumsUp`), which is out of reach
of the provers; integer sums of more than three numerals;
`NotationsUnambiguous` on the scripts of the run (it is false for some scripts); and
everything about the recursive operators of `StatementForms`, which the provers cannot
read.

## Findings

* `session_clash`: a comment says that `to_s()` restores the grouping parentheses
  that are needed (`GentzenW.cpp` 2486, 2645).  It does not for an entailment that lost
  its symbol tag.  After `A`; `A |- (B |- C)` leaves an untagged `B |- C` behind
  (it survives inside the recorded theorem), a second script discharges
  `(B |- C)` given `(B |- C) |- T`, and a third, which proves
  `(B |- (C |- T)) |- (B |- (C |- T))`, is handed the second's object.
  The theorem announced and the object recorded differ in meaning.
* `ledger_labels`: the notes on the theorem table say that labels are already
  rewritten (`Notes/GentzenW-theorem-table.md` 82-83); the rule that discharging two
  hypotheses states has no row, and the outer introduction's citation stays `label(...)`.

* `propagation_rows`: the comments of `Logic.hpp` say that the relation between an
  implication's value and its table is enforced (1468) and that inferring triggers
  non-contradiction processing (1564).  The observers that would carry a table's narrowing
  to the value and to the arguments are registered on the product (1462, 1474),
  whose watchers nothing notifies: the inner set is what is narrowed.  P true, Q
  false and P=>Q true leave an empty table and no exception.
* `memory_overread`: `realloc` copies the *new* size from the old block
  (`memory.cpp` 857, 882).  When the block grows, what it copies beyond the old size is
  whatever lies above: for the topmost block, memory past the end of the reserve.  The function
  is marked as formally correct (830).

Not runs of their own:

* Sums of large integers.  Where two numerals of one sign overflow the larger, the
  surplus is written into the smaller limb by limb, but a limb that makes the larger
  one's exactly 999999999 is left as it was (`__IntegerNumeral.cxx` 1903-1925, 1973-1995,
  in functions marked as formally correct): 600000000000000005 + 400000000999999994 gives
  1000000001000000004.  `SumKept` allows exactly this exception.
* The sweep "to reduce to a single integer" (`AddMult.cxx` 174) leaves two whenever it
  starts with three or more of one sign: it breaks off as soon as index 1 is reached
  (190, 200), and the rule answers `false`, "RAM shortage, or algorithm hole" (220):
  3 + 4 + 5 becomes 3 + 9.  `SumsUp` says that it is never more than two unless memory
  ran short.
* A forced sum may lengthen a numeral in vain, when the sum needed no new limb but a
  lower pair of limbs adds up to the largest one: its highest limb is then zero (`TypeOK`
  excepts numerals of four limbs, the shortest in the run with which it happens).
* From three limbs on, which no sum of the run starts with, a carry stops at a limb that is
  full: below the limb that decides that a sum fits, a carry is added to the next limb up
  without a look at what becomes of it (1855-1861, 1944-1950).  6 and 6 with two zero limbs
  each below, in base 10 (`WrapLB` is 10^9), have the surplus 200 + 1 over 999; forcing
  the sum gives 0, 10, 1, 1 from the lowest limb up, where 10 is no limb: the value is right,
  but `IsProper` is lost, and comparisons and later sums rely on it.
* Also from three limbs on, cancelling looks for a limb
  to borrow from in the wrong number (1762) and keeps only the limbs below the
  highest that differ (1776), and a comparison of large numerals goes on below a greater limb
  (857-894), so that large arguments are in no particular order.
* The comment above class `saturation` (`GentzenW.cpp` 5103) says that
  every instance that instantiates cleanly is recorded.  One whose phrase is already defined
  otherwise is refused by `before_add_lemma`, so that which of two definitions of a
  phrase holds does depend on the order of the axioms; `SaturationComplete` allows exactly
  this exception.
* A script may assume an axiom.  Inside the hypothesis' scope its id is that of the
  axioms' row-less entries, but a row now carries it, so that a later citation of the axiom, once
  the scope is closed, leads to the assumption.  `CitesOpenScopes` excepts what every
  script can see (`SeenEverywhere`): the citation is valid, its row number is
  misleading.

## Plan

Done: the session, its registry and ledger, natural deduction and the refinement; the
logics, the connective tables and propagation; observers, catalog and saturation; the
memory manager over a heap; sums of whole numbers; the proofs above.  Next, in this order:

1. A run of sums of three limbs and more, for what the code does with improper limbs.
2. A run with one name in two logics.
3. `Placeholders` (`GentzenW.cpp` 2199-2670): substitution and matching as recursive functions,
   against a reference definition over bounded terms; `prepared_rename` keeps meanings.
4. The propositional core of the legacy engine (`TVal.cxx`, the n-ary connectives of
   `MetaCon*.cxx`) against truth tables, reusing `Logics`.

## Not modelled, and why

Parsing, printing details, menus' wording, YAML and HTML are left out: no property
is about them.  The legacy Franci engine (some 30000 lines) rewrites one expression
sequentially over a large class hierarchy; of its arithmetic only sums of whole numbers are modelled,
products, 1/n and the series above them are not.  Consoles and
OS layers are system calls.  Vendored code is left aside.  `PROJECT.json` gives each
part's status.
