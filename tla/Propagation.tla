----------------------------- MODULE Propagation -----------------------------
(***************************************************************************)
(* LogicC's constraint propagation (Logic.hpp): propositional expressions  *)
(* built from variables, negations and non-strict implications.  Each      *)
(* expression owns a domain, the truth values it may still have; an        *)
(* implication also owns a table, the pairs of argument values it may      *)
(* still have.  Domains are watched: when one narrows, its observers are   *)
(* queued, one FIFO for all domains, and each is then handed the domain as *)
(* it is by that time.  A call of the client returns once the queue is     *)
(* empty, so calls and deliveries never overlap.                           *)
(*                                                                         *)
(* Observers hold their targets weakly, and expressions come and go, so an *)
(* observer names its target by expression and by incarnation.             *)
(***************************************************************************)
EXTENDS Logics, Naturals, SequencesExt

CONSTANTS
  Expression,  \* what a client may build
  Shape,       \* how each is built
  LogicOf,     \* the logic it is stated in
  Budget       \* bound: how often each expression is constructed, and how many
               \* different facts are asserted, in one use of the logic

ShapeType ==
  [kind : {"variable"}]
    \cup [kind : {"not"}, of : Expression]
    \cup [kind : {"implies"}, lhs : Expression, rhs : Expression]

ASSUME ShapeAssumption == Shape \in [Expression -> ShapeType]
ASSUME LogicAssumption ==
  /\ LogicOf \in [Expression -> Logic]
  /\ \A e \in Expression : Shape[e].kind = "not" => LogicOf[e] = LogicOf[Shape[e].of]
  /\ \A e \in Expression : Shape[e].kind = "implies" =>
       LET l == LogicOf[Shape[e].lhs]  r == LogicOf[Shape[e].rhs]
       IN  Comparable(l, r) /\ LogicOf[e] = CommonLogic(l, r)
ASSUME BudgetAssumption == Budget \subseteq [born : [Expression -> Nat], told : Nat]

VARIABLES
  born,           \* how often an expression has been constructed
  live,           \* which of these the cache knows and somebody holds; 0 for none
  dom,            \* _prop_variable: the values an expression may still have
  table,          \* _table: the argument pairs an implication may still have
  watchers,       \* the observers of an expression's domain, oldest first
  queue,          \* notify_queue: domains with the observers to be told
  contradiction,  \* proof_by_contradiction has been thrown; nothing catches it
  told            \* history: the facts the client has asserted

vars == <<born, live, dom, table, watchers, queue, contradiction, told>>

Observer == [kind : {"negates", "includes", "ranges"}, of : Expression, at : Nat, col : {1, 2}]
Fact     == Expression \X {"is", "isnt"} \X TruthValue

-----------------------------------------------------------------------------
(* Expressions.                                                            *)

IsVariable(e) == Shape[e].kind = "variable"
IsNot(e)      == Shape[e].kind = "not"
IsImplies(e)  == Shape[e].kind = "implies"

Argument(e, c) == IF c = 1 THEN Shape[e].lhs ELSE Shape[e].rhs

Arguments(e) ==
  CASE IsVariable(e) -> {}
    [] IsNot(e)      -> {Shape[e].of}
    [] IsImplies(e)  -> {Argument(e, 1), Argument(e, 2)}

\* find_var_index: the first column that an argument fills.
Column(e, c) == IF Argument(e, c) = Argument(e, 1) THEN 1 ELSE c

\* wire_in: the value an implication takes on a row of its table.
ValueOn(e, row) == Implication(LogicOf[e], row[Column(e, 1)], row[Column(e, 2)])

Alive(e) == live[e] # 0

\* The client may call: the last call has returned, and not by throwing.
Ready == queue = <<>> /\ ~contradiction

-----------------------------------------------------------------------------
(* Narrowing a domain.  What follows a delivery in the queue is "rest"; a  *)
(* throw leaves the queue where it was.                                    *)

\* Notify: the observers of a domain, the latest first.
Notifications(e) ==
  [i \in 1..Len(watchers[e]) |-> <<e, watchers[e][Len(watchers[e]) + 1 - i]>>]

\* Mutants of ForceEqual and RestrictTo: any other value still possible is a
\* contradiction; observers are told even when nothing changed.
ForceEqualOnce(rest, e, v) ==
  /\ contradiction' = (dom[e] # {v})
  /\ dom' = dom
  /\ queue' = rest

RestrictToAlways(rest, e, allowed) ==
  LET kept == dom[e] \cap allowed
  IN  /\ contradiction' = (kept = {})
      /\ dom' = [dom EXCEPT ![e] = kept]
      /\ queue' = (IF kept = {} THEN queue ELSE rest) \o Notifications(e)

\* force_equal
ForceEqual(rest, e, v) ==
  /\ contradiction' = (v \notin dom[e])
  /\ dom' = IF v \in dom[e] THEN [dom EXCEPT ![e] = {v}] ELSE dom
  /\ queue' = IF v \notin dom[e] THEN queue
              ELSE IF dom[e] = {v} THEN rest
              ELSE rest \o Notifications(e)

\* restrict_to, and its callers' check that something is left.
RestrictTo(rest, e, allowed) ==
  LET kept == dom[e] \cap allowed
  IN  /\ contradiction' = (kept = {})
      /\ dom' = [dom EXCEPT ![e] = kept]
      /\ queue' = (IF kept = {} THEN queue ELSE rest)
                    \o (IF kept = dom[e] THEN <<>> ELSE Notifications(e))

-----------------------------------------------------------------------------
(* Observers.                                                              *)

Negates(e, at)     == [kind |-> "negates",  of |-> e, at |-> at, col |-> 1]
Includes(e, at, c) == [kind |-> "includes", of |-> e, at |-> at, col |-> Column(e, c)]
Ranges(e, at)      == [kind |-> "ranges",   of |-> e, at |-> at, col |-> 1]

\* Mutant of DropObserver: the oldest observer goes, whichever it is.
DropOldest(e, o) ==
  /\ live[o.of] # o.at
  /\ watchers' = [watchers EXCEPT ![e] = IF @ = <<>> THEN @ ELSE Tail(@)]
  /\ queue' = Tail(queue)
  /\ UNCHANGED <<dom, table, contradiction>>

\* The target is gone: onNext answers false and the observer is dropped.
DropObserver(e, o) ==
  /\ live[o.of] # o.at
  /\ watchers' = [watchers EXCEPT ![e] = RemoveFirst(@, o)]
  /\ queue' = Tail(queue)
  /\ UNCHANGED <<dom, table, contradiction>>

\* Mutant of PassNegation: a domain of several values is passed on as it is.
PassUnnegated(e, o) ==
  /\ live[o.of] = o.at /\ o.kind = "negates"
  /\ \/ \E v \in dom[e] : dom[e] = {v} /\ ForceEqual(Tail(queue), o.of, Neg(v))
     \/ /\ \A v \in dom[e] : dom[e] # {v}
        /\ RestrictTo(Tail(queue), o.of, dom[e])
  /\ UNCHANGED <<table, watchers>>

\* src_to_new and new_to_src of a negation.
PassNegation(e, o) ==
  /\ live[o.of] = o.at /\ o.kind = "negates"
  /\ \/ \E v \in dom[e] : dom[e] = {v} /\ ForceEqual(Tail(queue), o.of, Neg(v))
     \/ /\ \A v \in dom[e] : dom[e] # {v}
        /\ RestrictTo(Tail(queue), o.of, {Neg(v) : v \in dom[e]})
  /\ UNCHANGED <<table, watchers>>

\* EnforceInclusionMap: the table keeps the rows that agree with an argument.
PassInclusion(e, o) ==
  /\ live[o.of] = o.at /\ o.kind = "includes"
  /\ contradiction' = (dom[e] = {})
  /\ table' = IF dom[e] = {} THEN table
              ELSE [table EXCEPT ![o.of] = {r \in @ : r[o.col] \in dom[e]}]
  /\ queue' = IF dom[e] = {} THEN queue ELSE Tail(queue)
  /\ UNCHANGED <<dom, watchers>>

\* EnforceRangeConstraint: the table keeps the rows that the implication's own
\* domain allows.
PassRange(e, o) ==
  /\ live[o.of] = o.at /\ o.kind = "ranges"
  /\ table' = [table EXCEPT ![o.of] = {r \in @ : ValueOn(o.of, r) \in dom[e]}]
  /\ queue' = Tail(queue)
  /\ UNCHANGED <<dom, watchers, contradiction>>

\* One round of ExecNotify's loop.
Deliver ==
  /\ queue # <<>> /\ ~contradiction
  /\ LET e == Head(queue)[1]  o == Head(queue)[2]
     IN  DropObserver(e, o) \/ PassNegation(e, o) \/ PassInclusion(e, o) \/ PassRange(e, o)
  /\ UNCHANGED <<born, live, told>>

-----------------------------------------------------------------------------
(* The client's calls.                                                     *)

\* Mutant of Construct: every expression starts with all four values.
ConstructAgnostic(e) ==
  /\ live' = [live EXCEPT ![e] = born[e] + 1]
  /\ born' = [born EXCEPT ![e] = @ + 1]
  /\ dom' = [dom EXCEPT ![e] = TruthValue]

\* A construction gives the expression the full domain of its logic.
Construct(e) ==
  /\ live' = [live EXCEPT ![e] = born[e] + 1]
  /\ born' = [born EXCEPT ![e] = @ + 1]
  /\ dom' = [dom EXCEPT ![e] = ValuesOf(LogicOf[e])]

\* Bound: what is constructed and asserted stays within one of the budgets.
Affordable(constructions, facts) ==
  \E b \in Budget :
    /\ \A e \in Expression : constructions[e] <= b.born[e]
    /\ Cardinality(facts) <= b.told

MayConstruct(e) ==
  /\ Ready
  /\ Affordable([born EXCEPT ![e] = @ + 1], told)
  /\ \A a \in Arguments(e) : Alive(a)

\* TruthTable::variable; a variable that is in the cache is returned as it is.
Variable(e) ==
  /\ MayConstruct(e) /\ IsVariable(e) /\ ~Alive(e)
  /\ Construct(e)
  /\ UNCHANGED <<table, watchers, queue, contradiction, told>>

\* Mutant of Not: only the new negation watches its argument.
NotOneWay(e) ==
  /\ MayConstruct(e) /\ IsNot(e) /\ ~Alive(e)
  /\ Construct(e)
  /\ watchers' = [watchers EXCEPT ![Shape[e].of] = Append(@, Negates(e, born[e] + 1)),
                                  ![e] = <<>>]
  /\ UNCHANGED <<table, queue, contradiction, told>>

\* TruthTable::Not; a negation that is in the cache is returned as it is.  The new
\* domain is full whatever the argument's is, and each watches the other.
Not(e) ==
  /\ MayConstruct(e) /\ IsNot(e) /\ ~Alive(e)
  /\ Construct(e)
  /\ LET a == Shape[e].of
     IN  watchers' = [watchers EXCEPT ![a] = Append(@, Negates(e, born[e] + 1)),
                                      ![e] = <<Negates(a, live[a])>>]
  /\ UNCHANGED <<table, queue, contradiction, told>>

\* construct_subtable_observers: one inclusion for each argument, in their order.
Watched(e) ==
  LET l == Argument(e, 1)
      r == Argument(e, 2)
      one == [watchers EXCEPT ![l] = Append(@, Includes(e, born[e] + 1, 1))]
  IN  [one EXCEPT ![r] = Append(@, Includes(e, born[e] + 1, 2))]

\* Mutant of NonStrictlyImplies: the table starts from the arguments' logic.
ImpliesUnnarrowed(e) ==
  /\ MayConstruct(e) /\ IsImplies(e) /\ ~Alive(e)
  /\ Construct(e)
  /\ table' = [table EXCEPT ![e] = ValuesOf(LogicOf[Argument(e, 1)])
                                     \X ValuesOf(LogicOf[Argument(e, 2)])]
  /\ watchers' = [Watched(e) EXCEPT ![e] = <<Ranges(e, born[e] + 1)>>]
  /\ UNCHANGED <<queue, contradiction, told>>

\* TruthTable::NonStrictlyImplies: the table starts as the product of what the
\* arguments allow now.
NonStrictlyImplies(e) ==
  /\ MayConstruct(e) /\ IsImplies(e) /\ ~Alive(e)
  /\ Construct(e)
  /\ table' = [table EXCEPT ![e] = dom[Argument(e, 1)] \X dom[Argument(e, 2)]]
  /\ watchers' = [Watched(e) EXCEPT ![e] = <<Ranges(e, born[e] + 1)>>]
  /\ UNCHANGED <<queue, contradiction, told>>

\* The same call when the cache has the implication: it is looked up only once the
\* new one is constructed and wired, which is then discarded.
ImpliesAgain(e) ==
  /\ MayConstruct(e) /\ IsImplies(e) /\ Alive(e)
  /\ born' = [born EXCEPT ![e] = @ + 1]
  /\ watchers' = Watched(e)
  /\ UNCHANGED <<live, dom, table, queue, contradiction, told>>

\* The client lets go of an expression that no other expression holds.
Release(e) ==
  /\ Ready /\ Alive(e)
  /\ \A p \in Expression : Alive(p) => e \notin Arguments(p)
  /\ live' = [live EXCEPT ![e] = 0]
  /\ dom' = [dom EXCEPT ![e] = {}]
  /\ table' = [table EXCEPT ![e] = {}]
  /\ watchers' = [watchers EXCEPT ![e] = <<>>]
  /\ UNCHANGED <<born, queue, contradiction, told>>

MayTell(f) == Ready /\ Affordable(born, told \cup {f})

\* TruthTable::infer
Infer(e, v) ==
  /\ Alive(e) /\ MayTell(<<e, "is", v>>)
  /\ told' = told \cup {<<e, "is", v>>}
  /\ ForceEqual(<<>>, e, v)
  /\ UNCHANGED <<born, live, table, watchers>>

\* Mutant of Exclude: the last value may go too.
ExcludeLast(e, v) ==
  /\ Alive(e) /\ MayTell(<<e, "isnt", v>>)
  /\ told' = told \cup {<<e, "isnt", v>>}
  /\ dom' = [dom EXCEPT ![e] = @ \ {v}]
  /\ queue' = IF v \in dom[e] THEN Notifications(e) ELSE queue
  /\ UNCHANGED <<born, live, table, watchers, contradiction>>

\* TruthTable::exclude, by force_unequal.
Exclude(e, v) ==
  /\ Alive(e) /\ MayTell(<<e, "isnt", v>>)
  /\ told' = told \cup {<<e, "isnt", v>>}
  /\ contradiction' = (dom[e] = {v})
  /\ dom' = IF dom[e] = {v} THEN dom ELSE [dom EXCEPT ![e] = @ \ {v}]
  /\ queue' = IF v \in dom[e] /\ dom[e] # {v} THEN Notifications(e) ELSE queue
  /\ UNCHANGED <<born, live, table, watchers>>

Init ==
  /\ born = [e \in Expression |-> 0]
  /\ live = [e \in Expression |-> 0]
  /\ dom = [e \in Expression |-> {}]
  /\ table = [e \in Expression |-> {}]
  /\ watchers = [e \in Expression |-> <<>>]
  /\ queue = <<>>
  /\ contradiction = FALSE
  /\ told = {}

Next ==
  \/ Deliver
  \/ \E e \in Expression :
       \/ Variable(e) \/ Not(e)
       \/ NonStrictlyImplies(e) \/ ImpliesAgain(e)
       \/ Release(e)
       \/ \E v \in TruthValue : Infer(e, v) \/ Exclude(e, v)

\* A call that narrowed a domain does not return before ExecNotify's loop has run out.
PropagationSpec == Init /\ [][Next]_vars /\ WF_vars(Deliver)

-----------------------------------------------------------------------------
(* Models: the assignments that obey every expression's meaning.           *)

Assignment == [Expression -> UNION {ValuesOf(LogicOf[e]) : e \in Expression}]

Satisfies(m, facts) ==
  \A f \in facts : IF f[2] = "is" THEN m[f[1]] = f[3] ELSE m[f[1]] # f[3]

ObeysConnectives(m) ==
  \A e \in Expression :
    /\ m[e] \in ValuesOf(LogicOf[e])
    /\ IsNot(e) => m[e] = Neg(m[Shape[e].of])
    /\ IsImplies(e) =>
         m[e] = Implication(LogicOf[e], m[Argument(e, 1)], m[Argument(e, 2)])

\* Listed once, whatever the facts.
Meanings == {a : a \in {m \in Assignment : ObeysConnectives(m)}}

\* The assignments that make the facts true.
Models(facts) == {m \in Meanings : Satisfies(m, facts)}

-----------------------------------------------------------------------------
(* Properties.                                                             *)

\* Every variable has its type: domains stay within the expression's logic, and
\* only implications have rows.
TypeOK ==
  /\ born \in [Expression -> Nat]
  /\ live \in [Expression -> Nat]
  /\ dom \in [Expression -> SUBSET TruthValue]
  /\ \A e \in Expression : dom[e] \subseteq ValuesOf(LogicOf[e])
  /\ table \in [Expression -> SUBSET (TruthValue \X TruthValue)]
  /\ watchers \in [Expression -> Seq(Observer)]
  /\ queue \in Seq(Expression \X Observer)
  /\ contradiction \in BOOLEAN
  /\ told \subseteq Fact

\* Propagation loses no solution: an assignment that obeys the connectives and all
\* that was asserted is still possible in every domain and in every table, in the
\* middle of a propagation too (force_equal, restrict_to, the observers).
ModelsKept ==
  ~contradiction =>
    \A m \in Models(told), e \in Expression :
      Alive(e) => /\ m[e] \in dom[e]
                  /\ IsImplies(e) => <<m[Argument(e, 1)], m[Argument(e, 2)]>> \in table[e]

\* proof_by_contradiction is thrown only when the asserted facts have no model.
ContradictionJustified == contradiction => Models(told) = {}

\* No live expression is ever left without a value unless a contradiction is
\* reported: the product that bootstraps a table never has an empty factor, which
\* it would answer with a logic_error in a constructor.
NeverEmpty == ~contradiction => \A e \in Expression : Alive(e) => dom[e] # {}

\* Between calls, the table of an implication between different expressions is
\* exactly the rows its arguments' domains and its own still allow; where it was
\* built (before or after the facts) makes no difference.
TablesExact ==
  Ready => \A e \in Expression :
    (Alive(e) /\ IsImplies(e) /\ Argument(e, 1) # Argument(e, 2)) =>
      table[e] = {r \in dom[Argument(e, 1)] \X dom[Argument(e, 2)] : ValueOn(e, r) \in dom[e]}

\* What the argument of a negation still allows, negated.
Mirror(e) == {Neg(v) : v \in dom[Shape[e].of]}

\* A negation allows no more than its argument does, or is about to be told so.
Follows(e) ==
  \/ dom[e] \subseteq Mirror(e)
  \/ \E i \in 1..Len(queue) : queue[i] = <<Shape[e].of, Negates(e, live[e])>>

\* Between calls, a negation allows every value its argument does, negated; and one
\* that was built over an argument at its full domain allows no other from then on
\* (Not's full domain, src_to_new and new_to_src).
NegationsMirror ==
  /\ [](Ready => \A e \in Expression : (Alive(e) /\ IsNot(e)) => Mirror(e) \subseteq dom[e])
  /\ [][\A e \in Expression :
          (/\ IsNot(e) /\ live'[e] # 0 /\ ~contradiction'
           /\ \/ live'[e] = live[e] /\ Follows(e)
              \/ ~Alive(e) /\ dom[Shape[e].of] = ValuesOf(LogicOf[e]))
            => Follows(e)']_vars

\* Dropping dead observers never unhooks a live one: each live negation and its
\* argument watch each other, each live implication watches its arguments and
\* itself, exactly once (twice the one argument of P=>P).
WiringIntact ==
  LET times(e, o) == Cardinality({i \in DOMAIN watchers[e] : watchers[e][i] = o})
  IN  \A e \in Expression :
        /\ (Alive(e) /\ IsNot(e)) =>
             LET a == Shape[e].of
             IN  times(a, Negates(e, live[e])) = 1 /\ times(e, Negates(a, live[a])) = 1
        /\ (Alive(e) /\ IsImplies(e)) =>
             /\ times(e, Ranges(e, live[e])) = 1
             /\ \A c \in {1, 2} :
                  times(Argument(e, c), Includes(e, live[e], c))
                    = (IF Argument(e, 1) = Argument(e, 2) THEN 2 ELSE 1)

\* What two comments promise: an inference "triggers non-contradiction processing"
\* (infer), and "the relation between our range variable and the table" is enforced
\* (the constructor of an implication).  So a call does not return, without throwing,
\* while an implication has no row that its arguments and its own value could take.
RowsRemain == Ready => \A e \in Expression : (Alive(e) /\ IsImplies(e)) => table[e] # {}

\* Every propagation comes to an end: the queue runs out, or a contradiction is
\* thrown (an observer only queues others when it narrows a domain).
QueueDrains == queue # <<>> ~> (queue = <<>> \/ contradiction)

=============================================================================
