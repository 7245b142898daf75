----------------------------- MODULE Statements -----------------------------
(***************************************************************************)
(* Statements, as the proof assistant holds them.  A statement is a record *)
(* that says how it came to be, because the code treats equal-looking      *)
(* objects differently:                                                    *)
(*   atom    a statement without structure the session looks into          *)
(*   parsed  hyp |- con, as the grammar recognised it in a script          *)
(*   minted  hyp |- con, built by discharging one hypothesis               *)
(*   opaque  hyp |- con whose |- lost its symbol tag in a substitution     *)
(*   rule    hyp, hyp2 |- con, built by discharging two hypotheses         *)
(***************************************************************************)
EXTENDS Naturals, Sequences

Kinds == {"atom", "parsed", "minted", "opaque", "rule"}

Atom(a)        == [kind |-> "atom", name |-> a]
Parsed(h, c)   == [kind |-> "parsed", hyp |-> h, con |-> c]
Minted(h, c)   == [kind |-> "minted", hyp |-> h, con |-> c]
Opaque(h, c)   == [kind |-> "opaque", hyp |-> h, con |-> c]
Rule(h, h2, c) == [kind |-> "rule", hyp |-> h, hyp2 |-> h2, con |-> c]

\* Only a |- that carries its symbol tag matches modus ponens' first
\* hypothesis, gets grouping parentheses, and counts as an entailment.
IsMajor(s) == s.kind \in {"parsed", "minted"}

\* What modus ponens cuts out of a major.  An arm of a parsed statement goes
\* through prepared_rename::decode, which forgets that its own |- is a symbol; an
\* arm of a minted statement wraps the original object, tags and all.
Arm(m, s) ==
  IF m.kind = "parsed" /\ s.kind = "parsed" THEN Opaque(s.hyp, s.con) ELSE s

Minor(m)      == Arm(m, m.hyp)
Consequent(m) == Arm(m, m.con)

\* Closing a level of hypotheses over a conclusion: two make a 2-ary rule.
Closed(hs, c) == IF Len(hs) = 1 THEN Minted(hs[1], c) ELSE Rule(hs[1], hs[2], c)

=============================================================================
