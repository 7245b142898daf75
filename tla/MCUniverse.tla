----------------------------- MODULE MCUniverse -----------------------------
(* Atoms, and the statements that scripts over them can lead to, for the    *)
(* model checker's instances of the proof session.                          *)
EXTENDS StatementForms

A == Atom("A")
B == Atom("B")
C == Atom("C")
T == Atom("T")

MCAxioms == {T}

\* The script of the cut rule.
CutRule == <<<<Parsed(A, B), Parsed(B, C)>>, <<A>>>>

\* A statement, and what it is made of.
RECURSIVE Below(_)
Below(s) == {s} \cup (IF s.kind = "atom" THEN {} ELSE Below(s.hyp) \cup Below(s.con))

WithOpaque(S) == S \cup {Opaque(s.hyp, s.con) : s \in {t \in S : t.kind = "parsed"}}

Base(scripts) ==
  MCAxioms \cup WithOpaque(UNION {UNION {UNION {Below(sc[i][j]) : j \in DOMAIN sc[i]}
                                    : i \in DOMAIN sc} : sc \in scripts})

\* The universe: what the scripts can discharge to, starting from X.  Level
\* statements are read up to notation, and what is concluded is a consequent.
Alike(X, t) == {x \in X : PrintedAs(x) = PrintedAs(t)}
Openings(X, l) ==
  IF Len(l) = 1 THEN {<<h>> : h \in Alike(X, l[1])}
  ELSE {<<h, g>> : h \in Alike(X, l[1]), g \in Alike(X, l[2])}
Closings(X, l, conclusions) == {Closed(o, c) : o \in Openings(X, l), c \in conclusions}

Grown(X, scripts) ==
  LET concluded == {Consequent(m) : m \in {x \in X : IsMajor(x)}}
      closed(sc) ==
        IF Len(sc) = 1 THEN Closings(X, sc[1], concluded)
        ELSE LET inner == Closings(X, sc[2], concluded)
             IN  inner \cup Closings(X, sc[1], concluded \cup inner)
  IN  X \cup UNION {closed(sc) : sc \in {x \in scripts : \A i \in DOMAIN x : Len(x[i]) < 3}}

Universe(scripts) == {s : s \in Grown(Grown(Base(scripts), scripts), scripts)}

=============================================================================
