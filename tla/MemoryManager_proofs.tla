--------------------------- MODULE MemoryManager_proofs ---------------------------
(***************************************************************************)
(* For every word and page size, every reserve, every sizes asked for, any  *)
(* number of blocks and of denied requests: the blocks stay apart and are   *)
(* found, the two stacks stay in step with the pages, no audit reports an   *)
(* overlap, callers see a heap, and no block loses its memory.              *)
(***************************************************************************)
EXTENDS MemoryManager, LoopLemmas, SequenceTheorems, WellFoundedInduction

-------------------------------------------------------------------------------
(***************************************************************************)
(* Pages                                                                    *)
(***************************************************************************)
PageOf(a) == a \div Page
OnPage(a) == a % Page = 0

LEMMA Constants ==
  /\ W \in Nat /\ W >= 1 /\ Page \in Nat /\ Page >= 2 * W /\ Page >= 1
  /\ High \in Nat /\ OnPage(High) /\ Track = 2 * W
  /\ \A n \in Sizes : n \in Nat /\ n >= 1
  /\ MaxBlocks \in Nat /\ MaxDenials \in Nat
BY SpaceAssumption DEF Track, OnPage

LEMMA DivMod ==
  ASSUME NEW a \in Int, NEW d \in Nat, d >= 1
  PROVE  /\ a \div d \in Int /\ a % d \in Int
         /\ a = d * (a \div d) + (a % d) /\ 0 <= a % d /\ a % d < d
OBVIOUS

\* The only quotient there is.
LEMMA Quotient ==
  ASSUME NEW a \in Int, NEW d \in Nat, d >= 1, NEW q \in Int, d * q <= a, a < d * q + d
  PROVE  a \div d = q
<1>1. /\ a \div d \in Int /\ d * (a \div d) <= a /\ a < d * (a \div d) + d
  BY DivMod
<1> DEFINE p == a \div d
<1> HIDE DEF p
<1>2. p \in Int /\ d * p <= a /\ a < d * p + d
  BY <1>1 DEF p
<1>3. ~(p + 1 <= q) 
  <2> SUFFICES ASSUME p + 1 <= q PROVE FALSE
    OBVIOUS
  <2>1. d * (p + 1) <= d * q
    BY <1>2
  <2> QED BY <1>2, <2>1
<1>4. ~(q + 1 <= p)
  <2> SUFFICES ASSUME q + 1 <= p PROVE FALSE
    OBVIOUS
  <2>1. d * (q + 1) <= d * p
    BY <1>2
  <2> QED BY <1>2, <2>1
<1> QED BY <1>2, <1>3, <1>4 DEF p

LEMMA Pagewise ==
  ASSUME NEW a \in Int
  PROVE  /\ PageOf(a) \in Int
         /\ Page * PageOf(a) <= a /\ a < Page * PageOf(a) + Page
         /\ OnPage(a) <=> a = Page * PageOf(a)
BY Constants, DivMod DEF PageOf, OnPage

LEMMA PageMoves ==
  ASSUME NEW a \in Int, NEW k \in Int
  PROVE  /\ PageOf(a + k * Page) = PageOf(a) + k
         /\ OnPage(a) => OnPage(a + k * Page)
<1>1. /\ PageOf(a) \in Int /\ Page * PageOf(a) <= a /\ a < Page * PageOf(a) + Page
      /\ OnPage(a) <=> a = Page * PageOf(a)
  BY Pagewise
<1> DEFINE p == PageOf(a)
           b == a + k * Page
<1>2. b \in Int /\ Page \in Nat /\ p \in Int
  BY <1>1, Constants
<1>3. Page * (p + k) = Page * p + k * Page
  BY <1>2
<1>4. Page * (p + k) <= b /\ b < Page * (p + k) + Page
  BY <1>1, <1>2, <1>3
<1> HIDE DEF b
<1>5. PageOf(b) = p + k
  BY <1>2, <1>4, Constants, Quotient DEF PageOf
<1>6. OnPage(a) => b = Page * (p + k)
  BY <1>1, <1>3 DEF b
<1>7. OnPage(b) <=> b = Page * PageOf(b)
  BY <1>2, Pagewise
<1> QED BY <1>5, <1>6, <1>7 DEF b

LEMMA PageOrder ==
  ASSUME NEW a \in Int, NEW b \in Int
  PROVE  /\ a <= b => PageOf(a) <= PageOf(b)
         /\ OnPage(b) /\ a < b => PageOf(a) <= PageOf(b) - 1
         /\ OnPage(b) /\ b - Page <= a /\ a < b => PageOf(a) = PageOf(b) - 1
<1>1. /\ PageOf(a) \in Int /\ Page * PageOf(a) <= a /\ a < Page * PageOf(a) + Page
      /\ PageOf(b) \in Int /\ Page * PageOf(b) <= b /\ b < Page * PageOf(b) + Page
      /\ OnPage(b) => b = Page * PageOf(b)
      /\ Page \in Nat /\ Page >= 1
  BY Pagewise, Constants
<1> DEFINE p == PageOf(a)
           q == PageOf(b)
<1> HIDE DEF p, q
<1>2. /\ p \in Int /\ Page * p <= a /\ a < Page * p + Page
      /\ q \in Int /\ Page * q <= b /\ b < Page * q + Page
      /\ OnPage(b) => b = Page * q
  BY <1>1 DEF p, q
<1>3. q + 1 <= p => Page * (q + 1) <= Page * p
  BY <1>1, <1>2
<1>4. a <= b => p <= q
  BY <1>1, <1>2, <1>3
<1>5. q <= p => Page * q <= Page * p
  BY <1>1, <1>2
<1>6. OnPage(b) /\ a < b => p <= q - 1
  BY <1>1, <1>2, <1>5
<1>7. p <= q - 2 => Page * (p + 2) <= Page * q
  BY <1>1, <1>2
<1>8. OnPage(b) /\ b - Page <= a /\ a < b => p = q - 1
  BY <1>1, <1>2, <1>6, <1>7
<1> QED BY <1>4, <1>6, <1>8 DEF p, q
-------------------------------------------------------------------------------
(***************************************************************************)
(* The two stacks.  f is where the lowest block's size word starts, or      *)
(* the top of the reserve: the room for new blocks ends there.              *)
(***************************************************************************)
SpaceType == [top : Int, low : Int, committed : SUBSET Int, denied : Nat]

(* The index is committed; nothing else is known of the pages, for a second
   request commits the wrong ones.  The compactions of an emergency may release
   the page of the lowest size word, which then is not committed, so that
   the next audit faults. *)
Stacked(s, f) ==
    /\ s \in SpaceType
    /\ 0 <= s.top /\ s.top <= s.low /\ s.low <= High /\ s.top <= f
    /\ OnPage(s.top) /\ OnPage(s.low)
    /\ s.committed \subseteq 0 .. (PageOf(High) - 1)
    /\ 0 .. (PageOf(s.top) - 1) \subseteq s.committed
    /\ s.low <= f + W
    /\ s.low > f => (PageOf(s.low) - 1) \notin s.committed

\* What holds until the OS denies something.
Exact(s, f) ==
    /\ s.committed = 0 .. (PageOf(s.top) - 1) \union PageOf(s.low) .. (PageOf(High) - 1)
    /\ s.low <= f

\* Room for the records, and at most two spare pages.
IndexFits(s, m) == Track * m <= s.top /\ s.top <= Track * m + 2 * Page

Spaced(s, m, f) ==
    Stacked(s, f) /\ (s.denied = 0 => Exact(s, f)) /\ IndexFits(s, m)

LEMMA StackedFacts ==
  ASSUME NEW s, NEW f \in Int, Stacked(s, f)
  PROVE  /\ s.top \in Nat /\ s.low \in Nat /\ s.denied \in Nat /\ s.committed \in SUBSET Int
         /\ PageOf(s.top) \in Int /\ PageOf(s.low) \in Int /\ PageOf(High) \in Int
         /\ 0 <= PageOf(s.top) /\ PageOf(s.top) <= PageOf(s.low)
         /\ PageOf(s.low) <= PageOf(High)
<1>1. s.top \in Int /\ s.low \in Int /\ s.denied \in Nat /\ s.committed \in SUBSET Int
  BY DEF Stacked, SpaceType
<1>2. High \in Int /\ 0 \in Int
  BY Constants
<1>3. PageOf(0) = 0
  <2>1. Page * 0 <= 0 /\ 0 < Page * 0 + Page
    BY Constants
  <2> QED BY <2>1, Constants, Quotient DEF PageOf
<1> QED BY <1>1, <1>2, <1>3, PageOrder, Pagewise DEF Stacked

LEMMA PopIndex ==
  ASSUME NEW s, NEW f \in Int, Stacked(s, f), Page <= s.top, NEW r \in SpaceType,
         r.top = s.top - Page, r.low = s.low,
         r.committed = s.committed \ {PageOf(s.top) - 1}
  PROVE  Stacked(r, f) /\ (Exact(s, f) => Exact(r, f))
<1>1. /\ s.top \in Nat /\ s.low \in Nat /\ s.committed \in SUBSET Int
      /\ PageOf(s.top) \in Int /\ PageOf(s.low) \in Int /\ PageOf(High) \in Int
      /\ 0 <= PageOf(s.top) /\ PageOf(s.top) <= PageOf(s.low)
      /\ PageOf(s.low) <= PageOf(High)
  BY StackedFacts
<1>2. PageOf(r.top) = PageOf(s.top) - 1 /\ OnPage(r.top)
  <2>1. r.top = s.top + (-1) * Page /\ -1 \in Int
    BY <1>1, Constants
  <2> QED BY <1>1, <2>1, PageMoves DEF Stacked
<1>3. Stacked(r, f)
  BY <1>1, <1>2, Constants DEF Stacked
<1> QED BY <1>1, <1>2, <1>3 DEF Exact

LEMMA PushIndex ==
  ASSUME NEW s, NEW f \in Int, Stacked(s, f), NEW r \in SpaceType,
         r.top = s.top + Page, r.low = s.low, r.top <= r.low, r.top <= f,
         r.committed = s.committed \union {PageOf(s.top)}
  PROVE  Stacked(r, f) /\ (Exact(s, f) => Exact(r, f))
<1>1. /\ s.top \in Nat /\ s.low \in Nat /\ s.committed \in SUBSET Int
      /\ PageOf(s.top) \in Int /\ PageOf(s.low) \in Int /\ PageOf(High) \in Int
      /\ 0 <= PageOf(s.top) /\ PageOf(s.top) <= PageOf(s.low)
      /\ PageOf(s.low) <= PageOf(High)
  BY StackedFacts
<1>2. PageOf(r.top) = PageOf(s.top) + 1 /\ OnPage(r.top)
  <2>1. r.top = s.top + 1 * Page /\ 1 \in Int
    BY <1>1, Constants
  <2> QED BY <1>1, <2>1, PageMoves DEF Stacked
<1>3. PageOf(r.top) <= PageOf(s.low)
  BY <1>1, Constants, PageOrder
<1>4. s.low > f => PageOf(s.top) # PageOf(s.low) - 1
  <2> SUFFICES ASSUME s.low > f PROVE PageOf(s.top) < PageOf(s.low) - 1
    BY <1>1
  <2>1. r.top < s.low /\ r.top \in Int
    BY <1>1, Constants
  <2>2. PageOf(r.top) <= PageOf(s.low) - 1
    BY <1>1, <2>1, PageOrder DEF Stacked
  <2> QED BY <1>1, <1>2, <2>2
<1>5. Stacked(r, f)
  BY <1>1, <1>2, <1>3, <1>4, Constants DEF Stacked
<1> QED BY <1>1, <1>2, <1>3, <1>5 DEF Exact

LEMMA PopPtr ==
  ASSUME NEW s, NEW f \in Int, Stacked(s, f), NEW k \in Nat, k >= 1, NEW r \in SpaceType,
         r.top = s.top, r.low = s.low + k * Page, r.low <= f + W, r.low <= High,
         r.committed = s.committed \ (PageOf(s.low) .. (PageOf(s.low) + k - 1))
  PROVE  Stacked(r, f) /\ (Exact(s, f) /\ r.low <= f => Exact(r, f))
<1>1. /\ s.top \in Nat /\ s.low \in Nat /\ s.committed \in SUBSET Int
      /\ PageOf(s.top) \in Int /\ PageOf(s.low) \in Int /\ PageOf(High) \in Int
      /\ 0 <= PageOf(s.top) /\ PageOf(s.top) <= PageOf(s.low)
      /\ PageOf(s.low) <= PageOf(High)
  BY StackedFacts
<1>2. PageOf(r.low) = PageOf(s.low) + k /\ OnPage(r.low)
  BY <1>1, PageMoves DEF Stacked
<1>3. k * Page >= 0 /\ r.low \in Int /\ r.low >= s.low
  BY <1>1, Constants
<1>4. (PageOf(r.low) - 1) \notin r.committed
  BY <1>1, <1>2
<1>5. Stacked(r, f)
  BY <1>1, <1>2, <1>3, <1>4 DEF Stacked
<1>6. PageOf(r.low) <= PageOf(High)
  BY <1>3, Constants, PageOrder
<1> QED BY <1>1, <1>2, <1>5, <1>6 DEF Exact

\* New pages where they belong, or next to the index.
LEMMA PushPtr ==
  ASSUME NEW s, NEW f \in Int, Stacked(s, f), s.low <= f, NEW k \in Nat, NEW r \in SpaceType,
         r.top = s.top, r.low = s.low - k * Page, r.top <= r.low,
         \/ r.committed = s.committed \union (PageOf(s.low) - k) .. (PageOf(s.low) - 1)
         \/ r.committed = s.committed \union PageOf(s.top) .. (PageOf(s.top) + k - 1)
  PROVE  /\ Stacked(r, f)
         /\ Exact(s, f) /\ r.committed = s.committed \union (PageOf(s.low) - k) .. (PageOf(s.low) - 1)
              => Exact(r, f)
<1>1. /\ s.top \in Nat /\ s.low \in Nat /\ s.committed \in SUBSET Int
      /\ PageOf(s.top) \in Int /\ PageOf(s.low) \in Int /\ PageOf(High) \in Int
      /\ 0 <= PageOf(s.top) /\ PageOf(s.top) <= PageOf(s.low)
      /\ PageOf(s.low) <= PageOf(High)
  BY StackedFacts
<1>2. PageOf(r.low) = PageOf(s.low) - k /\ OnPage(r.low)
  <2>1. r.low = s.low + (-k) * Page /\ -k \in Int
    BY <1>1, Constants
  <2> QED BY <1>1, <2>1, PageMoves DEF Stacked
<1>3. k * Page >= 0 /\ r.low \in Int /\ r.low <= s.low
  BY <1>1, Constants
<1>4. PageOf(s.top) <= PageOf(s.low) - k
  BY <1>1, <1>2, <1>3, PageOrder
<1>5. Stacked(r, f)
  BY <1>1, <1>2, <1>3, <1>4, Constants DEF Stacked
<1> QED BY <1>1, <1>2, <1>3, <1>4, <1>5 DEF Exact

\* Where the room ends may move down to the blocks' end, and up.
LEMMA MoveFloor ==
  ASSUME NEW s, NEW f \in Int, NEW g \in Int, Stacked(s, f),
         s.top <= g, s.low <= g \/ g = f
  PROVE  Stacked(s, g) /\ (Exact(s, f) => Exact(s, g))
<1>1. s.top \in Nat /\ s.low \in Nat
  BY StackedFacts
<1> QED BY <1>1, Constants DEF Stacked, Exact
-------------------------------------------------------------------------------
(***************************************************************************)
(* The blocks                                                               *)
(***************************************************************************)
RecordType == [addr : 0 .. High, size : Sizes \union {0}]

\* Two words between any two blocks, one above them all.
Layout(t) ==
    /\ t \in Seq(RecordType)
    /\ \A i \in 1 .. Len(t) : t[i].addr + t[i].size + W <= High
    /\ \A i, j \in 1 .. Len(t) : i < j => t[j].addr + t[j].size + 2 * W <= t[i].addr

Floor(t) == IF t = <<>> THEN High ELSE Lowest(t) - W

LEMMA LayoutFacts ==
  ASSUME NEW t, Layout(t)
  PROVE  /\ Len(t) \in Nat /\ DOMAIN t = 1 .. Len(t)
         /\ \A i \in 1 .. Len(t) : /\ t[i] \in RecordType /\ t[i].addr \in Nat /\ t[i].size \in Nat
                                   /\ t[i].addr <= High
<1>1. Len(t) \in Nat /\ DOMAIN t = 1 .. Len(t)
  BY LenProperties DEF Layout
<1>2. \A i \in 1 .. Len(t) : t[i] \in RecordType
  BY ElementOfSeq DEF Layout
<1> QED BY <1>1, <1>2, Constants DEF RecordType

LEMMA FloorFacts ==
  ASSUME NEW t, Layout(t)
  PROVE  /\ Floor(t) \in Int /\ Floor(t) <= High
         /\ t = <<>> => Floor(t) = High
         /\ t # <<>> => /\ Len(t) \in 1 .. Len(t) /\ Lowest(t) = t[Len(t)].addr
                        /\ Lowest(t) \in Nat /\ Lowest(t) = Floor(t) + W /\ Lowest(t) + W <= High
                        /\ \A i \in 1 .. Len(t) : Lowest(t) <= t[i].addr
<1>1. CASE t = <<>>
  BY <1>1, Constants DEF Floor
<1>2. CASE t # <<>>
  <2>1. Len(t) \in Nat /\ Len(t) # 0
    BY <1>2, LayoutFacts, EmptySeq DEF Layout
  <2>2. Len(t) \in 1 .. Len(t) /\ Lowest(t) = t[Len(t)].addr
    BY <2>1 DEF Lowest
  <2>3. t[Len(t)].addr \in Nat /\ t[Len(t)].size \in Nat
    BY <2>2, LayoutFacts
  <2>4. t[Len(t)].addr + t[Len(t)].size + W <= High
    BY <2>2 DEF Layout
  <2>5. ASSUME NEW i \in 1 .. Len(t) PROVE t[Len(t)].addr <= t[i].addr
    <3>1. CASE i = Len(t)
      BY <2>3, <3>1
    <3>2. CASE i < Len(t)
      <4>1. t[i].addr \in Nat /\ t[Len(t)].addr + t[Len(t)].size + 2 * W <= t[i].addr
        BY <2>2, <3>2, LayoutFacts DEF Layout
      <4> QED BY <2>3, <4>1, Constants
    <3> QED BY <2>1, <3>1, <3>2
  <2> QED BY <1>2, <2>2, <2>3, <2>4, <2>5, Constants DEF Floor
<1> QED BY <1>1, <1>2

-------------------------------------------------------------------------------
(***************************************************************************)
(* Committing and releasing                                                 *)
(***************************************************************************)
LEMMA IndexWords ==
  ASSUME NEW m \in Nat
  PROVE  Track * m \in Nat /\ Track * (m + 1) = Track * m + Track
BY Constants

LEMMA WholePages ==
  ASSUME NEW a \in Int, NEW c \in Nat, c * Page <= a
  PROVE  a \div Page \in Nat /\ a \div Page >= c /\ (a \div Page) * Page <= a
<1>1. c * Page = 0 + c * Page /\ PageOf(0) = 0
  <2>1. Page * 0 <= 0 /\ 0 < Page * 0 + Page
    BY Constants
  <2> QED BY <2>1, Constants, Quotient DEF PageOf
<1>2. PageOf(0 + c * Page) = 0 + c
  BY <1>1, PageMoves
<1>3. PageOf(c * Page) <= PageOf(a)
  BY Constants, PageOrder
<1> QED BY <1>1, <1>2, <1>3, Pagewise, Constants DEF PageOf

\* A space with some of its fields renewed.
LEMMA Renewed ==
  ASSUME NEW s \in SpaceType, NEW x \in Int, NEW C \in SUBSET Int, NEW d \in Nat
  PROVE  /\ [s EXCEPT !.top = x, !.committed = C] =
               [top |-> x, low |-> s.low, committed |-> C, denied |-> s.denied]
         /\ [s EXCEPT !.low = x, !.committed = C] =
               [top |-> s.top, low |-> x, committed |-> C, denied |-> s.denied]
         /\ [s EXCEPT !.denied = d] =
               [top |-> s.top, low |-> s.low, committed |-> s.committed, denied |-> d]
<1>1. ASSUME NEW q \in SpaceType
      PROVE  [q EXCEPT !.committed = C] =
               [top |-> q.top, low |-> q.low, committed |-> C, denied |-> q.denied]
  BY DEF SpaceType
<1> DEFINE p == [s EXCEPT !.top = x]
           q == [s EXCEPT !.low = x]
<1>2. p \in SpaceType /\ p.top = x /\ p.low = s.low /\ p.denied = s.denied
  BY DEF SpaceType
<1>3. q \in SpaceType /\ q.top = s.top /\ q.low = x /\ q.denied = s.denied
  BY DEF SpaceType
<1>4. /\ [s EXCEPT !.top = x, !.committed = C] = [p EXCEPT !.committed = C]
      /\ [s EXCEPT !.low = x, !.committed = C] = [q EXCEPT !.committed = C]
  OBVIOUS
<1>5. [s EXCEPT !.denied = d] =
        [top |-> s.top, low |-> s.low, committed |-> s.committed, denied |-> d]
  BY DEF SpaceType
<1> HIDE DEF p, q
<1> QED BY <1>1, <1>2, <1>3, <1>4, <1>5

LEMMA ReleaseIndexFields ==
  ASSUME NEW s \in SpaceType, NEW r, r = ReleaseIndexPage(s)
  PROVE  /\ r \in SpaceType /\ r.top = s.top - Page /\ r.low = s.low /\ r.denied = s.denied
         /\ r.committed = s.committed \ {PageOf(s.top) - 1}
<1>1. s.top \in Int /\ s.low \in Int /\ s.denied \in Nat /\ s.committed \in SUBSET Int
  BY DEF SpaceType
<1>2. PageOf(s.top - Page) = PageOf(s.top) - 1
  <2>1. s.top - Page = s.top + (-1) * Page /\ -1 \in Int
    BY <1>1, Constants
  <2> QED BY <1>1, <2>1, PageMoves, Pagewise
<1>3. Pages(s.top - Page, 1) = {PageOf(s.top) - 1}
  <2>1. PageOf(s.top) \in Int
    BY <1>1, Pagewise
  <2> QED BY <1>2, <2>1 DEF Pages, PageOf
<1> DEFINE x == s.top - Page
           C == s.committed \ Pages(s.top - Page, 1)
<1>4. x \in Int /\ C \in SUBSET Int /\ r = [s EXCEPT !.top = x, !.committed = C]
  BY <1>1, Constants DEF ReleaseIndexPage
<1>5. C = s.committed \ {PageOf(s.top) - 1}
  BY <1>3
<1> HIDE DEF x, C
<1>6. r = [top |-> x, low |-> s.low, committed |-> C, denied |-> s.denied]
  BY <1>1, <1>4, Renewed
<1>7. r \in SpaceType /\ r.top = x /\ r.low = s.low /\ r.committed = C /\ r.denied = s.denied
  BY <1>1, <1>4, <1>6 DEF SpaceType
<1> QED BY <1>5, <1>7 DEF x

LEMMA ReleasePtrFields ==
  ASSUME NEW s \in SpaceType, NEW k \in Nat, NEW r, r = ReleasePtrPages(s, k)
  PROVE  /\ r \in SpaceType /\ r.top = s.top /\ r.low = s.low + k * Page /\ r.denied = s.denied
         /\ r.committed = s.committed \ (PageOf(s.low) .. (PageOf(s.low) + k - 1))
<1>1. s.top \in Int /\ s.low \in Int /\ s.denied \in Nat /\ s.committed \in SUBSET Int
  BY DEF SpaceType
<1> DEFINE x == s.low + k * Page
           C == s.committed \ Pages(s.low, k)
<1>2. x \in Int /\ C \in SUBSET Int /\ r = [s EXCEPT !.low = x, !.committed = C]
  BY <1>1, Constants DEF ReleasePtrPages
<1>3. C = s.committed \ (PageOf(s.low) .. (PageOf(s.low) + k - 1))
  BY DEF Pages, PageOf
<1> HIDE DEF x, C
<1>4. r = [top |-> s.top, low |-> x, committed |-> C, denied |-> s.denied]
  BY <1>1, <1>2, Renewed
<1>5. r \in SpaceType /\ r.top = s.top /\ r.low = x /\ r.committed = C /\ r.denied = s.denied
  BY <1>1, <1>2, <1>4 DEF SpaceType
<1> QED BY <1>3, <1>5 DEF x

\* Any compaction of the index leaves it room, and room for a record if it had it.
IndexKept(s, r, m) ==
    /\ r.low = s.low /\ r.denied = s.denied /\ r.top <= s.top
    /\ Track * m + Track <= s.top => Track * m + Track <= r.top

LEMMA CompactIndexKeeps ==
  ASSUME NEW s, NEW f \in Int, Stacked(s, f), s.denied = 0 => Exact(s, f),
         NEW t, Len(t) \in Nat, Track * Len(t) <= s.top, s.top <= Track * Len(t) + 3 * Page,
         NEW r, r = CompactIndex(s, t)
  PROVE  Spaced(r, Len(t), f) /\ IndexKept(s, r, Len(t))
<1> DEFINE m == Track * Len(t)
<1>1. m \in Nat /\ s.top \in Nat /\ s.low \in Nat /\ s.denied \in Nat /\ s \in SpaceType
  BY IndexWords, StackedFacts DEF Stacked
<1>2. /\ m <= s.top /\ s.top <= m + 3 * Page
      /\ r = IF 2 * Page < s.top - m THEN ReleaseIndexPage(s) ELSE s
      /\ Track = 2 * W /\ W \in Nat /\ Page \in Nat /\ Page >= 2 * W /\ Page >= 1
  BY Constants DEF CompactIndex
<1> HIDE DEF m
<1>3. CASE 2 * Page < s.top - m
  <2>1. /\ r \in SpaceType /\ r.top = s.top - Page /\ r.low = s.low /\ r.denied = s.denied
        /\ r.committed = s.committed \ {PageOf(s.top) - 1}
    BY <1>1, <1>2, <1>3, ReleaseIndexFields
  <2>2. Stacked(r, f) /\ (Exact(s, f) => Exact(r, f))
    BY <1>1, <1>2, <1>3, <2>1, PopIndex, SMTT(30)
  <2>3. IndexFits(r, Len(t))
    BY <1>1, <1>2, <1>3, <2>1 DEF IndexFits, m
  <2>4. IndexKept(s, r, Len(t))
    BY <1>1, <1>2, <1>3, <2>1 DEF IndexKept, m
  <2> QED BY <2>1, <2>2, <2>3, <2>4 DEF Spaced
<1>4. CASE ~(2 * Page < s.top - m)
  <2>1. r = s /\ s.top <= m + 2 * Page
    BY <1>1, <1>2, <1>4
  <2>2. IndexFits(r, Len(t)) /\ IndexKept(s, r, Len(t))
    BY <1>1, <1>2, <2>1 DEF IndexFits, IndexKept, m
  <2> QED BY <2>1, <2>2 DEF Spaced
<1> QED BY <1>3, <1>4

LEMMA DesperateCompactIndexKeeps ==
  ASSUME NEW s, NEW f \in Int, NEW t, Len(t) \in Nat, Spaced(s, Len(t), f),
         NEW r, r = DesperateCompactIndex(s, t)
  PROVE  Spaced(r, Len(t), f) /\ IndexKept(s, r, Len(t))
<1> DEFINE m == Track * Len(t)
<1>1. /\ m \in Nat /\ s.top \in Nat /\ s.low \in Nat /\ s.denied \in Nat
      /\ s \in SpaceType /\ Stacked(s, f)
  BY IndexWords, StackedFacts DEF Stacked, Spaced
<1>2. /\ m <= s.top /\ s.top <= m + 2 * Page
      /\ r = IF Page + Track < s.top - m THEN ReleaseIndexPage(s) ELSE s
      /\ Track = 2 * W /\ W \in Nat /\ Page \in Nat /\ Page >= 2 * W /\ Page >= 1
  BY Constants DEF DesperateCompactIndex, Spaced, IndexFits
<1> HIDE DEF m
<1>3. CASE Page + Track < s.top - m
  <2>1. /\ r \in SpaceType /\ r.top = s.top - Page /\ r.low = s.low /\ r.denied = s.denied
        /\ r.committed = s.committed \ {PageOf(s.top) - 1}
    BY <1>1, <1>2, <1>3, ReleaseIndexFields
  <2>2. Stacked(r, f) /\ (Exact(s, f) => Exact(r, f))
    BY <1>1, <1>2, <1>3, <2>1, PopIndex
  <2>3. IndexFits(r, Len(t))
    BY <1>1, <1>2, <1>3, <2>1 DEF IndexFits, m
  <2>4. IndexKept(s, r, Len(t))
    BY <1>1, <1>2, <1>3, <2>1 DEF IndexKept, m
  <2> QED BY <2>1, <2>2, <2>3, <2>4 DEF Spaced
<1>4. CASE ~(Page + Track < s.top - m)
  <2>1. r = s
    BY <1>2, <1>4
  <2>2. IndexKept(s, r, Len(t))
    BY <1>1, <1>2, <2>1 DEF IndexKept, m
  <2> QED BY <2>1, <2>2
<1> QED BY <1>3, <1>4

LEMMA CompactPtrKeeps ==
  ASSUME NEW t, Layout(t), NEW s, Spaced(s, Len(t), Floor(t)), NEW r, r = CompactPtr(s, t)
  PROVE  Spaced(r, Len(t), Floor(t))
<1> DEFINE f == Floor(t)
           room == Lowest(t) - s.low
           k == room \div Page - 1
<1>1. /\ f \in Int /\ f <= High /\ s \in SpaceType /\ s.top \in Nat /\ s.low \in Nat
      /\ W \in Nat /\ Page \in Nat /\ Page >= 2 * W /\ High \in Nat
  BY FloorFacts, StackedFacts, Constants DEF Spaced, Stacked
<1>2. CASE t # <<>> /\ 2 * Page <= room
  <2>1. Lowest(t) = f + W /\ Lowest(t) <= High /\ room \in Int
    BY <1>1, <1>2, FloorFacts
  <2>2. room \div Page \in Nat /\ room \div Page >= 2 /\ (room \div Page) * Page <= room
    BY <1>2, <2>1, WholePages
  <2>3. k \in Nat /\ k >= 1 /\ k * Page = (room \div Page) * Page - Page
    BY <1>1, <2>2
  <2>4. r = ReleasePtrPages(s, k)
    BY <1>2 DEF CompactPtr
  <2>5. s.low + k * Page <= f /\ s.low + k * Page <= High
    <3> DEFINE whole == (room \div Page) * Page
    <3>1. whole \in Int /\ whole <= room /\ k * Page = whole - Page
      BY <1>1, <2>2, <2>3
    <3> HIDE DEF whole, k, f
    <3> QED BY <1>1, <2>1, <3>1
  <2> HIDE DEF k, room, f
  <2>6. /\ r \in SpaceType /\ r.top = s.top /\ r.low = s.low + k * Page /\ r.denied = s.denied
        /\ r.committed = s.committed \ (PageOf(s.low) .. (PageOf(s.low) + k - 1))
    BY <1>1, <2>3, <2>4, ReleasePtrFields, ZenonT(30)
  <2>7. r.low <= f + W /\ r.low <= f /\ r.low <= High
    BY <1>1, <2>1, <2>3, <2>5, <2>6
  <2>8. Stacked(r, f) /\ (Exact(s, f) => Exact(r, f))
    BY <1>1, <2>3, <2>6, <2>7, PopPtr DEF Spaced, f
  <2> QED BY <2>6, <2>8 DEF Spaced, IndexFits, f
<1>3. CASE ~(t # <<>> /\ 2 * Page <= room)
  BY <1>3 DEF CompactPtr
<1> QED BY <1>2, <1>3

LEMMA DesperateCompactPtrKeeps ==
  ASSUME NEW t, Layout(t), NEW s, Stacked(s, Floor(t)), NEW r, r = DesperateCompactPtr(s, t)
  PROVE  Stacked(r, Floor(t)) /\ r.top = s.top /\ r.denied = s.denied
<1> DEFINE f == Floor(t)
           room == Lowest(t) - s.low
           k == room \div Page
<1>1. /\ f \in Int /\ f <= High /\ s \in SpaceType /\ s.top \in Nat /\ s.low \in Nat
      /\ W \in Nat /\ Page \in Nat /\ Page >= 2 * W /\ High \in Nat
  BY FloorFacts, StackedFacts, Constants DEF Stacked
<1>2. CASE t # <<>> /\ Page <= room
  <2>1. Lowest(t) = f + W /\ Lowest(t) <= High /\ room \in Int
    BY <1>1, <1>2, FloorFacts
  <2>2. k \in Nat /\ k >= 1 /\ k * Page <= room
    <3>1. 1 * Page <= room /\ 1 \in Nat
      BY <1>1, <1>2
    <3> HIDE DEF room
    <3> QED BY <2>1, <3>1, WholePages
  <2>3. r = ReleasePtrPages(s, k)
    BY <1>2 DEF DesperateCompactPtr
  <2>4. s.low + k * Page <= f + W /\ s.low + k * Page <= High
    <3> DEFINE whole == k * Page
    <3>1. whole \in Int /\ whole <= room
      BY <1>1, <2>2
    <3> HIDE DEF whole, f
    <3>2. s.low + whole <= f + W /\ s.low + whole <= High
      BY <1>1, <2>1, <3>1
    <3> QED BY <3>2 DEF whole
  <2> HIDE DEF k, room, f
  <2>5. /\ r \in SpaceType /\ r.top = s.top /\ r.low = s.low + k * Page /\ r.denied = s.denied
        /\ r.committed = s.committed \ (PageOf(s.low) .. (PageOf(s.low) + k - 1))
    BY <1>1, <2>2, <2>3, ReleasePtrFields
  <2>6. Stacked(r, f)
    BY <1>1, <2>2, <2>4, <2>5, PopPtr DEF f
  <2> QED BY <2>5, <2>6 DEF f
<1>3. CASE ~(t # <<>> /\ Page <= room)
  BY <1>3 DEF DesperateCompactPtr
<1> QED BY <1>2, <1>3

LEMMA CommitIndexKeeps ==
  ASSUME NEW t, Layout(t), NEW s, Spaced(s, Len(t), Floor(t)), ~IndexRoom(s, t),
         NEW got \in Attempts, NEW r, r = CommitIndexPage(s, t, got),
         r.top <= r.low, r.top <= Floor(t)
  PROVE  /\ Spaced(r, Len(t), Floor(t))
         /\ got # "never" => Track * Len(t) + Track <= r.top
         /\ r.top <= Track * Len(t) + Track + Page
<1> DEFINE f == Floor(t)
           m == Track * Len(t)
           asked == [DesperateCompactPtr(s, t) EXCEPT !.denied = @ + 1]
           from == IF got = "first" THEN s ELSE asked
<1>1. /\ f \in Int /\ s \in SpaceType /\ Stacked(s, f) /\ s.top \in Nat /\ s.top \in Int /\ s.low \in Nat
      /\ s.denied \in Nat /\ (s.denied = 0 => Exact(s, f))
      /\ m \in Nat /\ m <= s.top /\ s.top < m + Track
      /\ Track = 2 * W /\ W \in Nat /\ W >= 1 /\ Page \in Nat /\ Page >= 2 * W
  <2>1. Len(t) \in Nat /\ Floor(t) \in Int
    BY LayoutFacts, FloorFacts
  <2>2. Stacked(s, f) /\ (s.denied = 0 => Exact(s, f)) /\ IndexFits(s, Len(t))
    BY DEF Spaced
  <2>3. s.top \in Int /\ s.top \in Nat /\ s.low \in Nat /\ s.denied \in Nat /\ s \in SpaceType
    BY <2>1, <2>2, StackedFacts DEF Stacked
  <2>4. m \in Nat /\ m <= s.top /\ ~(Track <= s.top - m)
    BY <2>1, <2>2, IndexWords DEF IndexFits, IndexRoom
  <2> HIDE DEF m
  <2> QED BY <2>1, <2>2, <2>3, <2>4, Constants
<1> HIDE DEF f, m
<1>2. /\ asked \in SpaceType /\ Stacked(asked, f) /\ asked.top = s.top /\ asked.denied = s.denied + 1
  <2> DEFINE c == DesperateCompactPtr(s, t)
             d == c.denied + 1
  <2>1. Stacked(c, f) /\ c.top = s.top /\ c.denied = s.denied
    BY <1>1, DesperateCompactPtrKeeps DEF f
  <2> HIDE DEF c
  <2>2. /\ c \in SpaceType /\ d \in Nat /\ c.top \in Int /\ c.low \in Int
        /\ c.committed \in SUBSET Int /\ c.denied \in Nat
    BY <1>1, <2>1 DEF Stacked, SpaceType
  <2>3. asked = [c EXCEPT !.denied = d]
    BY DEF c
  <2> HIDE DEF asked, d
  <2>4. asked = [top |-> c.top, low |-> c.low, committed |-> c.committed, denied |-> d]
    BY <2>2, <2>3, Renewed
  <2>5. /\ asked \in SpaceType /\ asked.top = c.top /\ asked.low = c.low
        /\ asked.committed = c.committed /\ asked.denied = d
    BY <2>2, <2>4 DEF SpaceType
  <2>6. Stacked(asked, f)
    BY <2>1, <2>5 DEF Stacked
  <2> QED BY <2>1, <2>5, <2>6 DEF d
<1>3. /\ from \in SpaceType /\ Stacked(from, f) /\ from.top = s.top /\ from.denied \in Nat
      /\ from.denied = 0 => Exact(from, f)
  BY <1>1, <1>2
<1>4. r = IF got = "never" THEN from
          ELSE [from EXCEPT !.top = @ + Page, !.committed = @ \union Pages(s.top, 1)]
  <2>1. Pages(from.top, 1) = Pages(s.top, 1)
    BY <1>3
  <2> QED BY DEF CommitIndexPage
<1> HIDE DEF from, asked
<1>5. CASE got = "never"
  <2>1. r = from
    BY <1>4, <1>5
  <2>2. IndexFits(r, Len(t)) /\ r.top <= m + Track + Page
    BY <1>1, <1>3, <2>1 DEF IndexFits, m
  <2> QED BY <1>3, <1>5, <2>1, <2>2 DEF Spaced, f, m
<1>6. CASE got # "never"
  <2> DEFINE x == from.top + Page
             C == from.committed \union Pages(s.top, 1)
  <2>1. Pages(s.top, 1) = {PageOf(from.top)}
    <3>1. PageOf(s.top) \in Int
      BY <1>1, Pagewise
    <3> QED BY <1>3, <3>1 DEF Pages, PageOf
  <2>2. /\ from.top \in Int /\ from.low \in Int /\ from.committed \in SUBSET Int
    BY <1>3 DEF SpaceType
  <2>p. PageOf(from.top) \in Int
    BY <2>2, Pagewise
  <2>3. x \in Int /\ C \in SUBSET Int /\ C = from.committed \union {PageOf(from.top)}
    BY <1>1, <2>1, <2>2, <2>p
  <2>4. r = [from EXCEPT !.top = x, !.committed = C]
    BY <1>4, <1>6
  <2> HIDE DEF x, C
  <2>f. from \in SpaceType /\ from.denied \in Nat
    BY <1>3
  <2>5. r = [top |-> x, low |-> from.low, committed |-> C, denied |-> from.denied]
    BY <2>3, <2>4, <2>f, Renewed, ZenonT(30)
  <2>6. /\ r \in SpaceType /\ r.top = x /\ r.low = from.low
        /\ r.committed = C /\ r.denied = from.denied
    BY <1>3, <2>2, <2>3, <2>5 DEF SpaceType
  <2>7. x = from.top + Page
    BY DEF x
  <2>8. Stacked(r, f) /\ (Exact(from, f) => Exact(r, f))
    BY <1>1, <1>3, <2>3, <2>6, <2>7, PushIndex DEF f
  <2>9. IndexFits(r, Len(t)) /\ r.top <= m + Track + Page /\ m + Track <= r.top
    BY <1>1, <1>3, <2>6, <2>7 DEF IndexFits, m
  <2> QED BY <1>3, <2>6, <2>8, <2>9 DEF Spaced, f, m
<1> QED BY <1>5, <1>6

LEMMA CommitPtrKeeps ==
  ASSUME NEW t, Layout(t), NEW s, Spaced(s, Len(t), Floor(t)), s.low <= Floor(t),
         NEW k \in Nat, NEW got \in Attempts, NEW r, r = CommitPtrPages(s, t, k, got),
         r.top <= r.low
  PROVE  /\ Spaced(r, Len(t), Floor(t))
         /\ Track * Len(t) + Track <= s.top => Track * Len(t) + Track <= r.top
         /\ r.low = IF got = "never" THEN s.low ELSE s.low - k * Page
<1> DEFINE f == Floor(t)
           m == Track * Len(t)
           c == DesperateCompactIndex(s, t)
           d == c.denied + 1
           compact == [c EXCEPT !.denied = d]
<1>1. /\ f \in Int /\ s \in SpaceType /\ Stacked(s, f) /\ s.top \in Nat /\ s.low \in Nat
      /\ s.denied \in Nat /\ (s.denied = 0 => Exact(s, f)) /\ s.committed \in SUBSET Int
      /\ Len(t) \in Nat /\ Page \in Nat /\ k * Page \in Int
  <2>1. Len(t) \in Nat /\ Floor(t) \in Int
    BY LayoutFacts, FloorFacts
  <2>2. Stacked(s, f) /\ (s.denied = 0 => Exact(s, f)) /\ s \in SpaceType
    BY DEF Spaced, Stacked
  <2>3. s.top \in Nat /\ s.low \in Nat /\ s.denied \in Nat /\ s.committed \in SUBSET Int
    BY <2>1, <2>2, StackedFacts
  <2>4. Page \in Nat /\ k * Page \in Int
    BY Constants
  <2> QED BY <2>1, <2>2, <2>3, <2>4
<1>2. Spaced(c, Len(t), f) /\ IndexKept(s, c, Len(t))
  BY <1>1, DesperateCompactIndexKeeps
<1> HIDE DEF f, c
<1>3. /\ c \in SpaceType /\ c.top \in Int /\ c.low = s.low /\ c.low \in Int /\ d \in Nat /\ d >= 1
      /\ c.committed \in SUBSET Int /\ Stacked(c, f)
  BY <1>1, <1>2 DEF Spaced, Stacked, SpaceType, IndexKept
<1> HIDE DEF d
<1>4. compact = [top |-> c.top, low |-> c.low, committed |-> c.committed, denied |-> d]
  BY <1>3, Renewed
<1> HIDE DEF compact
<1>5. /\ compact \in SpaceType /\ compact.top = c.top /\ compact.low = s.low
      /\ compact.committed = c.committed /\ compact.denied = d
  BY <1>3, <1>4 DEF SpaceType
<1>6. Stacked(compact, f) /\ IndexFits(compact, Len(t))
  BY <1>2, <1>3, <1>5 DEF Stacked, Spaced, IndexFits
<1>7. /\ got = "first" =>
           r = [s EXCEPT !.low = @ - k * Page, !.committed = @ \union Pages(s.low - k * Page, k)]
      /\ got = "later" =>
           r = [compact EXCEPT !.low = @ - k * Page, !.committed = @ \union Pages(compact.top, k)]
      /\ got = "never" => r = compact
  BY DEF CommitPtrPages, compact, c, d
<1>8. CASE got = "never"
  BY <1>1, <1>2, <1>3, <1>5, <1>6, <1>7, <1>8 DEF Spaced, IndexKept, f
<1>9. CASE got = "first"
  <2> DEFINE x == s.low - k * Page
             C == s.committed \union Pages(x, k)
  <2>1. x \in Int /\ r = [s EXCEPT !.low = x, !.committed = C]
    BY <1>1, <1>7, <1>9
  <2>2. PageOf(x) = PageOf(s.low) - k
    <3>1. s.low + (-k) * Page = x /\ -k \in Int /\ s.low \in Int
      BY <1>1
    <3>2. PageOf(s.low + (-k) * Page) = PageOf(s.low) + (-k)
      BY <3>1, PageMoves
    <3> QED BY <1>1, <3>1, <3>2, Pagewise
  <2>3. PageOf(s.low) \in Int
    <3>1. s.low \in Int
      BY <1>1
    <3> QED BY <3>1, Pagewise
  <2>4. Pages(x, k) = (PageOf(s.low) - k) .. (PageOf(s.low) - 1)
    BY <2>2, <2>3 DEF Pages, PageOf
  <2>5. C \in SUBSET Int /\ C = s.committed \union (PageOf(s.low) - k) .. (PageOf(s.low) - 1)
    BY <1>1, <2>3, <2>4
  <2>6. x = s.low - k * Page
    OBVIOUS
  <2> HIDE DEF x, C
  <2>7. r = [top |-> s.top, low |-> x, committed |-> C, denied |-> s.denied]
    BY <1>1, <2>1, <2>5, Renewed, ZenonT(30)
  <2>8. /\ r \in SpaceType /\ r.top = s.top /\ r.low = x /\ r.committed = C
        /\ r.denied = s.denied
    BY <1>1, <2>1, <2>5, <2>7 DEF SpaceType
  <2>9. Stacked(r, f) /\ (Exact(s, f) => Exact(r, f))
    BY <1>1, <2>5, <2>6, <2>8, PushPtr DEF f
  <2>10. IndexFits(r, Len(t))
    BY <2>8 DEF Spaced, IndexFits
  <2> QED BY <1>1, <1>9, <2>6, <2>8, <2>9, <2>10 DEF Spaced, f
<1>10. CASE got = "later"
  <2> DEFINE x == s.low - k * Page
             C == compact.committed \union Pages(compact.top, k)
  <2>1. x \in Int /\ r = [compact EXCEPT !.low = x, !.committed = C]
    BY <1>1, <1>5, <1>7, <1>10
  <2>2. compact.top \in Int /\ PageOf(compact.top) \in Int
    BY <1>3, <1>5, Pagewise
  <2>3. Pages(compact.top, k) = PageOf(compact.top) .. (PageOf(compact.top) + k - 1)
    BY DEF Pages, PageOf
  <2>4. /\ C \in SUBSET Int
        /\ C = compact.committed \union PageOf(compact.top) .. (PageOf(compact.top) + k - 1)
    BY <1>3, <1>5, <2>2, <2>3
  <2>5. x = s.low - k * Page
    OBVIOUS
  <2> HIDE DEF x, C
  <2>6. compact.denied \in Nat /\ compact \in SpaceType
    BY <1>3, <1>5
  <2>7. r = [top |-> compact.top, low |-> x, committed |-> C, denied |-> compact.denied]
    BY <2>1, <2>4, <2>6, Renewed
  <2>8. /\ r \in SpaceType /\ r.top = compact.top /\ r.low = x /\ r.committed = C
        /\ r.denied = d
    BY <1>3, <1>5, <2>1, <2>2, <2>4, <2>7 DEF SpaceType
  <2>9. r.low = compact.low - k * Page /\ compact.low <= f
    BY <1>5, <2>5, <2>8 DEF f
  <2>10. Stacked(r, f)
    BY <1>1, <1>5, <1>6, <2>4, <2>8, <2>9, PushPtr
  <2>11. IndexFits(r, Len(t))
    BY <1>6, <2>8 DEF IndexFits
  <2> QED BY <1>2, <1>3, <1>5, <1>10, <2>5, <2>8, <2>10, <2>11 DEF Spaced, IndexKept, f
<1> QED BY <1>8, <1>9, <1>10 DEF Attempts
-------------------------------------------------------------------------------
(***************************************************************************)
(* Changes of the table                                                     *)
(***************************************************************************)

\* where the guard of a block at place i must end
Above(t, i) == IF i = 1 THEN High ELSE t[i - 1].addr - W

InsertAt(t, i, r) == SubSeq(t, 1, i - 1) \o <<r>> \o SubSeq(t, i, Len(t))

\* r can be block i, the present one and those below moving down a place
Slot(t, i, r) ==
    /\ i \in 1 .. (Len(t) + 1)
    /\ r.addr + r.size + W <= Above(t, i)
    /\ i <= Len(t) => t[i].addr + t[i].size + 2 * W <= r.addr
Fits(t, i, r) == Slot(t, i, r) /\ r \in RecordType

LEMMA AboveFacts ==
  ASSUME NEW t, Layout(t), NEW i \in 1 .. (Len(t) + 1)
  PROVE  /\ Above(t, i) \in Int /\ Above(t, i) <= High
         /\ i = Len(t) + 1 => Above(t, i) = Floor(t)
         /\ i <= Len(t) => t[i].addr + t[i].size + W <= Above(t, i)
         /\ \A j \in 1 .. (i - 1) : Above(t, i) + W <= t[j].addr
<1>1. /\ Len(t) \in Nat /\ W \in Nat /\ High \in Nat
      /\ \A j \in 1 .. Len(t) : /\ t[j].addr \in Nat /\ t[j].size \in Nat
                                /\ t[j].addr <= High
      /\ t = <<>> <=> Len(t) = 0
  BY LayoutFacts, Constants, EmptySeq DEF Layout
<1>2. CASE i = 1
  BY <1>1, <1>2 DEF Above, Floor, Layout
<1>3. CASE i # 1
  <2>1. i - 1 \in 1 .. Len(t) /\ i - 1 < i
    BY <1>1, <1>3
  <2>2. Above(t, i) = t[i - 1].addr - W /\ Above(t, i) \in Int /\ Above(t, i) <= High
    BY <1>1, <1>3, <2>1 DEF Above
  <2>3. i = Len(t) + 1 => Above(t, i) = Floor(t)
    BY <1>1, <1>3, <2>2 DEF Floor, Lowest
  <2>4. i <= Len(t) => t[i].addr + t[i].size + W <= Above(t, i)
    <3> SUFFICES ASSUME i <= Len(t) PROVE t[i].addr + t[i].size + W <= Above(t, i)
      OBVIOUS
    <3>1. t[i].addr + t[i].size + 2 * W <= t[i - 1].addr
      BY <2>1 DEF Layout
    <3> DEFINE x == t[i].addr + t[i].size
               y == t[i - 1].addr
    <3>2. x \in Int /\ y \in Int /\ W \in Int /\ x + 2 * W <= y /\ Above(t, i) = y - W
      <4>1. i \in 1 .. Len(t)
        OBVIOUS
      <4>2. t[i].addr \in Nat /\ t[i].size \in Nat /\ t[i - 1].addr \in Nat
        BY <2>1, <4>1, LayoutFacts
      <4> QED BY <2>2, <3>1, <4>2, Constants
    <3> HIDE DEF x, y
    <3>3. x + W <= Above(t, i)
      BY <3>2
    <3> QED BY <3>3 DEF x
  <2>5. ASSUME NEW j \in 1 .. (i - 1) PROVE Above(t, i) + W <= t[j].addr
    <3>1. j = i - 1 \/ j < i - 1
      BY <1>1
    <3>2. CASE j < i - 1
      <4>1. t[i - 1].addr + t[i - 1].size + 2 * W <= t[j].addr
        BY <2>1, <3>2 DEF Layout
      <4>2. /\ t[i - 1].addr \in Nat /\ t[i - 1].size \in Nat /\ t[j].addr \in Nat
            /\ W \in Nat
        BY <1>1, <2>1, <3>2
      <4> DEFINE x == t[i - 1].addr
                 y == t[i - 1].size
                 z == t[j].addr
      <4>3. /\ x \in Nat /\ y \in Nat /\ z \in Nat /\ W \in Nat
            /\ Above(t, i) = x - W /\ x + y + 2 * W <= z
        BY <2>2, <4>1, <4>2
      <4> HIDE DEF x, y, z
      <4>4. Above(t, i) + W <= z
        BY <4>3
      <4> QED BY <4>4 DEF z
    <3> QED BY <1>1, <2>1, <2>2, <3>1, <3>2
  <2> QED BY <2>2, <2>3, <2>4, <2>5
<1> QED BY <1>2, <1>3

\* Adjacent blocks apart are all blocks apart.
LEMMA LayoutByNeighbours ==
  ASSUME NEW t \in Seq(RecordType),
         \A i \in 1 .. Len(t) : t[i].addr + t[i].size + W <= Above(t, i)
  PROVE  Layout(t)
<1>1. Len(t) \in Nat /\ W \in Nat /\ High \in Nat
  BY LenProperties, Constants
<1>2. \A i \in 1 .. Len(t) : t[i].addr \in Nat /\ t[i].size \in Nat /\ t[i].addr <= High
  <2>1. \A i \in 1 .. Len(t) : t[i] \in RecordType
    BY ElementOfSeq
  <2> QED BY <2>1, Constants DEF RecordType
<1> DEFINE S == {k \in 0 .. Len(t) :
                   \A i \in 1 .. k : /\ t[i].addr + t[i].size + W <= High
                                     /\ \A h \in 1 .. (i - 1) :
                                          t[i].addr + t[i].size + 2 * W <= t[h].addr}
<1>3. 0 \in S
  BY <1>1
<1>4. ASSUME NEW k \in 1 .. Len(t), k - 1 \in S PROVE k \in S
  <2>1. t[k].addr + t[k].size + W <= Above(t, k)
    OBVIOUS
  <2>2. CASE k = 1
    BY <1>1, <2>1, <2>2 DEF Above
  <2>3. CASE k # 1
    <3>1. k - 1 \in 1 .. Len(t) /\ k - 1 \in 1 .. (k - 1)
      BY <1>1, <2>3
    <3>a. /\ t[k].addr \in Nat /\ t[k].size \in Nat /\ t[k - 1].addr \in Nat
          /\ t[k - 1].size \in Nat /\ t[k - 1].addr <= High
      BY <1>2, <3>1
    <3>2. t[k].addr + t[k].size + 2 * W <= t[k - 1].addr
      <4>1. t[k].addr + t[k].size + W <= t[k - 1].addr - W
        BY <2>1, <2>3 DEF Above
      <4> DEFINE x == t[k].addr
                 y == t[k].size
                 z == t[k - 1].addr
      <4>2. /\ x \in Nat /\ y \in Nat /\ z \in Nat /\ W \in Nat /\ x + y + W <= z - W
        BY <1>1, <3>a, <4>1
      <4> HIDE DEF x, y, z
      <4>3. x + y + 2 * W <= z
        BY <4>2
      <4> QED BY <4>3 DEF x, y, z
    <3>3. \A i \in 1 .. (k - 1) : /\ t[i].addr + t[i].size + W <= High
                                  /\ \A h \in 1 .. (i - 1) :
                                       t[i].addr + t[i].size + 2 * W <= t[h].addr
      BY <1>4
    <3>4. t[k].addr + t[k].size + W <= High
      <4> DEFINE x == t[k].addr
                 y == t[k].size
                 z == t[k - 1].addr
      <4>1. /\ x \in Nat /\ y \in Nat /\ z \in Nat /\ W \in Nat /\ High \in Nat
            /\ x + y + 2 * W <= z /\ z <= High
        BY <1>1, <3>a, <3>2
      <4> HIDE DEF x, y, z
      <4>2. x + y + W <= High
        BY <4>1
      <4> QED BY <4>2 DEF x, y
    <3>5. ASSUME NEW h \in 1 .. (k - 1) PROVE t[k].addr + t[k].size + 2 * W <= t[h].addr
      <4>1. CASE h = k - 1
        BY <3>2, <4>1
      <4>2. CASE h < k - 1
        <5>1. h \in 1 .. (k - 1 - 1) /\ h \in 1 .. Len(t)
          BY <1>1, <4>2
        <5>2. t[k - 1].addr + t[k - 1].size + 2 * W <= t[h].addr
          BY <3>1, <3>3, <5>1
        <5>3. t[h].addr \in Nat
          BY <1>2, <5>1
        <5> DEFINE x == t[k].addr
                   y == t[k].size
                   z == t[k - 1].addr
                   n == t[k - 1].size
                   u == t[h].addr
        <5>4. /\ x \in Nat /\ y \in Nat /\ z \in Nat /\ n \in Nat /\ u \in Nat /\ W \in Nat
              /\ x + y + 2 * W <= z /\ z + n + 2 * W <= u
          BY <1>1, <3>a, <3>2, <5>2, <5>3
        <5> HIDE DEF x, y, z, n, u
        <5>5. x + y + 2 * W <= u
          BY <5>4
        <5> QED BY <5>5 DEF x, y, u
      <4> QED BY <1>1, <4>1, <4>2
    <3>6. \A i \in 1 .. k : i = k \/ i \in 1 .. (k - 1)
      BY <1>1
    <3> QED BY <3>3, <3>4, <3>5, <3>6
  <2> QED BY <2>2, <2>3
<1> HIDE DEF S
<1>5. 0 .. Len(t) \subseteq S
  BY <1>1, <1>3, <1>4, TurnByTurn
<1>6. Len(t) \in S
  BY <1>1, <1>5
<1>7. \A i \in 1 .. Len(t) : /\ t[i].addr + t[i].size + W <= High
                             /\ \A h \in 1 .. (i - 1) :
                                  t[i].addr + t[i].size + 2 * W <= t[h].addr
  BY <1>6 DEF S
<1> QED BY <1>1, <1>7 DEF Layout

LEMMA InsertAtElements ==
  ASSUME NEW S, NEW t \in Seq(S), NEW i \in 1 .. (Len(t) + 1), NEW r \in S
  PROVE  /\ InsertAt(t, i, r) \in Seq(S) /\ Len(InsertAt(t, i, r)) = Len(t) + 1
         /\ \A j \in 1 .. (Len(t) + 1) :
              InsertAt(t, i, r)[j] = IF j < i THEN t[j] ELSE IF j = i THEN r ELSE t[j - 1]
<1> DEFINE before == SubSeq(t, 1, i - 1)
           after  == SubSeq(t, i, Len(t))
           one    == <<r>>
<1>1. Len(t) \in Nat /\ \A j \in 1 .. Len(t) : t[j] \in S
  BY LenProperties, ElementOfSeq
<1>2. /\ before \in Seq(S) /\ Len(before) = i - 1
      /\ \A j \in 1 .. (i - 1) : before[j] = t[j]
  <2>1. \A j \in 1 .. (i - 1) : t[j] \in S
    BY <1>1
  <2>2. /\ before \in Seq(S) /\ Len(before) = IF 1 <= i - 1 THEN (i - 1) - 1 + 1 ELSE 0
        /\ \A j \in 1 .. ((i - 1) - 1 + 1) : before[j] = t[1 + j - 1]
    BY <1>1, <2>1, SubSeqProperties
  <2> HIDE DEF before
  <2> QED BY <1>1, <2>2
<1>3. /\ after \in Seq(S) /\ Len(after) = Len(t) - i + 1
      /\ \A j \in 1 .. (Len(t) - i + 1) : after[j] = t[i + j - 1]
  <2>1. \A j \in i .. Len(t) : t[j] \in S
    BY <1>1
  <2>2. /\ after \in Seq(S) /\ Len(after) = IF i <= Len(t) THEN Len(t) - i + 1 ELSE 0
        /\ \A j \in 1 .. (Len(t) - i + 1) : after[j] = t[i + j - 1]
    BY <1>1, <2>1, SubSeqProperties
  <2> HIDE DEF after
  <2> QED BY <1>1, <2>2
<1>4. one \in Seq(S) /\ Len(one) = 1 /\ one[1] = r
  OBVIOUS
<1> DEFINE front == before \o one
<1> HIDE DEF before, after, one
<1>5. /\ front \in Seq(S) /\ Len(front) = i
      /\ \A j \in 1 .. i : front[j] = IF j < i THEN t[j] ELSE r
  <2>1. /\ front \in Seq(S) /\ Len(front) = Len(before) + Len(one)
        /\ \A j \in 1 .. (Len(before) + Len(one)) :
             front[j] = IF j <= Len(before) THEN before[j] ELSE one[j - Len(before)]
    BY <1>2, <1>4, ConcatProperties
  <2> HIDE DEF front
  <2> QED BY <1>1, <1>2, <1>4, <2>1
<1> DEFINE all == front \o after
<1> HIDE DEF front
<1>6. /\ all \in Seq(S) /\ Len(all) = Len(front) + Len(after)
      /\ \A j \in 1 .. (Len(front) + Len(after)) :
           all[j] = IF j <= Len(front) THEN front[j] ELSE after[j - Len(front)]
  BY <1>3, <1>5, ConcatProperties
<1>7. all = InsertAt(t, i, r)
  BY DEF InsertAt, front, before, after, one
<1> HIDE DEF all
<1>8. ASSUME NEW j \in 1 .. (Len(t) + 1)
      PROVE  all[j] = IF j < i THEN t[j] ELSE IF j = i THEN r ELSE t[j - 1]
  <2>1. CASE j <= i
    BY <1>1, <1>3, <1>5, <1>6, <2>1
  <2>2. CASE j > i
    <3>1. j - i \in 1 .. (Len(t) - i + 1)
      BY <1>1, <2>2
    <3>2. all[j] = after[j - i]
      BY <1>1, <1>3, <1>5, <1>6, <2>2
    <3>3. i + (j - i) - 1 = j - 1
      BY <1>1
    <3>4. after[j - i] = t[i + (j - i) - 1]
      BY <1>3, <3>1
    <3>5. after[j - i] = t[j - 1]
      BY <3>3, <3>4
    <3> QED BY <2>2, <3>2, <3>5
  <2> QED BY <1>1, <2>1, <2>2
<1>9. all \in Seq(S) /\ Len(all) = Len(t) + 1
  BY <1>1, <1>3, <1>5, <1>6
<1> QED BY <1>7, <1>8, <1>9

\* What is above a record, and what is below it.
LEMMA Parts ==
  ASSUME NEW S, NEW t \in Seq(S), NEW i \in 1 .. Len(t),
         NEW before, before = SubSeq(t, 1, i - 1), NEW after, after = SubSeq(t, i + 1, Len(t))
  PROVE  /\ before \in Seq(S) /\ Len(before) = i - 1
         /\ \A j \in 1 .. (i - 1) : before[j] = t[j]
         /\ after \in Seq(S) /\ Len(after) = Len(t) - i
         /\ \A j \in 1 .. (Len(t) - i) : after[j] = t[i + j]
<1>1. Len(t) \in Nat /\ \A j \in 1 .. Len(t) : t[j] \in S
  BY LenProperties, ElementOfSeq
<1>2. /\ before \in Seq(S) /\ Len(before) = i - 1
      /\ \A j \in 1 .. (i - 1) : before[j] = t[j]
  <2>1. \A j \in 1 .. (i - 1) : t[j] \in S
    BY <1>1
  <2>2. /\ before \in Seq(S) /\ Len(before) = IF 1 <= i - 1 THEN (i - 1) - 1 + 1 ELSE 0
        /\ \A j \in 1 .. ((i - 1) - 1 + 1) : before[j] = t[1 + j - 1]
    BY <1>1, <2>1, SubSeqProperties
  <2> QED BY <1>1, <2>2
<1>3. /\ after \in Seq(S) /\ Len(after) = Len(t) - i
      /\ \A j \in 1 .. (Len(t) - i) : after[j] = t[i + j]
  <2>1. \A j \in (i + 1) .. Len(t) : t[j] \in S
    BY <1>1
  <2>2. /\ after \in Seq(S) /\ Len(after) = IF i + 1 <= Len(t) THEN Len(t) - (i + 1) + 1 ELSE 0
        /\ \A j \in 1 .. (Len(t) - (i + 1) + 1) : after[j] = t[(i + 1) + j - 1]
    BY <1>1, <2>1, SubSeqProperties
  <2> QED BY <1>1, <2>2
<1> QED BY <1>2, <1>3

LEMMA RemovedElements ==
  ASSUME NEW S, NEW t \in Seq(S), NEW i \in 1 .. Len(t)
  PROVE  /\ Removed(t, i) \in Seq(S) /\ Len(Removed(t, i)) = Len(t) - 1
         /\ \A j \in 1 .. (Len(t) - 1) : Removed(t, i)[j] = IF j < i THEN t[j] ELSE t[j + 1]
<1> DEFINE before == SubSeq(t, 1, i - 1)
           after  == SubSeq(t, i + 1, Len(t))
<1>1. Len(t) \in Nat /\ \A j \in 1 .. Len(t) : t[j] \in S
  BY LenProperties, ElementOfSeq
<1>2. /\ before \in Seq(S) /\ Len(before) = i - 1
      /\ \A j \in 1 .. (i - 1) : before[j] = t[j]
  BY Parts
<1>3. /\ after \in Seq(S) /\ Len(after) = Len(t) - i
      /\ \A j \in 1 .. (Len(t) - i) : after[j] = t[i + j]
  BY Parts
<1> DEFINE all == before \o after
<1> HIDE DEF before, after
<1>4. /\ all \in Seq(S) /\ Len(all) = Len(before) + Len(after)
      /\ \A j \in 1 .. (Len(before) + Len(after)) :
           all[j] = IF j <= Len(before) THEN before[j] ELSE after[j - Len(before)]
  BY <1>2, <1>3, ConcatProperties
<1>5. all = Removed(t, i)
  BY DEF Removed, before, after
<1> HIDE DEF all
<1>6. ASSUME NEW j \in 1 .. (Len(t) - 1) PROVE all[j] = IF j < i THEN t[j] ELSE t[j + 1]
  <2>1. CASE j < i
    <3>1. j \in 1 .. (i - 1) /\ j <= Len(before) /\ j \in 1 .. (Len(before) + Len(after))
      BY <1>1, <1>2, <1>3, <2>1
    <3> QED BY <1>2, <1>4, <2>1, <3>1
  <2>2. CASE j >= i
    <3>1. j - (i - 1) \in 1 .. (Len(t) - i)
      BY <1>1, <2>2
    <3>2. all[j] = after[j - (i - 1)]
      <4>1. Len(before) = i - 1 /\ Len(before) + Len(after) = Len(t) - 1
        BY <1>1, <1>2, <1>3
      <4>2. j \in 1 .. (Len(before) + Len(after)) /\ ~(j <= Len(before))
        BY <1>1, <2>2, <4>1
      <4>3. all[j] = after[j - Len(before)]
        BY <1>4, <4>2
      <4> QED BY <4>1, <4>3
    <3>3. after[j - (i - 1)] = t[i + (j - (i - 1))] /\ i + (j - (i - 1)) = j + 1
      BY <1>1, <1>3, <3>1
    <3> QED BY <1>1, <2>2, <3>2, <3>3
  <2> QED BY <1>1, <2>1, <2>2
<1> QED BY <1>1, <1>2, <1>3, <1>4, <1>5, <1>6

LEMMA InsertAtKeeps ==
  ASSUME NEW t, Layout(t), NEW i, NEW r, Fits(t, i, r), NEW u, u = InsertAt(t, i, r)
  PROVE  /\ Layout(u) /\ Len(u) = Len(t) + 1 /\ u # <<>> /\ i \in 1 .. Len(u) /\ u[i] = r
         /\ Floor(u) = IF i = Len(t) + 1 THEN r.addr - W ELSE Floor(t)
         /\ Elems(u) = Elems(t) \union {r}
         /\ \A c \in Elems(t) : \E j \in 1 .. Len(u) : j # i /\ c = u[j]
<1>1. /\ t \in Seq(RecordType) /\ Len(t) \in Nat /\ DOMAIN t = 1 .. Len(t)
      /\ i \in 1 .. (Len(t) + 1) /\ r \in RecordType /\ W \in Nat
      /\ \A j \in 1 .. Len(t) : t[j].addr \in Nat /\ t[j].size \in Nat
  BY LayoutFacts, Constants DEF Layout, Fits, Slot
<1>2. /\ u \in Seq(RecordType) /\ Len(u) = Len(t) + 1
      /\ \A j \in 1 .. (Len(t) + 1) :
           u[j] = IF j < i THEN t[j] ELSE IF j = i THEN r ELSE t[j - 1]
  <2>1. t \in Seq(RecordType) /\ i \in 1 .. (Len(t) + 1) /\ r \in RecordType
    BY <1>1
  <2>2. /\ InsertAt(t, i, r) \in Seq(RecordType) /\ Len(InsertAt(t, i, r)) = Len(t) + 1
        /\ \A j \in 1 .. (Len(t) + 1) :
             InsertAt(t, i, r)[j] = IF j < i THEN t[j] ELSE IF j = i THEN r ELSE t[j - 1]
    BY <2>1, InsertAtElements, SMTT(30)
  <2> QED BY <2>2
<1>3. DOMAIN u = 1 .. (Len(t) + 1)
  BY <1>1, <1>2, LenProperties
<1>4. ASSUME NEW j \in 1 .. Len(u) PROVE u[j].addr + u[j].size + W <= Above(u, j)
  <2>1. CASE j < i
    <3>1. j \in 1 .. Len(t) /\ u[j] = t[j]
      BY <1>1, <1>2, <2>1
    <3>2. Above(u, j) = Above(t, j)
      <4>1. CASE j = 1
        BY <4>1 DEF Above
      <4>2. CASE j # 1
        <5>1. u[j - 1] = t[j - 1]
          BY <1>1, <1>2, <2>1, <4>2
        <5> QED BY <4>2, <5>1 DEF Above
      <4> QED BY <4>1, <4>2
    <3>3. t[j].addr + t[j].size + W <= Above(t, j)
      BY <1>1, <3>1, AboveFacts
    <3> QED BY <3>1, <3>2, <3>3
  <2>2. CASE j = i
    <3>1. u[j] = r
      BY <1>1, <1>2, <2>2
    <3>2. Above(u, j) = Above(t, i)
      <4>1. CASE j = 1
        BY <2>2, <4>1 DEF Above
      <4>2. CASE j # 1
        <5>1. u[j - 1] = t[j - 1]
          BY <1>1, <1>2, <2>2, <4>2
        <5> QED BY <2>2, <4>2, <5>1 DEF Above
      <4> QED BY <4>1, <4>2
    <3> QED BY <3>1, <3>2 DEF Fits, Slot
  <2>3. CASE j = i + 1
    <3>1. u[j] = t[i] /\ i \in 1 .. Len(t) /\ u[j - 1] = r /\ j # 1
      BY <1>1, <1>2, <2>3
    <3>2. t[i].addr + t[i].size + 2 * W <= r.addr /\ Above(u, j) = r.addr - W
      BY <1>1, <3>1 DEF Fits, Slot, Above
    <3> DEFINE x == t[i].addr
               y == t[i].size
               z == r.addr
    <3>3. /\ x \in Nat /\ y \in Nat /\ z \in Nat /\ W \in Nat /\ x + y + 2 * W <= z
          /\ Above(u, j) = z - W
      BY <1>1, <3>1, <3>2 DEF RecordType
    <3> HIDE DEF x, y, z
    <3>4. x + y + W <= Above(u, j)
      BY <3>3
    <3> QED BY <3>1, <3>4 DEF x, y
  <2>4. CASE j > i + 1
    <3>1. j - 1 \in 1 .. Len(t) /\ u[j] = t[j - 1] /\ u[j - 1] = t[j - 1 - 1]
      BY <1>1, <1>2, <2>4
    <3>2. Above(u, j) = Above(t, j - 1)
      BY <1>1, <2>4, <3>1 DEF Above
    <3>3. t[j - 1].addr + t[j - 1].size + W <= Above(t, j - 1)
      BY <1>1, <3>1, AboveFacts
    <3> QED BY <3>1, <3>2, <3>3
  <2> QED BY <1>1, <1>2, <2>1, <2>2, <2>3, <2>4
<1>5. Layout(u)
  BY <1>2, <1>4, LayoutByNeighbours
<1>6. u # <<>> /\ i \in 1 .. Len(u) /\ u[i] = r
  BY <1>1, <1>2, EmptySeq
<1>7. Floor(u) = u[Len(u)].addr - W
  BY <1>6 DEF Floor, Lowest
<1>8. Floor(u) = IF i = Len(t) + 1 THEN r.addr - W ELSE Floor(t)
  <2>1. CASE i = Len(t) + 1
    BY <1>2, <1>6, <1>7, <2>1
  <2>2. CASE i # Len(t) + 1
    <3>1. u[Len(u)] = t[Len(t)] /\ Len(t) # 0
      <4>1. /\ Len(u) = Len(t) + 1 /\ Len(u) \in 1 .. (Len(t) + 1) /\ ~(Len(u) < i) /\ Len(u) # i
            /\ Len(u) - 1 = Len(t) /\ Len(t) # 0
        BY <1>1, <1>2, <2>2
      <4>2. u[Len(u)] = t[Len(u) - 1]
        BY <1>2, <4>1
      <4> QED BY <4>1, <4>2
    <3>2. t # <<>>
      BY <1>1, <3>1, EmptySeq
    <3> QED BY <1>7, <2>2, <3>1, <3>2 DEF Floor, Lowest
  <2> QED BY <2>1, <2>2
<1>9. /\ Elems(u) = Elems(t) \union {r}
      /\ \A c \in Elems(t) : \E j \in 1 .. Len(u) : j # i /\ c = u[j]
  <2>1. ASSUME NEW x \in Elems(u) PROVE x \in Elems(t) \union {r}
    <3>1. PICK j \in 1 .. (Len(t) + 1) : x = u[j]
      BY <1>1, <1>2, <1>3 DEF Elems
    <3>2. CASE j < i
      <4>1. j \in 1 .. Len(t) /\ x = t[j]
        BY <1>1, <1>2, <3>1, <3>2
      <4> QED BY <1>1, <4>1 DEF Elems
    <3>3. CASE j = i
      BY <1>2, <3>1, <3>3
    <3>4. CASE j > i
      <4>1. j - 1 \in 1 .. Len(t) /\ ~(j < i) /\ j # i
        BY <1>1, <3>4
      <4>2. x = t[j - 1]
        BY <1>2, <3>1, <4>1
      <4> QED BY <1>1, <4>1, <4>2 DEF Elems
    <3> QED BY <1>1, <3>2, <3>3, <3>4
  <2>2. r \in Elems(u)
    BY <1>1, <1>3, <1>6 DEF Elems
  <2>3. ASSUME NEW j \in 1 .. Len(t) PROVE \E h \in 1 .. (Len(t) + 1) : h # i /\ t[j] = u[h]
    <3>1. CASE j < i
      <4>1. u[j] = t[j] /\ j \in 1 .. (Len(t) + 1) /\ j # i
        BY <1>1, <1>2, <3>1
      <4> QED BY <4>1
    <3>2. CASE j >= i
      <4>1. u[j + 1] = t[j] /\ j + 1 \in 1 .. (Len(t) + 1)
        <5>1. j + 1 \in 1 .. (Len(t) + 1) /\ ~(j + 1 < i) /\ j + 1 # i /\ (j + 1) - 1 = j
          BY <1>1, <3>2
        <5> QED BY <1>2, <5>1
      <4>2. j + 1 # i
        BY <1>1, <3>2
      <4> QED BY <4>1, <4>2
    <3> QED BY <1>1, <3>1, <3>2
  <2>4. \A c \in Elems(t) : \E h \in 1 .. (Len(t) + 1) : h # i /\ c = u[h]
    BY <1>1, <2>3 DEF Elems
  <2>5. Elems(t) \subseteq Elems(u)
    BY <1>3, <2>4 DEF Elems
  <2> QED BY <1>2, <2>1, <2>2, <2>4, <2>5
<1> QED BY <1>2, <1>5, <1>6, <1>8, <1>9

LEMMA InsertedIs ==
  ASSUME NEW t, Layout(t), NEW i, NEW r, Slot(t, i, r), r.addr \in Int, r.size \in Nat
  PROVE  Inserted(t, r) = InsertAt(t, i, r)
<1> DEFINE Right(k) == /\ k > 1 => t[k - 1].addr >= r.addr
                       /\ \A j \in k .. Len(t) : t[j].addr < r.addr
<1>1. /\ Len(t) \in Nat /\ W \in Nat /\ W >= 1 /\ i \in 1 .. (Len(t) + 1)
      /\ \A j \in 1 .. Len(t) : t[j].addr \in Nat /\ t[j].size \in Nat
      /\ r.addr \in Int /\ r.size \in Nat
  BY LayoutFacts, Constants DEF Slot
<1>2. ASSUME NEW j \in 1 .. (i - 1) PROVE t[j].addr >= r.addr
  <2>1. Above(t, i) + W <= t[j].addr /\ Above(t, i) \in Int
    BY <1>1, AboveFacts
  <2>2. r.addr + r.size + W <= Above(t, i)
    BY DEF Slot
  <2>3. j \in 1 .. Len(t)
    BY <1>1
  <2>4. t[j].addr \in Nat
    BY <1>1, <2>3
  <2> QED BY <1>1, <2>1, <2>2, <2>4
<1>3. ASSUME NEW j \in i .. Len(t) PROVE t[j].addr < r.addr
  <2>1. i \in 1 .. Len(t) /\ j \in 1 .. Len(t)
    BY <1>1
  <2>2. t[i].addr + t[i].size + 2 * W <= r.addr
    BY <1>1, <2>1 DEF Slot
  <2>3. t[j].addr <= t[i].addr
    <3>1. CASE j = i
      BY <1>1, <2>1, <3>1
    <3>2. CASE j > i
      <4>1. t[j].addr + t[j].size + 2 * W <= t[i].addr
        BY <2>1, <3>2 DEF Layout
      <4> QED BY <1>1, <2>1, <4>1
    <3> QED BY <1>1, <3>1, <3>2
  <2> DEFINE x == t[i].addr
             y == t[i].size
             z == t[j].addr
  <2>4. /\ x \in Nat /\ y \in Nat /\ z \in Nat /\ W \in Nat /\ W >= 1 /\ r.addr \in Int
        /\ x + y + 2 * W <= r.addr /\ z <= x
    BY <1>1, <2>1, <2>2, <2>3
  <2> HIDE DEF x, y, z
  <2>5. z < r.addr
    BY <2>4
  <2> QED BY <2>5 DEF z
<1>4. Right(i)
  BY <1>1, <1>2, <1>3
<1>5. ASSUME NEW k \in 1 .. (Len(t) + 1), Right(k) PROVE k = i
  <2>1. ~(k < i)
    <3> SUFFICES ASSUME k < i PROVE FALSE
      OBVIOUS
    <3>1. k \in 1 .. (i - 1) /\ k \in k .. Len(t) /\ k \in 1 .. Len(t)
      BY <1>1
    <3>2. t[k].addr >= r.addr /\ t[k].addr < r.addr
      BY <1>2, <1>5, <3>1
    <3> QED BY <1>1, <3>1, <3>2
  <2>2. ~(k > i)
    <3> SUFFICES ASSUME k > i PROVE FALSE
      OBVIOUS
    <3>1. k - 1 \in i .. Len(t) /\ k - 1 \in 1 .. Len(t) /\ k > 1
      BY <1>1
    <3>2. t[k - 1].addr >= r.addr /\ t[k - 1].addr < r.addr
      BY <1>3, <1>5, <3>1
    <3> QED BY <1>1, <3>1, <3>2
  <2> QED BY <1>1, <2>1, <2>2
<1> HIDE DEF Right
<1>6. (CHOOSE k \in 1 .. (Len(t) + 1) : Right(k)) = i
  BY <1>1, <1>4, <1>5
<1> QED BY <1>6 DEF Inserted, InsertAt, Right

LEMMA RemovedKeeps ==
  ASSUME NEW t, Layout(t), NEW i \in 1 .. Len(t), NEW u, u = Removed(t, i)
  PROVE  /\ Layout(u) /\ Len(u) = Len(t) - 1 /\ Elems(u) = Elems(t) \ {t[i]}
         /\ i < Len(t) => Floor(u) = Floor(t)
         /\ i = Len(t) => Floor(t) + W <= Floor(u)
         /\ \A k \in 1 .. i : Above(u, k) = Above(t, k)
         /\ \A k \in 1 .. Len(u) : u[k] = IF k < i THEN t[k] ELSE t[k + 1]
<1>1. /\ t \in Seq(RecordType) /\ Len(t) \in Nat /\ DOMAIN t = 1 .. Len(t)
      /\ W \in Nat /\ W >= 1
      /\ \A j \in 1 .. Len(t) : t[j].addr \in Nat /\ t[j].size \in Nat
  BY LayoutFacts, Constants DEF Layout
<1>2. /\ u \in Seq(RecordType) /\ Len(u) = Len(t) - 1
      /\ \A j \in 1 .. (Len(t) - 1) : u[j] = IF j < i THEN t[j] ELSE t[j + 1]
  BY <1>1, RemovedElements
<1>3. DOMAIN u = 1 .. (Len(t) - 1)
  BY <1>1, <1>2, LenProperties
<1>4. /\ \A j \in 1 .. Len(u) : u[j].addr + u[j].size + W <= High
      /\ \A h, j \in 1 .. Len(u) : h < j => u[j].addr + u[j].size + 2 * W <= u[h].addr
  <2> DEFINE at(j) == IF j < i THEN j ELSE j + 1
  <2>1. \A j \in 1 .. Len(u) : at(j) \in 1 .. Len(t) /\ u[j] = t[at(j)]
    BY <1>1, <1>2
  <2>2. \A h, j \in 1 .. Len(u) : h < j => at(h) < at(j)
    BY <1>1, <1>2
  <2> HIDE DEF at
  <2>3. ASSUME NEW j \in 1 .. Len(u) PROVE u[j].addr + u[j].size + W <= High
    BY <2>1 DEF Layout
  <2>4. ASSUME NEW h \in 1 .. Len(u), NEW j \in 1 .. Len(u), h < j
        PROVE  u[j].addr + u[j].size + 2 * W <= u[h].addr
    BY <2>1, <2>2, <2>4 DEF Layout
  <2> QED BY <2>3, <2>4
<1>5. Layout(u)
  BY <1>2, <1>4 DEF Layout
<1>6. ASSUME NEW j \in 1 .. Len(t), NEW h \in 1 .. Len(t), j # h PROVE t[j] # t[h]
  <2>1. ASSUME NEW a \in 1 .. Len(t), NEW b \in 1 .. Len(t), a < b PROVE t[a] # t[b]
    <3>1. t[b].addr + t[b].size + 2 * W <= t[a].addr
      BY <2>1 DEF Layout
    <3> DEFINE x == t[b].addr
               y == t[b].size
               z == t[a].addr
    <3>2. x \in Nat /\ y \in Nat /\ z \in Nat /\ x + y + 2 * W <= z
      BY <1>1, <3>1
    <3> HIDE DEF x, y, z
    <3>3. x # z
      BY <1>1, <3>2
    <3> QED BY <3>3 DEF x, z
  <2> QED BY <1>1, <1>6, <2>1
<1>7. Elems(u) = Elems(t) \ {t[i]}
  <2>1. ASSUME NEW j \in 1 .. (Len(t) - 1) PROVE u[j] \in Elems(t) \ {t[i]}
    <3>1. CASE j < i
      <4>1. u[j] = t[j] /\ j \in 1 .. Len(t) /\ t[j] # t[i]
        BY <1>1, <1>2, <1>6, <3>1
      <4> QED BY <1>1, <4>1 DEF Elems
    <3>2. CASE j >= i
      <4>1. u[j] = t[j + 1] /\ j + 1 \in 1 .. Len(t) /\ j + 1 # i
        BY <1>1, <1>2, <3>2
      <4>2. t[j + 1] # t[i]
        BY <1>6, <4>1
      <4> QED BY <1>1, <4>1, <4>2 DEF Elems
    <3> QED BY <1>1, <3>1, <3>2
  <2>2. ASSUME NEW j \in 1 .. Len(t), j # i PROVE t[j] \in Elems(u)
    <3>1. CASE j < i
      <4>1. j \in 1 .. (Len(t) - 1) /\ u[j] = t[j]
        BY <1>1, <1>2, <3>1
      <4> QED BY <1>3, <4>1 DEF Elems
    <3>2. CASE j > i
      <4>1. j - 1 \in 1 .. (Len(t) - 1) /\ u[j - 1] = t[j]
        <5>1. j - 1 \in 1 .. (Len(t) - 1) /\ ~(j - 1 < i) /\ (j - 1) + 1 = j
          BY <1>1, <3>2
        <5> QED BY <1>2, <5>1
      <4> QED BY <1>3, <4>1 DEF Elems
    <3> QED BY <1>1, <2>2, <3>1, <3>2
  <2>3. \A x \in Elems(u) : \E j \in 1 .. (Len(t) - 1) : x = u[j]
    BY <1>3 DEF Elems
  <2>4. \A x \in Elems(t) : \E j \in 1 .. Len(t) : x = t[j]
    BY <1>1 DEF Elems
  <2> QED BY <2>1, <2>2, <2>3, <2>4
<1>8. ASSUME i < Len(t) PROVE Floor(u) = Floor(t)
  <2>1. u[Len(u)] = t[Len(t)] /\ Len(u) # 0 /\ Len(t) # 0
    BY <1>1, <1>2, <1>8
  <2>2. u # <<>> /\ t # <<>>
    BY <1>1, <2>1, EmptySeq
  <2> QED BY <2>1, <2>2 DEF Floor, Lowest
<1>9. ASSUME i = Len(t) PROVE Floor(t) + W <= Floor(u)
  <2>1. t # <<>> /\ Floor(t) = t[i].addr - W /\ i \in 1 .. (Len(t) + 1)
    BY <1>1, <1>9, EmptySeq DEF Floor, Lowest
  <2>2. t[i].addr + t[i].size + W <= Above(t, i) /\ Above(t, i) \in Int
    BY <1>1, <2>1, AboveFacts
  <2>3. Floor(u) = Above(t, i)
    <3>1. CASE u = <<>>
      <4>1. Len(u) = 0
        BY <3>1, EmptySeq
      <4>2. i = 1
        BY <1>1, <1>2, <1>9, <4>1
      <4> QED BY <3>1, <4>2 DEF Floor, Above
    <3>2. CASE u # <<>>
      <4>1. Len(u) # 0
        BY <1>2, <3>2, EmptySeq
      <4>2. i # 1 /\ Len(u) = i - 1 /\ u[Len(u)] = t[i - 1]
        BY <1>1, <1>2, <1>9, <4>1
      <4> QED BY <3>2, <4>2 DEF Floor, Lowest, Above
    <3> QED BY <3>1, <3>2
  <2> QED BY <1>1, <2>1, <2>2, <2>3
<1>10. ASSUME NEW k \in 1 .. i PROVE Above(u, k) = Above(t, k)
  <2>1. CASE k = 1
    BY <2>1 DEF Above
  <2>2. CASE k # 1
    <3>1. u[k - 1] = t[k - 1]
      BY <1>1, <1>2, <2>2
    <3> QED BY <2>2, <3>1 DEF Above
  <2> QED BY <2>1, <2>2
<1> QED BY <1>2, <1>5, <1>7, <1>8, <1>9, <1>10
Replaced(t, i, r) == [t EXCEPT ![i] = r]

LEMMA ReplacedKeeps ==
  ASSUME NEW t, Layout(t), NEW i \in 1 .. Len(t), NEW r \in RecordType,
         t[i].addr <= r.addr, r.addr + r.size + W <= Above(t, i),
         NEW u, u = Replaced(t, i, r)
  PROVE  /\ Layout(u) /\ Len(u) = Len(t) /\ u[i] = r
         /\ Floor(u) = IF i = Len(t) THEN r.addr - W ELSE Floor(t)
         /\ Elems(u) = (Elems(t) \ {t[i]}) \union {r}
         /\ \A c \in Elems(t) \ {t[i]} : \E j \in 1 .. Len(u) : j # i /\ c = u[j]
<1>1. /\ t \in Seq(RecordType) /\ Len(t) \in Nat /\ DOMAIN t = 1 .. Len(t)
      /\ W \in Nat /\ W >= 1
      /\ \A j \in 1 .. Len(t) : t[j].addr \in Nat /\ t[j].size \in Nat
      /\ r.addr \in Nat /\ r.size \in Nat
  <2>1. r.addr \in Nat /\ r.size \in Nat
    BY Constants DEF RecordType
  <2> QED BY <2>1, LayoutFacts, Constants DEF Layout
<1>2. /\ u \in Seq(RecordType) /\ Len(u) = Len(t)
      /\ \A j \in 1 .. Len(t) : u[j] = IF j = i THEN r ELSE t[j]
  BY <1>1, ExceptSeq DEF Replaced
<1>3. DOMAIN u = 1 .. Len(t)
  BY <1>1, <1>2, LenProperties
<1>4. ASSUME NEW j \in 1 .. Len(u) PROVE u[j].addr + u[j].size + W <= Above(u, j)
  <2>1. j \in 1 .. Len(t) /\ t[j].addr + t[j].size + W <= Above(t, j) /\ Above(t, j) \in Int
    <3>1. j \in 1 .. (Len(t) + 1) /\ j <= Len(t)
      BY <1>1, <1>2
    <3> QED BY <1>2, <3>1, AboveFacts
  <2>2. Above(t, j) <= Above(u, j) /\ Above(u, j) \in Int
    <3>1. CASE j = 1
      BY <3>1, Constants DEF Above
    <3>2. CASE j # 1
      <4>1. j - 1 \in 1 .. Len(t)
        BY <1>1, <1>2, <3>2
      <4>2. /\ u[j - 1] = IF j - 1 = i THEN r ELSE t[j - 1]
            /\ t[j - 1].addr \in Nat
        BY <1>1, <1>2, <4>1
      <4>3. u[j - 1].addr \in Nat /\ t[j - 1].addr <= u[j - 1].addr
        BY <1>1, <4>2
      <4>4. Above(t, j) = t[j - 1].addr - W /\ Above(u, j) = u[j - 1].addr - W
        BY <3>2 DEF Above
      <4> QED BY <1>1, <4>2, <4>3, <4>4, SMTT(30)
    <3> QED BY <3>1, <3>2
  <2>3. CASE j = i
    BY <1>1, <1>2, <2>1, <2>2, <2>3
  <2>4. CASE j # i
    <3>1. u[j] = t[j] /\ t[j].addr \in Nat /\ t[j].size \in Nat
      BY <1>1, <1>2, <2>1, <2>4
    <3> QED BY <1>1, <2>1, <2>2, <3>1
  <2> QED BY <2>3, <2>4
<1>5. Layout(u)
  BY <1>2, <1>4, LayoutByNeighbours
<1>6. t # <<>> /\ u # <<>>
  BY <1>1, <1>2, EmptySeq
<1>7. Floor(u) = IF i = Len(t) THEN r.addr - W ELSE Floor(t)
  <2>1. u[Len(t)] = IF Len(t) = i THEN r ELSE t[Len(t)]
    <3>1. ASSUME NEW j \in 1 .. Len(t) PROVE u[j] = IF j = i THEN r ELSE t[j]
      BY <1>2
    <3>2. Len(t) \in 1 .. Len(t)
      BY <1>1
    <3> QED BY <3>1, <3>2
  <2>2. Floor(u) = u[Len(t)].addr - W /\ Floor(t) = t[Len(t)].addr - W
    BY <1>2, <1>6 DEF Floor, Lowest
  <2> QED BY <2>1, <2>2
<1>8. ASSUME NEW j \in 1 .. Len(t), j # i PROVE t[j] # t[i]
  <2>1. ASSUME NEW a \in 1 .. Len(t), NEW b \in 1 .. Len(t), a < b PROVE t[a] # t[b]
    <3>1. t[b].addr + t[b].size + 2 * W <= t[a].addr
      BY <2>1 DEF Layout
    <3> DEFINE x == t[b].addr
               y == t[b].size
               z == t[a].addr
    <3>2. x \in Nat /\ y \in Nat /\ z \in Nat /\ x + y + 2 * W <= z
      BY <1>1, <3>1
    <3> HIDE DEF x, y, z
    <3>3. x # z
      BY <1>1, <3>2
    <3> QED BY <3>3 DEF x, z
  <2> QED BY <1>1, <1>8, <2>1
<1>9. Elems(u) = (Elems(t) \ {t[i]}) \union {r}
  BY <1>1, <1>2, <1>3, <1>8 DEF Elems
<1>10. \A c \in Elems(t) \ {t[i]} : \E j \in 1 .. Len(u) : j # i /\ c = u[j]
  BY <1>1, <1>2 DEF Elems
<1> QED BY <1>2, <1>5, <1>7, <1>9, <1>10
-------------------------------------------------------------------------------
(***************************************************************************)
(* Holes                                                                    *)
(***************************************************************************)
LEMMA AlignedFacts ==
  ASSUME NEW n \in Nat, n >= 1
  PROVE  AlignedSize(n) \in Nat /\ n <= AlignedSize(n) /\ AlignedSize(n) <= n + W - 1
<1> DEFINE q == (n - 1) \div W
<1>1. /\ W \in Nat /\ W >= 1 /\ n - 1 \in Int
  BY Constants
<1>2. q \in Int /\ W * q <= n - 1 /\ n - 1 < W * q + W
  BY <1>1, DivMod
<1> HIDE DEF q
<1>3. (q + 1) * W = W * q + W /\ W * q \in Int
  BY <1>1, <1>2
<1>4. AlignedSize(n) = (q + 1) * W
  BY DEF AlignedSize, q
<1> QED BY <1>1, <1>2, <1>3, <1>4

LEMMA RoomFacts ==
  ASSUME NEW t, Layout(t), NEW n \in Nat, n >= 1, NEW i \in 1 .. (Len(t) + 1)
  PROVE  /\ Place(t, i, n) = Above(t, i) - AlignedSize(n) - W
         /\ i <= Len(t) => Hole(t, i) = Above(t, i) - t[i].addr - t[i].size - W
         /\ Need(i, n) \in Nat
         /\ AlignedSize(n) + 2 * W <= Need(i, n) /\ Need(i, n) <= AlignedSize(n) + 3 * W
<1>1. /\ AlignedSize(n) \in Nat /\ W \in Nat /\ High \in Nat /\ Above(t, i) \in Int
      /\ Len(t) \in Nat
      /\ \A j \in 1 .. Len(t) : t[j].addr \in Nat /\ t[j].size \in Nat
  BY AlignedFacts, AboveFacts, LayoutFacts, Constants
<1> DEFINE s == AlignedSize(n)
<1> HIDE DEF s
<1>2. CASE i = 1
  <2>1. Need(i, n) = s + 2 * W /\ Above(t, i) = High /\ s \in Nat
    BY <1>1, <1>2 DEF Need, Above, s
  <2>2. Place(t, i, n) = High - Need(i, n) + W
    BY <1>2 DEF Place
  <2>3. Hole(t, i) = High - t[i].addr - t[i].size - W
    BY <1>2 DEF Hole
  <2> QED BY <1>1, <2>1, <2>2, <2>3 DEF s
<1>3. CASE i # 1
  <2>1. /\ Need(i, n) = s + 3 * W /\ Above(t, i) = t[i - 1].addr - W /\ s \in Nat
        /\ t[i - 1].addr \in Nat
    <3>1. i - 1 \in 1 .. Len(t)
      BY <1>1, <1>3
    <3> QED BY <1>1, <1>3, <3>1 DEF Need, Above, s
  <2>2. Place(t, i, n) = t[i - 1].addr - Need(i, n) + W
    BY <1>3 DEF Place
  <2>3. Hole(t, i) = t[i - 1].addr - t[i].addr - t[i].size - 2 * W
    BY <1>3 DEF Hole
  <2> DEFINE x == t[i - 1].addr
             y == t[i].addr
             z == t[i].size
  <2>4. /\ x \in Nat /\ Need(i, n) = s + 3 * W /\ Above(t, i) = x - W
        /\ Place(t, i, n) = x - Need(i, n) + W
        /\ Hole(t, i) = x - y - z - 2 * W /\ (i <= Len(t) => y \in Nat /\ z \in Nat)
    <3>1. i <= Len(t) => i \in 1 .. Len(t)
      BY <1>1
    <3> QED BY <1>1, <2>1, <2>2, <2>3, <3>1
  <2> DEFINE e == Need(i, n)
             b == Above(t, i)
             p == Place(t, i, n)
             h == Hole(t, i)
  <2>5. /\ x \in Nat /\ e = s + 3 * W /\ b = x - W /\ p = x - e + W /\ s \in Nat /\ W \in Nat
        /\ h = x - y - z - 2 * W
    BY <1>1, <2>1, <2>4
  <2>6. i <= Len(t) => y \in Nat /\ z \in Nat
    BY <2>4
  <2> HIDE DEF x, y, z, e, b, p, h
  <2>7. p = b - s - W /\ e \in Nat /\ s + 2 * W <= e /\ e <= s + 3 * W
    BY <2>5
  <2>8. y \in Nat /\ z \in Nat => h = b - y - z - W
    BY <2>5
  <2> QED BY <2>6, <2>7, <2>8 DEF s, y, z, e, b, p, h
<1> QED BY <1>2, <1>3

\* A hole that is offered has room for the block.
LEMMA HoleFits ==
  ASSUME NEW t, Layout(t), NEW n \in Sizes, NEW i \in 1 .. Len(t), Hole(t, i) >= Need(i, n)
  PROVE  Fits(t, i, Record(Place(t, i, n), n))
<1> DEFINE s == AlignedSize(n)
           x == t[i].addr
           y == t[i].size
           a == Place(t, i, n)
           b == Above(t, i)
<1>1. n \in Nat /\ n >= 1 /\ W \in Nat /\ W >= 1 /\ High \in Nat /\ Len(t) \in Nat
  BY Constants, LayoutFacts
<1>2. i \in 1 .. (Len(t) + 1) /\ i <= Len(t)
  BY <1>1
<1>3. s \in Nat /\ n <= s /\ x \in Nat /\ y \in Nat /\ b \in Int /\ b <= High
  BY <1>1, <1>2, AlignedFacts, LayoutFacts, AboveFacts
<1>4. /\ a = b - s - W /\ Hole(t, i) = b - x - y - W
      /\ Need(i, n) \in Nat /\ s + 2 * W <= Need(i, n)
  BY <1>1, <1>2, RoomFacts
<1> HIDE DEF s, x, y, a, b
<1>5. a + n + W <= b /\ x + y + 2 * W <= a /\ a \in 0 .. High
  BY <1>1, <1>3, <1>4
<1>6. Record(a, n) \in RecordType /\ Record(a, n).addr = a /\ Record(a, n).size = n
  BY <1>5 DEF Record, RecordType
<1> QED BY <1>2, <1>5, <1>6 DEF Fits, Slot, a, b, x, y

LEMMA Least ==
  ASSUME NEW t, Layout(t), NEW n \in Nat, n >= 1,
         NEW fits \in SUBSET (1 .. Len(t)), fits # {},
         \A i \in fits : Hole(t, i) >= Need(i, n)
  PROVE  BestHole(t, fits, n) \in fits
<1> DEFINE exact == {i \in fits : Hole(t, i) = Need(i, n)}
           least == {i \in fits : \A j \in fits : Hole(t, i) <= Hole(t, j)}
           best  == IF exact # {} THEN exact ELSE least
<1>1. Len(t) \in Nat /\ fits \in SUBSET Nat
  BY LayoutFacts
<1>2. \A i \in fits : Hole(t, i) \in Nat
  <2> SUFFICES ASSUME NEW i \in fits PROVE Hole(t, i) \in Nat
    OBVIOUS
  <2>1. i \in 1 .. Len(t) /\ i \in 1 .. (Len(t) + 1) /\ i <= Len(t)
    BY <1>1
  <2>2. /\ Need(i, n) \in Nat
        /\ Hole(t, i) = Above(t, i) - t[i].addr - t[i].size - W
    BY <2>1, RoomFacts
  <2>3. /\ Above(t, i) \in Int /\ t[i].addr \in Nat /\ t[i].size \in Nat /\ W \in Nat
    BY <2>1, AboveFacts, LayoutFacts, Constants
  <2>4. Hole(t, i) \in Int /\ Hole(t, i) >= Need(i, n)
    BY <2>2, <2>3
  <2> QED BY <2>2, <2>4
<1>3. least # {}
  <2> DEFINE T == {Hole(t, i) : i \in fits}
  <2>1. PICK i \in fits : TRUE
    OBVIOUS
  <2>2. T \in SUBSET Nat /\ Hole(t, i) \in T
    BY <1>2, <2>1
  <2> HIDE DEF T
  <2>3. \E x \in T : \A y \in T : x <= y
    BY <2>2, LeastNatural
  <2> QED BY <2>3 DEF T
<1>4. best \in SUBSET fits /\ best # {}
  BY <1>3
<1> HIDE DEF best
<1>5. \E i \in best : \A j \in best : i <= j
  <2>1. PICK i \in best : TRUE
    BY <1>4
  <2>2. best \in SUBSET Nat
    BY <1>1, <1>4
  <2> QED BY <2>1, <2>2, LeastNatural
<1>6. (CHOOSE i \in best : \A j \in best : i <= j) \in best
  BY <1>5
<1> QED BY <1>4, <1>6 DEF BestHole, best
-------------------------------------------------------------------------------
(***************************************************************************)
(* The binary search                                                        *)
(***************************************************************************)
Bounds(t) == (0 .. Len(t)) \X (0 .. Len(t))
Middle(b) == b[1] + (b[2] - b[1]) \div 2

\* what the search between two bounds comes to, f being what it comes to within them
Halved(t, a, f, b) ==
    IF b[1] >= b[2] THEN 0
    ELSE IF a = t[Middle(b) + 1].addr THEN Middle(b) + 1
    ELSE IF a < t[Middle(b) + 1].addr THEN f[<<Middle(b) + 1, b[2]>>]
    ELSE f[<<b[1], Middle(b)>>]

\* the block at a between two bounds
Between(t, a, lb, ub) ==
    IF \E i \in (lb + 1) .. ub : t[i].addr = a
    THEN CHOOSE i \in (lb + 1) .. ub : t[i].addr = a ELSE 0

LEMMA SearchIs ==
  ASSUME NEW t, NEW a
  PROVE  IndexOf(t, a) = (CHOOSE f : f = [b \in Bounds(t) |-> Halved(t, a, f, b)])[<<0, Len(t)>>]
BY DEF IndexOf, Bounds, Halved, Middle

LEMMA Descending ==
  ASSUME NEW t, Layout(t), NEW i \in 1 .. Len(t), NEW j \in 1 .. Len(t), i < j
  PROVE  t[i].addr \in Nat /\ t[j].addr \in Nat /\ t[j].addr < t[i].addr
<1> DEFINE x == t[j].addr
           y == t[j].size
           z == t[i].addr
<1>1. t[j].addr + t[j].size + 2 * W <= t[i].addr
  BY DEF Layout
<1>2. x \in Nat /\ y \in Nat /\ z \in Nat /\ x + y + 2 * W <= z /\ W \in Nat /\ W >= 1
  BY <1>1, LayoutFacts, Constants
<1> HIDE DEF x, y, z
<1>3. x < z
  BY <1>2
<1> QED BY <1>2, <1>3 DEF x, z

LEMMA BetweenIs ==
  ASSUME NEW t, Layout(t), NEW a, NEW lb \in 0 .. Len(t), NEW ub \in 0 .. Len(t)
  PROVE  /\ \A i \in (lb + 1) .. ub : t[i].addr = a => Between(t, a, lb, ub) = i
         /\ (\A i \in (lb + 1) .. ub : t[i].addr # a) => Between(t, a, lb, ub) = 0
<1>1. Len(t) \in Nat
  BY LayoutFacts
<1>2. ASSUME NEW i \in (lb + 1) .. ub, t[i].addr = a PROVE Between(t, a, lb, ub) = i
  <2>1. i \in 1 .. Len(t)
    BY <1>1
  <2>2. ASSUME NEW j \in (lb + 1) .. ub, t[j].addr = a PROVE j = i
    <3>1. j \in 1 .. Len(t)
      BY <1>1
    <3>2. ~(i < j)
      <4> SUFFICES ASSUME i < j PROVE FALSE
        OBVIOUS
      <4>1. t[i].addr \in Nat /\ t[j].addr < t[i].addr
        BY <2>1, <3>1, Descending
      <4> QED BY <1>2, <2>2, <4>1
    <3>3. ~(j < i)
      <4> SUFFICES ASSUME j < i PROVE FALSE
        OBVIOUS
      <4>1. t[i].addr \in Nat /\ t[i].addr < t[j].addr
        BY <2>1, <3>1, Descending
      <4> QED BY <1>2, <2>2, <4>1
    <3> QED BY <1>1, <3>2, <3>3
  <2>3. (CHOOSE j \in (lb + 1) .. ub : t[j].addr = a) = i
    BY <1>2, <2>2
  <2> QED BY <1>2, <2>3 DEF Between
<1> QED BY <1>2 DEF Between

LEMMA HalvedIsBetween ==
  ASSUME NEW t, Layout(t), NEW a \in Int, NEW lb \in 0 .. Len(t), NEW ub \in 0 .. Len(t),
         NEW f, NEW mid, mid = Middle(<<lb, ub>>),
         lb < ub => /\ f[<<mid + 1, ub>>] = Between(t, a, mid + 1, ub)
                    /\ f[<<lb, mid>>] = Between(t, a, lb, mid)
  PROVE  Halved(t, a, f, <<lb, ub>>) = Between(t, a, lb, ub)
<1>1. Len(t) \in Nat
  BY LayoutFacts
<1>2. CASE lb >= ub
  <2>1. Halved(t, a, f, <<lb, ub>>) = 0
    BY <1>2 DEF Halved
  <2>2. (lb + 1) .. ub = {}
    BY <1>1, <1>2
  <2> QED BY <2>1, <2>2 DEF Between
<1>3. CASE lb < ub
  <2>1. mid = lb + (ub - lb) \div 2
    BY DEF Middle
  <2>2. mid \in Int /\ lb <= mid /\ mid < ub
    BY <1>1, <1>3, <2>1
  <2>3. mid + 1 \in 1 .. Len(t) /\ mid \in 0 .. Len(t) /\ mid + 1 \in (lb + 1) .. ub
        /\ mid + 1 \in 0 .. Len(t)
    BY <1>1, <2>2
  <2> DEFINE m == t[mid + 1].addr
  <2>4. m \in Nat
    BY <2>3, LayoutFacts
  <2>5. Halved(t, a, f, <<lb, ub>>) =
          IF a = m THEN mid + 1 ELSE IF a < m THEN Between(t, a, mid + 1, ub)
          ELSE Between(t, a, lb, mid)
    BY <1>1, <1>3 DEF Halved
  <2>6. ASSUME NEW i \in (lb + 1) .. ub, t[i].addr = a
        PROVE  Halved(t, a, f, <<lb, ub>>) = i
    <3>1. i \in 1 .. Len(t)
      BY <1>1
    <3>2. CASE i = mid + 1
      BY <2>5, <2>6, <3>2
    <3>3. CASE i < mid + 1
      <4>1. m < a
        BY <2>3, <2>6, <3>1, <3>3, Descending
      <4>2. i \in (lb + 1) .. mid
        BY <1>1, <2>2, <3>3
      <4>3. Between(t, a, lb, mid) = i
        BY <2>3, <2>6, <4>2, BetweenIs
      <4>4. a # m /\ ~(a < m)
        BY <2>4, <4>1
      <4> QED BY <2>5, <4>3, <4>4
    <3>4. CASE i > mid + 1
      <4>1. a < m
        BY <2>3, <2>6, <3>1, <3>4, Descending
      <4>2. i \in ((mid + 1) + 1) .. ub
        BY <1>1, <2>2, <3>4
      <4>3. Between(t, a, mid + 1, ub) = i
        BY <2>3, <2>6, <4>2, BetweenIs
      <4>4. a # m
        BY <2>4, <4>1
      <4> QED BY <2>5, <4>1, <4>3, <4>4
    <3> QED BY <1>1, <2>2, <3>1, <3>2, <3>3, <3>4
  <2>7. ASSUME \A i \in (lb + 1) .. ub : t[i].addr # a
        PROVE  Halved(t, a, f, <<lb, ub>>) = 0
    <3>1. a # m
      BY <2>3, <2>7
    <3>2. \A i \in ((mid + 1) + 1) .. ub : i \in (lb + 1) .. ub
      BY <1>1, <2>2
    <3>3. \A i \in (lb + 1) .. mid : i \in (lb + 1) .. ub
      BY <1>1, <2>2
    <3>4. Between(t, a, mid + 1, ub) = 0 /\ Between(t, a, lb, mid) = 0
      BY <2>3, <2>7, <3>2, <3>3, BetweenIs
    <3> QED BY <2>5, <3>1, <3>4
  <2>8. CASE \E i \in (lb + 1) .. ub : t[i].addr = a
    BY <2>6, <2>8, BetweenIs
  <2>9. CASE \A i \in (lb + 1) .. ub : t[i].addr # a
    BY <2>7, <2>9, BetweenIs
  <2> QED BY <2>8, <2>9
<1> QED BY <1>1, <1>2, <1>3

\* The search halves the bounds until it is done.
LEMMA SearchFinds ==
  ASSUME NEW t, Layout(t), NEW a \in Int
  PROVE  IndexOf(t, a) = Between(t, a, 0, Len(t))
<1> DEFINE n == Len(t)
           g == [b \in Bounds(t) |-> Between(t, a, b[1], b[2])]
           f == CHOOSE h : h = [b \in Bounds(t) |-> Halved(t, a, h, b)]
<1>1. n \in Nat
  BY LayoutFacts
<1>2. ASSUME NEW lb \in 0 .. n, NEW ub \in 0 .. n, lb < ub
      PROVE  /\ Middle(<<lb, ub>>) \in 0 .. n /\ Middle(<<lb, ub>>) + 1 \in 0 .. n
             /\ ub - (Middle(<<lb, ub>>) + 1) < ub - lb /\ Middle(<<lb, ub>>) - lb < ub - lb
  BY <1>1, <1>2 DEF Middle
<1>3. g = [b \in Bounds(t) |-> Halved(t, a, g, b)]
  <2>1. ASSUME NEW lb \in 0 .. n, NEW ub \in 0 .. n
        PROVE  g[<<lb, ub>>] = Halved(t, a, g, <<lb, ub>>)
    <3> DEFINE mid == Middle(<<lb, ub>>)
    <3>1. lb < ub => mid \in 0 .. n /\ mid + 1 \in 0 .. n
      BY <1>2
    <3>2. \A x, y \in 0 .. n : g[<<x, y>>] = Between(t, a, x, y)
      BY DEF Bounds
    <3> HIDE DEF g, mid
    <3>3. lb < ub => /\ g[<<mid + 1, ub>>] = Between(t, a, mid + 1, ub)
                     /\ g[<<lb, mid>>] = Between(t, a, lb, mid)
      BY <3>1, <3>2
    <3>4. Halved(t, a, g, <<lb, ub>>) = Between(t, a, lb, ub)
      BY <3>3, HalvedIsBetween DEF mid
    <3> QED BY <3>2, <3>4
  <2>2. ASSUME NEW b \in Bounds(t) PROVE g[b] = Halved(t, a, g, b)
    <3>1. PICK lb \in 0 .. n, ub \in 0 .. n : b = <<lb, ub>>
      BY DEF Bounds
    <3> HIDE DEF g
    <3> QED BY <2>1, <3>1
  <2>3. g = [b \in Bounds(t) |-> g[b]]
    OBVIOUS
  <2> HIDE DEF g
  <2> QED BY <2>2, <2>3
<1>4. f = [b \in Bounds(t) |-> Halved(t, a, f, b)]
  <2> HIDE DEF g
  <2> QED BY <1>3
<1>5. IndexOf(t, a) = f[<<0, n>>]
  BY SearchIs
<1> HIDE DEF f, g
<1>6. ASSUME NEW lb \in 0 .. n, NEW ub \in 0 .. n
      PROVE  f[<<lb, ub>>] = Halved(t, a, f, <<lb, ub>>)
  <2>1. <<lb, ub>> \in Bounds(t)
    BY DEF Bounds
  <2> QED BY <1>4, <2>1
<1> DEFINE S == {d \in 0 .. n : \A lb, ub \in 0 .. n :
                    ub - lb <= d => f[<<lb, ub>>] = Between(t, a, lb, ub)}
<1>7. 0 \in S
  <2>1. ASSUME NEW lb \in 0 .. n, NEW ub \in 0 .. n, ub - lb <= 0
        PROVE  f[<<lb, ub>>] = Between(t, a, lb, ub)
    <3>1. ~(lb < ub)
      BY <1>1, <2>1
    <3> DEFINE mid == Middle(<<lb, ub>>)
    <3>2. mid = Middle(<<lb, ub>>)
      OBVIOUS
    <3> HIDE DEF mid, n
    <3>3. Halved(t, a, f, <<lb, ub>>) = Between(t, a, lb, ub)
      BY <3>1, <3>2, HalvedIsBetween DEF n
    <3> QED BY <1>6, <3>3
  <2> QED BY <1>1, <2>1
<1>8. ASSUME NEW d \in 1 .. n, d - 1 \in S PROVE d \in S
  <2>1. ASSUME NEW lb \in 0 .. n, NEW ub \in 0 .. n, ub - lb <= d
        PROVE  f[<<lb, ub>>] = Between(t, a, lb, ub)
    <3> DEFINE mid == Middle(<<lb, ub>>)
    <3>1. lb < ub => /\ mid \in 0 .. n /\ mid + 1 \in 0 .. n
                     /\ ub - (mid + 1) < ub - lb /\ mid - lb < ub - lb
      BY <1>2
    <3>2. mid = Middle(<<lb, ub>>)
      OBVIOUS
    <3> HIDE DEF mid
    <3>3. \A x, y \in 0 .. n : y - x <= d - 1 => f[<<x, y>>] = Between(t, a, x, y)
      BY <1>8
    <3>4. lb < ub => ub - (mid + 1) <= d - 1 /\ mid - lb <= d - 1
      BY <1>1, <2>1, <3>1
    <3>5. lb < ub => /\ f[<<mid + 1, ub>>] = Between(t, a, mid + 1, ub)
                     /\ f[<<lb, mid>>] = Between(t, a, lb, mid)
      BY <3>1, <3>3, <3>4
    <3>6. Halved(t, a, f, <<lb, ub>>) = Between(t, a, lb, ub)
      BY <3>2, <3>5, HalvedIsBetween
    <3> QED BY <1>6, <3>6
  <2> QED BY <1>1, <2>1
<1> HIDE DEF S, n
<1>9. 0 .. n \subseteq S
  BY <1>1, <1>7, <1>8, TurnByTurn
<1>10. n \in S
  BY <1>1, <1>9
<1>11. f[<<0, n>>] = Between(t, a, 0, n)
  BY <1>1, <1>10 DEF S
<1> QED BY <1>5, <1>11 DEF n

\* It finds the live blocks, and no others.
LEMMA Found ==
  ASSUME NEW t, Layout(t), NEW a \in Int
  PROVE  /\ IndexOf(t, a) \in 0 .. Len(t)
         /\ IndexOf(t, a) # 0 => t[IndexOf(t, a)].addr = a
         /\ \A i \in 1 .. Len(t) : t[i].addr = a => IndexOf(t, a) = i
<1>1. Len(t) \in Nat /\ IndexOf(t, a) = Between(t, a, 0, Len(t))
  BY LayoutFacts, SearchFinds
<1>2. 0 \in 0 .. Len(t) /\ Len(t) \in 0 .. Len(t) /\ (0 + 1) .. Len(t) = 1 .. Len(t)
  BY <1>1
<1>3. /\ \A i \in (0 + 1) .. Len(t) : t[i].addr = a => Between(t, a, 0, Len(t)) = i
      /\ (\A i \in (0 + 1) .. Len(t) : t[i].addr # a) => Between(t, a, 0, Len(t)) = 0
  BY <1>2, BetweenIs
<1>4. CASE \E i \in 1 .. Len(t) : t[i].addr = a
  <2>1. PICK i \in 1 .. Len(t) : t[i].addr = a
    BY <1>4
  <2>2. IndexOf(t, a) = i /\ i \in 0 .. Len(t)
    BY <1>1, <1>2, <1>3, <2>1
  <2> QED BY <1>1, <1>2, <1>3, <2>1, <2>2
<1>5. CASE \A i \in 1 .. Len(t) : t[i].addr # a
  BY <1>1, <1>2, <1>3, <1>5
<1> QED BY <1>4, <1>5
-------------------------------------------------------------------------------
(***************************************************************************)
(* Audits                                                                   *)
(***************************************************************************)

\* The pages from a to the end of n bytes are committed; then so is each one's.
LEMMA MappedByte ==
  ASSUME NEW s, NEW a \in Int, NEW n \in Int, Mapped(s, a, n),
         NEW b \in Int, a <= b, b <= a + n - 1
  PROVE  PageOf(b) \in s.committed
<1>1. PageOf(a) <= PageOf(b) /\ PageOf(b) <= PageOf(a + n - 1)
  BY PageOrder
<1>2. PageOf(a) \in Int /\ PageOf(b) \in Int /\ PageOf(a + n - 1) \in Int
  BY Pagewise
<1>3. PageOf(b) \in PageOf(a) .. PageOf(a + n - 1)
  BY <1>1, <1>2
<1> QED BY <1>3 DEF Mapped, PageOf

\* A page is missing below the pages above the lowest one.
LEMMA MissingPage ==
  ASSUME NEW s, NEW f \in Int, Stacked(s, f), f < s.low,
         NEW b \in Int, b < s.low, s.low - Page <= b
  PROVE  PageOf(b) \notin s.committed
<1>1. s.low \in Int /\ OnPage(s.low) /\ (PageOf(s.low) - 1) \notin s.committed
  BY StackedFacts DEF Stacked
<1>2. PageOf(b) = PageOf(s.low) - 1
  BY <1>1, PageOrder
<1> QED BY <1>1, <1>2

\* The lowest block's size word can be written: the pages start no later.
LEMMA AuditedFloor ==
  ASSUME NEW t, Layout(t), NEW s, Stacked(s, Floor(t)), Audit(s, t) = "running"
  PROVE  s.low <= Floor(t)
<1> DEFINE f == Floor(t)
<1>1. f \in Int /\ W \in Nat /\ W >= 1 /\ Page \in Nat /\ Page >= 2 * W
  BY FloorFacts, Constants
<1>2. s.low \in Nat /\ s.low <= f + W /\ s.low <= High
  BY <1>1, StackedFacts DEF Stacked
<1>3. CASE t = <<>>
  BY <1>2, <1>3, FloorFacts
<1>4. CASE t # <<>>
  <2> SUFFICES ASSUME f < s.low PROVE FALSE
    BY <1>1, <1>2
  <2>1. Len(t) \in DOMAIN t /\ t[Len(t)].addr = f + W
    BY <1>4, FloorFacts, LayoutFacts
  <2>2. CanInit(s, t[Len(t)].addr, t[Len(t)].size)
    BY <2>1 DEF Audit
  <2>3. t[Len(t)].addr - W = f
    BY <1>1, <2>1
  <2>a. Mapped(s, t[Len(t)].addr - W, W)
    BY <2>2 DEF CanInit
  <2>4. Mapped(s, f, W)
    BY <2>3, <2>a
  <2> DEFINE b == s.low - 1
  <2>5. b \in Int /\ f <= b /\ b <= f + W - 1 /\ b < s.low /\ s.low - Page <= b
    BY <1>1, <1>2
  <2> HIDE DEF b, f
  <2>6. W \in Int /\ f \in Int
    BY <1>1
  <2>7. PageOf(b) \in s.committed
    BY <2>4, <2>5, <2>6, MappedByte
  <2>8. PageOf(b) \notin s.committed
    BY <1>1, <2>5, MissingPage DEF f
  <2> QED BY <2>7, <2>8
<1> QED BY <1>3, <1>4

LEMMA NoOverlaps ==
  ASSUME NEW t, Layout(t), NEW s
  PROVE  Audit(s, t) \in {"running", "faulted"}
<1>1. ASSUME NEW i \in 2 .. Len(t) PROVE ~(t[i].addr + t[i].size + W > t[i - 1].addr - W)
  <2>1. i \in 1 .. Len(t) /\ i - 1 \in 1 .. Len(t) /\ i - 1 < i
    BY LayoutFacts
  <2>2. t[i].addr + t[i].size + 2 * W <= t[i - 1].addr
    BY <2>1 DEF Layout
  <2> DEFINE x == t[i].addr
             y == t[i].size
             z == t[i - 1].addr
  <2>3. x \in Nat /\ y \in Nat /\ z \in Nat /\ W \in Nat /\ x + y + 2 * W <= z
    BY <2>1, <2>2, LayoutFacts, Constants
  <2> HIDE DEF x, y, z
  <2>4. ~(x + y + W > z - W)
    BY <2>3
  <2> QED BY <2>4 DEF x, y, z
<1> QED BY <1>1 DEF Audit, Overlaps
-------------------------------------------------------------------------------
(***************************************************************************)
(* Blocks at the bottom                                                     *)
(***************************************************************************)
LEMMA MoveTo ==
  ASSUME NEW t, Layout(t), NEW u, Layout(u), NEW s, NEW m, Spaced(s, m, Floor(t)),
         s.top <= Floor(u), s.low <= Floor(u) \/ Floor(u) = Floor(t) \/ Floor(t) + W <= Floor(u)
  PROVE  Spaced(s, m, Floor(u))
<1>1. Floor(t) \in Int /\ Floor(u) \in Int /\ Stacked(s, Floor(t)) /\ W \in Nat
  BY FloorFacts, Constants DEF Spaced
<1>2. s.low \in Nat /\ s.low <= Floor(t) + W
  BY <1>1, StackedFacts DEF Stacked
<1>3. s.low <= Floor(u) \/ Floor(u) = Floor(t)
  BY <1>1, <1>2
<1>4. Stacked(s, Floor(u)) /\ (Exact(s, Floor(t)) => Exact(s, Floor(u)))
  BY <1>1, <1>3, MoveFloor
<1> QED BY <1>4 DEF Spaced

LEMMA SpareIs ==
  ASSUME NEW t, Layout(t), NEW s, s.low \in Int
  PROVE  Spare(s, t) = Floor(t) - s.low
<1>1. CASE t = <<>>
  BY <1>1 DEF Spare, Floor
<1>2. CASE t # <<>>
  <2>1. Lowest(t) \in Int /\ Floor(t) = Lowest(t) - W /\ W \in Int
    BY <1>2, FloorFacts, Constants DEF Floor
  <2> QED BY <1>2, <2>1 DEF Spare
<1> QED BY <1>1, <1>2

\* Enough pages for what is needed, if any are.
LEMMA LackingFacts ==
  ASSUME NEW t, Layout(t), NEW s, s.low \in Int, NEW n \in Nat, n >= 1
  PROVE  /\ Lacking(s, t, n) \in Nat
         /\ Lacking(s, t, n) > 0 => s.low <= Floor(t)
         /\ s.low <= Floor(t) =>
              s.low - Lacking(s, t, n) * Page <= Floor(t) - Need(Len(t) + 1, n)
<1> DEFINE e == Need(Len(t) + 1, n)
           f == Floor(t)
           lack == e - (f - s.low)
           q == (lack - 1) \div Page
           k == Lacking(s, t, n)
<1>1. e \in Nat /\ f \in Int /\ Page \in Nat /\ Page >= 1
  <2>1. Len(t) + 1 \in 1 .. (Len(t) + 1)
    BY LayoutFacts
  <2> QED BY <2>1, RoomFacts, FloorFacts, Constants
<1>2. Spare(s, t) = f - s.low
  BY SpareIs
<1> HIDE DEF e, f
<1>3. lack \in Int /\ k = IF lack <= 0 \/ f - s.low < 0 THEN 0 ELSE q + 1
  BY <1>1, <1>2 DEF Lacking, e
<1>4. lack - 1 \in Int /\ q \in Int /\ Page * q <= lack - 1 /\ lack - 1 < Page * q + Page
  <2> HIDE DEF lack
  <2>1. lack - 1 \in Int
    BY <1>3
  <2> DEFINE d == lack - 1
  <2>2. d \in Int /\ q = d \div Page
    BY <2>1
  <2> HIDE DEF d, q
  <2>3. /\ q \in Int /\ d % Page \in Int /\ d = Page * q + (d % Page)
        /\ 0 <= d % Page /\ d % Page < Page
    BY <1>1, <2>2, DivMod
  <2>4. Page * q \in Int
    BY <1>1, <2>3
  <2>5. Page * q <= d /\ d < Page * q + Page
    BY <1>1, <2>3, <2>4
  <2> QED BY <2>1, <2>3, <2>5 DEF d
<1>5. lack > 0 => q \in Nat
  <2> SUFFICES ASSUME lack > 0, q <= -1 PROVE FALSE
    BY <1>4
  <2> HIDE DEF q, lack
  <2>1. Page * q <= Page * (-1)
    BY <1>1, <1>4
  <2> QED BY <1>1, <1>3, <1>4, <2>1
<1>6. (q + 1) * Page = Page * q + Page
  <2> HIDE DEF q
  <2> QED BY <1>1, <1>4
<1>7. CASE lack <= 0 \/ f - s.low < 0
  <2>1. k = 0 /\ 0 * Page = 0
    BY <1>1, <1>3, <1>7
  <2>2. k * Page = 0
    BY <2>1
  <2>3. k \in Nat /\ ~(k > 0)
    BY <2>1
  <2>4. s.low <= f => s.low - 0 <= f - e
    BY <1>1, <1>7
  <2> QED BY <2>2, <2>3, <2>4 DEF e, f
<1>8. CASE lack > 0 /\ f - s.low >= 0
  <2>1. k = q + 1 /\ q \in Nat
    BY <1>1, <1>3, <1>5, <1>8
  <2> DEFINE p == Page * q
  <2>a. lack = e - (f - s.low)
    OBVIOUS
  <2> HIDE DEF lack, k, q
  <2>b. p \in Int
    BY <1>1, <1>4
  <2>c. (q + 1) * Page = p + Page /\ lack - 1 < p + Page
    BY <1>4, <1>6
  <2> HIDE DEF p
  <2>2. k * Page = p + Page /\ p \in Int /\ lack - 1 < p + Page /\ lack = e - (f - s.low)
    BY <2>1, <2>a, <2>b, <2>c
  <2>3. k \in Nat /\ s.low <= f
    BY <1>1, <1>8, <2>1
  <2>4. s.low - (p + Page) <= f - e
    BY <1>1, <2>2
  <2> QED BY <2>2, <2>3, <2>4 DEF e, f, k
<1> QED BY <1>1, <1>3, <1>7, <1>8

LEMMA CommitIndexTop ==
  ASSUME NEW t, Layout(t), NEW s, Spaced(s, Len(t), Floor(t)), ~IndexRoom(s, t),
         NEW got \in Attempts, NEW r, r = CommitIndexPage(s, t, got)
  PROVE  /\ r \in SpaceType /\ r.low <= High
         /\ r.top <= Track * Len(t) + Track + Page
<1> DEFINE f == Floor(t)
           m == Track * Len(t)
           c == DesperateCompactPtr(s, t)
           d == c.denied + 1
           asked == [c EXCEPT !.denied = d]
           from == IF got = "first" THEN s ELSE asked
<1>1. /\ f \in Int /\ s \in SpaceType /\ Stacked(s, f) /\ s.top \in Nat
      /\ m \in Nat /\ s.top < m + Track /\ Track \in Nat /\ Page \in Nat
  <2>1. Len(t) \in Nat /\ Floor(t) \in Int
    BY LayoutFacts, FloorFacts
  <2>2. Stacked(s, f) /\ IndexFits(s, Len(t))
    BY DEF Spaced
  <2>3. s.top \in Nat /\ s \in SpaceType
    BY <2>1, <2>2, StackedFacts DEF Stacked
  <2>4. m \in Nat /\ m <= s.top /\ ~(Track <= s.top - m)
    BY <2>1, <2>2, IndexWords DEF IndexFits, IndexRoom
  <2>5. Track \in Nat /\ Page \in Nat
    BY Constants
  <2> HIDE DEF m
  <2> QED BY <2>1, <2>2, <2>3, <2>4, <2>5
<1>2. /\ Stacked(c, f) /\ c.top = s.top /\ c.denied = s.denied
  BY <1>1, DesperateCompactPtrKeeps
<1> HIDE DEF m, f, c
<1>3. /\ c \in SpaceType /\ c.low <= High /\ d \in Nat
      /\ c.top \in Int /\ c.committed \in SUBSET Int
  BY <1>2 DEF Stacked, SpaceType
<1> HIDE DEF d, asked
<1>4. asked = [top |-> c.top, low |-> c.low, committed |-> c.committed, denied |-> d]
  BY <1>3, Renewed DEF asked
<1>5. asked \in SpaceType /\ asked.top = s.top /\ asked.low <= High
  BY <1>2, <1>3, <1>4 DEF SpaceType
<1>6. from \in SpaceType /\ from.top = s.top /\ from.low <= High
  BY <1>1, <1>5 DEF Stacked
<1>7. r = IF got = "never" THEN from
          ELSE [from EXCEPT !.top = @ + Page, !.committed = @ \union Pages(s.top, 1)]
  BY DEF CommitIndexPage, asked, d, c
<1> HIDE DEF from
<1>8. CASE got = "never"
  BY <1>1, <1>6, <1>7, <1>8 DEF m
<1>9. CASE got # "never"
  <2> DEFINE x == from.top + Page
             C == from.committed \union Pages(s.top, 1)
  <2>1. /\ from.top \in Int /\ from.low \in Int /\ from.committed \in SUBSET Int
        /\ from.denied \in Nat /\ from \in SpaceType
    BY <1>6 DEF SpaceType
  <2>2. PageOf(s.top) \in Int
    <3>1. s.top \in Int
      BY <1>1
    <3> QED BY <3>1, Pagewise
  <2>3. x \in Int /\ C \in SUBSET Int
    BY <1>1, <2>1, <2>2 DEF Pages, PageOf
  <2>4. r = [from EXCEPT !.top = x, !.committed = C] /\ x = s.top + Page
    BY <1>6, <1>7, <1>9
  <2> HIDE DEF x, C
  <2>a. from \in SpaceType /\ from.denied \in Nat
    BY <2>1
  <2>5. r = [top |-> x, low |-> from.low, committed |-> C, denied |-> from.denied]
    BY <2>3, <2>4, <2>a, Renewed, ZenonT(30)
  <2>6. r \in SpaceType /\ r.top = x /\ r.low = from.low
    BY <2>1, <2>3, <2>5 DEF SpaceType
  <2>7. x <= m + Track + Page
    BY <1>1, <2>4
  <2> QED BY <1>6, <2>6, <2>7 DEF m
<1> QED BY <1>8, <1>9

\* A page for the index, and then perhaps pages for a block: the space in between is
\* sound if the last one keeps the bounds.
LEMMA IndexStep ==
  ASSUME NEW t, Layout(t), NEW s0, Spaced(s0, Len(t), Floor(t)), NEW got \in Attempts,
         NEW s, s = IF IndexRoom(s0, t) THEN s0 ELSE CommitIndexPage(s0, t, got),
         NEW k \in Nat, NEW g \in Attempts, NEW s2, s2 = s \/ s2 = CommitPtrPages(s, t, k, g),
         s2.top <= s2.low, t # <<>> => s2.top <= Floor(t)
  PROVE  Spaced(s, Len(t), Floor(t))
<1>1. CASE IndexRoom(s0, t)
  BY <1>1
<1>2. CASE ~IndexRoom(s0, t)
  <2>1. /\ s \in SpaceType /\ s.low <= High /\ s.top <= Track * Len(t) + Track + Page
        /\ s.top \in Int /\ s.low \in Int /\ s.committed \in SUBSET Int
    BY <1>2, CommitIndexTop DEF SpaceType
  <2>2. s2.top = s.top /\ s2.low \in Int /\ s2.low <= s.low
    <3>1. CASE s2 = s
      BY <2>1, <3>1
    <3>2. CASE s2 = CommitPtrPages(s, t, k, g)
      <4> DEFINE c == DesperateCompactIndex(s, t)
                 d == s.denied + 1
                 compact == [s EXCEPT !.denied = d]
                 x == s.low - k * Page
                 C == s.committed \union Pages(x, k)
                 E == s.committed \union Pages(s.top, k)
      <4>1. c = s
        <5> DEFINE m == Track * Len(t)
        <5>1. m \in Nat /\ Track \in Nat /\ Page \in Nat
          BY LayoutFacts, IndexWords, Constants
        <5> HIDE DEF m
        <5>2. ~(Page + Track < s.top - m)
          BY <2>1, <5>1 DEF m
        <5> QED BY <5>2 DEF DesperateCompactIndex, m
      <4>2. x \in Int /\ x <= s.low /\ d \in Nat /\ C \in SUBSET Int /\ E \in SUBSET Int
        <5>1. k * Page \in Nat
          BY Constants
        <5>2. x \in Int /\ x <= s.low /\ d \in Nat
          BY <2>1, <5>1 DEF SpaceType
        <5> HIDE DEF x
        <5>3. PageOf(x) \in Int /\ PageOf(s.top) \in Int
          BY <2>1, <5>2, Pagewise
        <5> QED BY <2>1, <5>2, <5>3 DEF Pages, PageOf
      <4> HIDE DEF c, d
      <4>3. compact = [top |-> s.top, low |-> s.low, committed |-> s.committed, denied |-> d]
        BY <2>1, <4>2, Renewed
      <4> HIDE DEF compact
      <4>4. /\ compact \in SpaceType /\ compact.top = s.top /\ compact.low = s.low
            /\ compact.committed = s.committed
        BY <2>1, <4>2, <4>3 DEF SpaceType
      <4>5. /\ g = "first" => s2 = [s EXCEPT !.low = x, !.committed = C]
            /\ g = "later" => s2 = [compact EXCEPT !.low = x, !.committed = E]
            /\ g = "never" => s2 = compact
        BY <3>2, <4>1, <4>4 DEF CommitPtrPages, c, d, compact
      <4> HIDE DEF x, C, E
      <4>6. g = "first" => s2 = [top |-> s.top, low |-> x, committed |-> C, denied |-> s.denied]
        BY <2>1, <4>2, <4>5, Renewed DEF SpaceType
      <4>7. g = "later" =>
              s2 = [top |-> compact.top, low |-> x, committed |-> E, denied |-> compact.denied]
        BY <4>2, <4>4, <4>5, Renewed DEF SpaceType
      <4> QED BY <2>1, <4>2, <4>4, <4>5, <4>6, <4>7 DEF Attempts
    <3> QED BY <3>1, <3>2
  <2>3. Floor(t) \in Int /\ (t = <<>> => Floor(t) = High) /\ High \in Int
    BY FloorFacts, Constants
  <2>5. s.top <= s.low /\ s.top <= Floor(t)
    BY <2>1, <2>2, <2>3
  <2>6. s = CommitIndexPage(s0, t, got)
    BY <1>2
  <2> QED BY <1>2, <2>5, <2>6, CommitIndexKeeps
<1> QED BY <1>1, <1>2

LEMMA BottomKeeps ==
  ASSUME NEW t, Layout(t), NEW s, Spaced(s, Len(t), Floor(t)), NEW n \in Sizes,
         NEW got \in Attempts, NEW r, r = Bottomed(s, t, n, got), r.top <= r.low
  PROVE  /\ Spaced(r, Len(t), Floor(t))
         /\ Track * Len(t) + Track <= s.top => Track * Len(t) + Track <= r.top
<1>1. CASE Lacking(s, t, n) = 0
  <2>1. r = s
    BY <1>1 DEF Bottomed
  <2> QED BY <2>1
<1>2. CASE Lacking(s, t, n) # 0
  <2> DEFINE k == Lacking(s, t, n)
  <2>1. r = CommitPtrPages(s, t, k, got)
    BY <1>2 DEF Bottomed
  <2>2. s.low \in Int /\ n \in Nat /\ n >= 1
    BY FloorFacts, StackedFacts, Constants DEF Spaced
  <2>3. k \in Nat /\ s.low <= Floor(t)
    BY <1>2, <2>2, LackingFacts
  <2> HIDE DEF k
  <2> QED BY <2>1, <2>3, CommitPtrKeeps
<1> QED BY <1>1, <1>2

\* What can be initialized at the bottom lies above the lowest page.
LEMMA BottomFits ==
  ASSUME NEW t, Layout(t), NEW s, Spaced(s, Len(t), Floor(t)), NEW n \in Sizes,
         NEW got \in Attempts, NEW r, r = Bottomed(s, t, n, got), r.top <= r.low,
         ~NoBottom(s, t, n, got),
         NEW a, a = Place(t, Len(t) + 1, n), CanInit(r, a, n)
  PROVE  /\ r.low <= a - W /\ Fits(t, Len(t) + 1, Record(a, n))
         /\ Record(a, n).addr = a /\ a \in Nat
<1> DEFINE f == Floor(t)
           i == Len(t) + 1
           z == AlignedSize(n)
           e == Need(i, n)
           k == Lacking(s, t, n)
<1>1. /\ f \in Int /\ f <= High /\ W \in Nat /\ W >= 1 /\ Page \in Nat /\ Page >= 2 * W
      /\ High \in Nat /\ n \in Nat /\ n >= 1 /\ Len(t) \in Nat
  BY FloorFacts, Constants, LayoutFacts
<1>2. i \in 1 .. (Len(t) + 1) /\ ~(i <= Len(t))
  BY <1>1
<1>3. /\ z \in Nat /\ n <= z /\ z <= n + W - 1
      /\ Above(t, i) = f /\ a = f - z - W /\ e \in Nat /\ z + 2 * W <= e
  <2>1. z \in Nat /\ n <= z /\ z <= n + W - 1
    BY <1>1, AlignedFacts
  <2>2. Above(t, i) = f
    BY <1>2, AboveFacts
  <2>3. a = Above(t, i) - z - W /\ e \in Nat /\ z + 2 * W <= e
    BY <1>1, <1>2, RoomFacts
  <2> QED BY <2>1, <2>2, <2>3
<1>4. Spaced(r, Len(t), f) /\ Stacked(r, f)
  BY BottomKeeps DEF Spaced
<1>5. s.low \in Nat /\ r.low \in Nat /\ r.low <= f + W
  BY <1>1, <1>4, StackedFacts DEF Spaced, Stacked
<1>6. /\ k \in Nat /\ (k > 0 => s.low <= f)
      /\ s.low <= f => s.low - k * Page <= f - e
  BY <1>1, <1>5, LackingFacts
<1> HIDE DEF f, z, e, k
<1>7. k * Page \in Int
  BY <1>1, <1>6
<1>8. CASE s.low <= f
  <2>1. r.low = s.low - k * Page
    <3>1. CASE k = 0
      <4>1. r = s /\ 0 * Page = 0
        BY <1>1, <3>1 DEF Bottomed, k
      <4> QED BY <1>5, <3>1, <4>1
    <3>2. CASE k # 0
      <4>1. got # "never" /\ r = CommitPtrPages(s, t, k, got)
        BY <1>6, <3>2 DEF NoBottom, Bottomed, k
      <4> QED BY <1>6, <1>8, <4>1, CommitPtrKeeps DEF f
    <3> QED BY <3>1, <3>2
  <2>2. r.low <= f - e
    BY <1>6, <1>8, <2>1
  <2> QED
    <3>a. a \in Int /\ f - e <= a - W
      BY <1>1, <1>3
    <3>b. r.low <= a - W
      BY <1>1, <1>3, <1>5, <2>2, <3>a
    <3>1. r.low <= a - W /\ a \in Nat /\ a <= High /\ a + n + W <= f
      <4>1. a + n + W <= f
        BY <1>1, <1>3
      <4>2. a \in Nat
        BY <1>1, <1>5, <3>a, <3>b
      <4>3. a <= High
        BY <1>1, <4>1, <4>2
      <4> QED BY <3>b, <4>1, <4>2, <4>3
    <3>2. Record(a, n) \in RecordType /\ Record(a, n).addr = a /\ Record(a, n).size = n
      BY <1>1, <3>1 DEF Record, RecordType
    <3>3. Slot(t, i, Record(a, n))
      BY <1>2, <1>3, <3>1, <3>2 DEF Slot
    <3> QED BY <3>1, <3>2, <3>3 DEF Fits
<1>9. CASE f < s.low
  <2>1. k = 0
    BY <1>1, <1>5, <1>6, <1>9
  <2>2. r = s
    BY <2>1 DEF Bottomed, k
  <2> DEFINE b == a + n + W - 1
  <2>3. /\ b \in Int /\ a + n \in Int /\ W \in Int /\ a + n <= b /\ b <= (a + n) + W - 1
        /\ b < r.low /\ r.low - Page <= b
    <3>1. a \in Int /\ a + n + W <= f /\ f <= a + n + 2 * W - 1
      BY <1>1, <1>3
    <3>2. b \in Int /\ a + n \in Int /\ W \in Int /\ a + n <= b /\ b = (a + n) + W - 1
      BY <1>1, <3>1
    <3>3. b < f /\ f <= b + W /\ r.low \in Int
      <4>1. b < f /\ f <= b + W
        BY <1>1, <3>1
      <4> QED BY <1>5, <4>1
    <3> HIDE DEF b
    <3>4. b < r.low /\ r.low - Page <= b
      BY <1>1, <1>5, <1>9, <2>2, <3>2, <3>3
    <3> QED BY <3>2, <3>4
  <2> HIDE DEF b
  <2>4. Mapped(r, a + n, W)
    BY DEF CanInit
  <2>5. PageOf(b) \in r.committed
    BY <2>3, <2>4, MappedByte
  <2>6. PageOf(b) \notin r.committed
    BY <1>1, <1>4, <1>9, <2>2, <2>3, MissingPage
  <2> QED BY <2>5, <2>6
<1> QED BY <1>1, <1>5, <1>8, <1>9

\* A record inserted at the end is the last.
LEMMA LastInserted ==
  ASSUME NEW S, NEW t \in Seq(S), NEW r \in S, NEW u, u = InsertAt(t, Len(t) + 1, r)
  PROVE  u # <<>> /\ u[Len(u)] = r
<1>1. Len(t) \in Nat
  BY LenProperties
<1>2. ASSUME NEW i \in 1 .. (Len(t) + 1), i = Len(t) + 1
      PROVE  u \in Seq(S) /\ Len(u) = Len(t) + 1 /\ u[i] = r
  <2>1. /\ InsertAt(t, i, r) \in Seq(S) /\ Len(InsertAt(t, i, r)) = Len(t) + 1
        /\ \A j \in 1 .. (Len(t) + 1) :
             InsertAt(t, i, r)[j] = IF j < i THEN t[j] ELSE IF j = i THEN r ELSE t[j - 1]
    BY InsertAtElements
  <2>2. u = InsertAt(t, i, r)
    BY <1>2
  <2> QED BY <1>1, <1>2, <2>1, <2>2
<1> QED BY <1>1, <1>2, EmptySeq

\* Where it goes at the bottom, whatever the space.
LEMMA BottomSlot ==
  ASSUME NEW t, Layout(t), NEW n \in Sizes, NEW a, a = Place(t, Len(t) + 1, n),
         NEW r, r = Record(a, n), NEW u, u = Inserted(t, r)
  PROVE  /\ Slot(t, Len(t) + 1, r) /\ r.addr = a /\ r.size = n
         /\ a \in Int /\ a <= Floor(t) /\ u # <<>> /\ Lowest(u) = a
<1> DEFINE i == Len(t) + 1
           z == AlignedSize(n)
           f == Floor(t)
<1>1. /\ n \in Nat /\ n >= 1 /\ W \in Nat /\ W >= 1 /\ Len(t) \in Nat /\ f \in Int
  BY Constants, LayoutFacts, FloorFacts
<1>2. i \in 1 .. (Len(t) + 1) /\ ~(i <= Len(t))
  BY <1>1
<1>3. z \in Nat /\ n <= z /\ a = f - z - W /\ Above(t, i) = f
  <2>1. z \in Nat /\ n <= z
    BY <1>1, AlignedFacts
  <2>2. Above(t, i) = f
    BY <1>2, AboveFacts
  <2>3. a = Above(t, i) - z - W
    BY <1>1, <1>2, RoomFacts
  <2> QED BY <2>1, <2>2, <2>3
<1>4. r.addr = a /\ r.size = n
  BY DEF Record
<1> HIDE DEF z, f
<1>5. a \in Int /\ a <= f /\ a + n + W <= f
  BY <1>1, <1>3
<1>6. Slot(t, i, r)
  BY <1>2, <1>3, <1>4, <1>5 DEF Slot
<1>7. u = InsertAt(t, i, r)
  BY <1>1, <1>4, <1>5, <1>6, InsertedIs
<1> DEFINE S == RecordType \union {r}
<1>8. t \in Seq(S) /\ r \in S
  <2>1. RecordType \subseteq S /\ t \in Seq(RecordType)
    BY DEF Layout
  <2> HIDE DEF S
  <2>2. t \in Seq(S)
    BY <2>1, SeqMonotonic
  <2> QED BY <2>2 DEF S
<1> HIDE DEF S
<1>9. u # <<>> /\ u[Len(u)] = r
  BY <1>7, <1>8, LastInserted
<1>10. u # <<>> /\ Lowest(u) = a
  BY <1>4, <1>9 DEF Lowest
<1> QED BY <1>4, <1>5, <1>6, <1>10 DEF f
-------------------------------------------------------------------------------
(***************************************************************************)
(* The inductive invariant                                                  *)
(***************************************************************************)
Statuses == {"fresh", "running", "stopped", "faulted"}

MemoryInv ==
    /\ Layout(table)
    /\ Spaced(space, Len(table), Floor(table))
    /\ space.denied <= MaxDenials
    /\ status \in Statuses

\* a step that callers see as one of the heap's, or not at all
HeapStep == [ViewOfHeap!Next]_(ViewOfHeap!heapVars)

LEMMA LayoutApart ==
  ASSUME NEW t, Layout(t), NEW i \in 1 .. Len(t),
         NEW O, \A c \in O : \E j \in 1 .. Len(t) : j # i /\ c = t[j]
  PROVE  t[i] \in ViewOfHeap!Block /\ ViewOfHeap!Vacant(t[i], O)
<1>1. /\ W \in Nat /\ W >= 1 /\ High \in Nat /\ Len(t) \in Nat
      /\ \A j \in 1 .. Len(t) : /\ t[j] \in RecordType /\ t[j].addr \in Nat /\ t[j].size \in Nat
  BY LayoutFacts, Constants
<1>2. t[i].addr + t[i].size + W <= High
  BY DEF Layout
<1>3. t[i] \in [addr : 0 .. High - 1, size : Sizes \union {0}]
  <2>1. t[i].addr \in 0 .. High - 1
    BY <1>1, <1>2
  <2> QED BY <1>1, <2>1 DEF RecordType
<1>4. ASSUME NEW x \in 1 .. Len(t), NEW y \in 1 .. Len(t), x < y
      PROVE  t[y].addr # t[x].addr /\ t[y].addr + t[y].size <= t[x].addr
  <2> DEFINE p == t[y].addr
             q == t[y].size
             o == t[x].addr
  <2>1. t[y].addr + t[y].size + 2 * W <= t[x].addr
    BY <1>4 DEF Layout
  <2>2. p \in Nat /\ q \in Nat /\ o \in Nat /\ p + q + 2 * W <= o
    BY <1>1, <2>1
  <2> HIDE DEF p, q, o
  <2>3. p # o /\ p + q <= o
    BY <1>1, <2>2
  <2> QED BY <2>3 DEF p, q, o
<1>5. ASSUME NEW c \in O PROVE ViewOfHeap!Apart(t[i], c)
  <2>1. PICK j \in 1 .. Len(t) : j # i /\ c = t[j]
    OBVIOUS
  <2>2. i < j \/ j < i
    BY <1>1, <2>1
  <2> QED BY <1>4, <2>1, <2>2 DEF ViewOfHeap!Apart
<1>6. t[i].addr + t[i].size <= High
  BY <1>1, <1>2
<1> QED BY <1>3, <1>5, <1>6 DEF ViewOfHeap!Block, ViewOfHeap!Vacant

LEMMA EndsKeeps ==
  ASSUME NEW t, Layout(t), NEW s, Spaced(s, Len(t), Floor(t)), NEW st \in Statuses,
         Ends(t, s, st)
  PROVE  MemoryInv'
<1>1. table' = t /\ space' = s /\ status' = st /\ s.denied <= MaxDenials
  BY DEF Ends, Within
<1>2. Layout(table') /\ Spaced(space', Len(table'), Floor(table'))
  BY <1>1
<1> QED BY <1>1, <1>2 DEF MemoryInv, Layout, Spaced, Floor, Stacked, Exact, IndexFits, Lowest

\* The blocks stay as they are.
LEMMA Stays ==
  ASSUME MemoryInv, Up, NEW s, Spaced(s, Len(table), Floor(table)),
         NEW st \in Statuses, Ends(table, s, st)
  PROVE  MemoryInv' /\ HeapStep
<1>1. MemoryInv'
  BY EndsKeeps DEF MemoryInv
<1>2. table' = table /\ Elems(table') = Elems(table)
  BY DEF Ends
<1>3. CASE Up'
  BY <1>1, <1>2, <1>3 DEF HeapStep, ViewOfHeap!heapVars, Up
<1>4. CASE ~Up'
  <2>1. ViewOfHeap!End
    BY <1>2, <1>4 DEF ViewOfHeap!End, Up
  <2> QED BY <1>1, <2>1 DEF HeapStep, ViewOfHeap!Next
<1> QED BY <1>1, <1>3, <1>4

\* A block is given out.
LEMMA Gives ==
  ASSUME MemoryInv, Up, NEW u, Layout(u), NEW s, Spaced(s, Len(u), Floor(u)),
         Ends(u, s, "running"), NEW i \in 1 .. Len(u), u[i].size > 0,
         Elems(u) = Elems(table) \union {u[i]},
         \A c \in Elems(table) : \E j \in 1 .. Len(u) : j # i /\ c = u[j]
  PROVE  MemoryInv' /\ HeapStep
<1>1. MemoryInv'
  BY EndsKeeps DEF Statuses
<1>2. table' = u /\ Up'
  BY DEF Ends, Up
<1>3. u[i] \in ViewOfHeap!Block /\ ViewOfHeap!Vacant(u[i], Elems(table))
  BY LayoutApart
<1>4. ViewOfHeap!Malloc(u[i])
  BY <1>2, <1>3 DEF ViewOfHeap!Malloc, Up
<1>5. u[i] \in Elems(table')
  BY <1>2
<1> QED BY <1>1, <1>4, <1>5 DEF HeapStep, ViewOfHeap!Next

\* A block changes, or moves.
LEMMA Changes ==
  ASSUME MemoryInv, Up, NEW u, Layout(u), NEW s, Spaced(s, Len(u), Floor(u)),
         Ends(u, s, "running"), NEW i \in 1 .. Len(u), NEW old \in Elems(table),
         Elems(u) = (Elems(table) \ {old}) \union {u[i]},
         \A c \in Elems(table) \ {old} : \E j \in 1 .. Len(u) : j # i /\ c = u[j]
  PROVE  MemoryInv' /\ HeapStep
<1>1. MemoryInv'
  BY EndsKeeps DEF Statuses
<1>2. table' = u /\ Up'
  BY DEF Ends, Up
<1>3. u[i] \in ViewOfHeap!Block /\ ViewOfHeap!Vacant(u[i], Elems(table) \ {old})
  BY LayoutApart
<1>4. ViewOfHeap!Resize(old, u[i])
  BY <1>2, <1>3 DEF ViewOfHeap!Resize, Up
<1>5. u[i] \in Elems(table')
  BY <1>2
<1> QED BY <1>1, <1>4, <1>5 DEF HeapStep, ViewOfHeap!Next

\* A block is taken back.
LEMMA Takes ==
  ASSUME MemoryInv, Up, NEW u, Layout(u), NEW s, Spaced(s, Len(u), Floor(u)),
         NEW st \in Statuses, Ends(u, s, st), NEW old \in Elems(table),
         Elems(u) = Elems(table) \ {old}
  PROVE  MemoryInv' /\ HeapStep
<1>1. MemoryInv'
  BY EndsKeeps
<1>2. table' = u /\ Up' \in BOOLEAN
  BY DEF Ends, Up
<1>3. ViewOfHeap!Free(old)
  BY <1>2 DEF ViewOfHeap!Free, Up
<1> QED BY <1>1, <1>3 DEF HeapStep, ViewOfHeap!Next
-------------------------------------------------------------------------------
(***************************************************************************)
(* The calls                                                                *)
(***************************************************************************)
LEMMA Holey ==
  ASSUME NEW t, Layout(t), NEW n \in Sizes, NEW above, Holes(t, n, above) # {},
         NEW i, i = BestHole(t, Holes(t, n, above), n)
  PROVE  /\ i \in 1 .. Len(t) /\ i \in Holes(t, n, above)
         /\ Fits(t, i, Record(Place(t, i, n), n))
<1> DEFINE fits == Holes(t, n, above)
<1>1. n \in Nat /\ n >= 1 /\ DOMAIN t = 1 .. Len(t)
  BY Constants, LayoutFacts
<1>2. fits \in SUBSET (1 .. Len(t)) /\ \A j \in fits : Hole(t, j) >= Need(j, n)
  BY <1>1 DEF Holes
<1> HIDE DEF fits
<1>3. BestHole(t, fits, n) \in fits
  BY <1>1, <1>2, Least DEF fits
<1>4. i \in fits
  BY <1>3 DEF fits
<1> QED BY <1>2, <1>4, HoleFits DEF fits

\* One more record in the index.
LEMMA OneMore ==
  ASSUME NEW m \in Nat, NEW s, NEW f, Spaced(s, m, f), s.top \in Int, Track * m + Track <= s.top
  PROVE  Spaced(s, m + 1, f)
<1> DEFINE x == Track * m
           y == Track * (m + 1)
<1>1. x \in Nat /\ y = x + Track /\ Track \in Nat /\ Page \in Nat
  BY IndexWords, Constants
<1>2. x + Track <= s.top /\ s.top <= x + 2 * Page
  BY DEF Spaced, IndexFits
<1> HIDE DEF x, y
<1>3. y <= s.top /\ s.top <= y + 2 * Page
  BY <1>1, <1>2
<1> QED BY <1>3 DEF Spaced, IndexFits, y

LEMMA CommitPtrType ==
  ASSUME NEW s \in SpaceType, NEW t, NEW k \in Nat, NEW got \in Attempts
  PROVE  CommitPtrPages(s, t, k, got).top \in Int
<1>1. ASSUME NEW p \in SpaceType, NEW x, NEW C
      PROVE  [p EXCEPT !.low = x, !.committed = C].top \in Int
  <2> DEFINE q == [p EXCEPT !.low = x]
  <2>1. q.top \in Int /\ DOMAIN q = DOMAIN p
    BY DEF SpaceType
  <2>2. "top" \in DOMAIN q
    BY <2>1 DEF SpaceType
  <2> HIDE DEF q
  <2>3. [q EXCEPT !.committed = C].top = q.top
    BY <2>2
  <2> QED BY <2>1, <2>3 DEF q
<1> DEFINE c == DesperateCompactIndex(s, t)
           compact == [c EXCEPT !.denied = @ + 1]
<1>2. c \in SpaceType
  BY ReleaseIndexFields DEF DesperateCompactIndex
<1> HIDE DEF c
<1>3. compact \in SpaceType
  BY <1>2 DEF SpaceType
<1> DEFINE u == [s EXCEPT !.low = @ - k * Page, !.committed = @ \union Pages(s.low - k * Page, k)]
           v == [compact EXCEPT !.low = @ - k * Page, !.committed = @ \union Pages(compact.top, k)]
<1>4. CommitPtrPages(s, t, k, got) \in {u, v, compact}
  BY DEF CommitPtrPages, Attempts, c
<1> HIDE DEF compact
<1>5. u.top \in Int /\ v.top \in Int /\ compact.top \in Int
  BY <1>1, <1>3 DEF SpaceType
<1> QED BY <1>4, <1>5

LEMMA MallocKeeps ==
  ASSUME MemoryInv, NEW n \in Sizes, NEW gotIndex \in Attempts, NEW gotPtr \in Attempts,
         Malloc(n, gotIndex, gotPtr)
  PROVE  MemoryInv' /\ HeapStep
<1> DEFINE t == table
           f == Floor(t)
           audit == Audit(space, t)
           s == IF IndexRoom(space, t) THEN space ELSE CommitIndexPage(space, t, gotIndex)
           holes == Holes(t, n, s.low)
           i == IF holes = {} THEN Len(t) + 1 ELSE BestHole(t, holes, n)
           s2 == IF holes = {} THEN Bottomed(s, t, n, gotPtr) ELSE s
           a == Place(t, i, n)
           r == Record(a, n)
           u == Inserted(t, r)
<1>1. /\ Up
      /\ IF audit # "running" THEN Ends(t, space, audit)
         ELSE IF ~IndexRoom(s, t)
         THEN Ends(t, s, IF status = "fresh" THEN "stopped" ELSE "running")
         ELSE IF holes = {} /\ NoBottom(s, t, n, gotPtr) THEN Ends(t, s2, "faulted")
         ELSE IF ~CanInit(s2, a, n) THEN Ends(t, s2, "faulted")
         ELSE Ends(u, s2, "running")
  BY DEF Malloc
<1>2. /\ Layout(t) /\ Spaced(space, Len(t), f) /\ f \in Int /\ Len(t) \in Nat
      /\ W \in Nat /\ n \in Nat /\ n >= 1
      /\ t # <<>> => Lowest(t) - W = f
  BY FloorFacts, LayoutFacts, Constants DEF MemoryInv, Floor
<1>3. IndexRoom(s, t) => Track * Len(t) + Track <= s.top \/ s.top \notin Int
  <2>1. Track * Len(t) \in Nat /\ Track \in Nat
    BY <1>2, IndexWords, Constants
  <2> DEFINE m == Track * Len(t)
  <2> HIDE DEF m, s
  <2>2. s.top \in Int /\ Track <= s.top - m => m + Track <= s.top
    BY <2>1 DEF m
  <2> QED BY <2>2 DEF IndexRoom, m
<1> HIDE DEF t, f, audit, s, holes
<1>a. s \in SpaceType
  <2>1. s = IF IndexRoom(space, t) THEN space ELSE CommitIndexPage(space, t, gotIndex)
    BY DEF s
  <2>2. space \in SpaceType
    BY <1>2 DEF Spaced, Stacked
  <2>3. CASE ~IndexRoom(space, t)
    <3>1. s = CommitIndexPage(space, t, gotIndex)
      BY <2>1, <2>3
    <3> QED BY <1>2, <2>3, <3>1, CommitIndexTop DEF f
  <2> QED BY <2>1, <2>2, <2>3
<1>b. s2.top \in Int
  <2> DEFINE k == Lacking(s, t, n)
  <2>1. s2 = s \/ (s2 = CommitPtrPages(s, t, k, gotPtr) /\ k # 0)
    BY DEF Bottomed
  <2>2. k \in Nat
    <3>1. s.low \in Int
      BY <1>a DEF SpaceType
    <3> QED BY <1>2, <3>1, LackingFacts
  <2> HIDE DEF s2, k
  <2>3. CommitPtrPages(s, t, k, gotPtr).top \in Int
    BY <1>a, <2>2, CommitPtrType
  <2> QED BY <1>a, <2>1, <2>3 DEF SpaceType
\* what committing makes of the space, once the call is over
<1>4. ASSUME s2.top <= s2.low, t # <<>> => s2.top <= f
      PROVE  /\ Spaced(s, Len(t), f) /\ s.top \in Int /\ Spaced(s2, Len(t), f) /\ s2.top \in Int
             /\ IndexRoom(s, t) => Track * Len(t) + Track <= s2.top
  <2> DEFINE k == IF holes = {} THEN Lacking(s, t, n) ELSE 0
  <2>1. s2 = s \/ (s2 = CommitPtrPages(s, t, k, gotPtr) /\ holes = {} /\ k # 0)
    BY DEF Bottomed
  <2>2. Spaced(s, Len(t), f)
    <3>1. s = IF IndexRoom(space, t) THEN space ELSE CommitIndexPage(space, t, gotIndex)
      BY DEF s
    <3>2. CASE s2 = s
      <4>1. 0 \in Nat
        OBVIOUS
      <4>2. s.top <= s.low /\ (t # <<>> => s.top <= f)
        BY <1>4, <3>2
      <4> QED BY <1>2, <3>1, <4>1, <4>2, IndexStep DEF f
    <3>3. CASE s2 # s
      <4>1. s2 = CommitPtrPages(s, t, k, gotPtr) /\ k = Lacking(s, t, n)
        BY <2>1, <3>3
      <4>2. s.low \in Int
        <5>1. CASE IndexRoom(space, t)
          BY <1>2, <3>1, <5>1, StackedFacts DEF Spaced
        <5>2. CASE ~IndexRoom(space, t)
          <6>1. s = CommitIndexPage(space, t, gotIndex)
            BY <3>1, <5>2
          <6>2. s \in SpaceType
            BY <1>2, <5>2, <6>1, CommitIndexTop DEF f
          <6> QED BY <6>2 DEF SpaceType
        <5> QED BY <5>1, <5>2
      <4>3. k \in Nat
        BY <1>2, <4>1, <4>2, LackingFacts
      <4> HIDE DEF k, s2
      <4> QED BY <1>2, <1>4, <3>1, <4>1, <4>3, IndexStep DEF f
    <3> QED BY <3>2, <3>3
  <2>3. s.top \in Int
    BY <1>2, <2>2, StackedFacts DEF Spaced
  <2>4. /\ Spaced(s2, Len(t), f)
        /\ Track * Len(t) + Track <= s.top => Track * Len(t) + Track <= s2.top
    <3>1. CASE holes = {}
      <4>1. s2 = Bottomed(s, t, n, gotPtr)
        BY <3>1
      <4> HIDE DEF s2
      <4> QED BY <1>2, <1>4, <2>2, <4>1, BottomKeeps DEF f
    <3>2. CASE holes # {}
      <4>1. s2 = s
        BY <3>2
      <4> QED BY <2>2, <4>1
    <3> QED BY <3>1, <3>2
  <2> HIDE DEF s2
  <2>5. s2.top \in Int
    BY <1>2, <2>4, StackedFacts DEF Spaced
  <2> QED BY <1>3, <2>2, <2>3, <2>4, <2>5
<1>5. CASE audit # "running"
  <2>1. audit \in Statuses
    BY <1>2, <1>5, NoOverlaps DEF audit, Statuses
  <2> QED BY <1>1, <1>2, <1>5, <2>1, Stays DEF t, f
<1>6. CASE audit = "running" /\ ~IndexRoom(s, t)
  <2> DEFINE st == IF status = "fresh" THEN "stopped" ELSE "running"
  <2>1. Ends(t, s, st) /\ st \in Statuses
    BY <1>1, <1>6 DEF Statuses
  <2>2. s.top <= s.low /\ (t # <<>> => s.top <= f)
    BY <1>2, <2>1 DEF Ends, Within
  <2>3. Spaced(s, Len(t), f)
    <3>1. s = IF IndexRoom(space, t) THEN space ELSE CommitIndexPage(space, t, gotIndex)
      BY DEF s
    <3>2. 0 \in Nat
      OBVIOUS
    <3> QED BY <1>2, <2>2, <3>1, <3>2, IndexStep DEF f
  <2> HIDE DEF st
  <2> QED BY <1>1, <2>1, <2>3, Stays DEF t, f
<1>7. CASE Ends(t, s2, "faulted")
  <2>1. s2.top <= s2.low /\ (t # <<>> => s2.top <= f)
    BY <1>2, <1>7 DEF Ends, Within
  <2>2. Spaced(s2, Len(t), f)
    BY <1>4, <2>1
  <2> HIDE DEF s2
  <2>3. "faulted" \in Statuses
    BY DEF Statuses
  <2> QED BY <1>1, <1>7, <2>2, <2>3, Stays DEF t, f
<1>8. CASE /\ IndexRoom(s, t) /\ ~(holes = {} /\ NoBottom(s, t, n, gotPtr)) /\ CanInit(s2, a, n)
           /\ Ends(u, s2, "running")
  <2>1. s2.top <= s2.low /\ (u # <<>> => s2.top <= Lowest(u) - W) /\ Within(u, s2)
    BY <1>8 DEF Ends, Within
  <2>2. CASE holes = {}
    <3>1. i = Len(t) + 1 /\ s2 = Bottomed(s, t, n, gotPtr) /\ ~NoBottom(s, t, n, gotPtr)
      BY <1>8, <2>2
    <3>2. /\ Slot(t, Len(t) + 1, r) /\ r.addr = a /\ r.size = n
          /\ a \in Int /\ a <= f /\ u # <<>> /\ Lowest(u) = a
      BY <1>2, <3>1, BottomSlot DEF f
    <3> HIDE DEF i, s2
    <3>3. s2.top <= a - W
      BY <2>1, <3>2
    <3>4. CASE s2.top \in Int
      <4>1. t # <<>> => s2.top <= f
        BY <1>2, <3>2, <3>3, <3>4
      <4>2. /\ Spaced(s, Len(t), f) /\ Spaced(s2, Len(t), f)
            /\ Track * Len(t) + Track <= s2.top
        BY <1>4, <1>8, <2>1, <4>1
      <4>3. a = Place(t, Len(t) + 1, n) /\ CanInit(s2, a, n)
        BY <1>8, <3>1
      <4> HIDE DEF a
      <4>4. s2.low <= a - W /\ Fits(t, Len(t) + 1, Record(a, n))
        BY <1>2, <2>1, <3>1, <4>2, <4>3, BottomFits DEF f
      <4> HIDE DEF r, u
      <4>5. u = InsertAt(t, Len(t) + 1, r)
        BY <1>2, <3>2, InsertedIs DEF u
      <4>6. /\ Layout(u) /\ Len(u) = Len(t) + 1 /\ Len(t) + 1 \in 1 .. Len(u)
            /\ u[Len(t) + 1] = r /\ Floor(u) = a - W /\ Elems(u) = Elems(t) \union {r}
            /\ \A c \in Elems(t) : \E j \in 1 .. Len(u) : j # Len(t) + 1 /\ c = u[j]
        <5>1. Fits(t, Len(t) + 1, r)
          BY <4>4 DEF r
        <5> QED BY <1>2, <3>2, <4>5, <5>1, InsertAtKeeps
      <4>7. Spaced(s2, Len(t), Floor(u))
        <5>1. s2.top <= Floor(u) /\ s2.low <= Floor(u)
          BY <3>3, <4>4, <4>6
        <5> QED BY <1>2, <4>2, <4>6, <5>1, MoveTo DEF f
      <4>8. Spaced(s2, Len(u), Floor(u))
        BY <1>2, <3>4, <4>2, <4>6, <4>7, OneMore
      <4>9. u[Len(t) + 1].size > 0
        BY <1>2, <3>2, <4>6
      <4> QED BY <1>1, <1>8, <4>6, <4>8, <4>9, Gives DEF t
    <3> QED BY <1>b, <3>4
  <2>3. CASE holes # {}
    <3>1. /\ i \in 1 .. Len(t) /\ Fits(t, i, Record(Place(t, i, n), n)) /\ s2 = s
      <4>1. i = BestHole(t, holes, n)
        BY <2>3
      <4> HIDE DEF i
      <4>2. i \in 1 .. Len(t) /\ Fits(t, i, Record(Place(t, i, n), n))
        BY <1>2, <2>3, <4>1, Holey DEF holes
      <4> QED BY <2>3, <4>2
    <3> HIDE DEF i, s2
    <3>2. Fits(t, i, r) /\ Slot(t, i, r) /\ r.size = n /\ r.addr \in Int /\ r.size \in Nat
      <4>1. Fits(t, i, r) /\ r.size = n
        BY <3>1 DEF Record
      <4>2. r.addr \in Int
        BY <4>1, Constants DEF Fits, RecordType
      <4> QED BY <1>2, <4>1, <4>2 DEF Fits
    <3> HIDE DEF r
    <3>3. u = InsertAt(t, i, r)
      BY <1>2, <3>2, InsertedIs
    <3> HIDE DEF u
    <3>4. /\ Layout(u) /\ Len(u) = Len(t) + 1 /\ i \in 1 .. Len(u) /\ u # <<>>
          /\ u[i] = r /\ Floor(u) = f /\ Elems(u) = Elems(t) \union {r}
          /\ \A c \in Elems(t) : \E j \in 1 .. Len(u) : j # i /\ c = u[j]
      <4>1. i # Len(t) + 1
        BY <1>2, <3>1
      <4> QED BY <1>2, <3>2, <3>3, <4>1, InsertAtKeeps DEF f
    <3>5. s2.top <= f
      BY <2>1, <3>4 DEF Floor
    <3>6. Spaced(s2, Len(t), f) /\ s2.top \in Int /\ Track * Len(t) + Track <= s2.top
      BY <1>4, <1>8, <2>1, <3>5
    <3>7. Spaced(s2, Len(u), Floor(u))
      BY <1>2, <3>4, <3>6, OneMore
    <3>8. u[i].size > 0
      BY <1>2, <3>2, <3>4
    <3> QED BY <1>1, <1>8, <3>4, <3>7, <3>8, Gives DEF t
  <2> QED BY <2>2, <2>3
<1> QED BY <1>1, <1>5, <1>6, <1>7, <1>8

LEMMA PointersFacts ==
  ASSUME MemoryInv, NEW a \in Pointers
  PROVE  /\ a \in Int /\ IndexOf(table, a) \in 0 .. Len(table)
         /\ IndexOf(table, a) # 0 => table[IndexOf(table, a)].addr = a
<1>1. Layout(table)
  BY DEF MemoryInv
<1>2. a \in Int
  BY <1>1, LayoutFacts, Constants DEF Pointers, Live, Elems
<1> QED BY <1>1, <1>2, Found

LEMMA Same ==
  ASSUME MemoryInv, UNCHANGED vars
  PROVE  MemoryInv' /\ HeapStep
<1>1. table' = table /\ space' = space /\ status' = status
  BY DEF vars
<1>2. MemoryInv'
  BY <1>1 DEF MemoryInv, Layout, Spaced, Floor, Stacked, Exact, IndexFits, Lowest
<1>3. Elems(table') = Elems(table) /\ (Up' <=> Up)
  BY <1>1 DEF Up
<1> QED BY <1>1, <1>2, <1>3 DEF HeapStep, ViewOfHeap!heapVars, Up

\* Without block i the index has a record less, and the blocks' end may rise.
LEMMA MetaFreedKeeps ==
  ASSUME NEW t, Layout(t), NEW i \in 1 .. Len(t), NEW u, u = Removed(t, i),
         NEW s, Spaced(s, Len(t), Floor(t)), NEW r, r = MetaFreed(s, t, i)
  PROVE  /\ Spaced(r, Len(u), Floor(u)) /\ IndexKept(s, r, Len(u))
         /\ Floor(t) <= Floor(u) /\ Track * Len(u) + Track = Track * Len(t)
<1>1. /\ Layout(u) /\ Len(u) = Len(t) - 1
      /\ i < Len(t) => Floor(u) = Floor(t)
      /\ i = Len(t) => Floor(t) + W <= Floor(u)
  BY RemovedKeeps
<1>2. /\ Len(t) \in Nat /\ Len(u) \in Nat /\ Floor(t) \in Int /\ Floor(u) \in Int
      /\ W \in Nat /\ Page \in Nat /\ Track \in Nat /\ Track <= Page
  BY <1>1, LayoutFacts, FloorFacts, Constants
<1>3. Floor(t) <= Floor(u) /\ (Floor(u) = Floor(t) \/ Floor(t) + W <= Floor(u))
  BY <1>1, <1>2
<1>4. s.top \in Nat /\ s.top <= Floor(t) /\ s.top <= Floor(u)
  <2>1. s.top \in Nat /\ s.top <= Floor(t)
    BY <1>2, StackedFacts DEF Spaced, Stacked
  <2> QED BY <1>2, <1>3, <2>1
<1>5. Spaced(s, Len(t), Floor(u))
  BY <1>1, <1>3, <1>4, MoveTo
<1> DEFINE x == Track * Len(u)
           y == Track * Len(t)
<1>6. x \in Nat /\ y = x + Track
  <2>1. Len(t) = Len(u) + 1
    BY <1>1, <1>2
  <2> QED BY <1>2, <2>1, IndexWords
<1>7. y <= s.top /\ s.top <= y + 2 * Page
  BY <1>5 DEF Spaced, IndexFits
<1> HIDE DEF x, y
<1>8. x <= s.top /\ s.top <= x + 3 * Page /\ x + Track = y
  BY <1>2, <1>4, <1>6, <1>7
<1>9. r = CompactIndex(s, u)
  BY DEF MetaFreed
<1>10. Spaced(r, Len(u), Floor(u)) /\ IndexKept(s, r, Len(u))
  BY <1>2, <1>5, <1>8, <1>9, CompactIndexKeeps DEF Spaced, x
<1> QED BY <1>3, <1>8, <1>10 DEF x, y

LEMMA FreeKeeps ==
  ASSUME MemoryInv, NEW a \in Pointers, Free(a)
  PROVE  MemoryInv' /\ HeapStep
<1> DEFINE i == IndexOf(table, a)
           u == Removed(table, i)
           meta == MetaFreed(space, table, i)
           s == IF i = Len(table) THEN CompactPtr(meta, u) ELSE meta
<1>1. Up /\ IF i = 0 THEN UNCHANGED vars ELSE Ends(u, s, Audit(s, u))
  BY DEF Free
<1>2. i \in 0 .. Len(table) /\ Layout(table) /\ Spaced(space, Len(table), Floor(table))
  BY PointersFacts DEF MemoryInv
<1>3. CASE i = 0
  BY <1>1, <1>3, Same
<1>4. CASE i # 0
  <2>1. i \in 1 .. Len(table) /\ table[i] \in Elems(table)
    BY <1>2, <1>4, LayoutFacts DEF Elems
  <2> HIDE DEF i
  <2>2. Layout(u) /\ Elems(u) = Elems(table) \ {table[i]}
    BY <1>2, <2>1, RemovedKeeps
  <2>3. Spaced(meta, Len(u), Floor(u))
    BY <1>2, <2>1, MetaFreedKeeps
  <2> HIDE DEF meta, u
  <2>4. Spaced(s, Len(u), Floor(u))
    BY <2>2, <2>3, CompactPtrKeeps
  <2> HIDE DEF s
  <2>5. Audit(s, u) \in Statuses
    BY <2>2, NoOverlaps DEF Statuses
  <2> QED BY <1>1, <1>4, <2>1, <2>2, <2>4, <2>5, Takes
<1> QED BY <1>3, <1>4

\* An expanded block ends under what is above it.
LEMMA ExpandsFits ==
  ASSUME NEW t, Layout(t), NEW i \in 1 .. Len(t), NEW n \in Nat, Expands(t, i, n)
  PROVE  t[i].addr + n + W <= Above(t, i)
<1> DEFINE p == t[i].addr
           q == t[i].size
           z == Above(t, i)
<1>1. p \in Nat /\ q \in Nat /\ W \in Nat /\ Len(t) \in Nat
  BY LayoutFacts, Constants
<1>2. i \in 1 .. (Len(t) + 1) /\ i <= Len(t)
  BY <1>1
<1>3. z \in Int /\ p + q + W <= z
  BY <1>2, AboveFacts
<1>4. Hole(t, i) = z - p - q - W
  <2>1. 1 \in Nat /\ 1 >= 1
    OBVIOUS
  <2> QED BY <1>2, <2>1, RoomFacts
<1>5. n <= q \/ q + Hole(t, i) > n + 2 * W
  BY DEF Expands
<1> HIDE DEF p, q, z
<1>6. p + n + W <= z
  BY <1>1, <1>3, <1>4, <1>5
<1> QED BY <1>6 DEF p, z

LEMMA ResizedIs ==
  ASSUME NEW t, Layout(t), NEW i \in 1 .. Len(t), NEW n \in Sizes \union {0}
  PROVE  /\ Resized(t, i, n) = Replaced(t, i, Record(t[i].addr, n))
         /\ Record(t[i].addr, n) \in RecordType
         /\ Hole(Resized(t, i, n), i) = Above(t, i) - t[i].addr - n - W
<1>1. /\ DOMAIN t = 1 .. Len(t) /\ t[i] \in RecordType /\ t[i].addr \in Nat
      /\ Len(t) \in Nat /\ n \in Nat /\ W \in Nat
      /\ \A j \in 1 .. Len(t) : t[j].addr \in Nat
  BY LayoutFacts, Constants
<1>2. [t[i] EXCEPT !.size = n] = Record(t[i].addr, n) /\ Record(t[i].addr, n) \in RecordType
  BY <1>1 DEF Record, RecordType
<1>3. Resized(t, i, n) = [t EXCEPT ![i] = Record(t[i].addr, n)]
  BY <1>2 DEF Resized
<1> DEFINE u == [t EXCEPT ![i] = Record(t[i].addr, n)]
<1>4. u[i] = Record(t[i].addr, n) /\ (i > 1 => u[i - 1] = t[i - 1])
  BY <1>1
<1> HIDE DEF u
<1>5. u[i].addr = t[i].addr /\ u[i].size = n
  BY <1>4 DEF Record
<1>6. Hole(u, i) = Above(t, i) - t[i].addr - n - W
  <2> DEFINE p == t[i].addr
  <2>1. CASE i = 1
    BY <1>5, <2>1 DEF Hole, Above
  <2>2. CASE i # 1
    <3> DEFINE o == t[i - 1].addr
    <3>1. i > 1 /\ i - 1 \in 1 .. Len(t)
      BY <1>1, <2>2
    <3>2. o \in Nat /\ p \in Nat /\ Hole(u, i) = o - p - n - 2 * W /\ Above(t, i) = o - W
      BY <1>1, <1>4, <1>5, <2>2, <3>1 DEF Hole, Above
    <3> HIDE DEF o, p
    <3>3. Hole(u, i) = Above(t, i) - p - n - W
      BY <1>1, <3>2
    <3> QED BY <3>3 DEF p
  <2> QED BY <2>1, <2>2
<1> QED BY <1>2, <1>3, <1>6 DEF u, Replaced

\* A block resized where it is, or slid up.
LEMMA ReplacedChanges ==
  ASSUME MemoryInv, Up, NEW i \in 1 .. Len(table), NEW r \in RecordType,
         table[i].addr <= r.addr, r.addr + r.size + W <= Above(table, i),
         r.addr = table[i].addr \/ space.low <= Floor(table),
         NEW u, u = Replaced(table, i, r), Ends(u, space, "running")
  PROVE  MemoryInv' /\ HeapStep
<1>1. /\ Layout(table) /\ Spaced(space, Len(table), Floor(table)) /\ Floor(table) \in Int
      /\ W \in Nat /\ table[i].addr \in Nat /\ table[i] \in Elems(table) /\ r.addr \in Nat
  BY FloorFacts, LayoutFacts, Constants DEF MemoryInv, Elems, RecordType
<1>2. Layout(u)
  BY <1>1, ReplacedKeeps
<1>3. Len(u) = Len(table) /\ u[i] = r
  BY <1>1, <1>2, ReplacedKeeps
<1>4. Floor(u) = IF i = Len(table) THEN r.addr - W ELSE Floor(table)
  BY <1>1, <1>2, ReplacedKeeps
<1>5. /\ Elems(u) = (Elems(table) \ {table[i]}) \union {r}
      /\ \A c \in Elems(table) \ {table[i]} : \E j \in 1 .. Len(u) : j # i /\ c = u[j]
  BY <1>1, <1>2, ReplacedKeeps
<1>6. i = Len(table) => Floor(table) = table[i].addr - W
  <2>1. table = <<>> => Len(table) = 0
    BY EmptySeq
  <2> QED BY <2>1 DEF Floor, Lowest
<1>7. CASE Floor(u) = Floor(table)
  BY <1>1, <1>2, <1>3, <1>5, <1>7, Changes
<1>8. CASE Floor(u) # Floor(table)
  <2>1. i = Len(table) /\ r.addr # table[i].addr /\ Floor(u) = r.addr - W
    BY <1>4, <1>6, <1>8
  <2>2. Floor(table) <= Floor(u)
    <3>1. Floor(table) = table[i].addr - W
      BY <1>6, <2>1
    <3> QED BY <1>1, <2>1, <3>1
  <2>3. space.low \in Nat /\ space.top \in Nat /\ space.top <= Floor(table)
    BY <1>1, StackedFacts DEF Spaced, Stacked
  <2>4. Floor(u) \in Int
    BY <1>1, <2>1
  <2>5. space.top <= Floor(u) /\ space.low <= Floor(u)
    BY <1>1, <2>1, <2>2, <2>3, <2>4
  <2>6. Spaced(space, Len(table), Floor(u))
    BY <1>1, <1>2, <2>5, MoveTo
  <2>7. Spaced(space, Len(u), Floor(u))
    BY <1>3, <2>6
  <2> QED BY <1>1, <1>2, <1>3, <1>5, <2>7, Changes
<1> QED BY <1>7, <1>8

LEMMA ExpandKeeps ==
  ASSUME MemoryInv, NEW a \in Pointers, NEW n \in Sizes \union {0}, Expand(a, n)
  PROVE  MemoryInv' /\ HeapStep
<1> DEFINE i == IndexOf(table, a)
           u == Resized(table, i, n)
<1>1. /\ Up
      /\ IF Audit(space, table) # "running" THEN Ends(table, space, Audit(space, table))
         ELSE IF i = 0 THEN Ends(table, space, "stopped")
         ELSE IF ~Expands(table, i, n) THEN UNCHANGED vars
         ELSE IF n = table[i].size \/ CanInit(space, a, n) THEN Ends(u, space, "running")
         ELSE Ends(table, space, "faulted")
  BY DEF Expand
<1>2. /\ i \in 0 .. Len(table) /\ Layout(table) /\ Spaced(space, Len(table), Floor(table))
      /\ n \in Nat /\ W \in Nat
  BY PointersFacts, Constants DEF MemoryInv
<1>3. ASSUME NEW st \in Statuses, Ends(table, space, st) PROVE MemoryInv' /\ HeapStep
  BY <1>1, <1>2, <1>3, Stays
<1>4. {"stopped", "faulted", Audit(space, table)} \subseteq Statuses
  BY <1>2, NoOverlaps DEF Statuses
<1>5. CASE i # 0 /\ Expands(table, i, n) /\ Ends(u, space, "running")
  <2>1. i \in 1 .. Len(table) /\ table[i] \in Elems(table)
    BY <1>2, <1>5, LayoutFacts DEF Elems
  <2> HIDE DEF i
  <2> DEFINE r == Record(table[i].addr, n)
  <2>2. table[i].addr + n + W <= Above(table, i) /\ table[i].addr \in Nat
    BY <1>2, <1>5, <2>1, ExpandsFits, LayoutFacts
  <2>3. u = Replaced(table, i, r) /\ r \in RecordType /\ r.addr = table[i].addr /\ r.size = n
    BY <1>2, <2>1, ResizedIs DEF Record
  <2> HIDE DEF r
  <2>4. table[i].addr <= r.addr /\ r.addr + r.size + W <= Above(table, i)
    BY <2>2, <2>3
  <2> HIDE DEF u
  <2>5. r \in RecordType
    BY <2>3
  <2>6. u = Replaced(table, i, r)
    BY <2>3
  <2> QED BY <1>1, <1>5, <2>1, <2>3, <2>4, <2>5, <2>6, ReplacedChanges
<1> QED BY <1>1, <1>3, <1>4, <1>5, Same

\* FlipUp's table: block i taken out, and its new record put in above.
LEMMA FlippedFits ==
  ASSUME NEW t, Layout(t), NEW i \in 1 .. Len(t), NEW k \in 1 .. i, NEW r, Fits(t, k, r)
  PROVE  Fits(Removed(t, i), k, r) /\ t[i].addr <= r.addr
<1> DEFINE w == Removed(t, i)
<1>1. /\ Layout(w) /\ Len(w) = Len(t) - 1 /\ Len(t) \in Nat /\ W \in Nat
      /\ Above(w, k) = Above(t, k)
      /\ \A j \in 1 .. Len(w) : w[j] = IF j < i THEN t[j] ELSE t[j + 1]
      /\ \A j \in 1 .. Len(t) : t[j].addr \in Nat /\ t[j].size \in Nat
      /\ r.addr \in Nat
  <2>1. r.addr \in Nat
    BY Constants DEF Fits, RecordType
  <2> QED BY <2>1, LayoutFacts, RemovedKeeps, Constants, SMTT(30)
<1> HIDE DEF w
<1>2. k \in 1 .. Len(t) /\ t[k].addr + t[k].size + 2 * W <= r.addr
  BY <1>1 DEF Fits, Slot
<1>3. ASSUME NEW j \in (k + 1) .. Len(t) PROVE t[j].addr + t[j].size + 2 * W <= t[k].addr
  BY <1>1, <1>2 DEF Layout
<1>4. ASSUME NEW j \in (k + 1) .. Len(t) PROVE t[j].addr + t[j].size + 2 * W <= r.addr
  <2> DEFINE x == t[j].addr + t[j].size + 2 * W
             y == t[k].addr
             z == t[k].size
  <2>1. x \in Int /\ y \in Nat /\ z \in Nat /\ x <= y /\ y + z + 2 * W <= r.addr
    <3>1. j \in 1 .. Len(t)
      BY <1>1
    <3>2. t[j].addr \in Nat /\ t[j].size \in Nat
      BY <1>1, <3>1
    <3>3. x \in Int /\ y \in Nat /\ z \in Nat
      BY <1>1, <1>2, <3>2
    <3> QED BY <1>2, <1>3, <3>3
  <2> HIDE DEF x, y, z
  <2>2. x <= r.addr
    BY <1>1, <2>1
  <2> QED BY <2>2 DEF x
<1>5. k <= Len(w) => w[k].addr + w[k].size + 2 * W <= r.addr
  <2> SUFFICES ASSUME k <= Len(w) PROVE w[k].addr + w[k].size + 2 * W <= r.addr
    OBVIOUS
  <2>1. CASE k < i
    <3>1. w[k] = t[k]
      <4>1. k \in 1 .. Len(w)
        BY <1>1
      <4> QED BY <1>1, <2>1, <4>1
    <3> QED BY <1>2, <3>1
  <2>2. CASE k = i
    <3>1. w[k] = t[k + 1] /\ k + 1 \in (k + 1) .. Len(t)
      BY <1>1, <2>2
    <3> QED BY <1>4, <3>1
  <2> QED BY <2>1, <2>2
<1>6. t[i].addr <= r.addr
  <2> DEFINE x == t[i].addr
             y == t[i].size
  <2>1. x \in Nat /\ y \in Nat /\ x + y + 2 * W <= r.addr
    <3>1. k = i \/ i \in (k + 1) .. Len(t)
      BY <1>1
    <3> QED BY <1>1, <1>2, <1>4, <3>1
  <2> HIDE DEF x, y
  <2>2. x <= r.addr
    BY <1>1, <2>1
  <2> QED BY <2>2 DEF x
<1>7. k \in 1 .. (Len(w) + 1)
  BY <1>1
<1> QED BY <1>1, <1>5, <1>6, <1>7 DEF Fits, Slot, w

LEMMA FlippedIs ==
  ASSUME NEW t, Layout(t), NEW i \in 1 .. Len(t), NEW k \in 1 .. i, NEW r, Fits(t, k, r)
  PROVE  Inserted(SubSeq(t, 1, i - 1), r) \o SubSeq(t, i + 1, Len(t)) = InsertAt(Removed(t, i), k, r)
<1> DEFINE before == SubSeq(t, 1, i - 1)
           after  == SubSeq(t, i + 1, Len(t))
           w      == Removed(t, i)
           x      == InsertAt(before, k, r)
           y      == InsertAt(w, k, r)
<1>1. t \in Seq(RecordType) /\ Len(t) \in Nat /\ r \in RecordType
  BY LayoutFacts DEF Layout, Fits
<1>2. /\ before \in Seq(RecordType) /\ Len(before) = i - 1
      /\ \A j \in 1 .. (i - 1) : before[j] = t[j]
      /\ after \in Seq(RecordType) /\ Len(after) = Len(t) - i
      /\ \A j \in 1 .. (Len(t) - i) : after[j] = t[i + j]
  BY <1>1, Parts
<1>3. /\ w \in Seq(RecordType) /\ Len(w) = Len(t) - 1
      /\ \A j \in 1 .. (Len(t) - 1) : w[j] = IF j < i THEN t[j] ELSE t[j + 1]
  BY <1>1, RemovedElements
<1> HIDE DEF before, after, w
<1>4. Layout(before)
  <2>1. \A j \in 1 .. Len(before) : before[j] = t[j] /\ j \in 1 .. Len(t)
    BY <1>1, <1>2
  <2> QED BY <1>2, <2>1 DEF Layout
<1>5. Slot(before, k, r)
  <2>1. Above(before, k) = Above(t, k)
    <3>1. k # 1 => k - 1 \in 1 .. (i - 1)
      OBVIOUS
    <3> QED BY <1>2, <3>1 DEF Above
  <2>2. k \in 1 .. (Len(before) + 1) /\ (k <= Len(before) => before[k] = t[k])
    BY <1>2
  <2>3. k <= Len(t)
    BY <1>1
  <2> QED BY <2>1, <2>2, <2>3 DEF Fits, Slot
<1>6. Inserted(before, r) = x
  <2>1. r.addr \in Int /\ r.size \in Nat
    BY <1>1, Constants DEF RecordType
  <2> QED BY <1>4, <1>5, <2>1, InsertedIs
<1>7. /\ x \in Seq(RecordType) /\ Len(x) = Len(before) + 1
      /\ \A j \in 1 .. (Len(before) + 1) :
           x[j] = IF j < k THEN before[j] ELSE IF j = k THEN r ELSE before[j - 1]
  <2>1. k \in 1 .. (Len(before) + 1)
    BY <1>2
  <2>2. before \in Seq(RecordType) /\ r \in RecordType
    BY <1>1, <1>2
  <2> QED BY <2>1, <2>2, InsertAtElements
<1>8. /\ y \in Seq(RecordType) /\ Len(y) = Len(w) + 1
      /\ \A j \in 1 .. (Len(w) + 1) :
           y[j] = IF j < k THEN w[j] ELSE IF j = k THEN r ELSE w[j - 1]
  <2>1. k \in 1 .. (Len(w) + 1)
    BY <1>1, <1>3
  <2>2. w \in Seq(RecordType) /\ r \in RecordType
    BY <1>1, <1>3
  <2> QED BY <2>1, <2>2, InsertAtElements
<1> DEFINE z == x \o after
<1> HIDE DEF x, y
<1>9. /\ z \in Seq(RecordType) /\ Len(z) = Len(x) + Len(after)
      /\ \A j \in 1 .. (Len(x) + Len(after)) :
           z[j] = IF j <= Len(x) THEN x[j] ELSE after[j - Len(x)]
  BY <1>2, <1>7, ConcatProperties
<1> HIDE DEF z
<1>10. Len(z) = Len(t) /\ Len(y) = Len(t) /\ Len(x) = i
  BY <1>1, <1>2, <1>3, <1>7, <1>8, <1>9
<1>11. ASSUME NEW j \in 1 .. Len(t) PROVE z[j] = y[j]
  <2>1. CASE j <= i
    <3>1. z[j] = x[j] /\ j \in 1 .. (Len(before) + 1)
      BY <1>1, <1>2, <1>7, <1>9, <1>10, <2>1
    <3>2. y[j] = IF j < k THEN w[j] ELSE IF j = k THEN r ELSE w[j - 1]
      BY <1>1, <1>3, <1>8
    <3>3. x[j] = IF j < k THEN before[j] ELSE IF j = k THEN r ELSE before[j - 1]
      BY <1>7, <3>1
    <3>4. j < k => before[j] = t[j] /\ w[j] = t[j]
      <4>1. j < k => j \in 1 .. (i - 1) /\ j \in 1 .. (Len(t) - 1) /\ j < i
        BY <1>1, <2>1
      <4> QED BY <1>2, <1>3, <4>1
    <3>5. j > k => before[j - 1] = t[j - 1] /\ w[j - 1] = t[j - 1]
      <4>1. j > k => j - 1 \in 1 .. (i - 1) /\ j - 1 \in 1 .. (Len(t) - 1) /\ j - 1 < i
        BY <1>1, <2>1
      <4> QED BY <1>2, <1>3, <4>1
    <3> QED BY <3>1, <3>2, <3>3, <3>4, <3>5
  <2>2. CASE j > i
    <3>1. j - i \in 1 .. (Len(t) - i) /\ j \in 1 .. (Len(x) + Len(after)) /\ ~(j <= Len(x))
      BY <1>1, <1>2, <1>10, <2>2
    <3>2. z[j] = after[j - i]
      BY <1>9, <1>10, <3>1
    <3>3. after[j - i] = t[i + (j - i)] /\ i + (j - i) = j
      BY <1>1, <1>2, <3>1
    <3>4. y[j] = w[j - 1]
      BY <1>1, <1>3, <1>8, <2>2
    <3>5. j - 1 \in 1 .. (Len(t) - 1) /\ ~(j - 1 < i) /\ (j - 1) + 1 = j
      BY <1>1, <2>2
    <3>6. w[j - 1] = t[(j - 1) + 1]
      BY <1>3, <3>5
    <3> QED BY <3>2, <3>3, <3>4, <3>5, <3>6
  <2> QED BY <2>1, <2>2
<1>12. z = y
  <2>1. Len(z) = Len(y) /\ \A j \in 1 .. Len(z) : z[j] = y[j]
    BY <1>10, <1>11
  <2> QED BY <1>8, <1>9, <2>1, SeqEqual
<1> QED BY <1>6, <1>12 DEF z, x, y, before, after, w

LEMMA FlipUpKeeps ==
  ASSUME MemoryInv, Up, Audit(space, table) = "running", NEW i \in 1 .. Len(table), NEW n \in Sizes,
         NEW holes, holes = Holes(table, n, table[i].addr + table[i].size + W), holes # {},
         FlipUp(i, n, holes)
  PROVE  MemoryInv' /\ HeapStep
<1> DEFINE k == BestHole(table, holes, n)
           r == Record(Place(table, k, n), n)
           w == Removed(table, i)
           u == Inserted(SubSeq(table, 1, i - 1), r) \o SubSeq(table, i + 1, Len(table))
<1>1. Ends(u, space, "running") \/ Ends(table, space, "faulted")
  BY DEF FlipUp
<1>2. /\ Layout(table) /\ Spaced(space, Len(table), Floor(table)) /\ Floor(table) \in Int
      /\ Len(table) \in Nat /\ W \in Nat /\ table[i] \in Elems(table)
      /\ \A j \in 1 .. Len(table) : table[j].addr \in Nat /\ table[j].size \in Nat
  BY FloorFacts, LayoutFacts, Constants DEF MemoryInv, Elems
<1>3. space.low <= Floor(table) /\ space.low \in Nat /\ space.top \in Nat /\ space.top <= Floor(table)
  BY <1>2, AuditedFloor, StackedFacts DEF Spaced, Stacked
<1>4. CASE Ends(table, space, "faulted")
  BY <1>2, <1>4, Stays DEF Statuses
<1>5. CASE Ends(u, space, "running")
  <2>1. k \in 1 .. Len(table) /\ k \in holes /\ Fits(table, k, r)
    <3>1. k = BestHole(table, holes, n)
      OBVIOUS
    <3> HIDE DEF k
    <3> QED BY <1>2, <3>1, Holey
  <2> HIDE DEF k
  <2>2. k <= i
    <3> SUFFICES ASSUME ~(k <= i) PROVE FALSE
      OBVIOUS
    <3> DEFINE x == table[i].addr
               y == table[i].size
               z == table[k - 1].addr
               e == AlignedSize(n)
    <3>1. k > 1 /\ k - 1 \in 1 .. Len(table) /\ (k - 1 = i \/ i < k - 1)
      BY <1>2, <2>1
    <3>2. x + y + W < z - e
      BY <2>1, <3>1 DEF Holes
    <3>3. x \in Nat /\ y \in Nat /\ z \in Nat /\ z <= x
      <4>1. i < k - 1 => z < x
        BY <1>2, <3>1, Descending
      <4> QED BY <1>2, <3>1, <4>1
    <3>4. e \in Nat
      <4>1. n \in Nat /\ n >= 1
        BY Constants
      <4> QED BY <4>1, AlignedFacts
    <3> HIDE DEF x, y, z, e
    <3> QED BY <1>2, <3>2, <3>3, <3>4
  <2>3. k \in 1 .. i
    BY <2>1, <2>2
  <2> HIDE DEF r
  <2>4. Fits(w, k, r) /\ table[i].addr <= r.addr /\ r.addr \in Nat
    <3>1. r.addr \in Nat
      BY <2>1, Constants DEF Fits, RecordType
    <3> QED BY <1>2, <2>1, <2>3, <3>1, FlippedFits
  <2>5. u = InsertAt(w, k, r)
    BY <1>2, <2>1, <2>3, FlippedIs
  <2>6. /\ Layout(w) /\ Len(w) = Len(table) - 1 /\ Elems(w) = Elems(table) \ {table[i]}
        /\ i < Len(table) => Floor(w) = Floor(table)
        /\ i = Len(table) => Floor(table) + W <= Floor(w)
    BY <1>2, RemovedKeeps
  <2> HIDE DEF u, w
  <2>7. Layout(u)
    BY <2>4, <2>5, <2>6, InsertAtKeeps
  <2>8. /\ Len(u) = Len(w) + 1 /\ k \in 1 .. Len(u) /\ u[k] = r
        /\ Floor(u) = IF k = Len(w) + 1 THEN r.addr - W ELSE Floor(w)
    BY <2>4, <2>5, <2>6, <2>7, InsertAtKeeps
  <2>9. /\ Elems(u) = Elems(w) \union {r}
        /\ \A c \in Elems(w) : \E j \in 1 .. Len(u) : j # k /\ c = u[j]
    BY <2>4, <2>5, <2>6, <2>7, InsertAtKeeps
  <2>10. Len(u) = Len(table)
    BY <1>2, <2>6, <2>8
  <2>11. Floor(table) <= Floor(u) /\ Floor(u) \in Int
    <3>1. Floor(u) \in Int /\ Floor(w) \in Int
      BY <2>6, <2>7, FloorFacts
    <3>2. Floor(table) <= Floor(w)
      BY <1>2, <2>6, <3>1
    <3>3. CASE k = Len(w) + 1
      <4>1. i = Len(table) /\ Floor(u) = r.addr - W
        BY <1>2, <2>3, <2>6, <2>8, <3>3
      <4>2. Floor(table) = table[i].addr - W
        <5>1. table # <<>>
          BY <4>1, EmptySeq
        <5> QED BY <4>1, <5>1 DEF Floor, Lowest
      <4> QED BY <1>2, <2>4, <3>1, <4>1, <4>2
    <3>4. CASE k # Len(w) + 1
      BY <2>8, <3>1, <3>2, <3>4
    <3> QED BY <3>3, <3>4
  <2>12. space.top <= Floor(u) /\ space.low <= Floor(u)
    BY <1>2, <1>3, <2>11
  <2>13. Spaced(space, Len(table), Floor(u))
    BY <1>2, <2>7, <2>12, MoveTo
  <2>14. Spaced(space, Len(u), Floor(u))
    BY <2>10, <2>13
  <2> QED BY <1>2, <1>5, <2>6, <2>7, <2>8, <2>9, <2>14, Changes
<1> QED BY <1>1, <1>4, <1>5

LEMMA SlideKeeps ==
  ASSUME MemoryInv, Up, Audit(space, table) = "running", NEW i \in 1 .. Len(table), NEW n \in Sizes,
         Expands(table, i, n), ExpandAndSlide(i, n)
  PROVE  MemoryInv' /\ HeapStep
<1> DEFINE p == table[i].addr
           b == Above(table, i) - n - W
           r == Record(b, n)
           u == Slid(table, i, n)
<1>1. /\ Layout(table) /\ Spaced(space, Len(table), Floor(table)) /\ Floor(table) \in Int
      /\ Len(table) \in Nat /\ W \in Nat /\ High \in Nat /\ n \in Nat /\ n >= 1
      /\ p \in Nat /\ table[i].size \in Nat
  BY FloorFacts, LayoutFacts, Constants DEF MemoryInv
<1>2. space.low <= Floor(table) /\ space.low \in Nat
  BY <1>1, AuditedFloor, StackedFacts DEF Spaced
<1>3. Above(table, i) \in Int /\ Above(table, i) <= High /\ p + n + W <= Above(table, i)
  <2>1. i \in 1 .. (Len(table) + 1)
    BY <1>1
  <2> QED BY <1>1, <2>1, AboveFacts, ExpandsFits
<1>4. b \in Nat /\ p <= b /\ b + n + W = Above(table, i) /\ b <= High
  <2> DEFINE q == Above(table, i)
  <2>1. q \in Int /\ q <= High /\ p + n + W <= q /\ b = q - n - W
    BY <1>3
  <2> HIDE DEF q, p, b
  <2>2. b \in Nat /\ p <= b /\ b + n + W = q /\ b <= High
    BY <1>1, <2>1
  <2> QED BY <2>2 DEF q
<1>5. u = Replaced(table, i, r)
  <2>1. Hole(Resized(table, i, n), i) = Above(table, i) - p - n - W
    BY <1>1, ResizedIs
  <2>2. p + Hole(Resized(table, i, n), i) = b
    BY <1>1, <1>3, <2>1
  <2> QED BY <2>2 DEF Slid, Replaced
<1>6. r \in RecordType /\ r.addr = b /\ r.size = n
  BY <1>1, <1>4 DEF Record, RecordType
<1>7. u[i].addr = b
  BY <1>1, <1>5, <1>6, LayoutFacts DEF Replaced
<1>8. Floor(table) + W <= p
  <2>1. table # <<>>
    BY <1>1, EmptySeq
  <2>2. Lowest(table) = Floor(table) + W /\ Lowest(table) <= table[i].addr
    BY <1>1, <2>1, FloorFacts
  <2> QED BY <2>2
<1> HIDE DEF p, b, r, u
<1>9. ~(High - space.low < u[i].addr - p + Track)
  <2>1. Track = 2 * W
    BY Constants
  <2> QED BY <1>1, <1>2, <1>3, <1>4, <1>7, <1>8, <2>1
<1>10. Ends(u, space, "running") \/ Ends(table, space, "faulted")
  BY <1>9 DEF ExpandAndSlide, u, p
<1>11. CASE Ends(table, space, "faulted")
  BY <1>1, <1>11, Stays DEF Statuses
<1>12. CASE Ends(u, space, "running")
  <2>1. table[i].addr <= r.addr /\ r.addr + r.size + W <= Above(table, i)
    BY <1>1, <1>3, <1>4, <1>6 DEF p
  <2>2. r \in RecordType
    BY <1>6
  <2> QED BY <1>2, <1>5, <1>12, <2>1, <2>2, ReplacedChanges
<1> QED BY <1>10, <1>11, <1>12

LEMMA ToBottomKeeps ==
  ASSUME MemoryInv, Up, NEW i \in 1 .. Len(table), NEW n \in Sizes, NEW got \in Attempts,
         ToBottom(i, n, got)
  PROVE  MemoryInv' /\ HeapStep
<1> DEFINE a == Place(table, Len(table) + 1, n)
           r == Record(a, n)
           s == Bottomed(space, table, n, got)
           w == Removed(table, i)
           meta == MetaFreed(s, table, i)
           u == Inserted(w, r)
<1>1. /\ Within(table, s)
      /\ \/ Ends(table, s, "running")
         \/ Ends(table, s, "faulted")
         \/ ~NoBottom(space, table, n, got) /\ CanInit(s, a, n) /\ Ends(u, meta, "running")
  BY DEF ToBottom
<1>2. /\ Layout(table) /\ Spaced(space, Len(table), Floor(table)) /\ Floor(table) \in Int
      /\ Len(table) \in Nat /\ W \in Nat /\ n \in Nat
  BY FloorFacts, LayoutFacts, Constants DEF MemoryInv
<1>3. s.top <= s.low
  BY <1>1 DEF Within
<1>4. Spaced(s, Len(table), Floor(table))
  <2>1. s = Bottomed(space, table, n, got)
    OBVIOUS
  <2> HIDE DEF s
  <2> QED BY <1>2, <1>3, <2>1, BottomKeeps
<1>5. CASE \E st \in {"running", "faulted"} : Ends(table, s, st)
  <2> HIDE DEF s
  <2> QED BY <1>4, <1>5, Stays DEF Statuses
<1>6. CASE ~NoBottom(space, table, n, got) /\ CanInit(s, a, n) /\ Ends(u, meta, "running")
  <2>1. s.low <= a - W /\ Fits(table, Len(table) + 1, r) /\ r.addr = a /\ a \in Nat /\ r.size = n
    <3>1. s = Bottomed(space, table, n, got) /\ a = Place(table, Len(table) + 1, n)
      OBVIOUS
    <3>2. ~NoBottom(space, table, n, got) /\ CanInit(s, a, n) /\ r.size = n
      BY <1>6 DEF Record
    <3> HIDE DEF s, a
    <3> QED BY <1>2, <1>3, <3>1, <3>2, BottomFits
  <2> HIDE DEF a, s, r
  <2>2. /\ Layout(w) /\ Len(w) = Len(table) - 1 /\ Elems(w) = Elems(table) \ {table[i]}
        /\ Len(w) \in Nat /\ Floor(w) \in Int
    BY <1>2, RemovedKeeps, FloorFacts
  <2>3. /\ Spaced(meta, Len(w), Floor(w)) /\ IndexKept(s, meta, Len(w))
        /\ Floor(table) <= Floor(w) /\ Track * Len(w) + Track = Track * Len(table)
    BY <1>2, <1>4, MetaFreedKeeps
  <2> HIDE DEF w, meta
  <2>4. Fits(w, Len(w) + 1, r) /\ r.addr \in Int /\ r.size \in Nat
    <3>1. Above(table, Len(table) + 1) = Floor(table)
      <4>1. Len(table) + 1 \in 1 .. (Len(table) + 1)
        BY <1>2
      <4> QED BY <1>2, <4>1, AboveFacts
    <3>2. Above(w, Len(w) + 1) = Floor(w)
      <4>1. Len(w) + 1 \in 1 .. (Len(w) + 1)
        BY <2>2
      <4> QED BY <2>2, <4>1, AboveFacts
    <3>3. r.addr + r.size + W <= Floor(w)
      <4>1. r.addr + r.size + W <= Floor(table)
        BY <2>1, <3>1 DEF Fits, Slot
      <4> QED BY <1>2, <2>1, <2>2, <2>3, <4>1
    <3>4. Len(w) + 1 \in 1 .. (Len(w) + 1) /\ ~(Len(w) + 1 <= Len(w))
      BY <2>2
    <3> QED BY <1>2, <2>1, <3>2, <3>3, <3>4 DEF Fits, Slot
  <2>5. u = InsertAt(w, Len(w) + 1, r)
    BY <2>2, <2>4, InsertedIs DEF Fits
  <2> HIDE DEF u
  <2>6. Layout(u)
    BY <2>2, <2>4, <2>5, InsertAtKeeps
  <2>7. /\ Len(u) = Len(w) + 1 /\ u # <<>> /\ Len(w) + 1 \in 1 .. Len(u) /\ u[Len(w) + 1] = r
        /\ Floor(u) = r.addr - W
    BY <2>2, <2>4, <2>5, <2>6, InsertAtKeeps
  <2>8. /\ Elems(u) = Elems(w) \union {r}
        /\ \A c \in Elems(w) : \E j \in 1 .. Len(u) : j # Len(w) + 1 /\ c = u[j]
    BY <2>2, <2>4, <2>5, <2>6, InsertAtKeeps
  <2>9. meta.top <= Floor(u) /\ meta.low <= Floor(u)
    <3>1. meta.top <= Floor(u)
      BY <1>6, <2>7 DEF Ends, Within, Floor
    <3>2. meta.low = s.low
      BY <2>3 DEF IndexKept
    <3> QED BY <2>1, <2>7, <3>1, <3>2
  <2>10. Spaced(meta, Len(w), Floor(u))
    BY <2>2, <2>3, <2>6, <2>9, MoveTo
  <2>11. Spaced(meta, Len(u), Floor(u))
    <3>1. Track * Len(w) + Track <= meta.top
      BY <1>4, <2>3 DEF Spaced, IndexFits, IndexKept
    <3>2. meta.top \in Int
      BY <2>2, <2>3, StackedFacts DEF Spaced
    <3> QED BY <2>2, <2>7, <2>10, <3>1, <3>2, OneMore
  <2>12. table[i] \in Elems(table)
    BY <1>2, LayoutFacts DEF Elems
  <2> QED BY <1>6, <2>2, <2>6, <2>7, <2>8, <2>11, <2>12, Changes
<1> QED BY <1>1, <1>5, <1>6

LEMMA ReallocKeeps ==
  ASSUME MemoryInv, NEW a \in Pointers, NEW n \in Sizes, Realloc(a, n)
  PROVE  MemoryInv' /\ HeapStep
<1> DEFINE i == IndexOf(table, a)
           holes == Holes(table, n, a + table[i].size + W)
<1>1. /\ Up
      /\ IF Audit(space, table) # "running" THEN Ends(table, space, Audit(space, table))
         ELSE IF i = 0 THEN Ends(table, space, "stopped")
         ELSE IF holes # {} THEN FlipUp(i, n, holes)
         ELSE IF Expands(table, i, n) THEN ExpandAndSlide(i, n)
         ELSE \E got \in Attempts : ToBottom(i, n, got)
  BY DEF Realloc
<1>2. /\ i \in 0 .. Len(table) /\ Layout(table) /\ Spaced(space, Len(table), Floor(table))
      /\ i # 0 => table[i].addr = a
  BY PointersFacts DEF MemoryInv
<1>3. CASE Audit(space, table) # "running" \/ i = 0
  <2>1. {"stopped", Audit(space, table)} \subseteq Statuses
    BY <1>2, NoOverlaps DEF Statuses
  <2> QED BY <1>1, <1>2, <1>3, <2>1, Stays
<1>4. CASE Audit(space, table) = "running" /\ i # 0
  <2>1. i \in 1 .. Len(table) /\ table[i].addr = a
    BY <1>2, <1>4, LayoutFacts
  <2> HIDE DEF i
  <2>2. holes = Holes(table, n, table[i].addr + table[i].size + W)
    BY <2>1
  <2> HIDE DEF holes
  <2>3. CASE holes # {} /\ FlipUp(i, n, holes)
    BY <1>1, <1>4, <2>1, <2>2, <2>3, FlipUpKeeps
  <2>4. CASE Expands(table, i, n) /\ ExpandAndSlide(i, n)
    BY <1>1, <1>4, <2>1, <2>4, SlideKeeps
  <2>5. ASSUME NEW got \in Attempts, ToBottom(i, n, got)
        PROVE  MemoryInv' /\ HeapStep
    BY <1>1, <2>1, <2>5, ToBottomKeeps
  <2> QED BY <1>1, <1>4, <2>3, <2>4, <2>5
<1> QED BY <1>3, <1>4
-------------------------------------------------------------------------------
(***************************************************************************)
(* The theorems                                                             *)
(***************************************************************************)
LEMMA InitKeeps ==
  ASSUME Init
  PROVE  MemoryInv /\ ViewOfHeap!Init
<1>1. /\ table = <<>> /\ status = "fresh"
      /\ space = [top |-> 0, low |-> High, committed |-> {}, denied |-> 0]
  BY DEF Init
<1>2. Len(table) = 0 /\ table \in Seq(RecordType) /\ Elems(table) = {}
  BY <1>1 DEF Elems
<1>3. Layout(table) /\ Floor(table) = High
  BY <1>1, <1>2 DEF Layout, Floor
<1>4. PageOf(0) = 0 /\ OnPage(0)
  <2>1. Page * 0 <= 0 /\ 0 < Page * 0 + Page
    BY Constants
  <2>2. PageOf(0) = 0
    BY <2>1, Constants, Quotient DEF PageOf
  <2> QED BY <2>1, <2>2, Constants, Pagewise
<1>5. PageOf(High) \in Int /\ High \in Nat
  BY Constants, Pagewise
<1>6. Stacked(space, High) /\ Exact(space, High)
  BY <1>1, <1>4, <1>5, Constants DEF Stacked, Exact, SpaceType
<1>7. IndexFits(space, Len(table))
  BY <1>1, <1>2, Constants DEF IndexFits
<1>8. MemoryInv
  BY <1>1, <1>3, <1>6, <1>7, Constants DEF MemoryInv, Spaced, Statuses
<1>9. ViewOfHeap!Init
  BY <1>1, <1>2 DEF ViewOfHeap!Init, Up
<1> QED BY <1>8, <1>9

LEMMA StepKeeps ==
  ASSUME MemoryInv, [Next]_vars
  PROVE  MemoryInv' /\ HeapStep
<1>1. ASSUME NEW n \in Sizes, NEW gotIndex \in Attempts, NEW gotPtr \in Attempts,
             Malloc(n, gotIndex, gotPtr)
      PROVE  MemoryInv' /\ HeapStep
  BY <1>1, MallocKeeps
<1>2. ASSUME NEW a \in Pointers, Free(a) PROVE MemoryInv' /\ HeapStep
  BY <1>2, FreeKeeps
<1>3. ASSUME NEW a \in Pointers, NEW n \in Sizes, Realloc(a, n) PROVE MemoryInv' /\ HeapStep
  BY <1>3, ReallocKeeps
<1>4. ASSUME NEW a \in Pointers, NEW n \in Sizes \union {0}, Expand(a, n)
      PROVE  MemoryInv' /\ HeapStep
  BY <1>4, ExpandKeeps
<1>5. CASE UNCHANGED vars
  BY <1>5, Same
<1> QED BY <1>1, <1>2, <1>3, <1>4, <1>5 DEF Next

\* What every call of the manager keeps.
THEOREM InvariantHolds == Spec => []MemoryInv
<1>1. Init => MemoryInv
  BY InitKeeps
<1>2. MemoryInv /\ [Next]_vars => MemoryInv'
  BY StepKeeps
<1> QED BY <1>1, <1>2, PTL DEF Spec

LEMMA InvGivesBlocksSound ==
  ASSUME MemoryInv
  PROVE  BlocksSound
<1> DEFINE f == Floor(table)
<1>1. /\ Layout(table) /\ Spaced(space, Len(table), f) /\ f \in Int /\ f <= High
      /\ DOMAIN table = 1 .. Len(table) /\ Len(table) \in Nat
      /\ W \in Nat /\ W >= 1 /\ High \in Nat /\ MaxDenials \in Nat
      /\ \A i \in 1 .. Len(table) : table[i].addr \in Nat /\ table[i].size \in Nat
  BY FloorFacts, LayoutFacts, Constants DEF MemoryInv
<1> HIDE DEF f
<1>2. /\ Stacked(space, f) /\ space.top \in Nat /\ space.low \in Nat /\ space.denied \in Nat
      /\ space.low <= High /\ space.committed \in SUBSET Int /\ space \in SpaceType
  BY <1>1, StackedFacts DEF Spaced, Stacked
<1>3. TypeOK
  <2>1. table \in Seq([addr : 0 .. High, size : Sizes \union {0}])
    BY <1>1 DEF Layout, RecordType
  <2>2. space.denied \in 0 .. MaxDenials /\ space.low \in 0 .. High
    BY <1>1, <1>2 DEF MemoryInv
  <2>3. space.committed \in SUBSET (0 .. High \div Page - 1)
    BY <1>2 DEF Stacked, PageOf
  <2>4. space \in [top : Nat, low : 0 .. High, committed : SUBSET (0 .. High \div Page - 1),
                   denied : 0 .. MaxDenials]
    BY <1>2, <2>2, <2>3 DEF SpaceType
  <2> QED BY <2>1, <2>4 DEF TypeOK, MemoryInv, Statuses
<1>4. ASSUME NEW i \in DOMAIN table
      PROVE  table[i].addr + table[i].size + W <= IF i = 1 THEN High ELSE table[i - 1].addr - W
  <2>1. i \in 1 .. (Len(table) + 1) /\ i <= Len(table)
    BY <1>1
  <2> QED BY <1>1, <2>1, AboveFacts DEF Above
<1>5. \A i \in DOMAIN table : IndexOf(table, table[i].addr) = i
  <2> TAKE i \in DOMAIN table
  <2> DEFINE a == table[i].addr
  <2>1. a \in Int /\ i \in 1 .. Len(table) /\ table[i].addr = a
    BY <1>1
  <2> HIDE DEF a
  <2>2. IndexOf(table, a) = i
    BY <1>1, <2>1, Found
  <2> QED BY <2>2 DEF a
<1>6. IndexOf(table, High) = 0
  <2>1. \A i \in 1 .. Len(table) : table[i].addr # High
    <3> TAKE i \in 1 .. Len(table)
    <3>1. table[i].addr + table[i].size + W <= High
      BY <1>1 DEF Layout
    <3> QED BY <1>1, <3>1
  <2>2. IndexOf(table, High) \in 0 .. Len(table)
    BY <1>1, Found
  <2>3. IndexOf(table, High) # 0 => table[IndexOf(table, High)].addr = High
    BY <1>1, Found, SMTT(30)
  <2> QED BY <1>1, <2>1, <2>2, <2>3
<1>7. Track * Len(table) <= space.top /\ space.top - Track * Len(table) <= 2 * Page
  <2> DEFINE m == Track * Len(table)
  <2>1. m \in Nat /\ Page \in Nat /\ m <= space.top /\ space.top <= m + 2 * Page
    BY <1>1, IndexWords, Constants DEF Spaced, IndexFits
  <2> HIDE DEF m
  <2>2. m <= space.top /\ space.top - m <= 2 * Page
    BY <1>2, <2>1
  <2> QED BY <2>2 DEF m
<1>8. 0 .. (space.top \div Page - 1) \subseteq space.committed
  BY <1>2 DEF Stacked, PageOf
<1>9. table # <<>> => space.low <= Lowest(table)
  <2>1. table # <<>> => Lowest(table) = f + W
    BY <1>1, FloorFacts DEF f
  <2> QED BY <1>2, <2>1 DEF Stacked
<1> QED BY <1>3, <1>4, <1>5, <1>6, <1>7, <1>8, <1>9 DEF BlocksSound

(* Whatever is asked for and whatever the OS denies: the state has its type, the
   blocks keep two words between them and one under the bound, the binary search
   finds the live blocks and no others, the index is committed and has room for
   the records with at most two spare pages, and no block is below the lowest page
   in use (memory.cpp, the allocator's bookkeeping). *)
THEOREM BlocksStaySound == Spec => []BlocksSound
<1>1. MemoryInv => BlocksSound
  BY InvGivesBlocksSound
<1> QED BY <1>1, InvariantHolds, PTL

(* No audit ever reports an overlap or a size out of bounds; and until the OS
   denies something the committed pages are exactly those between the manager's
   bounds (__DetectOverwrites and the compactions). *)
THEOREM AuditsAlwaysPass == Spec => []AuditsPass
<1>1. MemoryInv => AuditsPass
  <2> SUFFICES ASSUME MemoryInv PROVE AuditsPass
    OBVIOUS
  <2>1. status # "corrupted"
    BY DEF MemoryInv, Statuses
  <2>2. space.denied = 0 => Exact(space, Floor(table))
    BY DEF MemoryInv, Spaced
  <2> QED BY <2>1, <2>2 DEF AuditsPass, Exact, PageOf, Floor
<1> QED BY <1>1, InvariantHolds, PTL

(* To its callers the manager is a heap: each call gives out a block that shares no
   byte with the others, takes one back, changes or moves one, or ends the program,
   and leaves the other blocks where they are. *)
THEOREM ImplementsTheHeap == Spec => ImplementsHeap
<1>1. Init => ViewOfHeap!Init
  BY InitKeeps
<1>2. MemoryInv /\ [Next]_vars => [ViewOfHeap!Next]_(ViewOfHeap!heapVars)
  BY StepKeeps DEF HeapStep
<1> QED BY <1>1, <1>2, InvariantHolds, PTL DEF Spec, ImplementsHeap, ViewOfHeap!Spec

-------------------------------------------------------------------------------
(***************************************************************************)
(* Committed memory stays with the blocks                                   *)
(***************************************************************************)
\* From the page of address a up, r has every page that s has.
Kept(s, r, a) == \A p \in s.committed : PageOf(a) <= p => p \in r.committed

LEMMA KeptMapped ==
  ASSUME NEW s, NEW r, NEW a \in Int, NEW n \in Int, Kept(s, r, a), Mapped(s, a, n)
  PROVE  Mapped(r, a, n)
<1>1. PageOf(a) \in Int /\ PageOf(a + n - 1) \in Int
  BY Pagewise
<1>2. \A p \in PageOf(a) .. PageOf(a + n - 1) : PageOf(a) <= p /\ p \in s.committed
  BY <1>1 DEF Mapped, PageOf
<1>3. \A p \in PageOf(a) .. PageOf(a + n - 1) : p \in r.committed
  BY <1>2 DEF Kept
<1> QED BY <1>3 DEF Mapped, PageOf

\* The index gives up only what is below its top.
LEMMA IndexReleaseSpares ==
  ASSUME NEW s \in SpaceType, NEW t, NEW a \in Int, s.top <= a
  PROVE  Kept(s, CompactIndex(s, t), a) /\ Kept(s, DesperateCompactIndex(s, t), a)
<1>1. s.top \in Int /\ s.committed \in SUBSET Int
  BY DEF SpaceType
<1>2. PageOf(s.top) \in Int /\ PageOf(a) \in Int /\ PageOf(s.top) <= PageOf(a)
  BY <1>1, Pagewise, PageOrder
<1>3. ReleaseIndexPage(s).committed = s.committed \ {PageOf(s.top) - 1}
  BY ReleaseIndexFields
<1>4. Kept(s, ReleaseIndexPage(s), a)
  BY <1>1, <1>2, <1>3 DEF Kept
<1>5. Kept(s, s, a)
  BY DEF Kept
<1> QED BY <1>4, <1>5 DEF CompactIndex, DesperateCompactIndex

LEMMA PtrReleaseSpares ==
  ASSUME NEW s \in SpaceType, NEW k \in Nat, NEW a \in Int, s.low + k * Page <= a
  PROVE  Kept(s, ReleasePtrPages(s, k), a) /\ ReleasePtrPages(s, k) \in SpaceType
<1> DEFINE b == s.low + k * Page
<1>1. s.low \in Int /\ b \in Int /\ s.committed \in SUBSET Int
  BY Constants DEF SpaceType
<1>2. PageOf(b) = PageOf(s.low) + k
  BY <1>1, PageMoves
<1> HIDE DEF b
<1>3. PageOf(s.low) \in Int /\ PageOf(a) \in Int /\ PageOf(b) <= PageOf(a)
  BY <1>1, Pagewise, PageOrder DEF b
<1>4. /\ ReleasePtrPages(s, k).committed = s.committed \ (PageOf(s.low) .. (PageOf(s.low) + k - 1))
      /\ ReleasePtrPages(s, k) \in SpaceType
  BY ReleasePtrFields
<1> QED BY <1>1, <1>2, <1>3, <1>4 DEF Kept

\* The pointer space gives up only what is below the lowest block.
LEMMA PtrCompactionSpares ==
  ASSUME NEW s \in SpaceType, NEW t, NEW a \in Int,
         t # <<>> => Lowest(t) \in Int /\ Lowest(t) <= a
  PROVE  /\ Kept(s, CompactPtr(s, t), a)
         /\ Kept(s, DesperateCompactPtr(s, t), a) /\ DesperateCompactPtr(s, t) \in SpaceType
<1> DEFINE room == Lowest(t) - s.low
           k == room \div Page
<1>1. s.low \in Int /\ Page \in Nat /\ Page >= 1 /\ Kept(s, s, a)
  BY Constants DEF SpaceType, Kept
<1>2. ASSUME t # <<>>, Page <= room
      PROVE  /\ k \in Nat /\ s.low + k * Page <= a
             /\ k - 1 \in Nat /\ s.low + (k - 1) * Page <= a
  <2>1. room \in Int /\ s.low + room <= a
    BY <1>1, <1>2
  <2>2. 1 \in Nat /\ 1 * Page <= room
    BY <1>1, <1>2
  <2> HIDE DEF room
  <2>3. k \in Nat /\ k >= 1 /\ k * Page <= room
    BY <2>1, <2>2, WholePages
  <2> HIDE DEF k
  <2> DEFINE z == k * Page
  <2>4. z \in Int /\ z <= room /\ (k - 1) * Page = z - Page
    BY <1>1, <2>3
  <2> HIDE DEF z
  <2>5. s.low + z <= a /\ s.low + (z - Page) <= a
    BY <1>1, <2>1, <2>4
  <2> QED BY <2>3, <2>4, <2>5 DEF z
<1> HIDE DEF k
<1>3. CASE t # <<>> /\ 2 * Page <= room
  <2>1. Page <= room
    BY <1>1, <1>3
  <2>2. CompactPtr(s, t) = ReleasePtrPages(s, k - 1)
    BY <1>3 DEF CompactPtr, k
  <2>3. DesperateCompactPtr(s, t) = ReleasePtrPages(s, k)
    BY <1>3, <2>1 DEF DesperateCompactPtr, k
  <2> HIDE DEF room
  <2> QED BY <1>2, <1>3, <2>1, <2>2, <2>3, PtrReleaseSpares
<1>4. CASE t # <<>> /\ Page <= room /\ ~(2 * Page <= room)
  <2>1. CompactPtr(s, t) = s /\ DesperateCompactPtr(s, t) = ReleasePtrPages(s, k)
    BY <1>4 DEF CompactPtr, DesperateCompactPtr, k
  <2> HIDE DEF room
  <2> QED BY <1>1, <1>2, <1>4, <2>1, PtrReleaseSpares
<1>5. CASE t = <<>> \/ ~(Page <= room)
  <2>1. t # <<>> => ~(2 * Page <= room)
    BY <1>1, <1>5
  <2>2. CompactPtr(s, t) = s /\ DesperateCompactPtr(s, t) = s
    BY <1>5, <2>1 DEF CompactPtr, DesperateCompactPtr
  <2> QED BY <1>1, <2>2
<1> QED BY <1>3, <1>4, <1>5

\* A commit only adds pages, apart from the compaction of the other stack.
LEMMA CommitIndexSpares ==
  ASSUME NEW s \in SpaceType, NEW t, NEW got, NEW a \in Int,
         t # <<>> => Lowest(t) \in Int /\ Lowest(t) <= a
  PROVE  Kept(s, CommitIndexPage(s, t, got), a)
<1> DEFINE c == DesperateCompactPtr(s, t)
           asked == IF got = "first" THEN s ELSE [c EXCEPT !.denied = @ + 1]
           r == [asked EXCEPT !.top = @ + Page, !.committed = @ \union Pages(s.top, 1)]
<1>1. Kept(s, c, a) /\ c \in SpaceType
  BY PtrCompactionSpares
<1> HIDE DEF c
<1>2. asked.committed \in {s.committed, c.committed} /\ asked \in SpaceType
  BY <1>1 DEF SpaceType
<1>3. CommitIndexPage(s, t, got) \in {asked, r}
  BY DEF CommitIndexPage, c
<1>4. Kept(s, asked, a)
  BY <1>1, <1>2 DEF Kept
<1> HIDE DEF asked
<1>5. asked.committed \subseteq r.committed
  BY <1>2 DEF SpaceType
<1> QED BY <1>3, <1>4, <1>5 DEF Kept

LEMMA CommitPtrSpares ==
  ASSUME NEW s \in SpaceType, NEW t, NEW k, NEW got \in Attempts, NEW a \in Int,
         s.top <= a \/ DesperateCompactIndex(s, t) = s
  PROVE  Kept(s, CommitPtrPages(s, t, k, got), a)
<1> DEFINE c == DesperateCompactIndex(s, t)
           compact == [c EXCEPT !.denied = @ + 1]
           u == [s EXCEPT !.low = @ - k * Page, !.committed = @ \union Pages(s.low - k * Page, k)]
           v == [compact EXCEPT !.low = @ - k * Page, !.committed = @ \union Pages(compact.top, k)]
<1>1. Kept(s, c, a)
  BY IndexReleaseSpares DEF Kept
<1>2. c \in SpaceType
  BY ReleaseIndexFields DEF DesperateCompactIndex
<1>3. CommitPtrPages(s, t, k, got) \in {u, v, compact}
  BY DEF CommitPtrPages, Attempts
<1> HIDE DEF c
<1>4. compact \in SpaceType /\ compact.committed = c.committed
  BY <1>2 DEF SpaceType
<1> HIDE DEF compact
<1>5. s.committed \subseteq u.committed /\ compact.committed \subseteq v.committed
  BY <1>4 DEF SpaceType
<1>6. Kept(s, u, a) /\ Kept(s, compact, a) /\ Kept(s, v, a)
  <2> HIDE DEF u, v
  <2> QED BY <1>1, <1>4, <1>5 DEF Kept
<1> HIDE DEF u, v
<1> QED BY <1>3, <1>6

LEMMA BottomedSpares ==
  ASSUME NEW s \in SpaceType, NEW t, NEW n, NEW got \in Attempts, NEW a \in Int,
         s.top <= a \/ DesperateCompactIndex(s, t) = s
  PROVE  Kept(s, Bottomed(s, t, n, got), a)
<1>1. Kept(s, s, a)
  BY DEF Kept
<1> QED BY <1>1, CommitPtrSpares DEF Bottomed

\* The blocks above the index and the lowest one.
LEMMA BlockFacts ==
  ASSUME MemoryInv, NEW x \in Elems(table)
  PROVE  /\ x.addr \in Int /\ x.size \in Int /\ space \in SpaceType /\ space.top <= x.addr
         /\ table # <<>> /\ Lowest(table) \in Int /\ Lowest(table) <= x.addr
<1>1. PICK i \in 1 .. Len(table) : x = table[i]
  BY LayoutFacts DEF MemoryInv, Elems
<1>2. /\ Layout(table) /\ table # <<>> /\ x.addr \in Nat /\ x.size \in Nat
      /\ W \in Nat
  BY <1>1, LayoutFacts, EmptySeq, Constants DEF MemoryInv
<1>3. /\ Floor(table) \in Int /\ Lowest(table) \in Nat /\ Lowest(table) = Floor(table) + W
      /\ Lowest(table) <= x.addr
  BY <1>1, <1>2, FloorFacts
<1>4. space \in SpaceType /\ space.top \in Int /\ space.top <= Floor(table)
  BY DEF MemoryInv, Spaced, Stacked, SpaceType
<1> QED BY <1>2, <1>3, <1>4

LEMMA MallocSpares ==
  ASSUME MemoryInv, NEW n \in Sizes, NEW gotIndex \in Attempts, NEW gotPtr \in Attempts,
         Malloc(n, gotIndex, gotPtr), NEW x \in Elems(table)
  PROVE  Kept(space, space', x.addr)
<1> DEFINE a == x.addr
           s == IF IndexRoom(space, table) THEN space
                ELSE CommitIndexPage(space, table, gotIndex)
           b == Bottomed(s, table, n, gotPtr)
<1>1. space' \in {space, s, b}
  BY DEF Malloc, Ends
<1>2. /\ a \in Int /\ space \in SpaceType /\ space.top <= a
      /\ table # <<>> => Lowest(table) \in Int /\ Lowest(table) <= a
  BY BlockFacts
<1> HIDE DEF a
<1>3. Kept(space, space, a)
  BY DEF Kept
<1>4. Kept(space, s, a)
  BY <1>2, <1>3, CommitIndexSpares
<1>5. s \in SpaceType /\ (s.top <= a \/ DesperateCompactIndex(s, table) = s)
  <2>1. CASE IndexRoom(space, table)
    BY <1>2, <2>1
  <2>2. CASE ~IndexRoom(space, table)
    <3> DEFINE m == Track * Len(table)
    <3>1. s = CommitIndexPage(space, table, gotIndex)
      BY <2>2
    <3> HIDE DEF s
    <3>2. s \in SpaceType /\ s.top <= m + Track + Page
      BY <2>2, <3>1, CommitIndexTop DEF MemoryInv
    <3>3. m \in Nat /\ Track \in Nat /\ Page \in Nat /\ s.top \in Int
      BY <3>2, LayoutFacts, IndexWords, Constants DEF MemoryInv, SpaceType
    <3> HIDE DEF m
    <3>4. ~(Page + Track < s.top - m)
      BY <3>2, <3>3
    <3> QED BY <3>2, <3>4 DEF DesperateCompactIndex, m
  <2> QED BY <2>1, <2>2
<1> HIDE DEF s
<1>6. Kept(s, b, a)
  BY <1>2, <1>5, BottomedSpares
<1> QED BY <1>1, <1>3, <1>4, <1>6 DEF Kept, a

LEMMA FreeSpares ==
  ASSUME MemoryInv, NEW p \in Pointers, Free(p), NEW x \in Elems(table) \cap Elems(table')
  PROVE  Kept(space, space', x.addr)
<1> DEFINE a == x.addr
           i == IndexOf(table, p)
           u == Removed(table, i)
           meta == MetaFreed(space, table, i)
<1>1. a \in Int /\ space \in SpaceType /\ space.top <= a
  BY BlockFacts
<1> HIDE DEF a
<1>2. CASE i = 0
  BY <1>2 DEF Free, vars, Kept
<1>3. CASE i # 0
  <2>1. table' = u /\ space' \in {meta, CompactPtr(meta, u)}
    BY <1>3 DEF Free, Ends
  <2>2. i \in 1 .. Len(table) /\ Layout(table) /\ Spaced(space, Len(table), Floor(table))
    BY <1>3, PointersFacts, LayoutFacts DEF MemoryInv
  <2>3. meta = CompactIndex(space, u)
    BY DEF MetaFreed
  <2> HIDE DEF i
  <2>4. Layout(u) /\ meta \in SpaceType
    BY <2>2, RemovedKeeps, MetaFreedKeeps DEF Spaced, Stacked
  <2>5. u # <<>> => Lowest(u) \in Int /\ Lowest(u) <= a
    <3>1. PICK j \in 1 .. Len(u) : x = u[j]
      BY <2>1, <2>4, LayoutFacts DEF Elems
    <3> HIDE DEF u
    <3> QED BY <2>4, <3>1, FloorFacts DEF a
  <2> HIDE DEF u, meta
  <2>6. Kept(space, meta, a)
    BY <1>1, <2>3, IndexReleaseSpares
  <2>7. Kept(meta, CompactPtr(meta, u), a)
    BY <1>1, <2>4, <2>5, PtrCompactionSpares
  <2> QED BY <2>1, <2>6, <2>7 DEF Kept, a
<1> QED BY <1>2, <1>3

LEMMA BottomSpares ==
  ASSUME MemoryInv, NEW i \in 1 .. Len(table), NEW n \in Sizes, NEW got \in Attempts,
         ToBottom(i, n, got), NEW x \in Elems(table)
  PROVE  Kept(space, space', x.addr)
<1> DEFINE a == x.addr
           s == Bottomed(space, table, n, got)
           u == Removed(table, i)
           meta == MetaFreed(s, table, i)
<1>1. /\ a \in Int /\ space \in SpaceType /\ space.top <= a
      /\ table # <<>> /\ Lowest(table) \in Int /\ Lowest(table) <= a
  BY BlockFacts
<1> HIDE DEF a
<1>2. Within(table, s) /\ space' \in {s, meta}
  BY DEF ToBottom, Ends
<1>3. meta = CompactIndex(s, u)
  BY DEF MetaFreed
<1>4. Kept(space, s, a)
  BY <1>1, BottomedSpares
<1>5. s \in SpaceType
  <2>1. s.top <= s.low
    BY <1>2 DEF Within
  <2>2. s = Bottomed(space, table, n, got)
    OBVIOUS
  <2> HIDE DEF s
  <2> QED BY <2>1, <2>2, BottomKeeps DEF MemoryInv, Spaced, Stacked
<1> HIDE DEF s, u, meta
<1>6. s.top <= a
  <2>1. s.top <= Lowest(table) - W
    BY <1>1, <1>2 DEF Within
  <2>2. s.top \in Int /\ W \in Nat
    BY <1>5, Constants DEF SpaceType
  <2> QED BY <1>1, <2>1, <2>2
<1>7. Kept(s, meta, a)
  BY <1>1, <1>3, <1>5, <1>6, IndexReleaseSpares
<1> QED BY <1>2, <1>4, <1>7 DEF Kept, a

LEMMA ReallocSpares ==
  ASSUME MemoryInv, NEW p \in Pointers, NEW n \in Sizes, Realloc(p, n), NEW x \in Elems(table)
  PROVE  Kept(space, space', x.addr)
<1> DEFINE i == IndexOf(table, p)
<1>1. \/ space' = space
      \/ i # 0 /\ \E got \in Attempts : ToBottom(i, n, got)
  BY DEF Realloc, Ends, FlipUp, ExpandAndSlide
<1>2. space' = space => Kept(space, space', x.addr)
  BY DEF Kept
<1>3. i # 0 => i \in 1 .. Len(table)
  BY PointersFacts, LayoutFacts DEF MemoryInv
<1> HIDE DEF i
<1> QED BY <1>1, <1>2, <1>3, BottomSpares

\* what the property says of a step
BlocksKept ==
    \A r \in Elems(table) \cap Elems(table') :
      Mapped(space, r.addr, r.size) => Mapped(space', r.addr, r.size)

LEMMA StepSpares ==
  ASSUME MemoryInv, [Next]_vars, NEW x \in Elems(table) \cap Elems(table')
  PROVE  Kept(space, space', x.addr)
<1>1. ASSUME NEW n \in Sizes, NEW gotIndex \in Attempts, NEW gotPtr \in Attempts,
             Malloc(n, gotIndex, gotPtr)
      PROVE  Kept(space, space', x.addr)
  BY <1>1, MallocSpares
<1>2. ASSUME NEW a \in Pointers, Free(a) PROVE Kept(space, space', x.addr)
  BY <1>2, FreeSpares
<1>3. ASSUME NEW a \in Pointers, NEW n \in Sizes, Realloc(a, n)
      PROVE  Kept(space, space', x.addr)
  BY <1>3, ReallocSpares
<1>4. ASSUME NEW a \in Pointers, NEW n \in Sizes \union {0}, Expand(a, n)
      PROVE  Kept(space, space', x.addr)
  BY <1>4 DEF Expand, Ends, vars, Kept
<1>5. CASE UNCHANGED vars
  BY <1>5 DEF vars, Kept
<1> QED BY <1>1, <1>2, <1>3, <1>4, <1>5 DEF Next

(* Whatever is asked for and whatever the OS denies, no call takes a committed page
   from under a block that it leaves where it is (the compactions of both stacks,
   memory.cpp, also after a retry that committed the wrong pages). *)
THEOREM BlocksKeepTheirMemory == Spec => KeepsItsBlocks
<1>1. MemoryInv /\ [Next]_vars => [BlocksKept]_vars
  <2> SUFFICES ASSUME MemoryInv, [Next]_vars,
                      NEW r \in Elems(table) \cap Elems(table'),
                      Mapped(space, r.addr, r.size)
               PROVE  Mapped(space', r.addr, r.size)
    BY DEF BlocksKept
  <2>1. r.addr \in Int /\ r.size \in Int
    BY BlockFacts
  <2> QED BY <2>1, StepSpares, KeptMapped
<1>2. Spec => [][BlocksKept]_vars
  BY <1>1, InvariantHolds, PTL DEF Spec
<1> QED BY <1>2, PTL DEF KeepsItsBlocks, BlocksKept

===============================================================================
