----------------------------- MODULE MemoryManager -----------------------------
(***************************************************************************)
(* core.RAM/memory.cpp, the malloc of Franci and GentzenW: one reserved     *)
(* range of addresses, with the pointer table growing up from its bottom    *)
(* and the blocks growing down from its top, both committed page by page.   *)
(* A block is a size word, its bytes and a word of guard bytes.  The table  *)
(* lists the blocks downwards; a hole is free room above a block.           *)
(*                                                                          *)
(* Each call runs under RAMBlock and the program has one thread: a call is  *)
(* one step.  What a block holds is left out, and so are callers that write *)
(* where they should not; what is kept is which bytes the manager reads and *)
(* writes, and whether they are mapped.                                     *)
(***************************************************************************)
EXTENDS Integers, Sequences, FiniteSets

CONSTANTS
    W,           \* sizeof(size_t) = sizeof(void*)
    Page,        \* PageSize
    High,        \* HighBoundPtrSpace; RawBlock is 0
    Sizes,       \* sizes asked for
    CommitLimit, \* pages the OS can give
    MaxBlocks,   \* bound on the live blocks
    MaxDenials   \* bound on the requests the OS first denies

Track == 2 * W   \* sizeof(_track_pointer)

ASSUME SpaceAssumption ==
    /\ W \in Nat \ {0}
    /\ Page \in Nat /\ Page >= Track
    /\ High \in Nat /\ High % Page = 0
    /\ Sizes \subseteq Nat \ {0}
    /\ MaxBlocks \in Nat /\ MaxDenials \in Nat
\* the two stacks cannot meet: nothing in the code looks whether they do
ASSUME CommitAssumption == CommitLimit \in Nat /\ CommitLimit * Page <= High

VARIABLES
    table,   \* RawBlock.records: the address and size of each block
    space,   \* what the manager believes and what the OS has committed
    status   \* of the program

vars == <<table, space, status>>

AlignedSize(n) == ((n - 1) \div W + 1) * W

Init ==
    /\ table = <<>>
    /\ space = [top |-> 0, low |-> High, committed |-> {}, denied |-> 0]
    /\ status = "fresh"     \* RawBlock is NULL

-------------------------------------------------------------------------------
(***************************************************************************)
(* Pages.  An attempt to commit succeeds at first, later (after an          *)
(* emergency compaction of the other stack), or never.                      *)
(***************************************************************************)
Attempts == {"first", "later", "never"}

\* the k pages from address a up
Pages(a, k) == (a \div Page) .. (a \div Page + k - 1)
Mapped(s, a, n) == \A p \in (a \div Page) .. ((a + n - 1) \div Page) : p \in s.committed

Lowest(t) == t[Len(t)].addr

\* __ReleaseNextIndexPage, __ReleaseNextPtrPages
ReleaseIndexPage(s) ==
    [s EXCEPT !.top = @ - Page, !.committed = @ \ Pages(s.top - Page, 1)]
ReleasePtrPages(s, k) ==
    [s EXCEPT !.low = @ + k * Page, !.committed = @ \ Pages(s.low, k)]

\* __CompactIndexRAM, __DesperateCompactIndexRAM
CompactIndex(s, t) ==
    IF 2 * Page < s.top - Track * Len(t) THEN ReleaseIndexPage(s) ELSE s
DesperateCompactIndex(s, t) ==
    IF Page + Track < s.top - Track * Len(t) THEN ReleaseIndexPage(s) ELSE s

\* had it counted from the lowest block's last byte
CompactPtrGreedy(s, t) ==
    IF t # <<>> /\ 2 * Page <= Lowest(t) - s.low
    THEN ReleasePtrPages(s, (Lowest(t) + t[Len(t)].size - s.low) \div Page) ELSE s

\* had the emergency given up the page the lowest block starts on
DesperateCompactPtrGreedy(s, t) ==
    IF t # <<>> /\ Page <= Lowest(t) - s.low
    THEN ReleasePtrPages(s, (Lowest(t) - s.low) \div Page + 1) ELSE s

\* __CompactPtrRAM: all but the last whole page; __DesperateCompactPtrRAM: all
CompactPtr(s, t) ==
    IF t # <<>> /\ 2 * Page <= Lowest(t) - s.low
    THEN ReleasePtrPages(s, (Lowest(t) - s.low) \div Page - 1) ELSE s
DesperateCompactPtr(s, t) ==
    IF t # <<>> /\ Page <= Lowest(t) - s.low
    THEN ReleasePtrPages(s, (Lowest(t) - s.low) \div Page) ELSE s

\* __CommitNextIndexPage
CommitIndexPage(s, t, got) ==
    LET asked == IF got = "first" THEN s
                 ELSE [DesperateCompactPtr(s, t) EXCEPT !.denied = @ + 1]
    IN  IF got = "never" THEN asked
        ELSE [asked EXCEPT !.top = @ + Page, !.committed = @ \union Pages(s.top, 1)]

\* __CommitNextPtrPages: asked again, it commits pages next to the index
CommitPtrPages(s, t, k, got) ==
    LET compact == [DesperateCompactIndex(s, t) EXCEPT !.denied = @ + 1] IN
    CASE got = "first" ->
            [s EXCEPT !.low = @ - k * Page, !.committed = @ \union Pages(s.low - k * Page, k)]
      [] got = "later" ->
            [compact EXCEPT !.low = @ - k * Page, !.committed = @ \union Pages(compact.top, k)]
      [] got = "never" -> compact

\* the space check of malloc; for the first malloc the commit of __EmergencyInitialize
IndexRoom(s, t) == Track <= s.top - Track * Len(t)

-------------------------------------------------------------------------------
(***************************************************************************)
(* Holes                                                                    *)
(***************************************************************************)

\* had the size word of the block above been forgotten
HoleOverHeader(t, i) ==
    (IF i = 1 THEN High ELSE t[i - 1].addr) - t[i].addr - t[i].size - W

\* HOLESIZE_AT_IDX1, HOLESIZE: the room between block i and what is above it
Hole(t, i) ==
    IF i = 1 THEN High - t[i].addr - t[i].size - W
    ELSE t[i - 1].addr - t[i].addr - t[i].size - 2 * W

\* what a new block i takes of the room under block i - 1, and where it starts
Need(i, n) == AlignedSize(n) + IF i = 1 THEN 2 * W ELSE 3 * W
Place(t, i, n) == (IF i = 1 THEN High ELSE t[i - 1].addr) - Need(i, n) + W

\* the holes __FindHole considers above an address
Holes(t, n, above) ==
    {i \in DOMAIN t : /\ Hole(t, i) >= Need(i, n)
                      /\ i > 1 => above < t[i - 1].addr - AlignedSize(n)}

\* an exact fit at once, otherwise the smallest; the topmost among equals
BestHole(t, fits, n) ==
    LET exact == {i \in fits : Hole(t, i) = Need(i, n)}
        least == {i \in fits : \A j \in fits : Hole(t, i) <= Hole(t, j)}
        best  == IF exact # {} THEN exact ELSE least
    IN  CHOOSE i \in best : \A j \in best : i <= j

\* pages __CreateAtBottom lacks; a negative spare is a huge size_t
Spare(s, t) == IF t = <<>> THEN High - s.low ELSE Lowest(t) - s.low - W
Lacking(s, t, n) ==
    LET lack == Need(Len(t) + 1, n) - Spare(s, t) IN
    IF lack <= 0 \/ Spare(s, t) < 0 THEN 0 ELSE (lack - 1) \div Page + 1

\* __CreateAtBottom: what committing makes of the space, and whether it answers NULL
Bottomed(s, t, n, got) ==
    IF Lacking(s, t, n) = 0 THEN s ELSE CommitPtrPages(s, t, Lacking(s, t, n), got)
NoBottom(s, t, n, got) == got = "never" /\ Lacking(s, t, n) > 0

-------------------------------------------------------------------------------
(***************************************************************************)
(* The table                                                                *)
(***************************************************************************)
Record(a, n) == [addr |-> a, size |-> n]
Removed(t, i) == SubSeq(t, 1, i - 1) \o SubSeq(t, i + 1, Len(t))

\* __OnePassInsertSort: the last record moves up past those below its address
Inserted(t, r) ==
    LET k == CHOOSE k \in 1 .. (Len(t) + 1) :
               /\ k > 1 => t[k - 1].addr >= r.addr
               /\ \A j \in k .. Len(t) : t[j].addr < r.addr
    IN  SubSeq(t, 1, k - 1) \o <<r>> \o SubSeq(t, k, Len(t))

\* __IdxOfPointerInPtrList: 0 if there is no block at a
IndexOf(t, a) ==
    LET Bounds == (0 .. Len(t)) \X (0 .. Len(t))
        between[b \in Bounds] ==
          LET lb == b[1]  ub == b[2]  mid == lb + (ub - lb) \div 2 IN
          IF lb >= ub THEN 0
          ELSE IF a = t[mid + 1].addr THEN mid + 1
          ELSE IF a < t[mid + 1].addr THEN between[<<mid + 1, ub>>]
          ELSE between[<<lb, mid>>]
    IN  between[<<0, Len(t)>>]

\* InitBlock writes the size word and the guard bytes
CanInit(s, a, n) == Mapped(s, a - W, W) /\ Mapped(s, a + n, W)

\* __DetectOverwrites: overlaps in the table, then every size word and guard
Overlaps(t) ==
    \E i \in 2 .. Len(t) : t[i].addr + t[i].size + W > t[i - 1].addr - W
Audit(s, t) ==
    IF Overlaps(t) THEN "corrupted"
    ELSE IF \E i \in DOMAIN t : ~CanInit(s, t[i].addr, t[i].size) THEN "faulted"
    ELSE "running"

-------------------------------------------------------------------------------
(***************************************************************************)
(* The calls                                                                *)
(***************************************************************************)
Elems(t) == {t[i] : i \in DOMAIN t}
Live == {r.addr : r \in Elems(table)}
Pointers == Live \union {High}    \* High is none of the manager's

(* The bounds: the OS has that many pages, the stacks have not met, and it
   has not denied more requests. *)
Within(t, s) ==
    /\ Cardinality(s.committed) <= CommitLimit
    /\ s.top <= s.low
    /\ t # <<>> => s.top <= Lowest(t) - W
    /\ s.denied <= MaxDenials

Up == status \in {"fresh", "running"}

\* a call ends with these
Ends(t, s, st) == Within(t, s) /\ table' = t /\ space' = s /\ status' = st

\* the block goes into a hole, or becomes the lowest
Malloc(n, gotIndex, gotPtr) ==
    /\ Up
    /\ Len(table) < MaxBlocks
    /\ gotIndex # "first" => ~IndexRoom(space, table)
    /\ LET audit == Audit(space, table)
           s == IF IndexRoom(space, table) THEN space
                ELSE CommitIndexPage(space, table, gotIndex)
           holes == Holes(table, n, s.low)
           i == IF holes = {} THEN Len(table) + 1 ELSE BestHole(table, holes, n)
           s2 == IF holes = {} THEN Bottomed(s, table, n, gotPtr) ELSE s
           a == Place(table, i, n)
       IN  /\ gotPtr # "first" => holes = {} /\ Lacking(s, table, n) > 0
           /\ IF audit # "running" THEN Ends(table, space, audit)
              ELSE IF ~IndexRoom(s, table)
              THEN Ends(table, s, IF status = "fresh" THEN "stopped" ELSE "running")
              ELSE IF holes = {} /\ NoBottom(s, table, n, gotPtr)
              THEN Ends(table, s2, "faulted")        \* AuditPtr(NULL, size)
              ELSE IF ~CanInit(s2, a, n)
              THEN Ends(table, s2, "faulted")
              ELSE Ends(Inserted(table, Record(a, n)), s2, "running")

\* __MetaFree
MetaFreed(s, t, i) == CompactIndex(s, Removed(t, i))

Free(a) ==
    /\ Up
    /\ LET i == IndexOf(table, a)
           t == Removed(table, i)
           meta == MetaFreed(space, table, i)
           s == IF i = Len(table) THEN CompactPtr(meta, t) ELSE meta
       IN  IF i = 0 THEN UNCHANGED vars      \* INVALID_FREE_NOP
           ELSE Ends(t, s, Audit(s, t))

\* __ExpandV2
Expands(t, i, n) ==
    \/ n <= t[i].size
    \/ t[i].size + Hole(t, i) > n + 2 * W

(* memmove from a block's address: n bytes, whatever the block's size; past
   the reserve they may be readable or not *)
Beyond(from, n) == IF from + n <= High THEN {TRUE} ELSE BOOLEAN
CanCopy(s, from, to, n) ==
    Mapped(s, from, IF from + n <= High THEN n ELSE High - from) /\ Mapped(s, to, n)

Resized(t, i, n) == [t EXCEPT ![i].size = n]

\* had the size in the table not been renewed before sliding
SlidOld(t, i, n) == [t EXCEPT ![i] = Record(@.addr + Hole(t, i), n)]

\* __SlideUp, after __ExpandV2: the block takes the top of its room
Slid(t, i, n) == [t EXCEPT ![i] = Record(@.addr + Hole(Resized(t, i, n), i), n)]

\* into a hole above
FlipUp(i, n, holes) ==
    LET a == Place(table, BestHole(table, holes, n), n)
        above == SubSeq(table, 1, i - 1)
        below == SubSeq(table, i + 1, Len(table))
    IN  \E readable \in Beyond(table[i].addr, n) :
        IF readable /\ CanCopy(space, table[i].addr, a, n) /\ CanInit(space, a, n)
        THEN Ends(Inserted(above, Record(a, n)) \o below, space, "running")
        ELSE Ends(table, space, "faulted")

ExpandAndSlide(i, n) ==
    LET t == Slid(table, i, n) IN
    IF High - space.low < t[i].addr - table[i].addr + Track
    THEN Ends(table, space, "corrupted")
    ELSE IF CanInit(space, table[i].addr, n) /\ Mapped(space, t[i].addr - W, n + 2 * W)
    THEN Ends(t, space, "running")
    ELSE Ends(table, space, "faulted")

\* to the bottom, or NULL and the block as it was
ToBottom(i, n, got) ==
    LET a == Place(table, Len(table) + 1, n)
        s == Bottomed(space, table, n, got)
        meta == MetaFreed(s, table, i)
    IN  /\ Within(table, s)
        /\ got # "first" => Lacking(space, table, n) > 0
        /\ IF NoBottom(space, table, n, got) THEN Ends(table, s, "running")
           ELSE \E readable \in Beyond(table[i].addr, n) :
                IF readable /\ CanCopy(s, table[i].addr, a, n) /\ CanInit(s, a, n)
                THEN Ends(Inserted(Removed(table, i), Record(a, n)), meta, "running")
                ELSE Ends(table, s, "faulted")

Realloc(a, n) ==
    /\ Up
    /\ LET i == IndexOf(table, a)
           holes == Holes(table, n, a + table[i].size + W)
       IN  IF Audit(space, table) # "running" THEN Ends(table, space, Audit(space, table))
           ELSE IF i = 0 THEN Ends(table, space, "stopped")
           ELSE IF holes # {} THEN FlipUp(i, n, holes)
           ELSE IF Expands(table, i, n) THEN ExpandAndSlide(i, n)
           ELSE \E got \in Attempts : ToBottom(i, n, got)

\* _expand: the block stays, whatever its answer
Expand(a, n) ==
    /\ Up
    /\ LET i == IndexOf(table, a) IN
       IF Audit(space, table) # "running" THEN Ends(table, space, Audit(space, table))
       ELSE IF i = 0 THEN Ends(table, space, "stopped")
       ELSE IF ~Expands(table, i, n) THEN UNCHANGED vars
       ELSE IF n = table[i].size \/ CanInit(space, a, n)
       THEN Ends(Resized(table, i, n), space, "running")
       ELSE Ends(table, space, "faulted")

Next ==
    \/ \E n \in Sizes, gotIndex, gotPtr \in Attempts : Malloc(n, gotIndex, gotPtr)
    \/ \E a \in Pointers : Free(a)
    \/ \E a \in Pointers, n \in Sizes : Realloc(a, n)
    \/ \E a \in Pointers, n \in Sizes \union {0} : Expand(a, n)

Spec == Init /\ [][Next]_vars
-------------------------------------------------------------------------------
(***************************************************************************)
(* Properties                                                               *)
(***************************************************************************)
TypeOK ==
    /\ table \in Seq([addr : 0 .. High, size : Sizes \union {0}])
    /\ space \in [top : Nat, low : 0 .. High, committed : SUBSET (0 .. High \div Page - 1),
                  denied : 0 .. MaxDenials]
    /\ status \in {"fresh", "running", "stopped", "faulted", "corrupted"}

(* Values of the right kind; each block has its size word and its guard to
   itself, under the upper bound of the pointer space; the binary search
   finds the live blocks and no others; the index has room for the records,
   and at most two spare pages ("Commit it only as necessary",
   memory.cpp:16). *)
BlocksSound ==
    /\ TypeOK
    /\ \A i \in DOMAIN table :
         table[i].addr + table[i].size + W <= IF i = 1 THEN High ELSE table[i - 1].addr - W
    /\ \A i \in DOMAIN table : IndexOf(table, table[i].addr) = i
    /\ IndexOf(table, High) = 0
    /\ Track * Len(table) <= space.top
    /\ space.top - Track * Len(table) <= 2 * Page
    /\ 0 .. (space.top \div Page - 1) \subseteq space.committed
    /\ table # <<>> => space.low <= Lowest(table)

(* No audit ever reports an overlap or a size out of bounds; and while the OS
   gives what it is asked for, exactly the pages between the manager's bounds
   are committed, down to the lowest block's size word (__DetectOverwrites,
   the compactions). *)
AuditsPass ==
    /\ status # "corrupted"
    /\ space.denied = 0 =>
         /\ space.committed = 0 .. (space.top \div Page - 1) \union
                              (space.low \div Page) .. (High \div Page - 1)
         /\ table # <<>> => space.low <= Lowest(table) - W

(* No call takes committed memory away from a block it leaves where it is: both
   stacks' compactions, the everyday ones and those of an emergency, stop at the
   blocks, also when a retried request has left the manager with pages it does
   not know of and without pages it believes in (memory.cpp:395). *)
KeepsItsBlocks ==
    [][\A r \in Elems(table) \cap Elems(table') :
         Mapped(space, r.addr, r.size) => Mapped(space', r.addr, r.size)]_vars

\* The callers' view of the manager.
ViewOfHeap == INSTANCE Heap WITH
    Extent <- High,
    blocks <- Elems(table),
    up <- Up
ImplementsHeap == ViewOfHeap!Spec

(* The manager faults only where the OS has refused it memory. *)
FaultsNeedFailure == status = "faulted" => space.denied > 0
===============================================================================
