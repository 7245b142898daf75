--------------------------------- MODULE Heap ---------------------------------
(***************************************************************************)
(* What a memory manager promises its callers: the blocks it has given out  *)
(* and not taken back lie in its address space and share no byte; a call    *)
(* changes the block it is about and no other; and it may end the program.  *)
(***************************************************************************)
EXTENDS Integers

CONSTANTS
    Extent,     \* the addresses are the naturals below it
    Sizes       \* sizes asked for, naturals

VARIABLES
    blocks,     \* the live blocks
    up          \* the program has not been ended

heapVars == <<blocks, up>>

Block == [addr : 0 .. Extent - 1, size : Sizes \union {0}]

Apart(b, c) ==
    /\ b.addr # c.addr
    /\ b.addr + b.size <= c.addr \/ c.addr + c.size <= b.addr

\* the bytes of b exist and are no other block's
Vacant(b, others) ==
    /\ b.addr + b.size <= Extent
    /\ \A c \in others : Apart(b, c)

Init == blocks = {} /\ up = TRUE

Malloc(b) ==
    /\ up /\ UNCHANGED up
    /\ b \in Block /\ b.size > 0
    /\ Vacant(b, blocks)
    /\ blocks' = blocks \union {b}

\* an audit follows, which may end the program
Free(b) ==
    /\ up /\ up' \in BOOLEAN
    /\ blocks' = blocks \ {b}

\* realloc and _expand: where the block was, or elsewhere
Resize(old, b) ==
    /\ up /\ UNCHANGED up
    /\ b \in Block
    /\ Vacant(b, blocks \ {old})
    /\ blocks' = (blocks \ {old}) \union {b}

End == up /\ up' = FALSE /\ UNCHANGED blocks

\* the new block is one of those there are afterwards
Next ==
    \/ \E b \in blocks' : Malloc(b)
    \/ \E b \in blocks : Free(b)
    \/ \E old \in blocks, b \in blocks' : Resize(old, b)
    \/ End

Spec == Init /\ [][Next]_heapVars
===============================================================================
