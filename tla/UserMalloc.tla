----------------------------- MODULE UserMalloc -----------------------------
(***************************************************************************)
(* The allocator of a user program (lib/mem.h): small blocks from lists by *)
(* size class, larger ones from one first-fit list, both carved out of the *)
(* program break, and the largest from regions of their own.               *)
(*                                                                         *)
(* A program is one thread, so a call is one action.  An address is a      *)
(* cell: the arena is the cells below the break, the regions are the cells *)
(* from ArenaMax on.  An owner writes all of what it asked for, and the    *)
(* cells it writes are those behind its pointer, whatever lies there.      *)
(***************************************************************************)
EXTENDS Integers, Sequences, FiniteSets

CONSTANTS
    Align,      \* MEM_ALIGN (16), the smallest block
    NClasses,   \* MEM_NUM_CLASSES (10)
    Carve,      \* blocks made of a chunk of the arena (8)
    Header,     \* MEM_HEADER (16)
    Threshold,  \* MEM_MMAP_THRESHOLD (64 KiB)
    Word,       \* values of a uint32_t
    PageSize,
    ArenaMax, RegionMax,    \* bounds: where the kernel refuses a break, a region
    Sizes,      \* bound: the sizes asked for
    Counts,     \* bound: the element counts given to calloc
    MaxLive     \* bound: allocations held at a time

ASSUME UserMallocAssumption ==
    /\ {Align, NClasses, Carve, Header, Word, PageSize, MaxLive} \subseteq Nat \ {0}
    /\ {Threshold, ArenaMax, RegionMax} \subseteq Nat /\ ArenaMax <= RegionMax
    /\ Sizes \subseteq Nat /\ Counts \subseteq Nat
    \* No caller asks for so much that the size in bytes wraps.
    /\ 1 + Header < Word /\ \A s \in Sizes : s + Header < Word
    /\ \A s \in Sizes, c \in Counts : c * s + Header < Word

\* What mem_block_size_for_class and mem_class_index rest on: a class is larger
\* than those before it.
ASSUME ClassesGrow ==
    \A ci \in 0..(NClasses - 1) : 2^ci \in Nat \ {0} /\ \A c \in 0..(ci - 1) : 2^c < 2^ci

VARIABLES
    heap,       \* the allocator's and the kernel's state, see Init
    live        \* the allocations held: block, size asked for, the value written

vars == <<heap, live>>

Null    == -1
Junk    == -2
InHead  == -3
Cells   == 0..(RegionMax - 1)
Classes == 0..(NClasses - 1)
Vals    == 0..MaxLive

\* brk, next and regions are the kernel's (AddrSpace): the break, mmap_next, and
\* the start and length of each region.  size is what the header at a cell says,
\* 0 where there is none; MEM_MMAP is set in the headers from ArenaMax on.
Init ==
    /\ heap = [brk |-> 0, next |-> ArenaMax, regions |-> {},
               small |-> [ci \in Classes |-> <<>>], large |-> <<>>,
               size |-> [a \in Cells |-> 0], cell |-> [a \in Cells |-> Junk]]
    /\ live = {}

\* mem_block_size_for_class.
block_size_for_class(ci) == Align * 2^ci

\* mem_class_index: the smallest class that holds size, -1 for none.
class_index(size) ==
    IF block_size_for_class(NClasses - 1) < size THEN -1
    ELSE CHOOSE ci \in Classes : /\ block_size_for_class(ci) >= size
                                 /\ \A c \in 0..(ci - 1) : block_size_for_class(c) < size

\* The cells from a to b - 1 are set to v.
Set(h, a, b, v) == [h EXCEPT !.cell = [c \in Cells |-> IF c \in a..(b - 1) THEN v ELSE @[c]]]

\* A header is written in front of a block of n cells.
Headed(h, a, n) == [Set(h, a, a + Header, InHead) EXCEPT !.size[a] = n]

\* SYS_SBRK.  The kernel panics where the model refuses, beyond ArenaMax; the
\* allocator allows for a refusal.
Refused(h, inc) == h.brk + inc > ArenaMax
sbrk(h, inc)    == [h EXCEPT !.brk = @ + inc]

\* mem_arena_extend_small: the new blocks, the last one at the head of the list.
arena_extend_small(h, ci) ==
    LET bs   == block_size_for_class(ci)
        base == [i \in 1..Carve |-> h.brk + (Carve - i) * bs]
        new  == {base[i] : i \in 1..Carve}
    IN  IF Refused(h, Carve * bs) THEN h
        ELSE [sbrk(h, Carve * bs) EXCEPT
                !.small[ci] = base \o @,
                !.size = [a \in Cells |-> IF a \in new THEN bs ELSE @[a]],
                !.cell = [a \in Cells |->
                            IF \E b \in new : a \in b..(b + Header - 1) THEN InHead ELSE @[a]]]

\* mem_alloc_small: the head of the list, whatever its size.  The block, or Null,
\* and the heap after.
alloc_small(h, ci) ==
    LET g == IF h.small[ci] = <<>> THEN arena_extend_small(h, ci) ELSE h
    IN  IF g.small[ci] = <<>> THEN [p |-> Null, h |-> g]
        ELSE [p |-> Head(g.small[ci]), h |-> [g EXCEPT !.small[ci] = Tail(@)]]

\* Mutant: room for what is asked, without the header.
Fits_without_header(h, b, total) == h.size[b] >= total - Header

\* A block of the large list will do.
Fits(h, b, total) == h.size[b] >= total

\* mem_alloc_large: the first that fits, unsplit, else new cells.
alloc_large(h, total) ==
    LET ok == {i \in DOMAIN h.large : Fits(h, h.large[i], total)}
        k  == CHOOSE i \in ok : \A j \in ok : i <= j
    IN  IF ok # {} THEN [p |-> h.large[k],
                         h |-> [h EXCEPT !.large = SubSeq(@, 1, k - 1) \o SubSeq(@, k + 1, Len(@))]]
        ELSE IF Refused(h, total) THEN [p |-> Null, h |-> h]
        ELSE [p |-> h.brk, h |-> Headed(sbrk(h, total), h.brk, total)]

\* SYS_MMAP: whole pages at mmap_next, which never goes back.
alloc_mmap(h, total) ==
    LET len == ((total + PageSize - 1) \div PageSize) * PageSize
    IN  IF h.next + len > RegionMax THEN [p |-> Null, h |-> h]
        ELSE [p |-> h.next,
              h |-> Headed([h EXCEPT !.next = @ + len, !.regions = @ \cup {<<h.next, len>>}], h.next, total)]

\* malloc of a size in bytes.
Malloc(h, size) ==
    LET total == ((IF size = 0 THEN 1 ELSE size) + Header) % Word
        ci    == class_index(total)
    IN  IF total >= Threshold THEN alloc_mmap(h, total)
        ELSE IF ci >= 0 THEN alloc_small(h, ci) ELSE alloc_large(h, total)

\* Mutant: the flag that tells a region's block is not looked at.
free_to_lists(h, b) ==
    LET ci == class_index(h.size[b])
        g  == Set(h, b + Header, b + h.size[b], Junk)
    IN  IF ci >= 0 THEN [g EXCEPT !.small[ci] = <<b>> \o @] ELSE [g EXCEPT !.large = <<b>> \o @]

\* Mutant: a region's pages stay with the program.
free_keeps_region(h, b) ==
    IF b >= ArenaMax THEN [h EXCEPT !.size[b] = 0]
    ELSE free_to_lists(h, b)

\* free of a block handed out: what its cells hold is lost.
Free(h, b) ==
    LET ci == class_index(h.size[b])
        g  == Set(h, b + Header, b + h.size[b], Junk)
    IN  IF b >= ArenaMax
        THEN LET r == CHOOSE r \in h.regions : r[1] = b
             IN  [Set(h, b, b + r[2], Junk) EXCEPT !.regions = @ \ {r}, !.size[b] = 0]
        ELSE IF ci >= 0 THEN [g EXCEPT !.small[ci] = <<b>> \o @]
        ELSE [g EXCEPT !.large = <<b>> \o @]

-----------------------------------------------------------------------------
\* The cell of the i-th byte behind the pointer to block b.
At(b, i) == b + Header + i

\* A value that no allocation holds.
NewVal == CHOOSE v \in Vals \ {0} : \A l \in live : l.val # v

malloc(size) ==
    LET m == Malloc(heap, size)
    IN  /\ Cardinality(live) < MaxLive
        /\ IF m.p = Null THEN heap' = m.h /\ UNCHANGED live
           ELSE /\ heap' = Set(m.h, At(m.p, 0), At(m.p, size), NewVal)
                /\ live' = live \cup {[b |-> m.p, size |-> size, val |-> NewVal]}

\* calloc: the bytes are set to 0; the owner keeps them so.
calloc(count, size) ==
    LET bytes == (count * size) % Word
        m     == Malloc(heap, bytes)
    IN  /\ Cardinality(live) < MaxLive
        /\ IF m.p = Null THEN heap' = m.h /\ UNCHANGED live
           ELSE /\ heap' = Set(m.h, At(m.p, 0), At(m.p, bytes), 0)
                /\ live' = live \cup {[b |-> m.p, size |-> count * size, val |-> 0]}

free(l) ==
    /\ heap' = Free(heap, l.b)
    /\ live' = live \ {l}

\* n bytes are copied from one block to another.
Move(h, from, to, n) ==
    [h EXCEPT !.cell = [c \in Cells |-> IF c \in At(to, 0)..(At(to, n) - 1)
                                        THEN @[c - to + from] ELSE @[c]]]

\* realloc to another size: 0 frees; a block with room stays; else a new block is
\* taken and filled before the old one is freed, and the old one is kept if there
\* is none.  The owner then writes what it has more.
realloc(l, size) ==
    LET usable == heap.size[l.b] - Header
        m      == Malloc(heap, size)
        Written(h, b) == Set(h, At(b, l.size), At(b, size), l.val)
    IN  IF size = 0 THEN free(l)
        ELSE IF usable >= size
        THEN /\ heap' = Written(heap, l.b)
             /\ live' = (live \ {l}) \cup {[l EXCEPT !.size = size]}
        ELSE IF m.p = Null THEN heap' = m.h /\ UNCHANGED live
        ELSE /\ heap' = Written(Free(Move(m.h, l.b, m.p, usable), l.b), m.p)
             /\ live' = (live \ {l}) \cup {[l EXCEPT !.b = m.p, !.size = size]}

Next ==
    \/ \E size \in Sizes : malloc(size)
    \/ \E count \in Counts, size \in Sizes : calloc(count, size)
    \/ \E l \in live : free(l) \/ \E size \in Sizes : realloc(l, size)

Spec == Init /\ [][Next]_vars

-----------------------------------------------------------------------------
\* The list of each class, and after them the large one.
Lists      == 0..NClasses
List(h, c) == IF c = NClasses THEN h.large ELSE h.small[c]
Listed     == UNION {{List(heap, c)[i] : i \in DOMAIN List(heap, c)} : c \in Lists}
Held       == {l.b : l \in live}
Span(b)    == b..(b + heap.size[b] - 1)

\* The type invariant: lists hold blocks of the arena, and cells what is written.
TypeOK ==
    /\ heap.brk \in 0..ArenaMax /\ heap.next \in ArenaMax..RegionMax
    /\ Listed \subseteq 0..(ArenaMax - 1)
    /\ heap.size \in [Cells -> Nat]
    /\ heap.cell \in [Cells -> Vals \cup {Junk, InHead}]

\* Nothing is lost and nothing is given twice: after any sequence of calls the
\* blocks held and the blocks listed, each listed once and held by one owner,
\* make up the arena without a gap or an overlap, and the regions are those held.
NothingLost ==
    /\ \A c, d \in Lists : \A i \in DOMAIN List(heap, c), j \in DOMAIN List(heap, d) :
            List(heap, c)[i] = List(heap, d)[j] => c = d /\ i = j
    /\ Listed \cap Held = {} /\ \A l, k \in live : l.b = k.b => l = k
    /\ LET B == Listed \cup {b \in Held : b < ArenaMax}
       IN  /\ \A a, b \in B : a # b => Span(a) \cap Span(b) = {}
           /\ UNION {Span(b) : b \in B} = 0..(heap.brk - 1)
    /\ {r[1] : r \in heap.regions} = {b \in Held : b >= ArenaMax}

\* What an owner wrote stays, in memory that the program has, and so do all
\* headers: no owner's writes reach another's bytes or a header, and realloc
\* brings along all that was written.
DataKept ==
    /\ \A l \in live : \A i \in 0..(l.size - 1) : heap.cell[At(l.b, i)] = l.val
    /\ \A b \in Listed \cup Held : \A a \in b..(b + Header - 1) : heap.cell[a] = InHead
    /\ \A l \in live : LET last == At(l.b, l.size) - 1 IN
        \/ last < heap.brk
        \/ \E r \in heap.regions : r[1] = l.b /\ last < r[1] + r[2]
=============================================================================
