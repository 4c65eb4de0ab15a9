-------------------------------- MODULE KHeap --------------------------------
(***************************************************************************)
(* The kernel heap: a binary buddy allocator over one region, with a one   *)
(* byte header in front of every allocation that holds the block's order.  *)
(*                                                                         *)
(* Addresses are offsets from heap_start, in bytes.  A free list is a set: *)
(* kheap_alloc takes its head, and which block of an order that is makes   *)
(* no difference to any property, so the model takes any.  Callers free    *)
(* what they were given, once.                                             *)
(***************************************************************************)
EXTENDS Integers, FiniteSets

CONSTANTS
    MinBlock,   \* ALLOC_MIN_BYTES_BLOCK (16)
    MaxOrder,   \* ALLOC_ORDERS - 1 (18)
    MaxSize,    \* bound: the largest request
    MaxLive     \* bound: allocations held at a time

ASSUME KHeapAssumption ==
    /\ MinBlock \in Nat \ {0}
    /\ MaxOrder \in Nat
    /\ MaxSize \in Nat
    /\ MaxLive \in Nat

\* What the shifts of __size_for_order and __order_for_size rest on.
ASSUME PowersDouble ==
    \A n \in 0..MaxOrder : 2^n \in Nat \ {0} /\ 2^(n + 1) = 2 * 2^n

VARIABLES
    free,       \* the free blocks of all orders
    live,       \* the blocks handed out, with the size asked for
    panicked    \* HEAP_OUT_OF_MEMORY

vars == <<free, live, panicked>>

\* __size_for_order.
size_for_order(order) == MinBlock * 2^order

HeapSize == size_for_order(MaxOrder)

Orders == 0..MaxOrder

Init ==
    /\ free = {[addr |-> 0, order |-> MaxOrder]}
    /\ live = {}
    /\ panicked = FALSE

\* Mutant: a block as large as the request, with no byte for the header.
order_without_header(size) ==
    CHOOSE o \in 0..(MaxOrder + 1) :
        size_for_order(o) >= size /\ \A q \in 0..(o - 1) : size_for_order(q) < size

\* __order_for_size: the smallest block larger than the request.  MaxOrder + 1
\* stands for every order that the heap does not have.
order_for_size(size) ==
    CHOOSE o \in 0..(MaxOrder + 1) :
        /\ o > MaxOrder \/ size_for_order(o) > size
        /\ \A q \in 0..(o - 1) : size_for_order(q) <= size

Available(F, order) == {b \in F : b.order >= order}

\* The blocks kheap_alloc may split: of the smallest order that has one.
FirstAvailable(F, order) ==
    {b \in Available(F, order) : \A c \in Available(F, order) : b.order <= c.order}

\* Mutant: one split too many, the upper half of b's own parent.
split_above(F, b, order) ==
    (F \ {b}) \cup {[addr |-> b.addr + size_for_order(i), order |-> i] :
                        i \in order..b.order}

\* Mutant: the last half split off is forgotten.
split_loses_last(F, b, order) ==
    (F \ {b}) \cup {[addr |-> b.addr + size_for_order(i), order |-> i] :
                        i \in (order + 1)..(b.order - 1)}

\* The upper half is put on its free list at each split of b down to order.
Split(F, b, order) ==
    (F \ {b}) \cup {[addr |-> b.addr + size_for_order(i), order |-> i] :
                        i \in order..(b.order - 1)}

Taken(b, order, size) == [addr |-> b.addr, order |-> order, size |-> size]

\* The block of an order that a lies in, and its buddy (offset XOR size).
BlockAt(a, order) == [addr |-> a - (a % size_for_order(order)), order |-> order]

Buddy(a, order) ==
    LET start == BlockAt(a, order).addr
    IN  [addr |-> IF (start \div size_for_order(order)) % 2 = 0
                  THEN start + size_for_order(order)
                  ELSE start - size_for_order(order),
         order |-> order]

\* The order kheap_free's loop stops at: buddies are free at every order below.
MergedOrder(F, b) ==
    CHOOSE m \in b.order..MaxOrder :
        /\ \A i \in b.order..(m - 1) : Buddy(b.addr, i) \in F
        /\ m = MaxOrder \/ Buddy(b.addr, m) \notin F

\* Mutant: a block goes back as it is.
free_unmerged(F, b) == F \cup {[addr |-> b.addr, order |-> b.order]}

\* kheap_free.
Released(F, b) ==
    LET m == MergedOrder(F, b)
    IN  (F \ {Buddy(b.addr, i) : i \in b.order..(m - 1)}) \cup {BlockAt(b.addr, m)}

kmalloc(size) ==
    LET order == order_for_size(size)
    IN  /\ ~panicked
        /\ Cardinality(live) < MaxLive
        /\ \/ /\ Available(free, order) = {}
              /\ panicked' = TRUE
              /\ UNCHANGED <<free, live>>
           \/ \E b \in FirstAvailable(free, order) :
                /\ free' = Split(free, b, order)
                /\ live' = live \cup {Taken(b, order, size)}
                /\ UNCHANGED panicked

kfree(l) ==
    /\ ~panicked
    /\ free' = Released(free, l)
    /\ live' = live \ {l}
    /\ UNCHANGED panicked

\* krealloc, as dynarray_add calls it to double an array: the old block is freed
\* after the new one has been taken.
krealloc(l) ==
    LET size  == 2 * l.size
        order == order_for_size(size)
    IN  /\ ~panicked
        /\ size <= MaxSize
        /\ \/ /\ Available(free, order) = {}
              /\ panicked' = TRUE
              /\ UNCHANGED <<free, live>>
           \/ \E b \in FirstAvailable(free, order) :
                /\ free' = Released(Split(free, b, order), l)
                /\ live' = (live \ {l}) \cup {Taken(b, order, size)}
                /\ UNCHANGED panicked

Next ==
    \/ \E size \in 0..MaxSize : kmalloc(size)
    \/ \E l \in live : kfree(l) \/ krealloc(l)

Spec == Init /\ [][Next]_vars

-----------------------------------------------------------------------------
Span(b) == b.addr..(b.addr + size_for_order(b.order) - 1)

Blocks == free \cup live

\* The bytes an allocation's owner may write, and its header.
Payload(l) == l.addr..(l.addr + l.size)

\* The type invariant: every block, free or live, has an order kheap_free can
\* work with and lies within the heap.
TypeOK ==
    /\ \A b \in Blocks : b.order \in Orders /\ Span(b) \subseteq 0..(HeapSize - 1)
    /\ panicked \in BOOLEAN

\* Free and live blocks tile the heap: no split, merge or reallocation loses a
\* byte or has two blocks share one.
BlocksTile ==
    /\ \A b, c \in Blocks : b # c => Span(b) \cap Span(c) = {}
    /\ UNION {Span(b) : b \in Blocks} = 0..(HeapSize - 1)

\* What an owner writes, and the order kheap_free will read in front of it, is in
\* no other block, so no write of one owner reaches another's data, its header
\* or the link of a free block.
PayloadPrivate ==
    \A l \in live : \A b \in Blocks \ {l} : Payload(l) \cap Span(b) = {}

\* kheap_free has merged all that can be: where a whole aligned block of some
\* order is free, it is not cut up among smaller free blocks but lies within one
\* block of the free lists, so a request of that order can be served from there.
FreeSpaceUsable ==
    \A order \in Orders : \A a \in 0..(HeapSize - 1) :
        LET block == Span(BlockAt(a, order))
        IN  block \subseteq UNION {Span(b) : b \in free}
                => \E b \in free : block \subseteq Span(b)
=============================================================================
