---------------------------- MODULE KHeapProofs ----------------------------
(***************************************************************************)
(* Proofs about KHeap, for a heap of any size, any number of orders and    *)
(* any requests.                                                           *)
(*                                                                         *)
(* The block of order i that an address x lies in is x \div 2^i, counted   *)
(* in smallest blocks: that number is halved from an order to the next,    *)
(* and the two blocks that halve to the same one are buddies.  Splitting   *)
(* and merging both rest on one fact, Parts: a block of order m around an  *)
(* address a is the block of order o around a and the buddies at the       *)
(* orders from o to m - 1.                                                 *)
(***************************************************************************)
EXTENDS KHeap, FiniteSetTheorems, TLAPS

\* A non-empty set of natural numbers has a least one.  A claim about all numbers
\* holds because it has no least counterexample; this stands in for induction.
LEMMA LeastNat ==
    ASSUME NEW S \in SUBSET Nat, S # {}
    PROVE  \E x \in S : \A y \in S : x <= y
  <1>1. PICK R : R = {ss \in Nat \X Nat : ss[1] < ss[2]}
    OBVIOUS
  <1>2. IsWellFoundedOn(R, Nat)
    BY <1>1, NatLessThanWellFounded DEF OpToRel
  <1>3. PICK x \in S : \A y \in S : <<y, x>> \notin R
    BY <1>2, WFMin
  <1>4. ASSUME NEW y \in S PROVE x <= y
    <2>1. ~ (y < x)
      BY <1>1, <1>3
    <2> QED
      BY <2>1
  <1> QED
    BY <1>4

\* The number of the block of order i that x lies in.
Num(x, i) == x \div size_for_order(i)

\* The number of a block's buddy.
Other(q) == IF q % 2 = 0 THEN q + 1 ELSE q - 1

-----------------------------------------------------------------------------
(* Arithmetic *)

LEMMA SizeFacts ==
    /\ MaxOrder \in Nat
    /\ \A i \in Orders : i \in Nat /\ size_for_order(i) \in Nat \ {0}
    /\ \A i \in Orders : i + 1 \in Orders => size_for_order(i + 1) = 2 * size_for_order(i)
  <1>1. MaxOrder \in Nat /\ MinBlock \in Nat \ {0}
    BY KHeapAssumption
  <1>2. ASSUME NEW i \in Orders
        PROVE  i \in Nat /\ 2^i \in Nat \ {0} /\ 2^(i + 1) = 2 * 2^i
    BY <1>1, PowersDouble DEF Orders
  <1>3. ASSUME NEW a \in Nat \ {0}, NEW b \in Nat \ {0} PROVE a * b \in Nat \ {0}
    BY SMT
  <1>4. ASSUME NEW a \in Nat, NEW b \in Nat PROVE a * (2 * b) = 2 * (a * b)
    BY SMT
  <1>5. \A i \in Orders : size_for_order(i) \in Nat \ {0}
    BY <1>1, <1>2, <1>3 DEF size_for_order
  <1>6. \A i \in Orders : i + 1 \in Orders => size_for_order(i + 1) = 2 * size_for_order(i)
    BY <1>1, <1>2, <1>4 DEF size_for_order
  <1> QED
    BY <1>1, <1>2, <1>5, <1>6

LEMMA Quotient ==
    ASSUME NEW s \in Nat \ {0}, NEW x \in Nat
    PROVE  /\ x \div s \in Nat /\ x % s \in Nat /\ x % s < s
           /\ x = s * (x \div s) + (x % s)
  BY SMT

\* The numbers that have quotient q.
LEMMA QuotientIs ==
    ASSUME NEW s \in Nat \ {0}, NEW x \in Nat, NEW q \in Nat
    PROVE  x \div s = q <=> s * q <= x /\ x < s * q + s
  BY SMT

LEMMA QuotientHalves ==
    ASSUME NEW s \in Nat \ {0}, NEW x \in Nat
    PROVE  x \div (2 * s) = (x \div s) \div 2
  BY SMT

LEMMA NumFacts ==
    ASSUME NEW x \in Nat, NEW i \in Orders
    PROVE  /\ Num(x, i) \in Nat
           /\ i + 1 \in Orders => Num(x, i + 1) = Num(x, i) \div 2
  BY SizeFacts, Quotient, QuotientHalves DEF Num

\* Buddies are different and have the same half, and no other number has.
LEMMA OtherFacts ==
    ASSUME NEW p \in Nat, NEW q \in Nat
    PROVE  /\ Other(q) \in Nat /\ Other(q) # q /\ Other(Other(q)) = q
           /\ p \div 2 = q \div 2 <=> p = q \/ p = Other(q)
  BY DEF Other

\* Addresses in the same block of one order are so at all larger ones.
LEMMA Nested ==
    ASSUME NEW x \in Nat, NEW y \in Nat, NEW i \in Orders, NEW j \in Orders, i <= j,
           Num(x, i) = Num(y, i)
    PROVE  Num(x, j) = Num(y, j)
  <1> DEFINE Bad == {k \in Orders : i <= k /\ Num(x, k) # Num(y, k)}
  <1>1. SUFFICES ASSUME Bad # {} PROVE FALSE
    OBVIOUS
  <1>2. Bad \in SUBSET Nat
    BY SizeFacts
  <1>3. PICK k \in Bad : \A n \in Bad : k <= n
    BY <1>1, <1>2, LeastNat
  <1>4. /\ k \in Orders /\ k \in Nat /\ i \in Nat /\ i <= k /\ k # i
    BY <1>3, SizeFacts
  <1>5. k - 1 \in Orders /\ i <= k - 1 /\ (k - 1) + 1 = k
    BY <1>4, SizeFacts DEF Orders
  <1>6. Num(x, k - 1) = Num(y, k - 1)
    BY <1>3, <1>4, <1>5
  <1>7. Num(x, k) = Num(x, k - 1) \div 2 /\ Num(y, k) = Num(y, k - 1) \div 2
    BY <1>4, <1>5, NumFacts
  <1> QED
    BY <1>3, <1>6, <1>7

\* The block of order m around a: the block of order o around a, and the buddies
\* on the way up.
LEMMA Parts ==
    ASSUME NEW a \in Nat, NEW x \in Nat, NEW o \in Orders, NEW m \in Orders, o <= m
    PROVE  Num(x, m) = Num(a, m) <=>
             \/ Num(x, o) = Num(a, o)
             \/ \E i \in o..(m - 1) : Num(x, i) = Other(Num(a, i))
  <1>1. o \in Nat /\ m \in Nat /\ m <= MaxOrder /\ MaxOrder \in Nat
    BY SizeFacts DEF Orders
  <1>2. ASSUME NEW i \in o..(m - 1), Num(x, i) = Other(Num(a, i))
        PROVE  Num(x, m) = Num(a, m)
    <2>1. i \in Orders /\ i + 1 \in Orders /\ i + 1 <= m
      BY <1>1 DEF Orders
    <2>2. Num(x, i + 1) = Num(a, i + 1)
      BY <1>2, <2>1, NumFacts, OtherFacts
    <2> QED
      BY <2>1, <2>2, Nested
  <1>3. ASSUME Num(x, m) = Num(a, m), Num(x, o) # Num(a, o)
        PROVE  \E i \in o..(m - 1) : Num(x, i) = Other(Num(a, i))
    <2> DEFINE Eq == {k \in Orders : o <= k /\ Num(x, k) = Num(a, k)}
    <2>1. Eq \in SUBSET Nat /\ m \in Eq
      BY <1>3, SizeFacts
    <2>2. PICK k \in Eq : \A n \in Eq : k <= n
      BY <2>1, LeastNat
    <2>3. k \in Orders /\ k \in Nat /\ o <= k /\ k <= m /\ k # o
      BY <1>3, <2>1, <2>2
    <2>4. k - 1 \in Orders /\ k - 1 \in o..(m - 1) /\ (k - 1) + 1 = k
      BY <1>1, <2>3 DEF Orders
    <2>5. Num(x, k - 1) # Num(a, k - 1)
      <3>1. k - 1 \notin Eq
        BY <2>2, <2>3
      <3> QED
        BY <3>1, <2>4
    <2>6. Num(x, k - 1) \div 2 = Num(a, k - 1) \div 2
      BY <2>2, <2>3, <2>4, NumFacts
    <2>7. Num(x, k - 1) = Other(Num(a, k - 1))
      BY <2>4, <2>5, <2>6, NumFacts, OtherFacts
    <2> QED
      BY <2>4, <2>7
  <1> QED
    BY <1>2, <1>3, <1>1, Nested

\* The parts do not overlap.
LEMMA PartsApart ==
    ASSUME NEW a \in Nat, NEW x \in Nat, NEW o \in Orders, NEW i \in Orders, o <= i,
           Num(x, i) = Other(Num(a, i))
    PROVE  /\ Num(x, o) # Num(a, o)
           /\ \A j \in Orders : o <= j /\ j # i => Num(x, j) # Other(Num(a, j))
  <1>1. Num(x, i) # Num(a, i)
    BY NumFacts, OtherFacts
  <1>2. Num(x, o) # Num(a, o)
    BY <1>1, Nested
  <1>3. ASSUME NEW j \in Orders, NEW k \in Orders, j < k, Num(x, j) = Other(Num(a, j))
        PROVE  Num(x, k) = Num(a, k)
    <2>1. j \in Nat /\ k \in Nat /\ j + 1 \in Orders /\ j + 1 <= k
      BY <1>3, SizeFacts DEF Orders
    <2>2. Num(x, j + 1) = Num(a, j + 1)
      BY <1>3, <2>1, NumFacts, OtherFacts
    <2> QED
      BY <2>1, <2>2, Nested
  <1>4. ASSUME NEW j \in Orders, j # i PROVE Num(x, j) # Other(Num(a, j))
    <2>1. j < i \/ i < j
      BY <1>4, SizeFacts
    <2>2. CASE j < i
      BY <1>1, <1>3, <2>2
    <2>3. CASE i < j
      <3>1. Num(x, j) = Num(a, j)
        BY <1>3, <2>3
      <3> QED
        BY <3>1, NumFacts, OtherFacts
    <2> QED
      BY <2>1, <2>2, <2>3
  <1> QED
    BY <1>2, <1>4

-----------------------------------------------------------------------------
(* Blocks *)

FreeBlock == [addr : Nat, order : Orders]
LiveBlock == [addr : Nat, order : Orders, size : Nat]

\* A block starts at a multiple of its size.
Aligned(b) ==
    /\ b.addr \in Nat /\ b.order \in Orders
    /\ b.addr = size_for_order(b.order) * Num(b.addr, b.order)

\* An aligned block is all that has its number.
LEMMA SpanNum ==
    ASSUME NEW b, Aligned(b), NEW x
    PROVE  x \in Span(b) <=> x \in Nat /\ Num(x, b.order) = Num(b.addr, b.order)
  <1>1. PICK s \in Nat \ {0} : s = size_for_order(b.order)
    BY SizeFacts DEF Aligned
  <1>2. PICK a \in Nat, q \in Nat : a = b.addr /\ q = Num(b.addr, b.order) /\ a = s * q
    BY <1>1, NumFacts DEF Aligned
  <1>3. Span(b) = a..(a + s - 1)
    BY <1>1, <1>2 DEF Span
  <1>4. x \in Span(b) <=> x \in Nat /\ a <= x /\ x < a + s
    BY <1>3
  <1>5. x \in Nat => (Num(x, b.order) = q <=> s * q <= x /\ x < s * q + s)
    BY <1>1, QuotientIs DEF Num
  <1> QED
    BY <1>2, <1>4, <1>5

LEMMA AtFacts ==
    ASSUME NEW a \in Nat, NEW i \in Orders
    PROVE  /\ BlockAt(a, i) \in FreeBlock /\ BlockAt(a, i).order = i
           /\ Aligned(BlockAt(a, i)) /\ Num(BlockAt(a, i).addr, i) = Num(a, i)
           /\ BlockAt(a, i).addr = size_for_order(i) * Num(a, i)
  <1>1. PICK s \in Nat \ {0} : s = size_for_order(i)
    BY SizeFacts
  <1>2. PICK q \in Nat : q = Num(a, i)
    BY NumFacts
  <1>3. BlockAt(a, i) = [addr |-> a - (a % s), order |-> i]
    BY <1>1 DEF BlockAt
  <1>4. a - (a % s) = s * q /\ s * q \in Nat
    BY <1>1, <1>2, Quotient DEF Num
  <1>5. (s * q) \div s = q
    BY QuotientIs, <1>4
  <1>6. BlockAt(a, i).addr = s * q /\ BlockAt(a, i).order = i
    BY <1>3, <1>4
  <1> QED
    BY <1>1, <1>2, <1>3, <1>4, <1>5, <1>6 DEF Aligned, Num, FreeBlock

LEMMA BuddyFacts ==
    ASSUME NEW a \in Nat, NEW i \in Orders
    PROVE  /\ Buddy(a, i) \in FreeBlock /\ Buddy(a, i).order = i
           /\ Aligned(Buddy(a, i)) /\ Num(Buddy(a, i).addr, i) = Other(Num(a, i))
  <1>1. PICK s \in Nat \ {0} : s = size_for_order(i)
    BY SizeFacts
  <1>2. PICK q \in Nat : q = Num(a, i)
    BY NumFacts
  <1>3. BlockAt(a, i).addr = s * q /\ (s * q) \div s = q /\ s * q \in Nat
    BY <1>1, <1>2, AtFacts, QuotientIs
  <1>4. Buddy(a, i) = [addr |-> IF q % 2 = 0 THEN s * q + s ELSE s * q - s, order |-> i]
    BY <1>1, <1>3 DEF Buddy
  <1>5. (IF q % 2 = 0 THEN s * q + s ELSE s * q - s) = s * Other(q)
    <2>1. CASE q % 2 = 0
      BY <2>1 DEF Other
    <2>2. CASE q % 2 # 0
      BY <2>2 DEF Other
    <2> QED
      BY <2>1, <2>2
  <1>6. PICK r \in Nat : r = Other(q)
    BY OtherFacts
  <1>7. s * r \in Nat /\ (s * r) \div s = r
    BY QuotientIs
  <1>8. Buddy(a, i) = [addr |-> s * r, order |-> i]
    BY <1>4, <1>5, <1>6
  <1>9. Buddy(a, i).addr = s * r /\ Buddy(a, i).order = i
    BY <1>8
  <1> QED
    BY <1>1, <1>2, <1>6, <1>7, <1>8, <1>9 DEF Aligned, Num, FreeBlock

\* A block is known by its order and its number.
LEMMA SameBlock ==
    ASSUME NEW b \in FreeBlock, NEW c \in FreeBlock, Aligned(b), Aligned(c),
           b.order = c.order, Num(b.addr, b.order) = Num(c.addr, c.order)
    PROVE  b = c
  <1>1. b.addr = c.addr
    BY DEF Aligned
  <1> QED
    BY <1>1 DEF FreeBlock

\* A block starts at a multiple of every smaller size, and the upper half of what
\* is split from it at order i is a buddy of its start.
LEMMA HalfIsBuddy ==
    ASSUME NEW b, Aligned(b), NEW i \in Orders, i < b.order
    PROVE  /\ [addr |-> b.addr + size_for_order(i), order |-> i] = Buddy(b.addr, i)
           /\ b.addr = size_for_order(i) * Num(b.addr, i)
  <1>1. PICK a \in Nat, m \in Orders : a = b.addr /\ m = b.order
    BY DEF Aligned
  <1>2. m \in Nat /\ i \in Nat /\ m <= MaxOrder /\ MaxOrder \in Nat /\ i < m
    BY <1>1, SizeFacts DEF Orders
  <1>3. ASSUME NEW k \in Orders, k + 1 \in Orders, a = size_for_order(k + 1) * Num(a, k + 1)
        PROVE  /\ a = size_for_order(k) * Num(a, k)
               /\ Num(a, k) % 2 = 0
    <2>1. PICK s \in Nat \ {0}, q \in Nat : s = size_for_order(k) /\ q = Num(a, k + 1)
      BY <1>3, SizeFacts, NumFacts
    <2>2. a = (2 * s) * q
      BY <1>3, <2>1, SizeFacts
    <2>3. a = s * (2 * q)
      BY <2>2
    <2>4. a \div s = 2 * q
      BY <2>3, QuotientIs
    <2> QED
      BY <2>1, <2>3, <2>4 DEF Num
  <1> DEFINE Bad == {n \in Nat : n <= m /\ a # size_for_order(m - n) * Num(a, m - n)}
  <1>4. ASSUME Bad # {} PROVE FALSE
    <2>1. PICK n \in Bad : \A k \in Bad : n <= k
      BY <1>4, LeastNat
    <2>2. n # 0
      BY <1>1, <1>2, <2>1 DEF Aligned
    <2>3. PICK k \in Orders : k = m - n
      BY <1>2, <2>1 DEF Orders
    <2>4. k + 1 \in Orders /\ k + 1 = m - (n - 1) /\ n - 1 \in Nat /\ n - 1 <= m
      BY <1>2, <2>1, <2>2, <2>3 DEF Orders
    <2>5. n - 1 \notin Bad
      BY <2>1
    <2>6. a = size_for_order(k + 1) * Num(a, k + 1)
      BY <2>4, <2>5
    <2> QED
      BY <1>3, <2>1, <2>3, <2>4, <2>6
  <1>5. ASSUME NEW k \in Orders, k <= m PROVE a = size_for_order(k) * Num(a, k)
    <2>1. k \in Nat /\ m - k \in Nat /\ m - k <= m /\ m - (m - k) = k
      BY <1>2, <1>5, SizeFacts
    <2>2. m - k \notin Bad
      BY <1>4
    <2> QED
      BY <2>1, <2>2
  <1>6. i + 1 \in Orders /\ i + 1 <= m /\ i <= m
    BY <1>2 DEF Orders
  <1>7. a = size_for_order(i) * Num(a, i) /\ Num(a, i) % 2 = 0
    BY <1>3, <1>5, <1>6
  <1>8. BlockAt(a, i).addr = a
    BY <1>7, AtFacts
  <1>9. Buddy(a, i) = [addr |-> a + size_for_order(i), order |-> i]
    BY <1>7, <1>8 DEF Buddy, Num
  <1> QED
    BY <1>1, <1>7, <1>9

-----------------------------------------------------------------------------
(* The invariant, of free blocks F and live blocks V *)

\* Every byte of the heap lies in a block, and no other does.
Covers(B) ==
    /\ \A b \in B : Span(b) \subseteq 0..(HeapSize - 1)
    /\ \A x \in 0..(HeapSize - 1) : \E b \in B : x \in Span(b)

\* No byte lies in two.
Apart(B) == \A b, c \in B : b # c => Span(b) \cap Span(c) = {}

\* Of two buddies at most one is free.
Merged(F) ==
    \A b, c \in F : (b # c /\ b.order = c.order /\ b.order < MaxOrder) =>
        Num(b.addr, b.order) \div 2 # Num(c.addr, c.order) \div 2

Heap(F, V) ==
    /\ F \subseteq FreeBlock /\ V \subseteq LiveBlock
    /\ \A b \in F \cup V : Aligned(b)
    /\ Covers(F \cup V)
    /\ Apart(F) /\ Apart(V) /\ \A b \in F, c \in V : Span(b) \cap Span(c) = {}
    /\ \A l \in V : l.size < size_for_order(l.order)
    /\ Merged(F)

HeapInv == Heap(free, live) /\ panicked \in BOOLEAN

-----------------------------------------------------------------------------
\* The block b of order m, the block t of order o at its start, and the buddies
\* in between make up the same bytes.
IsSplit(a, o, m, t, b, H) ==
    /\ o <= m
    /\ Aligned(t) /\ t.addr = a /\ t.order = o
    /\ Aligned(b) /\ b.order = m /\ Num(b.addr, m) = Num(a, m)
    /\ H = {Buddy(a, i) : i \in o..(m - 1)}

LEMMA Pieces ==
    ASSUME NEW a \in Nat, NEW o \in Orders, NEW m \in Orders, NEW t, NEW b, NEW H,
           IsSplit(a, o, m, t, b, H)
    PROVE  /\ H \subseteq FreeBlock
           /\ \A h \in H : Aligned(h)
           /\ \A x : x \in Span(b) <=> x \in Span(t) \/ \E h \in H : x \in Span(h)
           /\ \A h \in H : Span(h) \cap Span(t) = {}
           /\ Apart(H)
  <1> USE DEF IsSplit
  <1>1. \A i \in o..(m - 1) : i \in Orders /\ o <= i
    BY SizeFacts DEF Orders
  <1>2. H \subseteq FreeBlock /\ \A h \in H : Aligned(h)
    BY <1>1, BuddyFacts
  <1>3. \A x : x \in Span(t) <=> x \in Nat /\ Num(x, o) = Num(a, o)
    BY SpanNum
  <1>4. \A x : x \in Span(b) <=> x \in Nat /\ Num(x, m) = Num(a, m)
    BY SpanNum
  <1>5. ASSUME NEW i \in o..(m - 1), NEW x
        PROVE  x \in Span(Buddy(a, i)) <=> x \in Nat /\ Num(x, i) = Other(Num(a, i))
    <2>1. i \in Orders
      BY <1>1
    <2>2. /\ Aligned(Buddy(a, i)) /\ Buddy(a, i).order = i
          /\ Num(Buddy(a, i).addr, i) = Other(Num(a, i))
      BY <2>1, BuddyFacts
    <2> QED
      BY <2>2, SpanNum
  <1>6. ASSUME NEW x PROVE x \in Span(b) <=> x \in Span(t) \/ \E h \in H : x \in Span(h)
    <2>1. (\E h \in H : x \in Span(h))
            <=> x \in Nat /\ \E i \in o..(m - 1) : Num(x, i) = Other(Num(a, i))
      BY <1>5
    <2>2. CASE x \in Nat
      BY <1>3, <1>4, <2>1, <2>2, Parts
    <2>3. CASE x \notin Nat
      BY <1>3, <1>4, <2>1, <2>3
    <2> QED
      BY <2>2, <2>3
  <1>7. ASSUME NEW h \in H, NEW x, x \in Span(h), x \in Span(t) PROVE FALSE
    <2>1. PICK i \in o..(m - 1) : h = Buddy(a, i)
      OBVIOUS
    <2>2. x \in Nat /\ Num(x, i) = Other(Num(a, i)) /\ Num(x, o) = Num(a, o)
      BY <1>3, <1>5, <1>7, <2>1
    <2> QED
      BY <1>1, <2>2, PartsApart
  <1>8. ASSUME NEW h \in H, NEW k \in H, h # k, NEW x, x \in Span(h), x \in Span(k) PROVE FALSE
    <2>1. PICK i \in o..(m - 1) : h = Buddy(a, i)
      OBVIOUS
    <2>2. PICK j \in o..(m - 1) : k = Buddy(a, j)
      OBVIOUS
    <2>3. x \in Nat /\ Num(x, i) = Other(Num(a, i)) /\ Num(x, j) = Other(Num(a, j))
      BY <1>5, <1>8, <2>1, <2>2
    <2>4. i # j /\ i \in Orders /\ j \in Orders /\ o <= i /\ o <= j
      BY <1>1, <1>8, <2>1, <2>2
    <2> QED
      BY <2>3, <2>4, PartsApart
  <1> QED
    BY <1>2, <1>6, <1>7, <1>8 DEF Apart

\* kheap_alloc: b is split down to order o.
LEMMA SplitKeeps ==
    ASSUME NEW F, NEW V, Heap(F, V), NEW b \in F, NEW o \in Orders, o <= b.order,
           NEW size \in Nat, size < size_for_order(o)
    PROVE  /\ Heap(Split(F, b, o), V \cup {Taken(b, o, size)})
           /\ Taken(b, o, size) \notin V
  <1>1. b \in FreeBlock /\ Aligned(b)
    BY DEF Heap
  <1>2. PICK a \in Nat, m \in Orders : a = b.addr /\ m = b.order
    BY <1>1 DEF Aligned
  <1>3. PICK H : H = {Buddy(a, i) : i \in o..(m - 1)}
    OBVIOUS
  <1>4. \A i \in o..(m - 1) : i \in Orders /\ i < m
    BY SizeFacts DEF Orders
  <1>5. Split(F, b, o) = (F \ {b}) \cup H
    <2>1. \A i \in o..(m - 1) : [addr |-> b.addr + size_for_order(i), order |-> i] = Buddy(a, i)
      BY <1>1, <1>2, <1>4, HalfIsBuddy
    <2>2. {[addr |-> b.addr + size_for_order(i), order |-> i] : i \in o..(m - 1)} = H
      BY <1>3, <2>1
    <2> QED
      BY <1>2, <2>2 DEF Split
  <1>6. PICK t : t = Taken(b, o, size)
    OBVIOUS
  <1>7. t \in LiveBlock /\ t.addr = a /\ t.order = o /\ t.size = size
    BY <1>2, <1>6 DEF Taken, LiveBlock
  <1>8. Aligned(t)
    <2>1. a = size_for_order(o) * Num(a, o)
      <3>1. CASE o = m
        BY <1>1, <1>2, <3>1 DEF Aligned
      <3>2. CASE o < m
        BY <1>1, <1>2, <3>2, HalfIsBuddy
      <3> QED
        BY <1>2, <3>1, <3>2, SizeFacts
    <2> QED
      BY <1>7, <2>1 DEF Aligned
  <1>9. /\ H \subseteq FreeBlock
        /\ \A h \in H : Aligned(h)
        /\ \A x : x \in Span(b) <=> x \in Span(t) \/ \E h \in H : x \in Span(h)
        /\ \A h \in H : Span(h) \cap Span(t) = {}
        /\ Apart(H)
    <2>1. IsSplit(a, o, m, t, b, H)
      BY <1>1, <1>2, <1>3, <1>7, <1>8 DEF IsSplit
    <2> QED
      BY <2>1, Pieces
  <1>10. /\ \A c \in F \ {b} : Span(c) \cap Span(b) = {}
         /\ \A c \in V : Span(c) \cap Span(b) = {}
         /\ Apart(F) /\ Apart(V) /\ Covers(F \cup V)
         /\ \A c \in F, d \in V : Span(c) \cap Span(d) = {}
    BY DEF Heap, Apart
  <1>11. PICK G : G = (F \ {b}) \cup H
    OBVIOUS
  <1>12. PICK W : W = V \cup {t}
    OBVIOUS
  <1>13. G \subseteq FreeBlock /\ W \subseteq LiveBlock /\ \A c \in G \cup W : Aligned(c)
    BY <1>7, <1>8, <1>9, <1>11, <1>12 DEF Heap
  <1>14. Covers(G \cup W)
    <2>1. \A c \in G \cup W : Span(c) \subseteq 0..(HeapSize - 1)
      <3>1. Span(b) \subseteq 0..(HeapSize - 1)
        BY <1>10 DEF Covers
      <3>2. Span(t) \subseteq Span(b) /\ \A h \in H : Span(h) \subseteq Span(b)
        BY <1>9
      <3> QED
        BY <1>10, <1>11, <1>12, <3>1, <3>2 DEF Covers
    <2>2. ASSUME NEW x \in 0..(HeapSize - 1) PROVE \E c \in G \cup W : x \in Span(c)
      <3>1. PICK c \in F \cup V : x \in Span(c)
        BY <1>10 DEF Covers
      <3>2. CASE c = b
        BY <1>9, <1>11, <1>12, <3>1, <3>2
      <3>3. CASE c # b
        BY <1>11, <1>12, <3>1, <3>3
      <3> QED
        BY <3>2, <3>3
    <2> QED
      BY <2>1, <2>2 DEF Covers
  <1>15. Apart(G)
    <2> SUFFICES ASSUME NEW c \in G, NEW d \in G, c # d, NEW x, x \in Span(c), x \in Span(d)
                 PROVE  FALSE
      BY DEF Apart
    <2>1. CASE c \in H /\ d \in H
      BY <1>9, <2>1 DEF Apart
    <2>2. CASE c \in F \ {b} /\ d \in F \ {b}
      BY <1>10, <2>2 DEF Apart
    <2>3. CASE c \in H /\ d \in F \ {b}
      BY <1>9, <1>10, <2>3
    <2>4. CASE c \in F \ {b} /\ d \in H
      BY <1>9, <1>10, <2>4
    <2> QED
      BY <1>11, <2>1, <2>2, <2>3, <2>4
  <1>16. \A c \in V : Span(c) \cap Span(t) = {}
    BY <1>9, <1>10
  <1>17. Apart(W)
    BY <1>10, <1>12, <1>16 DEF Apart
  <1>18. \A c \in G, d \in W : Span(c) \cap Span(d) = {}
    <2> SUFFICES ASSUME NEW c \in G, NEW d \in W, NEW x, x \in Span(c), x \in Span(d)
                 PROVE  FALSE
      OBVIOUS
    <2>1. CASE c \in H /\ d = t
      BY <1>9, <2>1
    <2>2. CASE c \in H /\ d \in V
      BY <1>9, <1>10, <2>2
    <2>3. CASE c \in F \ {b} /\ d = t
      BY <1>9, <1>10, <2>3
    <2>4. CASE c \in F \ {b} /\ d \in V
      BY <1>10, <2>4
    <2> QED
      BY <1>11, <1>12, <2>1, <2>2, <2>3, <2>4
  <1>19. \A l \in W : l.size < size_for_order(l.order)
    BY <1>7, <1>12 DEF Heap
  <1>20. a \in Span(t)
    BY <1>7, <1>8, SpanNum
  <1>21. Merged(G)
    \* The buddy of a half is where the taken block is.
    <2>1. ASSUME NEW h \in H, NEW c \in G, c # h, c.order = h.order,
                 Num(c.addr, c.order) \div 2 = Num(h.addr, h.order) \div 2
          PROVE  FALSE
      <3>1. PICK i \in o..(m - 1) : h = Buddy(a, i)
        BY <1>3
      <3>2. i \in Orders /\ o <= i
        BY <1>4, SizeFacts
      <3>3. h.order = i /\ Num(h.addr, i) = Other(Num(a, i)) /\ h \in FreeBlock /\ Aligned(h)
        BY <3>1, <3>2, BuddyFacts
      <3>4. Aligned(c) /\ c \in FreeBlock /\ c.addr \in Nat
        BY <1>13 DEF Aligned
      <3>5. Num(c.addr, i) # Num(h.addr, i)
        BY <2>1, <3>3, <3>4, SameBlock
      <3>6. Num(c.addr, i) = Num(a, i)
        <4>1. PICK p \in Nat, q \in Nat : p = Num(c.addr, i) /\ q = Num(a, i)
          BY <3>2, <3>4, NumFacts
        <4>2. p \div 2 = Other(q) \div 2 /\ p # Other(q)
          BY <2>1, <3>3, <3>5, <4>1
        <4>3. Other(q) \div 2 = q \div 2
          BY OtherFacts
        <4> QED
          BY <4>1, <4>2, <4>3, OtherFacts
      <3>7. a \in Span(c)
        BY <2>1, <3>3, <3>4, <3>6, SpanNum
      <3> QED
        BY <1>12, <1>18, <1>20, <3>7
    <2> SUFFICES ASSUME NEW c \in G, NEW d \in G, c # d, c.order = d.order, c.order < MaxOrder,
                        Num(c.addr, c.order) \div 2 = Num(d.addr, d.order) \div 2
                 PROVE  FALSE
      BY DEF Merged
    <2>2. CASE c \in H
      BY <2>1, <2>2
    <2>3. CASE d \in H
      BY <2>1, <2>3
    <2>4. CASE c \in F /\ d \in F
      BY <2>4 DEF Heap, Merged
    <2> QED
      BY <1>11, <2>2, <2>3, <2>4
  <1>22. t \notin V
    BY <1>16, <1>20
  <1>23. Heap(G, W)
    BY <1>13, <1>14, <1>15, <1>17, <1>18, <1>19, <1>21 DEF Heap
  <1> QED
    BY <1>5, <1>6, <1>11, <1>12, <1>22, <1>23

\* Where kheap_free's loop stops.
LEMMA StopsAt ==
    ASSUME NEW F, NEW l, Aligned(l)
    PROVE  /\ MergedOrder(F, l) \in Orders /\ l.order <= MergedOrder(F, l)
           /\ \A i \in l.order..(MergedOrder(F, l) - 1) : Buddy(l.addr, i) \in F
           /\ MergedOrder(F, l) = MaxOrder \/ Buddy(l.addr, MergedOrder(F, l)) \notin F
  <1>1. PICK a \in Nat, o \in Orders : a = l.addr /\ o = l.order
    BY DEF Aligned
  <1>2. o \in Nat /\ MaxOrder \in Nat /\ o <= MaxOrder
    BY SizeFacts DEF Orders
  <1> DEFINE Stop == {k \in o..MaxOrder : k = MaxOrder \/ Buddy(a, k) \notin F}
             Ok(m) == /\ \A i \in o..(m - 1) : Buddy(a, i) \in F
                      /\ m = MaxOrder \/ Buddy(a, m) \notin F
  <1>3. Stop \in SUBSET Nat /\ MaxOrder \in Stop
    BY <1>2
  <1>4. PICK k \in Stop : \A n \in Stop : k <= n
    BY <1>3, LeastNat
  <1>5. k \in o..MaxOrder
    BY <1>4
  <1>6. ASSUME NEW i \in o..(k - 1) PROVE Buddy(a, i) \in F
    <2>1. i \in o..MaxOrder /\ i # MaxOrder /\ ~(k <= i)
      BY <1>2, <1>5
    <2> QED
      BY <1>4, <2>1
  <1>7. Ok(k)
    BY <1>4, <1>6
  <1>8. MergedOrder(F, l) = CHOOSE m \in o..MaxOrder : Ok(m)
    BY <1>1 DEF MergedOrder
  <1> HIDE DEF Ok
  <1>9. MergedOrder(F, l) \in o..MaxOrder /\ Ok(MergedOrder(F, l))
    BY <1>5, <1>7, <1>8
  <1> QED
    BY <1>1, <1>2, <1>9 DEF Ok, Orders

\* kheap_free: l and the free buddies on the way up become one block.
LEMMA ReleaseKeeps ==
    ASSUME NEW F, NEW V, Heap(F, V), NEW l \in V
    PROVE  Heap(Released(F, l), V \ {l})
  <1>1. l \in LiveBlock /\ Aligned(l)
    BY DEF Heap
  <1>2. PICK a \in Nat, o \in Orders : a = l.addr /\ o = l.order
    BY <1>1 DEF Aligned
  <1>3. PICK m \in Orders : m = MergedOrder(F, l)
    BY <1>1, StopsAt
  <1>4. /\ o <= m
        /\ \A i \in o..(m - 1) : Buddy(a, i) \in F
        /\ m = MaxOrder \/ Buddy(a, m) \notin F
    BY <1>1, <1>2, <1>3, StopsAt
  <1>5. PICK H : H = {Buddy(a, i) : i \in o..(m - 1)}
    OBVIOUS
  <1>6. H \subseteq F
    BY <1>4, <1>5
  <1>7. PICK b : b = BlockAt(a, m)
    OBVIOUS
  <1>8. b \in FreeBlock /\ Aligned(b) /\ b.order = m /\ Num(b.addr, m) = Num(a, m)
    BY <1>7, AtFacts
  <1>9. Released(F, l) = (F \ H) \cup {b}
    BY <1>2, <1>3, <1>5, <1>7 DEF Released
  <1>10. /\ \A x : x \in Span(b) <=> x \in Span(l) \/ \E h \in H : x \in Span(h)
         /\ \A h \in H : Span(h) \cap Span(l) = {}
    <2>1. IsSplit(a, o, m, l, b, H)
      BY <1>1, <1>2, <1>4, <1>5, <1>8 DEF IsSplit
    <2> QED
      BY <2>1, Pieces
  <1>11. /\ Apart(F) /\ Apart(V) /\ Covers(F \cup V)
         /\ \A c \in F, d \in V : Span(c) \cap Span(d) = {}
    BY DEF Heap
  <1>12. \A c \in F \ H : Span(c) \cap Span(b) = {}
    <2> SUFFICES ASSUME NEW c \in F \ H, NEW x, x \in Span(c), x \in Span(b) PROVE FALSE
      OBVIOUS
    <2>1. CASE x \in Span(l)
      BY <1>11, <2>1
    <2>2. ASSUME NEW h \in H, x \in Span(h) PROVE FALSE
      BY <1>6, <1>11, <2>2 DEF Apart
    <2> QED
      BY <1>10, <2>1, <2>2
  <1>13. \A c \in V \ {l} : Span(b) \cap Span(c) = {}
    <2> SUFFICES ASSUME NEW c \in V \ {l}, NEW x, x \in Span(c), x \in Span(b) PROVE FALSE
      OBVIOUS
    <2>1. CASE x \in Span(l)
      BY <1>11, <2>1 DEF Apart
    <2>2. ASSUME NEW h \in H, x \in Span(h) PROVE FALSE
      BY <1>6, <1>11, <2>2
    <2> QED
      BY <1>10, <2>1, <2>2
  <1>14. PICK G : G = (F \ H) \cup {b}
    OBVIOUS
  <1>15. PICK W : W = V \ {l}
    OBVIOUS
  <1>16. G \subseteq FreeBlock /\ W \subseteq LiveBlock /\ \A c \in G \cup W : Aligned(c)
    BY <1>8, <1>14, <1>15 DEF Heap
  <1>17. Covers(G \cup W)
    <2>1. Span(b) \subseteq 0..(HeapSize - 1)
      <3> SUFFICES ASSUME NEW x, x \in Span(b) PROVE x \in 0..(HeapSize - 1)
        OBVIOUS
      <3>1. \E c \in F \cup V : x \in Span(c)
        BY <1>6, <1>10
      <3> QED
        BY <1>11, <3>1 DEF Covers
    <2>2. ASSUME NEW x \in 0..(HeapSize - 1) PROVE \E c \in G \cup W : x \in Span(c)
      <3>1. PICK c \in F \cup V : x \in Span(c)
        BY <1>11 DEF Covers
      <3>2. CASE c = l \/ c \in H
        BY <1>10, <1>14, <3>1, <3>2
      <3>3. CASE c # l /\ c \notin H
        BY <1>14, <1>15, <3>1, <3>3
      <3> QED
        BY <3>2, <3>3
    <2>3. \A c \in G \cup W : Span(c) \subseteq 0..(HeapSize - 1)
      BY <1>11, <1>14, <1>15, <2>1 DEF Covers
    <2> QED
      BY <2>2, <2>3 DEF Covers
  <1>18. Apart(G)
    BY <1>11, <1>12, <1>14 DEF Apart
  <1>19. Apart(W)
    BY <1>11, <1>15 DEF Apart
  <1>20. \A c \in G, d \in W : Span(c) \cap Span(d) = {}
    BY <1>11, <1>13, <1>14, <1>15
  <1>21. \A k \in W : k.size < size_for_order(k.order)
    BY <1>15 DEF Heap
  <1>22. Merged(G)
    \* The loop stopped because the buddy of b is not free.
    <2>1. ASSUME NEW c \in F, c # b, c.order = m, m < MaxOrder,
                 Num(c.addr, m) \div 2 = Num(b.addr, m) \div 2
          PROVE  FALSE
      <3>1. Aligned(c) /\ c \in FreeBlock /\ c.addr \in Nat
        BY DEF Heap, Aligned
      <3>2. PICK p \in Nat, q \in Nat : p = Num(c.addr, m) /\ q = Num(a, m)
        BY <3>1, NumFacts
      <3>3. p # q
        BY <1>8, <2>1, <3>1, <3>2, SameBlock
      <3>4. p = Other(q)
        BY <1>8, <2>1, <3>2, <3>3, OtherFacts
      <3>5. /\ Buddy(a, m) \in FreeBlock /\ Buddy(a, m).order = m
            /\ Aligned(Buddy(a, m)) /\ Num(Buddy(a, m).addr, m) = Other(q)
        BY <3>2, BuddyFacts
      <3>6. c = Buddy(a, m)
        BY <2>1, <3>1, <3>2, <3>4, <3>5, SameBlock
      <3>7. m # MaxOrder
        BY <2>1, SizeFacts
      <3> QED
        BY <1>4, <3>6, <3>7
    <2> SUFFICES ASSUME NEW c \in G, NEW d \in G, c # d, c.order = d.order, c.order < MaxOrder,
                        Num(c.addr, c.order) \div 2 = Num(d.addr, d.order) \div 2
                 PROVE  FALSE
      BY DEF Merged
    <2>2. CASE c = b
      BY <1>8, <1>14, <2>1, <2>2
    <2>3. CASE d = b
      BY <1>8, <1>14, <2>1, <2>3
    <2>4. CASE c \in F /\ d \in F
      BY <2>4 DEF Heap, Merged
    <2> QED
      BY <1>14, <2>2, <2>3, <2>4
  <1>23. Heap(G, W)
    BY <1>16, <1>17, <1>18, <1>19, <1>20, <1>21, <1>22 DEF Heap
  <1> QED
    BY <1>9, <1>14, <1>15, <1>23

-----------------------------------------------------------------------------
(* The steps *)

LEMMA OrderFacts ==
    ASSUME NEW size \in Nat
    PROVE  /\ order_for_size(size) \in 0..(MaxOrder + 1)
           /\ order_for_size(size) > MaxOrder \/ size_for_order(order_for_size(size)) > size
  <1> DEFINE Stop == {k \in 0..(MaxOrder + 1) : k > MaxOrder \/ size_for_order(k) > size}
             Ok(o) == /\ o > MaxOrder \/ size_for_order(o) > size
                      /\ \A q \in 0..(o - 1) : size_for_order(q) <= size
  <1>1. MaxOrder \in Nat /\ Stop \in SUBSET Nat /\ MaxOrder + 1 \in Stop
    BY SizeFacts
  <1>2. PICK k \in Stop : \A n \in Stop : k <= n
    BY <1>1, LeastNat
  <1>3. ASSUME NEW q \in 0..(k - 1) PROVE size_for_order(q) <= size
    <2>1. q \in 0..(MaxOrder + 1) /\ q \in Orders /\ ~(k <= q)
      BY <1>1, <1>2 DEF Orders
    <2>2. ~(size_for_order(q) > size)
      BY <1>2, <2>1
    <2> QED
      BY <2>1, <2>2, SizeFacts
  <1>4. Ok(k)
    BY <1>2, <1>3
  <1>5. order_for_size(size) = CHOOSE o \in 0..(MaxOrder + 1) : Ok(o)
    BY DEF order_for_size
  <1> HIDE DEF Ok
  <1>6. order_for_size(size) \in 0..(MaxOrder + 1) /\ Ok(order_for_size(size))
    BY <1>2, <1>4, <1>5
  <1> QED
    BY <1>6 DEF Ok

\* A block that kheap_alloc may split has room for the request and its header.
LEMMA FirstAvailableFacts ==
    ASSUME NEW F, NEW V, Heap(F, V), NEW size \in Nat, NEW b \in FirstAvailable(F, order_for_size(size))
    PROVE  /\ b \in F /\ order_for_size(size) \in Orders /\ order_for_size(size) <= b.order
           /\ size < size_for_order(order_for_size(size))
  <1>1. PICK o \in 0..(MaxOrder + 1) : o = order_for_size(size)
    BY OrderFacts
  <1>2. b \in F /\ b.order >= o
    BY <1>1 DEF FirstAvailable, Available
  <1>3. b.order \in Orders
    BY <1>2 DEF Heap, Aligned
  <1>4. MaxOrder \in Nat /\ o \in Orders /\ o <= b.order /\ ~(o > MaxOrder)
    BY <1>2, <1>3, SizeFacts DEF Orders
  <1>5. size < size_for_order(o)
    BY <1>1, <1>4, OrderFacts, SizeFacts
  <1> QED
    BY <1>1, <1>2, <1>4, <1>5

LEMMA HeapInit == Init => HeapInv
  <1> SUFFICES ASSUME Init PROVE HeapInv
    OBVIOUS
  <1>1. PICK b : b = [addr |-> 0, order |-> MaxOrder]
    OBVIOUS
  <1>2. free = {b} /\ live = {} /\ panicked = FALSE
    BY <1>1 DEF Init
  <1>3. MaxOrder \in Orders /\ MaxOrder \in Nat
    BY SizeFacts DEF Orders
  <1>4. PICK s \in Nat \ {0} : s = size_for_order(MaxOrder)
    BY <1>3, SizeFacts
  <1>5. b \in FreeBlock /\ b.addr = 0 /\ b.order = MaxOrder
    BY <1>1, <1>3 DEF FreeBlock
  <1>6. 0 \div s = 0 /\ s * 0 = 0
    BY QuotientIs
  <1>7. Aligned(b)
    BY <1>3, <1>4, <1>5, <1>6 DEF Aligned, Num
  <1>8. Span(b) = 0..(HeapSize - 1)
    BY <1>4, <1>5 DEF Span, HeapSize
  <1>9. Covers({b})
    BY <1>8 DEF Covers
  <1>10. free \cup live = {b}
    BY <1>2
  <1>11. Covers(free \cup live)
    BY <1>9, <1>10
  <1>12. Apart(free) /\ Apart(live) /\ Merged(free)
    BY <1>2 DEF Apart, Merged
  <1> QED
    BY <1>2, <1>5, <1>7, <1>11, <1>12 DEF HeapInv, Heap

LEMMA HeapStep == HeapInv /\ [Next]_vars => HeapInv'
  <1> SUFFICES ASSUME HeapInv, [Next]_vars PROVE HeapInv'
    OBVIOUS
  <1>1. Heap(free, live) /\ panicked \in BOOLEAN /\ live \subseteq LiveBlock
    BY DEF HeapInv, Heap
  <1>2. ASSUME NEW size \in 0..MaxSize, kmalloc(size) PROVE HeapInv'
    <2>1. size \in Nat
      BY KHeapAssumption
    <2>2. CASE UNCHANGED <<free, live>> /\ panicked' = TRUE
      BY <1>1, <2>2 DEF HeapInv
    <2>3. ASSUME NEW b \in FirstAvailable(free, order_for_size(size)),
                 free' = Split(free, b, order_for_size(size)),
                 live' = live \cup {Taken(b, order_for_size(size), size)},
                 panicked' = panicked
          PROVE  HeapInv'
      <3>1. PICK o \in Orders : o = order_for_size(size) /\ o <= b.order /\ size < size_for_order(o)
        BY <1>1, <2>1, FirstAvailableFacts
      <3>2. b \in free
        BY <1>1, <2>1, FirstAvailableFacts
      <3>3. Heap(Split(free, b, o), live \cup {Taken(b, o, size)})
        BY <1>1, <2>1, <3>1, <3>2, SplitKeeps
      <3> QED
        BY <1>1, <2>3, <3>1, <3>3 DEF HeapInv
    <2> QED
      BY <1>2, <2>2, <2>3 DEF kmalloc
  <1>3. ASSUME NEW l \in live, kfree(l) PROVE HeapInv'
    <2>1. Heap(Released(free, l), live \ {l})
      BY <1>1, ReleaseKeeps
    <2> QED
      BY <1>1, <1>3, <2>1 DEF kfree, HeapInv
  <1>4. ASSUME NEW l \in live, krealloc(l) PROVE HeapInv'
    <2>1. PICK size \in Nat : size = 2 * l.size
      BY <1>1 DEF LiveBlock
    <2>2. CASE UNCHANGED <<free, live>> /\ panicked' = TRUE
      BY <1>1, <2>2 DEF HeapInv
    <2>3. ASSUME NEW b \in FirstAvailable(free, order_for_size(size)),
                 free' = Released(Split(free, b, order_for_size(size)), l),
                 live' = (live \ {l}) \cup {Taken(b, order_for_size(size), size)},
                 panicked' = panicked
          PROVE  HeapInv'
      <3>1. PICK o \in Orders : o = order_for_size(size) /\ o <= b.order /\ size < size_for_order(o)
        BY <1>1, <2>1, FirstAvailableFacts
      <3>2. b \in free
        BY <1>1, <2>1, FirstAvailableFacts
      <3>3. PICK t : t = Taken(b, o, size)
        OBVIOUS
      <3>4. Heap(Split(free, b, o), live \cup {t}) /\ t \notin live
        BY <1>1, <2>1, <3>1, <3>2, <3>3, SplitKeeps
      <3>5. Heap(Released(Split(free, b, o), l), (live \cup {t}) \ {l})
        BY <3>4, ReleaseKeeps
      <3>6. (live \cup {t}) \ {l} = (live \ {l}) \cup {t}
        BY <3>4
      <3> QED
        BY <1>1, <2>3, <3>1, <3>3, <3>5, <3>6 DEF HeapInv
    <2> QED
      BY <1>4, <2>1, <2>2, <2>3 DEF krealloc
  <1>5. CASE UNCHANGED vars
    BY <1>1, <1>5 DEF vars, HeapInv
  <1> QED
    BY <1>2, <1>3, <1>4, <1>5 DEF Next

\* Whatever is allocated, freed and reallocated, the blocks tile the heap, are
\* aligned, have room for what was asked, and no two free ones are buddies.
THEOREM HeapInvariant == Spec => []HeapInv
  BY HeapInit, HeapStep, PTL DEF Spec

\* Every block that kheap_free may meet has an order it can work with.
THEOREM HeapTypeCorrect == Spec => []TypeOK
  <1>1. HeapInv => TypeOK
    BY DEF HeapInv, Heap, Covers, Aligned, Blocks, TypeOK
  <1> QED
    BY <1>1, HeapInvariant, PTL

\* No split, merge or reallocation loses a byte or gives it to two blocks.
THEOREM HeapTiled == Spec => []BlocksTile
  <1>1. HeapInv => BlocksTile
    <2> SUFFICES ASSUME HeapInv PROVE BlocksTile
      OBVIOUS
    <2>1. Heap(free, live)
      BY DEF HeapInv
    <2>2. ASSUME NEW b \in Blocks, NEW c \in Blocks, b # c PROVE Span(b) \cap Span(c) = {}
      BY <2>1, <2>2 DEF Heap, Apart, Blocks
    <2>3. UNION {Span(b) : b \in Blocks} = 0..(HeapSize - 1)
      BY <2>1 DEF Heap, Covers, Blocks
    <2> QED
      BY <2>2, <2>3 DEF BlocksTile
  <1> QED
    BY <1>1, HeapInvariant, PTL

\* What an owner writes, and the order in front of it, is in no other block.
THEOREM OwnersApart == Spec => []PayloadPrivate
  <1>1. HeapInv => PayloadPrivate
    <2> SUFFICES ASSUME HeapInv, NEW l \in live, NEW b \in Blocks \ {l}
                 PROVE  Payload(l) \cap Span(b) = {}
      BY DEF PayloadPrivate
    <2>1. Heap(free, live)
      BY DEF HeapInv
    <2>2. l \in LiveBlock /\ Aligned(l) /\ l.size < size_for_order(l.order)
      BY <2>1 DEF Heap
    <2>3. PICK a \in Nat, n \in Nat, s \in Nat :
            a = l.addr /\ n = l.size /\ s = size_for_order(l.order) /\ n < s
      BY <2>2, SizeFacts DEF LiveBlock
    <2>4. Payload(l) = a..(a + n) /\ Span(l) = a..(a + s - 1)
      BY <2>3 DEF Payload, Span
    <2>5. Payload(l) \subseteq Span(l)
      BY <2>3, <2>4
    <2>6. Span(l) \cap Span(b) = {}
      BY <2>1 DEF Heap, Apart, Blocks
    <2> QED
      BY <2>5, <2>6
  <1> QED
    BY <1>1, HeapInvariant, PTL

\* A whole aligned block of free bytes is never cut up among smaller free ones: the
\* smallest of them would have its buddy free.
THEOREM FreeSpaceMerged == Spec => []FreeSpaceUsable
  <1>1. HeapInv => FreeSpaceUsable
    <2> SUFFICES ASSUME HeapInv, NEW order \in Orders, NEW a \in 0..(HeapSize - 1),
                        Span(BlockAt(a, order)) \subseteq UNION {Span(b) : b \in free},
                        \A b \in free : ~(Span(BlockAt(a, order)) \subseteq Span(b))
                 PROVE  FALSE
      BY DEF FreeSpaceUsable
    <2>1. Heap(free, live) /\ a \in Nat /\ order \in Nat /\ MaxOrder \in Nat /\ order <= MaxOrder
      BY SizeFacts DEF HeapInv, Orders, HeapSize
    <2>2. \A b \in free : /\ b \in FreeBlock /\ Aligned(b) /\ b.addr \in Nat
                           /\ b.order \in Orders /\ b.order \in Nat
      <3>1. \A b \in free : b \in FreeBlock /\ Aligned(b) /\ b.addr \in Nat /\ b.order \in Orders
        BY <2>1 DEF Heap, Aligned
      <3> QED
        BY <2>1, <3>1, SizeFacts
    <2>3. \A x : x \in Span(BlockAt(a, order)) <=> x \in Nat /\ Num(x, order) = Num(a, order)
      BY <2>1, AtFacts, SpanNum
    <2>4. ASSUME NEW x \in Nat, Num(x, order) = Num(a, order)
          PROVE  \E b \in free : /\ x \in Span(b) /\ b.order < order
                                 /\ Num(b.addr, order) = Num(a, order)
      <3>1. PICK b \in free : x \in Span(b)
        BY <2>3, <2>4
      <3>2. Num(x, b.order) = Num(b.addr, b.order) /\ b.addr \in Nat /\ b.order \in Orders
        BY <2>2, <3>1, SpanNum
      <3>3. ASSUME order <= b.order PROVE FALSE
        <4>1. ASSUME NEW z \in Nat, Num(z, order) = Num(a, order) PROVE z \in Span(b)
          <5>1. Num(z, b.order) = Num(x, b.order)
            BY <2>4, <3>2, <3>3, <4>1, Nested
          <5> QED
            BY <2>2, <3>2, <5>1, SpanNum
        <4> QED
          BY <2>3, <4>1
      <3>4. b.order < order
        BY <2>1, <2>2, <3>3
      <3>5. Num(x, order) = Num(b.addr, order)
        BY <2>1, <2>2, <3>2, <3>4, Nested
      <3> QED
        BY <2>4, <3>1, <3>4, <3>5
    <2> DEFINE In == {b.order : b \in {c \in free :
                         c.order < order /\ Num(c.addr, order) = Num(a, order)}}
    <2>5. In \in SUBSET Nat /\ In # {}
      BY <2>1, <2>2, <2>4
    <2>6. PICK i \in In : \A n \in In : i <= n
      BY <2>5, LeastNat
    <2>7. PICK c \in free : Num(c.addr, order) = Num(a, order) /\ c.order = i /\ i < order
      BY <2>6
    <2>8. /\ i \in Orders /\ i \in Nat /\ i < order /\ i < MaxOrder /\ c.addr \in Nat
          /\ i + 1 \in Orders /\ i + 1 <= order
      BY <2>1, <2>2, <2>7 DEF Orders
    <2>9. PICK y \in Nat : Num(y, i) = Other(Num(c.addr, i))
      <3>1. Buddy(c.addr, i).addr \in Nat
        BY <2>8, BuddyFacts DEF Aligned
      <3> QED
        BY <2>8, <3>1, BuddyFacts
    <2>10. Num(y, i + 1) = Num(c.addr, i + 1)
      BY <2>8, <2>9, NumFacts, OtherFacts
    <2>11. Num(y, order) = Num(a, order)
      BY <2>7, <2>8, <2>10, Nested
    <2>12. PICK d \in free : y \in Span(d) /\ d.order < order /\ Num(d.addr, order) = Num(a, order)
      BY <2>4, <2>11
    <2>13. /\ d.order \in Orders /\ d.order \in Nat /\ i <= d.order
           /\ Num(y, d.order) = Num(d.addr, d.order)
      BY <2>2, <2>6, <2>12, SpanNum
    <2>14. CASE d.order = i
      <3>1. PICK p \in Nat, q \in Nat : p = Num(d.addr, i) /\ q = Num(c.addr, i)
        BY <2>2, <2>8, NumFacts
      <3>2. p = Other(q)
        BY <2>9, <2>13, <2>14, <3>1
      <3>3. p # q /\ p \div 2 = q \div 2
        BY <3>2, OtherFacts
      <3>4. d # c
        BY <3>1, <3>3
      <3> QED
        BY <2>1, <2>7, <2>8, <2>14, <3>1, <3>3, <3>4 DEF Heap, Merged
    <2>15. CASE d.order # i
      <3>1. i + 1 <= d.order
        BY <2>8, <2>13, <2>15
      <3>2. Num(c.addr, d.order) = Num(d.addr, d.order)
        BY <2>8, <2>10, <2>13, <3>1, Nested
      <3>3. c.addr \in Span(d)
        BY <2>2, <2>8, <3>2, SpanNum
      <3>4. c.addr \in Span(c)
        BY <2>2, <2>8, SpanNum
      <3>5. c # d
        BY <2>7, <2>15
      <3> QED
        BY <2>1, <3>3, <3>4, <3>5 DEF Heap, Apart
    <2> QED
      BY <2>14, <2>15
  <1> QED
    BY <1>1, HeapInvariant, PTL

=============================================================================
