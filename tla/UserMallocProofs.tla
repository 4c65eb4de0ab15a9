-------------------------- MODULE UserMallocProofs --------------------------
(***************************************************************************)
(* UserMalloc, for any classes, header, threshold, page size, arena and    *)
(* sizes asked for: blocks held and listed make up the arena, regions are  *)
(* those held, and what an owner wrote stays.                              *)
(*                                                                         *)
(* The invariant is stated of a heap h and the set H of blocks handed out, *)
(* so that it can be followed through the steps of a call.                 *)
(***************************************************************************)
EXTENDS UserMalloc, FiniteSetTheorems, SequenceTheorems, TLAPS

\* A non-empty set of natural numbers has a least one.  A claim about all numbers
\* holds because it has no least counterexample; this stands in for induction.
LEMMA LeastNat ==
    ASSUME NEW S \in SUBSET Nat, S # {}
    PROVE  \E x \in S : \A y \in S : x <= y
  <1>1. PICK R : R = {ss \in Nat \X Nat : ss[1] < ss[2]}
    OBVIOUS
  <1>2. IsWellFoundedOn(R, Nat)
    BY <1>1, NatLessThanWellFounded DEF OpToRel
  <1>3. PICK x \in S : \A y \in S : <<y, x>> \notin R
    BY <1>2, WFMin
  <1>4. ASSUME NEW y \in S PROVE x <= y
    <2>1. ~ (y < x)
      BY <1>1, <1>3
    <2> QED
      BY <2>1
  <1> QED
    BY <1>4

Contents == Vals \cup {Junk, InHead}

\* The heap's fields and their types.
Heap == [brk : Nat, next : Nat, regions : SUBSET (Nat \X Nat),
         small : [Classes -> Seq(Nat)], large : Seq(Nat),
         size : [Cells -> Nat], cell : [Cells -> Contents]]

\* A list holds no block twice.
Once(s)  == \A i, j \in DOMAIN s : s[i] = s[j] => i = j
Elems(s) == {s[i] : i \in DOMAIN s}

\* All lists of a heap, and the blocks on them.
ListsOf(h) == [c \in Lists |-> List(h, c)]
On(L)      == UNION {Elems(L[c]) : c \in Lists}

\* A block of n cells belongs on list c: those of a class are all of the class's
\* size, the large ones larger than any class.
Fit(c, n)  == IF c = NClasses THEN block_size_for_class(NClasses - 1) < n
              ELSE n = block_size_for_class(c)
Sized(n)   == \E c \in Lists : Fit(c, n)

ListsOK(L, size) ==
    \A c \in Lists : Once(L[c]) /\ \A b \in Elems(L[c]) : Fit(c, size[b])

\* The blocks in B fill the arena up to the break, side by side.
Tiles(B, brk, size) ==
    /\ B \subseteq 0..(brk - 1)
    /\ \A b \in B : Header < size[b] /\ b + size[b] <= brk /\ Sized(size[b])
    /\ \A a, b \in B : a # b => a + size[a] <= b \/ b + size[b] <= a
    /\ \A x \in 0..(brk - 1) : \E b \in B : b <= x /\ x < b + size[b]

\* The regions are those of the blocks in R, apart and below the next one.
RegionsOK(regions, next, size, R) ==
    /\ R \subseteq 0..(next - 1) /\ \A b \in R : ArenaMax <= b /\ Header < size[b]
    /\ \A r \in regions : r[1] \in R /\ size[r[1]] <= r[2] /\ r[1] + r[2] <= next
    /\ \A b \in R : \E r \in regions : r[1] = b
    /\ \A r, q \in regions : r # q => r[1] + r[2] <= q[1] \/ q[1] + q[2] <= r[1]

HeadsOK(cell, B) == \A b \in B : \A a \in b..(b + Header - 1) : cell[a] = InHead

InArena(H) == {b \in H : b < ArenaMax}
Mapped(H)  == {b \in H : b >= ArenaMax}

HeapInv(h, H) ==
    /\ h \in Heap /\ H \subseteq Nat
    /\ h.brk <= ArenaMax /\ ArenaMax <= h.next /\ h.next <= RegionMax
    /\ ListsOK(ListsOf(h), h.size)
    /\ On(ListsOf(h)) \cap H = {}
    /\ Tiles(On(ListsOf(h)) \cup InArena(H), h.brk, h.size)
    /\ RegionsOK(h.regions, h.next, h.size, Mapped(H))
    /\ HeadsOK(h.cell, On(ListsOf(h)) \cup H)

\* An allocation has room for its header and its bytes, and holds what was written.
Holds(h, l) ==
    /\ l \in [b : Nat, size : Nat, val : Vals]
    /\ Header + l.size <= h.size[l.b]
    /\ \A i \in 0..(l.size - 1) : h.cell[At(l.b, i)] = l.val

Owners(L) == {l.b : l \in L}

\* What holds of the heap and the allocations together.
Sound(h, L) ==
    /\ HeapInv(h, Owners(L))
    /\ IsFiniteSet(L)
    /\ \A l \in L : Holds(h, l)
    /\ \A l, k \in L : l.b = k.b => l = k

IInv == Sound(heap, live)

-----------------------------------------------------------------------------
(* Lists. *)

\* t is s, of n elements, without the k-th.
Without(s, t, n, k) ==
    /\ DOMAIN s = 1..n /\ DOMAIN t = 1..(n - 1)
    /\ \A i \in 1..(n - 1) : t[i] = IF i < k THEN s[i] ELSE s[i + 1]

LEMMA Removed ==
    ASSUME NEW n \in Nat, NEW k \in 1..n, NEW s, NEW t, Once(s), Without(s, t, n, k)
    PROVE  s[k] \in Elems(s) /\ Once(t) /\ Elems(t) = Elems(s) \ {s[k]}
  <1>0. /\ DOMAIN s = 1..n /\ DOMAIN t = 1..(n - 1)
        /\ \A i \in 1..(n - 1) : t[i] = IF i < k THEN s[i] ELSE s[i + 1]
    BY DEF Without
  <1> USE <1>0
  <1>1. \A i, j \in 1..n : s[i] = s[j] => i = j
    BY DEF Once
  <1>2. ASSUME NEW i \in 1..(n - 1), NEW j \in 1..(n - 1), t[i] = t[j] PROVE i = j
    <2>1. PICK x \in 1..n : x = IF i < k THEN i ELSE i + 1
      OBVIOUS
    <2>2. PICK y \in 1..n : y = IF j < k THEN j ELSE j + 1
      OBVIOUS
    <2>3. t[i] = s[x] /\ t[j] = s[y]
      BY <2>1, <2>2
    <2>4. x = y
      BY ONLY <1>1, <1>2, <2>3, x \in 1..n, y \in 1..n
    <2> QED
      BY <2>1, <2>2, <2>4
  <1>3. ASSUME NEW i \in 1..(n - 1) PROVE t[i] \in Elems(s) /\ t[i] # s[k]
    <2>1. PICK x \in 1..n : x = IF i < k THEN i ELSE i + 1
      OBVIOUS
    <2>2. t[i] = s[x] /\ x # k
      BY <2>1
    <2> QED
      BY <2>2, <1>1 DEF Elems
  <1>4. ASSUME NEW i \in 1..n, i # k PROVE s[i] \in Elems(t)
    <2>1. PICK x \in 1..(n - 1) : x = IF i < k THEN i ELSE i - 1
      BY <1>4
    <2>2. t[x] = s[i]
      <3>1. CASE i < k
        BY <3>1, <2>1
      <3>2. CASE i > k
        <4>1. x = i - 1 /\ ~ (x < k) /\ x + 1 = i
          BY <2>1, <3>2
        <4>2. t[x] = s[x + 1]
          BY <4>1
        <4> QED
          BY ONLY <4>1, <4>2
      <3> QED
        BY <1>4, <3>1, <3>2
    <2> QED
      BY <2>2 DEF Elems
  <1>5. Once(t)
    BY <1>2 DEF Once
  <1>6. \A x \in Elems(t) : x \in Elems(s) /\ x # s[k]
    BY <1>3 DEF Elems
  <1>7. \A x \in Elems(s) : x # s[k] => x \in Elems(t)
    <2>1. ASSUME NEW x \in Elems(s), x # s[k] PROVE x \in Elems(t)
      <3>1. PICK i \in 1..n : x = s[i]
        BY DEF Elems
      <3> QED
        BY <2>1, <3>1, <1>4
    <2> QED
      BY <2>1
  <1>8. s[k] \in Elems(s)
    BY DEF Elems
  <1> QED
    BY <1>5, <1>6, <1>7, <1>8

LEMMA PopLemma ==
    ASSUME NEW s \in Seq(Nat), s # <<>>, Once(s)
    PROVE  /\ Head(s) \in Nat /\ Head(s) \in Elems(s)
           /\ Tail(s) \in Seq(Nat) /\ Once(Tail(s)) /\ Elems(Tail(s)) = Elems(s) \ {Head(s)}
  <1>1. PICK n \in Nat : n = Len(s) /\ n # 0 /\ DOMAIN s = 1..n
    BY EmptySeq, LenProperties
  <1>2. PICK t \in Seq(Nat) : t = Tail(s)
    BY HeadTailProperties
  <1>3. Len(t) = n - 1 /\ \A i \in 1..Len(t) : t[i] = s[i + 1]
    BY <1>1, <1>2, HeadTailProperties
  <1>4. DOMAIN t = 1..(n - 1)
    BY <1>3, LenProperties
  <1>5. \A i \in 1..(n - 1) : t[i] = IF i < 1 THEN s[i] ELSE s[i + 1]
    BY <1>3
  <1>6. 1 \in 1..n /\ Head(s) = s[1]
    BY <1>1
  <1>7. s[1] \in Elems(s) /\ Once(t) /\ Elems(t) = Elems(s) \ {s[1]}
    <2>1. Without(s, t, n, 1)
      BY <1>1, <1>4, <1>5 DEF Without
    <2> QED
      BY <2>1, <1>6, Removed
  <1> QED
    BY <1>2, <1>6, <1>7, HeadTailProperties

\* The k-th block is taken out of the middle.
LEMMA RemoveLemma ==
    ASSUME NEW s \in Seq(Nat), NEW k \in 1..Len(s), Once(s)
    PROVE  /\ s[k] \in Nat /\ s[k] \in Elems(s)
           /\ SubSeq(s, 1, k - 1) \o SubSeq(s, k + 1, Len(s)) \in Seq(Nat)
           /\ Once(SubSeq(s, 1, k - 1) \o SubSeq(s, k + 1, Len(s)))
           /\ Elems(SubSeq(s, 1, k - 1) \o SubSeq(s, k + 1, Len(s))) = Elems(s) \ {s[k]}
  <1>1. PICK n \in Nat : n = Len(s) /\ DOMAIN s = 1..n
    BY LenProperties
  <1>2. \A i \in 1..n : s[i] \in Nat
    BY <1>1, ElementOfSeq
  <1>3. k \in 1..n /\ \A i \in 1..(k - 1) : s[i] \in Nat
    BY <1>1, <1>2
  <1>4. \A i \in (k + 1)..n : s[i] \in Nat
    BY <1>2, <1>3
  <1>5. PICK p : p = SubSeq(s, 1, k - 1)
    OBVIOUS
  <1>6. /\ p \in Seq(Nat) /\ Len(p) = IF 1 <= k - 1 THEN (k - 1) - 1 + 1 ELSE 0
        /\ \A i \in 1..((k - 1) - 1 + 1) : p[i] = s[1 + i - 1]
    BY <1>3, <1>5, SubSeqProperties
  <1>7. Len(p) = k - 1 /\ \A i \in 1..(k - 1) : p[i] = s[i]
    BY <1>3, <1>6
  <1>8. PICK q : q = SubSeq(s, k + 1, n)
    OBVIOUS
  <1>9. /\ q \in Seq(Nat) /\ Len(q) = IF k + 1 <= n THEN n - (k + 1) + 1 ELSE 0
        /\ \A i \in 1..(n - (k + 1) + 1) : q[i] = s[(k + 1) + i - 1]
    BY <1>3, <1>4, <1>8, SubSeqProperties
  <1>10. Len(q) = n - k /\ \A i \in 1..(n - k) : q[i] = s[k + i]
    BY <1>3, <1>9
  <1>11. PICK t : t = p \o q
    OBVIOUS
  <1>12. /\ t \in Seq(Nat) /\ Len(t) = Len(p) + Len(q)
         /\ \A i \in 1..(Len(p) + Len(q)) : t[i] = IF i <= Len(p) THEN p[i] ELSE q[i - Len(p)]
    BY <1>6, <1>9, <1>11, ConcatProperties
  <1>13. Len(t) = n - 1 /\ DOMAIN t = 1..(n - 1)
    BY <1>3, <1>7, <1>10, <1>12, LenProperties
  <1>14. \A i \in 1..(n - 1) : t[i] = IF i < k THEN s[i] ELSE s[i + 1]
    <2>1. ASSUME NEW i \in 1..(n - 1) PROVE t[i] = IF i < k THEN s[i] ELSE s[i + 1]
      <3>1. t[i] = IF i <= k - 1 THEN p[i] ELSE q[i - (k - 1)]
        BY <1>3, <1>7, <1>10, <1>12
      <3>2. CASE i < k
        BY <1>3, <1>7, <3>1, <3>2
      <3>3. CASE ~ (i < k)
        <4>1. i - (k - 1) \in 1..(n - k) /\ k + (i - (k - 1)) = i + 1 /\ ~ (i <= k - 1)
          BY <1>3, <3>3
        <4>2. q[i - (k - 1)] = s[k + (i - (k - 1))]
          BY <4>1, <1>10
        <4> QED
          BY <3>1, <3>3, <4>1, <4>2
      <3> QED
        BY <3>2, <3>3
    <2> QED
      BY <2>1
  <1>15. s[k] \in Elems(s) /\ Once(t) /\ Elems(t) = Elems(s) \ {s[k]}
    <2>1. Without(s, t, n, k)
      BY <1>1, <1>13, <1>14 DEF Without
    <2> QED
      BY <2>1, <1>3, Removed
  <1> QED
    BY <1>1, <1>2, <1>3, <1>5, <1>8, <1>11, <1>12, <1>15

LEMMA PushLemma ==
    ASSUME NEW s \in Seq(Nat), NEW b \in Nat, Once(s), b \notin Elems(s)
    PROVE  <<b>> \o s \in Seq(Nat) /\ Once(<<b>> \o s) /\ Elems(<<b>> \o s) = Elems(s) \cup {b}
  <1>1. PICK n \in Nat : n = Len(s) /\ DOMAIN s = 1..n
    BY LenProperties
  <1>2. <<b>> \in Seq(Nat) /\ Len(<<b>>) = 1 /\ <<b>>[1] = b
    OBVIOUS
  <1>3. PICK t : t = <<b>> \o s
    OBVIOUS
  <1>4. /\ t \in Seq(Nat) /\ Len(t) = 1 + n
        /\ \A i \in 1..(1 + n) : t[i] = IF i <= 1 THEN <<b>>[i] ELSE s[i - 1]
    BY <1>1, <1>2, <1>3, ConcatProperties
  <1>5. DOMAIN t = 1..(n + 1)
    BY <1>4, LenProperties
  <1>6. t[1] = b /\ \A i \in 2..(n + 1) : t[i] = s[i - 1]
    BY <1>2, <1>4
  <1>7. \A i, j \in 1..n : s[i] = s[j] => i = j
    BY <1>1 DEF Once
  <1>8. \A i \in 1..n : s[i] # b
    BY <1>1 DEF Elems
  <1>9. ASSUME NEW i \in 1..(n + 1), NEW j \in 1..(n + 1), t[i] = t[j] PROVE i = j
    <2>1. CASE i = 1 /\ j = 1
      BY <2>1
    <2>2. CASE i # 1 /\ j # 1
      <3>1. i - 1 \in 1..n /\ j - 1 \in 1..n /\ t[i] = s[i - 1] /\ t[j] = s[j - 1]
        BY <1>6, <2>2
      <3>2. i - 1 = j - 1
        BY <3>1, <1>7, <1>9
      <3> QED
        BY <3>2
    <2>3. CASE i = 1 /\ j # 1
      <3>1. j - 1 \in 1..n /\ t[j] = s[j - 1]
        BY <1>6, <2>3
      <3> QED
        BY <3>1, <1>6, <1>8, <1>9, <2>3
    <2>4. CASE i # 1 /\ j = 1
      <3>1. i - 1 \in 1..n /\ t[i] = s[i - 1]
        BY <1>6, <2>4
      <3> QED
        BY <3>1, <1>6, <1>8, <1>9, <2>4
    <2> QED
      BY <2>1, <2>2, <2>3, <2>4
  <1>10. ASSUME NEW i \in 1..(n + 1) PROVE t[i] \in Elems(s) \cup {b}
    <2>1. CASE i = 1
      BY <2>1, <1>6
    <2>2. CASE i # 1
      <3>1. i - 1 \in 1..n /\ t[i] = s[i - 1]
        BY <1>6, <2>2
      <3> QED
        BY <3>1, <1>1 DEF Elems
    <2> QED
      BY <2>1, <2>2
  <1>11. ASSUME NEW i \in 1..n PROVE s[i] \in Elems(t)
    <2>1. i + 1 \in 1..(n + 1) /\ i + 1 \in 2..(n + 1) /\ (i + 1) - 1 = i
      OBVIOUS
    <2>2. t[i + 1] = s[i]
      BY <2>1, <1>6
    <2> QED
      BY <2>1, <2>2, <1>5 DEF Elems
  <1>12. Once(t)
    BY <1>5, <1>9 DEF Once
  <1>13. Elems(t) \subseteq Elems(s) \cup {b}
    BY <1>5, <1>10 DEF Elems
  <1>14. Elems(s) \subseteq Elems(t)
    BY <1>1, <1>11 DEF Elems
  <1>15. b \in Elems(t)
    <2>1. 1 \in 1..(n + 1)
      OBVIOUS
    <2> QED
      BY <2>1, <1>5, <1>6 DEF Elems
  <1> QED
    BY <1>3, <1>4, <1>12, <1>13, <1>14, <1>15

-----------------------------------------------------------------------------
(* Classes. *)

LEMMA ClassSizes ==
    /\ \A c \in Classes : block_size_for_class(c) \in Nat \ {0}
    /\ \A c, d \in Classes : c < d => block_size_for_class(c) < block_size_for_class(d)
    /\ NClasses - 1 \in Classes
  <1>1. ASSUME NEW a \in Nat \ {0}, NEW x \in Nat \ {0} PROVE a * x \in Nat \ {0}
    BY <1>1, SMT
  <1>2. ASSUME NEW a \in Nat \ {0}, NEW x \in Nat, NEW y \in Nat, x < y PROVE a * x < a * y
    BY <1>2, SMT
  <1>3. \A c \in Classes : 2^c \in Nat \ {0} /\ \A d \in 0..(c - 1) : 2^d < 2^c
    BY ClassesGrow DEF Classes
  <1>4. Align \in Nat \ {0} /\ NClasses \in Nat \ {0}
    BY UserMallocAssumption
  <1>5. \A c, d \in Classes : c < d => c \in 0..(d - 1)
    BY <1>4 DEF Classes
  <1>6. \A c \in Classes : block_size_for_class(c) \in Nat \ {0}
    BY <1>1, <1>3, <1>4 DEF block_size_for_class
  <1>7. ASSUME NEW c \in Classes, NEW d \in Classes, c < d
        PROVE  block_size_for_class(c) < block_size_for_class(d)
    <2>1. 2^c < 2^d /\ 2^c \in Nat /\ 2^d \in Nat
      BY <1>3, <1>5, <1>7
    <2> QED
      BY <2>1, <1>2, <1>4 DEF block_size_for_class
  <1>8. NClasses - 1 \in Classes
    BY <1>4 DEF Classes
  <1> QED
    BY <1>6, <1>7, <1>8

\* No size belongs on two lists.
LEMMA FitOne ==
    ASSUME NEW c \in Lists, NEW d \in Lists, NEW n \in Nat, Fit(c, n), Fit(d, n)
    PROVE  c = d
  <1>1. NClasses \in Nat \ {0} /\ \A e \in Lists : e # NClasses => e \in Classes
    BY UserMallocAssumption DEF Lists, Classes
  <1>2. \A e \in Classes : block_size_for_class(e) <= block_size_for_class(NClasses - 1)
    BY <1>1, ClassSizes DEF Classes
  <1>3. CASE c # NClasses /\ d # NClasses
    <2>1. c \in Classes /\ d \in Classes /\ block_size_for_class(c) = block_size_for_class(d)
      BY <1>1, <1>3 DEF Fit
    <2>2. ~ (c < d) /\ ~ (d < c)
      BY <2>1, ClassSizes
    <2> QED
      BY <2>1, <2>2, <1>1 DEF Classes
  <1>4. CASE c = NClasses /\ d # NClasses
    <2>1. d \in Classes /\ n = block_size_for_class(d) /\ block_size_for_class(NClasses - 1) < n
      BY <1>1, <1>4 DEF Fit
    <2> QED
      BY <2>1, <1>1, <1>2, ClassSizes
  <1>5. CASE c # NClasses /\ d = NClasses
    <2>1. c \in Classes /\ n = block_size_for_class(c) /\ block_size_for_class(NClasses - 1) < n
      BY <1>1, <1>5 DEF Fit
    <2> QED
      BY <2>1, <1>1, <1>2, ClassSizes
  <1> QED
    BY <1>3, <1>4, <1>5

\* mem_class_index: a class with room, or none has room.
LEMMA ClassIndex ==
    ASSUME NEW n \in Nat
    PROVE  \/ class_index(n) \in Classes /\ n <= block_size_for_class(class_index(n))
              /\ \A c \in 0..(class_index(n) - 1) : block_size_for_class(c) < n
           \/ class_index(n) = -1 /\ block_size_for_class(NClasses - 1) < n
  <1>1. CASE block_size_for_class(NClasses - 1) < n
    BY <1>1 DEF class_index
  <1>2. CASE ~ (block_size_for_class(NClasses - 1) < n)
    <2> DEFINE S == {c \in Classes : block_size_for_class(c) >= n}
    <2>1. S # {} /\ S \in SUBSET Nat
      BY <1>2, ClassSizes DEF Classes
    <2>2. PICK m \in S : \A y \in S : m <= y
      BY <2>1, LeastNat
    <2>3. m \in Classes /\ block_size_for_class(m) >= n
      BY <2>2
    <2>4. \A c \in 0..(m - 1) : c \in Classes /\ c < m
      BY <2>3, UserMallocAssumption DEF Classes
    <2>5. \A c \in 0..(m - 1) : block_size_for_class(c) < n
      BY <2>1, <2>2, <2>4, ClassSizes DEF Classes
    <2>6. \E ci \in Classes : /\ block_size_for_class(ci) >= n
                              /\ \A c \in 0..(ci - 1) : block_size_for_class(c) < n
      BY <2>3, <2>5
    <2>7. class_index(n) = CHOOSE ci \in Classes : /\ block_size_for_class(ci) >= n
                                 /\ \A c \in 0..(ci - 1) : block_size_for_class(c) < n
      BY <1>2 DEF class_index
    <2>8. /\ class_index(n) \in Classes /\ block_size_for_class(class_index(n)) >= n
          /\ \A c \in 0..(class_index(n) - 1) : block_size_for_class(c) < n
      BY <2>6, <2>7
    <2> QED
      BY <2>8, ClassSizes
  <1> QED
    BY <1>1, <1>2

\* A block of a list's size goes back to that list.
LEMMA ClassOfFit ==
    ASSUME NEW c \in Lists, NEW n \in Nat, Fit(c, n)
    PROVE  class_index(n) = IF c = NClasses THEN -1 ELSE c
  <1>1. NClasses \in Nat \ {0} /\ \A e \in Lists : e # NClasses => e \in Classes
    BY UserMallocAssumption DEF Lists, Classes
  <1>2. CASE c = NClasses
    BY <1>2 DEF Fit, class_index
  <1>3. CASE c # NClasses
    <2>1. c \in Classes /\ n = block_size_for_class(c)
      BY <1>1, <1>3 DEF Fit
    <2>2. class_index(n) \in Classes
      <3>1. ~ (block_size_for_class(NClasses - 1) < n)
        BY <2>1, <1>1, ClassSizes DEF Classes
      <3> QED
        BY <3>1, ClassIndex
    <2>3. n <= block_size_for_class(class_index(n)) /\ \A d \in 0..(class_index(n) - 1) : block_size_for_class(d) < n
      BY <2>2, ClassIndex DEF Classes
    <2>4. PICK k \in Classes : k = class_index(n)
      BY <2>2
    <2>5. ~ (k < c)
      BY <2>1, <2>3, <2>4, ClassSizes
    <2>6. ~ (c < k)
      BY <2>1, <2>3, <2>4, ClassSizes DEF Classes
    <2> QED
      BY <1>3, <2>1, <2>4, <2>5, <2>6 DEF Classes
  <1> QED
    BY <1>2, <1>3

-----------------------------------------------------------------------------
(* A block leaves a list, or blocks join one.                              *)

TakenFrom(L, M, c, b) ==
    /\ Once(M[c]) /\ Elems(M[c]) = Elems(L[c]) \ {b}
    /\ \A d \in Lists : d # c => M[d] = L[d]

PutOn(L, M, c, N) ==
    /\ Once(M[c]) /\ Elems(M[c]) = Elems(L[c]) \cup N
    /\ \A d \in Lists : d # c => M[d] = L[d]

\* The sizes s and t agree on B, where they are sizes.
SameSizes(s, t, B) == \A b \in B : s[b] \in Nat /\ t[b] = s[b]

LEMMA OnFacts ==
    ASSUME NEW L
    PROVE  /\ \A c \in Lists : Elems(L[c]) \subseteq On(L)
           /\ \A b \in On(L) : \E c \in Lists : b \in Elems(L[c])
  BY DEF On

LEMMA TakenOK ==
    ASSUME NEW L, NEW M, NEW s, NEW c \in Lists, NEW b, b \in Elems(L[c]),
           ListsOK(L, s), TakenFrom(L, M, c, b), SameSizes(s, s, On(L))
    PROVE  ListsOK(M, s) /\ On(M) = On(L) \ {b} /\ b \in On(L) /\ Fit(c, s[b])
  <1>1. ASSUME NEW d \in Lists, d # c PROVE b \notin Elems(L[d])
    <2>1. SUFFICES ASSUME b \in Elems(L[d]) PROVE FALSE
      OBVIOUS
    <2>2. Fit(d, s[b]) /\ Fit(c, s[b])
      BY <2>1 DEF ListsOK
    <2>3. s[b] \in Nat
      BY OnFacts DEF SameSizes
    <2> QED
      BY <1>1, <2>2, <2>3, FitOne
  <1>2. \A d \in Lists : Elems(M[d]) = Elems(L[d]) \ {b}
    BY <1>1 DEF TakenFrom
  <1>3. On(M) = On(L) \ {b}
    BY <1>2 DEF On
  <1>4. \A d \in Lists : Once(M[d])
    BY DEF TakenFrom, ListsOK
  <1>5. ListsOK(M, s)
    BY <1>2, <1>4 DEF ListsOK
  <1> QED
    BY <1>3, <1>5, OnFacts DEF ListsOK

LEMMA PutOK ==
    ASSUME NEW L, NEW M, NEW s, NEW t, NEW c \in Lists, NEW N,
           ListsOK(L, s), PutOn(L, M, c, N), SameSizes(s, t, On(L)),
           \A b \in N : Fit(c, t[b])
    PROVE  ListsOK(M, t) /\ On(M) = On(L) \cup N
  <1>1. \A d \in Lists : Elems(M[d]) = IF d = c THEN Elems(L[d]) \cup N ELSE Elems(L[d])
    BY DEF PutOn
  <1>2. On(M) = On(L) \cup N
    BY <1>1 DEF On
  <1>3. \A d \in Lists : \A b \in Elems(L[d]) : Fit(d, t[b])
    BY OnFacts DEF ListsOK, SameSizes
  <1>4. \A d \in Lists : Once(M[d])
    BY DEF PutOn, ListsOK
  <1>5. ListsOK(M, t)
    BY <1>1, <1>3, <1>4 DEF ListsOK
  <1> QED
    BY <1>2, <1>5

-----------------------------------------------------------------------------
(* The arena grows.                                                        *)

\* The blocks N fill the cells from brk to top, side by side.
Fills(N, brk, top, t) ==
    /\ N \subseteq Nat
    /\ \A b \in N : /\ brk <= b /\ t[b] \in Nat /\ Header < t[b]
                    /\ b + t[b] <= top /\ Sized(t[b])
    /\ \A a, b \in N : a # b => a + t[a] <= b \/ b + t[b] <= a
    /\ \A x \in brk..(top - 1) : \E b \in N : b <= x /\ x < b + t[b]

LEMMA TilesGrow ==
    ASSUME NEW B, NEW brk \in Nat, NEW top \in Nat, brk <= top, NEW s, NEW t, NEW N,
           Tiles(B, brk, s), SameSizes(s, t, B), Fills(N, brk, top, t)
    PROVE  Tiles(B \cup N, top, t) /\ B \cap N = {}
  <1>1. Header \in Nat
    BY UserMallocAssumption
  <1>2. B \subseteq Nat /\ N \subseteq Nat /\ B \subseteq 0..(brk - 1)
    BY DEF Tiles, Fills
  <1>3. \A b \in B : b \in Nat /\ t[b] \in Nat /\ Header < t[b] /\ b + t[b] <= brk /\ Sized(t[b])
    BY <1>2 DEF Tiles, SameSizes
  <1>4. \A b \in N : b \in Nat /\ t[b] \in Nat /\ Header < t[b] /\ brk <= b /\ b + t[b] <= top /\ Sized(t[b])
    BY <1>2 DEF Fills
  <1>5. \A a, b \in B : a # b => a + t[a] <= b \/ b + t[b] <= a
    BY DEF Tiles, SameSizes
  <1>6. \A a, b \in N : a # b => a + t[a] <= b \/ b + t[b] <= a
    BY DEF Fills
  <1>7. \A a \in B, b \in N : a + t[a] <= b
    BY <1>3, <1>4
  <1>8. B \cap N = {}
    BY <1>1, <1>3, <1>4, <1>7
  <1>9. \A b \in B \cup N : Header < t[b] /\ b + t[b] <= top /\ Sized(t[b])
    BY <1>3, <1>4
  <1>10. \A a, b \in B \cup N : a # b => a + t[a] <= b \/ b + t[b] <= a
    BY <1>5, <1>6, <1>7
  <1>11. ASSUME NEW x \in 0..(top - 1) PROVE \E b \in B \cup N : b <= x /\ x < b + t[b]
    <2>1. CASE x < brk
      <3>1. PICK b \in B : b <= x /\ x < b + s[b]
        BY <2>1 DEF Tiles
      <3> QED
        BY <3>1 DEF SameSizes
    <2>2. CASE ~ (x < brk)
      <3>1. x \in brk..(top - 1)
        BY <2>2
      <3>2. PICK b \in N : b <= x /\ x < b + t[b]
        BY <3>1 DEF Fills
      <3> QED
        BY <3>2
    <2> QED
      BY <2>1, <2>2
  <1>12. B \cup N \subseteq 0..(top - 1)
    BY <1>1, <1>2, <1>4
  <1> QED
    BY <1>8, <1>9, <1>10, <1>11, <1>12 DEF Tiles

LEMMA FillsOne ==
    ASSUME NEW brk \in Nat, NEW n \in Nat, Header < n, Sized(n), NEW t, t[brk] = n
    PROVE  Fills({brk}, brk, brk + n, t)
  BY DEF Fills

\* The base of the chunk's blocks: from the last to the first.
Bases(brk, w) == {brk + (Carve - i) * w : i \in 1..Carve}

LEMMA ChunkFacts ==
    ASSUME NEW brk \in Nat, NEW w \in Nat \ {0}
    PROVE  /\ Carve * w \in Nat /\ Bases(brk, w) \subseteq Nat
           /\ \A b \in Bases(brk, w) : brk <= b /\ b + w <= brk + Carve * w
           /\ \A i, j \in 1..Carve : i < j =>
                (brk + (Carve - j) * w) + w <= brk + (Carve - i) * w
           /\ \A x \in brk..(brk + Carve * w - 1) : \E b \in Bases(brk, w) : b <= x /\ x < b + w
  <1>1. Carve \in Nat \ {0}
    BY UserMallocAssumption
  <1>2. ASSUME NEW x \in Nat, NEW y \in Nat PROVE x * y \in Nat
    BY <1>2, SMT
  <1>3. ASSUME NEW x \in Nat, NEW y \in Nat, NEW z \in Nat \ {0}, x < y PROVE x * z + z <= y * z
    <2>1. PICK d \in Nat : y = x + 1 + d
      <3>1. y - x - 1 \in Nat /\ y = x + 1 + (y - x - 1)
        BY <1>3
      <3> QED
        BY <3>1
    <2>2. y * z = x * z + z + d * z /\ d * z \in Nat /\ x * z \in Nat
      BY <2>1, <1>2, SMT
    <2> QED
      BY <2>2
  <1>4. Carve * w \in Nat
    BY <1>1, <1>2
  <1>5. \A i \in 1..Carve : Carve - i \in Nat /\ Carve - i < Carve /\ (Carve - i) * w \in Nat
    BY <1>1, <1>2
  <1>6. \A i \in 1..Carve : (Carve - i) * w + w <= Carve * w
    BY <1>1, <1>3, <1>5
  <1>7. Bases(brk, w) \subseteq Nat /\ \A b \in Bases(brk, w) : brk <= b /\ b + w <= brk + Carve * w
    BY <1>4, <1>5, <1>6 DEF Bases
  <1>8. ASSUME NEW i \in 1..Carve, NEW j \in 1..Carve, i < j
        PROVE  (brk + (Carve - j) * w) + w <= brk + (Carve - i) * w
    <2>1. (Carve - j) * w + w <= (Carve - i) * w
      <3>1. Carve - j < Carve - i /\ Carve - j \in Nat /\ Carve - i \in Nat
        BY <1>1, <1>8
      <3> QED
        BY <3>1, <1>3
    <2> QED
      BY <2>1, <1>5
  <1>9. ASSUME NEW x \in brk..(brk + Carve * w - 1)
        PROVE  \E b \in Bases(brk, w) : b <= x /\ x < b + w
    <2>1. PICK d \in Nat : d = x - brk /\ d < Carve * w
      BY <1>4
    <2>2. PICK q : q = d \div w
      OBVIOUS
    <2>3. q \in Nat /\ w * q <= d /\ d < w * q + w
      <3>1. ASSUME NEW y \in Nat, NEW z \in Nat \ {0}
            PROVE  y \div z \in Nat /\ z * (y \div z) <= y /\ y < z * (y \div z) + z
        BY <3>1, SMT
      <3> QED
        BY <2>2, <3>1
    <2>4. q < Carve
      <3>1. ASSUME q >= Carve PROVE FALSE
        <4>1. ASSUME NEW e \in Nat PROVE (Carve + e) * w = Carve * w + e * w /\ e * w \in Nat
          BY <1>1, <4>1, SMT
        <4>2. q - Carve \in Nat /\ Carve + (q - Carve) = q
          BY <1>1, <2>3, <3>1
        <4>3. q * w = Carve * w + (q - Carve) * w /\ (q - Carve) * w \in Nat
          BY <4>1, <4>2
        <4>4. q * w = w * q
          BY <2>3, SMT
        <4> QED
          BY <4>3, <4>4, <2>1, <2>3, <1>4
      <3> QED
        BY <1>1, <2>3, <3>1
    <2>5. Carve - q \in 1..Carve /\ Carve - (Carve - q) = q
      BY <1>1, <2>3, <2>4
    <2>6. brk + q * w \in Bases(brk, w)
      BY <2>5 DEF Bases
    <2>7. q * w = w * q /\ q * w \in Nat
      BY <2>3, <1>2, SMT
    <2>8. brk + q * w <= x /\ x < (brk + q * w) + w
      BY <2>1, <2>3, <2>7
    <2> QED
      BY <2>6, <2>8
  <1> QED
    BY <1>4, <1>7, <1>8, <1>9

LEMMA FillsMany ==
    ASSUME NEW brk \in Nat, NEW w \in Nat \ {0}, Header < w, Sized(w), NEW t,
           \A b \in Bases(brk, w) : t[b] = w
    PROVE  Fills(Bases(brk, w), brk, brk + Carve * w, t)
  <1>1. PICK N : N = Bases(brk, w)
    OBVIOUS
  <1>2. PICK top : top = brk + Carve * w
    OBVIOUS
  <1>3. /\ N \subseteq Nat /\ \A b \in N : brk <= b /\ b + w <= top /\ t[b] = w
        /\ \A x \in brk..(top - 1) : \E b \in N : b <= x /\ x < b + w
    BY <1>1, <1>2, ChunkFacts
  <1>4. \A b \in N : /\ brk <= b /\ t[b] \in Nat /\ Header < t[b]
                     /\ b + t[b] <= top /\ Sized(t[b])
    BY <1>3
  <1>5. ASSUME NEW a \in N, NEW b \in N, a # b
        PROVE  a + t[a] <= b \/ b + t[b] <= a
    <2>1. PICK i \in 1..Carve : a = brk + (Carve - i) * w
      BY <1>1 DEF Bases
    <2>2. PICK j \in 1..Carve : b = brk + (Carve - j) * w
      BY <1>1 DEF Bases
    <2>3. i # j /\ i \in Nat /\ j \in Nat
      BY <1>5, <2>1, <2>2, UserMallocAssumption
    <2>4. t[a] = w /\ t[b] = w
      BY <1>3
    <2>5. CASE i < j
      BY <2>1, <2>2, <2>4, <2>5, ChunkFacts
    <2>6. CASE j < i
      BY <2>1, <2>2, <2>4, <2>6, ChunkFacts
    <2> QED
      BY <2>3, <2>5, <2>6
  <1>6. \A x \in brk..(top - 1) : \E b \in N : b <= x /\ x < b + t[b]
    BY <1>3
  <1>7. Fills(N, brk, top, t)
    BY <1>3, <1>4, <1>5, <1>6 DEF Fills
  <1> QED
    BY ONLY <1>1, <1>2, <1>7

-----------------------------------------------------------------------------
(* A region comes or goes.                                                 *)

LEMMA RegionComes ==
    ASSUME NEW r \in SUBSET (Nat \X Nat), NEW next \in Nat, NEW s, NEW t, NEW R,
           NEW len \in Nat, NEW n \in Nat, n <= len, Header < n, ArenaMax <= next,
           RegionsOK(r, next, s, R), SameSizes(s, t, R), t[next] = n
    PROVE  /\ RegionsOK(r \cup {<<next, len>>}, next + len, t, R \cup {next})
           /\ next \notin R /\ r \cup {<<next, len>>} \in SUBSET (Nat \X Nat)
  <1>0. PICK e : e = <<next, len>>
    OBVIOUS
  <1>1. e = <<next, len>> /\ e[1] = next /\ e[2] = len
    BY <1>0
  <1>2. \A q \in r : /\ q[1] \in Nat /\ q[2] \in Nat /\ q[1] \in R
                     /\ t[q[1]] <= q[2] /\ q[1] + q[2] <= next
    BY DEF RegionsOK, SameSizes
  <1>3. \A b \in R : /\ b \in Nat /\ ArenaMax <= b /\ t[b] \in Nat /\ Header < t[b]
                     /\ \E q \in r : q[1] = b
    BY DEF RegionsOK, SameSizes
  <1>4. next \notin R
    <2>1. ASSUME next \in R PROVE FALSE
      <3>1. PICK q \in r : q[1] = next
        BY <1>3, <2>1
      <3>2. t[next] <= q[2] /\ q[2] \in Nat /\ next + q[2] <= next
        BY <3>1, <1>2
      <3> QED
        BY <3>2, UserMallocAssumption
    <2> QED
      BY <2>1
  <1>5. \A b \in R \cup {next} : ArenaMax <= b /\ Header < t[b] /\ \E q \in r \cup {e} : q[1] = b
    BY <1>1, <1>3
  <1>6. \A q \in r \cup {e} : q[1] \in R \cup {next} /\ t[q[1]] <= q[2] /\ q[1] + q[2] <= next + len
    BY <1>1, <1>2
  <1>7. \A p, q \in r : p # q => p[1] + p[2] <= q[1] \/ q[1] + q[2] <= p[1]
    BY DEF RegionsOK
  <1>8. \A p, q \in r \cup {e} : p # q => p[1] + p[2] <= q[1] \/ q[1] + q[2] <= p[1]
    BY <1>1, <1>2, <1>7
  <1>9. R \cup {next} \subseteq 0..(next + len - 1)
    <2>1. R \subseteq 0..(next - 1)
      BY DEF RegionsOK
    <2> QED
      BY <2>1, UserMallocAssumption
  <1>10. RegionsOK(r \cup {e}, next + len, t, R \cup {next})
    BY <1>5, <1>6, <1>8, <1>9 DEF RegionsOK
  <1> QED
    BY <1>1, <1>4, <1>10

LEMMA RegionGoes ==
    ASSUME NEW r \in SUBSET (Nat \X Nat), NEW next \in Nat, NEW s, NEW t, NEW R,
           NEW q \in r, NEW b \in R, q[1] = b,
           RegionsOK(r, next, s, R), SameSizes(s, t, R \ {b}), s[b] \in Nat
    PROVE  /\ RegionsOK(r \ {q}, next, t, R \ {b})
           /\ \A p \in r \ {q} : p[1] # b /\ (p[1] + p[2] <= b \/ b + q[2] <= p[1])
  <1>1. \A p \in r : /\ p[1] \in Nat /\ p[2] \in Nat /\ p[1] \in R
                     /\ s[p[1]] <= p[2] /\ p[1] + p[2] <= next
    BY DEF RegionsOK
  <1>2. \A a \in R : /\ a \in Nat /\ ArenaMax <= a /\ Header < s[a]
                     /\ \E p \in r : p[1] = a
    BY DEF RegionsOK
  <1>3. ASSUME NEW p \in r \ {q}
        PROVE  p[1] # b /\ (p[1] + p[2] <= b \/ b + q[2] <= p[1])
    <2>1. p[1] + p[2] <= b \/ b + q[2] <= p[1]
      BY DEF RegionsOK
    <2>2. ASSUME p[1] = b PROVE FALSE
      <3>1. s[b] <= p[2] /\ s[b] <= q[2] /\ p[2] \in Nat /\ q[2] \in Nat /\ b \in Nat
        BY <1>1, <1>2, <2>2
      <3>2. Header < s[b] /\ Header \in Nat
        BY <1>2, UserMallocAssumption
      <3> QED
        BY <2>1, <2>2, <3>1, <3>2
    <2> QED
      BY <2>1, <2>2
  <1>4. \A p \in r \ {q} : p[1] \in R \ {b} /\ t[p[1]] <= p[2] /\ p[1] + p[2] <= next
    BY <1>1, <1>3 DEF SameSizes
  <1>5. \A a \in R \ {b} : ArenaMax <= a /\ Header < t[a] /\ \E p \in r \ {q} : p[1] = a
    BY <1>2 DEF SameSizes
  <1>6. \A p, o \in r \ {q} : p # o => p[1] + p[2] <= o[1] \/ o[1] + o[2] <= p[1]
    BY DEF RegionsOK
  <1>7. R \ {b} \subseteq 0..(next - 1)
    BY DEF RegionsOK
  <1>8. RegionsOK(r \ {q}, next, t, R \ {b})
    BY <1>4, <1>5, <1>6, <1>7 DEF RegionsOK
  <1> QED
    BY <1>3, <1>8

-----------------------------------------------------------------------------
(* Blocks do not overlap.                                                  *)

Blocks(h, H) == On(ListsOf(h)) \cup H

LEMMA Numbers ==
    /\ Header \in Nat \ {0} /\ ArenaMax \in Nat /\ RegionMax \in Nat /\ ArenaMax <= RegionMax
    /\ NClasses \in Nat \ {0} /\ Carve \in Nat \ {0} /\ PageSize \in Nat \ {0}
    /\ Word \in Nat \ {0} /\ Threshold \in Nat /\ MaxLive \in Nat \ {0}
    /\ Cells = 0..(RegionMax - 1) /\ NClasses \in Lists /\ NClasses \notin Classes
    /\ \A c \in Lists : c # NClasses => c \in Classes
    /\ \A c \in Classes : c \in Lists /\ c # NClasses
  BY UserMallocAssumption DEF Cells, Lists, Classes

LEMMA HeapFields ==
    ASSUME NEW h \in Heap
    PROVE  /\ h.brk \in Nat /\ h.next \in Nat /\ h.regions \in SUBSET (Nat \X Nat)
           /\ h.small \in [Classes -> Seq(Nat)] /\ h.large \in Seq(Nat)
           /\ h.size \in [Cells -> Nat] /\ h.cell \in [Cells -> Contents]
  BY DEF Heap

LEMMA HeapBounds ==
    ASSUME NEW h, NEW H, HeapInv(h, H)
    PROVE  /\ h \in Heap /\ h.brk \in Nat /\ h.next \in Nat /\ h.regions \in SUBSET (Nat \X Nat)
           /\ h.brk <= ArenaMax /\ ArenaMax <= h.next /\ h.next <= RegionMax
           /\ h.size \in [Cells -> Nat] /\ h.cell \in [Cells -> Contents] /\ H \subseteq Nat
  BY HeapFields DEF HeapInv

\* A block of the arena lies below the break.
LEMMA ArenaFacts ==
    ASSUME NEW h, NEW H, HeapInv(h, H), NEW b \in On(ListsOf(h)) \cup InArena(H)
    PROVE  /\ b \in Nat /\ b \in Cells /\ h.size[b] \in Nat /\ Header < h.size[b]
           /\ b + h.size[b] <= h.brk /\ b < ArenaMax /\ Sized(h.size[b])
  <1>1. /\ b \in 0..(h.brk - 1) /\ Header < h.size[b] /\ b + h.size[b] <= h.brk
        /\ Sized(h.size[b])
    BY DEF HeapInv, Tiles
  <1>2. b \in Cells /\ b < ArenaMax
    BY <1>1, HeapBounds, Numbers
  <1> QED
    BY <1>1, <1>2, HeapBounds

\* A block with a region of its own lies in that region.
LEMMA MappedFacts ==
    ASSUME NEW h, NEW H, HeapInv(h, H), NEW b \in Mapped(H)
    PROVE  /\ b \in Nat /\ b \in Cells /\ h.size[b] \in Nat /\ Header < h.size[b] /\ ArenaMax <= b
           /\ \E r \in h.regions : r[1] = b
           /\ \A r \in h.regions : r[1] = b => r[2] \in Nat /\ h.size[b] <= r[2] /\ b + r[2] <= h.next
  <1>1. /\ b \in 0..(h.next - 1) /\ ArenaMax <= b /\ Header < h.size[b]
        /\ \E r \in h.regions : r[1] = b
        /\ \A r \in h.regions : r[1] = b => h.size[b] <= r[2] /\ b + r[2] <= h.next
    BY DEF HeapInv, RegionsOK
  <1>2. b \in Cells
    BY <1>1, HeapBounds, Numbers
  <1>3. \A r \in h.regions : r[2] \in Nat
    BY HeapBounds
  <1> QED
    BY <1>1, <1>2, <1>3, HeapBounds

LEMMA BlockFacts ==
    ASSUME NEW h, NEW H, HeapInv(h, H), NEW b \in Blocks(h, H)
    PROVE  /\ b \in Nat /\ b \in Cells /\ h.size[b] \in Nat /\ Header < h.size[b]
           /\ b + h.size[b] <= h.next
           /\ b < ArenaMax => b + h.size[b] <= h.brk
  <1>1. H \subseteq Nat /\ h.next \in Nat /\ h.brk \in Nat /\ h.brk <= ArenaMax /\ ArenaMax <= h.next
    BY HeapBounds
  <1>2. CASE b \in On(ListsOf(h)) \cup InArena(H)
    BY <1>1, <1>2, ArenaFacts, Numbers
  <1>3. CASE b \in Mapped(H)
    <2>1. PICK r \in h.regions : r[1] = b
      BY <1>3, MappedFacts
    <2>2. r[2] \in Nat /\ h.size[b] <= r[2] /\ b + r[2] <= h.next
      BY <1>3, <2>1, MappedFacts
    <2> QED
      BY <1>1, <1>3, <2>2, MappedFacts, Numbers, SMTT(30)
  <1>4. b \in On(ListsOf(h)) \cup InArena(H) \/ b \in Mapped(H)
    <2>1. CASE b \in On(ListsOf(h))
      BY <2>1
    <2>2. CASE b \in H
      <3>1. b \in Nat /\ ArenaMax \in Nat
        BY <1>1, <2>2, Numbers
      <3>2. b < ArenaMax \/ b >= ArenaMax
        BY ONLY <3>1
      <3> QED
        BY <2>2, <3>2 DEF InArena, Mapped
    <2> QED
      BY <2>1, <2>2 DEF Blocks
  <1> QED
    BY <1>2, <1>3, <1>4

LEMMA BlocksApart ==
    ASSUME NEW h, NEW H, HeapInv(h, H), NEW a \in Blocks(h, H), NEW b \in Blocks(h, H), a # b
    PROVE  a + h.size[a] <= b \/ b + h.size[b] <= a
  <1>1. /\ a \in Nat /\ h.size[a] \in Nat /\ (a < ArenaMax => a + h.size[a] <= h.brk)
        /\ b \in Nat /\ h.size[b] \in Nat /\ (b < ArenaMax => b + h.size[b] <= h.brk)
    BY BlockFacts
  <1>2. h.brk \in Nat /\ h.brk <= ArenaMax /\ ArenaMax \in Nat
    BY HeapBounds, Numbers
  <1>3. CASE a < ArenaMax /\ b < ArenaMax
    <2>1. a \in On(ListsOf(h)) \cup InArena(H) /\ b \in On(ListsOf(h)) \cup InArena(H)
      BY <1>3 DEF Blocks, InArena
    <2> QED
      BY <2>1 DEF HeapInv, Tiles
  <1>4. CASE a >= ArenaMax /\ b >= ArenaMax
    <2>1. a \in Mapped(H) /\ b \in Mapped(H)
      <3>1. \A x \in On(ListsOf(h)) : x < ArenaMax /\ x \in Nat
        BY ArenaFacts
      <3> QED
        BY <1>1, <1>2, <1>4, <3>1 DEF Blocks, Mapped
    <2>2. PICK r \in h.regions : r[1] = a
      BY <2>1, MappedFacts
    <2>3. PICK q \in h.regions : q[1] = b
      BY <2>1, MappedFacts
    <2>4. r # q
      BY <2>2, <2>3
    <2>5. r[1] + r[2] <= q[1] \/ q[1] + q[2] <= r[1]
      BY <2>4 DEF HeapInv, RegionsOK
    <2>6. r[2] \in Nat /\ q[2] \in Nat /\ h.size[a] <= r[2] /\ h.size[b] <= q[2]
      BY <2>1, <2>2, <2>3, MappedFacts
    <2> QED
      BY <1>1, <2>2, <2>3, <2>5, <2>6
  <1> QED
    BY <1>1, <1>2, <1>3, <1>4

-----------------------------------------------------------------------------
(* Writing behind the pointer of a block that is held.                     *)

\* The sizes and cells of the blocks in B are as before.
Kept(h, g, B) ==
    \A b \in B : /\ g.size[b] = h.size[b]
                 /\ \A c \in b..(b + h.size[b] - 1) : g.cell[c] = h.cell[c]

SameButCell(h, g) ==
    /\ g.brk = h.brk /\ g.next = h.next /\ g.regions = h.regions
    /\ g.small = h.small /\ g.large = h.large /\ g.size = h.size

\* Only cells of b behind its header differ.
PayloadOnly(h, g, b) ==
    \A c \in Cells : g.cell[c] # h.cell[c] => b + Header <= c /\ c < b + h.size[b]

LEMMA PayloadKeeps ==
    ASSUME NEW h, NEW H, HeapInv(h, H), NEW g \in Heap, NEW p \in H,
           SameButCell(h, g), PayloadOnly(h, g, p)
    PROVE  HeapInv(g, H) /\ Kept(h, g, H \ {p}) /\ g.size = h.size
  <1>1. ListsOf(g) = ListsOf(h)
    BY DEF ListsOf, List, SameButCell
  <1>2. p \in Blocks(h, H) /\ p \in Nat /\ h.size[p] \in Nat
    BY BlockFacts DEF Blocks
  <1>3. ASSUME NEW b \in Blocks(h, H), NEW c \in b..(b + Header - 1)
        PROVE  g.cell[c] = InHead
    <2>1. b \in Nat /\ h.size[b] \in Nat /\ Header < h.size[b] /\ b + h.size[b] <= h.next
      BY BlockFacts
    <2>2. c \in Cells
      <3>1. h.next \in Nat /\ h.next <= RegionMax /\ RegionMax \in Nat /\ Header \in Nat
        BY HeapBounds, Numbers
      <3>2. c \in 0..(RegionMax - 1)
        BY <2>1, <3>1
      <3> QED
        BY <3>2 DEF Cells
    <2>3. h.cell[c] = InHead
      BY DEF HeapInv, HeadsOK, Blocks
    <2>4. ~ (p + Header <= c /\ c < p + h.size[p])
      <3>1. CASE b = p
        BY <3>1, <2>1, Numbers
      <3>2. CASE b # p
        <4>1. b + h.size[b] <= p \/ p + h.size[p] <= b
          BY <3>2, <1>2, BlocksApart
        <4> QED
          BY <4>1, <1>2, <2>1, Numbers
      <3> QED
        BY <3>1, <3>2
    <2> QED
      BY <2>2, <2>3, <2>4 DEF PayloadOnly
  <1>4. HeadsOK(g.cell, On(ListsOf(g)) \cup H)
    BY <1>1, <1>3 DEF HeadsOK, Blocks
  <1>5. ASSUME NEW b \in H \ {p}, NEW c \in b..(b + h.size[b] - 1)
        PROVE  g.cell[c] = h.cell[c]
    <2>1. b \in Blocks(h, H)
      BY DEF Blocks
    <2>2. b \in Nat /\ h.size[b] \in Nat /\ b + h.size[b] <= h.next
      BY <2>1, BlockFacts
    <2>3. c \in Cells
      BY <2>2, HeapBounds, Numbers, SMTT(30)
    <2>4. b + h.size[b] <= p \/ p + h.size[p] <= b
      BY <1>2, <2>1, BlocksApart
    <2>5. ~ (p + Header <= c /\ c < p + h.size[p])
      BY <1>2, <2>2, <2>4, Numbers, SMTT(30)
    <2> QED
      BY <2>3, <2>5 DEF PayloadOnly
  <1>6. Kept(h, g, H \ {p})
    BY <1>5 DEF Kept, SameButCell
  <1> QED
    BY <1>1, <1>4, <1>6 DEF HeapInv, SameButCell

LEMMA SetFacts ==
    ASSUME NEW h \in Heap, NEW a \in Int, NEW b \in Int, NEW v \in Contents
    PROVE  /\ Set(h, a, b, v) \in Heap /\ SameButCell(h, Set(h, a, b, v))
           /\ \A c \in Cells : Set(h, a, b, v).cell[c] = IF c \in a..(b - 1) THEN v ELSE h.cell[c]
  <1>1. PICK f : f = [c \in Cells |-> IF c \in a..(b - 1) THEN v ELSE h.cell[c]]
    OBVIOUS
  <1>2. Set(h, a, b, v) = [h EXCEPT !.cell = f]
    BY <1>1 DEF Set
  <1>3. f \in [Cells -> Contents]
    BY <1>1, HeapFields
  <1>4. [h EXCEPT !.cell = f] \in Heap /\ SameButCell(h, [h EXCEPT !.cell = f]) /\ [h EXCEPT !.cell = f].cell = f
    BY <1>3 DEF Heap, SameButCell
  <1> QED
    BY <1>1, <1>2, <1>4

\* g is h with the cells from lo to hi - 1 set to v.
SetTo(h, g, lo, hi, v) ==
    /\ SameButCell(h, g)
    /\ \A c \in Cells : g.cell[c] = IF c \in lo..(hi - 1) THEN v ELSE h.cell[c]

\* The first n bytes of block b are v.
Begins(h, b, n, v) == \A i \in 0..(n - 1) : h.cell[At(b, i)] = v

\* Cells behind the header of a held block are written.
LEMMA SetHeld ==
    ASSUME NEW h, NEW H, HeapInv(h, H), NEW p \in H, NEW lo \in Nat, NEW hi \in Nat,
           p + Header <= lo, hi <= p + h.size[p], NEW v \in Contents,
           NEW g, g = Set(h, lo, hi, v)
    PROVE  g \in Heap /\ HeapInv(g, H) /\ Kept(h, g, H \ {p}) /\ SetTo(h, g, lo, hi, v)
  <1>1. h \in Heap
    BY HeapBounds
  <1>2. /\ g \in Heap /\ SameButCell(h, g)
        /\ \A c \in Cells : g.cell[c] = IF c \in lo..(hi - 1) THEN v ELSE h.cell[c]
    BY <1>1, SetFacts
  <1>3. p \in Nat /\ h.size[p] \in Nat
    BY BlockFacts DEF Blocks
  <1>4. PayloadOnly(h, g, p)
    <2>1. ASSUME NEW c \in Cells, g.cell[c] # h.cell[c] PROVE p + Header <= c /\ c < p + h.size[p]
      <3>1. c \in lo..(hi - 1)
        BY <1>2, <2>1
      <3>2. PICK z \in Nat : z = p + h.size[p] /\ hi <= z
        BY <1>3
      <3>3. c \in Nat /\ lo <= c /\ c < z
        BY <3>1, <3>2
      <3> QED
        BY <1>3, <3>2, <3>3, Numbers
    <2> QED
      BY <2>1 DEF PayloadOnly
  <1>5. HeapInv(g, H) /\ Kept(h, g, H \ {p})
    BY <1>2, <1>4, PayloadKeeps
  <1> QED
    BY <1>2, <1>5 DEF SetTo

-----------------------------------------------------------------------------
(* A block goes from a list to an owner, or back.                          *)

SameButLists(h, g) ==
    /\ g.brk = h.brk /\ g.next = h.next /\ g.regions = h.regions
    /\ g.size = h.size /\ g.cell = h.cell

WithSmall(h, ci, q) == [h EXCEPT !.small[ci] = q]
WithLarge(h, q)     == [h EXCEPT !.large = q]

LEMMA SmallSet ==
    ASSUME NEW h \in Heap, NEW ci \in Classes, NEW q \in Seq(Nat)
    PROVE  /\ WithSmall(h, ci, q) \in Heap
           /\ SameButLists(h, WithSmall(h, ci, q))
           /\ WithSmall(h, ci, q).small[ci] = q
           /\ ListsOf(WithSmall(h, ci, q))[ci] = q /\ ListsOf(h)[ci] = h.small[ci]
           /\ \A d \in Lists : d # ci => ListsOf(WithSmall(h, ci, q))[d] = ListsOf(h)[d]
  <1>1. PICK f : f = [h.small EXCEPT ![ci] = q]
    OBVIOUS
  <1>2. PICK g : g = [h EXCEPT !.small = f]
    OBVIOUS
  <1>3. WithSmall(h, ci, q) = g
    BY <1>1, <1>2 DEF WithSmall
  <1>4. h.small \in [Classes -> Seq(Nat)]
    BY HeapFields
  <1>5. f \in [Classes -> Seq(Nat)] /\ f[ci] = q /\ \A d \in Classes : d # ci => f[d] = h.small[d]
    BY <1>1, <1>4
  <1>6. g \in Heap /\ SameButLists(h, g) /\ g.small = f /\ g.large = h.large
    BY <1>2, <1>5 DEF Heap, SameButLists
  <1>7. ci \in Lists /\ ci # NClasses
    BY Numbers
  <1>8. ListsOf(g)[ci] = q /\ ListsOf(h)[ci] = h.small[ci]
    BY <1>5, <1>6, <1>7 DEF ListsOf, List
  <1>9. \A d \in Lists : d # ci => ListsOf(g)[d] = ListsOf(h)[d]
    BY <1>5, <1>6, Numbers DEF ListsOf, List
  <1> QED
    BY <1>3, <1>5, <1>6, <1>8, <1>9

LEMMA LargeSet ==
    ASSUME NEW h \in Heap, NEW q \in Seq(Nat)
    PROVE  /\ WithLarge(h, q) \in Heap
           /\ SameButLists(h, WithLarge(h, q))
           /\ ListsOf(WithLarge(h, q))[NClasses] = q /\ ListsOf(h)[NClasses] = h.large
           /\ \A d \in Lists : d # NClasses => ListsOf(WithLarge(h, q))[d] = ListsOf(h)[d]
  <1>1. PICK g : g = WithLarge(h, q)
    OBVIOUS
  <1>2. g \in Heap /\ SameButLists(h, g) /\ g.large = q /\ g.small = h.small
    BY <1>1 DEF Heap, SameButLists, WithLarge
  <1>3. ListsOf(g)[NClasses] = q /\ ListsOf(h)[NClasses] = h.large
    BY <1>2, Numbers DEF ListsOf, List
  <1>4. \A d \in Lists : d # NClasses => ListsOf(g)[d] = ListsOf(h)[d]
    BY <1>2 DEF ListsOf, List
  <1> QED
    BY <1>1, <1>2, <1>3, <1>4

LEMMA ListedSizes ==
    ASSUME NEW h, NEW H, HeapInv(h, H)
    PROVE  SameSizes(h.size, h.size, Blocks(h, H)) /\ SameSizes(h.size, h.size, On(ListsOf(h)))
  BY BlockFacts DEF SameSizes, Blocks

LEMMA TakeOut ==
    ASSUME NEW h, NEW H, HeapInv(h, H), NEW g \in Heap, SameButLists(h, g),
           NEW c \in Lists, NEW b, b \in Elems(ListsOf(h)[c]),
           TakenFrom(ListsOf(h), ListsOf(g), c, b)
    PROVE  /\ HeapInv(g, H \cup {b}) /\ b \notin H /\ b \in Nat /\ Fit(c, g.size[b])
           /\ Kept(h, g, H)
  <1>1. ListsOK(ListsOf(h), h.size) /\ On(ListsOf(h)) \cap H = {}
    BY DEF HeapInv
  <1>2. /\ ListsOK(ListsOf(g), h.size) /\ On(ListsOf(g)) = On(ListsOf(h)) \ {b}
        /\ b \in On(ListsOf(h)) /\ Fit(c, h.size[b])
    BY <1>1, TakenOK, ListedSizes
  <1>3. b \notin H /\ b \in Nat /\ b < ArenaMax /\ ~ (b >= ArenaMax)
    BY <1>1, <1>2, ArenaFacts, Numbers
  <1>4. On(ListsOf(g)) \cup InArena(H \cup {b}) = On(ListsOf(h)) \cup InArena(H)
    BY <1>2, <1>3 DEF InArena
  <1>5. Mapped(H \cup {b}) = Mapped(H)
    BY <1>3 DEF Mapped
  <1>6. On(ListsOf(g)) \cup (H \cup {b}) = On(ListsOf(h)) \cup H
    BY <1>2
  <1>7. On(ListsOf(g)) \cap (H \cup {b}) = {}
    BY <1>1, <1>2
  <1>8. HeapInv(g, H \cup {b})
    BY <1>2, <1>3, <1>4, <1>5, <1>6, <1>7 DEF HeapInv, SameButLists
  <1>9. Kept(h, g, H)
    BY DEF Kept, SameButLists
  <1> QED
    BY <1>2, <1>3, <1>8, <1>9 DEF SameButLists

LEMMA PutBack ==
    ASSUME NEW h, NEW H, HeapInv(h, H), NEW g \in Heap, SameButLists(h, g),
           NEW c \in Lists, NEW b \in H, b < ArenaMax, Fit(c, h.size[b]),
           PutOn(ListsOf(h), ListsOf(g), c, {b})
    PROVE  HeapInv(g, H \ {b}) /\ Kept(h, g, H \ {b})
  <1>1. ListsOK(ListsOf(h), h.size) /\ On(ListsOf(h)) \cap H = {}
    BY DEF HeapInv
  <1>2. ListsOK(ListsOf(g), h.size) /\ On(ListsOf(g)) = On(ListsOf(h)) \cup {b}
    BY <1>1, PutOK, ListedSizes
  <1>3. b \in Nat /\ ~ (b >= ArenaMax)
    BY HeapBounds, Numbers
  <1>4. On(ListsOf(g)) \cup InArena(H \ {b}) = On(ListsOf(h)) \cup InArena(H)
    BY <1>2, <1>3 DEF InArena
  <1>5. Mapped(H \ {b}) = Mapped(H)
    BY <1>3 DEF Mapped
  <1>6. On(ListsOf(g)) \cup (H \ {b}) = On(ListsOf(h)) \cup H
    BY <1>2
  <1>7. On(ListsOf(g)) \cap (H \ {b}) = {}
    BY <1>1, <1>2
  <1>8. HeapInv(g, H \ {b})
    BY <1>2, <1>4, <1>5, <1>6, <1>7 DEF HeapInv, SameButLists
  <1>9. Kept(h, g, H \ {b})
    BY DEF Kept, SameButLists
  <1> QED
    BY <1>8, <1>9

-----------------------------------------------------------------------------
(* The arena grows by the blocks N.                                        *)

Grown(h, g, N, top) ==
    /\ g.next = h.next /\ g.regions = h.regions /\ g.brk = top
    /\ h.brk <= top /\ top <= ArenaMax
    /\ Fills(N, h.brk, top, g.size)
    /\ \A a \in Cells : a \notin N => g.size[a] = h.size[a]
    /\ \A a \in Cells : a < h.brk \/ top <= a => g.cell[a] = h.cell[a]
    /\ HeadsOK(g.cell, N)

LEMMA GrownFacts ==
    ASSUME NEW h, NEW H, HeapInv(h, H), NEW g \in Heap, NEW N, NEW top \in Nat, Grown(h, g, N, top)
    PROVE  /\ Tiles((On(ListsOf(h)) \cup InArena(H)) \cup N, g.brk, g.size)
           /\ N \cap Blocks(h, H) = {} /\ N \subseteq 0..(ArenaMax - 1)
           /\ SameSizes(h.size, g.size, Blocks(h, H))
           /\ RegionsOK(g.regions, g.next, g.size, Mapped(H))
           /\ HeadsOK(g.cell, Blocks(h, H) \cup N) /\ Kept(h, g, H)
  <1>1. /\ h.brk \in Nat /\ h.brk <= top /\ top <= ArenaMax /\ ArenaMax \in Nat
        /\ Header \in Nat \ {0}
    BY HeapBounds, Numbers DEF Grown
  <1>2. \A b \in N : b \in Nat /\ h.brk <= b /\ b < top /\ b < ArenaMax
    <2>1. ASSUME NEW b \in N PROVE b \in Nat /\ h.brk <= b /\ b < top /\ b < ArenaMax
      <3>1. b \in Nat /\ h.brk <= b /\ g.size[b] \in Nat /\ Header < g.size[b] /\ b + g.size[b] <= top
        BY DEF Grown, Fills
      <3> QED
        BY <1>1, <3>1
    <2> QED
      BY <2>1
  <1>3. ASSUME NEW b \in Blocks(h, H)
        PROVE  /\ b \notin N /\ g.size[b] = h.size[b] /\ h.size[b] \in Nat
               /\ \A c \in b..(b + h.size[b] - 1) : c \in Cells /\ g.cell[c] = h.cell[c]
    <2>1. /\ b \in Nat /\ b \in Cells /\ h.size[b] \in Nat /\ Header < h.size[b]
          /\ b + h.size[b] <= h.next /\ (b < ArenaMax => b + h.size[b] <= h.brk)
      BY BlockFacts
    <2>2. b \notin N
      BY <1>1, <1>2, <2>1
    <2>3. h.next \in Nat /\ h.next <= RegionMax /\ RegionMax \in Nat
      BY HeapBounds, Numbers
    <2>4. ASSUME NEW c \in b..(b + h.size[b] - 1) PROVE c \in Cells /\ (c < h.brk \/ top <= c)
      <3>1. c \in 0..(RegionMax - 1)
        BY <2>1, <2>3
      <3>2. c < h.brk \/ top <= c
        BY <1>1, <2>1
      <3> QED
        BY <3>1, <3>2 DEF Cells
    <2> QED
      BY <2>1, <2>2, <2>4 DEF Grown
  <1>4. SameSizes(h.size, g.size, Blocks(h, H))
    BY <1>3 DEF SameSizes
  <1>5. N \cap Blocks(h, H) = {}
    BY <1>3
  <1>6. Kept(h, g, H)
    BY <1>3 DEF Kept, Blocks
  <1>7. ASSUME NEW b \in Blocks(h, H), NEW a \in b..(b + Header - 1) PROVE g.cell[a] = InHead
    <2>1. b \in Nat /\ h.size[b] \in Nat /\ Header < h.size[b]
      BY BlockFacts
    <2>2. a \in b..(b + h.size[b] - 1)
      BY <1>1, <2>1
    <2>3. h.cell[a] = InHead
      BY DEF HeapInv, HeadsOK, Blocks
    <2> QED
      BY <1>3, <2>2, <2>3
  <1>8. HeadsOK(g.cell, Blocks(h, H) \cup N)
    BY <1>7 DEF HeadsOK, Grown
  <1>9. RegionsOK(g.regions, g.next, g.size, Mapped(H))
    <2>1. \A b \in Mapped(H) : g.size[b] = h.size[b]
      BY <1>3 DEF Mapped, Blocks
    <2>2. RegionsOK(h.regions, h.next, h.size, Mapped(H))
      BY DEF HeapInv
    <2>3. g.regions = h.regions /\ g.next = h.next
      BY DEF Grown
    <2> QED
      BY <2>1, <2>2, <2>3 DEF RegionsOK
  <1>10. Tiles((On(ListsOf(h)) \cup InArena(H)) \cup N, g.brk, g.size)
    <2>1. PICK B : B = On(ListsOf(h)) \cup InArena(H)
      OBVIOUS
    <2>2. SameSizes(h.size, g.size, B) /\ Tiles(B, h.brk, h.size)
      BY <2>1, <1>3 DEF SameSizes, Blocks, InArena, HeapInv
    <2>3. Fills(N, h.brk, top, g.size) /\ g.brk = top
      BY DEF Grown
    <2>4. Tiles(B \cup N, top, g.size)
      BY <1>1, <2>2, <2>3, TilesGrow
    <2> QED
      BY <2>1, <2>3, <2>4
  <1>11. N \subseteq 0..(ArenaMax - 1)
    BY <1>1, <1>2
  <1> QED
    BY <1>4, <1>5, <1>6, <1>8, <1>9, <1>10, <1>11

\* The new blocks are put on a list.
LEMMA GrownListed ==
    ASSUME NEW h, NEW H, HeapInv(h, H), NEW g \in Heap, NEW N, NEW top \in Nat, Grown(h, g, N, top),
           NEW c \in Lists, PutOn(ListsOf(h), ListsOf(g), c, N), \A b \in N : Fit(c, g.size[b])
    PROVE  HeapInv(g, H) /\ Kept(h, g, H)
  <1>1. /\ Tiles((On(ListsOf(h)) \cup InArena(H)) \cup N, g.brk, g.size)
        /\ N \cap Blocks(h, H) = {} /\ N \subseteq 0..(ArenaMax - 1)
        /\ SameSizes(h.size, g.size, Blocks(h, H))
        /\ RegionsOK(g.regions, g.next, g.size, Mapped(H))
        /\ HeadsOK(g.cell, Blocks(h, H) \cup N) /\ Kept(h, g, H)
    BY GrownFacts
  <1>2. SameSizes(h.size, g.size, On(ListsOf(h))) /\ ListsOK(ListsOf(h), h.size)
    BY <1>1 DEF SameSizes, Blocks, HeapInv
  <1>3. ListsOK(ListsOf(g), g.size) /\ On(ListsOf(g)) = On(ListsOf(h)) \cup N
    BY <1>2, PutOK
  <1>4. On(ListsOf(g)) \cap H = {}
    BY <1>1, <1>3 DEF Blocks, HeapInv
  <1>5. On(ListsOf(g)) \cup InArena(H) = (On(ListsOf(h)) \cup InArena(H)) \cup N
    BY <1>3
  <1>6. On(ListsOf(g)) \cup H = Blocks(h, H) \cup N
    BY <1>3 DEF Blocks
  <1>7. H \subseteq Nat /\ g.brk <= ArenaMax /\ ArenaMax <= g.next /\ g.next <= RegionMax
    BY HeapBounds DEF Grown
  <1> QED
    BY <1>1, <1>3, <1>4, <1>5, <1>6, <1>7 DEF HeapInv

\* The new block is handed out.
LEMMA GrownHeld ==
    ASSUME NEW h, NEW H, HeapInv(h, H), NEW g \in Heap, NEW b \in Nat, NEW top \in Nat,
           Grown(h, g, {b}, top), ListsOf(g) = ListsOf(h)
    PROVE  HeapInv(g, H \cup {b}) /\ Kept(h, g, H) /\ b \notin H
  <1>1. /\ Tiles((On(ListsOf(h)) \cup InArena(H)) \cup {b}, g.brk, g.size)
        /\ {b} \cap Blocks(h, H) = {} /\ {b} \subseteq 0..(ArenaMax - 1)
        /\ SameSizes(h.size, g.size, Blocks(h, H))
        /\ RegionsOK(g.regions, g.next, g.size, Mapped(H))
        /\ HeadsOK(g.cell, Blocks(h, H) \cup {b}) /\ Kept(h, g, H)
    BY GrownFacts
  <1>2. b < ArenaMax /\ ~ (b >= ArenaMax) /\ b \notin H /\ b \notin On(ListsOf(h))
    BY <1>1, Numbers DEF Blocks
  <1>3. ListsOK(ListsOf(g), g.size)
    <2>1. \A c \in Lists : \A a \in Elems(ListsOf(h)[c]) : g.size[a] = h.size[a]
      BY <1>1, OnFacts DEF SameSizes, Blocks
    <2>2. ListsOK(ListsOf(h), h.size)
      BY DEF HeapInv
    <2> QED
      BY <2>1, <2>2 DEF ListsOK
  <1>4. On(ListsOf(g)) \cap (H \cup {b}) = {}
    BY <1>2 DEF HeapInv
  <1>5. On(ListsOf(g)) \cup InArena(H \cup {b}) = (On(ListsOf(h)) \cup InArena(H)) \cup {b}
    BY <1>2 DEF InArena
  <1>6. On(ListsOf(g)) \cup (H \cup {b}) = Blocks(h, H) \cup {b}
    BY DEF Blocks
  <1>7. Mapped(H \cup {b}) = Mapped(H)
    BY <1>2 DEF Mapped
  <1>8. H \cup {b} \subseteq Nat /\ g.brk <= ArenaMax /\ ArenaMax <= g.next /\ g.next <= RegionMax
    BY HeapBounds DEF Grown
  <1> QED
    BY <1>1, <1>2, <1>3, <1>4, <1>5, <1>6, <1>7, <1>8 DEF HeapInv

-----------------------------------------------------------------------------
(* The three ways of malloc.                                               *)

\* What malloc makes of a heap: nothing, or a block of at least n cells that
\* nobody holds, while everything held stays as it is.
Gives(h, H, m, n) ==
    \/ m.p = Null /\ m.h = h
    \/ /\ m.p \in Nat /\ m.p \notin H /\ HeapInv(m.h, H \cup {m.p})
       /\ Kept(h, m.h, H) /\ n <= m.h.size[m.p]

\* The list of new blocks is the chunk's, each once.
BaseList(brk, w) == [i \in 1..Carve |-> brk + (Carve - i) * w]

LEMMA BaseFacts ==
    ASSUME NEW brk \in Nat, NEW w \in Nat \ {0}, NEW base, base = BaseList(brk, w)
    PROVE  /\ base \in Seq(Nat) /\ base # <<>> /\ Once(base)
           /\ Elems(base) = Bases(brk, w) /\ DOMAIN base = 1..Carve
  <1>1. Carve \in Nat \ {0}
    BY Numbers
  <1>2. DOMAIN base = 1..Carve /\ \A i \in 1..Carve : base[i] = brk + (Carve - i) * w
    BY DEF BaseList
  <1>3. \A i \in 1..Carve : base[i] \in Bases(brk, w)
    BY <1>2 DEF Bases
  <1>4. \A i \in 1..Carve : base[i] \in Nat
    BY <1>3, ChunkFacts
  <1>5. base \in [1..Carve -> Nat]
    BY <1>2, <1>4 DEF BaseList
  <1>6. base \in Seq(Nat) /\ Len(base) = Carve
    BY <1>1, <1>5, SMT
  <1>7. base # <<>>
    BY <1>1, <1>6
  <1>8. ASSUME NEW i \in 1..Carve, NEW j \in 1..Carve, base[i] = base[j] PROVE i = j
    <2>1. i \in Nat /\ j \in Nat
      BY <1>1
    <2>2. base[i] \in Nat /\ base[j] \in Nat
      BY <1>4
    <2>3. ~ (i < j)
      <3>1. i < j => base[j] + w <= base[i]
        BY <1>2, ChunkFacts
      <3> QED
        BY <1>8, <2>2, <3>1
    <2>4. ~ (j < i)
      <3>1. j < i => base[i] + w <= base[j]
        BY <1>2, ChunkFacts
      <3> QED
        BY <1>8, <2>2, <3>1
    <2> QED
      BY <2>1, <2>3, <2>4
  <1>9. Once(base)
    BY <1>2, <1>8 DEF Once
  <1>10. {base[i] : i \in 1..Carve} = Bases(brk, w)
    BY <1>2 DEF Bases
  <1> QED
    BY <1>2, <1>6, <1>7, <1>9, <1>10 DEF Elems

LEMMA ExtendFields ==
    ASSUME NEW h \in Heap, NEW ci \in Classes, h.small[ci] = <<>>,
           NEW w, w = block_size_for_class(ci), ~ Refused(h, Carve * w),
           NEW g, g = arena_extend_small(h, ci)
    PROVE  /\ g \in Heap /\ g.brk = h.brk + Carve * w /\ g.next = h.next /\ g.regions = h.regions
           /\ g.small = [h.small EXCEPT ![ci] = BaseList(h.brk, w)] /\ g.large = h.large
           /\ \A a \in Cells : g.size[a] = IF a \in Bases(h.brk, w) THEN w ELSE h.size[a]
           /\ \A a \in Cells : g.cell[a] = IF \E b \in Bases(h.brk, w) : a \in b..(b + Header - 1)
                                           THEN InHead ELSE h.cell[a]
  <1> DEFINE bs   == block_size_for_class(ci)
             x    == Carve * bs
             base == [i \in 1..Carve |-> h.brk + (Carve - i) * bs]
             N    == {base[i] : i \in 1..Carve}
             e    == sbrk(h, Carve * bs)
  <1>1. /\ h.brk \in Nat /\ h.next \in Nat /\ h.regions \in SUBSET (Nat \X Nat)
        /\ h.small \in [Classes -> Seq(Nat)] /\ h.large \in Seq(Nat)
        /\ h.size \in [Cells -> Nat] /\ h.cell \in [Cells -> Contents]
    BY HeapFields
  <1>2. bs \in Nat \ {0} /\ x \in Nat /\ bs = w
    BY <1>1, ClassSizes, ChunkFacts
  <1>3. base = BaseList(h.brk, bs)
    BY DEF BaseList
  <1>4. base \in Seq(Nat) /\ N = Bases(h.brk, bs) /\ base \o <<>> = base
    <2>1. PICK brk \in Nat : brk = h.brk
      BY <1>1
    <2>2. PICK v \in Nat \ {0} : v = bs
      BY <1>2
    <2>3. PICK y : y = base
      OBVIOUS
    <2>4. y = BaseList(brk, v)
      BY <1>3, <2>1, <2>2, <2>3
    <2>5. y \in Seq(Nat) /\ {y[i] : i \in 1..Carve} = Bases(brk, v)
      <3>1. y \in Seq(Nat) /\ Elems(y) = Bases(brk, v) /\ DOMAIN y = 1..Carve
        BY <2>4, BaseFacts
      <3> QED
        BY <3>1 DEF Elems
    <2>6. y \o <<>> = y
      BY <2>5, ConcatEmptySeq
    <2> QED
      BY <2>1, <2>2, <2>3, <2>5, <2>6
  <1>5. g = [e EXCEPT
                !.small[ci] = base \o @,
                !.size = [a \in Cells |-> IF a \in N THEN bs ELSE @[a]],
                !.cell = [a \in Cells |->
                            IF \E b \in N : a \in b..(b + Header - 1) THEN InHead ELSE @[a]]]
    BY <1>2 DEF arena_extend_small
  <1>6. e = [h EXCEPT !.brk = @ + x]
    BY DEF sbrk
  <1> HIDE DEF bs, x, base, N, e
  <1>7. /\ e \in Heap /\ e.brk = h.brk + x /\ e.next = h.next /\ e.regions = h.regions
        /\ e.small = h.small /\ e.large = h.large /\ e.size = h.size /\ e.cell = h.cell
    <2>1. PICK z \in Nat : z = h.brk + x
      BY <1>1, <1>2
    <2>2. e = [h EXCEPT !.brk = z]
      BY <1>6, <2>1
    <2>3. /\ e \in Heap /\ e.brk = z /\ e.next = h.next /\ e.regions = h.regions
          /\ e.small = h.small /\ e.large = h.large /\ e.size = h.size /\ e.cell = h.cell
      BY <2>2 DEF Heap
    <2> QED
      BY <2>1, <2>3
  <1>8. PICK f : f = [h.small EXCEPT ![ci] = base]
    OBVIOUS
  <1>9. PICK s : s = [a \in Cells |-> IF a \in N THEN bs ELSE h.size[a]]
    OBVIOUS
  <1>10. PICK k : k = [a \in Cells |-> IF \E b \in N : a \in b..(b + Header - 1) THEN InHead ELSE h.cell[a]]
    OBVIOUS
  <1>11. g = [e EXCEPT !.small = f, !.size = s, !.cell = k]
    <2>1. g = [e EXCEPT !.small = [e.small EXCEPT ![ci] = base \o e.small[ci]],
                !.size = [a \in Cells |-> IF a \in N THEN bs ELSE e.size[a]],
                !.cell = [a \in Cells |->
                            IF \E b \in N : a \in b..(b + Header - 1) THEN InHead ELSE e.cell[a]]]
      BY <1>5
    <2>2. [e.small EXCEPT ![ci] = base \o e.small[ci]] = f
      BY <1>4, <1>7, <1>8
    <2>3. [a \in Cells |-> IF a \in N THEN bs ELSE e.size[a]] = s
      BY <1>7, <1>9
    <2>4. [a \in Cells |-> IF \E b \in N : a \in b..(b + Header - 1) THEN InHead ELSE e.cell[a]] = k
      BY <1>7, <1>10
    <2> QED
      BY ONLY <2>1, <2>2, <2>3, <2>4
  <1>12. f \in [Classes -> Seq(Nat)]
    BY <1>1, <1>4, <1>8
  <1>13. s \in [Cells -> Nat] /\ \A a \in Cells : s[a] = IF a \in N THEN bs ELSE h.size[a]
    BY <1>1, <1>2, <1>9
  <1>14. /\ k \in [Cells -> Contents]
         /\ \A a \in Cells : k[a] = IF \E b \in N : a \in b..(b + Header - 1) THEN InHead ELSE h.cell[a]
    BY <1>1, <1>10 DEF Contents
  <1>15. /\ g \in Heap /\ g.brk = e.brk /\ g.next = e.next /\ g.regions = e.regions
         /\ g.small = f /\ g.large = e.large /\ g.size = s /\ g.cell = k
    BY ONLY <1>7, <1>11, <1>12, <1>13, <1>14 DEF Heap
  <1>16. x = Carve * w
    BY <1>2 DEF x
  <1>17. base = BaseList(h.brk, w) /\ N = Bases(h.brk, w)
    BY <1>2, <1>3, <1>4
  <1> QED
    BY <1>2, <1>7, <1>8, <1>13, <1>14, <1>15, <1>16, <1>17

\* mem_arena_extend_small on an empty list.
LEMMA ExtendKeeps ==
    ASSUME NEW h, NEW H, HeapInv(h, H), NEW ci \in Classes, h.small[ci] = <<>>,
           Header < block_size_for_class(ci), ~ Refused(h, Carve * block_size_for_class(ci))
    PROVE  /\ HeapInv(arena_extend_small(h, ci), H) /\ Kept(h, arena_extend_small(h, ci), H)
           /\ arena_extend_small(h, ci).small[ci] # <<>>
  <1>1. PICK w \in Nat \ {0} : w = block_size_for_class(ci)
    BY ClassSizes
  <1>2. h \in Heap /\ h.brk \in Nat /\ h.small \in [Classes -> Seq(Nat)]
    BY HeapBounds, HeapFields
  <1>3. PICK base : base = BaseList(h.brk, w)
    OBVIOUS
  <1>4. PICK g : g = arena_extend_small(h, ci)
    OBVIOUS
  <1>5. PICK N : N = Bases(h.brk, w)
    OBVIOUS
  <1>6. /\ base \in Seq(Nat) /\ base # <<>> /\ Once(base) /\ Elems(base) = N
    BY <1>2, <1>3, <1>5, BaseFacts
  <1>7. ~ Refused(h, Carve * w)
    BY <1>1
  <1>8. /\ g \in Heap /\ g.brk = h.brk + Carve * w /\ g.next = h.next /\ g.regions = h.regions
        /\ g.small = [h.small EXCEPT ![ci] = base] /\ g.large = h.large
        /\ \A a \in Cells : g.size[a] = IF a \in N THEN w ELSE h.size[a]
        /\ \A a \in Cells : g.cell[a] = IF \E b \in N : a \in b..(b + Header - 1)
                                        THEN InHead ELSE h.cell[a]
    BY <1>1, <1>2, <1>3, <1>4, <1>5, <1>7, ExtendFields
  <1>9. PICK top \in Nat : top = h.brk + Carve * w /\ h.brk <= top
    <2>1. Carve * w \in Nat
      BY <1>2, ChunkFacts
    <2>2. PICK k \in Nat : k = Carve * w
      BY <2>1
    <2>3. h.brk + k \in Nat /\ h.brk <= h.brk + k
      BY ONLY <1>2, k \in Nat
    <2> QED
      BY <2>2, <2>3
  <1>10. top <= ArenaMax
    BY <1>2, <1>7, <1>9, Numbers DEF Refused
  <1>11. N \subseteq Nat /\ \A b \in N : h.brk <= b /\ b + w <= top
    BY <1>2, <1>5, <1>9, ChunkFacts
  <1>12. \A b \in N : b \in Cells
    BY <1>2, <1>10, <1>11, Numbers
  <1>13. \A b \in N : g.size[b] = w
    BY <1>8, <1>12
  <1>14. ci \in Lists /\ Fit(ci, w) /\ Sized(w)
    BY <1>1, Numbers DEF Fit, Sized
  <1>15. Fills(N, h.brk, top, g.size)
    <2>1. Header < w
      BY <1>1
    <2>2. \A b \in Bases(h.brk, w) : g.size[b] = w
      BY <1>5, <1>13
    <2>3. Fills(Bases(h.brk, w), h.brk, h.brk + Carve * w, g.size)
      BY <1>2, <1>14, <2>1, <2>2, FillsMany
    <2> QED
      BY <1>5, <1>9, <2>3
  <1>16. \A a \in Cells : a < h.brk \/ top <= a => g.cell[a] = h.cell[a]
    <2>1. ASSUME NEW a \in Cells, a < h.brk \/ top <= a, NEW b \in N, a \in b..(b + Header - 1)
          PROVE  FALSE
      <3>1. b \in Nat /\ h.brk <= b /\ b + w <= top /\ Header < w
        BY <1>1, <1>11
      <3> QED
        BY <2>1, <3>1, <1>2, Numbers
    <2> QED
      BY <1>8, <2>1
  <1>17. HeadsOK(g.cell, N)
    <2>1. ASSUME NEW b \in N, NEW a \in b..(b + Header - 1) PROVE g.cell[a] = InHead
      <3>1. b \in Nat /\ b + w <= top /\ Header < w
        BY <1>1, <1>11
      <3>2. a \in Cells
        BY <3>1, <1>10, Numbers
      <3> QED
        BY <3>2, <1>8
    <2> QED
      BY <2>1 DEF HeadsOK
  <1>18. Grown(h, g, N, top)
    BY <1>8, <1>9, <1>10, <1>15, <1>16, <1>17 DEF Grown
  <1>19. PutOn(ListsOf(h), ListsOf(g), ci, N)
    <2>1. ListsOf(g)[ci] = base /\ ListsOf(h)[ci] = <<>>
      BY <1>2, <1>8, <1>14, Numbers DEF ListsOf, List
    <2>2. \A d \in Lists : d # ci => ListsOf(g)[d] = ListsOf(h)[d]
      BY <1>2, <1>8, Numbers DEF ListsOf, List
    <2>3. Elems(<<>>) = {}
      BY DEF Elems
    <2> QED
      BY <1>6, <2>1, <2>2, <2>3 DEF PutOn
  <1>20. \A b \in N : Fit(ci, g.size[b])
    BY <1>13, <1>14
  <1>21. HeapInv(g, H) /\ Kept(h, g, H)
    BY <1>8, <1>14, <1>18, <1>19, <1>20, GrownListed
  <1>22. g.small[ci] = base
    BY <1>2, <1>8
  <1> QED
    BY <1>4, <1>6, <1>21, <1>22

\* mem_alloc_small.
LEMMA SmallGives ==
    ASSUME NEW h, NEW H, HeapInv(h, H), NEW ci \in Classes, Header < block_size_for_class(ci)
    PROVE  Gives(h, H, alloc_small(h, ci), block_size_for_class(ci))
  <1>1. PICK g : g = IF h.small[ci] = <<>> THEN arena_extend_small(h, ci) ELSE h
    OBVIOUS
  <1>2. alloc_small(h, ci) = IF g.small[ci] = <<>> THEN [p |-> Null, h |-> g]
                ELSE [p |-> Head(g.small[ci]), h |-> [g EXCEPT !.small[ci] = Tail(@)]]
    BY <1>1 DEF alloc_small
  <1>3. HeapInv(g, H) /\ Kept(h, g, H) /\ (g.small[ci] = <<>> => g = h)
    <2>1. CASE h.small[ci] # <<>>
      BY <1>1, <2>1 DEF Kept
    <2>2. CASE h.small[ci] = <<>> /\ Refused(h, Carve * block_size_for_class(ci))
      <3>1. g = h
        BY <1>1, <2>2 DEF arena_extend_small
      <3> QED
        BY <3>1 DEF Kept
    <2>3. CASE h.small[ci] = <<>> /\ ~ Refused(h, Carve * block_size_for_class(ci))
      BY <1>1, <2>3, ExtendKeeps
    <2> QED
      BY <2>1, <2>2, <2>3
  <1>4. CASE g.small[ci] = <<>>
    BY <1>2, <1>3, <1>4 DEF Gives
  <1>5. CASE g.small[ci] # <<>>
    <2>1. PICK s : s = g.small[ci]
      OBVIOUS
    <2>2. g \in Heap /\ s \in Seq(Nat) /\ s # <<>>
      BY <1>3, <1>5, <2>1, HeapBounds, HeapFields
    <2>3. PICK e : e = [g EXCEPT !.small[ci] = Tail(s)]
      OBVIOUS
    <2>a. PICK q : q = Tail(s)
      OBVIOUS
    <2>4. alloc_small(h, ci) = [p |-> Head(s), h |-> e]
      BY <1>2, <1>5, <2>1, <2>3
    <2>5. ListsOf(g)[ci] = s /\ ci \in Lists
      BY <2>1, <2>2, SmallSet, Numbers
    <2>6. Once(s)
      BY <1>3, <2>5 DEF HeapInv, ListsOK
    <2>7. /\ Head(s) \in Nat /\ Head(s) \in Elems(s) /\ Tail(s) \in Seq(Nat)
          /\ Once(Tail(s)) /\ Elems(Tail(s)) = Elems(s) \ {Head(s)}
      BY <2>2, <2>6, PopLemma
    <2>8. /\ e \in Heap /\ SameButLists(g, e) /\ ListsOf(e)[ci] = Tail(s)
          /\ \A d \in Lists : d # ci => ListsOf(e)[d] = ListsOf(g)[d]
      <3>1. q \in Seq(Nat) /\ e = WithSmall(g, ci, q)
        BY <2>3, <2>7, <2>a DEF WithSmall
      <3>2. /\ e \in Heap /\ SameButLists(g, e) /\ ListsOf(e)[ci] = q
            /\ \A d \in Lists : d # ci => ListsOf(e)[d] = ListsOf(g)[d]
        BY <2>2, <3>1, SmallSet
      <3> QED
        BY <2>a, <3>2
    <2>9. TakenFrom(ListsOf(g), ListsOf(e), ci, Head(s))
      BY <2>5, <2>7, <2>8 DEF TakenFrom
    <2>10. PICK b : b = Head(s)
      OBVIOUS
    <2>11. /\ HeapInv(e, H \cup {b}) /\ b \notin H /\ b \in Nat /\ Fit(ci, e.size[b]) /\ Kept(g, e, H)
      BY <1>3, <2>5, <2>7, <2>8, <2>9, <2>10, TakeOut
    <2>12. e.size[b] = block_size_for_class(ci) /\ block_size_for_class(ci) \in Nat
      BY <2>11, Numbers, ClassSizes DEF Fit
    <2>13. Kept(h, e, H)
      BY <1>3, <2>11 DEF Kept
    <2>14. alloc_small(h, ci).p = b /\ alloc_small(h, ci).h = e
      BY <2>4, <2>10
    <2> QED
      BY <2>11, <2>12, <2>13, <2>14 DEF Gives
  <1> QED
    BY <1>4, <1>5

\* A header is written: only its cells and the block's size differ.
HeadedFields(e, g, a, n) ==
    /\ g \in Heap /\ g.brk = e.brk /\ g.next = e.next /\ g.regions = e.regions
    /\ g.small = e.small /\ g.large = e.large /\ g.size[a] = n
    /\ \A c \in Cells : c # a => g.size[c] = e.size[c]
    /\ \A c \in Cells : g.cell[c] = IF c \in a..(a + Header - 1) THEN InHead ELSE e.cell[c]

LEMMA HeadedFacts ==
    ASSUME NEW e \in Heap, NEW a \in Cells, NEW n \in Nat
    PROVE  HeadedFields(e, Headed(e, a, n), a, n)
  <1>1. a \in Nat /\ a + Header \in Int /\ InHead \in Contents
    BY Numbers DEF Contents
  <1>2. PICK f : f = Set(e, a, a + Header, InHead)
    OBVIOUS
  <1>3. /\ f \in Heap /\ SameButCell(e, f)
        /\ \A c \in Cells : f.cell[c] = IF c \in a..(a + Header - 1) THEN InHead ELSE e.cell[c]
    <2>1. PICK t \in Int : t = a + Header
      BY <1>1
    <2>2. f = Set(e, a, t, InHead) /\ a \in Int /\ InHead \in Contents
      BY <1>1, <1>2, <2>1
    <2>3. /\ f \in Heap /\ SameButCell(e, f)
          /\ \A c \in Cells : f.cell[c] = IF c \in a..(t - 1) THEN InHead ELSE e.cell[c]
      BY <2>2, SetFacts
    <2>4. a..(t - 1) = a..(a + Header - 1)
      BY <1>1, <2>1, Numbers
    <2> QED
      BY <2>3, <2>4
  <1>4. PICK z : z = [f.size EXCEPT ![a] = n]
    OBVIOUS
  <1>5. PICK g : g = [f EXCEPT !.size = z]
    OBVIOUS
  <1>6. Headed(e, a, n) = g
    BY <1>2, <1>4, <1>5 DEF Headed
  <1>7. f.size \in [Cells -> Nat]
    BY <1>3, HeapFields
  <1>8. z \in [Cells -> Nat] /\ z[a] = n /\ \A c \in Cells : c # a => z[c] = f.size[c]
    BY <1>4, <1>7
  <1>9. /\ g \in Heap /\ g.brk = f.brk /\ g.next = f.next /\ g.regions = f.regions
        /\ g.small = f.small /\ g.large = f.large /\ g.size = z /\ g.cell = f.cell
    BY <1>3, <1>5, <1>8 DEF Heap
  <1>10. HeadedFields(e, g, a, n)
    <2>1. /\ g.brk = e.brk /\ g.next = e.next /\ g.regions = e.regions
          /\ g.small = e.small /\ g.large = e.large /\ f.size = e.size
      BY <1>3, <1>9 DEF SameButCell
    <2>2. g.size[a] = n /\ \A c \in Cells : c # a => g.size[c] = e.size[c]
      BY <2>1, <1>8, <1>9
    <2>3. \A c \in Cells : g.cell[c] = IF c \in a..(a + Header - 1) THEN InHead ELSE e.cell[c]
      BY <1>3, <1>9
    <2> QED
      BY ONLY <1>9, <2>1, <2>2, <2>3 DEF HeadedFields
  <1> QED
    BY ONLY <1>6, <1>10

\* mem_alloc_large.
LEMMA LargeGives ==
    ASSUME NEW h, NEW H, HeapInv(h, H), NEW total \in Nat, Header < total,
           block_size_for_class(NClasses - 1) < total
    PROVE  Gives(h, H, alloc_large(h, total), total)
  <1> DEFINE ok == {i \in DOMAIN h.large : Fits(h, h.large[i], total)}
             k  == CHOOSE i \in ok : \A j \in ok : i <= j
             m  == alloc_large(h, total)
  <1>1. h \in Heap /\ h.large \in Seq(Nat) /\ h.brk \in Nat
    BY HeapBounds, HeapFields
  <1>2. DOMAIN h.large = 1..Len(h.large) /\ Len(h.large) \in Nat
    BY <1>1, LenProperties
  <1>3. CASE ok # {}
    <2>1. ok \in SUBSET Nat
      BY <1>2
    <2>2. \E i \in ok : \A j \in ok : i <= j
      BY <1>3, <2>1, LeastNat
    <2>3. k \in ok
      BY <2>2
    <2>4. PICK n \in 1..Len(h.large) : n = k /\ Fits(h, h.large[n], total)
      BY <1>2, <2>3
    <2>5. PICK s \in Seq(Nat) : s = h.large
      BY <1>1
    <2>6. PICK q : q = SubSeq(s, 1, n - 1) \o SubSeq(s, n + 1, Len(s))
      OBVIOUS
    <2>7. PICK g : g = WithLarge(h, q)
      OBVIOUS
    <2>8. m = [p |-> s[n], h |-> g]
      BY <1>3, <2>4, <2>5, <2>6, <2>7 DEF alloc_large, WithLarge
    <2>9. ListsOf(h)[NClasses] = s /\ NClasses \in Lists
      BY <1>1, <2>5, LargeSet, Numbers
    <2>10. Once(s)
      BY <2>9 DEF HeapInv, ListsOK
    <2>11. /\ s[n] \in Nat /\ s[n] \in Elems(s) /\ q \in Seq(Nat) /\ Once(q)
           /\ Elems(q) = Elems(s) \ {s[n]}
      BY <2>4, <2>5, <2>6, <2>10, RemoveLemma
    <2>12. /\ g \in Heap /\ SameButLists(h, g) /\ ListsOf(g)[NClasses] = q
           /\ \A d \in Lists : d # NClasses => ListsOf(g)[d] = ListsOf(h)[d]
      BY <1>1, <2>7, <2>11, LargeSet
    <2>13. PICK b : b = s[n]
      OBVIOUS
    <2>14. TakenFrom(ListsOf(h), ListsOf(g), NClasses, b)
      BY <2>9, <2>11, <2>12, <2>13 DEF TakenFrom
    <2>15. HeapInv(g, H \cup {b}) /\ b \notin H /\ b \in Nat /\ Kept(h, g, H)
      BY <2>9, <2>11, <2>12, <2>13, <2>14, TakeOut
    <2>16. total <= g.size[b]
      <3>1. h.size[b] >= total /\ g.size = h.size
        BY <2>4, <2>5, <2>12, <2>13 DEF Fits, SameButLists
      <3>2. b \in Blocks(g, H \cup {b})
        BY DEF Blocks
      <3>3. g.size[b] \in Nat
        BY <2>15, <3>2, BlockFacts
      <3> QED
        BY <3>1, <3>3
    <2>17. m.p = b /\ m.h = g
      BY <2>8, <2>13
    <2> HIDE DEF m
    <2> QED
      BY <2>15, <2>16, <2>17 DEF Gives, m
  <1>4. CASE ok = {} /\ Refused(h, total)
    <2>1. m = [p |-> Null, h |-> h]
      BY <1>4 DEF alloc_large
    <2> QED
      BY <2>1 DEF Gives
  <1>5. CASE ok = {} /\ ~ Refused(h, total)
    <2>1. PICK b \in Nat : b = h.brk
      BY <1>1
    <2>2. PICK top \in Nat : top = b + total
      BY <2>1
    <2>3. PICK e : e = sbrk(h, total)
      OBVIOUS
    <2>4. PICK g : g = Headed(e, b, total)
      OBVIOUS
    <2>5. m = [p |-> b, h |-> g]
      BY <1>5, <2>1, <2>3, <2>4 DEF alloc_large
    <2>6. top <= ArenaMax
      BY <1>5, <2>1, <2>2, Numbers DEF Refused
    <2>7. e = [h EXCEPT !.brk = top]
      BY <2>1, <2>2, <2>3 DEF sbrk
    <2>8. /\ e \in Heap /\ e.brk = top /\ e.next = h.next /\ e.regions = h.regions
          /\ e.small = h.small /\ e.large = h.large /\ e.size = h.size /\ e.cell = h.cell
      BY <1>1, <2>7 DEF Heap
    <2>9. b \in Cells
      BY <2>2, <2>6, Numbers
    <2>10. HeadedFields(e, g, b, total)
      BY <2>4, <2>8, <2>9, HeadedFacts
    <2>11. g \in Heap /\ ListsOf(g) = ListsOf(h)
      BY <2>8, <2>10 DEF HeadedFields, ListsOf, List
    <2>12. Sized(total)
      BY Numbers DEF Sized, Fit
    <2>13. Fills({b}, h.brk, top, g.size)
      <3>1. g.size[b] = total
        BY <2>10 DEF HeadedFields
      <3>2. Fills({b}, b, b + total, g.size)
        BY <2>12, <3>1, FillsOne
      <3> QED
        BY <2>1, <2>2, <3>2
    <2>14. HeadsOK(g.cell, {b})
      <3>1. ASSUME NEW a \in b..(b + Header - 1) PROVE g.cell[a] = InHead
        <4>1. a \in Cells
          BY <2>2, <2>6, Numbers
        <4> QED
          BY <4>1, <2>10 DEF HeadedFields
      <3> QED
        BY <3>1 DEF HeadsOK
    <2>15. \A a \in Cells : a < h.brk \/ top <= a => g.cell[a] = h.cell[a]
      <3>1. \A a \in Cells : a < b \/ top <= a => a \notin b..(b + Header - 1)
        BY <2>2, Numbers
      <3> QED
        BY <2>1, <2>8, <2>10, <3>1 DEF HeadedFields
    <2>16. \A a \in Cells : a \notin {b} => g.size[a] = h.size[a]
      BY <2>8, <2>10 DEF HeadedFields
    <2>17. g.next = h.next /\ g.regions = h.regions /\ g.brk = top /\ h.brk <= top
      BY <2>1, <2>2, <2>8, <2>10 DEF HeadedFields
    <2>18. Grown(h, g, {b}, top)
      BY <2>6, <2>13, <2>14, <2>15, <2>16, <2>17 DEF Grown
    <2>19. HeapInv(g, H \cup {b}) /\ Kept(h, g, H) /\ b \notin H
      BY <2>11, <2>18, GrownHeld
    <2>20. m.p = b /\ m.h = g /\ g.size[b] = total
      BY <2>5, <2>10 DEF HeadedFields
    <2> HIDE DEF m
    <2> QED
      BY <2>19, <2>20 DEF Gives, m
  <1> QED
    BY <1>3, <1>4, <1>5

\* SYS_MMAP: whole pages, at least as many cells as asked for.
LEMMA PagesEnough ==
    ASSUME NEW n \in Nat, NEW s \in Nat \ {0}
    PROVE  ((n + s - 1) \div s) * s \in Nat /\ n <= ((n + s - 1) \div s) * s
  <1>1. PICK x \in Nat : x = n + s - 1
    OBVIOUS
  <1>2. PICK q : q = x \div s
    OBVIOUS
  <1>3. q \in Nat /\ s * q <= x /\ x < s * q + s
    <2>1. ASSUME NEW y \in Nat, NEW z \in Nat \ {0}
          PROVE  y \div z \in Nat /\ z * (y \div z) <= y /\ y < z * (y \div z) + z
      BY <2>1, SMT
    <2> QED
      BY <1>2, <2>1
  <1>4. q * s = s * q /\ q * s \in Nat
    BY <1>3, SMT
  <1> QED
    BY <1>1, <1>2, <1>3, <1>4

LEMMA MmapGives ==
    ASSUME NEW h, NEW H, HeapInv(h, H), NEW total \in Nat, Header < total
    PROVE  Gives(h, H, alloc_mmap(h, total), total)
  <1>1. PICK len : len = ((total + PageSize - 1) \div PageSize) * PageSize
    OBVIOUS
  <1>2. len \in Nat /\ total <= len
    BY <1>1, PagesEnough, Numbers
  <1>3. /\ h \in Heap /\ h.next \in Nat /\ ArenaMax <= h.next /\ h.next <= RegionMax
        /\ h.regions \in SUBSET (Nat \X Nat) /\ h.brk <= ArenaMax
    BY HeapBounds
  <1>4. CASE h.next + len > RegionMax
    <2>1. alloc_mmap(h, total) = [p |-> Null, h |-> h]
      BY <1>1, <1>4 DEF alloc_mmap
    <2> QED
      BY <2>1 DEF Gives
  <1>5. CASE ~ (h.next + len > RegionMax)
    <2>1. PICK b \in Nat : b = h.next
      BY <1>3
    <2>2. PICK R : R = h.regions \cup {<<b, len>>}
      OBVIOUS
    <2>3. PICK e : e = [h EXCEPT !.next = b + len, !.regions = R]
      OBVIOUS
    <2>4. PICK g : g = Headed(e, b, total)
      OBVIOUS
    <2>5. alloc_mmap(h, total) = [p |-> b, h |-> g]
      BY <1>1, <1>5, <2>1, <2>2, <2>3, <2>4 DEF alloc_mmap
    <2>6. R \in SUBSET (Nat \X Nat) /\ b + len \in Nat /\ b + len <= RegionMax
      BY <1>2, <1>3, <1>5, <2>1, <2>2, Numbers, SMTT(30)
    <2>7. /\ e \in Heap /\ e.brk = h.brk /\ e.next = b + len /\ e.regions = R
          /\ e.small = h.small /\ e.large = h.large /\ e.size = h.size /\ e.cell = h.cell
      BY <1>3, <2>3, <2>6 DEF Heap
    <2>8. b \in Cells
      BY <1>2, <2>6, Numbers
    <2>9. HeadedFields(e, g, b, total)
      BY <2>4, <2>7, <2>8, HeadedFacts
    <2>10. g \in Heap /\ ListsOf(g) = ListsOf(h)
      BY <2>7, <2>9 DEF HeadedFields, ListsOf, List
    <2>11. /\ g.brk = h.brk /\ g.next = b + len /\ g.regions = R /\ g.size[b] = total
           /\ \A c \in Cells : c # b => g.size[c] = h.size[c]
           /\ \A c \in Cells : g.cell[c] = IF c \in b..(b + Header - 1) THEN InHead ELSE h.cell[c]
      BY <2>7, <2>9 DEF HeadedFields
    <2>12. ASSUME NEW a \in Blocks(h, H)
           PROVE  /\ a # b /\ h.size[a] \in Nat /\ g.size[a] = h.size[a] /\ Header < h.size[a]
                  /\ \A c \in a..(a + h.size[a] - 1) : g.cell[c] = h.cell[c]
      <3>1. /\ a \in Nat /\ a \in Cells /\ h.size[a] \in Nat /\ Header < h.size[a]
            /\ a + h.size[a] <= b
        BY <2>1, BlockFacts
      <3>2. a # b
        BY <3>1, Numbers
      <3>3. ASSUME NEW c \in a..(a + h.size[a] - 1) PROVE c \in Cells /\ c < b
        <4>1. c \in Nat /\ c < b /\ b < RegionMax
          BY <2>8, <3>1, Numbers
        <4> QED
          BY <4>1, Numbers
      <3> QED
        BY <2>11, <3>1, <3>2, <3>3
    <2>13. b \notin H /\ b \notin On(ListsOf(h)) /\ ~ (b < ArenaMax) /\ b >= ArenaMax
      BY <1>3, <2>1, <2>12, Numbers DEF Blocks
    <2>14. /\ InArena(H \cup {b}) = InArena(H) /\ Mapped(H \cup {b}) = Mapped(H) \cup {b}
      BY <2>13 DEF InArena, Mapped
    <2>15. RegionsOK(g.regions, g.next, g.size, Mapped(H) \cup {b})
      <3>1. SameSizes(h.size, g.size, Mapped(H))
        BY <2>12 DEF SameSizes, Mapped, Blocks
      <3>2. RegionsOK(h.regions, b, h.size, Mapped(H)) /\ ArenaMax <= b
        BY <1>3, <2>1 DEF HeapInv
      <3>3. RegionsOK(h.regions \cup {<<b, len>>}, b + len, g.size, Mapped(H) \cup {b})
        BY <1>2, <1>3, <2>11, <3>1, <3>2, RegionComes
      <3> QED
        BY <2>2, <2>11, <3>3
    <2>16. ListsOK(ListsOf(g), g.size)
      <3>1. \A c \in Lists : \A a \in Elems(ListsOf(h)[c]) : g.size[a] = h.size[a]
        BY <2>12, OnFacts DEF Blocks
      <3>2. ListsOK(ListsOf(h), h.size)
        BY DEF HeapInv
      <3> QED
        BY <2>10, <3>1, <3>2 DEF ListsOK
    <2>17. Tiles(On(ListsOf(h)) \cup InArena(H), h.brk, g.size)
      <3>1. \A a \in On(ListsOf(h)) \cup InArena(H) : g.size[a] = h.size[a]
        BY <2>12 DEF InArena, Blocks
      <3>2. Tiles(On(ListsOf(h)) \cup InArena(H), h.brk, h.size)
        BY DEF HeapInv
      <3> QED
        BY <3>1, <3>2 DEF Tiles
    <2>18. HeadsOK(g.cell, On(ListsOf(h)) \cup (H \cup {b}))
      <3>1. ASSUME NEW a \in Blocks(h, H), NEW c \in a..(a + Header - 1) PROVE g.cell[c] = InHead
        <4>1. h.cell[c] = InHead
          BY DEF HeapInv, HeadsOK, Blocks
        <4>2. a \in Nat /\ h.size[a] \in Nat /\ Header < h.size[a]
          BY BlockFacts
        <4>3. c \in a..(a + h.size[a] - 1)
          BY <4>2, Numbers
        <4> QED
          BY <2>12, <4>1, <4>3
      <3>2. ASSUME NEW c \in b..(b + Header - 1) PROVE g.cell[c] = InHead
        <4>1. c \in Cells
          BY <1>2, <2>6, Numbers
        <4> QED
          BY <4>1, <2>11
      <3> QED
        BY <3>1, <3>2 DEF HeadsOK, Blocks
    <2>19. On(ListsOf(h)) \cap (H \cup {b}) = {} /\ H \cup {b} \subseteq Nat
      BY <2>13, HeapBounds DEF HeapInv
    <2>20. HeapInv(g, H \cup {b})
      <3>1. ArenaMax <= g.next /\ g.next <= RegionMax /\ g.brk <= ArenaMax
        BY <1>2, <1>3, <2>1, <2>6, <2>11, Numbers
      <3> QED
        BY <2>10, <2>11, <2>14, <2>15, <2>16, <2>17, <2>18, <2>19, <3>1 DEF HeapInv
    <2>21. Kept(h, g, H)
      BY <2>12 DEF Kept, Blocks
    <2>22. alloc_mmap(h, total).p = b /\ alloc_mmap(h, total).h = g
      BY <2>5
    <2> QED
      BY <2>11, <2>13, <2>20, <2>21, <2>22 DEF Gives
  <1> QED
    BY <1>4, <1>5

\* malloc of a size that does not wrap: room for the header and at least a byte.
LEMMA MallocGives ==
    ASSUME NEW h, NEW H, HeapInv(h, H), NEW size \in Nat, size + Header < Word
    PROVE  Gives(h, H, Malloc(h, size), size + Header)
  <1>1. 1 + Header < Word
    BY UserMallocAssumption
  <1>2. PICK total : total = ((IF size = 0 THEN 1 ELSE size) + Header) % Word
    OBVIOUS
  <1>3. total \in Nat /\ Header < total /\ size + Header <= total
    <2>1. PICK x \in Nat : x = (IF size = 0 THEN 1 ELSE size) + Header
      BY Numbers
    <2>2. x < Word /\ Header < x /\ size + Header <= x
      BY <1>1, <2>1, Numbers
    <2>3. ASSUME NEW y \in Nat, NEW z \in Nat \ {0}, y < z PROVE y % z = y
      BY <2>3, SMT
    <2>4. x % Word = x
      BY <2>2, <2>3, Numbers
    <2> QED
      BY <1>2, <2>1, <2>2, <2>4
  <1>4. PICK ci : ci = class_index(total)
    OBVIOUS
  <1>5. Malloc(h, size) = IF total >= Threshold THEN alloc_mmap(h, total)
                          ELSE IF ci >= 0 THEN alloc_small(h, ci) ELSE alloc_large(h, total)
    BY <1>2, <1>4 DEF Malloc
  <1>6. ASSUME NEW m, NEW n \in Nat, Gives(h, H, m, n), total <= n
        PROVE  Gives(h, H, m, size + Header)
    <2>1. CASE m.p = Null /\ m.h = h
      BY <2>1 DEF Gives
    <2>2. CASE ~ (m.p = Null /\ m.h = h)
      <3>1. /\ m.p \in Nat /\ m.p \notin H /\ HeapInv(m.h, H \cup {m.p})
            /\ Kept(h, m.h, H) /\ n <= m.h.size[m.p]
        BY <1>6, <2>2 DEF Gives
      <3>2. m.p \in Blocks(m.h, H \cup {m.p})
        BY DEF Blocks
      <3>3. m.h.size[m.p] \in Nat
        BY <3>1, <3>2, BlockFacts
      <3>4. size + Header <= m.h.size[m.p]
        BY <1>3, <1>6, <3>1, <3>3, Numbers
      <3> QED
        BY <3>1, <3>4 DEF Gives
    <2> QED
      BY <2>1, <2>2
  <1>7. CASE total >= Threshold
    <2>1. Gives(h, H, alloc_mmap(h, total), total)
      BY <1>3, MmapGives
    <2> QED
      BY <1>3, <1>5, <1>6, <1>7, <2>1
  <1>8. CASE ~ (total >= Threshold) /\ ci >= 0
    <2>1. ci \in Classes /\ total <= block_size_for_class(ci)
      BY <1>3, <1>4, <1>8, ClassIndex
    <2>2. block_size_for_class(ci) \in Nat /\ Header < block_size_for_class(ci)
      BY <1>3, <2>1, ClassSizes, Numbers
    <2>3. Gives(h, H, alloc_small(h, ci), block_size_for_class(ci))
      BY <2>1, <2>2, SmallGives
    <2> QED
      BY <1>5, <1>6, <1>8, <2>1, <2>2, <2>3
  <1>9. CASE ~ (total >= Threshold) /\ ~ (ci >= 0)
    <2>1. block_size_for_class(NClasses - 1) < total
      BY <1>3, <1>4, <1>9, ClassIndex DEF Classes
    <2>2. Gives(h, H, alloc_large(h, total), total)
      BY <1>3, <2>1, LargeGives
    <2> QED
      BY <1>3, <1>5, <1>6, <1>9, <2>2
  <1> QED
    BY <1>7, <1>8, <1>9

-----------------------------------------------------------------------------
(* free.                                                                   *)

\* A region is given back.
LEMMA UnmapKeeps ==
    ASSUME NEW h, NEW H, HeapInv(h, H), NEW b \in H, b >= ArenaMax
    PROVE  HeapInv(Free(h, b), H \ {b}) /\ Kept(h, Free(h, b), H \ {b})
  <1>1. /\ h \in Heap /\ h.regions \in SUBSET (Nat \X Nat) /\ h.next \in Nat /\ h.brk \in Nat
        /\ h.brk <= ArenaMax /\ ArenaMax <= h.next /\ h.next <= RegionMax /\ H \subseteq Nat
    BY HeapBounds
  <1>2. /\ b \in Mapped(H) /\ b \in Nat /\ b \in Cells /\ h.size[b] \in Nat
    BY MappedFacts DEF Mapped
  <1>3. \E r \in h.regions : r[1] = b
    BY <1>2, MappedFacts
  <1>4. PICK q : q = CHOOSE r \in h.regions : r[1] = b
    OBVIOUS
  <1>5. q \in h.regions /\ q[1] = b
    BY <1>3, <1>4
  <1>6. q[2] \in Nat /\ b + q[2] <= h.next
    BY <1>2, <1>5, MappedFacts
  <1>7. PICK hi \in Int : hi = b + q[2]
    BY <1>2, <1>6
  <1>8. PICK f : f = Set(h, b, hi, Junk)
    OBVIOUS
  <1>9. /\ f \in Heap /\ SameButCell(h, f)
        /\ \A c \in Cells : f.cell[c] = IF c \in b..(hi - 1) THEN Junk ELSE h.cell[c]
    <2>1. b \in Int /\ Junk \in Contents
      BY <1>2 DEF Contents
    <2> QED
      BY <1>1, <1>8, <2>1, SetFacts
  <1>10. PICK R : R = h.regions \ {q}
    OBVIOUS
  <1>11. PICK z : z = [f.size EXCEPT ![b] = 0]
    OBVIOUS
  <1>12. PICK g : g = [f EXCEPT !.regions = R, !.size = z]
    OBVIOUS
  <1>13. Free(h, b) = g
    <2>1. Free(h, b) = [Set(h, b, b + q[2], Junk) EXCEPT !.regions = @ \ {q}, !.size[b] = 0]
      BY <1>4 DEF Free
    <2>2. Free(h, b) = [f EXCEPT !.regions = @ \ {q}, !.size[b] = 0]
      BY <1>7, <1>8, <2>1
    <2>3. f.regions = h.regions
      BY <1>9 DEF SameButCell
    <2> QED
      BY <1>10, <1>11, <1>12, <2>2, <2>3
  <1>14. f.size = h.size /\ h.size \in [Cells -> Nat]
    BY <1>9, HeapBounds DEF SameButCell
  <1>15. z \in [Cells -> Nat] /\ \A a \in Cells : a # b => z[a] = h.size[a]
    BY <1>11, <1>14
  <1>16. R \in SUBSET (Nat \X Nat)
    BY <1>1, <1>10
  <1>17. /\ g \in Heap /\ g.brk = f.brk /\ g.next = f.next /\ g.regions = R
         /\ g.small = f.small /\ g.large = f.large /\ g.size = z /\ g.cell = f.cell
    BY <1>9, <1>12, <1>15, <1>16 DEF Heap
  <1>18. g.brk = h.brk /\ g.next = h.next /\ ListsOf(g) = ListsOf(h)
    BY <1>9, <1>17 DEF SameButCell, ListsOf, List
  <1>19. /\ RegionsOK(R, h.next, z, Mapped(H) \ {b})
         /\ \A p \in R : p[1] # b /\ (p[1] + p[2] <= b \/ b + q[2] <= p[1])
    <2>1. SameSizes(h.size, z, Mapped(H) \ {b})
      BY <1>15, MappedFacts DEF SameSizes
    <2>2. RegionsOK(h.regions, h.next, h.size, Mapped(H))
      BY DEF HeapInv
    <2> QED
      BY <1>1, <1>2, <1>5, <1>10, <2>1, <2>2, RegionGoes, ZenonT(30)
  <1>20. ASSUME NEW a \in Blocks(h, H), a # b
         PROVE  /\ g.size[a] = h.size[a] /\ h.size[a] \in Nat /\ Header < h.size[a]
                /\ \A c \in a..(a + h.size[a] - 1) : g.cell[c] = h.cell[c]
    <2>1. /\ a \in Nat /\ a \in Cells /\ h.size[a] \in Nat /\ Header < h.size[a]
          /\ a + h.size[a] <= h.next /\ (a < ArenaMax => a + h.size[a] <= h.brk)
      BY BlockFacts
    <2>2. a + h.size[a] <= b \/ hi <= a
      <3>1. CASE a < ArenaMax
        BY <1>1, <1>2, <2>1, <3>1, Numbers
      <3>2. CASE a >= ArenaMax
        <4>1. a \in Mapped(H)
          <5>1. \A x \in On(ListsOf(h)) : x < ArenaMax /\ x \in Nat
            BY ArenaFacts
          <5> QED
            BY <3>2, <5>1, Numbers DEF Blocks, Mapped
        <4>2. PICK p \in h.regions : p[1] = a
          BY <4>1, MappedFacts
        <4>3. p[2] \in Nat /\ h.size[a] <= p[2]
          BY <4>1, <4>2, MappedFacts
        <4>4. p \in R
          BY <1>5, <1>10, <1>20, <4>2
        <4>5. a + p[2] <= b \/ b + q[2] <= a
          BY <1>19, <4>2, <4>4
        <4> QED
          BY <1>2, <1>6, <1>7, <2>1, <4>3, <4>5
      <3> QED
        BY <2>1, <3>1, <3>2, Numbers
    <2>3. ASSUME NEW c \in a..(a + h.size[a] - 1) PROVE c \in Cells /\ c \notin b..(hi - 1)
      <3>0. h.next \in Nat /\ h.next <= RegionMax /\ RegionMax \in Nat
        BY <1>1, Numbers
      <3>1. c \in 0..(RegionMax - 1)
        BY <2>1, <3>0
      <3>2. c \notin b..(hi - 1)
        BY <1>2, <2>1, <2>2
      <3> QED
        BY <3>1, <3>2, Numbers
    <2> QED
      BY <1>9, <1>15, <1>17, <1>20, <2>1, <2>3
  <1>21. b \notin On(ListsOf(h)) /\ On(ListsOf(h)) \cap (H \ {b}) = {}
    BY DEF HeapInv
  <1>22. InArena(H \ {b}) = InArena(H) /\ Mapped(H \ {b}) = Mapped(H) \ {b}
    BY <1>2, Numbers DEF InArena, Mapped
  <1>23. \A a \in On(ListsOf(h)) \cup InArena(H) : g.size[a] = h.size[a]
    BY <1>2, <1>20, <1>21, Numbers DEF InArena, Blocks
  <1>24. ListsOK(ListsOf(h), g.size)
    <2>1. \A c \in Lists : \A a \in Elems(ListsOf(h)[c]) : g.size[a] = h.size[a]
      BY <1>23, OnFacts
    <2>2. ListsOK(ListsOf(h), h.size)
      BY DEF HeapInv
    <2> QED
      BY <2>1, <2>2 DEF ListsOK
  <1>25. Tiles(On(ListsOf(h)) \cup InArena(H), h.brk, g.size)
    <2>1. Tiles(On(ListsOf(h)) \cup InArena(H), h.brk, h.size)
      BY DEF HeapInv
    <2> QED
      BY <1>23, <2>1 DEF Tiles
  <1>26. HeadsOK(g.cell, On(ListsOf(h)) \cup (H \ {b}))
    <2>1. ASSUME NEW a \in On(ListsOf(h)) \cup (H \ {b}), NEW c \in a..(a + Header - 1)
          PROVE  g.cell[c] = InHead
      <3>1. a \in Blocks(h, H) /\ a # b
        BY <1>21 DEF Blocks
      <3>2. h.cell[c] = InHead
        BY <3>1 DEF HeapInv, HeadsOK, Blocks
      <3>3. a \in Nat /\ h.size[a] \in Nat /\ Header < h.size[a]
        BY <3>1, BlockFacts
      <3>4. c \in a..(a + h.size[a] - 1)
        BY <3>3, Numbers
      <3> QED
        BY <1>20, <3>1, <3>2, <3>4
    <2> QED
      BY <2>1 DEF HeadsOK
  <1>27. HeapInv(g, H \ {b})
    BY <1>1, <1>17, <1>18, <1>19, <1>21, <1>22, <1>24, <1>25, <1>26 DEF HeapInv
  <1>28. Kept(h, g, H \ {b})
    BY <1>20 DEF Kept, Blocks
  <1> QED
    BY <1>13, <1>27, <1>28

LEMMA KeptChain ==
    ASSUME NEW h, NEW g, NEW e, NEW B, Kept(h, g, B), Kept(g, e, B)
    PROVE  Kept(h, e, B)
  BY DEF Kept

LEMMA FreeKeeps ==
    ASSUME NEW h, NEW H, HeapInv(h, H), NEW b \in H
    PROVE  HeapInv(Free(h, b), H \ {b}) /\ Kept(h, Free(h, b), H \ {b})
  <1>1. h \in Heap /\ b \in Nat /\ ArenaMax \in Nat
    BY HeapBounds, Numbers
  <1>2. CASE b >= ArenaMax
    BY <1>2, UnmapKeeps
  <1>3. CASE ~ (b >= ArenaMax)
    <2>1. b \in InArena(H) /\ b < ArenaMax
      BY <1>1, <1>3 DEF InArena
    <2>2. h.size[b] \in Nat /\ Header < h.size[b] /\ Sized(h.size[b])
      BY <2>1, ArenaFacts
    <2>a. PICK lo \in Nat : lo = b + Header
      BY <1>1, Numbers
    <2>b. PICK hi \in Nat : hi = b + h.size[b]
      BY <1>1, <2>2
    <2>3. lo \in Nat /\ hi \in Nat /\ lo = b + Header /\ hi = b + h.size[b]
      BY <2>a, <2>b
    <2>4. PICK f : f = Set(h, lo, hi, Junk)
      OBVIOUS
    <2>5. HeapInv(f, H) /\ Kept(h, f, H \ {b}) /\ f \in Heap /\ SameButCell(h, f)
      <3>1. Junk \in Contents /\ b + Header <= lo /\ hi <= b + h.size[b]
        BY <1>1, <2>2, <2>3, Numbers DEF Contents
      <3> QED
        BY <2>4, <3>1, SetHeld DEF SetTo
    <2>6. f.size = h.size
      BY <2>5 DEF SameButCell
    <2>7. PICK c \in Lists : Fit(c, h.size[b])
      BY <2>2 DEF Sized
    <2>8. class_index(h.size[b]) = IF c = NClasses THEN -1 ELSE c
      BY <2>2, <2>7, ClassOfFit
    <2>9. PICK ci : ci = class_index(h.size[b])
      OBVIOUS
    <2>10. Free(h, b) = IF ci >= 0 THEN [f EXCEPT !.small[ci] = <<b>> \o @]
                        ELSE [f EXCEPT !.large = <<b>> \o @]
      BY <1>3, <2>3, <2>4, <2>9 DEF Free
    <2>11. b \notin On(ListsOf(f)) /\ ListsOK(ListsOf(f), f.size)
      BY <2>5 DEF HeapInv
    <2>12. PICK s : s = ListsOf(f)[c]
      OBVIOUS
    <2>13. Once(s) /\ b \notin Elems(s)
      BY <2>11, <2>12, OnFacts DEF ListsOK
    <2>14. PICK q : q = <<b>> \o s
      OBVIOUS
    <2>15. \E g : /\ Free(h, b) = g /\ g \in Heap /\ SameButLists(f, g) /\ PutOn(ListsOf(f), ListsOf(g), c, {b})
      <3>1. CASE c = NClasses
        <4>1. s = f.large /\ s \in Seq(Nat)
          BY <2>5, <2>12, <3>1, HeapFields, Numbers DEF ListsOf, List
        <4>2. q \in Seq(Nat) /\ Once(q) /\ Elems(q) = Elems(s) \cup {b}
          BY <1>1, <2>13, <2>14, <4>1, PushLemma
        <4>3. PICK g : g = WithLarge(f, q)
          OBVIOUS
        <4>4. Free(h, b) = g
          <5>1. ~ (ci >= 0)
            BY <2>8, <2>9, <3>1
          <5> QED
            BY <2>10, <2>14, <4>1, <4>3, <5>1 DEF WithLarge
        <4>5. /\ g \in Heap /\ SameButLists(f, g) /\ ListsOf(g)[c] = q
              /\ \A d \in Lists : d # c => ListsOf(g)[d] = ListsOf(f)[d]
          BY <2>5, <3>1, <4>2, <4>3, LargeSet
        <4>6. PutOn(ListsOf(f), ListsOf(g), c, {b})
          BY <2>12, <4>2, <4>5 DEF PutOn
        <4> QED
          BY <4>4, <4>5, <4>6
      <3>2. CASE c # NClasses
        <4>1. c \in Classes /\ c >= 0 /\ ci = c
          BY <2>8, <2>9, <3>2, Numbers DEF Classes
        <4>2. s = f.small[c] /\ s \in Seq(Nat)
          BY <2>5, <2>12, <3>2, <4>1, HeapFields DEF ListsOf, List
        <4>3. q \in Seq(Nat) /\ Once(q) /\ Elems(q) = Elems(s) \cup {b}
          BY <1>1, <2>13, <2>14, <4>2, PushLemma
        <4>4. PICK g : g = WithSmall(f, c, q)
          OBVIOUS
        <4>5. Free(h, b) = g
          BY <2>10, <2>14, <4>1, <4>2, <4>4 DEF WithSmall
        <4>6. /\ g \in Heap /\ SameButLists(f, g) /\ ListsOf(g)[c] = q
              /\ \A d \in Lists : d # c => ListsOf(g)[d] = ListsOf(f)[d]
          BY <2>5, <4>1, <4>3, <4>4, SmallSet
        <4>7. PutOn(ListsOf(f), ListsOf(g), c, {b})
          BY <2>12, <4>3, <4>6 DEF PutOn
        <4> QED
          BY <4>5, <4>6, <4>7
      <3> QED
        BY <3>1, <3>2
    <2>16. PICK g : /\ Free(h, b) = g /\ g \in Heap /\ SameButLists(f, g)
                    /\ PutOn(ListsOf(f), ListsOf(g), c, {b})
      BY <2>15
    <2>17. Fit(c, f.size[b])
      BY <2>6, <2>7
    <2>18. HeapInv(g, H \ {b}) /\ Kept(f, g, H \ {b})
      BY <2>1, <2>5, <2>16, <2>17, PutBack
    <2> QED
      BY <2>5, <2>16, <2>18, KeptChain
  <1> QED
    BY <1>2, <1>3

-----------------------------------------------------------------------------
(* The allocations.                                                        *)

LEMMA OwnerFacts ==
    ASSUME NEW h, NEW L, Sound(h, L), NEW l \in L
    PROVE  /\ l.b \in Owners(L) /\ l.b \in Nat /\ l.size \in Nat /\ l.val \in Vals
           /\ l.b \in Blocks(h, Owners(L)) /\ h.size[l.b] \in Nat /\ Header + l.size <= h.size[l.b]
           /\ \A i \in 0..(l.size - 1) : h.cell[At(l.b, i)] = l.val
  <1>1. HeapInv(h, Owners(L)) /\ Holds(h, l)
    BY DEF Sound
  <1>2. l.b \in Owners(L) /\ l.b \in Blocks(h, Owners(L))
    BY DEF Owners, Blocks
  <1> QED
    BY <1>1, <1>2, BlockFacts DEF Holds

LEMMA HoldsKept ==
    ASSUME NEW h, NEW g, NEW B, NEW l, Holds(h, l), l.b \in B, Kept(h, g, B), h.size[l.b] \in Nat
    PROVE  Holds(g, l)
  <1>1. /\ l \in [b : Nat, size : Nat, val : Vals] /\ Header + l.size <= h.size[l.b]
        /\ \A i \in 0..(l.size - 1) : h.cell[At(l.b, i)] = l.val
    BY DEF Holds
  <1>2. l.b \in Nat /\ l.size \in Nat
    BY <1>1
  <1>3. /\ g.size[l.b] = h.size[l.b]
        /\ \A c \in (l.b)..(l.b + h.size[l.b] - 1) : g.cell[c] = h.cell[c]
    BY DEF Kept
  <1>4. ASSUME NEW i \in 0..(l.size - 1) PROVE At(l.b, i) \in (l.b)..(l.b + h.size[l.b] - 1)
    BY <1>1, <1>2, Numbers, SMTT(30) DEF At
  <1> QED
    BY <1>1, <1>3, <1>4 DEF Holds

\* An allocation is added.
LEMMA SoundAdd ==
    ASSUME NEW h, NEW L, Sound(h, L), NEW g, NEW l, l.b \notin Owners(L),
           HeapInv(g, Owners(L) \cup {l.b}), Kept(h, g, Owners(L)), Holds(g, l)
    PROVE  Sound(g, L \cup {l})
  <1>1. Owners(L \cup {l}) = Owners(L) \cup {l.b}
    BY DEF Owners
  <1>2. IsFiniteSet(L \cup {l})
    BY FS_AddElement DEF Sound
  <1>3. ASSUME NEW k \in L PROVE Holds(g, k) /\ k.b # l.b
    <2>1. k.b \in Owners(L) /\ h.size[k.b] \in Nat /\ Holds(h, k)
      BY OwnerFacts DEF Sound
    <2> QED
      BY <2>1, HoldsKept
  <1>4. \A j, k \in L \cup {l} : j.b = k.b => j = k
    BY <1>3 DEF Sound
  <1> QED
    BY <1>1, <1>2, <1>3, <1>4 DEF Sound

\* An allocation is dropped.
LEMMA SoundDrop ==
    ASSUME NEW h, NEW L, Sound(h, L), NEW g, NEW l \in L,
           HeapInv(g, Owners(L) \ {l.b}), Kept(h, g, Owners(L) \ {l.b})
    PROVE  Sound(g, L \ {l})
  <1>1. Owners(L \ {l}) = Owners(L) \ {l.b}
    BY DEF Owners, Sound
  <1>2. IsFiniteSet(L \ {l})
    BY FS_RemoveElement DEF Sound
  <1>3. ASSUME NEW k \in L \ {l} PROVE Holds(g, k)
    <2>1. k.b \in Owners(L) \ {l.b} /\ h.size[k.b] \in Nat /\ Holds(h, k)
      <3>1. k.b # l.b
        BY DEF Sound
      <3> QED
        BY <3>1, OwnerFacts DEF Sound
    <2> QED
      BY <2>1, HoldsKept
  <1> QED
    BY <1>1, <1>2, <1>3 DEF Sound

\* An allocation is replaced by one in a block that nobody else has.
LEMMA SoundReplace ==
    ASSUME NEW h, NEW L, Sound(h, L), NEW g, NEW l \in L, NEW k, k.b \notin Owners(L) \ {l.b},
           HeapInv(g, (Owners(L) \ {l.b}) \cup {k.b}), Kept(h, g, Owners(L) \ {l.b}), Holds(g, k)
    PROVE  Sound(g, (L \ {l}) \cup {k})
  <1>1. Owners((L \ {l}) \cup {k}) = (Owners(L) \ {l.b}) \cup {k.b}
    BY DEF Owners, Sound
  <1>2. IsFiniteSet((L \ {l}) \cup {k})
    BY FS_RemoveElement, FS_AddElement DEF Sound
  <1>3. ASSUME NEW j \in L \ {l} PROVE Holds(g, j) /\ j.b # k.b
    <2>1. j.b \in Owners(L) \ {l.b} /\ h.size[j.b] \in Nat /\ Holds(h, j)
      <3>1. j.b # l.b
        BY DEF Sound
      <3> QED
        BY <3>1, OwnerFacts DEF Sound
    <2> QED
      BY <2>1, HoldsKept
  <1>4. \A i, j \in (L \ {l}) \cup {k} : i.b = j.b => i = j
    BY <1>3 DEF Sound
  <1> QED
    BY <1>1, <1>2, <1>3, <1>4 DEF Sound

\* A block handed out is filled with v by its owner.
LEMMA SoundFill ==
    ASSUME NEW h, NEW L, Sound(h, L), NEW m, NEW size \in Nat, NEW v \in Vals,
           Gives(h, Owners(L), m, size + Header), m.p # Null
    PROVE  Sound(Set(m.h, At(m.p, 0), At(m.p, size), v),
                 L \cup {[b |-> m.p, size |-> size, val |-> v]})
  <1>1. PICK b, e : b = m.p /\ e = m.h
    OBVIOUS
  <1>2. PICK H : H = Owners(L)
    OBVIOUS
  <1>3. /\ b \in Nat /\ b \notin H /\ HeapInv(e, H \cup {b}) /\ Kept(h, e, H)
        /\ size + Header <= e.size[b]
    BY <1>1, <1>2 DEF Gives
  <1>4. e.size[b] \in Nat
    BY <1>3, BlockFacts DEF Blocks
  <1>5. PICK lo \in Nat : lo = b + Header
    BY <1>3, Numbers
  <1>6. PICK hi \in Nat : hi = b + Header + size
    BY <1>3, Numbers
  <1>7. At(m.p, 0) = lo /\ At(m.p, size) = hi
    BY <1>1, <1>3, <1>5, <1>6, Numbers DEF At
  <1>8. PICK g : g = Set(e, lo, hi, v)
    OBVIOUS
  <1>9. /\ HeapInv(g, H \cup {b}) /\ Kept(e, g, (H \cup {b}) \ {b}) /\ SameButCell(e, g)
        /\ \A c \in Cells : g.cell[c] = IF c \in lo..(hi - 1) THEN v ELSE e.cell[c]
    <2>0. PICK J : J = H \cup {b}
      OBVIOUS
    <2>1. b \in J /\ b + Header <= lo /\ hi <= b + e.size[b] /\ v \in Contents /\ HeapInv(e, J)
      BY <1>3, <1>4, <1>5, <1>6, <2>0, Numbers DEF Contents
    <2>2. HeapInv(g, J) /\ Kept(e, g, J \ {b}) /\ SetTo(e, g, lo, hi, v)
      BY <1>8, <2>1, SetHeld
    <2> QED
      BY <2>0, <2>2 DEF SetTo
  <1>10. Kept(h, g, H)
    <2>1. (H \cup {b}) \ {b} = H
      BY <1>3
    <2> QED
      BY <1>3, <1>9, <2>1, KeptChain
  <1>11. PICK l : l = [b |-> b, size |-> size, val |-> v]
    OBVIOUS
  <1>12. l \in [b : Nat, size : Nat, val : Vals] /\ l.b = b /\ l.size = size /\ l.val = v
    BY <1>3, <1>11
  <1>13. Holds(g, l)
    <2>1. Header + l.size <= g.size[l.b]
      BY <1>3, <1>4, <1>9, <1>12, Numbers DEF SameButCell
    <2>2. ASSUME NEW i \in 0..(size - 1) PROVE g.cell[At(b, i)] = v
      <3>1. At(b, i) \in lo..(hi - 1)
        BY <1>3, <1>5, <1>6, Numbers DEF At
      <3>2. At(b, i) \in Cells
        <4>1. b + e.size[b] <= e.next /\ e.next \in Nat /\ e.next <= RegionMax
          BY <1>3, BlockFacts, HeapBounds DEF Blocks
        <4> QED
          BY <1>3, <1>4, <4>1, Numbers DEF At
      <3> QED
        BY <1>9, <3>1, <3>2
    <2> QED
      BY <1>12, <2>1, <2>2 DEF Holds
  <1>14. Sound(g, L \cup {l})
    <2>1. l.b \notin Owners(L) /\ HeapInv(g, Owners(L) \cup {l.b}) /\ Kept(h, g, Owners(L))
      BY <1>2, <1>3, <1>9, <1>10, <1>12
    <2> QED
      BY <1>13, <2>1, SoundAdd
  <1> QED
    BY <1>1, <1>7, <1>8, <1>11, <1>14

\* There is a value that nobody holds, as long as not all may be in use.
LEMMA NewValExists ==
    ASSUME IsFiniteSet(live), Cardinality(live) < MaxLive
    PROVE  NewVal \in Vals
  <1>1. \E v \in Vals \ {0} : \A l \in live : l.val # v
    <2>1. SUFFICES ASSUME \A v \in Vals \ {0} : \E l \in live : l.val = v
                   PROVE  FALSE
      OBVIOUS
    <2>2. MaxLive \in Nat /\ 1..MaxLive = Vals \ {0}
      BY Numbers DEF Vals
    <2>3. PICK f : f = [v \in 1..MaxLive |-> CHOOSE l \in live : l.val = v]
      OBVIOUS
    <2>4. ASSUME NEW v \in 1..MaxLive PROVE f[v] \in live /\ f[v].val = v
      <3>1. \E l \in live : l.val = v
        BY <2>1, <2>2
      <3>2. f[v] = CHOOSE l \in live : l.val = v
        BY <2>3
      <3> QED
        BY <3>1, <3>2
    <2>5. f \in [1..MaxLive -> live]
      BY <2>3, <2>4
    <2>6. IsFiniteSet(1..MaxLive) /\ Cardinality(1..MaxLive) = MaxLive
      BY <2>2, FS_Interval, Numbers
    <2>7. \E x, y \in 1..MaxLive : x # y /\ f[x] = f[y]
      BY <2>5, <2>6, FS_PigeonHole
    <2> QED
      BY <2>4, <2>7
  <1> QED
    BY <1>1 DEF NewVal

-----------------------------------------------------------------------------
(* realloc.                                                                *)

\* The first n bytes of one block in g are those of another in h.
Copied(h, g, from, to, n) == \A i \in 0..(n - 1) : g.cell[At(to, i)] = h.cell[At(from, i)]

\* n bytes are copied from one held block to another that has room for them.
LEMMA MoveKeeps ==
    ASSUME NEW h, NEW H, HeapInv(h, H), NEW from \in H, NEW to \in H, from # to, NEW n \in Nat,
           Header + n <= h.size[from], Header + n <= h.size[to],
           NEW g, g = Move(h, from, to, n)
    PROVE  /\ HeapInv(g, H) /\ Kept(h, g, H \ {to}) /\ g.size = h.size
           /\ Copied(h, g, from, to, n)
  <1>1. /\ h \in Heap /\ h.cell \in [Cells -> Contents] /\ h.next \in Nat /\ h.next <= RegionMax
    BY HeapBounds
  <1>2. /\ from \in Nat /\ h.size[from] \in Nat /\ from + h.size[from] <= h.next
        /\ to \in Nat /\ h.size[to] \in Nat /\ to + h.size[to] <= h.next
    BY BlockFacts DEF Blocks
  <1>3. PICK lo \in Nat : lo = At(to, 0) /\ lo = to + Header
    BY <1>2, Numbers DEF At
  <1>4. PICK hi \in Nat : hi = At(to, n) /\ hi = to + Header + n
    BY <1>2, Numbers DEF At
  <1>5. PICK f : f = [c \in Cells |-> IF c \in lo..(hi - 1) THEN h.cell[c - to + from] ELSE h.cell[c]]
    OBVIOUS
  <1>6. g = [h EXCEPT !.cell = f]
    BY <1>3, <1>4, <1>5 DEF Move
  <1>7. \A c \in lo..(hi - 1) : c - to + from \in Cells
    BY <1>1, <1>2, <1>3, <1>4, Numbers, SMTT(30)
  <1>8. f \in [Cells -> Contents]
    BY <1>1, <1>5, <1>7
  <1>9. g \in Heap /\ SameButCell(h, g) /\ g.cell = f
    BY <1>1, <1>6, <1>8 DEF Heap, SameButCell
  <1>10. PayloadOnly(h, g, to)
    <2>1. ASSUME NEW c \in Cells, g.cell[c] # h.cell[c] PROVE to + Header <= c /\ c < to + h.size[to]
      <3>1. c \in lo..(hi - 1)
        BY <1>5, <1>9, <2>1
      <3>2. PICK z \in Nat : z = h.size[to] /\ Header + n <= z
        BY <1>2
      <3>3. c \in Nat /\ lo <= c /\ c < hi /\ hi <= to + z
        BY <1>2, <1>3, <1>4, <3>1, <3>2, Numbers
      <3>4. to + Header <= c /\ c < to + z
        BY <1>2, <1>3, <3>2, <3>3, Numbers
      <3> QED
        BY <3>2, <3>4
    <2> QED
      BY <2>1 DEF PayloadOnly
  <1>11. HeapInv(g, H) /\ Kept(h, g, H \ {to}) /\ g.size = h.size
    BY <1>9, <1>10, PayloadKeeps
  <1>12. ASSUME NEW i \in 0..(n - 1) PROVE g.cell[At(to, i)] = h.cell[At(from, i)]
    <2>1. PICK c \in Nat : c = At(to, i)
      BY <1>2, Numbers DEF At
    <2>2. c \in lo..(hi - 1) /\ c \in Cells /\ c - to + from = At(from, i)
      BY <1>1, <1>2, <1>3, <1>4, <2>1, Numbers DEF At
    <2>3. f[c] = h.cell[c - to + from]
      BY <1>5, <2>2
    <2> QED
      BY <1>9, <2>1, <2>2, <2>3
  <1> QED
    BY <1>11, <1>12 DEF Copied

\* A block that holds the first bytes gets the others.
LEMMA FillRest ==
    ASSUME NEW h, NEW H, HeapInv(h, H), NEW b \in H, NEW n \in Nat, NEW size \in Nat, NEW v \in Vals,
           Header + size <= h.size[b], Header + n <= h.size[b],
           Begins(h, b, n, v), NEW g, g = Set(h, At(b, n), At(b, size), v)
    PROVE  /\ HeapInv(g, H) /\ Kept(h, g, H \ {b})
           /\ Header + size <= g.size[b] /\ Begins(g, b, size, v)
  <1>1. /\ b \in Nat /\ h.size[b] \in Nat /\ b + h.size[b] <= h.next
        /\ h.next \in Nat /\ h.next <= RegionMax
    BY BlockFacts, HeapBounds DEF Blocks
  <1>2. PICK lo \in Nat : lo = At(b, n) /\ lo = b + Header + n
    BY <1>1, Numbers DEF At
  <1>3. PICK hi \in Nat : hi = At(b, size) /\ hi = b + Header + size
    BY <1>1, Numbers DEF At
  <1>4. b + Header <= lo /\ hi <= b + h.size[b] /\ v \in Contents
    BY <1>1, <1>2, <1>3, Numbers DEF Contents
  <1>5. g = Set(h, lo, hi, v)
    BY <1>2, <1>3
  <1>6. /\ HeapInv(g, H) /\ Kept(h, g, H \ {b}) /\ SameButCell(h, g)
        /\ \A c \in Cells : g.cell[c] = IF c \in lo..(hi - 1) THEN v ELSE h.cell[c]
    <2>1. SetTo(h, g, lo, hi, v) /\ HeapInv(g, H) /\ Kept(h, g, H \ {b})
      BY <1>4, <1>5, SetHeld
    <2> QED
      BY <2>1 DEF SetTo
  <1>7. ASSUME NEW i \in 0..(size - 1) PROVE g.cell[At(b, i)] = v
    <2>1. PICK c \in Nat : c = At(b, i) /\ c = b + Header + i
      BY <1>1, Numbers DEF At
    <2>2. c \in Cells
      BY <1>1, <2>1, Numbers
    <2>3. CASE i < n
      <3>1. i \in 0..(n - 1)
        BY <2>3
      <3>2. h.cell[c] = v
        BY <2>1, <3>1 DEF Begins
      <3> QED
        BY <1>6, <2>1, <2>2, <3>2
    <2>4. CASE ~ (i < n)
      <3>1. c \in lo..(hi - 1)
        <4>1. n <= i /\ i < size /\ i \in Nat
          BY <2>4
        <4>2. lo <= c /\ c < hi
          BY <1>1, <1>2, <1>3, <2>1, <4>1, Numbers
        <4> QED
          BY <4>2
      <3> QED
        BY <1>6, <2>1, <2>2, <3>1
    <2> QED
      BY <2>3, <2>4
  <1>8. Header + size <= g.size[b]
    BY <1>6 DEF SameButCell
  <1> QED
    BY <1>6, <1>7, <1>8 DEF Begins

\* realloc in place.
LEMMA SoundResize ==
    ASSUME NEW h, NEW L, Sound(h, L), NEW l \in L, NEW size \in Nat, h.size[l.b] - Header >= size,
           NEW g, g = Set(h, At(l.b, l.size), At(l.b, size), l.val)
    PROVE  Sound(g, (L \ {l}) \cup {[l EXCEPT !.size = size]})
  <1>1. /\ l.b \in Owners(L) /\ l.b \in Nat /\ l.size \in Nat /\ l.val \in Vals
        /\ h.size[l.b] \in Nat /\ Header + l.size <= h.size[l.b]
        /\ \A i \in 0..(l.size - 1) : h.cell[At(l.b, i)] = l.val
    BY OwnerFacts
  <1>2. PICK b \in Nat : b = l.b
    BY <1>1
  <1>3. PICK n \in Nat : n = l.size
    BY <1>1
  <1>4. PICK v \in Vals : v = l.val
    BY <1>1
  <1>5. PICK H : H = Owners(L)
    OBVIOUS
  <1>6. /\ HeapInv(h, H) /\ b \in H /\ Header + size <= h.size[b] /\ Header + n <= h.size[b]
        /\ Begins(h, b, n, v)
    BY <1>1, <1>2, <1>3, <1>4, <1>5, Numbers DEF Sound, Begins
  <1>7. g = Set(h, At(b, n), At(b, size), v)
    BY <1>2, <1>3, <1>4
  <1>8. /\ HeapInv(g, H) /\ Kept(h, g, H \ {b}) /\ Header + size <= g.size[b]
        /\ Begins(g, b, size, v)
    BY <1>6, <1>7, FillRest
  <1>9. PICK k : k = [l EXCEPT !.size = size]
    OBVIOUS
  <1>10. l \in [b : Nat, size : Nat, val : Vals]
    BY DEF Sound, Holds
  <1>11. k \in [b : Nat, size : Nat, val : Vals] /\ k.b = b /\ k.size = size /\ k.val = v
    BY <1>2, <1>4, <1>9, <1>10
  <1>12. Holds(g, k)
    BY <1>8, <1>11 DEF Holds, Begins
  <1>13. /\ k.b \notin Owners(L) \ {l.b} /\ HeapInv(g, (Owners(L) \ {l.b}) \cup {k.b})
         /\ Kept(h, g, Owners(L) \ {l.b})
    <2>1. (Owners(L) \ {l.b}) \cup {k.b} = H
      BY <1>2, <1>5, <1>6, <1>11
    <2> QED
      BY <1>2, <1>5, <1>8, <1>11, <2>1
  <1>14. Sound(g, (L \ {l}) \cup {k})
    BY <1>12, <1>13, SoundReplace
  <1> QED
    BY <1>9, <1>14

\* realloc to a new block: copied, the old one freed, the rest written.
LEMMA SoundMove ==
    ASSUME NEW h, NEW L, Sound(h, L), NEW l \in L, NEW size \in Nat,
           NEW usable, usable = h.size[l.b] - Header, ~ (usable >= size),
           NEW m, Gives(h, Owners(L), m, size + Header), m.p # Null,
           NEW g, g = Set(Free(Move(m.h, l.b, m.p, usable), l.b), At(m.p, l.size), At(m.p, size), l.val)
    PROVE  Sound(g, (L \ {l}) \cup {[l EXCEPT !.b = m.p, !.size = size]})
  <1>1. /\ l.b \in Owners(L) /\ l.b \in Nat /\ l.size \in Nat /\ l.val \in Vals
        /\ h.size[l.b] \in Nat /\ Header + l.size <= h.size[l.b]
        /\ \A i \in 0..(l.size - 1) : h.cell[At(l.b, i)] = l.val
    BY OwnerFacts
  <1>2. PICK a \in Nat : a = l.b
    BY <1>1
  <1>3. PICK n \in Nat : n = l.size
    BY <1>1
  <1>4. PICK v \in Vals : v = l.val
    BY <1>1
  <1>5. PICK H : H = Owners(L)
    OBVIOUS
  <1>6. PICK b, e : b = m.p /\ e = m.h
    OBVIOUS
  <1>7. /\ b \in Nat /\ b \notin H /\ HeapInv(e, H \cup {b}) /\ Kept(h, e, H)
        /\ size + Header <= e.size[b]
    BY <1>5, <1>6 DEF Gives
  <1>8. a \in H /\ a # b
    BY <1>1, <1>2, <1>5, <1>7
  <1>9. e.size[a] = h.size[a] /\ \A c \in a..(a + h.size[a] - 1) : e.cell[c] = h.cell[c]
    BY <1>7, <1>8 DEF Kept
  <1>10. PICK J : J = H \cup {b}
    OBVIOUS
  <1>11. HeapInv(e, J) /\ a \in J /\ b \in J
    BY <1>7, <1>8, <1>10
  <1>12. e.size[b] \in Nat /\ e.size[a] \in Nat
    BY <1>11, BlockFacts DEF Blocks
  <1>13. PICK u \in Nat : u = usable /\ u = e.size[a] - Header /\ n <= u /\ u < size
    BY <1>1, <1>2, <1>3, <1>9, Numbers, SMTT(30)
  <1>14. Header + u <= e.size[a] /\ Header + u <= e.size[b]
    <2>1. PICK y, z \in Nat : y = e.size[a] /\ z = e.size[b]
      BY <1>12
    <2>2. u = y - Header /\ u < size /\ size + Header <= z
      BY <1>7, <1>13, <2>1
    <2>3. Header + u <= y /\ Header + u <= z
      BY <2>1, <2>2, Numbers, SMTT(30)
    <2> QED
      BY <2>1, <2>3
  <1>15. PICK f : f = Move(e, a, b, u)
    OBVIOUS
  <1>16. /\ HeapInv(f, J) /\ Kept(e, f, J \ {b}) /\ f.size = e.size
         /\ Copied(e, f, a, b, u)
    BY <1>8, <1>11, <1>14, <1>15, MoveKeeps
  <1>17. ASSUME NEW i \in 0..(n - 1) PROVE f.cell[At(b, i)] = v
    <2>1. i \in 0..(u - 1)
      BY <1>13
    <2>2. At(a, i) \in a..(a + h.size[a] - 1)
      <3>1. PICK z \in Nat : z = h.size[a] /\ Header + n <= z
        BY <1>1, <1>2, <1>3
      <3>2. PICK x \in Nat : x = At(a, i) /\ x = a + Header + i
        BY <1>2, Numbers DEF At
      <3>3. i \in Nat /\ i < n
        BY <1>3
      <3>4. a <= x /\ x < a + z
        BY ONLY <3>1, <3>2, <3>3, a \in Nat, n \in Nat, z \in Nat, x \in Nat, Numbers, SMTT(30)
      <3> QED
        BY <1>2, <3>1, <3>2, <3>4
    <2>3. e.cell[At(a, i)] = h.cell[At(a, i)]
      BY <1>9, <2>2
    <2>4. h.cell[At(a, i)] = v
      BY <1>1, <1>2, <1>3, <1>4
    <2> QED
      BY <1>16, <2>1, <2>3, <2>4 DEF Copied
  <1>18. PICK d : d = Free(f, a)
    OBVIOUS
  <1>19. HeapInv(d, J \ {a}) /\ Kept(f, d, J \ {a})
    BY <1>11, <1>16, <1>18, FreeKeeps
  <1>20. PICK K : K = J \ {a}
    OBVIOUS
  <1>21. b \in K /\ HeapInv(d, K) /\ Kept(f, d, K)
    BY <1>8, <1>11, <1>19, <1>20
  <1>22. d.size[b] = e.size[b] /\ \A c \in b..(b + e.size[b] - 1) : d.cell[c] = f.cell[c]
    BY <1>16, <1>21 DEF Kept
  <1>23. ASSUME NEW i \in 0..(n - 1) PROVE d.cell[At(b, i)] = v
    <2>1. At(b, i) \in b..(b + e.size[b] - 1)
      <3>1. PICK z \in Nat : z = e.size[b] /\ Header + u <= z
        BY <1>12, <1>14
      <3>2. PICK x \in Nat : x = At(b, i) /\ x = b + Header + i
        BY <1>7, Numbers DEF At
      <3>3. b <= x /\ x < b + z
        BY <1>7, <1>13, <3>1, <3>2, Numbers, SMTT(30)
      <3> QED
        BY <1>7, <3>1, <3>2, <3>3
    <2> QED
      BY <1>17, <1>22, <2>1
  <1>24. Header + size <= d.size[b] /\ Header + n <= d.size[b]
    BY <1>7, <1>12, <1>13, <1>14, <1>22, Numbers, SMTT(30)
  <1>25. g = Set(d, At(b, n), At(b, size), v)
    BY <1>2, <1>3, <1>4, <1>6, <1>13, <1>15, <1>18
  <1>26. Begins(d, b, n, v)
    BY <1>23 DEF Begins
  <1>27. /\ HeapInv(g, K) /\ Kept(d, g, K \ {b}) /\ Header + size <= g.size[b]
         /\ Begins(g, b, size, v)
    BY <1>21, <1>24, <1>25, <1>26, FillRest
  <1>28. K = (H \ {a}) \cup {b} /\ K \ {b} = H \ {a} /\ H \ {a} \subseteq J \ {b}
    BY <1>7, <1>8, <1>10, <1>20
  <1>29. Kept(h, g, H \ {a})
    <2>1. Kept(h, e, H \ {a})
      BY <1>7 DEF Kept
    <2>2. Kept(e, f, H \ {a})
      BY <1>16, <1>28 DEF Kept
    <2>3. Kept(f, d, H \ {a})
      BY <1>21, <1>28 DEF Kept
    <2>4. Kept(d, g, H \ {a})
      BY <1>27, <1>28
    <2> QED
      BY <2>1, <2>2, <2>3, <2>4, KeptChain
  <1>30. PICK k : k = [l EXCEPT !.b = b, !.size = size]
    OBVIOUS
  <1>31. l \in [b : Nat, size : Nat, val : Vals]
    BY DEF Sound, Holds
  <1>32. k \in [b : Nat, size : Nat, val : Vals] /\ k.b = b /\ k.size = size /\ k.val = v
    BY <1>4, <1>7, <1>30, <1>31
  <1>33. Holds(g, k)
    BY <1>27, <1>32 DEF Holds, Begins
  <1>34. /\ k.b \notin Owners(L) \ {l.b} /\ HeapInv(g, (Owners(L) \ {l.b}) \cup {k.b})
         /\ Kept(h, g, Owners(L) \ {l.b})
    BY <1>2, <1>5, <1>7, <1>27, <1>28, <1>29, <1>32
  <1>35. Sound(g, (L \ {l}) \cup {k})
    BY <1>33, <1>34, SoundReplace
  <1> QED
    BY <1>6, <1>30, <1>35

-----------------------------------------------------------------------------
(* The specification.                                                      *)

LEMMA InitHolds == Init => IInv
  <1>1. SUFFICES ASSUME Init PROVE IInv
    OBVIOUS
  <1>2. /\ heap = [brk |-> 0, next |-> ArenaMax, regions |-> {},
               small |-> [ci \in Classes |-> <<>>], large |-> <<>>,
               size |-> [a \in Cells |-> 0], cell |-> [a \in Cells |-> Junk]]
        /\ live = {}
    BY <1>1 DEF Init
  <1>3. /\ heap.brk = 0 /\ heap.next = ArenaMax /\ heap.regions = {}
        /\ heap.small = [ci \in Classes |-> <<>>] /\ heap.large = <<>>
    BY <1>2
  <1>4. heap \in Heap
    BY <1>2, Numbers DEF Heap, Contents
  <1>5. \A c \in Lists : ListsOf(heap)[c] = <<>>
    BY <1>3, Numbers DEF ListsOf, List
  <1>6. Once(<<>>) /\ Elems(<<>>) = {}
    BY DEF Once, Elems
  <1>7. On(ListsOf(heap)) = {} /\ ListsOK(ListsOf(heap), heap.size)
    BY <1>5, <1>6 DEF On, ListsOK
  <1>8. Owners(live) = {} /\ InArena({}) = {} /\ Mapped({}) = {}
    BY <1>2 DEF Owners, InArena, Mapped
  <1>9. Tiles({}, 0, heap.size)
    BY DEF Tiles
  <1>10. RegionsOK({}, heap.next, heap.size, {})
    BY DEF RegionsOK
  <1>11. HeadsOK(heap.cell, {})
    BY DEF HeadsOK
  <1>12. HeapInv(heap, {})
    <2>1. On(ListsOf(heap)) \cup InArena({}) = {} /\ On(ListsOf(heap)) \cup {} = {} /\ {} \subseteq Nat
      BY <1>7, <1>8
    <2>2. /\ Tiles(On(ListsOf(heap)) \cup InArena({}), heap.brk, heap.size)
          /\ RegionsOK(heap.regions, heap.next, heap.size, Mapped({}))
          /\ HeadsOK(heap.cell, On(ListsOf(heap)) \cup {})
      BY <1>3, <1>8, <1>9, <1>10, <1>11, <2>1
    <2>3. heap.brk <= ArenaMax /\ ArenaMax <= heap.next /\ heap.next <= RegionMax
      BY <1>3, Numbers
    <2> QED
      BY <1>4, <1>7, <2>1, <2>2, <2>3 DEF HeapInv
  <1> QED
    BY <1>2, <1>8, <1>12, FS_EmptySet DEF IInv, Sound

\* The sizes asked for do not wrap.
LEMMA NoWrap ==
    /\ \A s \in Sizes : s \in Nat /\ s + Header < Word
    /\ \A s \in Sizes, c \in Counts : /\ c * s \in Nat /\ c * s + Header < Word
                                      /\ (c * s) % Word = c * s
  <1>1. \A s \in Sizes : s \in Nat /\ s + Header < Word
    BY UserMallocAssumption
  <1>2. ASSUME NEW s \in Sizes, NEW c \in Counts
        PROVE  c * s \in Nat /\ c * s + Header < Word /\ (c * s) % Word = c * s
    <2>1. ASSUME NEW x \in Nat, NEW y \in Nat PROVE x * y \in Nat
      BY <2>1, SMT
    <2>2. PICK x \in Nat : x = c * s
      BY <2>1, UserMallocAssumption
    <2>3. x + Header < Word
      BY <2>2, UserMallocAssumption
    <2>4. ASSUME NEW y \in Nat, NEW z \in Nat \ {0}, y < z PROVE y % z = y
      BY <2>4, SMT
    <2>5. x % Word = x
      BY <2>3, <2>4, Numbers
    <2> QED
      BY <2>2, <2>3, <2>5
  <1> QED
    BY <1>1, <1>2

LEMMA NextHolds == IInv /\ [Next]_vars => IInv'
  <1>1. SUFFICES ASSUME IInv, [Next]_vars PROVE IInv'
    OBVIOUS
  <1>2. Sound(heap, live) /\ HeapInv(heap, Owners(live)) /\ IsFiniteSet(live)
    BY <1>1 DEF IInv, Sound
  <1>3. SUFFICES Sound(heap', live')
    BY DEF IInv, Sound, HeapInv, Holds, Owners, Blocks, On, ListsOf, List, ListsOK, Tiles, RegionsOK, HeadsOK
  <1>4. CASE UNCHANGED vars
    BY <1>2, <1>4 DEF vars
  <1>5. ASSUME NEW size \in Sizes, malloc(size) PROVE Sound(heap', live')
    <2>1. PICK m : m = Malloc(heap, size)
      OBVIOUS
    <2>2. Gives(heap, Owners(live), m, size + Header)
      BY <1>2, <2>1, MallocGives, NoWrap
    <2>3. CASE m.p = Null
      <3>1. m.h = heap
        BY <2>2, <2>3 DEF Gives, Null
      <3>2. heap' = m.h /\ live' = live
        BY <1>5, <2>1, <2>3 DEF malloc
      <3> QED
        BY <1>2, <3>1, <3>2
    <2>4. CASE m.p # Null
      <3>1. PICK v : v = NewVal
        OBVIOUS
      <3>2. v \in Vals
        BY <1>2, <1>5, <3>1, NewValExists DEF malloc
      <3>3. /\ heap' = Set(m.h, At(m.p, 0), At(m.p, size), v)
            /\ live' = live \cup {[b |-> m.p, size |-> size, val |-> v]}
        BY <1>5, <2>1, <2>4, <3>1 DEF malloc
      <3>4. size \in Nat
        BY NoWrap
      <3> QED
        BY <1>2, <2>2, <2>4, <3>2, <3>3, <3>4, SoundFill
    <2> QED
      BY <2>3, <2>4
  <1>6. ASSUME NEW count \in Counts, NEW size \in Sizes, calloc(count, size) PROVE Sound(heap', live')
    <2>1. PICK n \in Nat : n = count * size /\ n + Header < Word /\ n % Word = n
      BY NoWrap
    <2>2. PICK m : m = Malloc(heap, n)
      OBVIOUS
    <2>3. Gives(heap, Owners(live), m, n + Header)
      BY <1>2, <2>1, <2>2, MallocGives
    <2>4. (count * size) % Word = n
      BY <2>1
    <2>5. CASE m.p = Null
      <3>1. m.h = heap
        BY <2>3, <2>5 DEF Gives, Null
      <3>2. heap' = m.h /\ live' = live
        BY <1>6, <2>2, <2>4, <2>5 DEF calloc
      <3> QED
        BY <1>2, <3>1, <3>2
    <2>6. CASE m.p # Null
      <3>1. /\ heap' = Set(m.h, At(m.p, 0), At(m.p, n), 0)
            /\ live' = live \cup {[b |-> m.p, size |-> n, val |-> 0]}
        BY <1>6, <2>1, <2>2, <2>4, <2>6 DEF calloc
      <3>2. 0 \in Vals
        BY Numbers DEF Vals
      <3> QED
        BY <1>2, <2>3, <2>6, <3>1, <3>2, SoundFill
    <2> QED
      BY <2>5, <2>6
  <1>7. ASSUME NEW l \in live, free(l) PROVE Sound(heap', live')
    <2>1. l.b \in Owners(live)
      BY <1>2, OwnerFacts
    <2>2. HeapInv(Free(heap, l.b), Owners(live) \ {l.b}) /\ Kept(heap, Free(heap, l.b), Owners(live) \ {l.b})
      BY <1>2, <2>1, FreeKeeps
    <2>3. Sound(Free(heap, l.b), live \ {l})
      BY <1>2, <2>2, SoundDrop
    <2> QED
      BY <1>7, <2>3 DEF free
  <1>8. ASSUME NEW l \in live, NEW size \in Sizes, realloc(l, size) PROVE Sound(heap', live')
    <2>1. PICK m : m = Malloc(heap, size)
      OBVIOUS
    <2>2. Gives(heap, Owners(live), m, size + Header)
      BY <1>2, <2>1, MallocGives, NoWrap
    <2>3. PICK usable : usable = heap.size[l.b] - Header
      OBVIOUS
    <2>4. size \in Nat
      BY NoWrap
    <2>5. CASE size = 0
      <3>1. free(l)
        BY <1>8, <2>5 DEF realloc
      <3> QED
        BY <1>7, <3>1
    <2>6. CASE size # 0 /\ usable >= size
      <3>1. /\ heap' = Set(heap, At(l.b, l.size), At(l.b, size), l.val)
            /\ live' = (live \ {l}) \cup {[l EXCEPT !.size = size]}
        BY <1>8, <2>3, <2>6 DEF realloc
      <3>2. heap.size[l.b] - Header >= size
        BY <2>3, <2>6
      <3> QED
        BY <1>2, <2>4, <3>1, <3>2, SoundResize
    <2>7. CASE size # 0 /\ ~ (usable >= size) /\ m.p = Null
      <3>1. m.h = heap
        BY <2>2, <2>7 DEF Gives, Null
      <3>2. heap' = m.h /\ live' = live
        BY <1>8, <2>1, <2>3, <2>7 DEF realloc
      <3> QED
        BY <1>2, <3>1, <3>2
    <2>8. CASE size # 0 /\ ~ (usable >= size) /\ m.p # Null
      <3>1. /\ heap' = Set(Free(Move(m.h, l.b, m.p, usable), l.b), At(m.p, l.size), At(m.p, size), l.val)
            /\ live' = (live \ {l}) \cup {[l EXCEPT !.b = m.p, !.size = size]}
        BY <1>8, <2>1, <2>3, <2>8 DEF realloc
      <3> QED
        BY <1>2, <2>2, <2>3, <2>4, <2>8, <3>1, SoundMove
    <2> QED
      BY <2>5, <2>6, <2>7, <2>8
  <1> QED
    BY <1>1, <1>4, <1>5, <1>6, <1>7, <1>8 DEF Next

LEMMA Always == Spec => []IInv
  BY InitHolds, NextHolds, PTL DEF Spec

-----------------------------------------------------------------------------
(* The properties.                                                         *)

LEMMA Implied == IInv => TypeOK /\ NothingLost /\ DataKept
  <1>1. SUFFICES ASSUME IInv PROVE TypeOK /\ NothingLost /\ DataKept
    OBVIOUS
  <1>2. Held = Owners(live) /\ Listed = On(ListsOf(heap))
    BY DEF Held, Owners, Listed, On, ListsOf, Elems
  <1>3. HeapInv(heap, Held) /\ heap \in Heap
    BY <1>1, <1>2 DEF IInv, Sound, HeapInv
  <1>4. PICK B : B = Listed \cup InArena(Held)
    OBVIOUS
  <1>5. Tiles(B, heap.brk, heap.size)
    BY <1>2, <1>3, <1>4 DEF HeapInv
  <1>6. /\ heap.brk \in Nat /\ heap.next \in Nat /\ heap.brk <= ArenaMax
        /\ ArenaMax <= heap.next /\ heap.next <= RegionMax
        /\ heap.size \in [Cells -> Nat] /\ heap.cell \in [Cells -> Contents]
    BY <1>3 DEF HeapInv, Heap
  <1>7. \A b \in B : b \in Nat /\ b < heap.brk /\ heap.size[b] \in Nat /\ b + heap.size[b] <= heap.brk
    <2>1. ASSUME NEW b \in B PROVE b \in Nat /\ b < heap.brk
      BY <1>5, <1>6 DEF Tiles
    <2>2. ASSUME NEW b \in B PROVE heap.size[b] \in Nat
      BY <1>6, <2>1, Numbers
    <2> QED
      BY <1>5, <2>1, <2>2 DEF Tiles
  <1>8. TypeOK
    <2>1. Listed \subseteq 0..(ArenaMax - 1)
      BY <1>4, <1>6, <1>7, Numbers
    <2> QED
      BY <1>6, <2>1, Numbers DEF TypeOK, Contents
  <1>9. NothingLost
    <2>1. ASSUME NEW c \in Lists, NEW d \in Lists,
                 NEW i \in DOMAIN List(heap, c), NEW j \in DOMAIN List(heap, d),
                 List(heap, c)[i] = List(heap, d)[j]
          PROVE  c = d /\ i = j
      <3>1. /\ ListsOf(heap)[c] = List(heap, c) /\ ListsOf(heap)[d] = List(heap, d)
            /\ ListsOK(ListsOf(heap), heap.size)
        BY <1>3 DEF ListsOf, HeapInv
      <3>2. PICK b : b = List(heap, c)[i]
        OBVIOUS
      <3>3. b \in Elems(List(heap, c)) /\ b \in Elems(List(heap, d))
        BY <2>1, <3>2 DEF Elems
      <3>4. Fit(c, heap.size[b]) /\ Fit(d, heap.size[b])
        BY <3>1, <3>3 DEF ListsOK
      <3>5. heap.size[b] \in Nat
        <4>1. b \in Listed
          BY <3>3 DEF Listed, Elems
        <4> QED
          BY <1>4, <1>7, <4>1
      <3>6. c = d
        BY <3>4, <3>5, FitOne
      <3>7. Once(List(heap, c))
        BY <3>1 DEF ListsOK
      <3> QED
        BY <2>1, <3>6, <3>7 DEF Once
    <2>2. Listed \cap Held = {} /\ \A l, k \in live : l.b = k.b => l = k
      BY <1>1, <1>2, <1>3 DEF HeapInv, IInv, Sound
    <2>3. B = Listed \cup {b \in Held : b < ArenaMax}
      BY <1>4 DEF InArena
    <2>4. ASSUME NEW a \in B, NEW b \in B, a # b PROVE Span(a) \cap Span(b) = {}
      <3>1. PICK x, y \in Nat : x = heap.size[a] /\ y = heap.size[b]
        BY <1>7
      <3>2. a \in Nat /\ b \in Nat /\ (a + x <= b \/ b + y <= a)
        BY <1>5, <1>7, <2>4, <3>1 DEF Tiles
      <3>3. a..(a + x - 1) \cap b..(b + y - 1) = {}
        BY <3>1, <3>2
      <3> QED
        BY <3>1, <3>3 DEF Span
    <2>5. UNION {Span(b) : b \in B} = 0..(heap.brk - 1)
      <3>1. ASSUME NEW b \in B, NEW x \in Span(b) PROVE x \in 0..(heap.brk - 1)
        <4>1. PICK z \in Nat : z = heap.size[b] /\ b + z <= heap.brk
          BY <1>7
        <4>2. x \in b..(b + z - 1) /\ b \in Nat
          BY <1>7, <4>1 DEF Span
        <4> QED
          BY <1>6, <4>1, <4>2
      <3>2. ASSUME NEW x \in 0..(heap.brk - 1) PROVE \E b \in B : x \in Span(b)
        <4>1. PICK b \in B : b <= x /\ x < b + heap.size[b]
          BY <1>5 DEF Tiles
        <4>2. PICK z \in Nat : z = heap.size[b] /\ b \in Nat
          BY <1>7, <4>1
        <4>3. x \in b..(b + z - 1)
          BY <1>6, <4>1, <4>2
        <4> QED
          BY <4>1, <4>2, <4>3 DEF Span
      <3> QED
        BY <3>1, <3>2
    <2>6. {r[1] : r \in heap.regions} = {b \in Held : b >= ArenaMax}
      BY <1>3 DEF HeapInv, RegionsOK, Mapped
    <2> QED
      BY <2>1, <2>2, <2>3, <2>4, <2>5, <2>6 DEF NothingLost
  <1>10. DataKept
    <2>1. \A l \in live : \A i \in 0..(l.size - 1) : heap.cell[At(l.b, i)] = l.val
      BY <1>1 DEF IInv, Sound, Holds
    <2>2. \A b \in Listed \cup Held : \A a \in b..(b + Header - 1) : heap.cell[a] = InHead
      BY <1>2, <1>3 DEF HeapInv, HeadsOK
    <2>3. ASSUME NEW l \in live
          PROVE  \/ At(l.b, l.size) - 1 < heap.brk
                 \/ \E r \in heap.regions : r[1] = l.b /\ At(l.b, l.size) - 1 < r[1] + r[2]
      <3>1. /\ l.b \in Held /\ l.b \in Nat /\ l.size \in Nat
            /\ heap.size[l.b] \in Nat /\ Header + l.size <= heap.size[l.b]
        BY <1>1, <1>2, OwnerFacts DEF IInv
      <3>2. PICK b, n, z \in Nat : b = l.b /\ n = l.size /\ z = heap.size[l.b] /\ Header + n <= z
        BY <3>1
      <3>3. PICK last \in Int : last = At(l.b, l.size) - 1 /\ last < b + z
        <4>1. PICK x \in Nat : x = b + Header + n /\ x <= b + z
          BY ONLY <3>2, b \in Nat, n \in Nat, z \in Nat, Numbers, SMTT(30)
        <4>2. At(l.b, l.size) = x
          BY <3>2, <4>1 DEF At
        <4>3. x - 1 \in Int /\ x - 1 < b + z
          BY ONLY <4>1, b \in Nat, z \in Nat, x \in Nat
        <4> QED
          BY <4>2, <4>3
      <3>4. CASE b < ArenaMax
        <4>1. b \in B
          BY <1>4, <3>1, <3>2, <3>4 DEF InArena
        <4>2. b + z <= heap.brk
          BY <1>7, <3>2, <4>1
        <4>3. last < heap.brk
          BY <1>6, <3>2, <3>3, <4>2
        <4> QED
          BY <3>3, <4>3
      <3>5. CASE ~ (b < ArenaMax)
        <4>1. b \in Mapped(Held)
          BY <3>1, <3>2, <3>5, Numbers DEF Mapped
        <4>2. PICK r \in heap.regions : r[1] = b /\ z <= r[2]
          BY <1>3, <3>2, <4>1 DEF HeapInv, RegionsOK
        <4>3. r[2] \in Nat
          BY <1>3, <4>2 DEF Heap
        <4>4. last < r[1] + r[2]
          BY <3>2, <3>3, <4>2, <4>3
        <4> QED
          BY <3>2, <3>3, <4>2, <4>4
      <3> QED
        BY <3>4, <3>5
    <2> QED
      BY <2>1, <2>2, <2>3 DEF DataKept
  <1> QED
    BY <1>8, <1>9, <1>10

\* The lists of malloc and free hold blocks of the arena only, the break and the
\* next region stay within their bounds, and cells hold what was written to them.
THEOREM UserHeapTypeCorrect == Spec => []TypeOK
  BY Always, Implied, PTL

\* After any sequence of malloc, calloc, realloc and free, however large the arena
\* and whatever the sizes, no block is given to two owners, none is both listed and
\* held or listed twice, and the blocks fill the arena; a region is mapped exactly
\* while its block is held.
THEOREM NothingIsLost == Spec => []NothingLost
  BY Always, Implied, PTL

\* What an owner wrote is what it reads, until it frees the block: neither another
\* owner's writes, nor the headers of arena_extend_small, nor realloc's copy reach
\* it, and no header is written over.
THEOREM BytesStay == Spec => []DataKept
  BY Always, Implied, PTL
=============================================================================
