--------------------------- MODULE AddrSpaceProofs ---------------------------
(***************************************************************************)
(* Proofs about AddrSpace, for any number of frames, any size of tables    *)
(* and any requests.                                                       *)
(*                                                                         *)
(* A frame in use serves for one thing.  The proofs name it: an owner      *)
(* function O gives for each frame in use the directory, kernel stack,     *)
(* table or page that it is, and the structures in memory must agree with  *)
(* it.  As O is a function, two places that hold the same frame are the    *)
(* same place, so a write to one of them disturbs no other.  Between       *)
(* fa_alloc and paging_map a frame has no owner yet: it is loose.          *)
(***************************************************************************)
EXTENDS AddrSpace, FiniteSetTheorems, TLAPS, SequenceTheorems, FunctionTheorems

\* A non-empty set of natural numbers has a least one.  A claim about all numbers
\* holds because it has no least counterexample; this stands in for induction.
LEMMA LeastNat ==
    ASSUME NEW S \in SUBSET Nat, S # {}
    PROVE  \E x \in S : \A y \in S : x <= y
  <1>1. PICK R : R = {ss \in Nat \X Nat : ss[1] < ss[2]}
    OBVIOUS
  <1>2. IsWellFoundedOn(R, Nat)
    BY <1>1, NatLessThanWellFounded DEF OpToRel
  <1>3. PICK x \in S : \A y \in S : <<y, x>> \notin R
    BY <1>2, WFMin
  <1>4. ASSUME NEW y \in S PROVE x <= y
    <2>1. ~ (y < x)
      BY <1>1, <1>3
    <2> QED
      BY <2>1
  <1> QED
    BY <1>4

Indices  == 0..(PerTable - 1)
TableNos == 0..(NTables - 1)

\* A machine: what is in use, the memory, and whether an allocation failed.
Mach == [used : SUBSET Frames, mem : [Frames -> [Indices -> Word]],
         oom : BOOLEAN]

\* What a frame is used for.
PdOf(s)      == [kind |-> "pd", slot |-> s, at |-> 0]
KsOf(s)      == [kind |-> "ks", slot |-> s, at |-> 0]
TableOf(s, t) == [kind |-> "table", slot |-> s, at |-> t]
PageOf(s, v) == [kind |-> "page", slot |-> s, at |-> v]
Loose(s)     == [kind |-> "loose", slot |-> s, at |-> 0]

LEMMA UseFacts ==
    /\ \A s : PdOf(s).kind = "pd" /\ PdOf(s).slot = s
    /\ \A s : KsOf(s).kind = "ks" /\ KsOf(s).slot = s
    /\ \A s : Loose(s).kind = "loose"
    /\ \A s, t : TableOf(s, t).kind = "table" /\ TableOf(s, t).slot = s /\ TableOf(s, t).at = t
    /\ \A s, v : PageOf(s, v).kind = "page" /\ PageOf(s, v).slot = s /\ PageOf(s, v).at = v
  BY DEF PdOf, KsOf, Loose, TableOf, PageOf

\* In machine m the processes R, with directories p, kernel stacks k and pages
\* given G, have what they need, each frame of it is O's, and O's are all theirs
\* or loose.
Roots(O, m, R, p, k) ==
    \A s \in R : /\ p[s] \in m.used /\ O[p[s]] = PdOf(s)
                 /\ k[s] \in m.used /\ O[k[s]] = KsOf(s)
TablesOwned(O, m, R, p) ==
    \A s \in R : \A t \in TableNos : m.mem[p[s]][t] # Absent =>
        m.mem[p[s]][t] \in m.used /\ O[m.mem[p[s]][t]] = TableOf(s, t)
PagesOwned(O, m, R, p, G) ==
    \A s \in R : \A v \in G[s] : /\ v \in UserPages
                                 /\ Present(m, p[s], v)
                                 /\ FrameOf(m, p[s], v) \in m.used
                                 /\ O[FrameOf(m, p[s], v)] = PageOf(s, v)
Serves(f, m, s, p, k, G) ==
    \/ f = p[s] \/ f = k[s]
    \/ \E t \in TableNos : f = m.mem[p[s]][t]
    \/ \E v \in G[s] : f = FrameOf(m, p[s], v)
AllOwned(O, m, R, p, k, G) ==
    \A f \in m.used : O[f].kind # "loose" => \E s \in R : Serves(f, m, s, p, k, G)

Owned(O, m, R, p, k, G) ==
    /\ m \in Mach
    /\ Roots(O, m, R, p, k)
    /\ TablesOwned(O, m, R, p)
    /\ PagesOwned(O, m, R, p, G)
    /\ AllOwned(O, m, R, p, k, G)

-----------------------------------------------------------------------------
(* Pages and tables *)

LEMMA Numbers ==
    /\ PerTable \in Nat \ {0} /\ NTables \in Nat \ {0} /\ NTables <= PerTable
    /\ NFrames \in Nat /\ StackPage \in Nat /\ StackPage = NTables * PerTable - 1
    /\ MmapBase \in Nat \ {0} /\ MmapBase <= StackPage
    /\ TableNos \subseteq Indices /\ Indices \subseteq Nat /\ UserPages \subseteq Nat
    /\ Frames \subseteq Nat /\ Absent \notin Frames
    /\ Frames \subseteq Word /\ Absent \in Word
  <1>1. /\ PerTable \in Nat \ {0} /\ NTables \in Nat \ {0} /\ NTables <= PerTable
        /\ NFrames \in Nat /\ MmapBase \in 1..(NTables * PerTable - 1)
    BY AddrAssumption
  <1>2. ASSUME NEW a \in Nat \ {0}, NEW b \in Nat \ {0} PROVE a * b \in Nat \ {0}
    BY SMT
  <1>3. StackPage \in Nat /\ StackPage = NTables * PerTable - 1
    BY <1>1, <1>2 DEF StackPage
  <1>4. MmapBase \in Nat \ {0} /\ MmapBase <= StackPage
    BY <1>1, <1>3
  <1>5. TableNos \subseteq Indices /\ Indices \subseteq Nat
    BY <1>1 DEF TableNos, Indices
  <1>6. UserPages \subseteq Nat
    BY <1>3 DEF UserPages
  <1>7. Frames \subseteq Nat /\ Absent \notin Frames
    BY <1>1 DEF Frames, Absent
  <1>8. Frames \subseteq Word /\ Absent \in Word
    BY DEF Word
  <1> QED
    BY <1>1, <1>3, <1>4, <1>5, <1>6, <1>7, <1>8

\* A page's table and its place there.
LEMMA PageFacts ==
    ASSUME NEW v \in UserPages
    PROVE  /\ v \div PerTable \in TableNos /\ v % PerTable \in Indices
           /\ v \div PerTable \in Indices
  <1>1. ASSUME NEW c \in Nat \ {0}, NEW n \in Nat \ {0}, NEW w \in Nat, w < n * c
        PROVE  w \div c \in 0..(n - 1) /\ w % c \in 0..(c - 1)
    <2>1. w \div c \in Nat /\ w % c \in Nat /\ w % c < c /\ w = c * (w \div c) + (w % c)
      BY SMT
    <2>2. CASE w \div c >= n
      <3>1. ASSUME NEW q \in Nat, q >= n PROVE c * q >= n * c
        BY <3>1, SMT
      <3> QED
        BY <2>1, <2>2, <3>1, <1>1
    <2> QED
      BY <2>1, <2>2
  <1>2. v \in Nat /\ v < NTables * PerTable
    BY Numbers DEF UserPages
  <1>3. v \div PerTable \in 0..(NTables - 1) /\ v % PerTable \in 0..(PerTable - 1)
    BY <1>1, <1>2, Numbers
  <1> QED
    BY <1>3, Numbers DEF TableNos, Indices

LEMMA PlaceIsPage ==
    ASSUME NEW v \in UserPages, NEW w \in UserPages,
           v \div PerTable = w \div PerTable, v % PerTable = w % PerTable
    PROVE  v = w
  <1>1. ASSUME NEW c \in Nat \ {0}, NEW x \in Nat
        PROVE  x = c * (x \div c) + (x % c)
    BY SMT
  <1>2. v = PerTable * (v \div PerTable) + (v % PerTable)
    BY <1>1, Numbers
  <1>3. w = PerTable * (w \div PerTable) + (w % PerTable)
    BY <1>1, Numbers
  <1> QED
    BY <1>2, <1>3

-----------------------------------------------------------------------------
(* What one write does to the machine *)

LEMMA AllocFacts ==
    ASSUME NEW m \in Mach, m.used # Frames
    PROVE  fa_alloc(m) \in Frames /\ fa_alloc(m) \notin m.used
  <1>1. Frames \ m.used # {} /\ Frames \ m.used \in SUBSET Nat
    BY Numbers DEF Mach
  <1>2. \E f \in Frames \ m.used : \A g \in Frames \ m.used : f <= g
    BY <1>1, LeastNat
  <1> QED
    BY <1>2 DEF fa_alloc

LEMMA ClaimFacts ==
    ASSUME NEW m \in Mach
    PROVE  /\ Claim(m) \in Mach /\ Claim(m).mem = m.mem
           /\ ~ m.oom => (Claim(m).oom <=> m.used = Frames)
           /\ m.used # Frames => Claim(m).used = m.used \cup {fa_alloc(m)}
  BY AllocFacts DEF Claim, Mach

\* One entry of memory is written.
Wrote(m, n, a, i, f) == n = [m EXCEPT !.mem[a][i] = f]

LEMMA WroteFacts ==
    ASSUME NEW m \in Mach, NEW n, NEW a \in Frames, NEW i \in Indices, NEW f \in Word,
           Wrote(m, n, a, i, f)
    PROVE  /\ n \in Mach /\ n.used = m.used /\ n.oom = m.oom
           /\ n.mem[a][i] = f
           /\ \A b \in Frames : \A j \in Indices : b # a \/ j # i => n.mem[b][j] = m.mem[b][j]
           /\ \A b \in Frames : b # a => n.mem[b] = m.mem[b]
  <1>1. PICK r : r = [m.mem[a] EXCEPT ![i] = f]
    OBVIOUS
  <1>2. m.mem \in [Frames -> [Indices -> Word]]
    BY DEF Mach
  <1>3. r \in [Indices -> Word] /\ r[i] = f
    BY <1>1, <1>2
  <1>4. \A j \in Indices : j # i => r[j] = m.mem[a][j]
    BY <1>1, <1>2
  <1>5. PICK q : q = [m.mem EXCEPT ![a] = r]
    OBVIOUS
  <1>6. q \in [Frames -> [Indices -> Word]]
    BY <1>2, <1>3, <1>5
  <1>7. n = [m EXCEPT !.mem = q]
    BY <1>1, <1>5 DEF Wrote, Mach
  <1>8. n \in Mach /\ n.used = m.used /\ n.oom = m.oom /\ n.mem = q
    BY <1>6, <1>7 DEF Mach
  <1>9. q[a] = r /\ \A b \in Frames : b # a => q[b] = m.mem[b]
    BY <1>2, <1>5
  <1> QED
    BY <1>3, <1>4, <1>8, <1>9

\* A write through an entry that refers to no frame of the bitmap is lost.
LEMMA WroteMach ==
    ASSUME NEW m \in Mach, NEW n, NEW a, NEW i \in Indices, NEW f \in Word, Wrote(m, n, a, i, f)
    PROVE  n \in Mach /\ n.oom = m.oom
  <1>1. CASE a \in Frames
    BY <1>1, WroteFacts
  <1>2. CASE a \notin Frames
    <2>1. PICK r : r = [m.mem[a] EXCEPT ![i] = f]
      OBVIOUS
    <2>2. PICK q : q = [m.mem EXCEPT ![a] = r]
      OBVIOUS
    <2>3. q = m.mem
      BY <1>2, <2>2 DEF Mach
    <2>4. n = [m EXCEPT !.mem = q]
      BY <2>1, <2>2 DEF Wrote, Mach
    <2> QED
      BY <2>3, <2>4 DEF Mach
  <1> QED
    BY <1>1, <1>2

-----------------------------------------------------------------------------
(* What each write does to the owners *)

\* The table and the frame of a page that was given.
LEMMA GivenFacts ==
    ASSUME NEW O, NEW m, NEW R, NEW p, NEW k, NEW G, Owned(O, m, R, p, k, G),
           NEW s \in R, NEW v \in G[s]
    PROVE  /\ v \in UserPages /\ p[s] \in Frames /\ O[p[s]] = PdOf(s)
           /\ v \div PerTable \in TableNos /\ v % PerTable \in Indices
           /\ m.mem[p[s]][v \div PerTable] \in Frames
           /\ m.mem[p[s]][v \div PerTable] \in m.used
           /\ O[m.mem[p[s]][v \div PerTable]] = TableOf(s, v \div PerTable)
           /\ FrameOf(m, p[s], v) \in Frames /\ FrameOf(m, p[s], v) \in m.used
           /\ O[FrameOf(m, p[s], v)] = PageOf(s, v)
           /\ m.mem[p[s]][v \div PerTable] # Absent /\ FrameOf(m, p[s], v) # Absent
  <1>1. m \in Mach /\ m.used \subseteq Frames /\ p[s] \in m.used /\ O[p[s]] = PdOf(s)
    BY DEF Owned, Roots, Mach
  <1>2. /\ v \in UserPages /\ Present(m, p[s], v) /\ FrameOf(m, p[s], v) \in m.used
        /\ O[FrameOf(m, p[s], v)] = PageOf(s, v)
    BY DEF Owned, PagesOwned
  <1>3. v \div PerTable \in TableNos /\ v % PerTable \in Indices
    BY <1>2, PageFacts
  <1>4. m.mem[p[s]][v \div PerTable] # Absent /\ FrameOf(m, p[s], v) # Absent
    BY <1>2 DEF Present, FrameOf
  <1>5. /\ m.mem[p[s]][v \div PerTable] \in m.used
        /\ O[m.mem[p[s]][v \div PerTable]] = TableOf(s, v \div PerTable)
    BY <1>3, <1>4 DEF Owned, TablesOwned
  <1> QED
    BY <1>1, <1>2, <1>3, <1>4, <1>5

LEMMA ClaimOwned ==
    ASSUME NEW O, NEW m, NEW R, NEW p, NEW k, NEW G, Owned(O, m, R, p, k, G),
           m.used # Frames, NEW f, f = fa_alloc(m),
           NEW Q, Q = [g \in Frames |-> IF g = f THEN Loose(f) ELSE O[g]]
    PROVE  /\ Owned(Q, Claim(m), R, p, k, G)
           /\ f \in Claim(m).used /\ f \in Frames /\ Q[f].kind = "loose"
           /\ \A g \in m.used : Q[g] = O[g]
  <1>1. PICK n : n = Claim(m)
    OBVIOUS
  <1>2. m \in Mach /\ m.used \subseteq Frames
    BY DEF Owned, Mach
  <1>3. /\ n \in Mach /\ n.mem = m.mem /\ n.used = m.used \cup {f}
        /\ f \in Frames /\ f \notin m.used
    BY <1>1, <1>2, ClaimFacts, AllocFacts
  <1>4. \A g \in m.used : Q[g] = O[g] /\ g \in n.used
    BY <1>2, <1>3
  <1>5. Q[f].kind = "loose"
    BY <1>3, UseFacts
  <1>6. Roots(Q, n, R, p, k)
    BY <1>4 DEF Owned, Roots
  <1>7. TablesOwned(Q, n, R, p)
    BY <1>3, <1>4 DEF Owned, TablesOwned
  <1>8. PagesOwned(Q, n, R, p, G)
    <2>1. \A s, v : /\ Present(n, p[s], v) <=> Present(m, p[s], v)
                    /\ FrameOf(n, p[s], v) = FrameOf(m, p[s], v)
      BY <1>3 DEF Present, FrameOf
    <2> QED
      BY <1>4, <2>1 DEF Owned, PagesOwned
  <1>9. AllOwned(Q, n, R, p, k, G)
    <2>1. SUFFICES ASSUME NEW g \in n.used, Q[g].kind # "loose"
                   PROVE  \E s \in R : Serves(g, n, s, p, k, G)
      BY DEF AllOwned
    <2>2. g \in m.used /\ O[g].kind # "loose"
      BY <2>1, <1>3, <1>4, <1>5
    <2>3. PICK s \in R : Serves(g, m, s, p, k, G)
      BY <2>2 DEF Owned, AllOwned
    <2>4. Serves(g, n, s, p, k, G)
      BY <2>3, <1>3 DEF Serves, FrameOf
    <2> QED
      BY <2>4
  <1> QED
    BY <1>1, <1>3, <1>4, <1>5, <1>6, <1>7, <1>8, <1>9 DEF Owned

\* A missing table is put in its directory.
LEMMA TableOwned ==
    ASSUME NEW O, NEW m, NEW R, NEW p, NEW k, NEW G, Owned(O, m, R, p, k, G),
           NEW s \in R, NEW t \in TableNos, m.mem[p[s]][t] = Absent,
           NEW f \in m.used, O[f].kind = "loose",
           NEW n, Wrote(m, n, p[s], t, f),
           NEW Q, Q = [g \in Frames |-> IF g = f THEN TableOf(s, t) ELSE O[g]]
    PROVE  /\ Owned(Q, n, R, p, k, G)
           /\ n.mem[p[s]][t] = f /\ n.used = m.used
  <1>1. m \in Mach /\ m.used \subseteq Frames /\ p[s] \in Frames /\ t \in Indices /\ f \in Frames
    BY Numbers DEF Owned, Mach, Roots
  <1>2. /\ n \in Mach /\ n.used = m.used /\ n.mem[p[s]][t] = f
        /\ \A b \in Frames : \A j \in Indices : b # p[s] \/ j # t => n.mem[b][j] = m.mem[b][j]
        /\ \A b \in Frames : b # p[s] => n.mem[b] = m.mem[b]
    <2>1. PICK a : a = p[s]
      OBVIOUS
    <2>2. a \in Frames /\ Wrote(m, n, a, t, f)
      BY <2>1, <1>1
    <2>3. /\ n \in Mach /\ n.used = m.used /\ n.mem[a][t] = f
          /\ \A b \in Frames : \A j \in Indices : b # a \/ j # t => n.mem[b][j] = m.mem[b][j]
          /\ \A b \in Frames : b # a => n.mem[b] = m.mem[b]
      BY <1>1, <2>2, WroteFacts, Numbers
    <2> QED
      BY <2>1, <2>3
  <1>3. \A g \in m.used : g # f => Q[g] = O[g]
    BY <1>1
  <1>4. Q[f] = TableOf(s, t)
    BY <1>1
  <1>5. Roots(Q, n, R, p, k)
    BY <1>2, <1>3, UseFacts DEF Owned, Roots
  <1>6. ASSUME NEW q \in R, NEW u \in TableNos, q # s \/ u # t
        PROVE  n.mem[p[q]][u] = m.mem[p[q]][u]
    <2>1. p[q] \in Frames /\ u \in Indices
      BY Numbers, <1>1 DEF Owned, Roots
    <2>2. p[q] # p[s] \/ u # t
      BY <1>6, UseFacts DEF Owned, Roots
    <2> QED
      BY <2>1, <2>2, <1>2
  <1>7. TablesOwned(Q, n, R, p)
    <2>1. SUFFICES ASSUME NEW q \in R, NEW u \in TableNos, n.mem[p[q]][u] # Absent
                   PROVE  n.mem[p[q]][u] \in n.used /\ Q[n.mem[p[q]][u]] = TableOf(q, u)
      BY DEF TablesOwned
    <2>2. CASE q = s /\ u = t
      BY <2>2, <1>2, <1>4
    <2>3. CASE q # s \/ u # t
      <3>1. n.mem[p[q]][u] = m.mem[p[q]][u]
        BY <2>3, <1>6
      <3>2. m.mem[p[q]][u] \in m.used /\ O[m.mem[p[q]][u]] = TableOf(q, u)
        BY <2>1, <3>1 DEF Owned, TablesOwned
      <3>3. m.mem[p[q]][u] # f
        BY <3>2, UseFacts
      <3> QED
        BY <3>1, <3>2, <3>3, <1>2, <1>3
    <2> QED
      BY <2>2, <2>3
  <1>8. ASSUME NEW q \in R, NEW v \in G[q]
        PROVE  /\ n.mem[p[q]][v \div PerTable] = m.mem[p[q]][v \div PerTable]
               /\ FrameOf(n, p[q], v) = FrameOf(m, p[q], v)
    <2>1. /\ v \div PerTable \in TableNos /\ v % PerTable \in Indices
          /\ m.mem[p[q]][v \div PerTable] \in Frames
          /\ O[m.mem[p[q]][v \div PerTable]] = TableOf(q, v \div PerTable)
          /\ m.mem[p[q]][v \div PerTable] # Absent
      BY GivenFacts
    <2>2. q # s \/ v \div PerTable # t
      BY <2>1
    <2>3. n.mem[p[q]][v \div PerTable] = m.mem[p[q]][v \div PerTable]
      BY <2>1, <2>2, <1>6
    <2>4. m.mem[p[q]][v \div PerTable] # p[s]
      BY <2>1, UseFacts DEF Owned, Roots
    <2> QED
      BY <2>1, <2>3, <2>4, <1>2 DEF FrameOf
  <1>9. PagesOwned(Q, n, R, p, G)
    <2>1. SUFFICES ASSUME NEW q \in R, NEW v \in G[q]
                   PROVE  /\ v \in UserPages /\ Present(n, p[q], v)
                          /\ FrameOf(n, p[q], v) \in n.used
                          /\ Q[FrameOf(n, p[q], v)] = PageOf(q, v)
      BY DEF PagesOwned
    <2>2. /\ v \in UserPages /\ m.mem[p[q]][v \div PerTable] # Absent
          /\ FrameOf(m, p[q], v) # Absent /\ FrameOf(m, p[q], v) \in m.used
          /\ O[FrameOf(m, p[q], v)] = PageOf(q, v)
      BY GivenFacts
    <2>3. FrameOf(m, p[q], v) # f
      BY <2>2, UseFacts
    <2>4. FrameOf(n, p[q], v) \in n.used /\ Q[FrameOf(n, p[q], v)] = PageOf(q, v)
      BY <2>2, <2>3, <1>2, <1>3, <1>8
    <2>5. Present(n, p[q], v)
      BY <2>2, <1>8 DEF Present, FrameOf
    <2> QED
      BY <2>2, <2>4, <2>5
  <1>10. AllOwned(Q, n, R, p, k, G)
    <2>1. SUFFICES ASSUME NEW g \in n.used, Q[g].kind # "loose"
                   PROVE  \E q \in R : Serves(g, n, q, p, k, G)
      BY DEF AllOwned
    <2>2. CASE g = f
      BY <2>2, <1>2 DEF Serves
    <2>3. CASE g # f
      <3>1. g \in m.used /\ O[g].kind # "loose" /\ g \in Frames
        BY <2>1, <2>3, <1>1, <1>2, <1>3
      <3>2. PICK q \in R : Serves(g, m, q, p, k, G)
        BY <3>1 DEF Owned, AllOwned
      <3>3. Serves(g, n, q, p, k, G)
        <4>1. CASE g = p[q] \/ g = k[q]
          BY <4>1 DEF Serves
        <4>2. CASE \E u \in TableNos : g = m.mem[p[q]][u]
          <5>1. PICK u \in TableNos : g = m.mem[p[q]][u]
            BY <4>2
          <5>2. q # s \/ u # t
            BY <5>1, <3>1, Numbers
          <5> QED
            BY <5>1, <5>2, <1>6 DEF Serves
        <4>3. CASE \E v \in G[q] : g = FrameOf(m, p[q], v)
          BY <4>3, <1>8 DEF Serves
        <4> QED
          BY <3>2, <4>1, <4>2, <4>3 DEF Serves
      <3> QED
        BY <3>3
    <2> QED
      BY <2>2, <2>3
  <1> QED
    BY <1>2, <1>5, <1>7, <1>9, <1>10 DEF Owned

\* G with the pages V given to s.
Gives(H, G, R, s, V) == \A q \in R : H[q] = IF q = s THEN G[q] \cup V ELSE G[q]

\* A loose frame is put in the table, for a page not yet given.
LEMMA PageOwned ==
    ASSUME NEW O, NEW m, NEW R, NEW p, NEW k, NEW G, Owned(O, m, R, p, k, G),
           NEW s \in R, NEW v \in UserPages, v \notin G[s],
           NEW a, a = m.mem[p[s]][v \div PerTable], a # Absent,
           NEW f \in m.used, O[f].kind = "loose",
           NEW n, Wrote(m, n, a, v % PerTable, f),
           NEW H, Gives(H, G, R, s, {v}),
           NEW Q, Q = [g \in Frames |-> IF g = f THEN PageOf(s, v) ELSE O[g]]
    PROVE  /\ Owned(Q, n, R, p, k, H)
           /\ n.used = m.used /\ n.oom = m.oom
  <1>0. \A q \in R : H[q] = IF q = s THEN G[q] \cup {v} ELSE G[q]
    BY DEF Gives
  <1>1. /\ m \in Mach /\ m.used \subseteq Frames /\ p[s] \in Frames /\ f \in Frames
        /\ v \div PerTable \in TableNos /\ v % PerTable \in Indices
    BY PageFacts DEF Owned, Mach, Roots
  <1>2. a \in m.used /\ a \in Frames /\ O[a] = TableOf(s, v \div PerTable)
    BY <1>1 DEF Owned, TablesOwned
  <1>3. /\ n \in Mach /\ n.used = m.used /\ n.oom = m.oom /\ n.mem[a][v % PerTable] = f
        /\ \A b \in Frames : \A j \in Indices : b # a \/ j # v % PerTable => n.mem[b][j] = m.mem[b][j]
        /\ \A b \in Frames : b # a => n.mem[b] = m.mem[b]
    <2>1. PICK i : i = v % PerTable
      OBVIOUS
    <2>2. /\ m \in Mach /\ a \in Frames /\ f \in Word /\ i \in Indices
          /\ Wrote(m, n, a, i, f)
      BY <2>1, <1>1, <1>2, Numbers
    <2>3. /\ n \in Mach /\ n.used = m.used /\ n.oom = m.oom /\ n.mem[a][i] = f
          /\ \A b \in Frames : \A j \in Indices : b # a \/ j # i => n.mem[b][j] = m.mem[b][j]
          /\ \A b \in Frames : b # a => n.mem[b] = m.mem[b]
      <3>1. n \in Mach /\ n.used = m.used /\ n.oom = m.oom /\ n.mem[a][i] = f
        BY ONLY <2>2, WroteFacts
      <3>2. \A b \in Frames : \A j \in Indices : b # a \/ j # i => n.mem[b][j] = m.mem[b][j]
        BY ONLY <2>2, WroteFacts
      <3>3. \A b \in Frames : b # a => n.mem[b] = m.mem[b]
        BY ONLY <2>2, WroteFacts
      <3> QED
        BY ONLY <3>1, <3>2, <3>3
    <2> QED
      BY <2>1, <2>3
  <1>4. \A g \in m.used : g # f => Q[g] = O[g]
    BY <1>1
  <1>5. Q[f] = PageOf(s, v)
    BY <1>1
  <1>6. Roots(Q, n, R, p, k)
    BY <1>3, <1>4, UseFacts, SMTT(30) DEF Owned, Roots
  <1>7. ASSUME NEW q \in R PROVE p[q] \in Frames /\ p[q] # a /\ n.mem[p[q]] = m.mem[p[q]]
    <2>1. p[q] \in Frames /\ p[q] # a
      BY <1>1, <1>2, UseFacts DEF Owned, Roots
    <2> QED
      BY <2>1, <1>3
  <1>8. TablesOwned(Q, n, R, p)
    <2>1. SUFFICES ASSUME NEW q \in R, NEW u \in TableNos, n.mem[p[q]][u] # Absent
                   PROVE  n.mem[p[q]][u] \in n.used /\ Q[n.mem[p[q]][u]] = TableOf(q, u)
      BY DEF TablesOwned
    <2>2. n.mem[p[q]][u] = m.mem[p[q]][u]
      BY <1>7
    <2>3. m.mem[p[q]][u] \in m.used /\ O[m.mem[p[q]][u]] = TableOf(q, u)
      BY <2>1, <2>2 DEF Owned, TablesOwned
    <2>4. m.mem[p[q]][u] # f
      BY <2>3, UseFacts
    <2> QED
      BY <2>2, <2>3, <2>4, <1>3, <1>4
  <1>9. ASSUME NEW q \in R, NEW w \in G[q]
        PROVE  FrameOf(n, p[q], w) = FrameOf(m, p[q], w)
    <2>1. /\ w \in UserPages /\ w % PerTable \in Indices
          /\ m.mem[p[q]][w \div PerTable] \in Frames
          /\ O[m.mem[p[q]][w \div PerTable]] = TableOf(q, w \div PerTable)
      BY GivenFacts, SMTT(30)
    <2>2. CASE m.mem[p[q]][w \div PerTable] = a
      <3>1. q = s /\ w \div PerTable = v \div PerTable
        BY <2>1, <2>2, <1>2, UseFacts
      <3>2. w # v
        BY <3>1
      <3>3. w % PerTable # v % PerTable
        BY <3>1, <3>2, <2>1, PlaceIsPage
      <3>4. n.mem[a][w % PerTable] = m.mem[a][w % PerTable]
        BY <3>3, <2>1, <1>2, <1>3
      <3> QED
        BY <3>4, <2>2, <1>7 DEF FrameOf
    <2>3. CASE m.mem[p[q]][w \div PerTable] # a
      BY <2>1, <2>3, <1>3, <1>7 DEF FrameOf
    <2> QED
      BY <2>2, <2>3
  <1>10. FrameOf(n, p[s], v) = f /\ n.mem[p[s]][v \div PerTable] = a
    BY <1>3, <1>7 DEF FrameOf
  <1>11. PagesOwned(Q, n, R, p, H)
    <2>1. SUFFICES ASSUME NEW q \in R, NEW w \in H[q]
                   PROVE  /\ w \in UserPages /\ Present(n, p[q], w)
                          /\ FrameOf(n, p[q], w) \in n.used
                          /\ Q[FrameOf(n, p[q], w)] = PageOf(q, w)
      BY DEF PagesOwned
    <2>2. CASE q = s /\ w = v
      <3>1. f # Absent
        BY <1>1, Numbers
      <3>2. Present(n, p[q], w)
        BY <2>2, <1>10, <3>1 DEF Present, FrameOf
      <3> QED
        BY <2>2, <3>2, <1>3, <1>5, <1>10
    <2>3. CASE w \in G[q]
      <3>1. /\ w \in UserPages /\ m.mem[p[q]][w \div PerTable] # Absent
            /\ FrameOf(m, p[q], w) # Absent /\ FrameOf(m, p[q], w) \in m.used
            /\ O[FrameOf(m, p[q], w)] = PageOf(q, w)
        BY <2>3, GivenFacts
      <3>2. FrameOf(m, p[q], w) # f
        BY <3>1, UseFacts
      <3>3. FrameOf(n, p[q], w) \in n.used /\ Q[FrameOf(n, p[q], w)] = PageOf(q, w)
        BY <2>3, <3>1, <3>2, <1>3, <1>4, <1>9, SMTT(30)
      <3>4. FrameOf(n, p[q], w) # Absent /\ n.mem[p[q]][w \div PerTable] # Absent
        BY <2>3, <3>1, <1>7, <1>9
      <3>5. Present(n, p[q], w)
        BY <3>4 DEF Present, FrameOf
      <3> QED
        BY <3>1, <3>3, <3>5
    <2> QED
      BY <2>1, <2>2, <2>3, <1>0
  <1>12. AllOwned(Q, n, R, p, k, H)
    <2>1. SUFFICES ASSUME NEW g \in n.used, Q[g].kind # "loose"
                   PROVE  \E q \in R : Serves(g, n, q, p, k, H)
      BY DEF AllOwned
    <2>2. CASE g = f
      <3>1. v \in H[s]
        BY <1>0
      <3> QED
        BY <2>2, <3>1, <1>10 DEF Serves
    <2>3. CASE g # f
      <3>1. g \in m.used /\ O[g].kind # "loose"
        BY <2>1, <2>3, <1>3, <1>4
      <3>2. PICK q \in R : Serves(g, m, q, p, k, G)
        BY <3>1 DEF Owned, AllOwned
      <3>3. G[q] \subseteq H[q]
        BY <1>0
      <3>4. Serves(g, n, q, p, k, H)
        BY <3>2, <3>3, <1>7, <1>9 DEF Serves
      <3> QED
        BY <3>4
    <2> QED
      BY <2>2, <2>3
  <1> QED
    BY <1>3, <1>6, <1>8, <1>11, <1>12 DEF Owned

\* Frame a is cleared.
Cleared(m, n, a) == n = [m EXCEPT !.mem[a] = Blank]

\* Only words of frame a are changed.
OnlyIn(m, n, a) == /\ n \in Mach /\ n.used = m.used /\ n.oom = m.oom
                   /\ \A b \in Frames : b # a => n.mem[b] = m.mem[b]

\* Words are changed in a frame that is no directory and no table.
LEMMA DataOwned ==
    ASSUME NEW O, NEW m, NEW R, NEW p, NEW k, NEW G, Owned(O, m, R, p, k, G),
           NEW a \in m.used, O[a].kind \in {"loose", "page", "ks"},
           NEW n, OnlyIn(m, n, a)
    PROVE  Owned(O, n, R, p, k, G)
  <1>1. m \in Mach /\ a \in Frames /\ m.used \subseteq Frames
    BY DEF Owned, Mach
  <1>3. /\ n \in Mach /\ n.used = m.used /\ n.oom = m.oom
        /\ \A b \in Frames : b # a => n.mem[b] = m.mem[b]
    BY DEF OnlyIn
  <1>4. ASSUME NEW q \in R PROVE n.mem[p[q]] = m.mem[p[q]]
    <2>1. p[q] \in Frames /\ p[q] # a
      BY <1>1, UseFacts DEF Owned, Roots
    <2> QED
      BY <2>1, <1>3
  <1>5. ASSUME NEW q \in R, NEW w \in UserPages, m.mem[p[q]][w \div PerTable] # Absent
        PROVE  FrameOf(n, p[q], w) = FrameOf(m, p[q], w)
    <2>1. PICK b : b = m.mem[p[q]][w \div PerTable]
      OBVIOUS
    <2>2. b \in Frames /\ b # a
      BY <2>1, <1>1, <1>5, PageFacts, UseFacts DEF Owned, TablesOwned
    <2> QED
      BY <2>1, <2>2, <1>3, <1>4 DEF FrameOf
  <1>6. \A q \in R : \A w \in UserPages : Present(n, p[q], w) <=> Present(m, p[q], w)
    BY <1>4, <1>5 DEF Present, FrameOf
  <1>7. Roots(O, n, R, p, k) /\ TablesOwned(O, n, R, p)
    BY <1>3, <1>4 DEF Owned, Roots, TablesOwned
  <1>8. ASSUME NEW q \in R, NEW w \in G[q] PROVE FrameOf(n, p[q], w) = FrameOf(m, p[q], w)
    BY <1>5, GivenFacts
  <1>9. PagesOwned(O, n, R, p, G)
    BY <1>3, <1>6, <1>8 DEF Owned, PagesOwned
  <1>10. AllOwned(O, n, R, p, k, G)
    <2>1. SUFFICES ASSUME NEW g \in n.used, O[g].kind # "loose"
                   PROVE  \E q \in R : Serves(g, n, q, p, k, G)
      BY DEF AllOwned
    <2>2. PICK q \in R : Serves(g, m, q, p, k, G)
      BY <2>1, <1>3 DEF Owned, AllOwned
    <2>3. Serves(g, n, q, p, k, G)
      BY <2>2, <1>4, <1>8 DEF Serves
    <2> QED
      BY <2>3
  <1> QED
    BY <1>3, <1>7, <1>9, <1>10 DEF Owned

\* A frame that is no directory and no table is cleared.
LEMMA BlankOwned ==
    ASSUME NEW O, NEW m, NEW R, NEW p, NEW k, NEW G, Owned(O, m, R, p, k, G),
           NEW a \in m.used, O[a].kind \in {"loose", "page"},
           NEW n, Cleared(m, n, a)
    PROVE  /\ Owned(O, n, R, p, k, G)
           /\ n.used = m.used /\ n.oom = m.oom /\ n.mem[a] = Blank
  <1>1. m \in Mach /\ a \in Frames
    BY DEF Owned, Mach
  <1>2. Blank \in [Indices -> Word]
    BY DEF Blank, Indices, Word
  <1>3. /\ n \in Mach /\ n.used = m.used /\ n.oom = m.oom /\ n.mem[a] = Blank
        /\ \A b \in Frames : b # a => n.mem[b] = m.mem[b]
    <2>1. PICK r : r = [m.mem EXCEPT ![a] = Blank]
      OBVIOUS
    <2>2. r \in [Frames -> [Indices -> Word]]
      BY <2>1, <1>1, <1>2 DEF Mach
    <2>3. n = [m EXCEPT !.mem = r]
      BY <2>1, <1>1 DEF Mach, Cleared
    <2>4. n \in Mach /\ n.used = m.used /\ n.oom = m.oom /\ n.mem = r
      BY <2>2, <2>3, <1>1 DEF Mach
    <2> QED
      BY <2>1, <2>4, <1>1 DEF Mach
  <1>4. OnlyIn(m, n, a)
    BY <1>3 DEF OnlyIn
  <1>5. O[a].kind \in {"loose", "page", "ks"}
    OBVIOUS
  <1> QED
    BY <1>3, <1>4, <1>5, DataOwned

\* Two functions that are the same on the processes R.
Agree(f, g, R) == \A q \in R : f[q] = g[q]

\* A process begins: two loose frames, one of them cleared, become its directory
\* and its kernel stack.
LEMMA NewOwned ==
    ASSUME NEW O, NEW m, NEW R, NEW p, NEW k, NEW G, Owned(O, m, R, p, k, G),
           NEW s, s \notin R,
           NEW a \in m.used, NEW b \in m.used, a # b, O[a].kind = "loose", O[b].kind = "loose",
           m.mem[a] = Blank,
           NEW p2, Agree(p2, p, R), p2[s] = a,
           NEW k2, Agree(k2, k, R), k2[s] = b,
           NEW H, Agree(H, G, R), H[s] = {},
           NEW Q, Q = [g \in Frames |-> IF g = a THEN PdOf(s) ELSE IF g = b THEN KsOf(s) ELSE O[g]]
    PROVE  /\ Owned(Q, m, R \cup {s}, p2, k2, H)
  <1>0. \A q \in R : p2[q] = p[q] /\ k2[q] = k[q] /\ H[q] = G[q]
    BY DEF Agree
  <1>1. m \in Mach /\ m.used \subseteq Frames /\ a \in Frames /\ b \in Frames
    BY DEF Owned, Mach
  <1>2. \A g \in m.used : g # a /\ g # b => Q[g] = O[g]
    BY <1>1
  <1>3. Q[a] = PdOf(s) /\ Q[b] = KsOf(s)
    BY <1>1
  <1>4. \A i \in Indices : m.mem[a][i] = Absent
    BY DEF Blank, Indices
  <1>5. Roots(Q, m, R \cup {s}, p2, k2)
    <2>1. SUFFICES ASSUME NEW q \in R \cup {s}
                   PROVE  /\ p2[q] \in m.used /\ Q[p2[q]] = PdOf(q)
                          /\ k2[q] \in m.used /\ Q[k2[q]] = KsOf(q)
      BY DEF Roots
    <2>2. CASE q = s
      BY <2>2, <1>3
    <2>3. CASE q \in R
      <3>1. /\ p[q] \in m.used /\ O[p[q]] = PdOf(q) /\ k[q] \in m.used /\ O[k[q]] = KsOf(q)
        BY <2>3 DEF Owned, Roots
      <3>2. p[q] # a /\ p[q] # b /\ k[q] # a /\ k[q] # b
        BY <3>1, UseFacts
      <3> QED
        BY <2>3, <3>1, <3>2, <1>0, <1>2
    <2> QED
      BY <2>2, <2>3
  <1>6. TablesOwned(Q, m, R \cup {s}, p2)
    <2>1. SUFFICES ASSUME NEW q \in R \cup {s}, NEW u \in TableNos, m.mem[p2[q]][u] # Absent
                   PROVE  m.mem[p2[q]][u] \in m.used /\ Q[m.mem[p2[q]][u]] = TableOf(q, u)
      BY DEF TablesOwned
    <2>2. q # s
      BY <2>1, <1>4, Numbers
    <2>3. /\ m.mem[p[q]][u] \in m.used /\ O[m.mem[p[q]][u]] = TableOf(q, u) /\ p2[q] = p[q]
      BY <2>1, <2>2, <1>0 DEF Owned, TablesOwned
    <2>4. m.mem[p[q]][u] # a /\ m.mem[p[q]][u] # b
      BY <2>3, UseFacts
    <2> QED
      BY <2>3, <2>4, <1>2
  <1>7. PagesOwned(Q, m, R \cup {s}, p2, H)
    <2>1. SUFFICES ASSUME NEW q \in R \cup {s}, NEW w \in H[q]
                   PROVE  /\ w \in UserPages /\ Present(m, p2[q], w)
                          /\ FrameOf(m, p2[q], w) \in m.used
                          /\ Q[FrameOf(m, p2[q], w)] = PageOf(q, w)
      BY DEF PagesOwned
    <2>2. q # s /\ q \in R /\ w \in G[q] /\ p2[q] = p[q]
      BY <2>1, <1>0
    <2>3. /\ w \in UserPages /\ Present(m, p[q], w) /\ FrameOf(m, p[q], w) \in m.used
          /\ O[FrameOf(m, p[q], w)] = PageOf(q, w)
      BY <2>2 DEF Owned, PagesOwned
    <2>4. FrameOf(m, p[q], w) # a /\ FrameOf(m, p[q], w) # b
      BY <2>3, UseFacts
    <2> QED
      BY <2>2, <2>3, <2>4, <1>2
  <1>8. AllOwned(Q, m, R \cup {s}, p2, k2, H)
    <2>1. SUFFICES ASSUME NEW g \in m.used, Q[g].kind # "loose"
                   PROVE  \E q \in R \cup {s} : Serves(g, m, q, p2, k2, H)
      BY DEF AllOwned
    <2>2. CASE g = a \/ g = b
      BY <2>2 DEF Serves
    <2>3. CASE g # a /\ g # b
      <3>1. O[g].kind # "loose"
        BY <2>1, <2>3, <1>2
      <3>2. PICK q \in R : Serves(g, m, q, p, k, G)
        BY <3>1 DEF Owned, AllOwned
      <3>3. Serves(g, m, q, p2, k2, H)
        BY <3>2, <1>0 DEF Serves
      <3> QED
        BY <3>3
    <2> QED
      BY <2>2, <2>3
  <1> QED
    BY <1>1, <1>5, <1>6, <1>7, <1>8 DEF Owned

\* G with the pages V taken from s.
Takes(H, G, R, s, V) == \A q \in R : H[q] = IF q = s THEN G[q] \ V ELSE G[q]

\* Pages that were given are taken away.
LEMMA UnmapOwned ==
    ASSUME NEW O, NEW m, NEW R, NEW p, NEW k, NEW G, Owned(O, m, R, p, k, G),
           NEW s \in R, NEW from \in Nat, NEW to \in Nat, from..(to - 1) \subseteq G[s],
           NEW n, n = syscall_unmap_pages(m, p[s], from, to),
           NEW H, Takes(H, G, R, s, from..(to - 1))
    PROVE  /\ Owned(O, n, R, p, k, H)
           /\ n.used \subseteq m.used /\ n.oom = m.oom
  <1>0. \A q \in R : H[q] = IF q = s THEN G[q] \ (from..(to - 1)) ELSE G[q]
    BY DEF Takes
  <1>1. m \in Mach /\ m.used \subseteq Frames
    BY DEF Owned, Mach
  <1>2. PICK gone : gone = from..(to - 1)
    OBVIOUS
  <1>3. {v \in from..(to - 1) : Present(m, p[s], v)} = gone
    BY <1>2 DEF Owned, PagesOwned
  <1>4. PICK freed : freed = {FrameOf(m, p[s], v) : v \in gone}
    OBVIOUS
  <1>5. PICK r : r = [f \in Frames |-> [i \in Indices |->
                        IF \E v \in gone : f = m.mem[p[s]][v \div PerTable] /\ i = v % PerTable
                        THEN Absent ELSE m.mem[f][i]]]
    OBVIOUS
  <1>6. n = [m EXCEPT !.used = m.used \ freed, !.mem = r]
    BY <1>3, <1>4, <1>5 DEF syscall_unmap_pages, Indices
  <1>7. r \in [Frames -> [Indices -> Word]]
    BY <1>1, <1>5, Numbers DEF Mach
  <1>8. n \in Mach /\ n.used = m.used \ freed /\ n.mem = r /\ n.oom = m.oom
    BY <1>1, <1>6, <1>7 DEF Mach
  <1>9. ASSUME NEW v \in gone
        PROVE  /\ v \in G[s] /\ v \in UserPages
               /\ O[m.mem[p[s]][v \div PerTable]] = TableOf(s, v \div PerTable)
               /\ O[FrameOf(m, p[s], v)] = PageOf(s, v)
    BY <1>2, GivenFacts
  <1>10. ASSUME NEW f \in Frames, NEW i \in Indices,
                ~ \E v \in gone : f = m.mem[p[s]][v \div PerTable] /\ i = v % PerTable
         PROVE  r[f][i] = m.mem[f][i]
    BY <1>5, <1>10
  <1>11. ASSUME NEW f \in Frames, NEW i \in Indices, r[f][i] # Absent
         PROVE  /\ r[f][i] = m.mem[f][i]
                /\ ~ \E v \in gone : f = m.mem[p[s]][v \div PerTable] /\ i = v % PerTable
    BY <1>5, <1>11
  <1>12. ASSUME NEW f \in Frames, O[f].kind # "table" PROVE r[f] = m.mem[f]
    <2>1. \A v \in gone : f # m.mem[p[s]][v \div PerTable]
      BY <1>9, <1>12, UseFacts
    <2>2. \A i \in Indices : r[f][i] = m.mem[f][i]
      BY <1>10, <2>1
    <2>3. r[f] \in [Indices -> Word] /\ m.mem[f] \in [Indices -> Word]
      BY <1>1, <1>7 DEF Mach
    <2> QED
      BY <2>2, <2>3
  <1>13. ASSUME NEW q \in R PROVE p[q] \in Frames /\ r[p[q]] = m.mem[p[q]]
    <2>1. p[q] \in Frames /\ O[p[q]].kind # "table"
      BY <1>1, UseFacts DEF Owned, Roots
    <2> QED
      BY <2>1, <1>12
  <1>14. ASSUME NEW f \in m.used, O[f].kind # "page" PROVE f \in n.used
    BY <1>4, <1>8, <1>9, <1>14, UseFacts
  <1>15. Roots(O, n, R, p, k)
    BY <1>14, UseFacts DEF Owned, Roots
  <1>16. TablesOwned(O, n, R, p)
    <2>1. SUFFICES ASSUME NEW q \in R, NEW u \in TableNos, n.mem[p[q]][u] # Absent
                   PROVE  n.mem[p[q]][u] \in n.used /\ O[n.mem[p[q]][u]] = TableOf(q, u)
      BY DEF TablesOwned
    <2>2. n.mem[p[q]][u] = m.mem[p[q]][u]
      BY <1>8, <1>13
    <2>3. m.mem[p[q]][u] \in m.used /\ O[m.mem[p[q]][u]] = TableOf(q, u)
      BY <2>1, <2>2 DEF Owned, TablesOwned
    <2> QED
      BY <2>2, <2>3, <1>14, UseFacts
  <1>17. ASSUME NEW q \in R, NEW w \in H[q]
         PROVE  /\ w \in G[q] /\ FrameOf(n, p[q], w) = FrameOf(m, p[q], w)
                /\ n.mem[p[q]][w \div PerTable] = m.mem[p[q]][w \div PerTable]
    <2>1. w \in G[q] /\ (q = s => w \notin gone)
      BY <1>0, <1>2
    <2>2. /\ w \in UserPages /\ w % PerTable \in Indices
          /\ m.mem[p[q]][w \div PerTable] \in Frames
          /\ O[m.mem[p[q]][w \div PerTable]] = TableOf(q, w \div PerTable)
      BY <2>1, GivenFacts
    <2>3. PICK b : b = m.mem[p[q]][w \div PerTable]
      OBVIOUS
    <2>4. ASSUME NEW v \in gone, b = m.mem[p[s]][v \div PerTable], w % PerTable = v % PerTable
          PROVE  FALSE
      <3>1. q = s /\ v \div PerTable = w \div PerTable
        BY <2>2, <2>3, <2>4, <1>9, UseFacts
      <3>2. v = w
        BY <3>1, <2>2, <2>4, <1>9, PlaceIsPage
      <3> QED
        BY <3>1, <3>2, <2>1
    <2>5. r[b][w % PerTable] = m.mem[b][w % PerTable]
      BY <2>2, <2>3, <2>4, <1>10
    <2>6. n.mem[p[q]][w \div PerTable] = b
      BY <2>3, <1>8, <1>13
    <2> QED
      BY <2>1, <2>3, <2>5, <2>6, <1>8 DEF FrameOf
  <1>18. PagesOwned(O, n, R, p, H)
    <2>1. SUFFICES ASSUME NEW q \in R, NEW w \in H[q]
                   PROVE  /\ w \in UserPages /\ Present(n, p[q], w)
                          /\ FrameOf(n, p[q], w) \in n.used
                          /\ O[FrameOf(n, p[q], w)] = PageOf(q, w)
      BY DEF PagesOwned
    <2>2. /\ w \in G[q] /\ FrameOf(n, p[q], w) = FrameOf(m, p[q], w)
          /\ n.mem[p[q]][w \div PerTable] = m.mem[p[q]][w \div PerTable]
      BY <1>17
    <2>3. /\ w \in UserPages /\ m.mem[p[q]][w \div PerTable] # Absent
          /\ FrameOf(m, p[q], w) # Absent /\ FrameOf(m, p[q], w) \in m.used
          /\ O[FrameOf(m, p[q], w)] = PageOf(q, w)
      BY <2>2, GivenFacts
    <2>4. Present(n, p[q], w)
      BY <2>2, <2>3 DEF Present, FrameOf
    <2>5. FrameOf(m, p[q], w) \notin freed
      <3>1. SUFFICES ASSUME NEW v \in gone, FrameOf(m, p[q], w) = FrameOf(m, p[s], v)
                     PROVE  FALSE
        BY <1>4
      <3>2. q = s /\ w = v
        BY <3>1, <2>3, <1>9, UseFacts
      <3> QED
        BY <3>2, <1>0, <1>2
    <2> QED
      BY <2>2, <2>3, <2>4, <2>5, <1>8
  <1>19. AllOwned(O, n, R, p, k, H)
    <2>1. SUFFICES ASSUME NEW g \in n.used, O[g].kind # "loose"
                   PROVE  \E q \in R : Serves(g, n, q, p, k, H)
      BY DEF AllOwned
    <2>2. PICK q \in R : Serves(g, m, q, p, k, G)
      BY <2>1, <1>8 DEF Owned, AllOwned
    <2>3. CASE \E v \in G[q] : g = FrameOf(m, p[q], v)
      <3>1. PICK v \in G[q] : g = FrameOf(m, p[q], v)
        BY <2>3
      <3>2. q = s => v \notin gone
        BY <3>1, <2>1, <1>4, <1>8
      <3>3. v \in H[q]
        BY <3>1, <3>2, <1>0, <1>2
      <3>4. g = FrameOf(n, p[q], v)
        BY <3>1, <3>3, <1>17
      <3> QED
        BY <3>3, <3>4 DEF Serves
    <2>4. CASE g = p[q] \/ g = k[q] \/ \E t \in TableNos : g = m.mem[p[q]][t]
      BY <2>4, <1>8, <1>13 DEF Serves
    <2> QED
      BY <2>2, <2>3, <2>4 DEF Serves
  <1> QED
    BY <1>8, <1>15, <1>16, <1>18, <1>19 DEF Owned

-----------------------------------------------------------------------------
(* One page, and several *)

\* What paging_map writes: the entry, after the table where there was none.
LEMMA MapPageCases ==
    ASSUME NEW m \in Mach, ~ m.oom, NEW pd \in Frames, NEW v \in UserPages,
           NEW n, n = MapPage(m, pd, v), NEW c, c = Claim(m), NEW f, f = fa_alloc(m),
           NEW t, t = v \div PerTable, NEW i, i = v % PerTable
    PROVE  \/ n \in Mach /\ n.oom
           \/ /\ m.used # Frames
              /\ \/ c.mem[pd][t] # Absent /\ Wrote(c, n, c.mem[pd][t], i, f)
                 \/ /\ c.mem[pd][t] = Absent /\ c.used # Frames
                    /\ \E e : /\ Wrote(Claim(c), e, pd, t, fa_alloc(c))
                              /\ Wrote(e, n, fa_alloc(c), i, f)
  <1>1. t \in Indices /\ i \in Indices
    BY PageFacts
  <1>2. c \in Mach /\ c.mem = m.mem /\ (c.oom <=> m.used = Frames)
    BY ClaimFacts
  <1>3. CASE m.used = Frames
    <2>1. n = [m EXCEPT !.oom = TRUE]
      BY <1>2, <1>3 DEF MapPage
    <2> QED
      BY <2>1 DEF Mach
  <1>4. CASE m.used # Frames
    <2>1. n = paging_map(c, pd, f, v) /\ ~ c.oom
      BY <1>2, <1>4 DEF MapPage
    <2>2. CASE c.mem[pd][t] # Absent
      <3>1. n = [c EXCEPT !.mem[c.mem[pd][t]][i] = f]
        BY <2>1, <2>2 DEF paging_map
      <3> QED
        BY <3>1, <1>4, <2>2 DEF Wrote
    <2>3. CASE c.mem[pd][t] = Absent /\ c.used = Frames
      <3>1. Claim(c).oom /\ Claim(c) \in Mach
        BY <1>2, <2>1, <2>3, ClaimFacts
      <3>2. n = Claim(c)
        BY <2>1, <2>3, <3>1 DEF paging_map
      <3> QED
        BY <3>1, <3>2
    <2>4. CASE c.mem[pd][t] = Absent /\ c.used # Frames
      <3>1. PICK d : d = Claim(c)
        OBVIOUS
      <3>2. d \in Mach /\ ~ d.oom /\ d.used = c.used \cup {fa_alloc(c)}
        BY <1>2, <2>1, <2>4, <3>1, ClaimFacts DEF Mach
      <3>3. fa_alloc(c) \in Frames
        BY <1>2, <2>4, AllocFacts
      <3>4. PICK e : e = [d EXCEPT !.mem[pd][t] = fa_alloc(c)]
        OBVIOUS
      <3>5. Wrote(d, e, pd, t, fa_alloc(c))
        BY <3>4 DEF Wrote
      <3>6. ~ e.oom /\ e.mem[pd][t] = fa_alloc(c)
        <4>1. PICK a : a = fa_alloc(c)
          OBVIOUS
        <4>2. a \in Word /\ Wrote(d, e, pd, t, a)
          BY <3>3, <3>5, <4>1, Numbers
        <4>3. ~ e.oom /\ e.mem[pd][t] = a
          BY <3>2, <4>2, <1>1, WroteFacts
        <4> QED
          BY <4>1, <4>3
      <3>7. n = [e EXCEPT !.mem[e.mem[pd][t]][i] = f]
        BY <2>1, <2>4, <3>1, <3>2, <3>4, <3>6 DEF paging_map
      <3>8. Wrote(e, n, fa_alloc(c), i, f)
        BY <3>6, <3>7 DEF Wrote
      <3> QED
        BY <1>4, <2>4, <3>1, <3>5, <3>8
    <2> QED
      BY <2>2, <2>3, <2>4
  <1> QED
    BY <1>3, <1>4

LEMMA MapPageMach ==
    ASSUME NEW m \in Mach, NEW pd \in Frames, NEW v \in UserPages
    PROVE  /\ MapPage(m, pd, v) \in Mach
           /\ m.oom => MapPage(m, pd, v).oom
  <1>1. PICK n : n = MapPage(m, pd, v)
    OBVIOUS
  <1>2. CASE m.oom
    <2>1. n = [m EXCEPT !.oom = TRUE]
      BY <1>1, <1>2 DEF MapPage
    <2> QED
      BY <1>1, <2>1 DEF Mach
  <1>3. CASE ~ m.oom
    <2>1. PICK c, f, t, i : c = Claim(m) /\ f = fa_alloc(m) /\ t = v \div PerTable /\ i = v % PerTable
      OBVIOUS
    <2>2. t \in Indices /\ i \in Indices /\ c \in Mach
      BY <2>1, PageFacts, ClaimFacts
    <2>3. SUFFICES ASSUME ~ (n \in Mach /\ n.oom) PROVE n \in Mach
      BY <1>1, <1>3
    <2>4. /\ m.used # Frames
          /\ \/ c.mem[pd][t] # Absent /\ Wrote(c, n, c.mem[pd][t], i, f)
             \/ /\ c.mem[pd][t] = Absent /\ c.used # Frames
                /\ \E e : /\ Wrote(Claim(c), e, pd, t, fa_alloc(c))
                          /\ Wrote(e, n, fa_alloc(c), i, f)
      BY <1>1, <1>3, <2>1, <2>3, MapPageCases
    <2>5. f \in Frames
      BY <2>1, <2>4, AllocFacts
    <2>6. CASE c.mem[pd][t] # Absent /\ Wrote(c, n, c.mem[pd][t], i, f)
      <3>1. PICK a : a = c.mem[pd][t]
        OBVIOUS
      <3>2. Wrote(c, n, a, i, f)
        BY <2>6, <3>1
      <3> QED
        BY <2>2, <2>5, <3>2, WroteMach, Numbers
    <2>7. CASE /\ c.mem[pd][t] = Absent /\ c.used # Frames
               /\ \E e : /\ Wrote(Claim(c), e, pd, t, fa_alloc(c))
                         /\ Wrote(e, n, fa_alloc(c), i, f)
      <3>1. PICK a, d : a = fa_alloc(c) /\ d = Claim(c)
        OBVIOUS
      <3>2. a \in Frames /\ d \in Mach
        BY <2>2, <2>7, <3>1, AllocFacts, ClaimFacts
      <3>3. PICK e : Wrote(d, e, pd, t, a) /\ Wrote(e, n, a, i, f)
        BY <2>7, <3>1
      <3>4. e \in Mach
        BY <2>2, <3>2, <3>3, WroteFacts, Numbers
      <3> QED
        BY <2>2, <2>5, <3>2, <3>3, <3>4, WroteFacts, Numbers
    <2> QED
      BY <2>4, <2>6, <2>7
  <1> QED
    BY <1>2, <1>3

\* Every frame in use has an owner.
Sound(m, R, p, k, G) ==
    /\ ~ m.oom
    /\ \E O : /\ Owned(O, m, R, p, k, G)
              /\ \A f \in m.used : O[f].kind # "loose"

LEMMA MapPageSound ==
    ASSUME NEW m, NEW R, NEW p, NEW k, NEW G, Sound(m, R, p, k, G),
           NEW s \in R, NEW v \in UserPages, v \notin G[s],
           NEW H, Gives(H, G, R, s, {v}),
           NEW n, n = MapPage(m, p[s], v), ~ n.oom
    PROVE  Sound(n, R, p, k, H)
  <1>1. PICK O : /\ Owned(O, m, R, p, k, G) /\ (\A g \in m.used : O[g].kind # "loose")
    BY DEF Sound
  <1>2. PICK pd : pd = p[s]
    OBVIOUS
  <1>3. m \in Mach /\ pd \in Frames /\ ~ m.oom
    BY <1>1, <1>2 DEF Sound, Owned, Roots, Mach
  <1>4. PICK c, f, t, i : c = Claim(m) /\ f = fa_alloc(m) /\ t = v \div PerTable /\ i = v % PerTable
    OBVIOUS
  <1>5. t \in TableNos /\ t \in Indices /\ i \in Indices
    BY <1>4, PageFacts
  <1>6. /\ m.used # Frames
        /\ \/ c.mem[pd][t] # Absent /\ Wrote(c, n, c.mem[pd][t], i, f)
           \/ /\ c.mem[pd][t] = Absent /\ c.used # Frames
              /\ \E e : /\ Wrote(Claim(c), e, pd, t, fa_alloc(c))
                        /\ Wrote(e, n, fa_alloc(c), i, f)
    BY <1>2, <1>3, <1>4, MapPageCases
  <1>7. PICK P : P = [g \in Frames |-> IF g = f THEN Loose(f) ELSE O[g]]
    OBVIOUS
  <1>8. /\ Owned(P, c, R, p, k, G)
        /\ f \in c.used /\ f \in Frames /\ P[f].kind = "loose"
        /\ \A g \in m.used : P[g] = O[g]
    BY <1>1, <1>4, <1>6, <1>7, ClaimOwned
  <1>9. c.used = m.used \cup {f} /\ ~ c.oom /\ c \in Mach
    BY <1>3, <1>4, <1>6, ClaimFacts DEF Mach
  <1>10. \A g \in c.used : g # f => P[g].kind # "loose"
    BY <1>1, <1>8, <1>9
  <1>11. ASSUME NEW C, NEW e, Owned(C, e, R, p, k, G),
                ~ e.oom, NEW a, a = e.mem[pd][t], a # Absent, f \in e.used, C[f].kind = "loose",
                Wrote(e, n, a, i, f), \A g \in e.used : g # f => C[g].kind # "loose"
         PROVE  Sound(n, R, p, k, H)
    <2>1. PICK Q : Q = [g \in Frames |-> IF g = f THEN PageOf(s, v) ELSE C[g]]
      OBVIOUS
    <2>2. Gives(H, G, R, s, {v})
      OBVIOUS
    <2>3. /\ Owned(Q, n, R, p, k, H)
          /\ n.used = e.used /\ n.oom = e.oom
      <3>1. a = e.mem[p[s]][v \div PerTable] /\ Wrote(e, n, a, v % PerTable, f)
        BY <1>2, <1>4, <1>11
      <3>2. /\ Owned(C, e, R, p, k, G) /\ s \in R /\ v \in UserPages /\ v \notin G[s]
            /\ a # Absent /\ f \in e.used /\ C[f].kind = "loose"
        BY <1>11
      <3> QED
        BY ONLY <2>1, <2>2, <3>1, <3>2, PageOwned
    <2>4. \A g \in n.used : Q[g].kind # "loose"
      <3>1. e.used \subseteq Frames
        BY <1>11 DEF Owned, Mach
      <3>2. ASSUME NEW g \in n.used PROVE Q[g].kind # "loose"
        <4>1. CASE g = f
          BY <4>1, <2>1, <1>8, UseFacts
        <4>2. CASE g # f
          <5>1. Q[g] = C[g]
            BY <4>2, <2>1, <2>3, <3>1, <3>2
          <5> QED
            BY <4>2, <5>1, <1>11, <2>3
        <4> QED
          BY <4>1, <4>2
      <3> QED
        BY <3>2
    <2> QED
      BY <1>11, <2>3, <2>4 DEF Sound
  <1>12. CASE c.mem[pd][t] # Absent /\ Wrote(c, n, c.mem[pd][t], i, f)
    <2>1. PICK a : a = c.mem[pd][t]
      OBVIOUS
    <2>2. a # Absent /\ Wrote(c, n, a, i, f)
      BY <1>12, <2>1
    <2> QED
      BY <2>1, <2>2, <1>8, <1>9, <1>10, <1>11
  <1>13. CASE /\ c.mem[pd][t] = Absent /\ c.used # Frames
              /\ \E e : /\ Wrote(Claim(c), e, pd, t, fa_alloc(c))
                        /\ Wrote(e, n, fa_alloc(c), i, f)
    <2>1. PICK a, d : a = fa_alloc(c) /\ d = Claim(c)
      OBVIOUS
    <2>2. PICK e : Wrote(d, e, pd, t, a) /\ Wrote(e, n, a, i, f)
      BY <1>13, <2>1
    <2>3. PICK B : B = [g \in Frames |-> IF g = a THEN Loose(a) ELSE P[g]]
      OBVIOUS
    <2>4. /\ Owned(B, d, R, p, k, G)
          /\ a \in d.used /\ a \in Frames /\ B[a].kind = "loose"
          /\ \A g \in c.used : B[g] = P[g]
      BY <1>8, <1>13, <2>1, <2>3, ClaimOwned
    <2>5. /\ d.used = c.used \cup {a} /\ ~ d.oom /\ d.mem = c.mem /\ d \in Mach /\ a \notin c.used
      BY <1>9, <1>13, <2>1, ClaimFacts, AllocFacts DEF Mach
    <2>6. PICK C : C = [g \in Frames |-> IF g = a THEN TableOf(s, t) ELSE B[g]]
      OBVIOUS
    <2>7. /\ Owned(C, e, R, p, k, G)
          /\ e.mem[p[s]][t] = a /\ e.used = d.used
      <3>1. d.mem[p[s]][t] = Absent /\ Wrote(d, e, p[s], t, a)
        BY <1>2, <1>13, <2>2, <2>5
      <3> QED
        BY <1>5, <2>4, <2>6, <3>1, TableOwned
    <2>8. ~ e.oom
      <3>1. a \in Word
        BY <2>4, Numbers
      <3> QED
        BY <1>3, <1>5, <2>2, <2>4, <2>5, <3>1, WroteFacts, ZenonT(30)
    <2>9. a # f /\ f \in e.used /\ a # Absent
      BY <1>8, <2>4, <2>5, <2>7, Numbers
    <2>10. C[f].kind = "loose"
      BY <1>8, <2>4, <2>6, <2>9
    <2>11. ASSUME NEW g \in e.used, g # f PROVE C[g].kind # "loose"
      <3>1. CASE g = a
        BY <3>1, <2>4, <2>6, UseFacts
      <3>2. CASE g # a
        <4>1. g \in c.used /\ g \in Frames
          BY <3>2, <2>5, <2>7 DEF Mach
        <4>2. C[g] = P[g]
          BY <3>2, <4>1, <2>4, <2>6
        <4> QED
          BY <4>1, <4>2, <2>11, <1>10
      <3> QED
        BY <3>1, <3>2
    <2> QED
      BY <1>2, <1>11, <2>2, <2>4, <2>7, <2>8, <2>9, <2>10, <2>11
  <1> QED
    BY <1>6, <1>12, <1>13

\* f holds the machine before each page from "from" to "to".
Climbs(f, m, pd, from, to) ==
    f = [v \in from..to |-> IF v = from THEN m ELSE MapPage(f[v - 1], pd, v - 1)]

LEMMA ClimbsExists ==
    ASSUME NEW m, NEW pd, NEW from \in Nat, NEW to \in Nat, from <= to
    PROVE  \E f : Climbs(f, m, pd, from, to)
  <1> DEFINE Bad == {x \in Nat : from <= x /\ ~ \E f : Climbs(f, m, pd, from, x)}
  <1>1. SUFFICES ASSUME Bad # {} PROVE FALSE
    OBVIOUS
  <1>2. PICK x \in Bad : \A y \in Bad : x <= y
    BY <1>1, LeastNat
  <1>3. x # from
    <2>1. Climbs([v \in from..from |-> m], m, pd, from, from)
      BY DEF Climbs
    <2> QED
      BY <2>1, <1>2
  <1>4. x \in Nat /\ from < x /\ x - 1 \in Nat /\ from <= x - 1 /\ x - 1 \notin Bad
    BY <1>2, <1>3
  <1>5. PICK g : Climbs(g, m, pd, from, x - 1)
    BY <1>4
  <1>6. PICK h : h = [v \in from..x |-> IF v < x THEN g[v] ELSE MapPage(g[x - 1], pd, x - 1)]
    OBVIOUS
  <1>7. \A v \in from..(x - 1) : g[v] = IF v = from THEN m ELSE MapPage(g[v - 1], pd, v - 1)
    BY <1>5 DEF Climbs
  <1>8. ASSUME NEW v \in from..x
        PROVE  h[v] = IF v = from THEN m ELSE MapPage(h[v - 1], pd, v - 1)
    <2>1. CASE v = x
      <3>1. h[v] = MapPage(g[x - 1], pd, x - 1) /\ h[x - 1] = g[x - 1]
        BY <1>4, <1>6, <2>1
      <3> QED
        BY <3>1, <2>1, <1>3
    <2>2. CASE v # x /\ v = from
      <3>1. h[v] = g[v]
        BY <1>4, <1>6, <2>2
      <3> QED
        BY <3>1, <1>4, <1>7, <2>2
    <2>3. CASE v # x /\ v # from
      <3>1. v \in from..(x - 1) /\ v - 1 \in from..x /\ v - 1 < x /\ v < x
        BY <1>4, <2>3
      <3>2. h[v] = g[v] /\ h[v - 1] = g[v - 1]
        BY <1>6, <3>1
      <3> QED
        BY <3>1, <3>2, <1>7, <2>3
    <2> QED
      BY <2>1, <2>2, <2>3
  <1>9. Climbs(h, m, pd, from, x)
    <2>1. PICK e : e = [v \in from..x |-> IF v = from THEN m ELSE MapPage(h[v - 1], pd, v - 1)]
      OBVIOUS
    <2>2. \A v \in from..x : h[v] = e[v]
      BY <1>8, <2>1
    <2>3. h = e
      BY <1>6, <2>1, <2>2
    <2> QED
      BY <2>1, <2>3 DEF Climbs
  <1> QED
    BY <1>2, <1>9

LEMMA MapPagesWalk ==
    ASSUME NEW m, NEW pd, NEW from \in Nat, NEW to \in Nat, from < to
    PROVE  \E f : /\ f[from] = m /\ MapPages(m, pd, from, to) = f[to]
                  /\ \A v \in from..(to - 1) : f[v + 1] = MapPage(f[v], pd, v)
  <1>1. PICK f : f = CHOOSE g : Climbs(g, m, pd, from, to)
    OBVIOUS
  <1>2. Climbs(f, m, pd, from, to)
    <2>1. from <= to
      OBVIOUS
    <2>2. \E g : Climbs(g, m, pd, from, to)
      BY <2>1, ClimbsExists
    <2> QED
      BY <1>1, <2>2
  <1>3. MapPages(m, pd, from, to) = f[to]
    BY <1>1 DEF MapPages, Climbs
  <1>4. \A v \in from..to : f[v] = IF v = from THEN m ELSE MapPage(f[v - 1], pd, v - 1)
    BY <1>2 DEF Climbs
  <1>5. ASSUME NEW v \in from..(to - 1) PROVE f[v + 1] = MapPage(f[v], pd, v)
    <2>1. v + 1 \in from..to /\ v + 1 # from /\ (v + 1) - 1 = v
      OBVIOUS
    <2> QED
      BY <2>1, <1>4
  <1> QED
    BY <1>3, <1>4, <1>5

LEMMA MapPagesMach ==
    ASSUME NEW m \in Mach, NEW pd \in Frames, NEW from \in Nat, NEW to \in Nat,
           from..(to - 1) \subseteq UserPages
    PROVE  /\ MapPages(m, pd, from, to) \in Mach
           /\ m.oom => MapPages(m, pd, from, to).oom
  <1>1. CASE ~ (from < to)
    BY <1>1 DEF MapPages
  <1>2. CASE from < to
    <2>1. PICK f : /\ f[from] = m /\ MapPages(m, pd, from, to) = f[to]
                   /\ \A v \in from..(to - 1) : f[v + 1] = MapPage(f[v], pd, v)
      BY <1>2, MapPagesWalk
    <2> DEFINE Fine(n) == n \in Mach /\ (m.oom => n.oom)
               Bad == {x \in from..to : ~ Fine(f[x])}
    <2>2. Bad = {}
      <3>1. SUFFICES ASSUME Bad # {} PROVE FALSE
        OBVIOUS
      <3>2. Bad \in SUBSET Nat
        OBVIOUS
      <3>3. PICK x \in Bad : \A y \in Bad : x <= y
        BY <3>1, <3>2, LeastNat
      <3>4. x # from
        BY <2>1, <3>3
      <3>5. x - 1 \in from..(to - 1) /\ x - 1 \in from..to /\ x - 1 \notin Bad /\ (x - 1) + 1 = x
        BY <3>3, <3>4
      <3>6. Fine(f[x - 1])
        BY <3>5
      <3>7. f[x] = MapPage(f[x - 1], pd, x - 1)
        BY <2>1, <3>5
      <3>8. Fine(f[x])
        BY <3>5, <3>6, <3>7, MapPageMach
      <3> QED
        BY <3>3, <3>8
    <2> QED
      BY <1>2, <2>1, <2>2
  <1> QED
    BY <1>1, <1>2

LEMMA SoundAgree ==
    ASSUME NEW m, NEW R, NEW p, NEW k, NEW G, Sound(m, R, p, k, G),
           NEW p2, NEW k2, NEW H, Agree(p2, p, R), Agree(k2, k, R), Agree(H, G, R)
    PROVE  Sound(m, R, p2, k2, H)
  <1>1. PICK O : /\ Owned(O, m, R, p, k, G) /\ (\A g \in m.used : O[g].kind # "loose")
    BY DEF Sound
  <1>2. \A q \in R : p2[q] = p[q] /\ k2[q] = k[q] /\ H[q] = G[q]
    BY DEF Agree
  <1>3. Roots(O, m, R, p2, k2) /\ TablesOwned(O, m, R, p2)
    BY <1>1, <1>2 DEF Owned, Roots, TablesOwned
  <1>4. PagesOwned(O, m, R, p2, H)
    BY <1>1, <1>2 DEF Owned, PagesOwned
  <1>5. ASSUME NEW f \in m.used, O[f].kind # "loose" PROVE \E s \in R : Serves(f, m, s, p2, k2, H)
    <2>1. PICK s \in R : Serves(f, m, s, p, k, G)
      BY <1>1, <1>5 DEF Owned, AllOwned
    <2>2. Serves(f, m, s, p2, k2, H)
      BY <2>1, <1>2 DEF Serves
    <2> QED
      BY <2>2
  <1>7. Owned(O, m, R, p2, k2, H)
    BY <1>1, <1>3, <1>4, <1>5 DEF Owned, AllOwned
  <1> QED
    BY <1>1, <1>7 DEF Sound

LEMMA MapPagesSound ==
    ASSUME NEW m, NEW R, NEW p, NEW k, NEW G, Sound(m, R, p, k, G),
           NEW s \in R, NEW from \in Nat, NEW to \in Nat, from..(to - 1) \subseteq UserPages,
           from..(to - 1) \cap G[s] = {},
           NEW H, Gives(H, G, R, s, from..(to - 1)),
           NEW n, n = MapPages(m, p[s], from, to), ~ n.oom
    PROVE  Sound(n, R, p, k, H)
  <1>1. CASE ~ (from < to)
    <2>1. n = m
      BY <1>1 DEF MapPages
    <2>2. Agree(H, G, R) /\ Agree(p, p, R) /\ Agree(k, k, R)
      <3>1. from..(to - 1) = {}
        BY <1>1
      <3> QED
        BY <3>1 DEF Gives, Agree
    <2> QED
      BY <2>1, <2>2, SoundAgree
  <1>2. CASE from < to
    <2>1. PICK f : /\ f[from] = m /\ n = f[to]
                   /\ \A v \in from..(to - 1) : f[v + 1] = MapPage(f[v], p[s], v)
      BY <1>2, MapPagesWalk
    <2>2. m \in Mach /\ p[s] \in Frames
      BY DEF Sound, Owned, Roots, Mach
    <2>3. PICK GG : GG = [x \in from..to |-> [q \in R |-> IF q = s THEN G[q] \cup (from..(x - 1)) ELSE G[q]]]
      OBVIOUS
    <2> DEFINE Fine(x) == f[x] \in Mach /\ (f[x].oom \/ Sound(f[x], R, p, k, GG[x]))
               Bad == {x \in from..to : ~ Fine(x)}
    <2>4. Fine(from)
      <3>1. Agree(GG[from], G, R) /\ Agree(p, p, R) /\ Agree(k, k, R)
        <4>1. from..(from - 1) = {} /\ from \in from..to
          BY <1>2
        <4>2. \A q \in R : GG[from][q] = G[q]
          BY <2>3, <4>1
        <4> QED
          BY <4>2 DEF Agree
      <3> QED
        BY <2>1, <2>2, <3>1, SoundAgree
    <2>5. ASSUME NEW x \in from..(to - 1), Fine(x) PROVE Fine(x + 1)
      <3>1. x \in UserPages /\ x \in from..to /\ x + 1 \in from..to
        OBVIOUS
      <3>2. PICK u : u = MapPage(f[x], p[s], x)
        OBVIOUS
      <3>3. f[x + 1] = u
        BY <2>1, <3>2
      <3>4. u \in Mach /\ (f[x].oom => u.oom)
        BY <2>2, <2>5, <3>1, <3>2, MapPageMach
      <3>5. ASSUME ~ u.oom PROVE Sound(u, R, p, k, GG[x + 1])
        <4>1. Sound(f[x], R, p, k, GG[x])
          BY <2>5, <3>4, <3>5
        <4>2. PICK A, B : A = GG[x] /\ B = GG[x + 1]
          OBVIOUS
        <4>3. /\ \A q \in R : A[q] = IF q = s THEN G[q] \cup (from..(x - 1)) ELSE G[q]
              /\ \A q \in R : B[q] = IF q = s THEN G[q] \cup (from..((x + 1) - 1)) ELSE G[q]
          BY <2>3, <3>1, <4>2
        <4>4. from..((x + 1) - 1) = (from..(x - 1)) \cup {x} /\ x \notin from..(x - 1)
          OBVIOUS
        <4>5. x \notin A[s]
          BY <4>3, <4>4
        <4>6. Gives(B, A, R, s, {x})
          BY <4>3, <4>4 DEF Gives
        <4> QED
          BY <3>1, <3>2, <3>5, <4>1, <4>2, <4>5, <4>6, MapPageSound
      <3> QED
        BY <3>3, <3>4, <3>5
    <2>6. Bad = {}
      <3>1. SUFFICES ASSUME Bad # {} PROVE FALSE
        OBVIOUS
      <3>2. Bad \in SUBSET Nat
        OBVIOUS
      <3>3. PICK x \in Bad : \A y \in Bad : x <= y
        BY <3>1, <3>2, LeastNat
      <3>4. x # from
        BY <2>4, <3>3
      <3>5. x - 1 \in from..(to - 1) /\ x - 1 \in from..to /\ x - 1 \notin Bad /\ (x - 1) + 1 = x
        BY <3>3, <3>4
      <3>6. Fine(x - 1)
        BY <3>5
      <3>7. Fine((x - 1) + 1)
        BY <2>5, <3>5, <3>6
      <3>8. Fine(x)
        BY <3>5, <3>7
      <3> QED
        BY <3>3, <3>8
    <2>7. to \in from..to
      BY <1>2
    <2>8. Fine(to)
      BY <2>6, <2>7
    <2>9. Sound(n, R, p, k, GG[to])
      BY <2>1, <2>8
    <2>10. Agree(H, GG[to], R) /\ Agree(p, p, R) /\ Agree(k, k, R)
      BY <2>3, <2>7 DEF Gives, Agree
    <2> QED
      BY <2>9, <2>10, SoundAgree
  <1> QED
    BY <1>1, <1>2

LEMMA UnmapSound ==
    ASSUME NEW m, NEW R, NEW p, NEW k, NEW G, Sound(m, R, p, k, G),
           NEW s \in R, NEW from \in Nat, NEW to \in Nat, from..(to - 1) \subseteq G[s],
           NEW H, Takes(H, G, R, s, from..(to - 1)),
           NEW n, n = syscall_unmap_pages(m, p[s], from, to)
    PROVE  Sound(n, R, p, k, H)
  <1>1. PICK O : /\ Owned(O, m, R, p, k, G) /\ (\A g \in m.used : O[g].kind # "loose")
    BY DEF Sound
  <1>2. /\ Owned(O, n, R, p, k, H)
        /\ n.used \subseteq m.used /\ n.oom = m.oom
    BY <1>1, UnmapOwned
  <1> QED
    BY <1>1, <1>2 DEF Sound

-----------------------------------------------------------------------------
(* The pages that a process has been given *)

\* Granted of a process's memory fields.
Given(p) ==
    0..(RoundUp(p.brk) - 1)
        \cup (UNION {p.regions[i].base..(p.regions[i].base + p.regions[i].len - 1) :
                         i \in DOMAIN p.regions})
        \cup {StackPage}

\* The heap stays below the window, the regions lie in the used part of the
\* window, in the order they were mapped.
Shape(p) ==
    /\ p \in Process
    /\ p.brk <= MaxBreak * PageSize
    /\ MmapBase <= p.mmap_next /\ p.mmap_next <= MmapEnd
    /\ \A i \in DOMAIN p.regions :
          MmapBase <= p.regions[i].base /\ p.regions[i].base + p.regions[i].len <= p.mmap_next
    /\ \A i \in DOMAIN p.regions, j \in DOMAIN p.regions :
          i < j => p.regions[i].base + p.regions[i].len <= p.regions[j].base

LEMMA WindowFacts ==
    /\ MaxBreak \in Nat /\ MaxBreak <= MmapBase /\ MmapBase \in Nat /\ MmapBase <= StackPage
    /\ MmapEnd \in Nat /\ MmapEnd <= StackPage + 1 /\ StackPage \in Nat
    /\ MaxBreak >= 1 /\ MmapBase <= MmapEnd
    /\ UserPages = 0..StackPage
  BY AddrAssumption, Numbers DEF UserPages

LEMMA RoundFacts ==
    ASSUME NEW b \in Nat
    PROVE  /\ RoundUp(b) \in Nat
           /\ b <= MaxBreak * PageSize => RoundUp(b) <= MaxBreak
           /\ RoundUp(PageSize) = 1
  <1>1. ASSUME NEW c \in Nat \ {0}, NEW x \in Nat, NEW n \in Nat
        PROVE  /\ (x + c - 1) \div c \in Nat
               /\ x <= n * c => (x + c - 1) \div c <= n
               /\ (c + c - 1) \div c = 1
    <2>1. PICK y : y = x + c - 1
      OBVIOUS
    <2>2. y \in Nat /\ y \div c \in Nat /\ c * (y \div c) <= y
      BY <2>1, SMT
    <2>3. ASSUME x <= n * c, y \div c > n PROVE FALSE
      <3>1. ASSUME NEW q \in Nat, q > n PROVE c * q >= c * n + c
        <4>1. q - n - 1 \in Nat /\ q = n + 1 + (q - n - 1)
          BY <3>1
        <4>2. ASSUME NEW d \in Nat PROVE c * (n + 1 + d) >= c * n + c
          <5>1. c * d \in Nat /\ c * (n + 1 + d) = c * n + c + c * d /\ c * n \in Nat
            BY SMT
          <5> QED
            BY <5>1
        <4> QED
          BY <4>1, <4>2
      <3>2. c * (y \div c) >= c * n + c /\ n * c = c * n /\ c * n \in Nat
        BY <2>2, <2>3, <3>1, SMT
      <3> QED
        BY <2>1, <2>2, <2>3, <3>2
    <2>4. (c + c - 1) \div c = 1
      BY SMT
    <2> QED
      BY <2>1, <2>2, <2>3, <2>4
  <1>2. PageSize \in Nat \ {0} /\ MaxBreak \in Nat
    BY AddrAssumption, WindowFacts
  <1> QED
    BY <1>1, <1>2 DEF RoundUp

LEMMA GivenIff ==
    ASSUME NEW p, NEW v
    PROVE  v \in Given(p) <=>
              \/ v \in 0..(RoundUp(p.brk) - 1)
              \/ \E i \in DOMAIN p.regions :
                    v \in p.regions[i].base..(p.regions[i].base + p.regions[i].len - 1)
              \/ v = StackPage
  <1>1. v \in UNION {p.regions[i].base..(p.regions[i].base + p.regions[i].len - 1) :
                        i \in DOMAIN p.regions}
          <=> \E i \in DOMAIN p.regions :
                 v \in p.regions[i].base..(p.regions[i].base + p.regions[i].len - 1)
    OBVIOUS
  <1> QED
    BY <1>1 DEF Given

LEMMA ShapeFacts ==
    ASSUME NEW p, Shape(p)
    PROVE  /\ p.pd \in Frames /\ p.ks \in Frames
           /\ p.brk \in Nat /\ RoundUp(p.brk) \in Nat /\ RoundUp(p.brk) <= MaxBreak
           /\ p.mmap_next \in Nat /\ p.regions \in Seq([base : Nat, len : Nat])
           /\ DOMAIN p.regions = 1..Len(p.regions) /\ Len(p.regions) \in Nat
           /\ \A i \in DOMAIN p.regions : p.regions[i].base \in Nat /\ p.regions[i].len \in Nat
  <1>1. /\ p.pd \in Frames /\ p.ks \in Frames /\ p.brk \in Nat /\ p.mmap_next \in Nat
        /\ p.regions \in Seq([base : Nat, len : Nat])
    BY DEF Shape, Process
  <1>2. RoundUp(p.brk) \in Nat /\ RoundUp(p.brk) <= MaxBreak
    BY <1>1, RoundFacts DEF Shape
  <1>3. /\ DOMAIN p.regions = 1..Len(p.regions) /\ Len(p.regions) \in Nat
        /\ \A i \in DOMAIN p.regions : p.regions[i] \in [base : Nat, len : Nat]
    <2>1. PICK S, q : S = [base : Nat, len : Nat] /\ q = p.regions
      OBVIOUS
    <2>2. q \in Seq(S)
      BY <1>1, <2>1
    <2>3. DOMAIN q = 1..Len(q) /\ Len(q) \in Nat /\ \A i \in DOMAIN q : q[i] \in S
      BY ONLY <2>2
    <2> QED
      BY ONLY <2>1, <2>3
  <1>4. \A x \in [base : Nat, len : Nat] : x.base \in Nat /\ x.len \in Nat
    OBVIOUS
  <1> QED
    BY <1>1, <1>2, <1>3, <1>4

LEMMA GivenIsUser ==
    ASSUME NEW p, Shape(p)
    PROVE  Given(p) \subseteq UserPages
  <1>1. SUFFICES ASSUME NEW v \in Given(p) PROVE v \in 0..StackPage
    BY WindowFacts
  <1>2. CASE v \in 0..(RoundUp(p.brk) - 1)
    BY <1>2, ShapeFacts, WindowFacts
  <1>3. ASSUME NEW i \in DOMAIN p.regions,
               v \in p.regions[i].base..(p.regions[i].base + p.regions[i].len - 1)
        PROVE  v \in 0..StackPage
    <2>1. /\ p.regions[i].base \in Nat /\ p.regions[i].len \in Nat /\ p.mmap_next \in Nat
      BY ShapeFacts
    <2>2. p.regions[i].base + p.regions[i].len <= p.mmap_next /\ p.mmap_next <= MmapEnd
      BY DEF Shape
    <2> QED
      BY <1>3, <2>1, <2>2, WindowFacts
  <1>4. CASE v = StackPage
    BY <1>4, WindowFacts
  <1> QED
    BY <1>1, <1>2, <1>3, <1>4, GivenIff

\* sbrk moves the break, up or down.
LEMMA BreakGiven ==
    ASSUME NEW p, Shape(p), NEW b \in Nat, b <= MaxBreak * PageSize,
           NEW r, r = [p EXCEPT !.brk = b],
           NEW old, old = RoundUp(p.brk), NEW new, new = RoundUp(b)
    PROVE  /\ Shape(r) /\ r.pd = p.pd /\ r.ks = p.ks
           /\ old \in Nat /\ new \in Nat /\ old..(new - 1) \subseteq UserPages
           /\ old <= new => /\ Given(r) = Given(p) \cup (old..(new - 1))
                            /\ old..(new - 1) \cap Given(p) = {}
           /\ new <= old => /\ Given(r) = Given(p) \ (new..(old - 1))
                            /\ new..(old - 1) \subseteq Given(p)
  <1>1. /\ r \in Process /\ r.pd = p.pd /\ r.ks = p.ks /\ r.brk = b /\ r.mmap_next = p.mmap_next
        /\ r.regions = p.regions
    BY DEF Shape, Process
  <1>2. Shape(r)
    BY <1>1 DEF Shape
  <1>3. old \in Nat /\ new \in Nat /\ old <= MaxBreak /\ new <= MaxBreak
    BY <1>1, <1>2, ShapeFacts
  <1>4. ASSUME NEW v \in 0..(MaxBreak - 1)
        PROVE  /\ v # StackPage /\ v \in UserPages
               /\ ~ \E i \in DOMAIN p.regions :
                       v \in p.regions[i].base..(p.regions[i].base + p.regions[i].len - 1)
    <2>1. v # StackPage /\ v \in UserPages
      BY WindowFacts
    <2>2. ASSUME NEW i \in DOMAIN p.regions PROVE p.regions[i].base \in Nat /\ p.regions[i].base > v
      <3>1. p.regions[i].base \in Nat
        BY ShapeFacts
      <3>2. MmapBase <= p.regions[i].base
        BY DEF Shape
      <3> QED
        BY <3>1, <3>2, WindowFacts
    <2> QED
      BY <2>1, <2>2
  <1>5. PICK M : \A v : v \in M <=> \/ \E i \in DOMAIN p.regions :
                                        v \in p.regions[i].base..(p.regions[i].base + p.regions[i].len - 1)
                                   \/ v = StackPage
    <2>1. PICK M : M = Given([p EXCEPT !.brk = 0])
      OBVIOUS
    <2>2. PICK z : z = [p EXCEPT !.brk = 0]
      OBVIOUS
    <2>3. z.regions = p.regions /\ z.brk = 0
      BY <2>2 DEF Shape, Process
    <2>4. 0..(RoundUp(0) - 1) = {}
      <3>1. ASSUME NEW c \in Nat \ {0} PROVE (0 + c - 1) \div c = 0
        BY SMT
      <3>2. RoundUp(0) = 0
        BY <3>1, AddrAssumption DEF RoundUp
      <3> QED
        BY <3>2
    <2> QED
      BY <2>1, <2>2, <2>3, <2>4, GivenIff
  <1>6. \A v : v \in Given(p) <=> v \in 0..(old - 1) \/ v \in M
    BY <1>5, GivenIff
  <1>7. \A v : v \in Given(r) <=> v \in 0..(new - 1) \/ v \in M
    BY <1>1, <1>5, GivenIff
  <1>8. \A v \in 0..(MaxBreak - 1) : v \notin M /\ v \in UserPages
    BY <1>4, <1>5
  <1>9. old..(new - 1) \subseteq 0..(MaxBreak - 1) /\ new..(old - 1) \subseteq 0..(MaxBreak - 1)
    BY <1>3, WindowFacts
  <1>10. ASSUME old <= new
         PROVE  /\ Given(r) = Given(p) \cup (old..(new - 1))
                /\ old..(new - 1) \cap Given(p) = {}
    <2>1. \A v : v \in 0..(new - 1) <=> v \in 0..(old - 1) \/ v \in old..(new - 1)
      BY <1>3, <1>10
    <2>2. \A v \in old..(new - 1) : v \notin 0..(old - 1)
      BY <1>3
    <2> QED
      BY <1>6, <1>7, <1>8, <1>9, <2>1, <2>2
  <1>11. ASSUME new <= old
         PROVE  /\ Given(r) = Given(p) \ (new..(old - 1))
                /\ new..(old - 1) \subseteq Given(p)
    <2>1. \A v : v \in 0..(old - 1) <=> v \in 0..(new - 1) \/ v \in new..(old - 1)
      BY <1>3, <1>11
    <2>2. \A v \in new..(old - 1) : v \notin 0..(new - 1)
      BY <1>3
    <2> QED
      BY <1>6, <1>7, <1>8, <1>9, <2>1, <2>2
  <1> QED
    BY <1>1, <1>2, <1>3, <1>8, <1>9, <1>10, <1>11

\* Region i of process p, as pages.
Region(p, i) == p.regions[i].base..(p.regions[i].base + p.regions[i].len - 1)

LEMMA RegionIff ==
    ASSUME NEW p, NEW v
    PROVE  v \in Given(p) <=> \/ v \in 0..(RoundUp(p.brk) - 1)
                              \/ \E i \in DOMAIN p.regions : v \in Region(p, i)
                              \/ v = StackPage
  BY GivenIff DEF Region

LEMMA RegionFacts ==
    ASSUME NEW p, Shape(p), NEW i \in DOMAIN p.regions
    PROVE  /\ p.regions[i].base \in Nat /\ p.regions[i].len \in Nat
           /\ MmapBase <= p.regions[i].base
           /\ p.regions[i].base + p.regions[i].len <= p.mmap_next
           /\ p.mmap_next \in Nat /\ p.mmap_next <= MmapEnd
           /\ \A v \in Region(p, i) : /\ v \in Nat /\ MmapBase <= v
                                      /\ v < p.mmap_next
  <1>1. p.regions[i].base \in Nat /\ p.regions[i].len \in Nat /\ p.mmap_next \in Nat
    BY ShapeFacts
  <1>2. /\ MmapBase <= p.regions[i].base /\ p.mmap_next <= MmapEnd
        /\ p.regions[i].base + p.regions[i].len <= p.mmap_next
    BY DEF Shape
  <1> QED
    BY <1>1, <1>2, WindowFacts, SMTT(30) DEF Region

\* A process with one more region.
Mapped(p, pages) == [p EXCEPT !.mmap_next = @ + pages,
                              !.regions = Append(@, [base |-> p.mmap_next, len |-> pages])]

\* mmap gives the next pages of the window.
LEMMA MmapGiven ==
    ASSUME NEW p, Shape(p), NEW pages \in Nat, p.mmap_next + pages <= MmapEnd,
           NEW r, r = Mapped(p, pages), NEW next, next = p.mmap_next
    PROVE  /\ Shape(r) /\ r.pd = p.pd /\ r.ks = p.ks
           /\ next \in Nat /\ next..(next + pages - 1) \subseteq UserPages
           /\ Given(r) = Given(p) \cup (next..(next + pages - 1))
           /\ MmapEnd <= StackPage => (next..(next + pages - 1)) \cap Given(p) = {}
  <1>1. PICK N, S, g : N = Len(p.regions) /\ S = [base : Nat, len : Nat] /\ g = p.regions
    OBVIOUS
  <1>2. PICK e : e = [base |-> next, len |-> pages]
    OBVIOUS
  <1>3. /\ next \in Nat /\ g \in Seq(S) /\ N \in Nat /\ N = Len(g) /\ DOMAIN g = 1..N
        /\ e \in S /\ e.base = next /\ e.len = pages
    BY <1>1, <1>2, ShapeFacts
  <1>4. PICK h : h = Append(g, e)
    OBVIOUS
  <1>5. /\ h \in Seq(S) /\ Len(h) = N + 1 /\ DOMAIN h = 1..(N + 1) /\ h[N + 1] = e
        /\ \A i \in 1..N : h[i] = g[i]
    BY ONLY <1>3, <1>4
  <1>6. /\ r \in Process /\ r.pd = p.pd /\ r.ks = p.ks /\ r.brk = p.brk
        /\ r.mmap_next = next + pages /\ r.regions = h
    <2>1. /\ p \in Process /\ next + pages \in Nat
      BY <1>3 DEF Shape
    <2>2. r = [p EXCEPT !.mmap_next = next + pages, !.regions = h]
      BY <1>1, <1>2, <1>4 DEF Mapped
    <2> QED
      BY <2>1, <2>2, <1>1, <1>5 DEF Process
  <1>7. /\ MmapBase <= next /\ next <= MmapEnd
        /\ \A i \in 1..N : MmapBase <= g[i].base /\ g[i].base + g[i].len <= next
        /\ \A i \in 1..N, j \in 1..N : i < j => g[i].base + g[i].len <= g[j].base
        /\ p.brk <= MaxBreak * PageSize
    BY <1>1, <1>3 DEF Shape
  <1>8. \A i \in 1..N : g[i].base \in Nat /\ g[i].len \in Nat
    BY <1>1, <1>3, ShapeFacts
  <1>9. Shape(r)
    <2>1. \A i \in 1..(N + 1) : /\ MmapBase <= h[i].base /\ h[i].base + h[i].len <= next + pages
      <3>1. SUFFICES ASSUME NEW i \in 1..(N + 1)
                     PROVE  MmapBase <= h[i].base /\ h[i].base + h[i].len <= next + pages
        OBVIOUS
      <3>2. CASE i = N + 1
        BY <3>2, <1>3, <1>5, <1>7
      <3>3. CASE i \in 1..N
        BY <3>3, <1>3, <1>5, <1>7, <1>8
      <3> QED
        BY <3>2, <3>3, <1>3
    <2>2. \A i \in 1..(N + 1), j \in 1..(N + 1) : i < j => h[i].base + h[i].len <= h[j].base
      <3>1. SUFFICES ASSUME NEW i \in 1..(N + 1), NEW j \in 1..(N + 1), i < j
                     PROVE  h[i].base + h[i].len <= h[j].base
        OBVIOUS
      <3>2. i \in 1..N
        BY <3>1, <1>3
      <3>3. CASE j = N + 1
        BY <3>2, <3>3, <1>3, <1>5, <1>7
      <3>4. CASE j \in 1..N
        BY <3>1, <3>2, <3>4, <1>5, <1>7
      <3> QED
        BY <3>3, <3>4, <1>3
    <2>3. MmapBase <= next + pages
      BY <1>3, <1>7, WindowFacts
    <2> QED
      BY <1>5, <1>6, <1>7, <2>1, <2>2, <2>3 DEF Shape
  <1>10. \A i \in 1..N : Region(r, i) = Region(p, i)
    BY <1>1, <1>5, <1>6 DEF Region
  <1>11. Region(r, N + 1) = next..(next + pages - 1)
    BY <1>3, <1>5, <1>6 DEF Region
  <1>12. /\ DOMAIN p.regions = 1..N /\ DOMAIN r.regions = 1..(N + 1)
         /\ \A i : i \in 1..(N + 1) <=> i \in 1..N \/ i = N + 1
    BY <1>1, <1>3, <1>5, <1>6
  <1>13. \A v : (\E i \in DOMAIN r.regions : v \in Region(r, i)) <=>
                   (\E i \in DOMAIN p.regions : v \in Region(p, i)) \/ v \in next..(next + pages - 1)
    BY ONLY <1>10, <1>11, <1>12, Zenon
  <1>14. Given(r) = Given(p) \cup (next..(next + pages - 1))
    <2>1. PICK A, B, C : A = Given(r) /\ B = Given(p) /\ C = next..(next + pages - 1)
      OBVIOUS
    <2>2. \A v : v \in A <=> v \in B \/ v \in C
      BY <1>6, <1>13, <2>1, RegionIff
    <2> QED
      BY <2>1, <2>2
  <1>15. next..(next + pages - 1) \subseteq UserPages
    BY <1>3, WindowFacts
  <1>16. ASSUME MmapEnd <= StackPage, NEW v \in next..(next + pages - 1) PROVE v \notin Given(p)
    <2>1. v # StackPage
      BY <1>3, <1>16, WindowFacts
    <2>2. v \notin 0..(RoundUp(p.brk) - 1)
      BY <1>3, <1>7, <1>16, WindowFacts, ShapeFacts
    <2>3. ASSUME NEW i \in DOMAIN p.regions PROVE v \notin Region(p, i)
      BY <1>3, RegionFacts
    <2> QED
      BY <2>1, <2>2, <2>3, RegionIff
  <1> QED
    BY <1>3, <1>6, <1>9, <1>14, <1>15, <1>16

\* A list without its element k.
LEMMA DropFacts ==
    ASSUME NEW S, NEW g \in Seq(S), NEW k \in 1..Len(g),
           NEW h, h = [i \in 1..(Len(g) - 1) |-> IF i < k THEN g[i] ELSE g[i + 1]]
    PROVE  /\ h \in Seq(S) /\ DOMAIN h = 1..(Len(g) - 1)
           /\ \A i \in 1..(Len(g) - 1) : i < k => h[i] = g[i] /\ i \in 1..Len(g)
           /\ \A i \in 1..(Len(g) - 1) : ~ (i < k) => h[i] = g[i + 1] /\ i + 1 \in 1..Len(g)
  <1>1. Len(g) \in Nat /\ Len(g) - 1 \in Nat /\ DOMAIN g = 1..Len(g) /\ \A i \in 1..Len(g) : g[i] \in S
    OBVIOUS
  <1>2. \A i \in 1..(Len(g) - 1) : i \in 1..Len(g) /\ i + 1 \in 1..Len(g)
    BY <1>1
  <1>3. \A i \in 1..(Len(g) - 1) : h[i] = (IF i < k THEN g[i] ELSE g[i + 1]) /\ h[i] \in S
    BY <1>1, <1>2
  <1>4. h \in [1..(Len(g) - 1) -> S]
    BY <1>3
  <1> QED
    BY <1>1, <1>2, <1>3, <1>4

\* The region that munmap finds, and the process without it.
First(p, base) == CHOOSE i \in DOMAIN p.regions :
                      /\ p.regions[i].base = base
                      /\ \A j \in 1..(i - 1) : ~ (p.regions[j].base = base)
Without(p, k) == [p EXCEPT !.regions =
                      [i \in 1..(Len(@) - 1) |-> IF i < k THEN @[i] ELSE @[i + 1]]]

\* munmap takes away the first region that starts at a page, and nothing else.
LEMMA MunmapGiven ==
    ASSUME NEW p, Shape(p), NEW base, \E i \in DOMAIN p.regions : p.regions[i].base = base,
           NEW k, k = First(p, base), NEW r, r = Without(p, k),
           NEW to, to = base + p.regions[k].len
    PROVE  /\ Shape(r) /\ r.pd = p.pd /\ r.ks = p.ks /\ base \in Nat /\ to \in Nat
           /\ base..(to - 1) \subseteq Given(p)
           /\ MmapEnd <= StackPage => Given(r) = Given(p) \ (base..(to - 1))
  <1>1. PICK N, S, g : N = Len(p.regions) /\ S = [base : Nat, len : Nat] /\ g = p.regions
    OBVIOUS
  <1>2. g \in Seq(S) /\ N \in Nat /\ N = Len(g) /\ DOMAIN g = 1..N
    BY <1>1, ShapeFacts
  <1>3. k \in 1..N /\ g[k].base = base
    <2>1. PICK A : A = {i \in 1..N : g[i].base = base}
      OBVIOUS
    <2>2. A # {} /\ A \in SUBSET Nat
      <3>1. PICK i \in DOMAIN p.regions : p.regions[i].base = base
        OBVIOUS
      <3>2. i \in A
        BY <3>1, <1>1, <1>2, <2>1
      <3>3. A \subseteq 1..N /\ 1..N \subseteq Nat
        BY <1>2, <2>1
      <3> QED
        BY <3>2, <3>3
    <2>3. PICK i \in A : \A j \in A : i <= j
      BY <2>2, LeastNat
    <2>4. i \in DOMAIN p.regions /\ p.regions[i].base = base
      BY <1>1, <1>2, <2>1, <2>3
    <2>5. ASSUME NEW j \in 1..(i - 1) PROVE ~ (p.regions[j].base = base)
      <3>1. j \in 1..N /\ ~ (i <= j)
        BY <1>2, <2>1, <2>3
      <3> QED
        BY <1>1, <2>1, <2>3, <3>1
    <2>6. k \in DOMAIN p.regions /\ p.regions[k].base = base
      BY <2>4, <2>5 DEF First
    <2> QED
      BY <1>1, <1>2, <2>6
  <1>4. PICK h : h = [i \in 1..(Len(g) - 1) |-> IF i < k THEN g[i] ELSE g[i + 1]]
    OBVIOUS
  <1>5. /\ h \in Seq(S) /\ DOMAIN h = 1..(N - 1)
        /\ \A i \in 1..(N - 1) : i < k => h[i] = g[i] /\ i \in 1..N
        /\ \A i \in 1..(N - 1) : ~ (i < k) => h[i] = g[i + 1] /\ i + 1 \in 1..N
    BY <1>2, <1>3, <1>4, DropFacts
  <1>6. /\ r \in Process /\ r.pd = p.pd /\ r.ks = p.ks /\ r.brk = p.brk
        /\ r.mmap_next = p.mmap_next /\ r.regions = h
    <2>1. p \in Process
      BY DEF Shape
    <2>2. r = [p EXCEPT !.regions = h]
      BY <1>1, <1>4, <2>1 DEF Process, Without
    <2> QED
      BY <2>1, <2>2, <1>1, <1>5 DEF Process
  <1>7. PICK at : at = [i \in 1..(N - 1) |-> IF i < k THEN i ELSE i + 1]
    OBVIOUS
  <1>8. ASSUME NEW i \in 1..(N - 1) PROVE h[i] = g[at[i]] /\ at[i] \in 1..N /\ at[i] # k
    <2>1. k \in Nat /\ i \in Nat
      BY <1>2, <1>3
    <2>2. CASE i < k
      <3>1. at[i] = i
        BY <2>2, <1>7
      <3>2. h[i] = g[i] /\ i \in 1..N /\ i # k
        <4>1. h[i] = g[i] /\ i \in 1..N
          BY <2>2, <1>5, Zenon
        <4> QED
          BY ONLY <4>1, <2>1, <2>2
      <3> QED
        BY ONLY <3>1, <3>2
    <2>3. CASE ~ (i < k)
      <3>1. at[i] = i + 1
        BY <2>3, <1>7
      <3>2. h[i] = g[i + 1] /\ i + 1 \in 1..N /\ i + 1 # k
        <4>1. h[i] = g[i + 1] /\ i + 1 \in 1..N
          BY <2>3, <1>5, Zenon
        <4> QED
          BY ONLY <4>1, <2>1, <2>3
      <3> QED
        BY ONLY <3>1, <3>2
    <2> QED
      BY <2>2, <2>3
  <1>9. ASSUME NEW i \in 1..(N - 1), NEW j \in 1..(N - 1), i < j PROVE at[i] < at[j]
    BY <1>2, <1>3, <1>7, <1>9
  <1>10. ASSUME NEW j \in 1..N, j # k PROVE \E i \in 1..(N - 1) : at[i] = j
    <2>1. CASE j < k
      <3>1. j \in 1..(N - 1) /\ at[j] = j
        BY <2>1, <1>2, <1>3, <1>7
      <3> QED
        BY <3>1
    <2>2. CASE ~ (j < k)
      <3>1. j - 1 \in 1..(N - 1) /\ ~ (j - 1 < k) /\ (j - 1) + 1 = j
        BY <2>2, <1>2, <1>3, <1>10
      <3>2. at[j - 1] = j
        BY <3>1, <1>7
      <3> QED
        BY <3>1, <3>2
    <2> QED
      BY <2>1, <2>2
  <1>11. /\ \A i \in 1..N : MmapBase <= g[i].base /\ g[i].base + g[i].len <= p.mmap_next
         /\ \A i \in 1..N, j \in 1..N : i < j => g[i].base + g[i].len <= g[j].base
         /\ p.brk <= MaxBreak * PageSize /\ MmapBase <= p.mmap_next /\ p.mmap_next <= MmapEnd
    BY <1>1, <1>2 DEF Shape
  <1>12. Shape(r)
    <2>1. \A i \in 1..(N - 1) : MmapBase <= h[i].base /\ h[i].base + h[i].len <= p.mmap_next
      BY <1>8, <1>11
    <2>2. \A i \in 1..(N - 1), j \in 1..(N - 1) : i < j => h[i].base + h[i].len <= h[j].base
      BY <1>8, <1>9, <1>11
    <2> QED
      BY <1>5, <1>6, <1>11, <2>1, <2>2 DEF Shape
  <1>13. \A i \in 1..(N - 1) : Region(r, i) = Region(p, at[i])
    BY <1>1, <1>6, <1>8 DEF Region
  <1>14. /\ Region(p, k) = base..(to - 1) /\ base \in Nat /\ to \in Nat
         /\ k \in DOMAIN p.regions
    <2>1. p.regions[k].base \in Nat /\ p.regions[k].len \in Nat /\ p.regions[k].base = base
      BY <1>1, <1>2, <1>3, ShapeFacts
    <2>2. PICK x : x = p.regions[k].len
      OBVIOUS
    <2>3. to = base + x /\ base \in Nat /\ x \in Nat
      BY <2>1, <2>2
    <2>4. Region(p, k) = base..(base + x - 1)
      BY <2>1, <2>2 DEF Region
    <2>5. k \in DOMAIN p.regions
      BY ONLY <1>1, <1>2, <1>3
    <2>6. to - 1 = base + x - 1 /\ to \in Nat
      BY ONLY <2>3
    <2> QED
      BY ONLY <2>3, <2>4, <2>5, <2>6
  <1>15. base..(to - 1) \subseteq Given(p)
    BY <1>14, RegionIff
  <1>16. ASSUME NEW i \in 1..N, i # k, NEW v \in Region(p, i) PROVE v \notin Region(p, k)
    <2>1. /\ g[i].base \in Nat /\ g[i].len \in Nat /\ g[k].base \in Nat /\ g[k].len \in Nat
      BY <1>1, <1>2, <1>3, ShapeFacts
    <2>2. g[i].base + g[i].len <= g[k].base \/ g[k].base + g[k].len <= g[i].base
      BY <1>3, <1>11, <1>16
    <2>3. v \in g[i].base..(g[i].base + g[i].len - 1)
      BY <1>1, <1>16 DEF Region
    <2>4. v \notin g[k].base..(g[k].base + g[k].len - 1)
      <3>1. ASSUME NEW a \in Nat, NEW b \in Nat, NEW c \in Nat, NEW d \in Nat,
                   a + b <= c \/ c + d <= a, v \in a..(a + b - 1)
            PROVE  v \notin c..(c + d - 1)
        BY <3>1
      <3> QED
        BY <2>1, <2>2, <2>3, <3>1
    <2> QED
      BY <1>1, <2>4 DEF Region
  <1>17. \A v : (\E i \in DOMAIN r.regions : v \in Region(r, i)) <=>
                   (\E i \in DOMAIN p.regions : v \in Region(p, i)) /\ v \notin Region(p, k)
    <2>1. DOMAIN r.regions = 1..(N - 1) /\ DOMAIN p.regions = 1..N
      BY <1>1, <1>2, <1>5, <1>6
    <2>2. ASSUME NEW v, NEW i \in 1..(N - 1), v \in Region(r, i)
          PROVE  (\E j \in 1..N : v \in Region(p, j)) /\ v \notin Region(p, k)
      BY <2>2, <1>8, <1>13, <1>16
    <2>3. ASSUME NEW v, NEW j \in 1..N, v \in Region(p, j), v \notin Region(p, k)
          PROVE  \E i \in 1..(N - 1) : v \in Region(r, i)
      BY <2>3, <1>10, <1>13
    <2> QED
      BY <2>1, <2>2, <2>3
  <1>18. ASSUME MmapEnd <= StackPage, NEW v \in base..(to - 1)
         PROVE  v # StackPage /\ v \notin 0..(RoundUp(p.brk) - 1)
    <2>1. v \in Nat /\ MmapBase <= v /\ v < p.mmap_next /\ p.mmap_next <= MmapEnd /\ p.mmap_next \in Nat
      BY <1>14, RegionFacts
    <2>2. RoundUp(p.brk) \in Nat /\ RoundUp(p.brk) <= MaxBreak
      BY ShapeFacts
    <2>3. v # StackPage
      BY <2>1, <1>18, WindowFacts
    <2> QED
      BY <2>1, <2>2, <2>3, WindowFacts
  <1>19. ASSUME MmapEnd <= StackPage PROVE Given(r) = Given(p) \ (base..(to - 1))
    <2>1. PICK A, B, C : A = Given(r) /\ B = Given(p) /\ C = base..(to - 1)
      OBVIOUS
    <2>2. \A v \in C : v # StackPage /\ v \notin 0..(RoundUp(p.brk) - 1)
      BY <1>18, <1>19, <2>1
    <2>3. \A v : v \in A <=> v \in B /\ v \notin C
      BY <1>6, <1>14, <1>17, <2>1, <2>2, RegionIff
    <2> QED
      BY <2>1, <2>3
  <1> QED
    BY <1>6, <1>12, <1>14, <1>15, <1>19

-----------------------------------------------------------------------------
(* The type invariant *)

Spaces == [Slots -> Process \cup {NoProc}]

\* The store of a word, on the record.
LEMMA StoreWrote ==
    ASSUME Machine \in Mach, NEW f, NEW i, NEW w, mem' = [mem EXCEPT ![f][i] = w], used' = used
    PROVE  Wrote(Machine, Machine', f, i, w)
  <1>1. PICK m, r : m = Machine /\ r = [mem EXCEPT ![f][i] = w]
    OBVIOUS
  <1>2. m \in Mach /\ m.mem = mem /\ m.used = used /\ m.oom = FALSE
    BY <1>1 DEF Machine
  <1>3. Machine' = [used |-> used, mem |-> r, oom |-> FALSE]
    BY <1>1 DEF Machine
  <1>4. Machine' = [m EXCEPT !.mem = r]
    <2>1. PICK n : n = Machine'
      OBVIOUS
    <2>2. [m EXCEPT !.mem = r] = [used |-> m.used, mem |-> r, oom |-> m.oom]
      BY <1>2 DEF Mach
    <2> QED
      BY <1>2, <1>3, <2>1, <2>2
  <1>5. r = [m.mem EXCEPT ![f][i] = w]
    BY <1>1, <1>2
  <1> QED
    BY <1>1, <1>4, <1>5 DEF Wrote

TInv ==
    /\ Machine \in Mach
    /\ space \in Spaces
    /\ \A s \in Running : Shape(space[s])
    /\ created \in Nat
    /\ panicked \in BOOLEAN /\ robbed \in BOOLEAN

\* What a completed call leaves behind.
LEMMA CommitFacts ==
    ASSUME TInv, NEW s \in Slots, NEW r \in Process, NEW m \in Mach, ~ m.oom, Commit(m, s, r)
    PROVE  /\ Machine' = m /\ Running' = Running \cup {s}
           /\ space' \in Spaces /\ space'[s] = r
           /\ \A q \in Slots : q # s => space'[q] = space[q]
           /\ panicked' = panicked /\ robbed' = robbed
  <1>1. Machine' = m
    <2>1. Machine' = [used |-> m.used, mem |-> m.mem, oom |-> FALSE]
      BY DEF Machine, Commit
    <2>2. m = [used |-> m.used, mem |-> m.mem, oom |-> FALSE]
      BY DEF Mach
    <2> QED
      BY <2>1, <2>2
  <1>2. /\ space' \in Spaces /\ space'[s] = r /\ panicked' = panicked /\ robbed' = robbed
        /\ \A q \in Slots : q # s => space'[q] = space[q]
    BY DEF Commit, TInv, Spaces
  <1>3. r # NoProc
    BY NoProcAssumption
  <1>4. Running' = Running \cup {s}
    BY <1>2, <1>3 DEF Running
  <1> QED
    BY <1>1, <1>2, <1>4

LEMMA CommitTInv ==
    ASSUME TInv, NEW s \in Slots, NEW r, Shape(r), NEW m \in Mach, ~ m.oom, Commit(m, s, r),
           created' \in Nat
    PROVE  TInv'
  <1>1. r \in Process
    BY DEF Shape
  <1>2. /\ Machine' = m /\ Running' = Running \cup {s}
        /\ space' \in Spaces /\ space'[s] = r
        /\ \A q \in Slots : q # s => space'[q] = space[q]
        /\ panicked' = panicked /\ robbed' = robbed
    BY <1>1, CommitFacts
  <1>3. ASSUME NEW q \in Running' PROVE Shape(space'[q])
    <2>1. q \in Slots /\ (q # s => q \in Running)
      BY <1>2 DEF Running
    <2> QED
      BY <1>2, <2>1 DEF TInv
  <1> QED
    BY <1>2, <1>3 DEF TInv

\* No frame is free.
Panics == panicked' = TRUE /\ UNCHANGED <<used, mem, space, robbed>>

\* A panic changes no memory.
LEMMA PanicTInv ==
    ASSUME TInv, Panics, created' \in Nat
    PROVE  TInv' /\ Machine' = Machine /\ Running' = Running
  <1>1. Machine' = Machine /\ Running' = Running /\ space' = space
    BY DEF Machine, Running, Panics
  <1> QED
    BY <1>1 DEF TInv, Panics

\* A running process.
LEMMA RunningFacts ==
    ASSUME TInv, NEW s \in Slots, space[s] # NoProc
    PROVE  /\ s \in Running /\ Shape(space[s]) /\ Machine \in Mach /\ Machine.oom = FALSE
           /\ space[s].pd \in Frames /\ space[s].ks \in Frames
  <1>1. s \in Running /\ Shape(space[s]) /\ Machine \in Mach /\ Machine.oom = FALSE
    BY DEF TInv, Running, Machine
  <1> QED
    BY <1>1, ShapeFacts

LEMMA UnmapMach ==
    ASSUME NEW m \in Mach, NEW pd, NEW from, NEW to
    PROVE  /\ syscall_unmap_pages(m, pd, from, to) \in Mach
           /\ syscall_unmap_pages(m, pd, from, to).oom = m.oom
  <1>1. PICK gone, r, u :
            /\ gone = {v \in from..(to - 1) : Present(m, pd, v)}
            /\ u = m.used \ {FrameOf(m, pd, v) : v \in gone}
            /\ r = [f \in Frames |-> [i \in Indices |->
                      IF \E v \in gone : /\ f = m.mem[pd][v \div PerTable]
                                         /\ i = v % PerTable
                      THEN Absent ELSE m.mem[f][i]]]
    OBVIOUS
  <1>2. syscall_unmap_pages(m, pd, from, to) = [m EXCEPT !.used = u, !.mem = r]
    BY <1>1 DEF syscall_unmap_pages, Indices
  <1>3. u \in SUBSET Frames
    BY <1>1 DEF Mach
  <1>4. r \in [Frames -> [Indices -> Word]]
    BY <1>1, Numbers DEF Mach
  <1> QED
    BY <1>2, <1>3, <1>4 DEF Mach

\* The process elf_load begins.
Fresh(pid, pd, ks) == [pid |-> pid, pd |-> pd, ks |-> ks, brk |-> PageSize, mmap_next |-> MmapBase, regions |-> <<>>]

\* The steps of elf_load when no allocation fails.
Loads(s, m1, m2, m3, m4, m5, m, pd, ks) ==
    /\ Machine.used # Frames /\ m1 = Claim(Machine) /\ pd = fa_alloc(Machine)
    /\ m2 = [m1 EXCEPT !.mem[pd] = Blank]
    /\ m2.used # Frames /\ m3 = Claim(m2) /\ ks = fa_alloc(m2)
    /\ m4 = MapPages(m3, pd, StackPage, StackPage + 1)
    /\ m5 = MapPages(m4, pd, 0, 1)
    /\ m = [m5 EXCEPT !.mem[FrameOf(m5, pd, 0)] = Blank]
    /\ {Machine, m1, m2, m3, m4, m5, m} \subseteq Mach
    /\ ~ m3.oom /\ ~ m4.oom /\ ~ m5.oom /\ ~ m.oom
    /\ pd \in Frames /\ ks \in Frames /\ Commit(m, s, Fresh(created, pd, ks))

LEMMA StackAndImage ==
    /\ StackPage..((StackPage + 1) - 1) = {StackPage} /\ 0..(1 - 1) = {0}
    /\ StackPage \in UserPages /\ 0 \in UserPages /\ StackPage # 0
    /\ StackPage \in Nat /\ StackPage + 1 \in Nat
  BY WindowFacts, Numbers

LEMMA BlankMach ==
    ASSUME NEW m \in Mach, NEW a
    PROVE  /\ [m EXCEPT !.mem[a] = Blank] \in Mach
           /\ [m EXCEPT !.mem[a] = Blank].used = m.used
           /\ [m EXCEPT !.mem[a] = Blank].oom = m.oom
  <1>1. Blank \in [Indices -> Word]
    BY DEF Blank, Indices, Word
  <1>2. PICK r : r = [m.mem EXCEPT ![a] = Blank]
    OBVIOUS
  <1>3. r \in [Frames -> [Indices -> Word]]
    BY <1>1, <1>2 DEF Mach
  <1>4. [m EXCEPT !.mem[a] = Blank] = [m EXCEPT !.mem = r]
    BY <1>2 DEF Mach
  <1> QED
    BY <1>3, <1>4 DEF Mach

LEMMA FreshFacts ==
    ASSUME TInv, NEW pd \in Frames, NEW ks \in Frames
    PROVE  /\ Shape(Fresh(created, pd, ks)) /\ Fresh(created, pd, ks).pd = pd /\ Fresh(created, pd, ks).ks = ks
           /\ Given(Fresh(created, pd, ks)) = {0, StackPage}
  <1>1. PICK r : r = Fresh(created, pd, ks)
    OBVIOUS
  <1>2. /\ r.pd = pd /\ r.ks = ks /\ r.brk = PageSize /\ r.mmap_next = MmapBase /\ r.regions = <<>>
    BY <1>1 DEF Fresh
  <1>3. <<>> \in Seq([base : Nat, len : Nat]) /\ DOMAIN <<>> = {}
    OBVIOUS
  <1>4. PageSize \in Nat /\ PageSize <= MaxBreak * PageSize
    <2>1. ASSUME NEW a \in Nat \ {0}, NEW b \in Nat PROVE b <= a * b
      BY SMT
    <2> QED
      BY <2>1, AddrAssumption, WindowFacts
  <1>5. r \in Process
    BY <1>1, <1>3, <1>4, WindowFacts DEF Fresh, Process, TInv
  <1>6. Shape(r)
    BY <1>2, <1>3, <1>4, <1>5, WindowFacts DEF Shape
  <1>7. 0..(RoundUp(r.brk) - 1) = {0}
    BY <1>2, <1>4, RoundFacts
  <1>8. Given(r) = {0, StackPage}
    BY <1>2, <1>3, <1>7, GivenIff
  <1> QED
    BY <1>1, <1>2, <1>6, <1>8

\* elf_load runs out of frames, or takes all its steps.
LEMMA ElfCases ==
    ASSUME TInv, NEW s \in Slots, elf_load(s)
    PROVE  /\ space[s] = NoProc
           /\ \/ Panics
              \/ \E m1, m2, m3, m4, m5, m, pd, ks : Loads(s, m1, m2, m3, m4, m5, m, pd, ks)
  <1>1. Machine \in Mach /\ Machine.oom = FALSE
    BY DEF TInv, Machine
  <1>2. PICK m1, pd : m1 = Claim(Machine) /\ pd = fa_alloc(Machine)
    OBVIOUS
  <1>3. PICK m2 : m2 = [m1 EXCEPT !.mem[pd] = Blank]
    OBVIOUS
  <1>4. PICK m3, ks : m3 = Claim(m2) /\ ks = fa_alloc(m2)
    OBVIOUS
  <1>5. PICK m4 : m4 = MapPages(m3, pd, StackPage, StackPage + 1)
    OBVIOUS
  <1>6. PICK m5 : m5 = MapPages(m4, pd, 0, 1)
    OBVIOUS
  <1>7. PICK m6 : m6 = [m5 EXCEPT !.mem[FrameOf(m5, pd, 0)] = Blank]
    OBVIOUS
  <1>8. PICK m : m = IF m1.oom THEN m1 ELSE IF m3.oom THEN m3 ELSE IF m5.oom THEN m5 ELSE m6
    OBVIOUS
  <1>9. space[s] = NoProc /\ CommitOrPanic(m, s, Fresh(created, pd, ks))
    BY <1>2, <1>3, <1>4, <1>5, <1>6, <1>7, <1>8 DEF elf_load, Fresh
  <1>10. CASE m.oom
    BY <1>9, <1>10 DEF CommitOrPanic, Panics
  <1>11. CASE ~ m.oom
    <2>1. ~ m1.oom /\ ~ m3.oom /\ ~ m5.oom /\ m = m6
      BY <1>8, <1>11
    <2>2. m1 \in Mach /\ Machine.used # Frames /\ pd \in Frames
      BY <1>1, <1>2, <2>1, ClaimFacts, AllocFacts
    <2>3. m2 \in Mach /\ m2.used = m1.used /\ m2.oom = m1.oom
      BY <1>3, <2>2, BlankMach
    <2>4. m3 \in Mach /\ m2.used # Frames /\ ks \in Frames
      BY <1>4, <2>1, <2>3, ClaimFacts, AllocFacts
    <2>5. m4 \in Mach
      <3>1. StackPage..((StackPage + 1) - 1) \subseteq UserPages
        BY StackAndImage
      <3> QED
        BY <1>5, <2>2, <2>4, <3>1, StackAndImage, MapPagesMach
    <2>6. m5 \in Mach /\ (m4.oom => m5.oom)
      <3>1. 0..(1 - 1) \subseteq UserPages
        BY StackAndImage
      <3> QED
        BY <1>6, <2>2, <2>5, <3>1, MapPagesMach
    <2>7. m6 \in Mach
      BY <1>7, <2>6, BlankMach
    <2>8. Commit(m6, s, Fresh(created, pd, ks))
      BY <1>9, <1>11, <2>1 DEF CommitOrPanic, Panics
    <2>9. {Machine, m1, m2, m3, m4, m5, m6} \subseteq Mach
      BY <1>1, <2>2, <2>3, <2>4, <2>5, <2>6, <2>7
    <2>10. ~ m3.oom /\ ~ m4.oom /\ ~ m5.oom /\ ~ m6.oom
      BY <1>11, <2>1, <2>6
    <2>11. Loads(s, m1, m2, m3, m4, m5, m6, pd, ks)
      BY <1>2, <1>3, <1>4, <1>5, <1>6, <1>7, <2>2, <2>4, <2>8, <2>9, <2>10 DEF Loads
    <2> QED
      BY <1>9, <2>11
  <1> QED
    BY <1>9, <1>10, <1>11

\* sbrk when no allocation fails.
Breaks(s, p, b, r, m, old, new) ==
    /\ b \in Nat /\ b <= MaxBreak * PageSize /\ r = [p EXCEPT !.brk = b]
    /\ old = RoundUp(p.brk) /\ new = RoundUp(b)
    /\ \/ old <= new /\ m = MapPages(Machine, p.pd, old, new)
       \/ new <= old /\ m = syscall_unmap_pages(Machine, p.pd, new, old)
    /\ m \in Mach /\ ~ m.oom /\ Commit(m, s, r)

\* mmap when no allocation fails.
Maps(s, p, pages, r, m, next) ==
    /\ r = Mapped(p, pages)
    /\ next = p.mmap_next /\ p.mmap_next + pages <= MmapEnd
    /\ m = MapPages(Machine, p.pd, next, next + pages)
    /\ m \in Mach /\ ~ m.oom /\ Commit(m, s, r)

\* munmap of the region that starts at base.
Drops(s, p, base, k, r, m, to) ==
    /\ \E i \in DOMAIN p.regions : p.regions[i].base = base
    /\ k = First(p, base) /\ r = Without(p, k)
    /\ to = base + p.regions[k].len
    /\ m = syscall_unmap_pages(Machine, p.pd, base, to)
    /\ m \in Mach /\ ~ m.oom /\ Commit(m, s, r)

\* sbrk panics, gives the pages up to the new break, or takes those beyond it.
LEMMA SbrkCases ==
    ASSUME TInv, NEW s \in Slots, NEW inc \in Int, syscall_sbrk(s, inc),
           NEW p, p = space[s]
    PROVE  /\ p # NoProc
           /\ \/ Panics
              \/ \E b, r, m, old, new : Breaks(s, p, b, r, m, old, new)
  <1>1. /\ s \in Running /\ Shape(p) /\ Machine \in Mach /\ p.pd \in Frames /\ p # NoProc
    BY RunningFacts DEF syscall_sbrk
  <1>2. PICK b : b = IF p.brk + inc < 0 THEN 0 ELSE p.brk + inc
    OBVIOUS
  <1>3. b \in Nat
    BY <1>1, <1>2, ShapeFacts
  <1>4. PICK old, new : old = RoundUp(p.brk) /\ new = RoundUp(b)
    OBVIOUS
  <1>5. PICK m : m = IF new > old THEN MapPages(Machine, p.pd, old, new)
                     ELSE syscall_unmap_pages(Machine, p.pd, new, old)
    OBVIOUS
  <1>6. PICK r : r = [p EXCEPT !.brk = b]
    OBVIOUS
  <1>7. b <= MaxBreak * PageSize /\ CommitOrPanic(m, s, r)
    BY <1>2, <1>4, <1>5, <1>6 DEF syscall_sbrk, NewBreakPage
  <1>8. old \in Nat /\ new \in Nat /\ old..(new - 1) \subseteq UserPages
    BY <1>1, <1>3, <1>4, <1>6, <1>7, BreakGiven
  <1>9. m \in Mach
    BY <1>1, <1>5, <1>8, MapPagesMach, UnmapMach
  <1>10. \/ old <= new /\ m = MapPages(Machine, p.pd, old, new)
         \/ new <= old /\ m = syscall_unmap_pages(Machine, p.pd, new, old)
    BY <1>5, <1>8
  <1>11. CASE m.oom
    BY <1>1, <1>7, <1>11 DEF CommitOrPanic, Panics
  <1>12. CASE ~ m.oom
    <2>1. Commit(m, s, r)
      BY <1>7, <1>12 DEF CommitOrPanic, Panics
    <2>2. Breaks(s, p, b, r, m, old, new)
      BY <1>3, <1>4, <1>6, <1>7, <1>9, <1>10, <1>12, <2>1 DEF Breaks
    <2> QED
      BY <1>1, <2>2
  <1> QED
    BY <1>11, <1>12

LEMMA MmapCases ==
    ASSUME TInv, NEW s \in Slots, NEW pages \in Nat, syscall_mmap(s, pages),
           NEW p, p = space[s]
    PROVE  /\ p # NoProc
           /\ \/ Panics
              \/ \E r, m, next : Maps(s, p, pages, r, m, next)
  <1>1. /\ s \in Running /\ Shape(p) /\ Machine \in Mach /\ p.pd \in Frames /\ p # NoProc
    BY RunningFacts DEF syscall_mmap
  <1>2. PICK r : r = Mapped(p, pages)
    OBVIOUS
  <1>3. PICK next : next = p.mmap_next
    OBVIOUS
  <1>4. PICK m : m = MapPages(Machine, p.pd, next, next + pages)
    OBVIOUS
  <1>5. p.mmap_next + pages <= MmapEnd /\ CommitOrPanic(m, s, r)
    BY <1>2, <1>3, <1>4 DEF syscall_mmap, Mapped
  <1>6. next \in Nat /\ next..(next + pages - 1) \subseteq UserPages /\ next + pages \in Nat
    <2>1. next \in Nat /\ next..(next + pages - 1) \subseteq UserPages
      BY <1>1, <1>2, <1>3, <1>5, MmapGiven
    <2> QED
      BY <2>1
  <1>7. m \in Mach
    BY <1>1, <1>4, <1>6, MapPagesMach
  <1>8. CASE m.oom
    BY <1>1, <1>5, <1>8 DEF CommitOrPanic, Panics
  <1>9. CASE ~ m.oom
    <2>1. Commit(m, s, r)
      BY <1>5, <1>9 DEF CommitOrPanic, Panics
    <2>2. Maps(s, p, pages, r, m, next)
      BY <1>2, <1>3, <1>4, <1>5, <1>7, <1>9, <2>1, Zenon DEF Maps
    <2> QED
      BY <1>1, <2>2
  <1> QED
    BY <1>8, <1>9

LEMMA MunmapCases ==
    ASSUME TInv, NEW s \in Slots, NEW base, syscall_munmap(s, base),
           NEW p, p = space[s]
    PROVE  p # NoProc /\ \E k, r, m, to : Drops(s, p, base, k, r, m, to)
  <1>1. /\ s \in Running /\ Shape(p) /\ Machine \in Mach /\ Machine.oom = FALSE /\ p # NoProc
    BY RunningFacts DEF syscall_munmap
  <1>2. PICK k : k = First(p, base)
    OBVIOUS
  <1>3. PICK r : r = Without(p, k)
    OBVIOUS
  <1>4. PICK to : to = base + p.regions[k].len
    OBVIOUS
  <1>5. PICK m : m = syscall_unmap_pages(Machine, p.pd, base, to)
    OBVIOUS
  <1>6. Commit(m, s, r) /\ \E i \in DOMAIN p.regions : p.regions[i].base = base
    BY <1>2, <1>3, <1>4, <1>5, Zenon DEF syscall_munmap, First, Without
  <1>7. m \in Mach /\ m.oom = FALSE
    BY <1>1, <1>5, UnmapMach
  <1>8. Drops(s, p, base, k, r, m, to)
    BY <1>2, <1>3, <1>4, <1>5, <1>6, <1>7, Zenon DEF Drops
  <1> QED
    BY <1>1, <1>8

LEMMA InitTInv ==
    Init => TInv
  <1>1. SUFFICES ASSUME Init PROVE TInv
    OBVIOUS
  <1>2. Machine \in Mach
    <2>1. Blank \in [Indices -> Word]
      BY DEF Blank, Indices, Word
    <2>2. PICK r : r = [f \in Frames |-> Blank]
      OBVIOUS
    <2>3. r \in [Frames -> [Indices -> Word]]
      BY <2>1, <2>2
    <2>4. Machine = [used |-> {}, mem |-> r, oom |-> FALSE]
      BY <1>1, <2>2 DEF Init, Machine
    <2> QED
      BY <2>3, <2>4 DEF Mach
  <1>3. space \in Spaces /\ Running = {}
    <2>1. space = [s \in Slots |-> NoProc]
      BY <1>1 DEF Init
    <2> QED
      BY <2>1 DEF Spaces, Running
  <1> QED
    BY <1>1, <1>2, <1>3 DEF TInv, Init

LEMMA NextTInv ==
    TInv /\ [Next]_vars => TInv'
  <1>1. SUFFICES ASSUME TInv, [Next]_vars PROVE TInv'
    OBVIOUS
  <1>2. ASSUME NEW s \in Slots, elf_load(s) PROVE TInv'
    <2>0. created' \in Nat
      BY <1>1, <1>2 DEF elf_load, TInv
    <2>1. CASE Panics
      BY <1>1, <2>0, <2>1, PanicTInv
    <2>2. CASE \E m1, m2, m3, m4, m5, m, pd, ks : Loads(s, m1, m2, m3, m4, m5, m, pd, ks)
      <3>1. PICK m1, m2, m3, m4, m5, m, pd, ks : Loads(s, m1, m2, m3, m4, m5, m, pd, ks)
        BY <2>2
      <3>2. /\ m \in Mach /\ ~ m.oom /\ pd \in Frames /\ ks \in Frames
            /\ Commit(m, s, Fresh(created, pd, ks))
        BY <3>1 DEF Loads
      <3>3. Shape(Fresh(created, pd, ks))
        BY <1>1, <3>2, FreshFacts
      <3> QED
        BY <1>1, <2>0, <3>2, <3>3, CommitTInv
    <2> QED
      BY <1>1, <1>2, <2>1, <2>2, ElfCases
  <1>3. ASSUME NEW s \in Slots, NEW inc \in (-MaxSbrk)..MaxSbrk, syscall_sbrk(s, inc) PROVE TInv'
    <2>0. created' \in Nat
      BY <1>1, <1>3 DEF syscall_sbrk, Counted, TInv
    <2>1. PICK p : p = space[s]
      OBVIOUS
    <2>2. inc \in Int
      BY AddrAssumption
    <2>3. /\ p # NoProc
          /\ \/ Panics
             \/ \E b, r, m, old, new : Breaks(s, p, b, r, m, old, new)
      BY <1>1, <1>3, <2>1, <2>2, SbrkCases
    <2>4. Shape(p)
      BY <1>1, <2>1, <2>3, RunningFacts
    <2>5. CASE Panics
      BY <1>1, <2>0, <2>5, PanicTInv
    <2>6. ASSUME NEW b, NEW r, NEW m, NEW old, NEW new, Breaks(s, p, b, r, m, old, new)
          PROVE  TInv'
      <3>1. /\ b \in Nat /\ b <= MaxBreak * PageSize /\ r = [p EXCEPT !.brk = b]
            /\ m \in Mach /\ ~ m.oom /\ Commit(m, s, r)
        BY <2>6 DEF Breaks
      <3>2. Shape(r)
        BY <2>4, <3>1, BreakGiven
      <3> QED
        BY <1>1, <2>0, <3>1, <3>2, CommitTInv
    <2> QED
      BY <2>3, <2>5, <2>6
  <1>4. ASSUME NEW s \in Slots, NEW pages \in 0..MaxMmap, syscall_mmap(s, pages) PROVE TInv'
    <2>0. created' \in Nat
      BY <1>1, <1>4 DEF syscall_mmap, Counted, TInv
    <2>1. PICK p : p = space[s]
      OBVIOUS
    <2>2. pages \in Nat
      BY AddrAssumption
    <2>3. /\ p # NoProc
          /\ \/ Panics
             \/ \E r, m, next : Maps(s, p, pages, r, m, next)
      BY <1>1, <1>4, <2>1, <2>2, MmapCases
    <2>4. Shape(p)
      BY <1>1, <2>1, <2>3, RunningFacts
    <2>5. CASE Panics
      BY <1>1, <2>0, <2>5, PanicTInv
    <2>6. ASSUME NEW r, NEW m, NEW next, Maps(s, p, pages, r, m, next) PROVE TInv'
      <3>1. /\ p.mmap_next + pages <= MmapEnd /\ m \in Mach /\ ~ m.oom /\ Commit(m, s, r)
            /\ r = Mapped(p, pages)
        BY <2>6, Zenon DEF Maps
      <3>2. Shape(r)
        BY <2>2, <2>4, <3>1, MmapGiven
      <3> QED
        BY <1>1, <2>0, <3>1, <3>2, CommitTInv
    <2> QED
      BY <2>3, <2>5, <2>6
  <1>5. ASSUME NEW s \in Slots, NEW base \in MmapBase..MmapEnd, syscall_munmap(s, base) PROVE TInv'
    <2>0. created' \in Nat
      BY <1>1, <1>5 DEF syscall_munmap, Counted, TInv
    <2>1. PICK p : p = space[s]
      OBVIOUS
    <2>2. p # NoProc /\ \E k, r, m, to : Drops(s, p, base, k, r, m, to)
      BY <1>1, <1>5, <2>1, MunmapCases
    <2>3. Shape(p)
      BY <1>1, <2>1, <2>2, RunningFacts
    <2>4. PICK k, r, m, to : Drops(s, p, base, k, r, m, to)
      BY <2>2
    <2>5. Shape(r)
      <3>1. /\ \E i \in DOMAIN p.regions : p.regions[i].base = base
            /\ k = First(p, base) /\ r = Without(p, k)
        BY <2>4, Zenon DEF Drops
      <3> QED
        BY <2>3, <3>1, MunmapGiven
    <2>6. m \in Mach /\ ~ m.oom /\ Commit(m, s, r)
      BY <2>4, Zenon DEF Drops
    <2> QED
      BY <1>1, <2>0, <2>5, <2>6, CommitTInv
  <1>6. ASSUME NEW s \in Slots, proc_destroy(s) PROVE TInv'
    <2>1. /\ used' \subseteq used /\ mem' = mem /\ panicked' = panicked /\ created' = created
          /\ space' = [space EXCEPT ![s] = NoProc] /\ robbed' \in BOOLEAN
      BY <1>6 DEF proc_destroy
    <2>2. Machine' \in Mach
      BY <1>1, <2>1 DEF TInv, Machine, Mach
    <2>3. space' \in Spaces /\ \A q \in Running' : q \in Running /\ space'[q] = space[q]
      BY <1>1, <2>1 DEF TInv, Spaces, Running
    <2> QED
      BY <1>1, <2>1, <2>2, <2>3 DEF TInv
  <1>7. CASE UNCHANGED vars
    BY <1>1, <1>7 DEF TInv, vars, Machine, Running
  <1>8. ASSUME NEW s \in Slots, NEW i \in 0..(PerTable - 1), NEW w \in Words, store(s, i, w)
        PROVE  TInv'
    <2>1. PICK f : mem' = [mem EXCEPT ![f][i] = w]
      BY <1>8 DEF store
    <2>2. UNCHANGED <<used, space, panicked, robbed>> /\ created' = created
      BY <1>8 DEF store, Counted
    <2>3. i \in Indices /\ w \in Word
      BY WordsAssumption DEF Indices
    <2>4. Wrote(Machine, Machine', f, i, w)
      BY <1>1, <2>1, <2>2, StoreWrote DEF TInv
    <2>5. Machine' \in Mach
      BY <1>1, <2>3, <2>4, WroteMach DEF TInv
    <2>6. Running' = Running /\ space' = space
      BY <2>2 DEF Running
    <2> QED
      BY <1>1, <2>2, <2>5, <2>6 DEF TInv
  <1> QED
    BY <1>1, <1>2, <1>3, <1>4, <1>5, <1>6, <1>7, <1>8 DEF Next

\* Only frames of the bitmap are marked in use or made a directory or a kernel stack,
\* whatever the processes ask for and store, and whatever words the tables that
\* paging_map takes over uncleared hold.
THEOREM TypeCorrect == Spec => []TypeOK
  <1>1. TInv => TypeOK
    <2>1. SUFFICES ASSUME TInv PROVE TypeOK
      OBVIOUS
    <2>2. used \subseteq Frames /\ mem \in [Frames -> [0..(PerTable - 1) -> Word]]
      BY <2>1 DEF TInv, Machine, Mach, Indices
    <2>3. \A s \in Running : space[s].pd \in Frames /\ space[s].ks \in Frames
      BY <2>1, ShapeFacts DEF TInv
    <2> QED
      BY <2>1, <2>2, <2>3 DEF TypeOK, TInv
  <1> QED
    BY <1>1, InitTInv, NextTInv, PTL DEF Spec

-----------------------------------------------------------------------------
(* The owners of the frames in use *)

\* The window ends below the stack.
Apart == MmapEnd <= StackPage

Directories == [s \in Slots |-> space[s].pd]
Stacks      == [s \in Slots |-> space[s].ks]
Grants      == [s \in Slots |-> Given(space[s])]

\* Every frame in use has an owner, and nothing was given without being mapped.
SInv == Sound(Machine, Running, Directories, Stacks, Grants)

\* That holds until a proc_destroy frees what was not its own; the system is not
\* followed any further, and that step changes no mapping.
IInv == TInv /\ (~ robbed => SInv) /\ (robbed => GrantedIsMapped)

\* G with the pages of s set to V.
Sets(H, G, R, s, V) == \A q \in R : H[q] = IF q = s THEN V ELSE G[q]

\* A call of a running process that keeps its directory and kernel stack.
LEMMA KeepSound ==
    ASSUME TInv, NEW s \in Running, NEW r \in Process, NEW m \in Mach, ~ m.oom, Commit(m, s, r),
           r.pd = space[s].pd, r.ks = space[s].ks,
           NEW H, Sound(m, Running, Directories, Stacks, H),
           Sets(H, Grants, Running, s, Given(r))
    PROVE  SInv'
  <1>1. s \in Slots /\ Running \subseteq Slots
    BY DEF Running
  <1>2. /\ Machine' = m /\ Running' = Running \cup {s}
        /\ space'[s] = r /\ \A q \in Slots : q # s => space'[q] = space[q]
    BY <1>1, CommitFacts
  <1>3. Running' = Running
    BY <1>2
  <1>4. PICK p2, k2, H2 : p2 = Directories' /\ k2 = Stacks' /\ H2 = Grants'
    OBVIOUS
  <1>5. \A q \in Slots : p2[q] = space'[q].pd /\ k2[q] = space'[q].ks /\ H2[q] = Given(space'[q])
    BY <1>4 DEF Directories, Stacks, Grants
  <1>6. \A q \in Slots : /\ Directories[q] = space[q].pd /\ Stacks[q] = space[q].ks
                         /\ Grants[q] = Given(space[q])
    BY DEF Directories, Stacks, Grants
  <1>7. Agree(p2, Directories, Running) /\ Agree(k2, Stacks, Running) /\ Agree(H2, H, Running)
    BY <1>1, <1>2, <1>5, <1>6 DEF Agree, Sets
  <1>8. Sound(m, Running, p2, k2, H2)
    BY <1>7, SoundAgree
  <1> QED
    BY <1>2, <1>3, <1>4, <1>8 DEF SInv

\* A panic, and a step that leaves memory alone.
LEMMA SameSound ==
    ASSUME TInv, SInv, UNCHANGED <<used, mem, space>>
    PROVE  SInv'
  <1>1. /\ Machine' = Machine /\ Running' = Running /\ Directories' = Directories
        /\ Stacks' = Stacks /\ Grants' = Grants
    BY DEF Machine, Running, Directories, Stacks, Grants
  <1> QED
    BY <1>1 DEF SInv

LEMMA SbrkSound ==
    ASSUME TInv, SInv, NEW s \in Slots, NEW inc \in Int, syscall_sbrk(s, inc)
    PROVE  SInv'
  <1>1. PICK p : p = space[s]
    OBVIOUS
  <1>2. /\ p # NoProc
        /\ \/ Panics
           \/ \E b, r, m, old, new : Breaks(s, p, b, r, m, old, new)
    BY <1>1, SbrkCases
  <1>3. s \in Running /\ Shape(p)
    BY <1>1, <1>2, RunningFacts
  <1>4. CASE Panics
    BY <1>4, SameSound DEF Panics
  <1>5. ASSUME NEW b, NEW r, NEW m, NEW old, NEW new, Breaks(s, p, b, r, m, old, new)
        PROVE  SInv'
    <2>1. /\ b \in Nat /\ b <= MaxBreak * PageSize /\ r = [p EXCEPT !.brk = b]
          /\ old = RoundUp(p.brk) /\ new = RoundUp(b)
          /\ m \in Mach /\ ~ m.oom /\ Commit(m, s, r)
      BY <1>5 DEF Breaks
    <2>2. /\ Shape(r) /\ r.pd = p.pd /\ r.ks = p.ks
          /\ old \in Nat /\ new \in Nat /\ old..(new - 1) \subseteq UserPages
          /\ old <= new => /\ Given(r) = Given(p) \cup (old..(new - 1))
                           /\ old..(new - 1) \cap Given(p) = {}
          /\ new <= old => /\ Given(r) = Given(p) \ (new..(old - 1))
                           /\ new..(old - 1) \subseteq Given(p)
      BY <1>3, <2>1, BreakGiven
    <2>3. PICK M, R, P, K, G : /\ M = Machine /\ R = Running /\ P = Directories
                               /\ K = Stacks /\ G = Grants
      OBVIOUS
    <2>4. Sound(M, R, P, K, G) /\ s \in R /\ P[s] = p.pd /\ G[s] = Given(p)
      BY <1>1, <1>3, <2>3 DEF SInv, Directories, Grants
    <2>5. PICK H : H = [q \in R |-> IF q = s THEN Given(r) ELSE G[q]]
      OBVIOUS
    <2>6. \A q \in R : H[q] = IF q = s THEN Given(r) ELSE G[q]
      BY <2>5
    <2>7. ASSUME old <= new, m = MapPages(Machine, p.pd, old, new)
          PROVE  Sound(m, R, P, K, H)
      <3>1. Gives(H, G, R, s, old..(new - 1))
        BY <2>2, <2>4, <2>6, <2>7 DEF Gives
      <3>2. old..(new - 1) \cap G[s] = {} /\ m = MapPages(M, P[s], old, new)
        BY <2>2, <2>3, <2>4, <2>7
      <3> QED
        BY <2>1, <2>2, <2>4, <3>1, <3>2, MapPagesSound
    <2>8. ASSUME new <= old, m = syscall_unmap_pages(Machine, p.pd, new, old)
          PROVE  Sound(m, R, P, K, H)
      <3>1. Takes(H, G, R, s, new..(old - 1))
        BY <2>2, <2>4, <2>6, <2>8 DEF Takes
      <3>2. new..(old - 1) \subseteq G[s] /\ m = syscall_unmap_pages(M, P[s], new, old)
        BY <2>2, <2>3, <2>4, <2>8
      <3> QED
        BY <2>1, <2>2, <2>4, <3>1, <3>2, UnmapSound
    <2>9. Sound(m, R, P, K, H)
      BY <1>5, <2>7, <2>8 DEF Breaks
    <2>10. r \in Process
      BY <2>2 DEF Shape
    <2>11. Sound(m, Running, Directories, Stacks, H) /\ Sets(H, Grants, Running, s, Given(r))
      BY <2>3, <2>6, <2>9 DEF Sets
    <2>12. r.pd = space[s].pd /\ r.ks = space[s].ks
      BY <1>1, <2>2
    <2> QED
      BY <1>3, <2>1, <2>10, <2>11, <2>12, KeepSound
  <1> QED
    BY <1>2, <1>4, <1>5

LEMMA MmapSound ==
    ASSUME TInv, SInv, Apart, NEW s \in Slots, NEW pages \in Nat, syscall_mmap(s, pages)
    PROVE  SInv'
  <1>1. PICK p : p = space[s]
    OBVIOUS
  <1>2. /\ p # NoProc
        /\ \/ Panics
           \/ \E r, m, next : Maps(s, p, pages, r, m, next)
    BY <1>1, MmapCases
  <1>3. s \in Running /\ Shape(p)
    BY <1>1, <1>2, RunningFacts
  <1>4. CASE Panics
    BY <1>4, SameSound DEF Panics
  <1>5. ASSUME NEW r, NEW m, NEW next, Maps(s, p, pages, r, m, next)
        PROVE  SInv'
    <2>1. /\ p.mmap_next + pages <= MmapEnd /\ m \in Mach /\ ~ m.oom /\ Commit(m, s, r)
          /\ r = Mapped(p, pages)
          /\ next = p.mmap_next /\ m = MapPages(Machine, p.pd, next, next + pages)
      BY <1>5, Zenon DEF Maps
    <2>2. /\ Shape(r) /\ r.pd = p.pd /\ r.ks = p.ks
          /\ next \in Nat /\ next..(next + pages - 1) \subseteq UserPages
          /\ Given(r) = Given(p) \cup (next..(next + pages - 1))
          /\ (next..(next + pages - 1)) \cap Given(p) = {}
      <3>1. MmapEnd <= StackPage
        BY DEF Apart
      <3>2. Shape(r) /\ r.pd = p.pd /\ r.ks = p.ks
        BY <1>3, <2>1, MmapGiven
      <3>3. next \in Nat /\ next..(next + pages - 1) \subseteq UserPages
        BY <1>3, <2>1, MmapGiven
      <3>4. Given(r) = Given(p) \cup (next..(next + pages - 1))
        BY <1>3, <2>1, MmapGiven
      <3>5. (next..(next + pages - 1)) \cap Given(p) = {}
        BY <1>3, <2>1, <3>1, MmapGiven
      <3> QED
        BY <3>2, <3>3, <3>4, <3>5
    <2>3. PICK M, R, P, K, G : /\ M = Machine /\ R = Running /\ P = Directories
                               /\ K = Stacks /\ G = Grants
      OBVIOUS
    <2>4. Sound(M, R, P, K, G) /\ s \in R /\ P[s] = p.pd /\ G[s] = Given(p)
      BY <1>1, <1>3, <2>3 DEF SInv, Directories, Grants
    <2>5. PICK H : H = [q \in R |-> IF q = s THEN Given(r) ELSE G[q]]
      OBVIOUS
    <2>6. \A q \in R : H[q] = IF q = s THEN Given(r) ELSE G[q]
      BY <2>5
    <2>7. PICK to : to = next + pages
      OBVIOUS
    <2>8. to \in Nat /\ next..(to - 1) \subseteq UserPages
      BY <2>2, <2>7
    <2>9. Gives(H, G, R, s, next..(to - 1))
      <3>1. next..(to - 1) = next..(next + pages - 1)
        BY <2>2, <2>7
      <3>2. Given(r) = G[s] \cup (next..(to - 1))
        BY <3>1, <2>2, <2>4
      <3> QED
        BY <3>2, <2>6, Zenon DEF Gives
    <2>10. (next..(to - 1)) \cap G[s] = {} /\ m = MapPages(M, P[s], next, to)
      BY <2>1, <2>2, <2>3, <2>4, <2>7
    <2>11. Sound(m, R, P, K, H)
      BY <2>1, <2>2, <2>4, <2>8, <2>9, <2>10, MapPagesSound
    <2>12. r \in Process
      BY <2>2 DEF Shape
    <2>13. Sound(m, Running, Directories, Stacks, H) /\ Sets(H, Grants, Running, s, Given(r))
      BY <2>3, <2>6, <2>11 DEF Sets
    <2>14. r.pd = space[s].pd /\ r.ks = space[s].ks
      BY <1>1, <2>2
    <2> QED
      BY <1>3, <2>1, <2>12, <2>13, <2>14, KeepSound
  <1> QED
    BY <1>2, <1>4, <1>5

LEMMA MunmapSound ==
    ASSUME TInv, SInv, Apart, NEW s \in Slots, NEW base, syscall_munmap(s, base)
    PROVE  SInv'
  <1>1. PICK p : p = space[s]
    OBVIOUS
  <1>2. p # NoProc /\ \E k, r, m, to : Drops(s, p, base, k, r, m, to)
    BY <1>1, MunmapCases
  <1>3. s \in Running /\ Shape(p)
    BY <1>1, <1>2, RunningFacts
  <1>4. PICK k, r, m, to : Drops(s, p, base, k, r, m, to)
    BY <1>2
  <1>5. /\ \E i \in DOMAIN p.regions : p.regions[i].base = base
        /\ k = First(p, base) /\ r = Without(p, k) /\ to = base + p.regions[k].len
        /\ m = syscall_unmap_pages(Machine, p.pd, base, to)
        /\ m \in Mach /\ ~ m.oom /\ Commit(m, s, r)
    BY <1>4, Zenon DEF Drops
  <1>6. /\ Shape(r) /\ r.pd = p.pd /\ r.ks = p.ks /\ base \in Nat /\ to \in Nat
        /\ base..(to - 1) \subseteq Given(p)
        /\ Given(r) = Given(p) \ (base..(to - 1))
    BY <1>3, <1>5, MunmapGiven DEF Apart
  <1>7. PICK M, R, P, K, G : /\ M = Machine /\ R = Running /\ P = Directories
                             /\ K = Stacks /\ G = Grants
    OBVIOUS
  <1>8. Sound(M, R, P, K, G) /\ s \in R /\ P[s] = p.pd /\ G[s] = Given(p)
    BY <1>1, <1>3, <1>7 DEF SInv, Directories, Grants
  <1>9. PICK H : H = [q \in R |-> IF q = s THEN Given(r) ELSE G[q]]
    OBVIOUS
  <1>10. \A q \in R : H[q] = IF q = s THEN Given(r) ELSE G[q]
    BY <1>9
  <1>11. Takes(H, G, R, s, base..(to - 1))
    BY <1>6, <1>8, <1>10 DEF Takes
  <1>12. base..(to - 1) \subseteq G[s] /\ m = syscall_unmap_pages(M, P[s], base, to)
    BY <1>5, <1>6, <1>7, <1>8
  <1>13. Sound(m, R, P, K, H)
    BY <1>6, <1>8, <1>11, <1>12, UnmapSound
  <1>14. r \in Process
    BY <1>6 DEF Shape
  <1>15. Sound(m, Running, Directories, Stacks, H) /\ Sets(H, Grants, Running, s, Given(r))
    BY <1>7, <1>10, <1>13 DEF Sets
  <1>16. r.pd = space[s].pd /\ r.ks = space[s].ks
    BY <1>1, <1>6
  <1> QED
    BY <1>3, <1>5, <1>14, <1>15, <1>16, KeepSound

\* The directory and the kernel stack of a new process.
LEMMA BeginSound ==
    ASSUME NEW m, NEW R, NEW p, NEW k, NEW G, Sound(m, R, p, k, G),
           NEW s, s \notin R, m.used # Frames,
           NEW m1, m1 = Claim(m), NEW pd, pd = fa_alloc(m),
           NEW m2, m2 = [m1 EXCEPT !.mem[pd] = Blank], m2.used # Frames,
           NEW m3, m3 = Claim(m2), ~ m3.oom, NEW ks, ks = fa_alloc(m2),
           NEW p2, Agree(p2, p, R), p2[s] = pd,
           NEW k2, Agree(k2, k, R), k2[s] = ks,
           NEW H, Agree(H, G, R), H[s] = {}
    PROVE  Sound(m3, R \cup {s}, p2, k2, H)
  <1>1. PICK O : /\ Owned(O, m, R, p, k, G) /\ (\A g \in m.used : O[g].kind # "loose")
    BY DEF Sound
  <1>2. PICK O1 : O1 = [g \in Frames |-> IF g = pd THEN Loose(pd) ELSE O[g]]
    OBVIOUS
  <1>3. /\ Owned(O1, m1, R, p, k, G)
        /\ pd \in m1.used /\ O1[pd].kind = "loose" /\ pd \in Frames
        /\ \A g \in m.used : O1[g] = O[g]
    BY <1>1, <1>2, ClaimOwned
  <1>4. /\ Owned(O1, m2, R, p, k, G)
        /\ m2.used = m1.used /\ m2.mem[pd] = Blank
    <2>1. /\ Owned(O1, m1, R, p, k, G) /\ pd \in m1.used /\ O1[pd].kind \in {"loose", "page"}
          /\ Cleared(m1, m2, pd)
      BY <1>3 DEF Cleared
    <2>2. /\ Owned(O1, m2, R, p, k, G)
          /\ m2.used = m1.used /\ m2.mem[pd] = Blank
      BY ONLY <2>1, BlankOwned
    <2> QED
      BY <1>3, <2>2
  <1>5. PICK O3 : O3 = [g \in Frames |-> IF g = ks THEN Loose(ks) ELSE O1[g]]
    OBVIOUS
  <1>6. /\ Owned(O3, m3, R, p, k, G)
        /\ ks \in m3.used /\ O3[ks].kind = "loose" /\ ks \in Frames
        /\ \A g \in m2.used : O3[g] = O1[g]
    <2>1. Owned(O1, m2, R, p, k, G) /\ m2.used # Frames /\ ks = fa_alloc(m2)
      BY <1>4
    <2>2. /\ Owned(O3, Claim(m2), R, p, k, G)
          /\ ks \in Claim(m2).used /\ O3[ks].kind = "loose" /\ ks \in Frames
          /\ \A g \in m2.used : O3[g] = O1[g]
      BY ONLY <2>1, <1>5, ClaimOwned
    <2> QED
      BY <1>4, <2>2
  <1>7. m \in Mach /\ m1.used = m.used \cup {pd}
    BY <1>1, ClaimFacts DEF Owned
  <1>8. m2 \in Mach /\ ks \notin m2.used /\ m3.used = m2.used \cup {ks} /\ m3.mem = m2.mem
    <2>1. m2 \in Mach /\ m2.used # Frames /\ ks = fa_alloc(m2) /\ m3 = Claim(m2)
      BY <1>4 DEF Owned
    <2> QED
      BY ONLY <2>1, ClaimFacts, AllocFacts
  <1>9. pd # ks /\ pd \in m3.used /\ O3[pd].kind = "loose" /\ m3.mem[pd] = Blank
    BY <1>3, <1>4, <1>6, <1>8
  <1>10. PICK Q : Q = [g \in Frames |-> IF g = pd THEN PdOf(s) ELSE IF g = ks THEN KsOf(s) ELSE O3[g]]
    OBVIOUS
  <1>11. /\ Owned(Q, m3, R \cup {s}, p2, k2, H)
    <2>1. /\ Owned(O3, m3, R, p, k, G) /\ s \notin R /\ pd \in m3.used /\ ks \in m3.used
          /\ pd # ks /\ O3[pd].kind = "loose" /\ O3[ks].kind = "loose" /\ m3.mem[pd] = Blank
      BY <1>6, <1>9
    <2>2. /\ Agree(p2, p, R) /\ p2[s] = pd /\ Agree(k2, k, R) /\ k2[s] = ks
          /\ Agree(H, G, R) /\ H[s] = {}
      OBVIOUS
    <2> QED
      BY ONLY <2>1, <2>2, <1>10, NewOwned, SMTT(30)
  <1>12. ASSUME NEW g \in m3.used PROVE Q[g].kind # "loose"
    <2>1. g \in Frames
      BY <1>6 DEF Owned, Mach
    <2>2. CASE g = pd \/ g = ks
      BY <2>1, <2>2, <1>10, UseFacts
    <2>3. CASE g # pd /\ g # ks
      <3>1. g \in m2.used /\ g \in m.used
        BY <2>3, <1>4, <1>7, <1>8
      <3>2. Q[g] = O[g]
        BY <2>1, <2>3, <3>1, <1>3, <1>6, <1>10
      <3> QED
        BY <3>1, <3>2, <1>1
    <2> QED
      BY <2>2, <2>3
  <1> QED
    BY <1>6, <1>11, <1>12 DEF Sound

\* A page that was given is cleared.
LEMMA ClearSound ==
    ASSUME NEW m, NEW R, NEW p, NEW k, NEW G, Sound(m, R, p, k, G),
           NEW s \in R, NEW v \in G[s], NEW pd, pd = p[s],
           NEW n, n = [m EXCEPT !.mem[FrameOf(m, pd, v)] = Blank]
    PROVE  Sound(n, R, p, k, G)
  <1>1. PICK O : /\ Owned(O, m, R, p, k, G) /\ (\A g \in m.used : O[g].kind # "loose")
    BY DEF Sound
  <1>2. PICK a : a = FrameOf(m, pd, v)
    OBVIOUS
  <1>3. a \in m.used /\ O[a] = PageOf(s, v)
    BY <1>1, <1>2, GivenFacts
  <1>4. O[a].kind \in {"loose", "page"} /\ Cleared(m, n, a)
    BY <1>2, <1>3, UseFacts DEF Cleared
  <1>5. /\ Owned(O, n, R, p, k, G)
        /\ n.used = m.used /\ n.oom = m.oom
    BY <1>1, <1>3, <1>4, BlankOwned
  <1> QED
    BY <1>1, <1>5 DEF Sound

LEMMA ElfSound ==
    ASSUME TInv, SInv, NEW s \in Slots, elf_load(s)
    PROVE  SInv'
  <1>1. /\ space[s] = NoProc
        /\ \/ Panics
           \/ \E m1, m2, m3, m4, m5, m, pd, ks : Loads(s, m1, m2, m3, m4, m5, m, pd, ks)
    BY ElfCases
  <1>2. CASE Panics
    BY <1>2, SameSound DEF Panics
  <1>3. CASE \E m1, m2, m3, m4, m5, m, pd, ks : Loads(s, m1, m2, m3, m4, m5, m, pd, ks)
    <2>1. PICK m1, m2, m3, m4, m5, m, pd, ks : Loads(s, m1, m2, m3, m4, m5, m, pd, ks)
      BY <1>3
    <2>2. PICK M, R, P, K, G : /\ M = Machine /\ R = Running /\ P = Directories
                               /\ K = Stacks /\ G = Grants
      OBVIOUS
    <2>3. /\ M.used # Frames /\ m1 = Claim(M) /\ pd = fa_alloc(M)
          /\ m2 = [m1 EXCEPT !.mem[pd] = Blank]
          /\ m2.used # Frames /\ m3 = Claim(m2) /\ ks = fa_alloc(m2)
      BY <2>1, <2>2 DEF Loads
    <2>4. /\ m4 = MapPages(m3, pd, StackPage, StackPage + 1)
          /\ m5 = MapPages(m4, pd, 0, 1)
          /\ m = [m5 EXCEPT !.mem[FrameOf(m5, pd, 0)] = Blank]
      BY <2>1 DEF Loads
    <2>5. /\ m \in Mach /\ ~ m3.oom /\ ~ m4.oom /\ ~ m5.oom /\ ~ m.oom
          /\ pd \in Frames /\ ks \in Frames /\ Commit(m, s, Fresh(created, pd, ks))
      BY <2>1 DEF Loads
    <2>6. PICK r : r = Fresh(created, pd, ks)
      OBVIOUS
    <2>7. Shape(r) /\ r \in Process /\ r.pd = pd /\ r.ks = ks /\ Given(r) = {0, StackPage}
      BY <2>5, <2>6, FreshFacts DEF Shape
    <2>8. /\ Machine' = m /\ Running' = R \cup {s}
          /\ space'[s] = r /\ \A q \in Slots : q # s => space'[q] = space[q]
      BY <2>2, <2>5, <2>6, <2>7, CommitFacts
    <2>9. R \subseteq Slots /\ s \notin R
      BY <1>1, <2>2 DEF Running
    <2>10. PICK p2, k2, H : p2 = Directories' /\ k2 = Stacks' /\ H = Grants'
      OBVIOUS
    <2>11. /\ \A q \in Slots : p2[q] = space'[q].pd /\ k2[q] = space'[q].ks /\ H[q] = Given(space'[q])
           /\ \A q \in Slots : P[q] = space[q].pd /\ K[q] = space[q].ks /\ G[q] = Given(space[q])
      BY <2>2, <2>10 DEF Directories, Stacks, Grants
    <2>12. /\ Agree(p2, P, R) /\ Agree(k2, K, R) /\ Agree(H, G, R)
           /\ p2[s] = pd /\ k2[s] = ks /\ H[s] = {0, StackPage}
      BY <2>7, <2>8, <2>9, <2>11 DEF Agree
    <2>13. PICK H0, H1, H2 :
               /\ H0 = [q \in Slots |-> IF q = s THEN {} ELSE G[q]]
               /\ H1 = [q \in Slots |-> IF q = s THEN {StackPage} ELSE G[q]]
               /\ H2 = [q \in Slots |-> IF q = s THEN {StackPage, 0} ELSE G[q]]
      OBVIOUS
    <2>14. /\ \A q \in R : H0[q] = G[q] /\ H1[q] = G[q] /\ H2[q] = G[q]
           /\ H0[s] = {} /\ H1[s] = {StackPage} /\ H2[s] = {StackPage, 0}
      BY <2>9, <2>13
    <2>15. Sound(M, R, P, K, G)
      BY <2>2 DEF SInv
    <2>16. PICK S : S = R \cup {s}
      OBVIOUS
    <2>17. s \in S /\ \A q \in S : q # s => q \in R
      BY <2>16
    <2>18. Agree(H0, G, R)
      BY <2>14 DEF Agree
    <2>19. Sound(m3, S, p2, k2, H0)
      <3>1. H0[s] = {} /\ ~ m3.oom /\ s \notin R
        BY <2>5, <2>9, <2>14
      <3>2. Agree(p2, P, R) /\ Agree(k2, K, R) /\ p2[s] = pd /\ k2[s] = ks
        BY <2>12
      <3> QED
        BY ONLY <2>3, <2>15, <2>16, <2>18, <3>1, <3>2, BeginSound
    <2>20. Sound(m4, S, p2, k2, H1)
      <3>1. PICK from, to : from = StackPage /\ to = StackPage + 1
        OBVIOUS
      <3>2. from \in Nat /\ to \in Nat /\ from..(to - 1) = {StackPage}
        BY <3>1, StackAndImage
      <3>3. from..(to - 1) \subseteq UserPages /\ from..(to - 1) \cap H0[s] = {}
        BY <2>14, <3>2, StackAndImage
      <3>4. Gives(H1, H0, S, s, from..(to - 1))
        BY <2>14, <2>17, <3>2 DEF Gives
      <3>5. m4 = MapPages(m3, p2[s], from, to)
        BY <2>4, <2>12, <3>1
      <3> QED
        BY <2>5, <2>17, <2>19, <3>2, <3>3, <3>4, <3>5, MapPagesSound
    <2>21. Sound(m5, S, p2, k2, H2)
      <3>1. PICK from, to : from = 0 /\ to = 1
        OBVIOUS
      <3>2. from \in Nat /\ to \in Nat /\ from..(to - 1) = {0}
        BY <3>1
      <3>3. from..(to - 1) \subseteq UserPages /\ from..(to - 1) \cap H1[s] = {}
        BY <2>14, <3>2, StackAndImage
      <3>4. Gives(H2, H1, S, s, from..(to - 1))
        BY <2>14, <2>17, <3>2 DEF Gives
      <3>5. m5 = MapPages(m4, p2[s], from, to)
        BY <2>4, <2>12, <3>1
      <3> QED
        BY <2>5, <2>17, <2>20, <3>2, <3>3, <3>4, <3>5, MapPagesSound
    <2>22. Sound(m, S, p2, k2, H2)
      <3>1. PICK v : v = 0
        OBVIOUS
      <3>2. v \in H2[s] /\ m = [m5 EXCEPT !.mem[FrameOf(m5, pd, v)] = Blank] /\ pd = p2[s]
        BY <2>4, <2>12, <2>14, <3>1
      <3> QED
        BY <2>17, <2>21, <3>2, ClearSound
    <2>23. Agree(H, H2, S) /\ Agree(p2, p2, S) /\ Agree(k2, k2, S)
      <3>1. \A q \in R : H[q] = G[q]
        BY <2>12 DEF Agree
      <3>2. H[s] = H2[s]
        BY <2>12, <2>14
      <3> QED
        BY <2>14, <2>17, <3>1, <3>2 DEF Agree
    <2>24. Sound(m, S, p2, k2, H)
      BY <2>22, <2>23, SoundAgree
    <2> QED
      BY <2>8, <2>10, <2>16, <2>24 DEF SInv
  <1> QED
    BY <1>1, <1>2, <1>3

-----------------------------------------------------------------------------
(* What the owners show *)

LEMMA GrantsAre ==
    \A s \in Slots : /\ Grants[s] = Granted(s) /\ Directories[s] = space[s].pd
                     /\ Stacks[s] = space[s].ks
  BY DEF Grants, Directories, Stacks, Given, Granted

\* The owner function, in the terms of the properties.
LEMMA OwnerExists ==
    ASSUME TInv, SInv
    PROVE  \E O : /\ Owned(O, Machine, Running, Directories, Stacks, Grants)
                  /\ \A f \in used : O[f].kind # "loose"
  BY DEF SInv, Sound, Machine

\* proc_destroy finds every frame that serves the process.
LEMMA ServesIsHeld ==
    ASSUME TInv, NEW O, Owned(O, Machine, Running, Directories, Stacks, Grants),
           NEW f \in used, NEW s \in Running, Serves(f, Machine, s, Directories, Stacks, Grants)
    PROVE  f \in Held(space[s])
  <1>3. PICK M : M = Machine
    OBVIOUS
  <1>4. M.used = used /\ M.mem = mem /\ M \in Mach
    BY <1>3 DEF Machine, TInv
  <1>6. PICK p : p = space[s]
    OBVIOUS
  <1>7. s \in Slots /\ Directories[s] = p.pd /\ Stacks[s] = p.ks
    BY <1>6, GrantsAre DEF Running
  <1>8. f # Absent
    BY <1>4, Numbers DEF Mach
  <1>9. ASSUME NEW t \in TableNos, M.mem[p.pd][t] # Absent PROVE M.mem[p.pd][t] \in Tables(M, p.pd)
    BY <1>9 DEF Tables, TableNos
  <1>10. ASSUME f = p.pd \/ f = p.ks PROVE f \in Held(p)
    BY <1>10 DEF Held
  <1>11. ASSUME NEW t \in TableNos, f = M.mem[p.pd][t] PROVE f \in Held(p)
    BY <1>3, <1>8, <1>9, <1>11 DEF Held
  <1>12. ASSUME NEW v \in Grants[s], f = FrameOf(M, p.pd, v) PROVE f \in Held(p)
    <2>1. PICK d : d = Directories
      OBVIOUS
    <2>2. /\ v \in UserPages /\ v \div PerTable \in TableNos /\ v % PerTable \in Indices
          /\ M.mem[d[s]][v \div PerTable] # Absent
      BY <1>3, <2>1, GivenFacts
    <2>3. PICK pt, i : pt = M.mem[p.pd][v \div PerTable] /\ i = v % PerTable
      OBVIOUS
    <2>4. pt \in Tables(M, p.pd) /\ i \in Indices /\ f = M.mem[pt][i]
      BY <1>7, <1>9, <1>12, <2>1, <2>2, <2>3 DEF FrameOf
    <2>5. f \in Pages(M, p.pd)
      BY <1>8, <2>4 DEF Pages, Indices
    <2> QED
      BY <1>3, <2>5 DEF Held
  <1>13. f \in Held(p)
    BY <1>3, <1>6, <1>7, <1>10, <1>11, <1>12 DEF Serves
  <1> QED
    BY <1>6, <1>13

\* A frame that serves a process is one it needs.
LEMMA ServesIsNeeded ==
    ASSUME NEW s \in Running, NEW M, M = Machine, NEW d, d = Directories[s]
    PROVE  /\ d \in Needed(s) /\ Stacks[s] \in Needed(s)
           /\ \A t \in TableNos : M.mem[d][t] # Absent => M.mem[d][t] \in Needed(s)
           /\ \A v \in Grants[s] : FrameOf(M, d, v) \in Needed(s)
  <1>1. d = space[s].pd /\ Stacks[s] = space[s].ks /\ Grants[s] = Granted(s)
    BY GrantsAre DEF Running
  <1>2. \A t \in TableNos : M.mem[d][t] # Absent => M.mem[d][t] \in Tables(M, d)
    BY DEF Tables, TableNos
  <1> QED
    BY <1>1, <1>2 DEF Needed

LEMMA DestroySound ==
    ASSUME TInv, SInv, NEW s \in Slots, proc_destroy(s), ~ robbed'
    PROVE  SInv'
  <1>1. PICK U, F : U = used' /\ F = Freed(space[s])
    OBVIOUS
  <1>2. /\ U = used \ F /\ mem' = mem /\ space[s] # NoProc
        /\ space' = [space EXCEPT ![s] = NoProc]
    BY <1>1 DEF proc_destroy
  <1>3. \A q \in Running \ {s} : F \cap Needed(q) = {}
    BY <1>1 DEF proc_destroy
  <1>4. PICK R : R = Running \ {s}
    OBVIOUS
  <1>5. s \in Running /\ R \subseteq Running /\ R \subseteq Slots /\ Running' = R
    <2>1. s \in Running /\ Running \subseteq Slots
      BY <1>2 DEF Running
    <2>2. \A q \in Slots : space'[q] = IF q = s THEN NoProc ELSE space[q]
      BY <1>2 DEF TInv, Spaces
    <2>3. Running' = R
      BY <1>4, <2>2 DEF Running
    <2> QED
      BY <1>4, <2>1, <2>3
  <1>6. \A q \in R : space'[q] = space[q]
    BY <1>2, <1>4, <1>5 DEF TInv, Spaces
  <1>7. PICK M, d, k, G : M = Machine /\ d = Directories /\ k = Stacks /\ G = Grants
    OBVIOUS
  <1>8. PICK O : Owned(O, M, Running, d, k, G) /\ \A f \in used : O[f].kind # "loose"
    BY <1>7, OwnerExists
  <1>9. PICK N : N = Machine'
    OBVIOUS
  <1>10. /\ N.used = U /\ N.mem = M.mem /\ N.oom = FALSE /\ M.used = used /\ M \in Mach
    BY <1>1, <1>2, <1>7, <1>9 DEF Machine, TInv
  <1>11. N \in Mach
    <2>1. N = [used |-> U, mem |-> mem, oom |-> FALSE] /\ M = [used |-> used, mem |-> mem, oom |-> FALSE]
      BY <1>1, <1>2, <1>7, <1>9 DEF Machine
    <2> QED
      BY <1>2, <1>10, <2>1 DEF Mach
  <1>12. ASSUME NEW q \in R, NEW f \in used, f \in Needed(q) PROVE f \in N.used
    BY <1>2, <1>3, <1>4, <1>10, <1>12
  <1>13. ASSUME NEW q \in R
         PROVE  /\ d[q] \in Needed(q) /\ k[q] \in Needed(q)
                /\ \A t \in TableNos : M.mem[d[q]][t] # Absent => M.mem[d[q]][t] \in Needed(q)
                /\ \A v \in G[q] : FrameOf(M, d[q], v) \in Needed(q)
    <2>1. q \in Running
      BY <1>5
    <2> QED
      BY <1>7, <2>1, ServesIsNeeded
  <1>14. Roots(O, N, R, d, k)
    <2>1. ASSUME NEW q \in R PROVE /\ d[q] \in used /\ O[d[q]] = PdOf(q)
                                   /\ k[q] \in used /\ O[k[q]] = KsOf(q)
      BY <1>5, <1>8, <1>10 DEF Owned, Roots
    <2> QED
      BY <1>12, <1>13, <2>1 DEF Roots
  <1>15. TablesOwned(O, N, R, d)
    <2>1. SUFFICES ASSUME NEW q \in R, NEW t \in TableNos, M.mem[d[q]][t] # Absent
                   PROVE  M.mem[d[q]][t] \in N.used /\ O[M.mem[d[q]][t]] = TableOf(q, t)
      BY <1>10 DEF TablesOwned
    <2>2. M.mem[d[q]][t] \in used /\ O[M.mem[d[q]][t]] = TableOf(q, t)
      BY <1>5, <1>8, <1>10, <2>1 DEF Owned, TablesOwned
    <2> QED
      BY <1>12, <1>13, <2>1, <2>2
  <1>16. ASSUME NEW q, NEW v PROVE /\ Present(N, q, v) <=> Present(M, q, v)
                                   /\ FrameOf(N, q, v) = FrameOf(M, q, v)
    BY <1>10 DEF Present, FrameOf
  <1>17. PagesOwned(O, N, R, d, G)
    <2>1. SUFFICES ASSUME NEW q \in R, NEW v \in G[q]
                   PROVE  /\ v \in UserPages /\ Present(M, d[q], v)
                          /\ FrameOf(M, d[q], v) \in N.used
                          /\ O[FrameOf(M, d[q], v)] = PageOf(q, v)
      BY <1>16 DEF PagesOwned
    <2>2. /\ v \in UserPages /\ Present(M, d[q], v) /\ FrameOf(M, d[q], v) \in used
          /\ O[FrameOf(M, d[q], v)] = PageOf(q, v)
      BY <1>5, <1>8, <1>10 DEF Owned, PagesOwned
    <2> QED
      BY <1>12, <1>13, <2>2
  <1>18. AllOwned(O, N, R, d, k, G)
    <2>1. SUFFICES ASSUME NEW f \in N.used PROVE \E q \in R : Serves(f, N, q, d, k, G)
      BY DEF AllOwned
    <2>2. f \in used /\ f \notin F
      BY <1>2, <1>10, <2>1
    <2>3. PICK q \in Running : Serves(f, M, q, d, k, G)
      BY <1>8, <1>10, <2>2 DEF Owned, AllOwned
    <2>4. q # s
      <3>1. SUFFICES ASSUME q = s PROVE f \in F
        BY <2>2
      <3>2. f \in Held(space[s])
        BY <1>5, <1>7, <1>8, <2>2, <2>3, <3>1, ServesIsHeld
      <3> QED
        BY <1>1, <3>2 DEF Freed
    <2>5. Serves(f, N, q, d, k, G)
      BY <1>10, <1>16, <2>3 DEF Serves
    <2> QED
      BY <1>4, <2>4, <2>5
  <1>19. Owned(O, N, R, d, k, G)
    BY <1>11, <1>14, <1>15, <1>17, <1>18 DEF Owned
  <1>20. Sound(N, R, d, k, G)
    BY <1>2, <1>8, <1>10, <1>19 DEF Sound
  <1>21. PICK d2, k2, G2 : d2 = Directories' /\ k2 = Stacks' /\ G2 = Grants'
    OBVIOUS
  <1>22. Agree(d2, d, R) /\ Agree(k2, k, R) /\ Agree(G2, G, R)
    <2>1. \A q \in Slots : d2[q] = space'[q].pd /\ k2[q] = space'[q].ks /\ G2[q] = Given(space'[q])
      BY <1>21 DEF Directories, Stacks, Grants
    <2>2. \A q \in Slots : d[q] = space[q].pd /\ k[q] = space[q].ks /\ G[q] = Given(space[q])
      BY <1>7 DEF Directories, Stacks, Grants
    <2> QED
      BY <1>5, <1>6, <2>1, <2>2 DEF Agree
  <1>23. Sound(N, R, d2, k2, G2)
    BY <1>20, <1>22, SoundAgree
  <1> QED
    BY <1>5, <1>9, <1>21, <1>23 DEF SInv

\* A store into a page that was given, or into a kernel stack.
LEMMA StoreSound ==
    ASSUME TInv, SInv, NEW s \in Slots, NEW i \in Indices, NEW w \in Word, store(s, i, w)
    PROVE  SInv'
  <1>1. PICK M, N, R, d, k, G : /\ M = Machine /\ N = Machine' /\ R = Running
                                /\ d = Directories /\ k = Stacks /\ G = Grants
    OBVIOUS
  <1>2. PICK f \in {space[s].ks} \cup {FrameOf(Machine, space[s].pd, v) : v \in Granted(s)} :
            mem' = [mem EXCEPT ![f][i] = w]
    BY DEF store
  <1>3. UNCHANGED <<used, space>> /\ s \in R
    BY <1>1 DEF store, Running
  <1>4. PICK O : Owned(O, M, R, d, k, G) /\ \A g \in used : O[g].kind # "loose"
    BY <1>1, OwnerExists
  <1>5. M \in Mach /\ M.used = used /\ M.oom = FALSE
    BY <1>1 DEF Machine, TInv
  <1>6. d[s] = space[s].pd /\ k[s] = space[s].ks /\ G[s] = Granted(s)
    BY <1>1, <1>3, GrantsAre
  <1>7. f \in M.used /\ O[f].kind \in {"loose", "page", "ks"}
    <2>1. CASE f = space[s].ks
      BY <1>3, <1>4, <1>6, <2>1, UseFacts DEF Owned, Roots
    <2>2. ASSUME NEW v \in G[s], f = FrameOf(M, d[s], v) PROVE f \in M.used /\ O[f].kind = "page"
      BY <1>3, <1>4, <2>2, GivenFacts, UseFacts
    <2> QED
      BY <1>1, <1>2, <1>6, <2>1, <2>2
  <1>8. f \in Frames
    BY <1>5, <1>7 DEF Mach
  <1>9. Wrote(M, N, f, i, w)
    BY <1>1, <1>2, <1>3, StoreWrote DEF TInv
  <1>10. OnlyIn(M, N, f)
    BY <1>5, <1>8, <1>9, WroteFacts DEF OnlyIn
  <1>11. Owned(O, N, R, d, k, G)
    BY <1>4, <1>7, <1>10, DataOwned
  <1>12. N.used = M.used /\ N.oom = M.oom
    BY <1>10 DEF OnlyIn
  <1>13. Sound(N, R, d, k, G)
    BY <1>4, <1>5, <1>11, <1>12 DEF Sound
  <1>14. Running' = R /\ Directories' = d /\ Stacks' = k /\ Grants' = G
    BY <1>1, <1>3 DEF Running, Directories, Stacks, Grants
  <1> QED
    BY <1>1, <1>13, <1>14 DEF SInv

LEMMA GrantedIsMappedHolds ==
    ASSUME TInv, SInv
    PROVE  GrantedIsMapped
  <1>1. SUFFICES ASSUME NEW s \in Running, NEW v \in Granted(s)
                 PROVE  /\ mem[space[s].pd][v \div PerTable] \in Frames
                        /\ FrameOf(Machine, space[s].pd, v) \in Frames
    BY DEF GrantedIsMapped
  <1>2. PICK M, d, k, G : M = Machine /\ d = Directories /\ k = Stacks /\ G = Grants
    OBVIOUS
  <1>3. PICK O : Owned(O, M, Running, d, k, G)
    BY <1>2, OwnerExists
  <1>4. v \in G[s] /\ d[s] = space[s].pd /\ M.mem = mem
    BY <1>2, GrantsAre DEF Running, Machine
  <1>5. M.mem[d[s]][v \div PerTable] \in Frames /\ FrameOf(M, d[s], v) \in Frames
    BY <1>3, <1>4, GivenFacts
  <1> QED
    BY <1>2, <1>4, <1>5

\* Whatever it frees, proc_destroy changes no mapping.
LEMMA DestroyMapped ==
    ASSUME TInv, GrantedIsMapped, NEW s \in Slots, proc_destroy(s)
    PROVE  GrantedIsMapped'
  <1>1. mem' = mem /\ space' = [space EXCEPT ![s] = NoProc]
    BY DEF proc_destroy
  <1>2. \A q \in Running' : q \in Running /\ space'[q] = space[q]
    BY <1>1 DEF TInv, Spaces, Running
  <1>3. \A q \in Running' : Granted(q)' = Granted(q)
    BY <1>2 DEF Granted
  <1>4. \A q, v : FrameOf(Machine, q, v)' = FrameOf(Machine, q, v)
    BY <1>1 DEF FrameOf, Machine
  <1> QED
    BY <1>1, <1>2, <1>3, <1>4 DEF GrantedIsMapped, FrameOf, Machine

LEMMA InitIInv ==
    Init => IInv
  <1>1. SUFFICES ASSUME Init PROVE SInv
    BY InitTInv DEF IInv, Init
  <1>2. Running = {} /\ Machine \in Mach /\ Machine.used = {} /\ Machine.oom = FALSE
    BY <1>1, InitTInv DEF Init, Running, Machine, TInv
  <1>3. PICK M, p, k, G, O : M = Machine /\ p = Directories /\ k = Stacks /\ G = Grants /\ O = <<>>
    OBVIOUS
  <1>4. Owned(O, M, {}, p, k, G)
    BY <1>2, <1>3 DEF Owned, Roots, TablesOwned, PagesOwned, AllOwned
  <1>6. Sound(M, {}, p, k, G)
    BY <1>2, <1>3, <1>4 DEF Sound
  <1> QED
    BY <1>2, <1>3, <1>6 DEF SInv

LEMMA NextIInv ==
    ASSUME Apart
    PROVE  IInv /\ [Next]_vars => IInv'
  <1>1. SUFFICES ASSUME IInv, [Next]_vars
                 PROVE  (~ robbed' => SInv') /\ (robbed' => GrantedIsMapped')
    BY NextTInv DEF IInv
  <1>2. TInv
    BY <1>1 DEF IInv
  <1>3. CASE UNCHANGED vars
    <2>1. SInv => SInv'
      BY <1>2, <1>3, SameSound DEF vars
    <2>2. GrantedIsMapped => GrantedIsMapped'
      BY <1>3 DEF vars, GrantedIsMapped, Running, Granted, FrameOf, Machine
    <2> QED
      BY <1>1, <1>3, <2>1, <2>2 DEF IInv, vars
  <1>4. ASSUME NEW s \in Slots, elf_load(s) PROVE ~ robbed' /\ SInv'
    <2>1. ~ robbed /\ robbed' = robbed
      BY <1>4 DEF elf_load, Sane, CommitOrPanic, Commit
    <2> QED
      BY <1>1, <1>2, <1>4, <2>1, ElfSound DEF IInv
  <1>5. ASSUME NEW s \in Slots, NEW inc \in (-MaxSbrk)..MaxSbrk, syscall_sbrk(s, inc)
        PROVE  ~ robbed' /\ SInv'
    <2>1. ~ robbed /\ robbed' = robbed
      BY <1>5 DEF syscall_sbrk, Sane, CommitOrPanic, Commit
    <2>2. inc \in Int
      BY AddrAssumption
    <2> QED
      BY <1>1, <1>2, <1>5, <2>1, <2>2, SbrkSound DEF IInv
  <1>6. ASSUME NEW s \in Slots, NEW pages \in 0..MaxMmap, syscall_mmap(s, pages)
        PROVE  ~ robbed' /\ SInv'
    <2>1. ~ robbed /\ robbed' = robbed
      BY <1>6 DEF syscall_mmap, Sane, CommitOrPanic, Commit
    <2>2. pages \in Nat
      BY AddrAssumption
    <2> QED
      BY <1>1, <1>2, <1>6, <2>1, <2>2, MmapSound DEF IInv
  <1>7. ASSUME NEW s \in Slots, NEW base \in MmapBase..MmapEnd, syscall_munmap(s, base)
        PROVE  ~ robbed' /\ SInv'
    <2>1. ~ robbed /\ robbed' = robbed
      BY <1>7 DEF syscall_munmap, Sane, Commit
    <2> QED
      BY <1>1, <1>2, <1>7, <2>1, MunmapSound DEF IInv
  <1>8. ASSUME NEW s \in Slots, NEW i \in 0..(PerTable - 1), NEW w \in Words, store(s, i, w)
        PROVE  ~ robbed' /\ SInv'
    <2>1. ~ robbed /\ robbed' = robbed
      BY <1>8 DEF store, Sane
    <2>2. i \in Indices /\ w \in Word
      BY WordsAssumption DEF Indices
    <2> QED
      BY <1>1, <1>2, <1>8, <2>1, <2>2, StoreSound DEF IInv
  <1>9. ASSUME NEW s \in Slots, proc_destroy(s)
        PROVE  (~ robbed' => SInv') /\ (robbed' => GrantedIsMapped')
    <2>1. SInv
      BY <1>1, <1>9 DEF IInv, proc_destroy, Sane
    <2>2. GrantedIsMapped
      BY <1>2, <2>1, GrantedIsMappedHolds
    <2> QED
      BY <1>2, <1>9, <2>1, <2>2, DestroySound, DestroyMapped
  <1> QED
    BY <1>1, <1>3, <1>4, <1>5, <1>6, <1>7, <1>8, <1>9 DEF Next

\* The owner of the frame at a place of a process.
UseAt(s, place) == [kind |-> place.kind, slot |-> s, at |-> place.at]

LEMMA PlaceFacts ==
    ASSUME NEW x \in Places
    PROVE  /\ \/ x.kind = "pd" /\ x.at = 0
              \/ x.kind = "ks" /\ x.at = 0
              \/ x.kind = "table" /\ x.at \in TableNos
              \/ x.kind = "page" /\ x.at \in UserPages
           /\ x = [kind |-> x.kind, at |-> x.at]
  BY DEF Places, TableNos

\* The frame at a place is in use, for that.
LEMMA PlaceOwned ==
    ASSUME TInv, NEW O, Owned(O, Machine, Running, Directories, Stacks, Grants),
           NEW s \in Running, NEW x \in Places, NEW f, f = FrameAt(s, x), f # Absent
    PROVE  f \in used /\ O[f] = UseAt(s, x)
  <1>1. PICK M, d, k, pd : M = Machine /\ d = Directories /\ k = Stacks /\ pd = space[s].pd
    OBVIOUS
  <1>2. M.used = used /\ M.mem = mem
    BY <1>1 DEF Machine
  <1>3. d[s] = pd /\ k[s] = space[s].ks
    BY <1>1, GrantsAre DEF Running
  <1>4. CASE x.kind = "pd" /\ x.at = 0
    <2>1. f = pd
      BY <1>1, <1>4 DEF FrameAt
    <2> QED
      BY <1>1, <1>2, <1>3, <1>4, <2>1 DEF Owned, Roots, UseAt, PdOf
  <1>5. CASE x.kind = "ks" /\ x.at = 0
    <2>1. f = space[s].ks
      BY <1>5 DEF FrameAt
    <2> QED
      BY <1>1, <1>2, <1>3, <1>5, <2>1 DEF Owned, Roots, UseAt, KsOf
  <1>6. CASE x.kind = "table" /\ x.at \in TableNos
    <2>1. f = M.mem[d[s]][x.at]
      BY <1>1, <1>2, <1>3, <1>6 DEF FrameAt
    <2>2. f \in M.used /\ O[f] = TableOf(s, x.at)
      BY <1>1, <1>6, <2>1 DEF Owned, TablesOwned
    <2> QED
      BY <1>2, <1>6, <2>2 DEF UseAt, TableOf
  <1>7. CASE x.kind = "page" /\ x.at \in UserPages
    <2>1. f = IF x.at \in Granted(s) THEN FrameOf(M, pd, x.at) ELSE Absent
      BY <1>1, <1>7 DEF FrameAt
    <2>2. x.at \in Granted(s) /\ f = FrameOf(M, d[s], x.at)
      BY <1>3, <2>1
    <2>3. x.at \in Grants[s]
      BY <2>2, GrantsAre DEF Running
    <2>4. f \in M.used /\ O[f] = PageOf(s, x.at)
      BY <1>1, <2>2, <2>3 DEF Owned, PagesOwned
    <2> QED
      BY <1>2, <1>7, <2>4 DEF UseAt, PageOf
  <1> QED
    BY <1>4, <1>5, <1>6, <1>7, PlaceFacts

\* A frame in use is at some place.
LEMMA ServesIsPlace ==
    ASSUME TInv, NEW O, Owned(O, Machine, Running, Directories, Stacks, Grants),
           NEW s \in Running, NEW f \in used, Serves(f, Machine, s, Directories, Stacks, Grants)
    PROVE  \E x \in Places : f = FrameAt(s, x)
  <1>1. PICK M, d, k, pd : M = Machine /\ d = Directories /\ k = Stacks /\ pd = space[s].pd
    OBVIOUS
  <1>2. M.used = used /\ M.mem = mem /\ M \in Mach
    BY <1>1 DEF Machine, TInv
  <1>3. d[s] = pd /\ k[s] = space[s].ks
    BY <1>1, GrantsAre DEF Running
  <1>4. CASE f = d[s]
    <2>1. PICK x : x = [kind |-> "pd", at |-> 0]
      OBVIOUS
    <2>2. x \in Places /\ x.kind = "pd"
      BY <2>1 DEF Places
    <2> QED
      BY <1>1, <1>3, <1>4, <2>2 DEF FrameAt
  <1>5. CASE f = k[s]
    <2>1. PICK x : x = [kind |-> "ks", at |-> 0]
      OBVIOUS
    <2>2. x \in Places /\ x.kind = "ks"
      BY <2>1 DEF Places
    <2> QED
      BY <1>1, <1>3, <1>5, <2>2 DEF FrameAt
  <1>6. ASSUME NEW t \in TableNos, f = M.mem[d[s]][t] PROVE \E x \in Places : f = FrameAt(s, x)
    <2>1. PICK x : x = [kind |-> "table", at |-> t]
      OBVIOUS
    <2>2. x \in Places /\ x.kind = "table" /\ x.at = t
      BY <2>1 DEF Places, TableNos
    <2> QED
      BY <1>1, <1>2, <1>3, <1>6, <2>2 DEF FrameAt
  <1>7. ASSUME NEW v \in Grants[s], f = FrameOf(M, d[s], v) PROVE \E x \in Places : f = FrameAt(s, x)
    <2>1. PICK x : x = [kind |-> "page", at |-> v]
      OBVIOUS
    <2>2. v \in UserPages /\ v \in Granted(s)
      BY <1>1, <1>3, GrantsAre DEF Owned, PagesOwned, Running
    <2>3. x \in Places /\ x.kind = "page" /\ x.at = v
      BY <2>1, <2>2 DEF Places
    <2> QED
      BY <1>1, <1>3, <1>7, <2>2, <2>3 DEF FrameAt
  <1>8. \/ f = d[s] \/ f = k[s] \/ (\E t \in TableNos : f = M.mem[d[s]][t])
        \/ \E v \in Grants[s] : f = FrameOf(M, d[s], v)
    BY <1>1 DEF Serves
  <1> QED
    BY <1>4, <1>5, <1>6, <1>7, <1>8

LEMMA FramesPrivateHolds ==
    ASSUME TInv, SInv
    PROVE  FramesPrivate
  <1>1. PICK O : /\ Owned(O, Machine, Running, Directories, Stacks, Grants)
                 /\ \A f \in used : O[f].kind # "loose"
    BY OwnerExists
  <1>2. PICK F : F = [u \in Uses |-> FrameAt(u.slot, u.place)]
    OBVIOUS
  <1>3. ASSUME NEW u \in Uses
        PROVE  /\ u.slot \in Running /\ u.place \in Places /\ F[u] = FrameAt(u.slot, u.place)
               /\ u = [slot |-> u.slot, place |-> u.place] /\ F[u] # Absent
    BY <1>2 DEF Uses
  <1>4. ASSUME NEW u \in Uses PROVE F[u] \in used /\ O[F[u]] = UseAt(u.slot, u.place)
    <2>1. PICK s, x, f : s = u.slot /\ x = u.place /\ f = F[u]
      OBVIOUS
    <2>2. s \in Running /\ x \in Places /\ f = FrameAt(s, x) /\ f # Absent
      BY <1>3, <2>1
    <2>3. f \in used /\ O[f] = UseAt(s, x)
      BY <1>1, <2>2, PlaceOwned
    <2> QED
      BY <2>1, <2>3
  <1>5. ASSUME NEW f \in used PROVE \E u \in Uses : F[u] = f
    <2>1. PICK s \in Running : Serves(f, Machine, s, Directories, Stacks, Grants)
      BY <1>1 DEF Owned, AllOwned, Machine
    <2>2. PICK x \in Places : f = FrameAt(s, x)
      BY <1>1, <2>1, ServesIsPlace
    <2>3. f # Absent
      BY Numbers DEF TInv, Machine, Mach
    <2>4. PICK u : u = [slot |-> s, place |-> x]
      OBVIOUS
    <2>5. u \in [slot : Running, place : Places] /\ u.slot = s /\ u.place = x
      BY <2>4
    <2>6. u \in Uses
      BY <2>2, <2>3, <2>5 DEF Uses
    <2> QED
      BY <2>2, <2>5, <2>6, <1>2
  <1>6. used = {FrameAt(u.slot, u.place) : u \in Uses}
    BY <1>3, <1>4, <1>5
  <1>7. ASSUME NEW u \in Uses, NEW w \in Uses, F[u] = F[w] PROVE u = w
    <2>1. PICK s, x, t, y : s = u.slot /\ x = u.place /\ t = w.slot /\ y = w.place
      OBVIOUS
    <2>2. UseAt(s, x) = UseAt(t, y)
      BY <1>4, <1>7, <2>1
    <2>3. s = t /\ x.kind = y.kind /\ x.at = y.at
      BY <2>2 DEF UseAt
    <2>4. x \in Places /\ y \in Places
      BY <1>3, <2>1
    <2>5. x = y
      BY <2>3, <2>4, PlaceFacts
    <2> QED
      BY <1>3, <2>1, <2>3, <2>5, ZenonT(30)
  <1>8. F \in Bijection(Uses, used)
    <2>1. F \in [Uses -> used]
      BY <1>2, <1>4
    <2>2. IsInjective(F)
      BY <1>7, <2>1 DEF IsInjective
    <2> QED
      BY <1>5, <2>1, <2>2 DEF Bijection, Injection, Surjection
  <1>9. PICK B : B \in Bijection(used, Uses)
    BY <1>8, Fun_ExistsBijSymmetric DEF ExistsBijection
  <1>10. IsFiniteSet(used)
    <2>1. IsFiniteSet(Frames)
      BY FS_Interval, Numbers DEF Frames
    <2>2. used \in SUBSET Frames
      BY DEF TInv, Machine, Mach
    <2> QED
      BY <2>1, <2>2, FS_Subset
  <1>11. Cardinality(used) = Cardinality(Uses)
    BY <1>9, <1>10, FS_Bijection DEF ExistsBijection
  <1> QED
    BY <1>6, <1>11 DEF FramesPrivate

\* What a process was given is mapped for it on a frame of the bitmap, as long as the
\* mmap window does not reach the stack, whatever is stored in memory and reaped.
THEOREM NothingTakenAway ==
    ASSUME Apart
    PROVE  Spec => []GrantedIsMapped
  <1>1. IInv => GrantedIsMapped
    BY GrantedIsMappedHolds DEF IInv
  <1>2. IInv /\ [Next]_vars => IInv'
    BY NextIInv
  <1> QED
    BY <1>1, <1>2, InitIInv, PTL DEF Spec

\* As long as the window does not reach the stack and no proc_destroy has freed what
\* was not its own, each frame in use serves one process for one thing and every frame
\* that serves is in use: what the tables held before, and what is reaped, loses no
\* frame and gives none to two.
THEOREM MemoryPrivate ==
    ASSUME Apart
    PROVE  Spec => []FramesPrivate
  <1>1. IInv => FramesPrivate
    BY FramesPrivateHolds DEF IInv, FramesPrivate
  <1>2. IInv /\ [Next]_vars => IInv'
    BY NextIInv
  <1> QED
    BY <1>1, <1>2, InitIInv, PTL DEF Spec
=============================================================================
