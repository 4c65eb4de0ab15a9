--------------------------- MODULE FdTableProofs ---------------------------
(***************************************************************************)
(* Proofs about FdTable, for any number of processes, files, descriptors   *)
(* and references.                                                         *)
(*                                                                         *)
(* The four invariants are inductive only together: closing a descriptor   *)
(* removes the entry when ref_count is 1, and it takes the exact count to  *)
(* know that no other descriptor still names it; the count in turn is that *)
(* of one file because a file has one entry.                               *)
(***************************************************************************)
EXTENDS FdTable, FiniteSetTheorems, TLAPS

\* A non-empty set of natural numbers has a least one.  A claim about all numbers
\* holds because it has no least counterexample; this stands in for induction.
LEMMA LeastNat ==
    ASSUME NEW S \in SUBSET Nat, S # {}
    PROVE  \E x \in S : \A y \in S : x <= y
  <1>1. PICK R : R = {ss \in Nat \X Nat : ss[1] < ss[2]}
    OBVIOUS
  <1>2. IsWellFoundedOn(R, Nat)
    BY <1>1, NatLessThanWellFounded DEF OpToRel
  <1>3. PICK x \in S : \A y \in S : <<y, x>> \notin R
    BY <1>2, WFMin
  <1>4. ASSUME NEW y \in S PROVE x <= y
    <2>1. ~ (y < x)
      BY <1>1, <1>3
    <2> QED
      BY <2>1
  <1> QED
    BY <1>4

FdInv == TypeOK /\ FdNamesItsFile /\ OneEntryPerFile /\ RefsExact

\* Entry i of the table is that of file v.
IsOf(i, v) == fd_table[i] # NoEntry /\ fd_table[i].vnode = v

-----------------------------------------------------------------------------
\* The table has finitely many descriptors, and each process's set of them too.
LEMMA OpenFinite ==
    ASSUME NEW v \in Vnodes
    PROVE  /\ IsFiniteSet(Open(v)) /\ Cardinality(Open(v)) \in Nat
           /\ IsFiniteSet(Fds)
  <1>1. IsFiniteSet(Fds)
    BY FS_Interval, FdAssumption DEF Fds
  <1>2. IsFiniteSet(Procs \X Fds)
    BY <1>1, ProcsFinite, FS_Product
  <1>3. Open(v) \in SUBSET (Procs \X Fds)
    BY DEF Open
  <1>4. IsFiniteSet(Open(v))
    BY <1>2, <1>3, FS_Subset
  <1> QED
    BY <1>1, <1>4, FS_CardinalityType

\* fd_find_by_node gives the index of an entry of the file, and -1 only when the
\* file has none.
LEMMA FindByNode ==
    ASSUME TypeOK, NEW v \in Vnodes
    PROVE  \/ /\ fd_find_by_node(v) = -1
              /\ \A i \in DOMAIN fd_table : ~IsOf(i, v)
           \/ /\ fd_find_by_node(v) \in 0..(Len(fd_table) - 1)
              /\ IsOf(fd_find_by_node(v) + 1, v)
  <1> DEFINE S == {i \in DOMAIN fd_table : IsOf(i, v)}
             First(i) == /\ fd_table[i] # NoEntry /\ fd_table[i].vnode = v
                         /\ \A j \in 1..(i - 1) : fd_table[j] = NoEntry \/ fd_table[j].vnode # v
  <1>1. CASE S = {}
    BY <1>1 DEF fd_find_by_node, IsOf
  <1>2. CASE S # {}
    <2>1. DOMAIN fd_table = 1..Len(fd_table) /\ Len(fd_table) \in Nat
      BY DEF TypeOK
    <2>2. PICK x \in S : \A y \in S : x <= y
      <3>1. S \in SUBSET Nat
        BY <2>1
      <3> HIDE DEF S
      <3> QED
        BY <1>2, <3>1, LeastNat
    <2>3. First(x)
      BY <2>1, <2>2 DEF IsOf
    <2>4. \E i \in DOMAIN fd_table : First(i)
      BY <2>3
    <2>5. PICK c \in DOMAIN fd_table : First(c) /\ fd_find_by_node(v) = c - 1
      BY <1>2, <2>4 DEF fd_find_by_node, IsOf
    <2> QED
      BY <2>1, <2>5 DEF IsOf
  <1> QED
    BY <1>1, <1>2

\* fd_add gives the index of a hole, or the end.
LEMMA AddIndex ==
    ASSUME TypeOK
    PROVE  \/ fd_add = Len(fd_table)
           \/ fd_add \in 0..(Len(fd_table) - 1) /\ fd_table[fd_add + 1] = NoEntry
  <1> DEFINE S == {i \in DOMAIN fd_table : fd_table[i] = NoEntry}
             First(i) == fd_table[i] = NoEntry /\ \A j \in 1..(i - 1) : fd_table[j] # NoEntry
  <1>1. CASE S = {}
    BY <1>1 DEF fd_add
  <1>2. CASE S # {}
    <2>1. DOMAIN fd_table = 1..Len(fd_table) /\ Len(fd_table) \in Nat
      BY DEF TypeOK
    <2>2. PICK x \in S : \A y \in S : x <= y
      <3>1. S \in SUBSET Nat
        BY <2>1
      <3> HIDE DEF S
      <3> QED
        BY <1>2, <3>1, LeastNat
    <2>3. First(x)
      BY <2>1, <2>2
    <2>4. PICK c \in DOMAIN fd_table : First(c) /\ fd_add = c - 1
      BY <1>2, <2>3 DEF fd_add
    <2> QED
      BY <2>1, <2>4
  <1> QED
    BY <1>1, <1>2

\* The descriptor proc_alloc_fd hands out is free, and not a standard one.
LEMMA LeastFree ==
    ASSUME NEW p \in Procs, FreeFds(p) # {}
    PROVE  LET fd == CHOOSE i \in FreeFds(p) : \A j \in FreeFds(p) : i <= j
           IN  fd \in Fds /\ fd >= FirstFd /\ fds[p][fd] = NoEntry
  <1>1. FreeFds(p) \subseteq Nat
    BY FdAssumption DEF FreeFds, Fds
  <1>2. \E i \in FreeFds(p) : \A j \in FreeFds(p) : i <= j
    BY <1>1, LeastNat
  <1> QED
    BY <1>2 DEF FreeFds

\* Put changes one entry, or adds one at the end.
LEMMA PutEntry ==
    ASSUME TypeOK, NEW g \in 0..Len(fd_table), NEW e \in Entry \cup {NoEntry}
    PROVE  /\ Put(g, e) \in Seq(Entry \cup {NoEntry})
           /\ Len(Put(g, e)) = IF g < Len(fd_table) THEN Len(fd_table) ELSE g + 1
           /\ Put(g, e)[g + 1] = e
           /\ \A i \in 1..Len(fd_table) : i # g + 1 => Put(g, e)[i] = fd_table[i]
  <1>1. Len(fd_table) \in Nat
    BY DEF TypeOK
  <1> DEFINE n == IF g < Len(fd_table) THEN Len(fd_table) ELSE g + 1
  <1>2. n \in Nat /\ g + 1 \in 1..n /\ \A i \in 1..n : i # g + 1 => i \in 1..Len(fd_table)
    BY <1>1
  <1>3. Put(g, e) = [i \in 1..n |-> IF i = g + 1 THEN e ELSE fd_table[i]]
    BY DEF Put
  <1>4. \A i \in 1..Len(fd_table) : fd_table[i] \in Entry \cup {NoEntry} /\ i \in 1..n
    BY <1>1 DEF TypeOK
  <1> HIDE DEF n
  <1>5. \A i \in 1..n : Put(g, e)[i] \in Entry \cup {NoEntry}
    BY <1>2, <1>3, <1>4
  <1>6. Put(g, e) \in Seq(Entry \cup {NoEntry}) /\ Len(Put(g, e)) = n
    BY <1>2, <1>3, <1>5
  <1> QED
    BY <1>2, <1>3, <1>4, <1>6 DEF n

-----------------------------------------------------------------------------
\* A step that changes only the entry of one file leaves the entries of other
\* files where they are, and a file has still one entry.
LEMMA TableStep ==
    ASSUME FdInv, NEW v \in Vnodes, NEW g \in 0..Len(fd_table), NEW e \in Entry \cup {NoEntry},
           e # NoEntry => e.vnode = v,
           g < Len(fd_table) => fd_table[g + 1] = NoEntry \/ IsOf(g + 1, v),
           \A i \in DOMAIN fd_table : i # g + 1 => ~IsOf(i, v),
           fd_table' = Put(g, e)
    PROVE  /\ fd_table' \in Seq(Entry \cup {NoEntry})
           /\ OneEntryPerFile'
           /\ g + 1 \in DOMAIN fd_table' /\ fd_table'[g + 1] = e
           /\ \A i \in DOMAIN fd_table' : IsOf(i, v)' => i = g + 1
           /\ \A w \in Vnodes \ {v} : \A i \in DOMAIN fd_table :
                IsOf(i, w) => i \in DOMAIN fd_table' /\ fd_table'[i] = fd_table[i]
           /\ \A w \in Vnodes \ {v} : \A i \in DOMAIN fd_table' :
                IsOf(i, w)' => i \in DOMAIN fd_table /\ fd_table'[i] = fd_table[i]
  <1>1. /\ Len(fd_table) \in Nat /\ DOMAIN fd_table = 1..Len(fd_table)
        /\ \A i \in 1..Len(fd_table) : fd_table[i] \in Entry \cup {NoEntry}
    BY DEF FdInv, TypeOK
  <1>2. /\ fd_table' \in Seq(Entry \cup {NoEntry})
        /\ Len(fd_table') = IF g < Len(fd_table) THEN Len(fd_table) ELSE g + 1
        /\ fd_table'[g + 1] = e
        /\ \A i \in 1..Len(fd_table) : i # g + 1 => fd_table'[i] = fd_table[i]
    BY PutEntry DEF FdInv
  <1>3. DOMAIN fd_table' = 1..Len(fd_table') /\ Len(fd_table') \in Nat
    BY <1>2
  <1>4. /\ \A i \in DOMAIN fd_table : i \in DOMAIN fd_table'
        /\ \A i \in DOMAIN fd_table' : i # g + 1 => i \in DOMAIN fd_table
        /\ g + 1 \in DOMAIN fd_table'
    BY <1>1, <1>2, <1>3
  <1>5. \A i \in DOMAIN fd_table' : IsOf(i, v)' => i = g + 1
    BY <1>1, <1>2, <1>4 DEF IsOf
  <1>6. \A w \in Vnodes \ {v} : \A i \in DOMAIN fd_table :
                IsOf(i, w) => i \in DOMAIN fd_table' /\ fd_table'[i] = fd_table[i]
    BY <1>1, <1>2, <1>4 DEF IsOf
  <1>7. \A w \in Vnodes \ {v} : \A i \in DOMAIN fd_table' :
                IsOf(i, w)' => i \in DOMAIN fd_table /\ fd_table'[i] = fd_table[i]
    BY <1>1, <1>2, <1>4 DEF IsOf
  <1>8. OneEntryPerFile'
    <2> SUFFICES ASSUME NEW i \in DOMAIN fd_table', NEW j \in DOMAIN fd_table', i # j,
                        fd_table'[i] # NoEntry, fd_table'[j] # NoEntry,
                        fd_table'[i].vnode = fd_table'[j].vnode
                 PROVE  FALSE
      BY DEF OneEntryPerFile
    <2>1. CASE i = g + 1 \/ j = g + 1
      BY <2>1, <1>2, <1>5 DEF IsOf
    <2>2. CASE i # g + 1 /\ j # g + 1
      BY <2>2, <1>1, <1>2, <1>4 DEF FdInv, OneEntryPerFile
    <2> QED
      BY <2>1, <2>2
  <1> QED
    BY <1>2, <1>4, <1>5, <1>6, <1>7, <1>8

\* A step that touches one file v only: its entry, at index g, becomes e, and
\* its open descriptors are as many as e counts and all name it.
OneFileChange(v, g, e) ==
    /\ e # NoEntry => e.vnode = v
    /\ g < Len(fd_table) => fd_table[g + 1] = NoEntry \/ IsOf(g + 1, v)
    /\ \A i \in DOMAIN fd_table : i # g + 1 => ~IsOf(i, v)
    /\ fd_table' = Put(g, e)
    /\ \A w \in Vnodes \ {v} : Open(w)' = Open(w)
    /\ \A q \in Procs, j \in Fds :
         fds'[q][j] = NoEntry \/ fds'[q][j].vnode = v \/ fds'[q][j] = fds[q][j]
    /\ \A q \in Procs, j \in Fds :
         fds'[q][j] # NoEntry /\ fds'[q][j].vnode = v => fds'[q][j].global_fd = g
    /\ lost' = lost
    /\ IF e = NoEntry THEN Cardinality(Open(v)') + lost[v] = 0
                      ELSE e.ref_count = Cardinality(Open(v)') + lost[v]

\* Such a step keeps the invariant.
LEMMA OneFileStep ==
    ASSUME FdInv, TypeOK', NEW v \in Vnodes, NEW g \in 0..Len(fd_table),
           NEW e \in Entry \cup {NoEntry}, OneFileChange(v, g, e)
    PROVE  FdInv'
  <1> USE DEF OneFileChange
  <1>1. /\ fd_table' \in Seq(Entry \cup {NoEntry})
        /\ OneEntryPerFile'
        /\ g + 1 \in DOMAIN fd_table' /\ fd_table'[g + 1] = e
        /\ \A i \in DOMAIN fd_table' : IsOf(i, v)' => i = g + 1
        /\ \A w \in Vnodes \ {v} : \A i \in DOMAIN fd_table :
             IsOf(i, w) => i \in DOMAIN fd_table' /\ fd_table'[i] = fd_table[i]
        /\ \A w \in Vnodes \ {v} : \A i \in DOMAIN fd_table' :
             IsOf(i, w)' => i \in DOMAIN fd_table /\ fd_table'[i] = fd_table[i]
    BY TableStep
  <1>2. RefsExact'
    <2> SUFFICES ASSUME NEW w \in Vnodes
                 PROVE  LET E == {i \in DOMAIN fd_table' : IsOf(i, w)'}
                            n == Cardinality(Open(w)') + lost'[w]
                        IN  IF E = {} THEN n = 0 ELSE \A i \in E : fd_table'[i].ref_count = n
      BY DEF RefsExact, IsOf
    <2>1. CASE w = v
      BY <1>1, <2>1 DEF IsOf
    <2>2. CASE w # v
      <3>1. {i \in DOMAIN fd_table' : IsOf(i, w)'} = {i \in DOMAIN fd_table : IsOf(i, w)}
        BY <1>1, <2>2 DEF IsOf
      <3>2. \A i \in DOMAIN fd_table : IsOf(i, w) => fd_table'[i] = fd_table[i]
        BY <1>1, <2>2
      <3>3. Open(w)' = Open(w) /\ lost' = lost
        BY <2>2
      <3>4. LET E == {i \in DOMAIN fd_table : IsOf(i, w)}
                n == Cardinality(Open(w)) + lost[w]
            IN  IF E = {} THEN n = 0 ELSE \A i \in E : fd_table[i].ref_count = n
        BY DEF FdInv, RefsExact, IsOf
      <3> QED
        BY <3>1, <3>2, <3>3, <3>4
    <2> QED
      BY <2>1, <2>2
  <1>3. FdNamesItsFile'
    <2> SUFFICES ASSUME NEW p \in Procs, NEW i \in Fds, fds'[p][i] # NoEntry
                 PROVE  LET d == fds'[p][i].global_fd
                        IN  /\ d < Len(fd_table') /\ fd_table'[d + 1] # NoEntry
                            /\ fd_table'[d + 1].vnode = fds'[p][i].vnode
      BY DEF FdNamesItsFile, fd_get
    <2>1. fds'[p][i] \in ProcFd
      BY DEF TypeOK
    <2>0. PICK w \in Vnodes : w = fds'[p][i].vnode
      BY <2>1 DEF ProcFd
    <2>2. fds'[p][i].global_fd \in Nat /\ <<p, i>> \in Open(w)'
      BY <2>0, <2>1 DEF ProcFd, Open
    <2>3. CASE w = v
      <3>1. fds'[p][i].global_fd = g
        BY <2>0, <2>3
      <3>2. <<p, i>> \in Open(v)'
        BY <2>2, <2>3
      <3>3. Cardinality(Open(v)') + lost[v] # 0
        <4>1. IsFiniteSet(Open(v)') /\ Cardinality(Open(v)') \in Nat
          <5>1. Open(v)' \in SUBSET (Procs \X Fds) /\ IsFiniteSet(Procs \X Fds)
            BY OpenFinite, ProcsFinite, FS_Product DEF Open
          <5> QED
            BY <5>1, FS_Subset, FS_CardinalityType
        <4>2. Cardinality(Open(v)') # 0
          BY <3>2, <4>1, FS_EmptySet
        <4> QED
          BY <4>1, <4>2 DEF FdInv, TypeOK
      <3>4. e # NoEntry /\ e.vnode = v
        BY <3>3
      <3> QED
        BY <1>1, <2>0, <2>3, <3>1, <3>4
    <2>4. CASE w # v
      <3>1. fds'[p][i] = fds[p][i]
        BY <2>0, <2>4
      <3>2. fds[p][i] # NoEntry /\ fds[p][i].vnode = w
        BY <2>0, <3>1
      <3> DEFINE d == fds[p][i].global_fd
      <3>3. d \in Nat
        BY <2>2, <3>1
      <3>4. fd_get(d) # NoEntry /\ fd_get(d).vnode = w
        BY <3>2 DEF FdInv, FdNamesItsFile
      <3>5. d < Len(fd_table) /\ IsOf(d + 1, w)
        BY <3>4 DEF fd_get, IsOf
      <3>6. d + 1 \in DOMAIN fd_table
        BY <3>3, <3>5 DEF FdInv, TypeOK
      <3>7. d + 1 \in DOMAIN fd_table' /\ fd_table'[d + 1] = fd_table[d + 1]
        BY <1>1, <2>2, <2>4, <3>5, <3>6
      <3>8. d < Len(fd_table')
        BY <1>1, <3>3, <3>7
      <3> QED
        BY <2>0, <3>1, <3>5, <3>7, <3>8 DEF IsOf
    <2> QED
      BY <2>3, <2>4
  <1> QED
    BY <1>1, <1>2, <1>3 DEF FdInv

\* A descriptor that is written or cleared changes the open descriptors of its
\* file by itself, and those of no other file.
LEMMA OpenChange ==
    ASSUME NEW p \in Procs, NEW i \in Fds, NEW v \in Vnodes,
           fds[p][i] = NoEntry \/ fds[p][i].vnode = v,
           fds'[p][i] = NoEntry \/ fds'[p][i].vnode = v,
           \A q \in Procs, j \in Fds : q # p \/ j # i => fds'[q][j] = fds[q][j]
    PROVE  /\ fds'[p][i] = NoEntry => Open(v)' = Open(v) \ {<<p, i>>}
           /\ fds'[p][i] # NoEntry => Open(v)' = Open(v) \cup {<<p, i>>}
           /\ \A w \in Vnodes \ {v} : Open(w)' = Open(w)
  <1>1. ASSUME NEW w \in Vnodes
        PROVE  /\ Open(w) \subseteq Procs \X Fds /\ Open(w)' \subseteq Procs \X Fds
               /\ \A q \in Procs, j \in Fds :
                    /\ <<q, j>> \in Open(w) <=> fds[q][j] # NoEntry /\ fds[q][j].vnode = w
                    /\ <<q, j>> \in Open(w)' <=> fds'[q][j] # NoEntry /\ fds'[q][j].vnode = w
    BY DEF Open
  <1>2. fds'[p][i] = NoEntry => Open(v)' = Open(v) \ {<<p, i>>}
    BY <1>1
  <1>3. fds'[p][i] # NoEntry => Open(v)' = Open(v) \cup {<<p, i>>}
    BY <1>1
  <1>4. ASSUME NEW w \in Vnodes \ {v} PROVE Open(w)' = Open(w)
    <2>1. Open(w) \subseteq Procs \X Fds /\ Open(w)' \subseteq Procs \X Fds
      BY DEF Open
    <2>2. ASSUME NEW q \in Procs, NEW j \in Fds
          PROVE  <<q, j>> \in Open(w)' <=> <<q, j>> \in Open(w)
      <3>1. <<q, j>> \in Open(w) <=> fds[q][j] # NoEntry /\ fds[q][j].vnode = w
        BY DEF Open
      <3>2. <<q, j>> \in Open(w)' <=> fds'[q][j] # NoEntry /\ fds'[q][j].vnode = w
        BY DEF Open
      <3>3. CASE q = p /\ j = i
        BY <3>1, <3>2, <3>3
      <3>4. CASE q # p \/ j # i
        BY <3>1, <3>2, <3>4
      <3> QED
        BY <3>3, <3>4
    <2>3. \A x \in Procs \X Fds : x \in Open(w)' <=> x \in Open(w)
      BY <2>2
    <2> QED
      BY <2>1, <2>3
  <1> QED
    BY <1>2, <1>3, <1>4

\* The number of descriptors that an entry must count.
LEMMA EntryCounts ==
    ASSUME FdInv, NEW v \in Vnodes
    PROVE  /\ (\A i \in DOMAIN fd_table : ~IsOf(i, v)) => Cardinality(Open(v)) + lost[v] = 0
           /\ \A i \in DOMAIN fd_table :
                IsOf(i, v) => fd_table[i].ref_count = Cardinality(Open(v)) + lost[v]
  BY DEF FdInv, RefsExact, IsOf

\* syscall_open writes one descriptor, at a free place, and the entry of its file,
\* which then counts one reference more.
LEMMA OpenEffect ==
    ASSUME FdInv, NEW p \in Procs, NEW v \in Vnodes, NEW flags \in Flags, syscall_open(p, v, flags)
    PROVE  \E g \in 0..Len(fd_table), fd \in Fds, e \in Entry, d \in ProcFd :
             /\ fd_table' = Put(g, e)
             /\ fds' = [fds EXCEPT ![p][fd] = d]
             /\ lost' = lost /\ panicked' = panicked
             /\ fd >= FirstFd /\ fds[p][fd] = NoEntry
             /\ g < Len(fd_table) => fd_table[g + 1] = NoEntry \/ IsOf(g + 1, v)
             /\ \A i \in DOMAIN fd_table : i # g + 1 => ~IsOf(i, v)
             /\ e.vnode = v /\ e.ref_count = Cardinality(Open(v)) + lost[v] + 1
             /\ d.vnode = v /\ d.global_fd = g
  <1>1. TypeOK
    BY DEF FdInv
  <1>2. Len(fd_table) \in Nat /\ DOMAIN fd_table = 1..Len(fd_table)
    BY <1>1 DEF TypeOK
  <1>3. PICK fd \in Fds : /\ fd = CHOOSE i \in FreeFds(p) : \A j \in FreeFds(p) : i <= j
                         /\ fd >= FirstFd /\ fds[p][fd] = NoEntry
    BY LeastFree DEF syscall_open
  <1>4. CASE fd_find_by_node(v) = -1
    <2>1. \A i \in DOMAIN fd_table : ~IsOf(i, v)
      BY <1>1, <1>4, FindByNode
    <2>2. PICK g \in 0..Len(fd_table) : g = fd_add /\ (g < Len(fd_table) => fd_table[g + 1] = NoEntry)
      BY <1>1, <1>2, AddIndex
    <2>3. PICK e \in Entry : e = [vnode |-> v, ref_count |-> 1, write_lock |-> flags # "RO"]
      <3>1. [vnode |-> v, ref_count |-> 1, write_lock |-> flags # "RO"] \in Entry
        BY DEF Entry
      <3> QED
        BY <3>1
    <2>4. PICK d \in ProcFd : d = [global_fd |-> g, flags |-> flags, vnode |-> v]
      <3>1. [global_fd |-> g, flags |-> flags, vnode |-> v] \in ProcFd
        BY <1>2 DEF ProcFd
      <3> QED
        BY <3>1
    <2>5. /\ fd_table' = Put(g, e) /\ fds' = [fds EXCEPT ![p][fd] = d]
          /\ lost' = lost /\ panicked' = panicked
      BY <1>3, <1>4, <2>2, <2>3, <2>4 DEF syscall_open, fd_new
    <2>6. e.vnode = v /\ e.ref_count = 1
      BY <2>3
    <2>7. d.vnode = v /\ d.global_fd = g
      BY <2>4
    <2>8. Cardinality(Open(v)) + lost[v] = 0
      BY <2>1, EntryCounts
    <2> WITNESS g \in 0..Len(fd_table), fd \in Fds, e \in Entry, d \in ProcFd
    <2> QED
      BY <1>3, <2>1, <2>2, <2>5, <2>6, <2>7, <2>8
  <1>5. CASE fd_find_by_node(v) # -1
    <2>1. PICK g \in 0..(Len(fd_table) - 1) : g = fd_find_by_node(v) /\ IsOf(g + 1, v)
      BY <1>1, <1>5, FindByNode
    <2>2. g + 1 \in DOMAIN fd_table /\ fd_get(g) = fd_table[g + 1]
      BY <1>2 DEF fd_get
    <2>3. fd_table[g + 1] \in Entry /\ fd_table[g + 1].vnode = v
      BY <1>1, <2>1, <2>2 DEF TypeOK, IsOf
    <2>4. PICK e \in Entry : e = [fd_table[g + 1] EXCEPT !.ref_count = @ + 1]
      <3>1. [fd_table[g + 1] EXCEPT !.ref_count = fd_table[g + 1].ref_count + 1] \in Entry
        BY <2>3 DEF Entry
      <3> QED
        BY <3>1
    <2>5. PICK d \in ProcFd : d = [global_fd |-> g, flags |-> flags, vnode |-> v]
      <3>1. [global_fd |-> g, flags |-> flags, vnode |-> v] \in ProcFd
        BY <1>2 DEF ProcFd
      <3> QED
        BY <3>1
    <2>6. /\ fd_table' = Put(g, e) /\ fds' = [fds EXCEPT ![p][fd] = d]
          /\ lost' = lost /\ panicked' = panicked
      BY <1>3, <1>5, <2>1, <2>2, <2>4, <2>5 DEF syscall_open, Shared
    <2>7. e.vnode = v /\ e.ref_count = fd_table[g + 1].ref_count + 1
      BY <2>3, <2>4 DEF Entry
    <2>8. d.vnode = v /\ d.global_fd = g
      BY <2>5
    <2>9. fd_table[g + 1].ref_count = Cardinality(Open(v)) + lost[v]
      BY <2>1, <2>2, EntryCounts
    <2>10. \A i \in DOMAIN fd_table : i # g + 1 => ~IsOf(i, v)
      BY <2>1, <2>2 DEF FdInv, OneEntryPerFile, IsOf
    <2>11. g \in 0..Len(fd_table)
      BY <1>2
    <2> WITNESS g \in 0..Len(fd_table), fd \in Fds, e \in Entry, d \in ProcFd
    <2> QED
      BY <1>3, <2>1, <2>6, <2>7, <2>8, <2>9, <2>10
  <1> QED
    BY <1>4, <1>5

\* Every open descriptor of a file names the file's entry.
LEMMA NamesEntry ==
    ASSUME FdInv, NEW v \in Vnodes, NEW x \in Open(v)
    PROVE  /\ fds[x[1]][x[2]].global_fd \in 0..(Len(fd_table) - 1)
           /\ IsOf(fds[x[1]][x[2]].global_fd + 1, v)
  <1>1. x[1] \in Procs /\ x[2] \in Fds /\ fds[x[1]][x[2]] # NoEntry /\ fds[x[1]][x[2]].vnode = v
    BY DEF Open
  <1>2. fds[x[1]][x[2]] \in ProcFd
    BY <1>1 DEF FdInv, TypeOK
  <1>3. PICK c \in Nat : c = fds[x[1]][x[2]].global_fd
    BY <1>2 DEF ProcFd
  <1>4. fd_get(c) # NoEntry /\ fd_get(c).vnode = v
    BY <1>1, <1>3 DEF FdInv, FdNamesItsFile
  <1>5. c < Len(fd_table) /\ IsOf(c + 1, v)
    BY <1>4 DEF fd_get, IsOf
  <1>6. Len(fd_table) \in Nat
    BY DEF FdInv, TypeOK
  <1> QED
    BY <1>3, <1>5, <1>6

\* __syscall_open keeps the invariant.
LEMMA OpenKeeps ==
    ASSUME FdInv, NEW p \in Procs, NEW v \in Vnodes, NEW flags \in Flags, syscall_open(p, v, flags)
    PROVE  FdInv'
  <1>1. PICK g \in 0..Len(fd_table), fd \in Fds, e \in Entry, d \in ProcFd :
             /\ fd_table' = Put(g, e)
             /\ fds' = [fds EXCEPT ![p][fd] = d]
             /\ lost' = lost /\ panicked' = panicked
             /\ fd >= FirstFd /\ fds[p][fd] = NoEntry
             /\ g < Len(fd_table) => fd_table[g + 1] = NoEntry \/ IsOf(g + 1, v)
             /\ \A i \in DOMAIN fd_table : i # g + 1 => ~IsOf(i, v)
             /\ e.vnode = v /\ e.ref_count = Cardinality(Open(v)) + lost[v] + 1
             /\ d.vnode = v /\ d.global_fd = g
    BY OpenEffect
  <1>2. e # NoEntry /\ d # NoEntry
    BY NoEntryIsNull
  <1>3. TypeOK /\ Len(fd_table) \in Nat /\ DOMAIN fd_table = 1..Len(fd_table)
    BY DEF FdInv, TypeOK
  <1>4. /\ fds' \in [Procs -> [Fds -> ProcFd \cup {NoEntry}]]
        /\ fds'[p][fd] = d
        /\ \A q \in Procs, j \in Fds : q # p \/ j # fd => fds'[q][j] = fds[q][j]
    <2>1. fds \in [Procs -> [Fds -> ProcFd \cup {NoEntry}]]
      BY <1>3 DEF TypeOK
    <2>2. fds' = [fds EXCEPT ![p][fd] = d]
      BY <1>1
    <2> QED
      BY <2>1, <2>2
  <1>5. /\ Open(v)' = Open(v) \cup {<<p, fd>>}
        /\ \A w \in Vnodes \ {v} : Open(w)' = Open(w)
    <2>1. fds[p][fd] = NoEntry /\ d.vnode = v
      BY <1>1
    <2> QED
      BY <1>2, <1>4, <2>1, OpenChange
  <1>6. TypeOK'
    <2>1. fd_table' \in Seq(Entry \cup {NoEntry})
      BY <1>1, <1>3, PutEntry
    <2>2. \A q \in Procs : \A i \in Fds : i < FirstFd => fds'[q][i] = NoEntry
      <3> SUFFICES ASSUME NEW q \in Procs, NEW i \in Fds, i < FirstFd
                   PROVE  fds'[q][i] = NoEntry
        OBVIOUS
      <3>1. i # fd
        BY <1>1, FdAssumption DEF Fds
      <3>2. fds'[q][i] = fds[q][i]
        BY <1>4, <3>1
      <3> QED
        BY <1>3, <3>2 DEF TypeOK
    <2>3. lost' = lost /\ panicked' = panicked
      BY <1>1
    <2> QED
      BY <1>3, <1>4, <2>1, <2>2, <2>3 DEF TypeOK
  <1>7. e.ref_count = Cardinality(Open(v)') + lost[v]
    <2>1. <<p, fd>> \notin Open(v)
      BY <1>1 DEF Open
    <2>2. Cardinality(Open(v)') = Cardinality(Open(v)) + 1
      BY <1>5, <2>1, OpenFinite, FS_AddElement
    <2>3. lost[v] \in Nat /\ Cardinality(Open(v)) \in Nat
      BY <1>3, OpenFinite DEF TypeOK
    <2>4. e.ref_count = Cardinality(Open(v)) + lost[v] + 1
      BY <1>1
    <2> QED
      BY <2>2, <2>3, <2>4
  <1>8. ASSUME NEW q \in Procs, NEW j \in Fds, fds'[q][j] # NoEntry, fds'[q][j].vnode = v
        PROVE  fds'[q][j].global_fd = g
    <2>1. CASE q = p /\ j = fd
      BY <1>1, <1>4, <2>1
    <2>2. CASE q # p \/ j # fd
      <3>1. fds'[q][j] = fds[q][j]
        BY <1>4, <2>2
      <3>2. PICK x : x = <<q, j>>
        OBVIOUS
      <3>3. x \in Open(v) /\ x[1] = q /\ x[2] = j
        BY <1>8, <3>1, <3>2 DEF Open
      <3>4. PICK c : c = fds[q][j].global_fd
        OBVIOUS
      <3>5. c \in 0..(Len(fd_table) - 1) /\ IsOf(c + 1, v)
        BY <3>3, <3>4, NamesEntry
      <3>6. \A i \in DOMAIN fd_table : i # g + 1 => ~IsOf(i, v)
        BY <1>1
      <3>7. c + 1 = g + 1
        BY <1>3, <3>5, <3>6
      <3> QED
        BY <1>3, <3>1, <3>4, <3>5, <3>7
    <2> QED
      BY <2>1, <2>2
  <1>9. /\ e.vnode = v
        /\ g < Len(fd_table) => fd_table[g + 1] = NoEntry \/ IsOf(g + 1, v)
        /\ \A i \in DOMAIN fd_table : i # g + 1 => ~IsOf(i, v)
        /\ fd_table' = Put(g, e)
        /\ lost' = lost
    BY <1>1
  <1>10. \A q \in Procs, j \in Fds :
           fds'[q][j] = NoEntry \/ fds'[q][j].vnode = v \/ fds'[q][j] = fds[q][j]
    <2>1. d.vnode = v
      BY <1>1
    <2> QED
      BY <1>4, <2>1
  <1>11. OneFileChange(v, g, e)
    BY <1>2, <1>5, <1>7, <1>8, <1>9, <1>10 DEF OneFileChange
  <1> QED
    BY <1>6, <1>11, OneFileStep

\* __syscall_close keeps the invariant: the entry goes only when no descriptor
\* names it any more.
LEMMA CloseKeeps ==
    ASSUME FdInv, NEW p \in Procs, NEW fd \in Fds, syscall_close(p, fd)
    PROVE  FdInv'
  <1>1. TypeOK /\ Len(fd_table) \in Nat /\ DOMAIN fd_table = 1..Len(fd_table)
    BY DEF FdInv, TypeOK
  <1>2. CASE fds[p][fd] = NoEntry
    <2>1. fd_table' = fd_table /\ fds' = fds /\ lost' = lost /\ panicked' \in BOOLEAN
      BY <1>2 DEF syscall_close
    <2>2. TypeOK'
      BY <1>1, <2>1 DEF TypeOK
    <2>3. FdNamesItsFile' /\ OneEntryPerFile'
      BY <2>1 DEF FdInv, FdNamesItsFile, fd_get, OneEntryPerFile
    <2>4. RefsExact'
      BY <2>1 DEF FdInv, RefsExact, Open
    <2> QED
      BY <2>2, <2>3, <2>4 DEF FdInv
  <1>3. CASE fds[p][fd] # NoEntry
    <2>1. fds[p][fd] \in ProcFd
      BY <1>1, <1>3 DEF TypeOK
    <2>2. PICK v \in Vnodes : v = fds[p][fd].vnode
      BY <2>1 DEF ProcFd
    <2>3. PICK x : x = <<p, fd>>
      OBVIOUS
    <2>4. x \in Open(v) /\ x[1] = p /\ x[2] = fd
      BY <1>3, <2>2, <2>3 DEF Open
    <2>5. PICK g \in 0..Len(fd_table) : g = fds[p][fd].global_fd /\ g < Len(fd_table) /\ IsOf(g + 1, v)
      BY <1>1, <2>4, NamesEntry
    <2>6. g + 1 \in DOMAIN fd_table /\ fd_get(g) = fd_table[g + 1]
      BY <1>1, <2>5 DEF fd_get
    <2>7. fd_table[g + 1] \in Entry /\ fd_table[g + 1].vnode = v
      BY <1>1, <2>5, <2>6 DEF TypeOK, IsOf
    <2>8. PICK e : e = IF fd_table[g + 1].ref_count = 1 THEN NoEntry
                       ELSE [fd_table[g + 1] EXCEPT !.ref_count = @ - 1]
      OBVIOUS
    <2>9. /\ fd_table' = Put(g, e)
          /\ fds' = [fds EXCEPT ![p][fd] = NoEntry]
          /\ lost' = lost /\ panicked' = panicked
      BY <1>3, <2>5, <2>6, <2>8 DEF syscall_close, fd_remove
    <2>10. /\ fds' \in [Procs -> [Fds -> ProcFd \cup {NoEntry}]]
           /\ fds'[p][fd] = NoEntry
           /\ \A q \in Procs, j \in Fds : q # p \/ j # fd => fds'[q][j] = fds[q][j]
      BY <1>1, <2>9 DEF TypeOK
    <2>11. /\ Open(v)' = Open(v) \ {x}
           /\ \A w \in Vnodes \ {v} : Open(w)' = Open(w)
      BY <2>2, <2>3, <2>10, OpenChange
    <2>12. /\ Cardinality(Open(v)') = Cardinality(Open(v)) - 1
           /\ Cardinality(Open(v)) \in Nat \ {0} /\ lost[v] \in Nat
      <3>1. IsFiniteSet(Open(v)) /\ Cardinality(Open(v)) \in Nat
        BY OpenFinite
      <3>2. Cardinality(Open(v)) # 0
        BY <2>4, <3>1, FS_EmptySet
      <3>3. Cardinality(Open(v)') = Cardinality(Open(v)) - 1
        BY <2>4, <2>11, <3>1, FS_RemoveElement
      <3> QED
        BY <1>1, <3>1, <3>2, <3>3 DEF TypeOK
    <2>13. fd_table[g + 1].ref_count = Cardinality(Open(v)) + lost[v]
      BY <2>5, <2>6, EntryCounts
    <2>14. /\ e \in Entry \cup {NoEntry}
           /\ e # NoEntry => e.vnode = v
           /\ IF e = NoEntry THEN Cardinality(Open(v)') + lost[v] = 0
                             ELSE e.ref_count = Cardinality(Open(v)') + lost[v]
      <3>1. CASE fd_table[g + 1].ref_count = 1
        BY <2>8, <2>12, <2>13, <3>1
      <3>2. CASE fd_table[g + 1].ref_count # 1
        <4>1. e \in Entry /\ e.vnode = v /\ e.ref_count = fd_table[g + 1].ref_count - 1
          BY <2>7, <2>8, <2>12, <2>13, <3>2, SMTT(30) DEF Entry
        <4> QED
          BY <2>12, <2>13, <4>1, NoEntryIsNull
      <3> QED
        BY <3>1, <3>2
    <2>15. \A i \in DOMAIN fd_table : i # g + 1 => ~IsOf(i, v)
      BY <2>5, <2>6 DEF FdInv, OneEntryPerFile, IsOf
    <2>16. ASSUME NEW q \in Procs, NEW j \in Fds, fds'[q][j] # NoEntry, fds'[q][j].vnode = v
           PROVE  fds'[q][j].global_fd = g
      <3>1. fds'[q][j] = fds[q][j]
        BY <2>10, <2>16
      <3>2. PICK y : y = <<q, j>>
        OBVIOUS
      <3>3. y \in Open(v) /\ y[1] = q /\ y[2] = j
        BY <2>16, <3>1, <3>2 DEF Open
      <3>4. PICK c : c = fds[q][j].global_fd
        OBVIOUS
      <3>5. c \in 0..(Len(fd_table) - 1) /\ IsOf(c + 1, v)
        BY <3>3, <3>4, NamesEntry
      <3>6. c + 1 = g + 1
        BY <1>1, <2>15, <3>5
      <3> QED
        BY <1>1, <3>1, <3>4, <3>5, <3>6
    <2>17. OneFileChange(v, g, e)
      BY <2>5, <2>9, <2>10, <2>11, <2>14, <2>15, <2>16 DEF OneFileChange
    <2>18. TypeOK'
      <3>1. fd_table' \in Seq(Entry \cup {NoEntry})
        BY <1>1, <2>9, <2>14, PutEntry
      <3> QED
        BY <1>1, <2>9, <2>10, <3>1 DEF TypeOK
    <2> QED
      BY <2>14, <2>17, <2>18, OneFileStep
  <1> QED
    BY <1>2, <1>3

\* proc_destroy keeps the invariant: the descriptors that go are counted as lost.
LEMMA DestroyKeeps ==
    ASSUME FdInv, NEW p \in Procs, proc_destroy(p)
    PROVE  FdInv'
  <1> DEFINE Mine(v) == {i \in Fds : fds[p][i] # NoEntry /\ fds[p][i].vnode = v}
  <1>1. /\ fds' = [fds EXCEPT ![p] = [i \in Fds |-> NoEntry]]
        /\ lost' = [v \in Vnodes |-> lost[v] + Cardinality(Mine(v))]
        /\ fd_table' = fd_table /\ panicked' = panicked
    BY DEF proc_destroy
  <1>2. TypeOK
    BY DEF FdInv
  <1>3. /\ fds' \in [Procs -> [Fds -> ProcFd \cup {NoEntry}]]
        /\ \A i \in Fds : fds'[p][i] = NoEntry
        /\ \A q \in Procs \ {p} : fds'[q] = fds[q]
    BY <1>1, <1>2 DEF TypeOK
  <1>4. ASSUME NEW v \in Vnodes
        PROVE  /\ Cardinality(Mine(v)) \in Nat
               /\ Cardinality(Open(v)) = Cardinality(Open(v)') + Cardinality(Mine(v))
               /\ Cardinality(Open(v)') \in Nat
    <2>1. IsFiniteSet(Mine(v)) /\ Cardinality(Mine(v)) \in Nat
      <3>1. Mine(v) \in SUBSET Fds /\ IsFiniteSet(Fds)
        BY OpenFinite
      <3> HIDE DEF Mine
      <3> QED
        BY <3>1, FS_Subset, FS_CardinalityType
    <2>2. PICK M : M = {p} \X Mine(v)
      OBVIOUS
    <2>3. IsFiniteSet(M) /\ Cardinality(M) = Cardinality(Mine(v))
      <3>1. IsFiniteSet({p}) /\ Cardinality({p}) = 1
        BY FS_Singleton
      <3> HIDE DEF Mine
      <3>2. IsFiniteSet({p} \X Mine(v)) /\ Cardinality({p} \X Mine(v)) = 1 * Cardinality(Mine(v))
        BY <2>1, <3>1, FS_Product
      <3> QED
        BY <2>1, <2>2, <3>2
    <2>4. Open(v)' = Open(v) \ M /\ Open(v) \cap M = M
      <3>1. Open(v) \subseteq Procs \X Fds /\ Open(v)' \subseteq Procs \X Fds /\ M \subseteq Procs \X Fds
        BY <2>2 DEF Open
      <3>2. ASSUME NEW q \in Procs, NEW j \in Fds
            PROVE  /\ <<q, j>> \in Open(v)' <=> <<q, j>> \in Open(v) /\ <<q, j>> \notin M
                   /\ <<q, j>> \in M => <<q, j>> \in Open(v)
        <4>1. <<q, j>> \in Open(v) <=> fds[q][j] # NoEntry /\ fds[q][j].vnode = v
          BY DEF Open
        <4>2. <<q, j>> \in Open(v)' <=> fds'[q][j] # NoEntry /\ fds'[q][j].vnode = v
          BY DEF Open
        <4>3. <<q, j>> \in M <=> q = p /\ fds[q][j] # NoEntry /\ fds[q][j].vnode = v
          BY <2>2
        <4> HIDE DEF Mine
        <4> QED
          BY <1>3, <4>1, <4>2, <4>3
      <3> HIDE DEF Mine
      <3> QED
        BY <3>1, <3>2
    <2> HIDE DEF Mine
    <2>5. /\ IsFiniteSet(Open(v)) /\ Cardinality(Open(v)) \in Nat
          /\ IsFiniteSet(Open(v)') /\ Cardinality(Open(v)') = Cardinality(Open(v)) - Cardinality(Mine(v))
      <3>1. IsFiniteSet(Open(v)) /\ Cardinality(Open(v)) \in Nat
        BY OpenFinite
      <3>2. /\ IsFiniteSet(Open(v) \ M)
            /\ Cardinality(Open(v) \ M) = Cardinality(Open(v)) - Cardinality(Open(v) \cap M)
        BY <3>1, FS_Difference
      <3> QED
        BY <2>3, <2>4, <3>1, <3>2
    <2>6. Cardinality(Open(v)') \in Nat
      BY <2>5, FS_CardinalityType
    <2> QED
      BY <2>1, <2>5, <2>6
  <1> HIDE DEF Mine
  <1>5. \A v \in Vnodes : /\ lost'[v] \in Nat
                         /\ Cardinality(Open(v)') + lost'[v] = Cardinality(Open(v)) + lost[v]
    <2> SUFFICES ASSUME NEW v \in Vnodes
                 PROVE  /\ lost'[v] \in Nat
                        /\ Cardinality(Open(v)') + lost'[v] = Cardinality(Open(v)) + lost[v]
      OBVIOUS
    <2>1. lost[v] \in Nat /\ lost'[v] = lost[v] + Cardinality(Mine(v))
      BY <1>1, <1>2 DEF TypeOK
    <2> QED
      BY <1>4, <2>1
  <1>6. TypeOK'
    BY <1>1, <1>2, <1>3, <1>5 DEF TypeOK
  <1>7. RefsExact'
    BY <1>1, <1>5 DEF FdInv, RefsExact
  <1>8. FdNamesItsFile' /\ OneEntryPerFile'
    BY <1>1, <1>3 DEF FdInv, FdNamesItsFile, fd_get, OneEntryPerFile
  <1> QED
    BY <1>6, <1>7, <1>8 DEF FdInv

\* At boot the table is empty and no descriptor is open.
LEMMA InitInv == Init => FdInv
  <1> SUFFICES ASSUME Init PROVE FdInv
    OBVIOUS
  <1>1. TypeOK
    <2>1. fd_table \in Seq(Entry \cup {NoEntry})
      BY DEF Init
    <2>0. panicked \in BOOLEAN
      BY DEF Init
    <2>2. lost \in [Vnodes -> Nat]
      BY DEF Init
    <2>3. fds = [p \in Procs |-> [i \in Fds |-> NoEntry]]
      BY DEF Init
    <2>4. fds \in [Procs -> [Fds -> ProcFd \cup {NoEntry}]]
      BY <2>3
    <2>5. \A p \in Procs : \A i \in Fds : fds[p][i] = NoEntry
      BY <2>3
    <2> QED
      BY <2>0, <2>1, <2>2, <2>4, <2>5 DEF TypeOK
  <1>2. FdNamesItsFile /\ OneEntryPerFile
    BY DEF Init, FdNamesItsFile, OneEntryPerFile
  <1>3. RefsExact
    <2>1. \A v \in Vnodes : Open(v) = {}
      BY DEF Init, Open
    <2>2. fd_table = <<>> /\ \A v \in Vnodes : lost[v] = 0
      BY DEF Init
    <2> QED
      BY <2>1, <2>2, FS_EmptySet DEF RefsExact
  <1> QED
    BY <1>1, <1>2, <1>3 DEF FdInv

\* Every call of every process keeps the invariant.
LEMMA NextInv == FdInv /\ [Next]_vars => FdInv'
  <1> SUFFICES ASSUME FdInv, [Next]_vars PROVE FdInv'
    OBVIOUS
  <1>1. ASSUME NEW p \in Procs, NEW v \in Vnodes, NEW flags \in Flags, syscall_open(p, v, flags)
        PROVE  FdInv'
    BY <1>1, OpenKeeps
  <1>2. ASSUME NEW p \in Procs, NEW fd \in Fds, syscall_close(p, fd)
        PROVE  FdInv'
    BY <1>2, CloseKeeps
  <1>3. ASSUME NEW p \in Procs, proc_destroy(p)
        PROVE  FdInv'
    BY <1>3, DestroyKeeps
  <1>4. CASE UNCHANGED vars
    <2>1. TypeOK' /\ FdNamesItsFile' /\ OneEntryPerFile'
      BY <1>4 DEF vars, FdInv, TypeOK, FdNamesItsFile, fd_get, OneEntryPerFile
    <2>2. RefsExact'
      BY <1>4 DEF vars, FdInv, RefsExact, Open
    <2> QED
      BY <2>1, <2>2 DEF FdInv
  <1> QED
    BY <1>1, <1>2, <1>3, <1>4 DEF Next

-----------------------------------------------------------------------------
\* The inductive invariant holds in every state, for any number of processes,
\* files and descriptors.
THEOREM FdInvariant == Spec => []FdInv
  BY InitInv, NextInv, PTL DEF Spec

\* Table and descriptors keep their types; proc_alloc_fd never hands out the
\* standard descriptors.
THEOREM FdTypeCorrect == Spec => []TypeOK
  <1>1. FdInv => TypeOK
    BY DEF FdInv
  <1> QED
    BY <1>1, FdInvariant, PTL

\* A descriptor that proc_fd_read_file or proc_fd_write_file follows names an entry
\* that exists and is the file it was opened for.
THEOREM FdNamesRightFile == Spec => []FdNamesItsFile
  <1>1. FdInv => FdNamesItsFile
    BY DEF FdInv
  <1> QED
    BY <1>1, FdInvariant, PTL

\* fd_find_by_node and fd_add never give a file a second entry.
THEOREM FileHasOneEntry == Spec => []OneEntryPerFile
  <1>1. FdInv => OneEntryPerFile
    BY DEF FdInv
  <1> QED
    BY <1>1, FdInvariant, PTL

\* fd_remove's count is exact: what is open, and what proc_destroy left behind.
THEOREM RefCountsExact == Spec => []RefsExact
  <1>1. FdInv => RefsExact
    BY DEF FdInv
  <1> QED
    BY <1>1, FdInvariant, PTL
=============================================================================
