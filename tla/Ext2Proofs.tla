----------------------------- MODULE Ext2Proofs -----------------------------
(***************************************************************************)
(* Proofs about Ext2, for a disk of any number of groups, any sizes, files *)
(* and writes, whatever transfers fail and however often power goes.       *)
(*                                                                         *)
(* Blocks are owned through pointers, and the pointers of a file are those *)
(* of its newest inode copy: the one of the call in progress, of the       *)
(* descriptor table or of the disk.  An older copy only lacks pointers.    *)
(* Two more owners are not files: 0 is the file of a create that got no    *)
(* inode, and -1 stands for block 0, which serves as the indirect block of *)
(* a file that got none.                                                   *)
(*                                                                         *)
(* Types, counts and the directory are kept on any disk (Ext2Base).  That  *)
(* blocks have one owner is kept as long as alloc_block gives out spare    *)
(* blocks only (Ext2Inv, under ~stray): it does so for ever on a disk with *)
(* bit 0 for block 0 and zeros in its free blocks (NeverStray), and not on *)
(* one of 1 KiB blocks or on a refilled one.                               *)
(***************************************************************************)
EXTENDS Ext2, FiniteSetTheorems, TLAPS

\* A non-empty set of natural numbers has a least one.  A claim about all numbers
\* holds because it has no least counterexample; this stands in for induction.
LEMMA LeastNat ==
    ASSUME NEW S \in SUBSET Nat, S # {}
    PROVE  \E x \in S : \A y \in S : x <= y
  <1>1. PICK R : R = {ss \in Nat \X Nat : ss[1] < ss[2]}
    OBVIOUS
  <1>2. IsWellFoundedOn(R, Nat)
    BY <1>1, NatLessThanWellFounded DEF OpToRel
  <1>3. PICK x \in S : \A y \in S : <<y, x>> \notin R
    BY <1>2, WFMin
  <1>4. ASSUME NEW y \in S PROVE x <= y
    <2>1. ~ (y < x)
      BY <1>1, <1>3
    <2> QED
      BY <2>1
  <1> QED
    BY <1>4

Owners == -1..(NGroups * PerGroup["inode"])
Slots  == 0..(NDirect + PerIndirect)

\* The pointer in a slot, for inodes C and blocks B: direct, indirect, or a word
\* of the indirect block.
Ptr(C, B, h, i) ==
    IF i < NDirect THEN C[h].direct[i]
    ELSE IF i = NDirect THEN C[h].indirect
    ELSE IF h # -1 /\ C[h].indirect = 0 THEN 0
    ELSE B[C[h].indirect][i - NDirect]

\* The newest inode of each owner, for a disk D, copies N and a call j.
Current(D, N, j) ==
    [h \in Owners |->
        IF h = -1 THEN Blank
        ELSE IF j # None /\ j.f = h THEN j.ino
        ELSE IF h = 0 THEN Blank
        ELSE IF N[h] # None THEN N[h] ELSE D.ino[h]]

\* Inode a has no pointer that inode b has not.
Older(a, b) ==
    /\ \A i \in 0..(NDirect - 1) : a.direct[i] # 0 => a.direct[i] = b.direct[i]
    /\ a.indirect # 0 => a.indirect = b.indirect

\* A block whose words are all 0, and one with words of file f only.
Zero(B, b)     == \A x \in 1..2 : B[b][x] = 0
OwnBy(B, b, f) == \A x \in 1..2 : B[b][x] = 0 \/ B[b][x] \div 100 = f

\* No two slots hold the same block, and what they hold is in M, the blocks in use;
\* a file's data blocks hold its own words; spare blocks were never written.
Tidy(C, B, M) ==
    /\ M \subseteq Blocks /\ 0 \in M
    /\ C[-1].indirect = 0 /\ \A i \in 0..(NDirect - 1) : C[-1].direct[i] = 0
    /\ \A h \in Owners, i \in Slots : Ptr(C, B, h, i) # 0 => Ptr(C, B, h, i) \in M
    /\ \A h, k \in Owners, i, l \in Slots :
        <<h, i>> # <<k, l>> /\ Ptr(C, B, h, i) # 0 => Ptr(C, B, h, i) # Ptr(C, B, k, l)
    /\ \A h \in Inodes, i \in Slots :
        i # NDirect /\ Ptr(C, B, h, i) # 0 => OwnBy(B, Ptr(C, B, h, i), h)
    /\ \A b \in Spare \ M : Zero(B, b)

\* The blocks in use: on a disk whose first block has no bit, a block of the new disk
\* may be in use though the bit that the code takes for it is clear.
Gone(D) == D.bits["block"] \cup Taken

\* Block b is allocated and in nobody's slot yet.
Held(C, B, M, b) ==
    /\ b \in M /\ b # 0 /\ Zero(B, b)
    /\ \A h \in Owners, i \in Slots : Ptr(C, B, h, i) # b

\* Block b takes data of file f: it is no indirect block and not another file's.
Writable(C, B, M, b, f) ==
    /\ b \in M /\ b # 0
    /\ \A h \in Owners : C[h].indirect # b
    /\ \A h \in Inodes \ {f}, i \in Slots : Ptr(C, B, h, i) # b

\* What the call in progress finds in the place it wants a number for.
Empty(j, B) ==
    \/ j.want = "direct" /\ j.i < NDirect /\ j.ino.direct[j.i] = 0
    \/ /\ j.want \in {"indirect", "word"} /\ NDirect <= j.i /\ j.i < NDirect + PerIndirect
       /\ IF j.want = "indirect" THEN j.ino.indirect = 0
          ELSE B[j.ino.indirect][j.i - NDirect + 1] = 0
    \/ j.want = "inode" /\ j.call = "create" /\ j.f = 0 /\ Older(j.ino, Blank)

\* Inode f is marked, and neither named, open nor written.
NewInode(f, D, N) ==
    /\ f \in Inodes /\ f - 1 \in D.bits["inode"] /\ N[f] = None
    /\ \A e \in DOMAIN D.dir : D.dir[e] # f
    /\ Older(D.ino[f], Blank)

Calls == [pc: {"alloc", "bgdt", "sb", "read", "ind", "data", "inode", "dir", "wild"},
          call: {"write", "create"}, f: {0} \cup Inodes, v: 0..99, n: Nat, i: Nat, ino: Inode,
          want: {"", "direct", "indirect", "word", "inode"}, got: Nat, fails: Nat]

\* The block or inode that call j has at hand is as its next step needs it.
AtStep(j, C, D, N) ==
    LET M == Gone(D) IN
    /\ j.pc \in {"alloc", "bgdt", "sb", "ind"} => Empty(j, D.blk)
    /\ j.pc \in {"bgdt", "sb"} /\ j.want # "inode" => Held(C, D.blk, M, j.got)
    /\ j.pc \in {"bgdt", "sb"} /\ j.want = "inode" => NewInode(j.got, D, N)
    /\ j.pc = "read" => NDirect <= j.i /\ j.i < NDirect + PerIndirect
    /\ j.pc = "ind" => j.want = "word" /\ (j.got = 0 \/ Held(C, D.blk, M, j.got))
    /\ j.pc = "data" => Writable(C, D.blk, M, j.got, j.f)
    /\ j.pc = "dir" => j.f # 0

\* The file of call j: open, or just created.
OfFile(j, D, N) ==
    IF j.call = "write" THEN j.f \in Inodes /\ N[j.f] # None /\ Older(N[j.f], j.ino) /\ j.pc # "dir"
    ELSE j.f # 0 =>
        /\ j.f - 1 \in D.bits["inode"] /\ N[j.f] = None
        /\ \A e \in DOMAIN D.dir : D.dir[e] # j.f
        /\ Older(D.ino[j.f], j.ino)

DiskType == [bits: [Kinds -> SUBSET Nat], bgdt: [Kinds -> [Groups -> Nat]], sb: [Kinds -> Nat],
             ino: [Inodes -> Inode], blk: [Blocks -> [1..2 -> Nat]], dir: Seq(Inodes)]
MemType  == [bgdt: [Kinds -> [Groups -> Nat]], sb: [Kinds -> Nat]]

Typed(D, N, j) ==
    /\ D \in DiskType /\ \A k \in Kinds : D.bits[k] \subseteq Bits(k)
    /\ N \in [Inodes -> Inode \cup {None}]
    /\ j \in Calls \cup {None}

\* An inode that is not marked is not in use, the copy of an open file has all of
\* the disk's pointers, and the directory names marked inodes once.
InodesKept(D, N) ==
    /\ \A f \in Inodes : f - 1 \notin D.bits["inode"] => N[f] = None /\ Older(D.ino[f], Blank)
    /\ \A f \in Inodes : N[f] # None => Older(D.ino[f], N[f])
    /\ \A e \in DOMAIN D.dir : D.dir[e] - 1 \in D.bits["inode"]
    /\ \A d, e \in DOMAIN D.dir : d # e => D.dir[d] # D.dir[e]

\* What the disk, the copies of open files and the call in progress keep.
Sound(D, N, j) ==
    /\ Typed(D, N, j)
    /\ InodesKept(D, N)
    /\ Tidy(Current(D, N, j), D.blk, Gone(D))
    /\ j # None => OfFile(j, D, N) /\ AtStep(j, Current(D, N, j), D, N)

\* Call j has its place in an indirect block.
InRange(j) == NDirect <= j.i /\ j.i < NDirect + PerIndirect

\* Inode f is marked, and no entry names it.
Fresh(f, D) == f \in Inodes /\ f - 1 \in D.bits["inode"] /\ \A e \in DOMAIN D.dir : D.dir[e] # f

\* What call j wants a number for.
Wants(j) ==
    \/ j.want \in {"direct", "word"}
    \/ j.want = "indirect" /\ InRange(j)
    \/ j.want = "inode" /\ j.call = "create"

\* The number that call j wanted, for Wants.
Given(j, b, D) == IF j.want = "inode" THEN Fresh(b, D) ELSE b \in Blocks

\* The file of call j, and where the call is.
Whose(j, D) == IF j.call = "write" THEN j.f \in Inodes ELSE j.f # 0 => Fresh(j.f, D)
Where(j, D) ==
    /\ j.pc \in {"alloc", "bgdt", "sb"} => Wants(j)
    /\ j.pc \in {"bgdt", "sb"} => Given(j, j.got, D)
    /\ j.pc = "read" => InRange(j)
    /\ j.pc = "dir" => j.call # "write" /\ j.f # 0

InPlace(j, D) == j.ino.indirect \in Blocks /\ Whose(j, D) /\ Where(j, D)

\* The directory names marked inodes, once.
Listed(D) ==
    /\ \A e \in DOMAIN D.dir : D.dir[e] - 1 \in D.bits["inode"]
    /\ \A d, e \in DOMAIN D.dir : d # e => D.dir[d] # D.dir[e]

\* What is kept on any disk, whichever blocks alloc_block gives out.
Base(D, N, j) ==
    /\ Typed(D, N, j) /\ Listed(D)
    /\ \A f \in Inodes : D.ino[f].indirect \in Blocks /\ (N[f] # None => N[f].indirect \in Blocks)
    /\ j # None => InPlace(j, D)

Ext2Base ==
    /\ Base(disk, node, job)
    /\ mem \in MemType /\ CountsCover
    /\ ops \in 0..MaxOps /\ fails \in Nat /\ stray \in BOOLEAN
    /\ FirstData = 0 => Taken \subseteq disk.bits["block"]

\* What is kept besides as long as alloc_block has given out spare blocks only.
Ext2Inv == Ext2Base /\ Sound(disk, node, job)

\* The inductive invariant.
Ext2Kept == Ext2Base /\ (~stray => Ext2Inv)

-----------------------------------------------------------------------------
(* Pointers *)

LEMMA Sizes0 ==
    /\ NDirect \in Nat \ {0} /\ PerIndirect \in {1, 2}
    /\ NGroups * PerGroup["inode"] \in Nat \ {0}
    /\ Inodes \subseteq Owners /\ Inodes \subseteq Nat \ {0}
    /\ Owners = {-1, 0} \cup Inodes
    /\ Blocks \subseteq Nat /\ 0 \in Blocks
    /\ NDirect \in Slots
  <1>1. NDirect \in Nat \ {0} /\ PerIndirect \in {1, 2} /\ NGroups \in Nat \ {0}
    BY Ext2Assumption
  <1>2. PerGroup["inode"] \in Nat \ {0} /\ PerGroup["block"] \in Nat \ {0}
    BY Ext2Assumption DEF Kinds
  <1>3. \A a, b \in Nat \ {0} : a * b \in Nat \ {0}
    BY SMT
  <1>4. NGroups * PerGroup["inode"] \in Nat \ {0} /\ NGroups * PerGroup["block"] \in Nat \ {0}
    BY <1>1, <1>2, <1>3
  <1>5. \A n \in Nat \ {0} : -1..n = {-1, 0} \cup 1..n
    OBVIOUS
  <1>6. FirstData \in Nat
    BY Ext2Assumption
  <1> QED
    BY <1>1, <1>4, <1>5, <1>6 DEF Owners, Inodes, Slots, Blocks

LEMMA InodeOwners == \A f \in Inodes : f \in Owners /\ f # -1 /\ f # 0
  BY Sizes0

\* Inodes, blocks and a bitmap of the right types.
Spaces(C, B, M) ==
    C \in [Owners -> Inode] /\ B \in [Blocks -> [1..2 -> Nat]] /\ M \in SUBSET Blocks

LEMMA PtrFacts ==
    ASSUME NEW C, NEW B, NEW M, Spaces(C, B, M), Tidy(C, B, M),
           NEW h \in Owners
    PROVE  /\ C[h].indirect \in M
           /\ \A i \in 0..(NDirect - 1) : i \in Slots /\ i # NDirect /\ Ptr(C, B, h, i) = C[h].direct[i]
           /\ Ptr(C, B, h, NDirect) = C[h].indirect
           /\ \A w \in 1..PerIndirect :
                /\ NDirect + w \in Slots /\ NDirect + w # NDirect
                /\ w \in 1..2
                /\ Ptr(C, B, h, NDirect + w) =
                    IF h # -1 /\ C[h].indirect = 0 THEN 0 ELSE B[C[h].indirect][w]
           /\ \A i \in Slots : i < NDirect \/ i = NDirect \/ \E w \in 1..PerIndirect : i = NDirect + w
           /\ \A i \in Slots : Ptr(C, B, h, i) \in Nat
  <1>1. C[h].indirect \in Nat /\ C[h].direct \in [0..(NDirect - 1) -> Nat]
    BY DEF Spaces, Inode
  <1>2. Ptr(C, B, h, NDirect) = C[h].indirect
    BY Sizes0 DEF Ptr
  <1>3. C[h].indirect \in M
    BY <1>1, <1>2, Sizes0 DEF Tidy
  <1>4. \A i \in 0..(NDirect - 1) : i \in Slots /\ i # NDirect /\ Ptr(C, B, h, i) = C[h].direct[i]
    BY Sizes0 DEF Ptr, Slots
  <1>5. ASSUME NEW w \in 1..PerIndirect
        PROVE  /\ NDirect + w \in Slots /\ NDirect + w # NDirect
               /\ w \in 1..2
               /\ Ptr(C, B, h, NDirect + w) =
                   IF h # -1 /\ C[h].indirect = 0 THEN 0 ELSE B[C[h].indirect][w]
    <2>1. (NDirect + w) - NDirect = w /\ ~ (NDirect + w < NDirect) /\ w \in 1..2
      BY Sizes0
    <2> QED
      BY <2>1, Sizes0 DEF Ptr, Slots
  <1>6. ASSUME NEW i \in Slots
        PROVE  i < NDirect \/ i = NDirect \/ \E w \in 1..PerIndirect : i = NDirect + w
    <2>1. CASE i > NDirect
      <3>1. i - NDirect \in 1..PerIndirect /\ i = NDirect + (i - NDirect)
        BY <2>1, Sizes0 DEF Slots
      <3> QED
        BY <3>1
    <2> QED
      BY <2>1, Sizes0 DEF Slots
  <1>7. ASSUME NEW i \in Slots PROVE Ptr(C, B, h, i) \in Nat
    <2>1. CASE i < NDirect
      <3>1. i \in 0..(NDirect - 1)
        BY <2>1, Sizes0 DEF Slots
      <3> QED
        BY <3>1, <1>1, <1>4
    <2>2. CASE i = NDirect
      BY <2>2, <1>1, <1>2
    <2>3. ASSUME NEW w \in 1..PerIndirect, i = NDirect + w PROVE Ptr(C, B, h, i) \in Nat
      <3>1. B[C[h].indirect] \in [1..2 -> Nat]
        BY <1>3 DEF Spaces
      <3> QED
        BY <2>3, <3>1, <1>5
    <2> QED
      BY <2>1, <2>2, <2>3, <1>6
  <1> QED
    BY <1>2, <1>3, <1>4, <1>5, <1>6, <1>7

\* A block is taken: its bit is set, and nobody has it.
LEMMA TakeBlock ==
    ASSUME NEW C, NEW B, NEW M, Spaces(C, B, M), Tidy(C, B, M),
           NEW b \in Spare \ M
    PROVE  Tidy(C, B, M \cup {b}) /\ Held(C, B, M \cup {b}, b)
  <1>1. b # 0
    BY DEF Tidy
  <1>2. \A h \in Owners, i \in Slots : Ptr(C, B, h, i) # b
    BY <1>1 DEF Tidy
  <1>3. Zero(B, b)
    BY DEF Tidy
  <1>4. M \cup {b} \in SUBSET Blocks
    BY DEF Spaces, Spare
  <1> QED
    BY <1>1, <1>2, <1>3, <1>4 DEF Tidy, Held

\* Older inodes have no pointers of their own.
LEMMA OlderPtr ==
    ASSUME NEW C, NEW B, NEW M, Spaces(C, B, M), Tidy(C, B, M),
           NEW D, NEW h \in Owners, Older(D[h], C[h]), h # -1, NEW i \in Slots
    PROVE  Ptr(D, B, h, i) \in {0, Ptr(C, B, h, i)}
  <1>1. CASE i < NDirect
    <2>1. i \in 0..(NDirect - 1)
      BY <1>1, Sizes0 DEF Slots
    <2> QED
      BY <1>1, <2>1 DEF Older, Ptr
  <1>2. CASE i = NDirect
    BY <1>2, Sizes0 DEF Older, Ptr
  <1>3. CASE ~ (i < NDirect) /\ i # NDirect
    BY <1>3 DEF Older, Ptr
  <1> QED
    BY <1>1, <1>2, <1>3

LEMMA DropPointers ==
    ASSUME NEW C, NEW B, NEW M, Spaces(C, B, M), Tidy(C, B, M),
           NEW D \in [Owners -> Inode],
           \A h \in Owners : Older(D[h], C[h])
    PROVE  /\ Tidy(D, B, M)
           /\ \A h \in Owners, i \in Slots : Ptr(D, B, h, i) \in {0, Ptr(C, B, h, i)}
           /\ \A b : Held(C, B, M, b) => Held(D, B, M, b)
           /\ \A b, f : Writable(C, B, M, b, f) => Writable(D, B, M, b, f)
  <1>1. -1 \in Owners /\ Inodes \subseteq Owners /\ NDirect \in Slots
    BY Sizes0
  <1>2. D[-1].indirect = 0 /\ \A i \in 0..(NDirect - 1) : D[-1].direct[i] = 0
    <2>1. Older(D[-1], C[-1])
      BY <1>1
    <2> QED
      BY <2>1 DEF Tidy, Older
  <1>3. ASSUME NEW h \in Owners, NEW i \in Slots
        PROVE  Ptr(D, B, h, i) \in {0, Ptr(C, B, h, i)}
    <2>1. CASE h = -1
      <3>1. C[-1].indirect = 0 /\ \A l \in 0..(NDirect - 1) : C[-1].direct[l] = 0
        BY DEF Tidy
      <3>2. i < NDirect => i \in 0..(NDirect - 1)
        BY Sizes0 DEF Slots
      <3> QED
        BY <2>1, <1>2, <3>1, <3>2 DEF Ptr
    <2>2. CASE h # -1
      BY <2>2, OlderPtr
    <2> QED
      BY <2>1, <2>2
  <1>4. \A h \in Owners, i \in Slots : Ptr(D, B, h, i) # 0 => Ptr(D, B, h, i) \in M
    BY <1>3 DEF Tidy
  <1>5. \A h, k \in Owners, i, l \in Slots :
          <<h, i>> # <<k, l>> /\ Ptr(D, B, h, i) # 0 => Ptr(D, B, h, i) # Ptr(D, B, k, l)
    BY <1>3 DEF Tidy
  <1>6. \A h \in Inodes, i \in Slots :
          i # NDirect /\ Ptr(D, B, h, i) # 0 => OwnBy(B, Ptr(D, B, h, i), h)
    BY <1>1, <1>3 DEF Tidy
  <1>7. Tidy(D, B, M)
    BY <1>2, <1>4, <1>5, <1>6 DEF Tidy
  <1>8. ASSUME NEW b, Held(C, B, M, b) PROVE Held(D, B, M, b)
    BY <1>3, <1>8 DEF Held
  <1>9. ASSUME NEW b, NEW f, Writable(C, B, M, b, f) PROVE Writable(D, B, M, b, f)
    <2>1. \A h \in Owners : D[h].indirect \in {0, C[h].indirect}
      BY DEF Older
    <2> QED
      BY <1>1, <1>3, <1>9, <2>1 DEF Writable
  <1> QED
    BY <1>3, <1>7, <1>8, <1>9

\* The slot (h, i) is the only one that changes: it was empty and takes block b.
OneSlot(C, B, D, E, h, i, b) ==
    /\ Ptr(C, B, h, i) = 0 /\ Ptr(D, E, h, i) = b
    /\ \A k \in Owners, l \in Slots : <<k, l>> # <<h, i>> => Ptr(D, E, k, l) = Ptr(C, B, k, l)

\* What an owner gets is marked and nobody else's.
LEMMA OneSlotApart ==
    ASSUME NEW C, NEW B, NEW M, Spaces(C, B, M), Tidy(C, B, M),
           NEW D, NEW E, NEW h \in Owners, NEW i \in Slots, NEW b,
           Held(C, B, M, b), OneSlot(C, B, D, E, h, i, b)
    PROVE  /\ \A k \in Owners, l \in Slots : Ptr(D, E, k, l) # 0 => Ptr(D, E, k, l) \in M
           /\ \A k, m \in Owners, l, n \in Slots :
                <<k, l>> # <<m, n>> /\ Ptr(D, E, k, l) # 0 => Ptr(D, E, k, l) # Ptr(D, E, m, n)
  <1>1. b \in M /\ b # 0 /\ \A k \in Owners, l \in Slots : Ptr(C, B, k, l) # b
    BY DEF Held
  <1>2. Ptr(D, E, h, i) = b
    BY DEF OneSlot
  <1>3. \A k \in Owners, l \in Slots : <<k, l>> # <<h, i>> => Ptr(D, E, k, l) = Ptr(C, B, k, l)
    BY DEF OneSlot
  <1>4. \A k \in Owners, l \in Slots : Ptr(D, E, k, l) # 0 => Ptr(D, E, k, l) \in M
    BY <1>1, <1>2, <1>3 DEF Tidy
  <1>5. ASSUME NEW k \in Owners, NEW m \in Owners, NEW l \in Slots, NEW n \in Slots,
               <<k, l>> # <<m, n>>, Ptr(D, E, k, l) # 0
        PROVE  Ptr(D, E, k, l) # Ptr(D, E, m, n)
    <2>1. CASE <<k, l>> = <<h, i>>
      <3>1. k = h /\ l = i /\ <<m, n>> # <<h, i>>
        BY <2>1, <1>5
      <3>2. Ptr(D, E, m, n) = Ptr(C, B, m, n) /\ Ptr(D, E, k, l) = b
        BY <3>1, <1>2, <1>3
      <3> QED
        BY <3>2, <1>1
    <2>2. CASE <<m, n>> = <<h, i>>
      <3>1. m = h /\ n = i /\ <<k, l>> # <<h, i>>
        BY <2>2, <1>5
      <3>2. Ptr(D, E, k, l) = Ptr(C, B, k, l) /\ Ptr(D, E, m, n) = b
        BY <3>1, <1>2, <1>3
      <3> QED
        BY <3>2, <1>1
    <2>3. CASE <<k, l>> # <<h, i>> /\ <<m, n>> # <<h, i>>
      <3>1. Ptr(D, E, k, l) = Ptr(C, B, k, l) /\ Ptr(D, E, m, n) = Ptr(C, B, m, n)
        BY <2>3, <1>3
      <3> QED
        BY <3>1, <1>5 DEF Tidy
    <2> QED
      BY <2>1, <2>2, <2>3
  <1> QED
    BY <1>4, <1>5

\* A direct pointer is set to a block that the call holds.
LEMMA SetDirect ==
    ASSUME NEW C, NEW B, NEW M, Spaces(C, B, M), Tidy(C, B, M),
           NEW D \in [Owners -> Inode], NEW h \in Owners, h # -1,
           NEW i \in 0..(NDirect - 1), NEW b, Held(C, B, M, b),
           C[h].direct[i] = 0, D[h].direct[i] = b,
           \A l \in 0..(NDirect - 1) : l # i => D[h].direct[l] = C[h].direct[l],
           D[h].indirect = C[h].indirect,
           \A k \in Owners : k # h => D[k] = C[k]
    PROVE  Tidy(D, B, M) /\ Writable(D, B, M, b, h)
  <1>1. i \in Slots /\ i # NDirect /\ Ptr(C, B, h, i) = 0 /\ Ptr(D, B, h, i) = b
    BY Sizes0 DEF Ptr, Slots
  <1>2. ASSUME NEW k \in Owners, NEW l \in Slots, <<k, l>> # <<h, i>>
        PROVE  Ptr(D, B, k, l) = Ptr(C, B, k, l)
    <2>1. CASE k # h
      BY <2>1 DEF Ptr
    <2>2. CASE k = h /\ l < NDirect
      <3>1. l \in 0..(NDirect - 1) /\ l # i
        BY <2>2, <1>2, Sizes0 DEF Slots
      <3> QED
        BY <2>2, <3>1 DEF Ptr
    <2>3. CASE k = h /\ ~ (l < NDirect)
      BY <2>3 DEF Ptr
    <2> QED
      BY <2>1, <2>2, <2>3
  <1>3. OneSlot(C, B, D, B, h, i, b)
    BY <1>1, <1>2 DEF OneSlot
  <1>4. /\ \A k \in Owners, l \in Slots : Ptr(D, B, k, l) # 0 => Ptr(D, B, k, l) \in M
        /\ \A k, m \in Owners, l, n \in Slots :
             <<k, l>> # <<m, n>> /\ Ptr(D, B, k, l) # 0 => Ptr(D, B, k, l) # Ptr(D, B, m, n)
    BY <1>1, <1>3, OneSlotApart
  <1>5. b # 0 /\ b \in M /\ Zero(B, b) /\ \A k \in Owners, l \in Slots : Ptr(C, B, k, l) # b
    BY DEF Held
  <1>6. ASSUME NEW k \in Inodes, NEW l \in Slots, l # NDirect, Ptr(D, B, k, l) # 0
        PROVE  OwnBy(B, Ptr(D, B, k, l), k)
    <2>1. k \in Owners
      BY Sizes0
    <2>2. CASE k = h /\ l = i
      BY <1>1, <1>5, <2>2 DEF OwnBy, Zero
    <2>3. CASE ~ (k = h /\ l = i)
      <3>1. Ptr(D, B, k, l) = Ptr(C, B, k, l)
        BY <1>2, <2>1, <2>3
      <3> QED
        BY <3>1, <1>6 DEF Tidy
    <2> QED
      BY <2>2, <2>3
  <1>7. D[-1] = C[-1]
    BY Sizes0
  <1>8. Tidy(D, B, M)
    BY <1>4, <1>6, <1>7 DEF Tidy
  <1>9. ASSUME NEW k \in Owners PROVE D[k].indirect # b
    <2>1. NDirect \in Slots /\ Ptr(C, B, k, NDirect) = C[k].indirect
      BY Sizes0 DEF Ptr
    <2> QED
      BY <2>1, <1>5
  <1>10. ASSUME NEW k \in Inodes \ {h}, NEW l \in Slots PROVE Ptr(D, B, k, l) # b
    BY <1>2, <1>5, Sizes0
  <1> QED
    BY <1>5, <1>8, <1>9, <1>10 DEF Writable

\* The indirect pointer is set to a block that the call holds: its words are 0.
LEMMA SetIndirect ==
    ASSUME NEW C, NEW B, NEW M, Spaces(C, B, M), Tidy(C, B, M),
           NEW D \in [Owners -> Inode], NEW h \in Owners, h # -1,
           NEW b, Held(C, B, M, b),
           C[h].indirect = 0, D[h].indirect = b,
           \A l \in 0..(NDirect - 1) : D[h].direct[l] = C[h].direct[l],
           \A k \in Owners : k # h => D[k] = C[k]
    PROVE  Tidy(D, B, M)
  <1>1. NDirect \in Slots /\ Ptr(C, B, h, NDirect) = 0 /\ Ptr(D, B, h, NDirect) = b
    BY Sizes0 DEF Ptr
  <1>2. b # 0 /\ b \in M /\ Zero(B, b)
    BY DEF Held
  <1>3. ASSUME NEW k \in Owners, NEW l \in Slots, <<k, l>> # <<h, NDirect>>
        PROVE  Ptr(D, B, k, l) = Ptr(C, B, k, l)
    <2>1. CASE k # h
      BY <2>1 DEF Ptr
    <2>2. CASE k = h /\ l < NDirect
      <3>1. l \in 0..(NDirect - 1)
        BY <2>2, Sizes0 DEF Slots
      <3> QED
        BY <2>2, <3>1 DEF Ptr
    <2>3. CASE k = h /\ ~ (l < NDirect)
      <3>1. l - NDirect \in 1..2 /\ l # NDirect
        BY <2>3, <1>3, Sizes0 DEF Slots
      <3>2. B[b][l - NDirect] = 0
        BY <3>1, <1>2 DEF Zero
      <3> QED
        BY <2>3, <3>1, <3>2 DEF Ptr
    <2> QED
      BY <2>1, <2>2, <2>3
  <1>4. OneSlot(C, B, D, B, h, NDirect, b)
    BY <1>1, <1>3 DEF OneSlot
  <1>5. /\ \A k \in Owners, l \in Slots : Ptr(D, B, k, l) # 0 => Ptr(D, B, k, l) \in M
        /\ \A k, m \in Owners, l, n \in Slots :
             <<k, l>> # <<m, n>> /\ Ptr(D, B, k, l) # 0 => Ptr(D, B, k, l) # Ptr(D, B, m, n)
    BY <1>1, <1>4, OneSlotApart
  <1>6. ASSUME NEW k \in Inodes, NEW l \in Slots, l # NDirect, Ptr(D, B, k, l) # 0
        PROVE  OwnBy(B, Ptr(D, B, k, l), k)
    <2>1. Ptr(D, B, k, l) = Ptr(C, B, k, l)
      BY <1>3, <1>6, Sizes0
    <2> QED
      BY <2>1, <1>6 DEF Tidy
  <1>7. D[-1] = C[-1]
    BY Sizes0
  <1> QED
    BY <1>5, <1>6, <1>7 DEF Tidy

\* Two owners have no indirect block, or different ones.
LEMMA IndirectApart ==
    ASSUME NEW C, NEW B, NEW M, Spaces(C, B, M), Tidy(C, B, M),
           NEW h \in Owners, NEW k \in Owners, h # k, C[h].indirect # 0
    PROVE  /\ C[h].indirect # C[k].indirect
           /\ \A l \in Slots : l # NDirect => Ptr(C, B, h, l) # C[h].indirect
           /\ \A l \in Slots : Ptr(C, B, k, l) # C[h].indirect
  <1>1. NDirect \in Slots /\ Ptr(C, B, h, NDirect) = C[h].indirect
        /\ Ptr(C, B, k, NDirect) = C[k].indirect
    BY Sizes0 DEF Ptr
  <1>2. \A m \in Owners, l \in Slots :
          <<h, NDirect>> # <<m, l>> => C[h].indirect # Ptr(C, B, m, l)
    BY <1>1 DEF Tidy
  <1>3. <<h, NDirect>> # <<k, NDirect>>
    OBVIOUS
  <1> QED
    BY <1>1, <1>2, <1>3

\* Blocks E are B but for word w of h's indirect block, which was 0 and is b.
WordSet(C, B, E, h, w, b) ==
    /\ h # -1 => C[h].indirect # 0
    /\ B[C[h].indirect][w] = 0 /\ E[C[h].indirect][w] = b
    /\ \A x \in 1..2 : x # w => E[C[h].indirect][x] = B[C[h].indirect][x]
    /\ \A c \in Blocks : c # C[h].indirect => E[c] = B[c]

\* A word of an indirect block, or of block 0, is set to a block that the call holds.
LEMMA SetWord ==
    ASSUME NEW C, NEW B, NEW M, Spaces(C, B, M), Tidy(C, B, M),
           NEW E \in [Blocks -> [1..2 -> Nat]], NEW h \in Owners,
           NEW w \in 1..PerIndirect, NEW b, Held(C, B, M, b), WordSet(C, B, E, h, w, b),
           NEW f, h # -1 => f = h
    PROVE  Tidy(C, E, M) /\ Writable(C, E, M, b, f)
  <1> USE DEF WordSet
  <1> DEFINE a == C[h].indirect
             i == NDirect + w
  <1>1. i \in Slots /\ i # NDirect /\ Ptr(C, B, h, i) = 0 /\ a \in M
    BY PtrFacts
  <1>2. i - NDirect = w /\ ~ (i < NDirect)
    BY Sizes0
  <1>3. Ptr(C, E, h, i) = b
    BY <1>1, <1>2 DEF Ptr
  <1>4. ASSUME NEW k \in Owners, k # h, k = -1 \/ C[k].indirect # 0 PROVE C[k].indirect # a
    <2>1. CASE h = -1
      BY <2>1, <1>4 DEF Tidy
    <2>2. CASE h # -1
      BY <2>2, <1>4, IndirectApart
    <2> QED
      BY <2>1, <2>2
  <1>5. ASSUME NEW k \in Owners, NEW l \in Slots, <<k, l>> # <<h, i>>
        PROVE  Ptr(C, E, k, l) = Ptr(C, B, k, l)
    <2>1. CASE l < NDirect \/ l = NDirect
      BY <2>1, Sizes0 DEF Ptr
    <2>2. CASE ~ (l < NDirect) /\ l # NDirect /\ k # h /\ (k = -1 \/ C[k].indirect # 0)
      <3>1. C[k].indirect \in Blocks /\ C[k].indirect # a
        BY <2>2, <1>4, PtrFacts DEF Spaces
      <3>2. E[C[k].indirect] = B[C[k].indirect]
        BY <3>1
      <3> QED
        BY <2>2, <3>2 DEF Ptr
    <2>3. CASE ~ (l < NDirect) /\ l # NDirect /\ k # h /\ ~ (k = -1 \/ C[k].indirect # 0)
      BY <2>3 DEF Ptr
    <2>4. CASE ~ (l < NDirect) /\ l # NDirect /\ k = h
      <3>1. l - NDirect \in 1..2 /\ l - NDirect # w
        BY <2>4, <1>5, Sizes0 DEF Slots
      <3>2. E[a][l - NDirect] = B[a][l - NDirect]
        BY <3>1
      <3> QED
        BY <2>4, <3>2 DEF Ptr
    <2> QED
      BY <2>1, <2>2, <2>3, <2>4
  <1>6. OneSlot(C, B, C, E, h, i, b)
    BY <1>1, <1>3, <1>5 DEF OneSlot
  <1>7. /\ \A k \in Owners, l \in Slots : Ptr(C, E, k, l) # 0 => Ptr(C, E, k, l) \in M
        /\ \A k, m \in Owners, l, n \in Slots :
             <<k, l>> # <<m, n>> /\ Ptr(C, E, k, l) # 0 => Ptr(C, E, k, l) # Ptr(C, E, m, n)
    <2> HIDE DEF i
    <2> QED
      BY <1>1, <1>6, OneSlotApart
  <1>8. b # 0 /\ b \in M /\ Zero(B, b) /\ \A k \in Owners, l \in Slots : Ptr(C, B, k, l) # b
    BY DEF Held
  <1>9. \A k \in Owners : C[k].indirect # b
    BY <1>8, PtrFacts, Sizes0
  <1>10. M \subseteq Blocks
    BY DEF Spaces
  <1>11. ASSUME NEW k \in Inodes, NEW l \in Slots, l # NDirect, Ptr(C, E, k, l) # 0
         PROVE  OwnBy(E, Ptr(C, E, k, l), k)
    <2>1. k \in Owners
      BY Sizes0
    <2>2. CASE k = h /\ l = i
      <3>1. E[b] = B[b]
        BY <1>8, <1>9, <1>10
      <3> QED
        BY <1>3, <1>8, <2>2, <3>1 DEF OwnBy, Zero
    <2>3. CASE ~ (k = h /\ l = i)
      <3>1. Ptr(C, E, k, l) = Ptr(C, B, k, l)
        BY <1>5, <2>1, <2>3
      <3>2. OwnBy(B, Ptr(C, B, k, l), k)
        BY <3>1, <1>11 DEF Tidy
      <3>3. Ptr(C, B, k, l) # a
        <4>1. CASE a = 0
          BY <4>1, <3>1, <1>11
        <4>2. CASE a # 0
          <5>1. -1 \in Owners /\ h # -1
            BY <4>2, Sizes0 DEF Tidy
          <5> QED
            BY <4>2, <5>1, <2>1, <1>11, IndirectApart
        <4> QED
          BY <4>1, <4>2
      <3>4. Ptr(C, B, k, l) \in Blocks
        BY <3>1, <1>11, <2>1, <1>10 DEF Tidy
      <3>5. E[Ptr(C, B, k, l)] = B[Ptr(C, B, k, l)]
        BY <3>3, <3>4
      <3> QED
        BY <3>1, <3>2, <3>5 DEF OwnBy
    <2> QED
      BY <2>2, <2>3
  <1>12. ASSUME NEW c \in Spare \ M PROVE Zero(E, c)
    <2>1. c \in Blocks /\ E[c] = B[c]
      BY <1>1 DEF Spare
    <2> QED
      BY <2>1 DEF Tidy, Zero
  <1>13. Tidy(C, E, M)
    BY <1>7, <1>11, <1>12 DEF Tidy
  <1>14. ASSUME NEW k \in Inodes \ {f}, NEW l \in Slots PROVE Ptr(C, E, k, l) # b
    <2>1. k \in Owners /\ k # h
      BY Sizes0
    <2>2. Ptr(C, E, k, l) = Ptr(C, B, k, l)
      BY <2>1, <1>5
    <2> QED
      BY <2>1, <2>2, <1>8
  <1> QED
    BY <1>8, <1>9, <1>13, <1>14 DEF Writable

\* Data of file f is written to a block that takes it.
LEMMA SetData ==
    ASSUME NEW C, NEW B, NEW M, Spaces(C, B, M), Tidy(C, B, M),
           NEW E \in [Blocks -> [1..2 -> Nat]], NEW b, NEW f, Writable(C, B, M, b, f),
           \A x \in 1..2 : E[b][x] = B[b][x] \/ E[b][x] \div 100 = f,
           \A c \in Blocks : c # b => E[c] = B[c]
    PROVE  /\ Tidy(C, E, M)
           /\ \A h \in Owners, i \in Slots : Ptr(C, E, h, i) = Ptr(C, B, h, i)
  <1>1. b \in M /\ b # 0 /\ \A h \in Owners : C[h].indirect # b
    BY DEF Writable
  <1>2. M \subseteq Blocks
    BY DEF Spaces
  <1>3. ASSUME NEW h \in Owners, NEW i \in Slots
        PROVE  Ptr(C, E, h, i) = Ptr(C, B, h, i)
    <2>1. C[h].indirect \in Blocks
      BY <1>2, PtrFacts
    <2>2. E[C[h].indirect] = B[C[h].indirect]
      BY <2>1, <1>1
    <2> QED
      BY <2>2 DEF Ptr
  <1>4. ASSUME NEW k \in Inodes, NEW l \in Slots, l # NDirect, Ptr(C, E, k, l) # 0
        PROVE  OwnBy(E, Ptr(C, E, k, l), k)
    <2>1. k \in Owners
      BY Sizes0
    <2>2. Ptr(C, E, k, l) = Ptr(C, B, k, l)
      BY <2>1, <1>3
    <2>3. OwnBy(B, Ptr(C, B, k, l), k)
      BY <1>4, <2>2 DEF Tidy
    <2>4. CASE Ptr(C, B, k, l) = b
      <3>1. k = f
        BY <2>4 DEF Writable
      <3> QED
        BY <2>2, <2>3, <2>4, <3>1 DEF OwnBy
    <2>5. CASE Ptr(C, B, k, l) # b
      <3>1. Ptr(C, B, k, l) \in Blocks
        BY <1>2, <1>4, <2>1, <2>2 DEF Tidy
      <3>2. E[Ptr(C, B, k, l)] = B[Ptr(C, B, k, l)]
        BY <2>5, <3>1
      <3> QED
        BY <2>2, <2>3, <3>2 DEF OwnBy
    <2> QED
      BY <2>4, <2>5
  <1>5. ASSUME NEW c \in Spare \ M PROVE Zero(E, c)
    <2>1. c \in Blocks /\ E[c] = B[c]
      BY <1>1 DEF Spare
    <2> QED
      BY <2>1 DEF Tidy, Zero
  <1>6. \A h \in Owners, i \in Slots : Ptr(C, E, h, i) # 0 => Ptr(C, E, h, i) \in M
    BY <1>3 DEF Tidy
  <1>7. \A h, k \in Owners, i, l \in Slots :
          <<h, i>> # <<k, l>> /\ Ptr(C, E, h, i) # 0 => Ptr(C, E, h, i) # Ptr(C, E, k, l)
    BY <1>3 DEF Tidy
  <1> QED
    BY <1>3, <1>4, <1>5, <1>6, <1>7 DEF Tidy

-----------------------------------------------------------------------------
(* The call in progress *)

\* A call before the head of its loop.
Started == [pc: {"", "alloc", "bgdt", "sb", "read", "ind", "data", "inode", "dir", "wild"},
            call: {"write", "create"}, f: {0} \cup Inodes, v: 0..99, n: Nat, i: Nat, ino: Inode,
            want: {"", "direct", "indirect", "word", "inode"}, got: Nat, fails: Nat]

\* Call k is call j at a later step.
SameCall(j, k) ==
    /\ k.call = j.call /\ k.f = j.f /\ k.v = j.v /\ k.n = j.n /\ k.i = j.i
    /\ k.ino = j.ino /\ k.fails = j.fails

LEMMA CallsStarted == Calls \subseteq Started
  BY DEF Calls, Started

LEMMA CallTypes ==
    ASSUME NEW j \in Started
    PROVE  /\ j.f \in {0} \cup Inodes /\ j.f \in Owners /\ j.f # -1 /\ -1 \in Owners
           /\ j.i \in Nat /\ j.n \in Nat /\ j.got \in Nat /\ j.v \in 0..99 /\ j.fails \in Nat
           /\ j.ino \in Inode /\ j.ino.indirect \in Nat
           /\ \A i \in 0..(NDirect - 1) : j.ino.direct[i] \in Nat
           /\ NDirect \in Nat /\ PerIndirect \in Nat
  <1>1. /\ j.f \in {0} \cup Inodes /\ j.ino \in Inode
        /\ j.i \in Nat /\ j.n \in Nat /\ j.got \in Nat /\ j.v \in 0..99 /\ j.fails \in Nat
    BY DEF Started
  <1>2. j.ino.indirect \in Nat /\ \A i \in 0..(NDirect - 1) : j.ino.direct[i] \in Nat
    BY <1>1 DEF Inode
  <1> QED
    BY <1>1, <1>2, Sizes0

\* A data block of file f takes its data, as does one that a word of block 0 names.
LEMMA SlotWritable ==
    ASSUME NEW C, NEW B, NEW M, Spaces(C, B, M), Tidy(C, B, M),
           NEW h \in Owners, NEW i \in Slots, i # NDirect, Ptr(C, B, h, i) # 0,
           NEW f, h = -1 \/ h = f
    PROVE  Writable(C, B, M, Ptr(C, B, h, i), f)
  <1>1. Ptr(C, B, h, i) \in M
    BY DEF Tidy
  <1>2. ASSUME NEW k \in Owners PROVE C[k].indirect # Ptr(C, B, h, i)
    <2>1. Ptr(C, B, k, NDirect) = C[k].indirect /\ NDirect \in Slots
      BY Sizes0 DEF Ptr
    <2>2. <<h, i>> # <<k, NDirect>>
      OBVIOUS
    <2> QED
      BY <2>1, <2>2 DEF Tidy
  <1>3. ASSUME NEW k \in Inodes \ {f}, NEW l \in Slots PROVE Ptr(C, B, k, l) # Ptr(C, B, h, i)
    <2>1. k \in Owners /\ k # h
      BY Sizes0
    <2>2. <<h, i>> # <<k, l>>
      BY <2>1
    <2> QED
      BY <2>1, <2>2 DEF Tidy
  <1> QED
    BY <1>1, <1>2, <1>3 DEF Writable

\* What the search for a block leaves: a place that wants one, or a block.
LEMMA InIndirectStep ==
    ASSUME NEW C, NEW D, NEW N, NEW M, M = Gone(D),
           Spaces(C, D.blk, M), Tidy(C, D.blk, M),
           NEW j \in Started, C[j.f] = j.ino,
           NDirect <= j.i, j.i < NDirect + PerIndirect
    PROVE  /\ InIndirect(j, D) \in Calls /\ SameCall(j, InIndirect(j, D))
           /\ InIndirect(j, D).pc \in {"alloc", "data"}
           /\ AtStep(InIndirect(j, D), C, D, N)
           /\ LET w == D.blk[j.ino.indirect][j.i - NDirect + 1]
              IN  IF w = 0
                  THEN InIndirect(j, D).pc = "alloc" /\ InIndirect(j, D).want = "word"
                  ELSE InIndirect(j, D).pc = "data" /\ InIndirect(j, D).got = w
  <1> DEFINE B == D.blk
  <1>1. j.f \in Owners /\ j.f # -1 /\ -1 \in Owners
    BY CallTypes
  <1>2. PICK h \in Owners : /\ h = -1 \/ h = j.f
                            /\ h # -1 => C[h].indirect # 0
                            /\ C[h].indirect = j.ino.indirect
    <2>1. C[-1].indirect = 0
      BY DEF Tidy
    <2> QED
      BY <1>1, <2>1
  <1>3. PICK w \in 1..PerIndirect : w = j.i - NDirect + 1
    BY CallTypes
  <1>4. PICK q \in Nat : q = B[j.ino.indirect][w]
    <2>1. j.ino.indirect \in M /\ w \in 1..2
      BY <1>2, PtrFacts
    <2>2. B[j.ino.indirect] \in [1..2 -> Nat]
      BY <2>1 DEF Spaces
    <2> QED
      BY <2>1, <2>2
  <1>5. NDirect + w \in Slots /\ NDirect + w # NDirect /\ Ptr(C, B, h, NDirect + w) = q
    BY <1>2, <1>4, PtrFacts
  <1>6. CASE q = 0
    <2>1. InIndirect(j, D) = [j EXCEPT !.pc = "alloc", !.want = "word"]
      BY <1>3, <1>4, <1>6 DEF InIndirect, ToAlloc
    <2>2. PICK k : k = [j EXCEPT !.pc = "alloc", !.want = "word"]
      OBVIOUS
    <2>3. /\ k \in Calls /\ SameCall(j, k) /\ k.pc = "alloc" /\ k.want = "word"
          /\ k.i = j.i /\ k.ino = j.ino
      BY <2>2 DEF Started, Calls, SameCall
    <2>4. Empty(k, B)
      BY <2>3, <1>3, <1>4, <1>6 DEF Empty
    <2>5. AtStep(k, C, D, N)
      BY <2>3, <2>4 DEF AtStep
    <2> QED
      BY <2>1, <2>2, <2>3, <2>5, <1>3, <1>4, <1>6
  <1>7. CASE q # 0
    <2>1. InIndirect(j, D) = [j EXCEPT !.pc = "data", !.got = q]
      BY <1>3, <1>4, <1>7 DEF InIndirect, ToBlock
    <2>2. PICK k : k = [j EXCEPT !.pc = "data", !.got = q]
      OBVIOUS
    <2>3. k \in Calls /\ SameCall(j, k) /\ k.pc = "data" /\ k.got = q /\ k.f = j.f
      BY <2>2 DEF Started, Calls, SameCall
    <2>4. Writable(C, B, M, q, j.f)
      BY <1>2, <1>5, <1>7, SlotWritable
    <2>5. AtStep(k, C, D, N)
      BY <2>3, <2>4 DEF AtStep
    <2> QED
      BY <2>1, <2>2, <2>3, <2>5, <1>3, <1>4, <1>7
  <1> QED
    BY <1>6, <1>7

LEMMA LoopStep ==
    ASSUME NEW C, NEW D, NEW N, NEW M, M = Gone(D),
           Spaces(C, D.blk, M), Tidy(C, D.blk, M),
           NEW j \in Started, C[j.f] = j.ino
    PROVE  /\ Loop(j) \in Calls /\ SameCall(j, Loop(j))
           /\ Loop(j).pc \in {"alloc", "data", "inode", "read"}
           /\ AtStep(Loop(j), C, D, N)
  <1> DEFINE B == D.blk
             Good(k) == /\ k \in Calls /\ SameCall(j, k)
                        /\ k.pc \in {"alloc", "data", "inode", "read"} /\ AtStep(k, C, D, N)
  <1>1. j.f \in Owners /\ j.f # -1 /\ NDirect \in Nat /\ PerIndirect \in Nat /\ j.i \in Nat
    BY CallTypes
  <1>2. ASSUME NEW g \in Nat PROVE Good([j EXCEPT !.pc = "inode", !.got = g])
    <2>1. PICK k : k = [j EXCEPT !.pc = "inode", !.got = g]
      OBVIOUS
    <2>2. k \in Calls /\ SameCall(j, k) /\ k.pc = "inode"
      BY <2>1 DEF Started, Calls, SameCall
    <2>3. AtStep(k, C, D, N)
      BY <2>2 DEF AtStep
    <2> QED
      BY <2>1, <2>2, <2>3
  <1>3. Good([j EXCEPT !.pc = "inode"])
    <2>1. j.got \in Nat /\ [j EXCEPT !.pc = "inode"] = [j EXCEPT !.pc = "inode", !.got = j.got]
      BY DEF Started
    <2> HIDE DEF Good
    <2> QED
      BY <2>1, <1>2
  <1>4. CASE ~ (2 * j.i < j.n)
    BY <1>3, <1>4 DEF Loop
  <1>5. CASE 2 * j.i < j.n /\ j.i < NDirect /\ j.ino.direct[j.i] = 0
    <2>1. Loop(j) = [j EXCEPT !.pc = "alloc", !.want = "direct"]
      BY <1>5 DEF Loop, get_or_alloc_block_ptr, ToAlloc
    <2>2. PICK k : k = [j EXCEPT !.pc = "alloc", !.want = "direct"]
      OBVIOUS
    <2>3. /\ k \in Calls /\ SameCall(j, k) /\ k.pc = "alloc" /\ k.want = "direct"
          /\ k.i = j.i /\ k.ino = j.ino
      BY <2>2 DEF Started, Calls, SameCall
    <2>4. AtStep(k, C, D, N)
      BY <2>3, <1>5 DEF AtStep, Empty
    <2> QED
      BY <2>1, <2>2, <2>3, <2>4
  <1>6. CASE 2 * j.i < j.n /\ j.i < NDirect /\ j.ino.direct[j.i] # 0
    <2>1. Loop(j) = [j EXCEPT !.pc = "data", !.got = j.ino.direct[j.i]]
      BY <1>6 DEF Loop, get_or_alloc_block_ptr, ToBlock
    <2>2. PICK k : k = [j EXCEPT !.pc = "data", !.got = j.ino.direct[j.i]]
      OBVIOUS
    <2>3. j.i \in 0..(NDirect - 1)
      BY <1>1, <1>6
    <2>4. j.ino.direct[j.i] \in Nat
      BY <2>3, CallTypes
    <2>5. /\ k \in Calls /\ SameCall(j, k) /\ k.pc = "data" /\ k.f = j.f
          /\ k.got = j.ino.direct[j.i]
      BY <2>2, <2>4 DEF Started, Calls, SameCall
    <2>6. j.i \in Slots /\ j.i # NDirect /\ Ptr(C, B, j.f, j.i) = j.ino.direct[j.i]
      BY <2>3, <1>1, PtrFacts
    <2>7. Writable(C, B, M, j.ino.direct[j.i], j.f)
      BY <2>6, <1>1, <1>6, SlotWritable
    <2>8. AtStep(k, C, D, N)
      BY <2>5, <2>7 DEF AtStep
    <2> QED
      BY <2>1, <2>2, <2>5, <2>8
  <1>7. CASE 2 * j.i < j.n /\ ~ (j.i < NDirect) /\ j.i - NDirect >= PerIndirect
    <2>1. Loop(j) = [j EXCEPT !.pc = "inode", !.got = 0]
      BY <1>7 DEF Loop, get_or_alloc_block_ptr, ToBlock
    <2> HIDE DEF Good
    <2>2. Good(Loop(j))
      BY <2>1, <1>2
    <2> QED
      BY <2>2 DEF Good
  <1>8. CASE /\ 2 * j.i < j.n /\ ~ (j.i < NDirect) /\ ~ (j.i - NDirect >= PerIndirect)
             /\ j.ino.indirect = 0
    <2>1. Loop(j) = [j EXCEPT !.pc = "alloc", !.want = "indirect"]
      BY <1>8 DEF Loop, get_or_alloc_block_ptr, ToAlloc
    <2>2. PICK k : k = [j EXCEPT !.pc = "alloc", !.want = "indirect"]
      OBVIOUS
    <2>3. /\ k \in Calls /\ SameCall(j, k) /\ k.pc = "alloc" /\ k.want = "indirect"
          /\ k.i = j.i /\ k.ino = j.ino
      BY <2>2 DEF Started, Calls, SameCall
    <2>4. NDirect <= j.i /\ j.i < NDirect + PerIndirect
      BY <1>1, <1>8
    <2>5. AtStep(k, C, D, N)
      BY <2>3, <2>4, <1>8 DEF AtStep, Empty
    <2> QED
      BY <2>1, <2>2, <2>3, <2>5
  <1>9. CASE /\ 2 * j.i < j.n /\ ~ (j.i < NDirect) /\ ~ (j.i - NDirect >= PerIndirect)
             /\ j.ino.indirect # 0
    <2>1. Loop(j) = [j EXCEPT !.pc = "read"]
      BY <1>9 DEF Loop, get_or_alloc_block_ptr
    <2>2. PICK k : k = [j EXCEPT !.pc = "read"]
      OBVIOUS
    <2>3. k \in Calls /\ SameCall(j, k) /\ k.pc = "read" /\ k.i = j.i
      BY <2>2 DEF Started, Calls, SameCall
    <2>4. NDirect <= j.i /\ j.i < NDirect + PerIndirect
      BY <1>1, <1>9
    <2>5. AtStep(k, C, D, N)
      BY <2>3, <2>4 DEF AtStep
    <2> QED
      BY <2>1, <2>2, <2>3, <2>5
  <1> QED
    BY <1>4, <1>5, <1>6, <1>7, <1>8, <1>9

-----------------------------------------------------------------------------
(* The owners of a state *)

LEMMA NoneFacts ==
    /\ None.pc = "none"
    /\ \A j \in Started : j # None
    /\ \A a \in Inode : a # None
  <1>1. None.pc = "none"
    BY DEF None
  <1>2. \A j \in Started : j.pc # "none"
    BY DEF Started
  <1>3. ASSUME NEW a \in Inode PROVE a # None
    <2>1. "used" \in DOMAIN a
      BY DEF Inode
    <2>2. "used" \notin DOMAIN None
      BY DEF None
    <2> QED
      BY <2>1, <2>2
  <1> QED
    BY <1>1, <1>2, <1>3

LEMMA OlderFacts ==
    /\ \A a : Older(a, a)
    /\ \A a, b, c : Older(a, b) /\ Older(b, c) => Older(a, c)
    /\ \A b : Older(Blank, b)
  <1>1. Blank.indirect = 0 /\ \A i \in 0..(NDirect - 1) : Blank.direct[i] = 0
    BY DEF Blank
  <1>2. \A b : Older(Blank, b)
    BY <1>1 DEF Older
  <1>3. \A a : Older(a, a)
    BY DEF Older
  <1>4. ASSUME NEW a, NEW b, NEW c, Older(a, b), Older(b, c) PROVE Older(a, c)
    BY <1>4 DEF Older
  <1> QED
    BY <1>2, <1>3, <1>4

\* Disk and copies of the right types.
Stored(D, N) ==
    /\ D \in DiskType /\ \A k \in Kinds : D.bits[k] \subseteq Bits(k)
    /\ N \in [Inodes -> Inode \cup {None}]

LEMMA TakenFacts == Taken \in SUBSET Blocks /\ 0 \in Taken /\ Meta \subseteq Taken
  <1>1. Meta \subseteq Blocks /\ 0 \in Meta /\ Made \in Seq(Blocks \ Meta)
    BY Ext2Assumption
  <1>2. \A f \in DOMAIN Made : Made[f] \in Blocks
    BY <1>1
  <1> QED
    BY <1>1, <1>2 DEF Taken

LEMMA StoredFacts ==
    ASSUME NEW D, NEW N, Stored(D, N)
    PROVE  /\ D.blk \in [Blocks -> [1..2 -> Nat]] /\ D.ino \in [Inodes -> Inode]
           /\ D.dir \in Seq(Inodes) /\ D.bits \in [Kinds -> SUBSET Nat]
           /\ Gone(D) \in SUBSET Blocks /\ 0 \in Gone(D)
           /\ D.bits["inode"] \subseteq Bits("inode")
           /\ \A f \in Inodes : D.ino[f] \in Inode /\ (N[f] # None => N[f] \in Inode)
  <1>1. D.bits["block"] \subseteq Bits("block") /\ D.bits["inode"] \subseteq Bits("inode")
    BY DEF Stored, Kinds
  <1>2. Bits("block") \subseteq Blocks
    <2>1. NGroups * PerGroup["block"] \in Nat /\ FirstData \in Nat
      <3>1. NGroups \in Nat /\ PerGroup["block"] \in Nat /\ FirstData \in Nat
        BY Ext2Assumption DEF Kinds
      <3> QED
        BY <3>1
    <2> QED
      BY <2>1 DEF Bits, Blocks
  <1>3. D.blk \in [Blocks -> [1..2 -> Nat]] /\ D.ino \in [Inodes -> Inode] /\ D.dir \in Seq(Inodes)
        /\ D.bits \in [Kinds -> SUBSET Nat]
    BY DEF Stored, DiskType
  <1>4. \A f \in Inodes : D.ino[f] \in Inode /\ (N[f] # None => N[f] \in Inode)
    BY <1>3 DEF Stored
  <1>5. Gone(D) \in SUBSET Blocks /\ 0 \in Gone(D)
    BY <1>1, <1>2, TakenFacts DEF Gone
  <1> QED
    BY <1>1, <1>3, <1>4, <1>5

LEMMA BlankInode == Blank \in Inode
  BY Sizes0 DEF Blank, Inode

LEMMA CurrentFacts ==
    ASSUME NEW D, NEW N, Stored(D, N), NEW j \in Started \cup {None}
    PROVE  /\ Spaces(Current(D, N, j), D.blk, Gone(D))
           /\ Current(D, N, j)[-1] = Blank
           /\ j # None => Current(D, N, j)[j.f] = j.ino
           /\ j = None \/ j.f # 0 => Current(D, N, j)[0] = Blank
           /\ \A h \in Inodes : j = None \/ j.f # h =>
                Current(D, N, j)[h] = IF N[h] # None THEN N[h] ELSE D.ino[h]
  <1>1. -1 \in Owners /\ 0 \in Owners /\ Inodes \subseteq Owners /\ Owners = {-1, 0} \cup Inodes
        /\ \A h \in Inodes : h # -1 /\ h # 0
    BY Sizes0
  <1>2. j # None => j.f \in Owners /\ j.f # -1 /\ j.ino \in Inode
    BY CallTypes
  <1>3. Current(D, N, j)[-1] = Blank
    BY <1>1 DEF Current
  <1>4. j # None => Current(D, N, j)[j.f] = j.ino
    BY <1>1, <1>2 DEF Current
  <1>5. j = None \/ j.f # 0 => Current(D, N, j)[0] = Blank
    BY <1>1 DEF Current
  <1>6. \A h \in Inodes : j = None \/ j.f # h =>
          Current(D, N, j)[h] = IF N[h] # None THEN N[h] ELSE D.ino[h]
    BY <1>1 DEF Current
  <1>7. ASSUME NEW h \in Owners PROVE Current(D, N, j)[h] \in Inode
    <2>1. CASE j # None /\ j.f = h
      BY <2>1, <1>2, <1>4
    <2>2. CASE ~ (j # None /\ j.f = h)
      BY <2>2, <1>1, <1>3, <1>5, <1>6, StoredFacts, BlankInode
    <2> QED
      BY <2>1, <2>2
  <1>8. Current(D, N, j) \in [Owners -> Inode]
    BY <1>7 DEF Current
  <1> QED
    BY <1>3, <1>4, <1>5, <1>6, <1>8, StoredFacts DEF Spaces

\* Call k may go on: the state is sound except for what the next step needs.
Ready(D, N, k) ==
    /\ Stored(D, N) /\ InodesKept(D, N) /\ k \in Started /\ OfFile(k, D, N)
    /\ Tidy(Current(D, N, k), D.blk, Gone(D))

LEMMA SoundReady ==
    ASSUME NEW D, NEW N, NEW j, Sound(D, N, j)
    PROVE  /\ Stored(D, N) /\ InodesKept(D, N) /\ j \in Calls \cup {None}
           /\ j \in Started \cup {None}
           /\ j # None => Ready(D, N, j)
  BY CallsStarted DEF Sound, Typed, Stored, Ready

LEMMA StepSound ==
    ASSUME NEW D, NEW N, NEW k, Ready(D, N, k),
           NEW l \in Calls, SameCall(k, l), l.pc # "dir",
           AtStep(l, Current(D, N, k), D, N)
    PROVE  Sound(D, N, l)
  <1>1. k # None /\ l # None /\ l \in Started
    BY NoneFacts, CallsStarted DEF Ready
  <1>2. k.f = l.f /\ k.ino = l.ino /\ k.call = l.call
    BY DEF SameCall
  <1>3. Current(D, N, l) = Current(D, N, k)
    BY <1>1, <1>2 DEF Current
  <1>4. OfFile(l, D, N)
    BY <1>2 DEF OfFile, Ready
  <1> QED
    BY <1>3, <1>4 DEF Sound, Ready, Stored, Typed

LEMMA LoopSound ==
    ASSUME NEW D, NEW N, NEW k, Ready(D, N, k)
    PROVE  Sound(D, N, Loop(k)) /\ SameCall(k, Loop(k))
  <1>1. k \in Started /\ Stored(D, N) /\ k # None
    BY NoneFacts DEF Ready
  <1>2. /\ Spaces(Current(D, N, k), D.blk, Gone(D))
        /\ Current(D, N, k)[k.f] = k.ino
    BY <1>1, CurrentFacts
  <1>3. Tidy(Current(D, N, k), D.blk, Gone(D))
    BY DEF Ready
  <1>4. /\ Loop(k) \in Calls /\ SameCall(k, Loop(k))
        /\ Loop(k).pc \in {"alloc", "data", "inode", "read"}
        /\ AtStep(Loop(k), Current(D, N, k), D, N)
    BY <1>1, <1>2, <1>3, LoopStep
  <1> QED
    BY <1>4, StepSound

LEMMA InIndirectSound ==
    ASSUME NEW D, NEW N, NEW k, Ready(D, N, k),
           NDirect <= k.i, k.i < NDirect + PerIndirect
    PROVE  Sound(D, N, InIndirect(k, D)) /\ SameCall(k, InIndirect(k, D))
  <1>1. k \in Started /\ Stored(D, N) /\ k # None
    BY NoneFacts DEF Ready
  <1>2. /\ Spaces(Current(D, N, k), D.blk, Gone(D))
        /\ Current(D, N, k)[k.f] = k.ino
    BY <1>1, CurrentFacts
  <1>3. Tidy(Current(D, N, k), D.blk, Gone(D))
    BY DEF Ready
  <1>4. /\ InIndirect(k, D) \in Calls /\ SameCall(k, InIndirect(k, D))
        /\ InIndirect(k, D).pc \in {"alloc", "data"}
        /\ AtStep(InIndirect(k, D), Current(D, N, k), D, N)
    BY <1>1, <1>2, <1>3, InIndirectStep
  <1> QED
    BY <1>4, StepSound

\* No pointer is new: what is left is as tidy as what was there.
LEMMA Forget ==
    ASSUME NEW D, NEW N, NEW j \in Started \cup {None}, Stored(D, N),
           Tidy(Current(D, N, j), D.blk, Gone(D)),
           NEW E, NEW P, NEW k \in Started \cup {None}, Stored(E, P),
           E.blk = D.blk, Gone(E) = Gone(D),
           \A h \in Owners : Older(Current(E, P, k)[h], Current(D, N, j)[h])
    PROVE  Tidy(Current(E, P, k), E.blk, Gone(E))
  <1>1. Spaces(Current(D, N, j), D.blk, Gone(D)) /\ Current(E, P, k) \in [Owners -> Inode]
    BY CurrentFacts DEF Spaces
  <1> QED
    BY <1>1, DropPointers

\* What the disk and the descriptor table say of a file is older than its current inode.
LEMMA StoredIsOlder ==
    ASSUME NEW D, NEW N, NEW j, Sound(D, N, j), NEW h \in Inodes
    PROVE  /\ Older(D.ino[h], Current(D, N, j)[h])
           /\ N[h] # None => Older(N[h], Current(D, N, j)[h])
  <1>1. Stored(D, N) /\ InodesKept(D, N) /\ j \in Started \cup {None}
    BY SoundReady
  <1>2. N[h] # None => Older(D.ino[h], N[h])
    BY <1>1 DEF InodesKept
  <1>3. CASE j # None /\ j.f = h
    <2>1. OfFile(j, D, N) /\ Current(D, N, j)[h] = j.ino /\ j.f # 0
      BY <1>1, <1>3, CurrentFacts, Sizes0 DEF Sound
    <2>2. CASE j.call = "write"
      <3>1. N[h] # None /\ Older(N[h], j.ino)
        BY <2>1, <2>2, <1>3 DEF OfFile
      <3> QED
        BY <3>1, <2>1, <1>2, OlderFacts
    <2>3. CASE j.call # "write"
      <3>1. N[h] = None /\ Older(D.ino[h], j.ino)
        BY <2>1, <2>3, <1>3 DEF OfFile
      <3> QED
        BY <3>1, <2>1
    <2> QED
      BY <2>2, <2>3
  <1>4. CASE ~ (j # None /\ j.f = h)
    <2>1. Current(D, N, j)[h] = IF N[h] # None THEN N[h] ELSE D.ino[h]
      BY <1>1, <1>4, CurrentFacts
    <2> QED
      BY <2>1, <1>2, OlderFacts
  <1> QED
    BY <1>3, <1>4

\* A call takes the place of another one, or of none, without a new pointer.
LEMMA Relabel ==
    ASSUME NEW D, NEW N, NEW j, Sound(D, N, j),
           NEW k \in Started, OfFile(k, D, N), Older(k.ino, Current(D, N, j)[k.f])
    PROVE  Ready(D, N, k)
  <1>1. Stored(D, N) /\ InodesKept(D, N) /\ j \in Started \cup {None} /\ k # None
    BY SoundReady, NoneFacts
  <1>2. Tidy(Current(D, N, j), D.blk, Gone(D))
    BY DEF Sound
  <1>3. ASSUME NEW h \in Owners PROVE Older(Current(D, N, k)[h], Current(D, N, j)[h])
    <2>1. CASE k.f = h
      BY <2>1, <1>1, CurrentFacts
    <2>2. CASE k.f # h /\ h \in Inodes
      <3>1. Current(D, N, k)[h] = IF N[h] # None THEN N[h] ELSE D.ino[h]
        BY <2>2, <1>1, CurrentFacts
      <3> QED
        BY <2>2, <3>1, StoredIsOlder
    <2>3. CASE k.f # h /\ h \in {-1, 0}
      <3>1. Current(D, N, k)[h] = Blank
        BY <2>3, <1>1, CurrentFacts
      <3> QED
        BY <3>1, OlderFacts
    <2> QED
      BY <2>1, <2>2, <2>3, Sizes0
  <1>4. Tidy(Current(D, N, k), D.blk, Gone(D))
    BY <1>1, <1>2, <1>3, Forget
  <1> QED
    BY <1>1, <1>4 DEF Ready

\* The call ends, and files are closed.
LEMMA CallGone ==
    ASSUME NEW D, NEW N, NEW j, Sound(D, N, j),
           NEW P \in [Inodes -> Inode \cup {None}],
           \A h \in Inodes : P[h] \in {None, N[h]}
    PROVE  Sound(D, P, None)
  <1>1. Stored(D, N) /\ InodesKept(D, N) /\ j \in Started \cup {None}
    BY SoundReady
  <1>2. Stored(D, P)
    BY <1>1 DEF Stored
  <1>3. InodesKept(D, P)
    BY <1>1 DEF InodesKept
  <1>4. ASSUME NEW h \in Owners PROVE Older(Current(D, P, None)[h], Current(D, N, j)[h])
    <2>1. CASE h \in Inodes
      <3>1. Current(D, P, None)[h] = IF P[h] # None THEN P[h] ELSE D.ino[h]
        BY <2>1, <1>2, CurrentFacts
      <3>2. /\ Older(D.ino[h], Current(D, N, j)[h])
            /\ N[h] # None => Older(N[h], Current(D, N, j)[h])
        BY <2>1, StoredIsOlder
      <3> QED
        BY <2>1, <3>1, <3>2
    <2>2. CASE h \in {-1, 0}
      <3>1. Current(D, P, None)[h] = Blank
        BY <2>2, <1>2, CurrentFacts
      <3> QED
        BY <3>1, OlderFacts
    <2> QED
      BY <2>1, <2>2, Sizes0
  <1>5. Tidy(Current(D, N, j), D.blk, Gone(D))
    BY DEF Sound
  <1>6. Tidy(Current(D, P, None), D.blk, Gone(D))
    BY <1>1, <1>2, <1>4, <1>5, Forget
  <1> QED
    BY <1>2, <1>3, <1>6 DEF Sound, Typed, Stored

\* vfs_open: the copy is the disk's inode.
LEMMA OpenSound ==
    ASSUME NEW D, NEW N, Sound(D, N, None), NEW f \in Inodes, N[f] = None,
           f - 1 \in D.bits["inode"]
    PROVE  Sound(D, [N EXCEPT ![f] = D.ino[f]], None)
  <1>1. Stored(D, N) /\ InodesKept(D, N)
    BY SoundReady
  <1>2. PICK P : P = [N EXCEPT ![f] = D.ino[f]]
    OBVIOUS
  <1>3. D.ino[f] \in Inode /\ N \in [Inodes -> Inode \cup {None}]
    BY <1>1, StoredFacts DEF Stored
  <1>4. /\ P \in [Inodes -> Inode \cup {None}] /\ P[f] = D.ino[f]
        /\ \A h \in Inodes : h # f => P[h] = N[h]
    BY <1>2, <1>3
  <1>5. Stored(D, P)
    BY <1>1, <1>4 DEF Stored
  <1>6. InodesKept(D, P)
    BY <1>1, <1>4, OlderFacts DEF InodesKept
  <1>7. Current(D, P, None) = Current(D, N, None)
    <2>1. \A h \in Inodes : (IF P[h] # None THEN P[h] ELSE D.ino[h])
                            = IF N[h] # None THEN N[h] ELSE D.ino[h]
      BY <1>4
    <2> QED
      BY <2>1, Sizes0 DEF Current
  <1>8. Tidy(Current(D, P, None), D.blk, Gone(D))
    BY <1>7 DEF Sound
  <1> QED
    BY <1>2, <1>5, <1>6, <1>8 DEF Sound, Typed, Stored

-----------------------------------------------------------------------------
(* Calls *)

\* fs_ext2_write_file starts with the descriptor's copy.
LEMMA WriteStarts ==
    ASSUME NEW D, NEW N, Sound(D, N, None), NEW f \in Inodes, N[f] # None,
           NEW k \in Started, k.call = "write", k.f = f, k.pc = "",
           k.ino.direct = N[f].direct, k.ino.indirect = N[f].indirect
    PROVE  Ready(D, N, k) /\ Sound(D, N, Loop(k)) /\ SameCall(k, Loop(k))
  <1>1. N[f] \in Inode /\ Stored(D, N)
    BY SoundReady, StoredFacts
  <1>2. k.ino.direct = N[f].direct /\ k.ino.indirect = N[f].indirect
    OBVIOUS
  <1>3. Older(k.ino, N[f]) /\ Older(N[f], k.ino)
    BY <1>2 DEF Older
  <1>4. Current(D, N, None)[k.f] = N[f]
    <2>1. f \in Owners /\ f # -1 /\ f # 0
      BY InodeOwners
    <2>2. Current(D, N, None)[f] = N[f]
      BY <2>1 DEF Current
    <2> QED
      BY <2>2
  <1>5. OfFile(k, D, N)
    BY <1>3 DEF OfFile
  <1>6. Ready(D, N, k)
    BY <1>3, <1>4, <1>5, Relabel
  <1> QED
    BY <1>6, LoopSound

\* fs_ext2_create_file starts without an inode.
LEMMA CreateStarts ==
    ASSUME NEW D, NEW N, Sound(D, N, None),
           NEW k \in Calls, k.call = "create", k.f = 0, k.pc = "alloc", k.want = "inode",
           NEW n, k.ino = [Blank EXCEPT !.used = TRUE, !.size = n]
    PROVE  Sound(D, N, k)
  <1>1. k.ino.direct = Blank.direct /\ k.ino.indirect = Blank.indirect
    BY DEF Blank
  <1>2. Older(k.ino, Blank)
    BY <1>1 DEF Older
  <1>3. Current(D, N, None)[k.f] = Blank
    BY SoundReady, CurrentFacts
  <1>4. OfFile(k, D, N)
    BY DEF OfFile
  <1>5. Ready(D, N, k)
    BY <1>2, <1>3, <1>4, Relabel, CallsStarted
  <1>6. AtStep(k, Current(D, N, k), D, N)
    BY <1>2 DEF AtStep, Empty
  <1> QED
    BY <1>5, <1>6, StepSound DEF SameCall

\* The counts are no part of what Sound says.
LEMMA SoundWithoutCounts ==
    ASSUME NEW D, NEW N, NEW j, Sound(D, N, j),
           NEW E \in DiskType, E.bits = D.bits, E.ino = D.ino, E.blk = D.blk, E.dir = D.dir
    PROVE  Sound(E, N, j)
  <1>1. Current(E, N, j) = Current(D, N, j)
    BY DEF Current
  <1>2. Typed(E, N, j) /\ InodesKept(E, N)
    BY DEF Sound, Typed, InodesKept
  <1>3. j # None => OfFile(j, E, N) /\ AtStep(j, Current(D, N, j), E, N)
    BY DEF Sound, OfFile, AtStep, NewInode, Gone
  <1> QED
    BY <1>1, <1>2, <1>3 DEF Sound, Gone

LEMMA ToBlockFacts ==
    ASSUME NEW k \in Started, NEW b \in Nat
    PROVE  /\ ToBlock(k, b) \in Calls /\ SameCall(k, ToBlock(k, b)) /\ ToBlock(k, b).got = b
           /\ ToBlock(k, b).pc = IF b = 0 THEN "inode" ELSE "data"
  <1>1. CASE b = 0
    <2>1. PICK l : l = [k EXCEPT !.pc = "inode", !.got = 0]
      OBVIOUS
    <2>2. ToBlock(k, b) = l
      BY <1>1, <2>1 DEF ToBlock
    <2>3. l \in Calls /\ SameCall(k, l) /\ l.got = 0 /\ l.pc = "inode"
      BY <2>1 DEF Started, Calls, SameCall
    <2> QED
      BY <1>1, <2>2, <2>3
  <1>2. CASE b # 0
    <2>1. PICK l : l = [k EXCEPT !.pc = "data", !.got = b]
      OBVIOUS
    <2>2. ToBlock(k, b) = l
      BY <1>2, <2>1 DEF ToBlock
    <2>3. l \in Calls /\ SameCall(k, l) /\ l.got = b /\ l.pc = "data"
      BY <2>1 DEF Started, Calls, SameCall
    <2> QED
      BY <1>2, <2>2, <2>3
  <1> QED
    BY <1>1, <1>2

\* The direct pointer of a call that has a block, or none, for it.
LEMMA AssignDirect ==
    ASSUME NEW D, NEW N, NEW j, Sound(D, N, j), j # None,
           NEW b \in Nat, j.i < NDirect, j.ino.direct[j.i] = 0, j.pc # "dir",
           b = 0 \/ Held(Current(D, N, j), D.blk, Gone(D), b)
    PROVE  LET k == ToBlock([j EXCEPT !.ino.direct[j.i] = b], b)
           IN  /\ Sound(D, N, k) /\ k.f = j.f /\ k.call = j.call /\ k.fails = j.fails
  <1> DEFINE M == Gone(D)
  <1>1. j \in Started /\ Stored(D, N) /\ InodesKept(D, N) /\ OfFile(j, D, N)
        /\ Tidy(Current(D, N, j), D.blk, M)
    BY SoundReady DEF Sound
  <1>2. j.i \in 0..(NDirect - 1) /\ j.ino \in Inode /\ j.f \in Owners /\ j.f # -1
    BY <1>1, CallTypes
  <1>a. PICK a : a = [j.ino EXCEPT !.direct[j.i] = b]
    OBVIOUS
  <1>3. /\ a \in Inode /\ a.direct[j.i] = b /\ a.indirect = j.ino.indirect
        /\ \A l \in 0..(NDirect - 1) : l # j.i => a.direct[l] = j.ino.direct[l]
    BY <1>2, <1>a DEF Inode
  <1>k. PICK k : k = [j EXCEPT !.ino.direct[j.i] = b]
    OBVIOUS
  <1>4. /\ k \in Started /\ k = [j EXCEPT !.ino.direct[j.i] = b]
        /\ k.ino = a /\ k.f = j.f /\ k.call = j.call /\ k.fails = j.fails
        /\ k.pc = j.pc
    BY <1>1, <1>3, <1>a, <1>k, ZenonT(30) DEF Started
  <1>5. Older(j.ino, k.ino)
    BY <1>3, <1>4 DEF Older
  <1>6. OfFile(k, D, N)
    BY <1>1, <1>4, <1>5, OlderFacts DEF OfFile
  <1>l. PICK l : l = ToBlock(k, b)
    OBVIOUS
  <1>7. /\ l \in Calls /\ l = ToBlock(k, b) /\ SameCall(k, l) /\ l.got = b
        /\ l.pc = IF b = 0 THEN "inode" ELSE "data"
    BY <1>4, <1>l, ToBlockFacts
  <1>8. CASE b = 0
    <2>1. Older(k.ino, j.ino)
      BY <1>3, <1>4, <1>8 DEF Older
    <2>2. Current(D, N, j)[k.f] = j.ino
      BY <1>1, <1>4, CurrentFacts
    <2>3. Ready(D, N, k)
      BY <2>1, <2>2, <1>4, <1>6, Relabel
    <2>4. AtStep(l, Current(D, N, k), D, N)
      BY <1>7, <1>8 DEF AtStep
    <2>5. Sound(D, N, l)
      BY <2>3, <2>4, <1>7, <1>8, StepSound
    <2> QED
      BY <2>5, <1>4, <1>7 DEF SameCall
  <1>9. CASE b # 0
    <2>1. k # None
      BY <1>4, NoneFacts
    <2>2. PICK C : C = Current(D, N, j)
      OBVIOUS
    <2>3. PICK X : X = Current(D, N, k)
      OBVIOUS
    <2>4. C \in [Owners -> Inode] /\ X \in [Owners -> Inode] /\ Spaces(C, D.blk, M)
      BY <1>1, <1>4, <2>2, <2>3, CurrentFacts DEF Spaces
    <2>5. C[j.f] = j.ino /\ X[j.f] = k.ino /\ \A h \in Owners : h # j.f => X[h] = C[h]
      BY <1>1, <1>2, <1>4, <2>1, <2>2, <2>3 DEF Current
    <2>6. Tidy(X, D.blk, M) /\ Writable(X, D.blk, M, b, j.f)
      <3>1. Tidy(C, D.blk, M) /\ Held(C, D.blk, M, b)
        BY <1>1, <1>9, <2>2
      <3>2. /\ C[j.f].direct[j.i] = 0 /\ X[j.f].direct[j.i] = b /\ X[j.f].indirect = C[j.f].indirect
            /\ \A m \in 0..(NDirect - 1) : m # j.i => X[j.f].direct[m] = C[j.f].direct[m]
        BY <1>3, <1>4, <2>5
      <3> QED
        BY <1>2, <2>4, <2>5, <3>1, <3>2, SetDirect
    <2>7. Ready(D, N, k)
      BY <1>1, <1>4, <1>6, <2>3, <2>6 DEF Ready
    <2>8. AtStep(l, X, D, N)
      BY <1>4, <1>7, <1>9, <2>6 DEF AtStep, SameCall
    <2>9. Sound(D, N, l)
      BY <2>3, <2>7, <2>8, <1>7, <1>9, StepSound
    <2> QED
      BY <2>9, <1>4, <1>7 DEF SameCall
  <1> QED
    BY <1>8, <1>9

\* The indirect pointer, likewise; the indirect block is read next.
LEMMA AssignIndirect ==
    ASSUME NEW D, NEW N, NEW j, Sound(D, N, j), j # None,
           NEW b \in Nat, NDirect <= j.i, j.i < NDirect + PerIndirect, j.ino.indirect = 0, j.pc # "dir",
           b = 0 \/ Held(Current(D, N, j), D.blk, Gone(D), b)
    PROVE  LET k == [j EXCEPT !.ino.indirect = b, !.pc = "read"]
           IN  /\ Sound(D, N, k) /\ k.f = j.f /\ k.call = j.call /\ k.fails = j.fails
  <1> DEFINE M == Gone(D)
  <1>1. j \in Started /\ Stored(D, N) /\ InodesKept(D, N) /\ OfFile(j, D, N)
        /\ Tidy(Current(D, N, j), D.blk, M)
    BY SoundReady DEF Sound
  <1>2. j.ino \in Inode /\ j.f \in Owners /\ j.f # -1
    BY <1>1, CallTypes
  <1>a. PICK a : a = [j.ino EXCEPT !.indirect = b]
    OBVIOUS
  <1>3. a \in Inode /\ a.indirect = b /\ a.direct = j.ino.direct
    BY <1>2, <1>a DEF Inode
  <1>k. PICK k : k = [j EXCEPT !.ino.indirect = b]
    OBVIOUS
  <1>4. /\ k \in Started /\ k = [j EXCEPT !.ino.indirect = b]
        /\ k.ino = a /\ k.f = j.f /\ k.call = j.call /\ k.fails = j.fails
        /\ k.pc = j.pc /\ k.i = j.i
    BY <1>1, <1>3, <1>a, <1>k, ZenonT(30) DEF Started
  <1>5. Older(j.ino, k.ino)
    BY <1>3, <1>4 DEF Older
  <1>6. OfFile(k, D, N)
    BY <1>1, <1>4, <1>5, OlderFacts DEF OfFile
  <1>7. Ready(D, N, k)
    <2>1. CASE b = 0
      <3>1. Older(k.ino, j.ino)
        BY <1>3, <1>4, <2>1 DEF Older
      <3>2. Current(D, N, j)[k.f] = j.ino
        BY <1>1, <1>4, CurrentFacts
      <3> QED
        BY <3>1, <3>2, <1>4, <1>6, Relabel
    <2>2. CASE b # 0
      <3>1. k # None
        BY <1>4, NoneFacts
      <3>2. PICK C : C = Current(D, N, j)
        OBVIOUS
      <3>3. PICK X : X = Current(D, N, k)
        OBVIOUS
      <3>4. C \in [Owners -> Inode] /\ X \in [Owners -> Inode] /\ Spaces(C, D.blk, M)
        BY <1>1, <1>4, <3>2, <3>3, CurrentFacts DEF Spaces
      <3>5. C[j.f] = j.ino /\ X[j.f] = k.ino /\ \A h \in Owners : h # j.f => X[h] = C[h]
        BY <1>1, <1>2, <1>4, <3>1, <3>2, <3>3 DEF Current
      <3>6. Tidy(C, D.blk, M) /\ Held(C, D.blk, M, b)
        BY <1>1, <2>2, <3>2
      <3>7. C[j.f].indirect = 0 /\ X[j.f].indirect = b /\ X[j.f].direct = C[j.f].direct
        BY <1>3, <1>4, <3>5
      <3>8. Tidy(X, D.blk, M)
        BY <1>2, <3>4, <3>5, <3>6, <3>7, SetIndirect
      <3> QED
        BY <1>1, <1>4, <1>6, <3>3, <3>8 DEF Ready
    <2> QED
      BY <2>1, <2>2
  <1>8. PICK l : l = [k EXCEPT !.pc = "read"]
    OBVIOUS
  <1>9. l = [j EXCEPT !.ino.indirect = b, !.pc = "read"]
    BY <1>k, <1>8
  <1>10. l \in Calls /\ SameCall(k, l) /\ l.pc = "read" /\ l.i = k.i
    <2>1. k \in Started
      BY <1>4
    <2> QED
      BY ONLY <2>1, <1>8 DEF Started, Calls, SameCall
  <1>11. AtStep(l, Current(D, N, k), D, N)
    BY <1>4, <1>10 DEF AtStep
  <1>12. Sound(D, N, l)
    BY <1>7, <1>10, <1>11, StepSound
  <1> QED
    BY <1>4, <1>9, <1>10, <1>12 DEF SameCall

\* The word of the indirect block is to be written.
LEMMA AssignWord ==
    ASSUME NEW D, NEW N, NEW j, Sound(D, N, j), j # None,
           NEW b \in Nat, j.want = "word", Empty(j, D.blk),
           b = 0 \/ Held(Current(D, N, j), D.blk, Gone(D), b)
    PROVE  Sound(D, N, [j EXCEPT !.pc = "ind", !.got = b])
  <1>1. Ready(D, N, j) /\ j \in Started
    BY SoundReady
  <1>2. PICK l : l = [j EXCEPT !.pc = "ind", !.got = b]
    OBVIOUS
  <1>3. l \in Calls /\ SameCall(j, l) /\ l.pc = "ind" /\ l.got = b /\ l.want = j.want
    BY <1>1, <1>2 DEF Started, Calls, SameCall
  <1>4. Empty(l, D.blk)
    BY <1>3 DEF Empty, SameCall
  <1>5. AtStep(l, Current(D, N, j), D, N)
    BY <1>3, <1>4 DEF AtStep
  <1> QED
    BY <1>1, <1>2, <1>3, <1>5, StepSound

\* The new file has its inode, or goes on without.
LEMMA InodeAssigned ==
    ASSUME NEW D, NEW N, NEW j, Sound(D, N, j), j # None,
           NEW b, j.call = "create", Older(j.ino, Blank),
           b = 0 \/ NewInode(b, D, N)
    PROVE  Ready(D, N, [j EXCEPT !.f = b])
  <1>1. j \in Started
    BY SoundReady
  <1>2. b \in {0} \cup Inodes
    BY DEF NewInode
  <1>3. PICK k : k = [j EXCEPT !.f = b]
    OBVIOUS
  <1>4. k \in Started /\ k.f = b /\ k.ino = j.ino /\ k.call = "create"
    BY <1>1, <1>2, <1>3 DEF Started
  <1>5. \A x : Older(k.ino, x)
    BY <1>4, OlderFacts
  <1>6. OfFile(k, D, N)
    <2>1. CASE b = 0
      BY <2>1, <1>4 DEF OfFile
    <2>2. CASE NewInode(b, D, N)
      <3>1. Older(D.ino[b], k.ino)
        BY <2>2, OlderFacts DEF NewInode
      <3> QED
        BY <2>2, <3>1, <1>4 DEF OfFile, NewInode
    <2> QED
      BY <2>1, <2>2
  <1>7. Ready(D, N, k)
    BY <1>4, <1>5, <1>6, Relabel
  <1> QED
    BY <1>3, <1>7

LEMMA AssignInode ==
    ASSUME NEW D, NEW N, NEW j, Sound(D, N, j), j # None,
           NEW b, j.call = "create", Older(j.ino, Blank),
           b = 0 \/ NewInode(b, D, N)
    PROVE  Sound(D, N, Loop([j EXCEPT !.f = b]))
  <1>1. PICK k : k = [j EXCEPT !.f = b]
    OBVIOUS
  <1>2. Ready(D, N, k)
    BY <1>1, InodeAssigned
  <1> QED
    BY <1>1, <1>2, LoopSound

\* The number that call j wanted can be used.
Usable(j, b, D, N) ==
    \/ b = 0
    \/ j.want # "inode" /\ Held(Current(D, N, j), D.blk, Gone(D), b)
    \/ j.want = "inode" /\ NewInode(b, D, N)

LEMMA AssignSound ==
    ASSUME NEW D, NEW N, NEW j, Sound(D, N, j), j # None, j.pc # "dir", Empty(j, D.blk),
           NEW b \in Nat, Usable(j, b, D, N)
    PROVE  Sound(D, N, Assigned(j, b))
  <1>1. CASE j.want = "direct"
    <2>1. Assigned(j, b) = ToBlock([j EXCEPT !.ino.direct[j.i] = b], b)
      BY <1>1 DEF Assigned
    <2>2. j.i < NDirect /\ j.ino.direct[j.i] = 0
      BY <1>1 DEF Empty
    <2>3. b = 0 \/ Held(Current(D, N, j), D.blk, Gone(D), b)
      BY <1>1 DEF Usable
    <2> QED
      BY <2>1, <2>2, <2>3, AssignDirect
  <1>2. CASE j.want = "indirect"
    <2>1. Assigned(j, b) = [j EXCEPT !.ino.indirect = b, !.pc = "read"]
      BY <1>2 DEF Assigned
    <2>2. NDirect <= j.i /\ j.i < NDirect + PerIndirect /\ j.ino.indirect = 0
      BY <1>2 DEF Empty
    <2>3. b = 0 \/ Held(Current(D, N, j), D.blk, Gone(D), b)
      BY <1>2 DEF Usable
    <2>4. Sound(D, N, [j EXCEPT !.ino.indirect = b, !.pc = "read"])
      BY <2>2, <2>3, AssignIndirect
    <2> QED
      BY <2>1, <2>4
  <1>3. CASE j.want = "word"
    <2>1. Assigned(j, b) = [j EXCEPT !.pc = "ind", !.got = b]
      BY <1>3 DEF Assigned
    <2>2. b = 0 \/ Held(Current(D, N, j), D.blk, Gone(D), b)
      BY <1>3 DEF Usable
    <2>3. Sound(D, N, [j EXCEPT !.pc = "ind", !.got = b])
      BY <1>3, <2>2, AssignWord
    <2> QED
      BY <2>1, <2>3
  <1>4. CASE j.want = "inode"
    <2>1. Assigned(j, b) = Loop([j EXCEPT !.f = b])
      BY <1>4 DEF Assigned
    <2>2. j.call = "create" /\ Older(j.ino, Blank)
      BY <1>4 DEF Empty
    <2>3. b = 0 \/ NewInode(b, D, N)
      BY <1>4 DEF Usable
    <2> QED
      BY <2>1, <2>2, <2>3, AssignInode
  <1> QED
    BY <1>1, <1>2, <1>3, <1>4 DEF Empty

-----------------------------------------------------------------------------
(* Transfers *)

LEMMA MarkedFacts ==
    ASSUME NEW D \in DiskType, NEW k \in Kinds, NEW b \in Nat
    PROVE  /\ Marked(D, k, b) \in DiskType
           /\ Marked(D, k, b).bits[k] = D.bits[k] \cup {b}
           /\ \A l \in Kinds : l # k => Marked(D, k, b).bits[l] = D.bits[l]
           /\ Marked(D, k, b).bgdt = D.bgdt /\ Marked(D, k, b).sb = D.sb
           /\ Marked(D, k, b).ino = D.ino
           /\ Marked(D, k, b).blk = D.blk /\ Marked(D, k, b).dir = D.dir
  <1>1. PICK X : X = [D.bits EXCEPT ![k] = @ \cup {b}]
    OBVIOUS
  <1>2. D.bits \in [Kinds -> SUBSET Nat]
    BY DEF DiskType
  <1>3. /\ X \in [Kinds -> SUBSET Nat] /\ X[k] = D.bits[k] \cup {b}
        /\ \A l \in Kinds : l # k => X[l] = D.bits[l]
    BY <1>1, <1>2
  <1>4. Marked(D, k, b) = [D EXCEPT !.bits = X]
    BY <1>1 DEF Marked
  <1>5. PICK E : E = [D EXCEPT !.bits = X]
    OBVIOUS
  <1>6. /\ E \in DiskType /\ E.bits = X /\ E.bgdt = D.bgdt /\ E.sb = D.sb /\ E.ino = D.ino
        /\ E.blk = D.blk /\ E.dir = D.dir
    BY <1>3, <1>5 DEF DiskType
  <1> QED
    BY <1>3, <1>4, <1>5, <1>6

\* A block is allocated: its bit is on the disk.
LEMMA BlockTaken ==
    ASSUME NEW D, NEW N, NEW j, Sound(D, N, j), j # None, j.pc = "alloc", j.want # "inode",
           NEW b \in Bits("block"), b \notin D.bits["block"], b \in Spare
    PROVE  Sound(Marked(D, "block", b), N, [j EXCEPT !.pc = "bgdt", !.got = b])
  <1>1. /\ Ready(D, N, j) /\ j \in Started /\ Stored(D, N) /\ InodesKept(D, N)
        /\ OfFile(j, D, N) /\ AtStep(j, Current(D, N, j), D, N)
        /\ Tidy(Current(D, N, j), D.blk, Gone(D))
    BY SoundReady DEF Sound
  <1>2. b \in Nat /\ b \in Blocks
    <2>1. NGroups * PerGroup["block"] \in Nat /\ FirstData \in Nat
      <3>1. NGroups \in Nat /\ PerGroup["block"] \in Nat /\ FirstData \in Nat
        BY Ext2Assumption DEF Kinds
      <3> QED
        BY <3>1
    <2> QED
      BY <2>1 DEF Bits, Blocks
  <1>3. D \in DiskType /\ \A k \in Kinds : D.bits[k] \subseteq Bits(k)
    BY <1>1 DEF Stored
  <1>4. PICK E : E = Marked(D, "block", b)
    OBVIOUS
  <1>5. /\ E \in DiskType /\ E.bits["block"] = D.bits["block"] \cup {b}
        /\ E.bits["inode"] = D.bits["inode"]
        /\ E.ino = D.ino /\ E.blk = D.blk /\ E.dir = D.dir
    BY <1>2, <1>3, <1>4, MarkedFacts DEF Kinds
  <1>a. Gone(E) = Gone(D) \cup {b} /\ b \in Spare \ Gone(D)
    BY <1>5 DEF Gone, Spare
  <1>6. Stored(E, N)
    BY <1>1, <1>3, <1>5 DEF Stored, Kinds
  <1>7. InodesKept(E, N)
    BY <1>1, <1>5 DEF InodesKept
  <1>8. OfFile(j, E, N)
    BY <1>1, <1>5 DEF OfFile
  <1>9. Current(E, N, j) = Current(D, N, j)
    BY <1>5 DEF Current
  <1>10. PICK C : C = Current(D, N, j)
    OBVIOUS
  <1>11. Tidy(C, E.blk, Gone(E)) /\ Held(C, E.blk, Gone(E), b)
    <2>1. Spaces(C, D.blk, Gone(D)) /\ Tidy(C, D.blk, Gone(D))
      BY <1>1, <1>10, CurrentFacts
    <2> QED
      BY <1>5, <1>a, <2>1, TakeBlock
  <1>12. PICK l : l = [j EXCEPT !.pc = "bgdt", !.got = b]
    OBVIOUS
  <1>13. l \in Calls /\ SameCall(j, l) /\ l.pc = "bgdt" /\ l.got = b /\ l.want = j.want
    BY <1>1, <1>2, <1>12 DEF Started, Calls, SameCall
  <1>14. Empty(l, E.blk)
    <2>1. Empty(j, D.blk)
      BY <1>1 DEF AtStep
    <2> QED
      BY <2>1, <1>5, <1>13 DEF Empty, SameCall
  <1>15. AtStep(l, C, E, N)
    BY <1>11, <1>13, <1>14 DEF AtStep
  <1>16. Ready(E, N, j)
    BY <1>1, <1>6, <1>7, <1>8, <1>9, <1>10, <1>11 DEF Ready
  <1> QED
    BY <1>4, <1>9, <1>10, <1>12, <1>13, <1>15, <1>16, StepSound

\* An inode is allocated: nobody names it, and its pointers are empty.
LEMMA InodeTaken ==
    ASSUME NEW D, NEW N, NEW j, Sound(D, N, j), j # None, j.pc = "alloc", j.want = "inode",
           NEW b \in Bits("inode"), b \notin D.bits["inode"]
    PROVE  Sound(Marked(D, "inode", b), N, [j EXCEPT !.pc = "bgdt", !.got = b + 1])
  <1>1. /\ Ready(D, N, j) /\ j \in Started /\ Stored(D, N) /\ InodesKept(D, N)
        /\ OfFile(j, D, N) /\ AtStep(j, Current(D, N, j), D, N)
        /\ Tidy(Current(D, N, j), D.blk, Gone(D))
    BY SoundReady DEF Sound
  <1>2. b \in Nat /\ b + 1 \in Inodes /\ (b + 1) - 1 = b
    BY Sizes0 DEF Bits, Inodes
  <1>3. D \in DiskType /\ \A k \in Kinds : D.bits[k] \subseteq Bits(k)
    BY <1>1 DEF Stored
  <1>4. PICK E : E = Marked(D, "inode", b)
    OBVIOUS
  <1>5. /\ E \in DiskType /\ E.bits["inode"] = D.bits["inode"] \cup {b}
        /\ E.bits["block"] = D.bits["block"]
        /\ E.ino = D.ino /\ E.blk = D.blk /\ E.dir = D.dir
    BY <1>2, <1>3, <1>4, MarkedFacts DEF Kinds
  <1>6. Stored(E, N)
    BY <1>1, <1>3, <1>5 DEF Stored, Kinds
  <1>7. InodesKept(E, N)
    BY <1>1, <1>5 DEF InodesKept
  <1>8. OfFile(j, E, N)
    BY <1>1, <1>5 DEF OfFile
  <1>9. Current(E, N, j) = Current(D, N, j)
    BY <1>5 DEF Current
  <1>10. NewInode(b + 1, E, N)
    <2>1. (b + 1) - 1 \notin D.bits["inode"]
      BY <1>2
    <2>2. N[b + 1] = None /\ Older(D.ino[b + 1], Blank)
      BY <1>1, <1>2, <2>1 DEF InodesKept
    <2>3. \A e \in DOMAIN D.dir : D.dir[e] # b + 1
      BY <1>1, <2>1 DEF InodesKept
    <2> QED
      BY <1>2, <1>5, <2>2, <2>3 DEF NewInode
  <1>11. PICK l : l = [j EXCEPT !.pc = "bgdt", !.got = b + 1]
    OBVIOUS
  <1>12. l \in Calls /\ SameCall(j, l) /\ l.pc = "bgdt" /\ l.got = b + 1 /\ l.want = j.want
    <2>1. b + 1 \in Nat
      BY <1>2
    <2> QED
      BY <1>1, <2>1, <1>11 DEF Started, Calls, SameCall
  <1>13. Empty(l, E.blk)
    <2>1. Empty(j, D.blk)
      BY <1>1 DEF AtStep
    <2> QED
      BY <2>1, <1>5, <1>12 DEF Empty, SameCall
  <1>14. AtStep(l, Current(E, N, j), E, N)
    BY <1>10, <1>12, <1>13 DEF AtStep
  <1>15. Ready(E, N, j)
    BY <1>1, <1>5, <1>6, <1>7, <1>8, <1>9 DEF Ready, Gone
  <1> QED
    BY <1>4, <1>11, <1>12, <1>14, <1>15, StepSound

LEMMA BlocksFacts ==
    ASSUME NEW D \in DiskType, NEW X \in [Blocks -> [1..2 -> Nat]]
    PROVE  LET E == [D EXCEPT !.blk = X]
           IN  /\ E \in DiskType /\ E.blk = X /\ E.bits = D.bits /\ E.bgdt = D.bgdt /\ E.sb = D.sb
               /\ E.ino = D.ino /\ E.dir = D.dir
  <1>1. PICK E : E = [D EXCEPT !.blk = X]
    OBVIOUS
  <1>2. /\ E \in DiskType /\ E.blk = X /\ E.bits = D.bits /\ E.bgdt = D.bgdt /\ E.sb = D.sb
        /\ E.ino = D.ino /\ E.dir = D.dir
    BY <1>1 DEF DiskType
  <1> QED
    BY <1>1, <1>2

\* Only blocks change: all but tidiness is as before.
LEMMA BlocksWritten ==
    ASSUME NEW D, NEW N, NEW j, Ready(D, N, j),
           NEW E \in DiskType, E.bits = D.bits, E.ino = D.ino, E.dir = D.dir,
           Tidy(Current(D, N, j), E.blk, Gone(D))
    PROVE  Ready(E, N, j) /\ Current(E, N, j) = Current(D, N, j)
  <1>1. Current(E, N, j) = Current(D, N, j)
    BY DEF Current
  <1>2. Stored(E, N) /\ InodesKept(E, N) /\ OfFile(j, E, N)
    BY DEF Ready, Stored, InodesKept, OfFile
  <1> QED
    BY <1>1, <1>2 DEF Ready, Gone

LEMMA HeldWritable ==
    ASSUME NEW C, NEW B, NEW M, Spaces(C, B, M), Tidy(C, B, M), NEW b, Held(C, B, M, b), NEW f
    PROVE  Writable(C, B, M, b, f)
  <1>1. ASSUME NEW h \in Owners PROVE C[h].indirect # b
    <2>1. NDirect \in Slots /\ Ptr(C, B, h, NDirect) = C[h].indirect
      BY PtrFacts, Sizes0
    <2> QED
      BY <2>1 DEF Held
  <1>2. \A h \in Inodes \ {f}, i \in Slots : Ptr(C, B, h, i) # b
    BY InodeOwners DEF Held
  <1> QED
    BY <1>1, <1>2 DEF Held, Writable

\* The disk E after the write of the indirect block, which may have failed.
WordSent(D, E, j) ==
    E = D \/ E = [D EXCEPT !.blk[j.ino.indirect][j.i - NDirect + 1] = j.got]

LEMMA WordSound ==
    ASSUME NEW D, NEW N, NEW j, Sound(D, N, j), j # None, j.pc = "ind",
           NEW E, WordSent(D, E, j)
    PROVE  Sound(E, N, ToBlock(j, j.got)) /\ E.bits = D.bits /\ E.bgdt = D.bgdt /\ E.sb = D.sb
  <1> DEFINE M == Gone(D)
  <1>1. /\ Ready(D, N, j) /\ j \in Started /\ Stored(D, N) /\ D \in DiskType
        /\ AtStep(j, Current(D, N, j), D, N)
        /\ Tidy(Current(D, N, j), D.blk, M)
    BY SoundReady DEF Sound, Stored
  <1>2. PICK C : C = Current(D, N, j)
    OBVIOUS
  <1>3. Spaces(C, D.blk, M) /\ Tidy(C, D.blk, M) /\ C[j.f] = j.ino /\ j.f \in Owners
    BY <1>1, <1>2, CurrentFacts, CallTypes
  <1>4. j.want = "word" /\ Empty(j, D.blk) /\ (j.got = 0 \/ Held(C, D.blk, M, j.got))
    BY <1>1, <1>2 DEF AtStep
  <1>5. PICK l : l = ToBlock(j, j.got)
    OBVIOUS
  <1>6. /\ l \in Calls /\ SameCall(j, l) /\ l.got = j.got /\ l.pc \in {"inode", "data"}
        /\ l.pc = IF j.got = 0 THEN "inode" ELSE "data"
    BY <1>1, <1>5, ToBlockFacts, CallTypes
  <1>7. CASE E = D
    <2>1. l.pc = "data" => Writable(C, D.blk, M, l.got, l.f)
      <3>1. j.got # 0 => Writable(C, D.blk, M, j.got, l.f)
        BY <1>3, <1>4, HeldWritable
      <3> QED
        BY <1>6, <3>1
    <2>2. AtStep(l, C, D, N)
      BY <1>6, <2>1 DEF AtStep
    <2> QED
      BY <1>1, <1>2, <1>5, <1>6, <1>7, <2>2, StepSound
  <1>8. CASE E # D
    <2>1. PICK w \in 1..PerIndirect : w = j.i - NDirect + 1 /\ w \in 1..2
      <3>1. NDirect <= j.i /\ j.i < NDirect + PerIndirect /\ PerIndirect \in {1, 2}
        BY <1>4, Sizes0 DEF Empty
      <3> QED
        BY <3>1, <1>1, CallTypes
    <2>2. PICK a \in Blocks : a = j.ino.indirect /\ a \in M
      BY <1>3, PtrFacts DEF Spaces
    <2>3. D.blk[a][w] = 0
      BY <1>4, <2>1, <2>2 DEF Empty
    <2>4. D.blk \in [Blocks -> [1..2 -> Nat]] /\ j.got \in Nat
      BY <1>1, StoredFacts, CallTypes
    <2>5. PICK X : X = [D.blk EXCEPT ![a][w] = j.got]
      OBVIOUS
    <2>6. /\ X \in [Blocks -> [1..2 -> Nat]] /\ X[a][w] = j.got
          /\ \A x \in 1..2 : x # w => X[a][x] = D.blk[a][x]
          /\ \A c \in Blocks : c # a => X[c] = D.blk[c]
      BY <2>1, <2>4, <2>5
    <2>7. E = [D EXCEPT !.blk = X]
      BY <1>8, <2>1, <2>2, <2>5 DEF WordSent
    <2>8. /\ E \in DiskType /\ E.blk = X /\ E.bits = D.bits /\ E.bgdt = D.bgdt /\ E.sb = D.sb
          /\ E.ino = D.ino /\ E.dir = D.dir
      BY <1>1, <2>6, <2>7, BlocksFacts
    <2>9. CASE j.got # 0
      <3>1. PICK h \in Owners : /\ h = -1 \/ h = j.f
                                /\ h # -1 => C[h].indirect # 0
                                /\ C[h].indirect = a
        <4>1. C[-1].indirect = 0 /\ -1 \in Owners
          BY <1>3, Sizes0 DEF Tidy
        <4> QED
          BY <1>3, <2>2, <4>1
      <3>2. Tidy(C, X, M) /\ Writable(C, X, M, j.got, j.f)
        <4>1. WordSet(C, D.blk, X, h, w, j.got)
          BY <2>3, <2>6, <3>1 DEF WordSet
        <4>2. Held(C, D.blk, M, j.got) /\ (h # -1 => j.f = h)
          BY <1>4, <2>9, <3>1
        <4> QED
          BY <1>3, <2>6, <4>1, <4>2, SetWord
      <3>3. Ready(E, N, j) /\ Current(E, N, j) = C
        BY <1>1, <1>2, <2>8, <3>2, BlocksWritten
      <3>4. AtStep(l, C, E, N)
        BY <1>6, <2>8, <2>9, <3>2 DEF AtStep, SameCall, Gone
      <3> QED
        BY <1>5, <1>6, <2>8, <3>3, <3>4, StepSound
    <2>10. CASE j.got = 0
      <3>1. \A c \in Blocks, x \in 1..2 : X[c][x] = D.blk[c][x]
        BY <2>3, <2>6, <2>10
      <3>2. \A c \in Blocks : X[c] = D.blk[c]
        BY <2>4, <2>6, <3>1
      <3>3. X = D.blk
        BY <2>4, <2>6, <3>2
      <3>4. Ready(E, N, j) /\ Current(E, N, j) = C
        BY <1>1, <1>2, <1>3, <2>8, <3>3, BlocksWritten
      <3>5. AtStep(l, C, E, N)
        BY <1>6, <2>10 DEF AtStep
      <3> QED
        BY <1>5, <1>6, <2>8, <3>4, <3>5, StepSound
    <2> QED
      BY <2>9, <2>10
  <1> QED
    BY <1>7, <1>8

\* A word tells its file.
LEMMA WordFile ==
    \A f \in {0} \cup Inodes, v \in 0..99 : Word(f, v) \in Nat /\ Word(f, v) \div 100 = f
  <1>1. ASSUME NEW f \in Nat, NEW v \in 0..99
        PROVE  100 * f + v \in Nat /\ (100 * f + v) \div 100 = f
    BY SMT
  <1> QED
    BY <1>1, Sizes0 DEF Word

\* The disk E after n sectors of the block that the call has at hand.
DataSent(D, E, j, n) == E = [D EXCEPT !.blk[j.got] = ata_write(@, Filled(j, @), n)]

LEMMA DataReady ==
    ASSUME NEW D, NEW N, NEW j, Sound(D, N, j), j # None, j.pc = "data",
           NEW E, NEW n, DataSent(D, E, j, n)
    PROVE  /\ Ready(E, N, j) /\ j.got \in Blocks /\ j.got # 0 /\ Current(E, N, j) = Current(D, N, j)
           /\ E.blk \in [Blocks -> [1..2 -> Nat]]
           /\ \A c \in Blocks : c # j.got => E.blk[c] = D.blk[c]
           /\ \A x \in 1..2 : E.blk[j.got][x] =
                IF x <= n /\ 2 * j.i + x <= j.n THEN Word(j.f, j.v) ELSE D.blk[j.got][x]
           /\ E.bits = D.bits /\ E.bgdt = D.bgdt /\ E.sb = D.sb /\ E.ino = D.ino /\ E.dir = D.dir
  <1> DEFINE M == Gone(D)
  <1>1. /\ Ready(D, N, j) /\ j \in Started /\ Stored(D, N) /\ D \in DiskType
        /\ AtStep(j, Current(D, N, j), D, N)
        /\ Tidy(Current(D, N, j), D.blk, M)
    BY SoundReady DEF Sound, Stored
  <1>2. PICK C : C = Current(D, N, j)
    OBVIOUS
  <1>3. Spaces(C, D.blk, M) /\ Tidy(C, D.blk, M)
    BY <1>1, <1>2, CurrentFacts
  <1>4. Writable(C, D.blk, M, j.got, j.f)
    BY <1>1, <1>2 DEF AtStep
  <1>5. PICK b \in Blocks : b = j.got /\ b # 0
    BY <1>3, <1>4 DEF Writable, Spaces
  <1>6. D.blk \in [Blocks -> [1..2 -> Nat]]
    BY <1>1, StoredFacts
  <1>7. PICK o \in [1..2 -> Nat] : o = D.blk[b]
    BY <1>6
  <1>8. PICK q \in Nat : q = Word(j.f, j.v) /\ q \div 100 = j.f
    BY <1>1, CallTypes, WordFile, Sizes0, ZenonT(30)
  <1>9. PICK p : p = ata_write(o, Filled(j, o), n)
    OBVIOUS
  <1>10. /\ p \in [1..2 -> Nat]
         /\ \A x \in 1..2 : p[x] = IF x <= n /\ 2 * j.i + x <= j.n THEN q ELSE o[x]
    BY <1>8, <1>9 DEF ata_write, Filled
  <1>11. PICK X : X = [D.blk EXCEPT ![b] = p]
    OBVIOUS
  <1>12. /\ X \in [Blocks -> [1..2 -> Nat]] /\ X[b] = p
         /\ \A c \in Blocks : c # b => X[c] = D.blk[c]
    BY <1>6, <1>10, <1>11
  <1>13. E = [D EXCEPT !.blk = X]
    BY <1>5, <1>7, <1>9, <1>11 DEF DataSent
  <1>14. /\ E \in DiskType /\ E.blk = X /\ E.bits = D.bits /\ E.bgdt = D.bgdt /\ E.sb = D.sb
         /\ E.ino = D.ino /\ E.dir = D.dir
    <2>1. PICK F : F = [D EXCEPT !.blk = X]
      OBVIOUS
    <2>2. /\ F \in DiskType /\ F.blk = X /\ F.bits = D.bits /\ F.bgdt = D.bgdt /\ F.sb = D.sb
          /\ F.ino = D.ino /\ F.dir = D.dir
      BY <1>1, <1>12, <2>1, BlocksFacts
    <2> QED
      BY <1>13, <2>1, <2>2
  <1>15. \A x \in 1..2 : X[b][x] = D.blk[b][x] \/ X[b][x] \div 100 = j.f
    BY <1>7, <1>8, <1>10, <1>12
  <1>16. Tidy(C, X, M)
    BY <1>3, <1>4, <1>5, <1>12, <1>15, SetData
  <1>17. Ready(E, N, j) /\ Current(E, N, j) = C
    BY <1>1, <1>2, <1>14, <1>16, BlocksWritten
  <1>18. \A x \in 1..2 : E.blk[j.got][x] =
           IF x <= n /\ 2 * j.i + x <= j.n THEN Word(j.f, j.v) ELSE D.blk[j.got][x]
    BY <1>5, <1>7, <1>8, <1>10, <1>12, <1>14
  <1> QED
    BY <1>2, <1>5, <1>12, <1>14, <1>17, <1>18

\* The loop goes on with the next block.
LEMMA NextBlock ==
    ASSUME NEW D, NEW N, NEW j, Ready(D, N, j), j.pc # "dir"
    PROVE  /\ Sound(D, N, Loop([j EXCEPT !.i = @ + 1]))
           /\ Ready(D, N, [j EXCEPT !.i = @ + 1])
  <1>1. j \in Started /\ j # None
    BY NoneFacts DEF Ready
  <1>2. PICK k : k = [j EXCEPT !.i = @ + 1]
    OBVIOUS
  <1>3. /\ k \in Started /\ k.f = j.f /\ k.ino = j.ino /\ k.call = j.call /\ k.pc = j.pc
    <2>1. PICK m \in Nat : m = j.i + 1
      BY <1>1, CallTypes
    <2>2. k = [j EXCEPT !.i = m]
      BY <1>2, <2>1
    <2> QED
      BY <1>1, <2>2 DEF Started
  <1>4. k # None
    BY <1>3, NoneFacts
  <1>5. Current(D, N, k) = Current(D, N, j)
    BY <1>1, <1>3, <1>4 DEF Current
  <1>6. OfFile(k, D, N)
    BY <1>3 DEF OfFile, Ready
  <1>7. Ready(D, N, k)
    BY <1>3, <1>5, <1>6 DEF Ready
  <1> QED
    BY <1>2, <1>7, LoopSound

\* The loop ends.
LEMMA LoopEnds ==
    ASSUME NEW D, NEW N, NEW j, Ready(D, N, j)
    PROVE  Sound(D, N, [j EXCEPT !.pc = "inode"])
  <1>1. j \in Started
    BY DEF Ready
  <1>2. PICK l : l = [j EXCEPT !.pc = "inode"]
    OBVIOUS
  <1>3. l \in Calls /\ SameCall(j, l) /\ l.pc = "inode"
    BY <1>1, <1>2 DEF Started, Calls, SameCall
  <1>4. AtStep(l, Current(D, N, j), D, N)
    BY <1>3 DEF AtStep
  <1> QED
    BY <1>2, <1>3, <1>4, StepSound

\* A state that nothing is known of is left to itself.
LEMMA WildSound ==
    ASSUME NEW D, NEW N, NEW j, Sound(D, N, j), j # None
    PROVE  Sound(D, N, Wild(j))
  <1>1. Ready(D, N, j) /\ j \in Started
    BY SoundReady
  <1>2. PICK l : l = [j EXCEPT !.pc = "wild"] /\ l = Wild(j)
    BY DEF Wild
  <1>3. l \in Calls /\ SameCall(j, l) /\ l.pc = "wild"
    BY <1>1, <1>2 DEF Started, Calls, SameCall
  <1>4. AtStep(l, Current(D, N, j), D, N)
    BY <1>3 DEF AtStep
  <1> QED
    BY <1>1, <1>2, <1>3, <1>4, StepSound

LEMMA InodeFacts ==
    ASSUME NEW D \in DiskType, NEW f \in Inodes, NEW a \in Inode
    PROVE  LET E == [D EXCEPT !.ino[f] = a]
           IN  /\ E \in DiskType /\ E.ino[f] = a /\ \A g \in Inodes : g # f => E.ino[g] = D.ino[g]
               /\ E.bits = D.bits /\ E.bgdt = D.bgdt /\ E.sb = D.sb /\ E.blk = D.blk /\ E.dir = D.dir
  <1>1. PICK X : X = [D.ino EXCEPT ![f] = a]
    OBVIOUS
  <1>2. X \in [Inodes -> Inode] /\ X[f] = a /\ \A g \in Inodes : g # f => X[g] = D.ino[g]
    BY <1>1 DEF DiskType
  <1>3. PICK E : E = [D EXCEPT !.ino = X]
    OBVIOUS
  <1>4. /\ E \in DiskType /\ E.ino = X /\ E.bits = D.bits /\ E.bgdt = D.bgdt /\ E.sb = D.sb
        /\ E.blk = D.blk /\ E.dir = D.dir
    BY <1>2, <1>3 DEF DiskType
  <1>5. E = [D EXCEPT !.ino[f] = a]
    BY <1>1, <1>3
  <1> QED
    BY <1>2, <1>4, <1>5

\* The inode of the call's file, on the disk E: written, or as it was.
InodeSent(D, E, j) ==
    /\ E \in DiskType /\ E.bits = D.bits /\ E.blk = D.blk /\ E.dir = D.dir
    /\ E.ino[j.f] \in {D.ino[j.f], j.ino}
    /\ \A g \in Inodes : g # j.f => E.ino[g] = D.ino[g]

\* fs_ext2_write_file ends: the descriptor's copy is the call's.
LEMMA WriteEnds ==
    ASSUME NEW D, NEW N, NEW j, Sound(D, N, j), j # None, j.call = "write",
           NEW E, InodeSent(D, E, j)
    PROVE  Sound(E, [N EXCEPT ![j.f] = j.ino], None)
  <1>1. /\ j \in Started /\ Stored(D, N) /\ InodesKept(D, N) /\ OfFile(j, D, N)
        /\ Tidy(Current(D, N, j), D.blk, Gone(D))
    BY SoundReady DEF Sound
  <1>2. j.f \in Inodes /\ N[j.f] # None /\ Older(N[j.f], j.ino)
    BY <1>1 DEF OfFile
  <1>3. j.ino \in Inode
    BY <1>1, CallTypes
  <1>4. PICK P : P = [N EXCEPT ![j.f] = j.ino]
    OBVIOUS
  <1>5. /\ P \in [Inodes -> Inode \cup {None}] /\ P[j.f] = j.ino
        /\ \A g \in Inodes : g # j.f => P[g] = N[g]
    BY <1>1, <1>2, <1>3, <1>4 DEF Stored
  <1>6. Stored(E, P)
    BY <1>1, <1>5 DEF Stored, InodeSent
  <1>7. P[j.f] # None
    BY <1>3, <1>5, NoneFacts
  <1>8. InodesKept(E, P)
    <2>1. j.f - 1 \in D.bits["inode"]
      BY <1>1, <1>2 DEF InodesKept
    <2>2. \A f \in Inodes : f - 1 \notin E.bits["inode"] => P[f] = None /\ Older(E.ino[f], Blank)
      <3>1. \A f \in Inodes : f - 1 \notin E.bits["inode"] => f # j.f
        BY <2>1 DEF InodeSent
      <3> QED
        BY <1>1, <1>5, <3>1 DEF InodesKept, InodeSent
    <2>3. ASSUME NEW f \in Inodes, P[f] # None PROVE Older(E.ino[f], P[f])
      <3>1. CASE f # j.f
        BY <1>1, <1>5, <2>3, <3>1 DEF InodesKept, InodeSent
      <3>2. CASE f = j.f
        <4>1. Older(D.ino[j.f], N[j.f])
          BY <1>1, <1>2 DEF InodesKept
        <4>2. Older(D.ino[j.f], j.ino) /\ Older(j.ino, j.ino)
          BY <1>2, <4>1, OlderFacts
        <4> QED
          BY <1>5, <3>2, <4>2 DEF InodeSent
      <3> QED
        BY <3>1, <3>2
    <2> QED
      BY <1>1, <2>2, <2>3 DEF InodesKept, InodeSent
  <1>9. ASSUME NEW h \in Owners PROVE Older(Current(E, P, None)[h], Current(D, N, j)[h])
    <2>1. CASE h = j.f
      <3>1. Current(E, P, None)[h] = j.ino /\ Current(D, N, j)[h] = j.ino
        BY <1>1, <1>2, <1>5, <1>6, <1>7, <2>1, CurrentFacts
      <3> QED
        BY <3>1, OlderFacts
    <2>2. CASE h \in Inodes /\ h # j.f
      <3>1. Current(E, P, None)[h] = IF P[h] # None THEN P[h] ELSE E.ino[h]
        BY <1>6, <2>2, CurrentFacts
      <3>2. Current(D, N, j)[h] = IF N[h] # None THEN N[h] ELSE D.ino[h]
        BY <1>1, <2>2, CurrentFacts
      <3>3. P[h] = N[h] /\ E.ino[h] = D.ino[h]
        BY <1>5, <2>2 DEF InodeSent
      <3> QED
        BY <3>1, <3>2, <3>3, OlderFacts
    <2>3. CASE h \in {-1, 0}
      <3>1. Current(E, P, None)[h] = Blank
        BY <1>6, <2>3, CurrentFacts
      <3> QED
        BY <3>1, OlderFacts
    <2> QED
      BY <2>1, <2>2, <2>3, Sizes0
  <1>10. E.blk = D.blk /\ Gone(E) = Gone(D)
    BY DEF InodeSent, Gone
  <1>11. Tidy(Current(E, P, None), E.blk, Gone(E))
    BY <1>1, <1>6, <1>9, <1>10, Forget
  <1> QED
    BY <1>4, <1>6, <1>8, <1>11 DEF Sound, Typed, Stored

\* The new file's inode is written; its entry is next.
LEMMA CreateWritten ==
    ASSUME NEW D, NEW N, NEW j, Sound(D, N, j), j # None, j.call # "write", j.f # 0,
           NEW E, InodeSent(D, E, j)
    PROVE  Sound(E, N, [j EXCEPT !.pc = "dir"])
  <1>1. /\ j \in Started /\ Stored(D, N) /\ InodesKept(D, N) /\ OfFile(j, D, N)
        /\ Tidy(Current(D, N, j), D.blk, Gone(D))
    BY SoundReady DEF Sound
  <1>2. /\ j.f - 1 \in D.bits["inode"] /\ N[j.f] = None
        /\ \A e \in DOMAIN D.dir : D.dir[e] # j.f
        /\ Older(D.ino[j.f], j.ino)
    BY <1>1 DEF OfFile
  <1>3. Stored(E, N)
    BY <1>1 DEF Stored, InodeSent
  <1>4. InodesKept(E, N)
    <2>1. \A f \in Inodes : f - 1 \notin E.bits["inode"] => f # j.f
      BY <1>2 DEF InodeSent
    <2>2. \A f \in Inodes : N[f] # None => f # j.f
      BY <1>2
    <2>3. \A f \in Inodes : f # j.f => E.ino[f] = D.ino[f]
      BY DEF InodeSent
    <2>4. E.bits = D.bits /\ E.dir = D.dir
      BY DEF InodeSent
    <2> QED
      BY <1>1, <2>1, <2>2, <2>3, <2>4 DEF InodesKept
  <1>5. PICK l : l = [j EXCEPT !.pc = "dir"]
    OBVIOUS
  <1>6. /\ l \in Calls /\ l.pc = "dir" /\ l.f = j.f /\ l.ino = j.ino /\ l.call = j.call
    BY <1>1, <1>5 DEF Started, Calls
  <1>7. OfFile(l, E, N)
    <2>1. Older(E.ino[j.f], j.ino)
      BY <1>2, OlderFacts DEF InodeSent
    <2>2. E.bits = D.bits /\ E.dir = D.dir
      BY DEF InodeSent
    <2> QED
      BY <1>2, <1>6, <2>1, <2>2 DEF OfFile
  <1>8. l # None /\ j # None
    BY <1>6, NoneFacts, CallsStarted
  <1>9. ASSUME NEW h \in Owners PROVE Current(E, N, l)[h] = Current(D, N, j)[h]
    <2>1. CASE h = j.f
      BY <1>6, <1>8, <2>1, <1>1, CallTypes DEF Current
    <2>2. CASE h # j.f
      <3>1. h \in Inodes => E.ino[h] = D.ino[h]
        BY <2>2 DEF InodeSent
      <3>2. h \in Inodes \/ h = -1 \/ h = 0
        BY Sizes0
      <3> QED
        BY <1>6, <1>8, <2>2, <3>1, <3>2 DEF Current
    <2> QED
      BY <2>1, <2>2
  <1>10. Current(E, N, l) = Current(D, N, j)
    BY <1>9 DEF Current
  <1>11. E.blk = D.blk /\ Gone(E) = Gone(D)
    BY DEF InodeSent, Gone
  <1>12. AtStep(l, Current(E, N, l), E, N)
    BY <1>6 DEF AtStep
  <1> QED
    BY <1>1, <1>3, <1>4, <1>5, <1>6, <1>7, <1>10, <1>11, <1>12 DEF Sound, Typed, Stored

\* The entry of the new file is written, or not.
LEMMA LinkSound ==
    ASSUME NEW D, NEW N, NEW j, Sound(D, N, j), j # None, j.pc = "dir",
           NEW E, E = D \/ E = [D EXCEPT !.dir = Append(@, j.f)]
    PROVE  /\ Sound(E, N, None)
           /\ E.bits = D.bits /\ E.bgdt = D.bgdt /\ E.sb = D.sb /\ E.ino = D.ino /\ E.blk = D.blk
  <1>1. /\ j \in Started /\ Stored(D, N) /\ InodesKept(D, N) /\ OfFile(j, D, N)
        /\ AtStep(j, Current(D, N, j), D, N)
    BY SoundReady DEF Sound
  <1>2. Sound(D, N, None)
    BY <1>1, CallGone DEF Stored
  <1>3. CASE E = D
    BY <1>2, <1>3
  <1>4. CASE E # D
    <2>1. j.f \in Inodes
      BY <1>1, CallTypes DEF AtStep
    <2>2. /\ j.f - 1 \in D.bits["inode"]
          /\ \A e \in DOMAIN D.dir : D.dir[e] # j.f
      BY <1>1, <2>1, InodeOwners DEF OfFile
    <2>3. D \in DiskType /\ D.dir \in Seq(Inodes)
      BY <1>1, StoredFacts DEF Stored
    <2>4. PICK S : S = Append(D.dir, j.f)
      OBVIOUS
    <2>5. /\ S \in Seq(Inodes) /\ Len(S) = Len(D.dir) + 1
          /\ DOMAIN S = 1..(Len(D.dir) + 1) /\ DOMAIN D.dir = 1..Len(D.dir) /\ Len(D.dir) \in Nat
          /\ S[Len(D.dir) + 1] = j.f /\ \A e \in 1..Len(D.dir) : S[e] = D.dir[e]
      BY <2>1, <2>3, <2>4
    <2>6. E = [D EXCEPT !.dir = S]
      BY <1>4, <2>4
    <2>7. PICK F : F = [D EXCEPT !.dir = S]
      OBVIOUS
    <2>8. /\ F \in DiskType /\ F.dir = S /\ F.bits = D.bits /\ F.bgdt = D.bgdt /\ F.sb = D.sb
          /\ F.ino = D.ino /\ F.blk = D.blk
      BY <2>3, <2>5, <2>7 DEF DiskType
    <2>9. Stored(F, N) /\ Current(F, N, None) = Current(D, N, None)
      BY <1>1, <2>8 DEF Stored, Current
    <2>10. ASSUME NEW e \in DOMAIN S PROVE S[e] - 1 \in D.bits["inode"]
      <3>1. CASE e = Len(D.dir) + 1
        BY <2>2, <2>5, <3>1
      <3>2. CASE e # Len(D.dir) + 1
        <4>1. e \in DOMAIN D.dir /\ S[e] = D.dir[e]
          BY <2>5, <3>2
        <4> QED
          BY <1>1, <4>1 DEF InodesKept
      <3> QED
        BY <3>1, <3>2
    <2>11. ASSUME NEW d \in DOMAIN S, NEW e \in DOMAIN S, d # e PROVE S[d] # S[e]
      <3>1. \A x \in DOMAIN S : x = Len(D.dir) + 1 \/ (x \in DOMAIN D.dir /\ S[x] = D.dir[x])
        BY <2>5
      <3>2. \A x, y \in DOMAIN D.dir : x # y => D.dir[x] # D.dir[y]
        BY <1>1 DEF InodesKept
      <3> QED
        BY <2>2, <2>5, <2>11, <3>1, <3>2
    <2>12. InodesKept(F, N)
      BY <1>1, <2>8, <2>10, <2>11 DEF InodesKept
    <2>13. Sound(F, N, None)
      BY <1>2, <2>8, <2>9, <2>12 DEF Sound, Typed, Stored, Gone
    <2> QED
      BY <2>6, <2>7, <2>8, <2>13
  <1> QED
    BY <1>3, <1>4

-----------------------------------------------------------------------------
(* Counts *)

\* Counts C do not hide clear bits of disk D.
Covers(C, D) ==
    \A k \in Kinds :
        /\ \A g \in Groups : C.bgdt[k][g] >= Cardinality(ClearBits(D, k, g))
        /\ C.sb[k] >= Cardinality(Bits(k) \ D.bits[k])

LEMMA CoversBoth == CountsCover <=> Covers(mem, disk) /\ Covers(disk, disk)
  <1>1. PICK r : r = [bgdt |-> disk.bgdt, sb |-> disk.sb]
    OBVIOUS
  <1>2. r.bgdt = disk.bgdt /\ r.sb = disk.sb
    BY <1>1
  <1>3. CountsCover <=> Covers(mem, disk) /\ Covers(r, disk)
    BY <1>1 DEF CountsCover, Covers
  <1>4. Covers(r, disk) <=> Covers(disk, disk)
    BY <1>2 DEF Covers
  <1> QED
    BY <1>3, <1>4

\* Only the bitmaps of the disk matter.
LEMMA CoversSame ==
    ASSUME NEW C, NEW D, NEW E, Covers(C, D), E.bits = D.bits
    PROVE  Covers(C, E)
  BY DEF Covers, ClearBits

LEMMA CoversCopy ==
    ASSUME NEW C, NEW K, NEW D, Covers(C, D), K.bgdt = C.bgdt, K.sb = C.sb
    PROVE  Covers(K, D)
  BY DEF Covers

LEMMA BitsFinite ==
    ASSUME NEW k \in Kinds
    PROVE  /\ IsFiniteSet(Bits(k)) /\ Bits(k) \subseteq Nat
           /\ \A D, g : IsFiniteSet(ClearBits(D, k, g)) /\ Cardinality(ClearBits(D, k, g)) \in Nat
           /\ \A D : IsFiniteSet(Bits(k) \ D.bits[k]) /\ Cardinality(Bits(k) \ D.bits[k]) \in Nat
  <1>1. NGroups * PerGroup[k] \in Nat
    <2>1. NGroups \in Nat /\ PerGroup[k] \in Nat
      BY Ext2Assumption
    <2> QED
      BY <2>1
  <1>2. IsFiniteSet(Bits(k)) /\ Bits(k) \subseteq Nat
    BY <1>1, FS_Interval DEF Bits
  <1>3. ASSUME NEW D, NEW g
        PROVE  IsFiniteSet(ClearBits(D, k, g)) /\ Cardinality(ClearBits(D, k, g)) \in Nat
    <2>1. ClearBits(D, k, g) \subseteq Bits(k)
      BY DEF ClearBits
    <2> QED
      BY <2>1, <1>2, FS_Subset, FS_CardinalityType
  <1>4. ASSUME NEW D
        PROVE  IsFiniteSet(Bits(k) \ D.bits[k]) /\ Cardinality(Bits(k) \ D.bits[k]) \in Nat
    <2>1. Bits(k) \ D.bits[k] \subseteq Bits(k)
      OBVIOUS
    <2> QED
      BY <2>1, <1>2, FS_Subset, FS_CardinalityType
  <1> QED
    BY <1>2, <1>3, <1>4

\* Disk E has one clear bit less than D, in group g of kind k.
OneBitLess(D, E, k, g) ==
    /\ Cardinality(ClearBits(E, k, g)) = Cardinality(ClearBits(D, k, g)) - 1
    /\ Cardinality(Bits(k) \ E.bits[k]) = Cardinality(Bits(k) \ D.bits[k]) - 1
    /\ \A l \in Kinds, h \in Groups : <<l, h>> # <<k, g>> => ClearBits(E, l, h) = ClearBits(D, l, h)
    /\ \A l \in Kinds : l # k => E.bits[l] = D.bits[l]

\* Setting a bit leaves one clear bit less in its group and in all.
LEMMA MarkedCounts ==
    ASSUME NEW D \in DiskType, NEW k \in Kinds, NEW g \in Groups, NEW b \in ClearBits(D, k, g),
           NEW E, E = Marked(D, k, b)
    PROVE  OneBitLess(D, E, k, g)
  <1>1. b \in Bits(k) /\ b \div PerGroup[k] = g /\ b \notin D.bits[k] /\ b \in Nat
    BY BitsFinite DEF ClearBits
  <1>2. E.bits[k] = D.bits[k] \cup {b} /\ \A l \in Kinds : l # k => E.bits[l] = D.bits[l]
    BY <1>1, MarkedFacts
  <1>3. ClearBits(E, k, g) = ClearBits(D, k, g) \ {b}
    BY <1>1, <1>2 DEF ClearBits
  <1>4. Bits(k) \ E.bits[k] = (Bits(k) \ D.bits[k]) \ {b}
    BY <1>1, <1>2
  <1>5. Cardinality(ClearBits(E, k, g)) = Cardinality(ClearBits(D, k, g)) - 1
    BY <1>3, BitsFinite, FS_RemoveElement
  <1>6. b \in Bits(k) \ D.bits[k]
    BY <1>1
  <1>7. Cardinality(Bits(k) \ E.bits[k]) = Cardinality(Bits(k) \ D.bits[k]) - 1
    <2>1. PICK S : S = Bits(k) \ D.bits[k]
      OBVIOUS
    <2>2. IsFiniteSet(S) /\ b \in S
      BY <1>6, <2>1, BitsFinite
    <2>3. Cardinality(S \ {b}) = Cardinality(S) - 1
      BY <2>2, FS_RemoveElement
    <2> QED
      BY <1>4, <2>1, <2>3
  <1>8. ASSUME NEW l \in Kinds, NEW h \in Groups, <<l, h>> # <<k, g>>
        PROVE  ClearBits(E, l, h) = ClearBits(D, l, h)
    <2>1. CASE l # k
      BY <1>2, <2>1 DEF ClearBits
    <2>2. CASE l = k
      <3>1. h # g
        BY <2>2, <1>8
      <3> QED
        BY <1>1, <1>2, <2>2, <3>1 DEF ClearBits
    <2> QED
      BY <2>1, <2>2
  <1> QED
    BY <1>2, <1>5, <1>7, <1>8 DEF OneBitLess

LEMMA CountedFacts ==
    ASSUME NEW C \in MemType, NEW k \in Kinds, NEW g \in Groups,
           C.bgdt[k][g] # 0, C.sb[k] # 0
    PROVE  /\ Counted(C, k, g) \in MemType
           /\ Counted(C, k, g).bgdt[k][g] = C.bgdt[k][g] - 1
           /\ Counted(C, k, g).sb[k] = C.sb[k] - 1
           /\ \A l \in Kinds, h \in Groups : <<l, h>> # <<k, g>> =>
                Counted(C, k, g).bgdt[l][h] = C.bgdt[l][h]
           /\ \A l \in Kinds : l # k => Counted(C, k, g).sb[l] = C.sb[l]
  <1>1. C.bgdt \in [Kinds -> [Groups -> Nat]] /\ C.sb \in [Kinds -> Nat]
    BY DEF MemType
  <1>2. C.bgdt[k][g] - 1 \in Nat /\ C.sb[k] - 1 \in Nat
    BY <1>1
  <1>3. PICK n \in Nat : n = C.bgdt[k][g] - 1
    BY <1>2
  <1>4. PICK m \in Nat : m = C.sb[k] - 1
    BY <1>2
  <1>5. PICK X : X = [C.bgdt EXCEPT ![k][g] = n]
    OBVIOUS
  <1>6. PICK Y : Y = [C.sb EXCEPT ![k] = m]
    OBVIOUS
  <1>7. /\ X \in [Kinds -> [Groups -> Nat]] /\ X[k][g] = n
        /\ \A l \in Kinds, h \in Groups : <<l, h>> # <<k, g>> => X[l][h] = C.bgdt[l][h]
    BY <1>1, <1>3, <1>5
  <1>8. Y \in [Kinds -> Nat] /\ Y[k] = m /\ \A l \in Kinds : l # k => Y[l] = C.sb[l]
    BY <1>1, <1>4, <1>6
  <1>9. PICK R : R = [C EXCEPT !.bgdt = X, !.sb = Y]
    OBVIOUS
  <1>10. R \in MemType /\ R.bgdt = X /\ R.sb = Y
    BY <1>7, <1>8, <1>9 DEF MemType
  <1>11. Counted(C, k, g) = R
    BY <1>3, <1>4, <1>5, <1>6, <1>9 DEF Counted, MemType
  <1> QED
    BY <1>3, <1>4, <1>7, <1>8, <1>10, <1>11

\* An allocation: counts in memory go with the bitmap, older ones say more.
LEMMA TakeCounts ==
    ASSUME NEW D \in DiskType, NEW k \in Kinds, NEW g \in Groups, NEW b \in ClearBits(D, k, g),
           NEW C \in MemType, Covers(C, D), Covers(D, D)
    PROVE  /\ Counted(C, k, g) \in MemType
           /\ Covers(Counted(C, k, g), Marked(D, k, b))
           /\ Covers(Marked(D, k, b), Marked(D, k, b))
  <1>1. PICK E : E = Marked(D, k, b)
    OBVIOUS
  <1>2. b \in Nat /\ b \in Bits(k) \ D.bits[k]
    BY BitsFinite DEF ClearBits
  <1>3. E.bgdt = D.bgdt /\ E.sb = D.sb
    BY <1>1, <1>2, MarkedFacts
  <1>4. /\ Cardinality(ClearBits(E, k, g)) = Cardinality(ClearBits(D, k, g)) - 1
        /\ Cardinality(Bits(k) \ E.bits[k]) = Cardinality(Bits(k) \ D.bits[k]) - 1
        /\ \A l \in Kinds, h \in Groups : <<l, h>> # <<k, g>> => ClearBits(E, l, h) = ClearBits(D, l, h)
        /\ \A l \in Kinds : l # k => E.bits[l] = D.bits[l]
    <2>1. OneBitLess(D, E, k, g)
      BY <1>1, MarkedCounts
    <2> QED
      BY <2>1 DEF OneBitLess
  <1>5. /\ Cardinality(ClearBits(D, k, g)) \in Nat \ {0}
        /\ Cardinality(Bits(k) \ D.bits[k]) \in Nat \ {0}
    <2>1. ClearBits(D, k, g) # {} /\ Bits(k) \ D.bits[k] # {}
      BY <1>2
    <2> QED
      BY <2>1, BitsFinite, FS_EmptySet
  <1>6. C.bgdt \in [Kinds -> [Groups -> Nat]] /\ C.sb \in [Kinds -> Nat]
        /\ D.bgdt \in [Kinds -> [Groups -> Nat]] /\ D.sb \in [Kinds -> Nat]
    BY DEF MemType, DiskType
  <1>7. /\ C.bgdt[k][g] >= Cardinality(ClearBits(D, k, g))
        /\ C.sb[k] >= Cardinality(Bits(k) \ D.bits[k])
    BY DEF Covers
  <1>8. C.bgdt[k][g] # 0 /\ C.sb[k] # 0 /\ C.bgdt[k][g] \in Nat /\ C.sb[k] \in Nat
    BY <1>5, <1>6, <1>7
  <1>9. PICK R : R = Counted(C, k, g)
    OBVIOUS
  <1>10. /\ R \in MemType /\ R.bgdt[k][g] = C.bgdt[k][g] - 1 /\ R.sb[k] = C.sb[k] - 1
         /\ \A l \in Kinds, h \in Groups : <<l, h>> # <<k, g>> => R.bgdt[l][h] = C.bgdt[l][h]
         /\ \A l \in Kinds : l # k => R.sb[l] = C.sb[l]
    BY <1>8, <1>9, CountedFacts
  <1>11. Covers(R, E)
    <2>1. ASSUME NEW l \in Kinds, NEW h \in Groups
          PROVE  R.bgdt[l][h] >= Cardinality(ClearBits(E, l, h))
      <3>1. CASE <<l, h>> = <<k, g>>
        <4>1. l = k /\ h = g
          BY <3>1
        <4> QED
          BY <4>1, <1>4, <1>5, <1>7, <1>8, <1>10
      <3>2. CASE <<l, h>> # <<k, g>>
        BY <3>2, <1>4, <1>10 DEF Covers
      <3> QED
        BY <3>1, <3>2
    <2>2. ASSUME NEW l \in Kinds PROVE R.sb[l] >= Cardinality(Bits(l) \ E.bits[l])
      <3>1. CASE l = k
        BY <3>1, <1>4, <1>5, <1>7, <1>8, <1>10
      <3>2. CASE l # k
        BY <3>2, <1>4, <1>10 DEF Covers
      <3> QED
        BY <3>1, <3>2
    <2> QED
      BY <2>1, <2>2 DEF Covers
  <1>12. Covers(E, E)
    <2>1. ASSUME NEW l \in Kinds, NEW h \in Groups
          PROVE  E.bgdt[l][h] >= Cardinality(ClearBits(E, l, h))
      <3>1. D.bgdt[l][h] >= Cardinality(ClearBits(D, l, h)) /\ D.bgdt[l][h] \in Nat
        BY <1>6 DEF Covers
      <3>2. CASE <<l, h>> = <<k, g>>
        <4>1. l = k /\ h = g
          BY <3>2
        <4> QED
          BY <4>1, <3>1, <1>3, <1>4, <1>5
      <3>3. CASE <<l, h>> # <<k, g>>
        BY <3>1, <3>3, <1>3, <1>4
      <3> QED
        BY <3>2, <3>3
    <2>2. ASSUME NEW l \in Kinds PROVE E.sb[l] >= Cardinality(Bits(l) \ E.bits[l])
      <3>1. D.sb[l] >= Cardinality(Bits(l) \ D.bits[l]) /\ D.sb[l] \in Nat
        BY <1>6 DEF Covers
      <3>2. CASE l = k
        BY <3>1, <3>2, <1>3, <1>4, <1>5
      <3>3. CASE l # k
        BY <3>1, <3>3, <1>3, <1>4
      <3> QED
        BY <3>2, <3>3
    <2> QED
      BY <2>1, <2>2 DEF Covers
  <1> QED
    BY <1>1, <1>9, <1>10, <1>11, <1>12

-----------------------------------------------------------------------------
(* The invariant *)

LEMMA LeastIn ==
    ASSUME NEW S \in SUBSET Nat, S # {}
    PROVE  Least(S) \in S /\ \A y \in S : Least(S) <= y
  <1>1. \E x \in S : \A y \in S : x <= y
    BY LeastNat
  <1> QED
    BY <1>1 DEF Least

\* What alloc does: nothing is found, a clear bit is set, or the bitmap's write fails.
Nothing ==
    /\ job' = Assigned(job, 0) /\ disk' = disk /\ mem' = mem /\ stray' = stray
    /\ "bitmap_r" \notin Fails =>
         /\ fails' = fails
         /\ \A g \in Groups : mem.bgdt[Wanted][g] = 0 \/ ClearBits(disk, Wanted, g) = {}
Takes(g, b) ==
    /\ disk' = Marked(disk, Wanted, b)
    /\ mem' = Counted(mem, Wanted, g)
    /\ job' = [job EXCEPT !.pc = "bgdt", !.got = Numbered(Wanted, b)]
    /\ stray' = (stray \/ (Wanted = "block" /\ Numbered(Wanted, b) \notin Spare))
    /\ "bitmap_r" \notin Fails => fails' = fails
Lost == job' = Wild(job) /\ disk' = disk /\ mem' = mem /\ stray' = stray

LEMMA AllocCases ==
    ASSUME alloc
    PROVE  /\ job.pc = "alloc" /\ node' = node /\ last' = last /\ ops' = ops
           /\ \/ Nothing
              \/ \E g \in Groups : \E b \in ClearBits(disk, Wanted, g) : Takes(g, b)
              \/ Lost
           /\ fails' = fails \/ fails' = fails + 1
  <1>1. Groups \subseteq Nat
    BY Ext2Assumption DEF Groups
  <1>2. PICK k : k = Wanted
    OBVIOUS
  <1>3. PICK T : T = Groups \ {g \in Groups : mem.bgdt[k][g] = 0 \/ ClearBits(disk, k, g) = {}}
    OBVIOUS
  <1>4. PICK ok \in Outcomes("bitmap_r") :
          LET grps == IF ok \/ T = {} THEN T ELSE T \ {Least(T)}
              g    == Least(grps)
              b    == Least(ClearBits(disk, k, g))
          IN  \/ /\ grps = {}
                 /\ Count(ok)
                 /\ job' = Assigned(job, 0)
                 /\ UNCHANGED <<disk, mem, stray>>
              \/ /\ grps # {}
                 /\ Count(ok)
                 /\ disk' = Marked(disk, k, b)
                 /\ mem' = Counted(mem, k, g)
                 /\ job' = [job EXCEPT !.pc = "bgdt", !.got = Numbered(k, b)]
                 /\ stray' = (stray \/ (k = "block" /\ Numbered(k, b) \notin Spare))
              \/ /\ grps # {}
                 /\ Count(FALSE)
                 /\ job' = Wild(job)
                 /\ UNCHANGED <<disk, mem, stray>>
    BY <1>2, <1>3, ZenonT(30) DEF alloc
  <1>5. PICK G : G = IF ok \/ T = {} THEN T ELSE T \ {Least(T)}
    OBVIOUS
  <1>6. G \subseteq T /\ T \subseteq Groups
    BY <1>3, <1>5
  <1>7. "bitmap_r" \notin Fails => ok = TRUE /\ G = T
    BY <1>5 DEF Outcomes
  <1>8. \/ G = {} /\ Count(ok) /\ job' = Assigned(job, 0) /\ disk' = disk /\ mem' = mem /\ stray' = stray
        \/ /\ G # {} /\ Count(ok)
           /\ disk' = Marked(disk, k, Least(ClearBits(disk, k, Least(G))))
           /\ mem' = Counted(mem, k, Least(G))
           /\ job' = [job EXCEPT !.pc = "bgdt", !.got = Numbered(k, Least(ClearBits(disk, k, Least(G))))]
           /\ stray' = (stray \/ (k = "block" /\ Numbered(k, Least(ClearBits(disk, k, Least(G)))) \notin Spare))
        \/ Count(FALSE) /\ job' = Wild(job) /\ disk' = disk /\ mem' = mem /\ stray' = stray
    BY <1>4, <1>5, ZenonT(30)
  <1>9. fails' = fails \/ fails' = fails + 1
    BY <1>8 DEF Count
  <1>10. job.pc = "alloc" /\ node' = node /\ last' = last /\ ops' = ops
    BY DEF alloc
  <1>11. CASE G = {} /\ Count(ok) /\ job' = Assigned(job, 0) /\ disk' = disk /\ mem' = mem /\ stray' = stray
    <2>1. "bitmap_r" \notin Fails =>
            \A g \in Groups : mem.bgdt[k][g] = 0 \/ ClearBits(disk, k, g) = {}
      BY <1>3, <1>7, <1>11
    <2>2. "bitmap_r" \notin Fails => fails' = fails
      BY <1>7, <1>11 DEF Count
    <2>3. Nothing
      BY <1>2, <1>11, <2>1, <2>2 DEF Nothing
    <2> QED
      BY <1>9, <1>10, <2>3
  <1>12. CASE /\ G # {} /\ Count(ok)
              /\ disk' = Marked(disk, k, Least(ClearBits(disk, k, Least(G))))
              /\ mem' = Counted(mem, k, Least(G))
              /\ job' = [job EXCEPT !.pc = "bgdt", !.got = Numbered(k, Least(ClearBits(disk, k, Least(G))))]
              /\ stray' = (stray \/ (k = "block" /\ Numbered(k, Least(ClearBits(disk, k, Least(G)))) \notin Spare))
    <2>1. PICK g : g = Least(G)
      OBVIOUS
    <2>2. PICK b : b = Least(ClearBits(disk, k, g))
      OBVIOUS
    <2>3. "bitmap_r" \notin Fails => fails' = fails
      BY <1>7, <1>12 DEF Count
    <2>4. g \in G /\ g \in Groups
      BY <1>1, <1>6, <1>12, <2>1, LeastIn
    <2>5. ClearBits(disk, k, g) # {}
      BY <1>3, <1>6, <2>4
    <2>6. k \in Kinds
      BY <1>2 DEF Wanted, Kinds
    <2>7. ClearBits(disk, k, g) \subseteq Nat
      BY <2>6, BitsFinite DEF ClearBits
    <2>8. b \in ClearBits(disk, k, g)
      BY <2>2, <2>5, <2>7, LeastIn
    <2>9. Takes(g, b)
      BY <1>2, <1>12, <2>1, <2>2, <2>3 DEF Takes
    <2> QED
      BY <1>2, <1>9, <1>10, <2>4, <2>8, <2>9
  <1>13. CASE Count(FALSE) /\ job' = Wild(job) /\ disk' = disk /\ mem' = mem /\ stray' = stray
    BY <1>9, <1>10, <1>13 DEF Lost
  <1> QED
    BY <1>8, <1>11, <1>12, <1>13

LEMMA CoversNext == CountsCover' <=> Covers(mem', disk') /\ Covers(disk', disk')
  <1>1. (CountsCover <=> Covers(mem, disk) /\ Covers(disk, disk))'
    BY CoversBoth, PTL
  <1> QED
    BY <1>1

-----------------------------------------------------------------------------
(* What is kept on any disk *)

LEMMA BaseFacts ==
    ASSUME NEW D, NEW N, NEW j, Base(D, N, j)
    PROVE  /\ Stored(D, N) /\ D \in DiskType /\ j \in Calls \cup {None} /\ j \in Started \cup {None}
           /\ Listed(D)
  BY CallsStarted DEF Base, Typed, Stored

LEMMA BaseJob ==
    ASSUME NEW D, NEW N, NEW j, Base(D, N, j), NEW k \in Calls, InPlace(k, D)
    PROVE  Base(D, N, k)
  BY DEF Base, Typed

LEMMA BaseIdle ==
    ASSUME NEW D, NEW N, NEW j, Base(D, N, j),
           NEW P \in [Inodes -> Inode \cup {None}],
           \A f \in Inodes : P[f] \in {None, N[f], D.ino[f]}
    PROVE  Base(D, P, None)
  BY DEF Base, Typed

\* Blocks and counts are no part of what Base says, but for their types.
LEMMA BaseDisk ==
    ASSUME NEW D, NEW N, NEW j, Base(D, N, j),
           NEW E \in DiskType, E.bits = D.bits, E.ino = D.ino, E.dir = D.dir
    PROVE  Base(E, N, j)
  <1>1. Typed(E, N, j) /\ Listed(E)
    BY DEF Base, Typed, Listed
  <1>2. j # None => InPlace(j, E)
    BY DEF Base, InPlace, Whose, Where, Given, Fresh
  <1> QED
    BY <1>1, <1>2 DEF Base

\* The call is at another step.
LEMMA BaseMoves ==
    ASSUME NEW D, NEW j \in Started, j.ino.indirect \in Blocks, Whose(j, D),
           NEW k \in Calls, SameCall(j, k), Where(k, D)
    PROVE  InPlace(k, D)
  <1>1. k.ino.indirect \in Blocks /\ Whose(k, D)
    BY DEF SameCall, Whose
  <1> QED
    BY <1>1 DEF InPlace

LEMMA LoopWhere ==
    ASSUME NEW j \in Started, NEW D
    PROVE  Loop(j) \in Calls /\ SameCall(j, Loop(j)) /\ Where(Loop(j), D)
  <1> DEFINE Good(k) == k \in Calls /\ SameCall(j, k) /\ Where(k, D)
  <1>1. j.i \in Nat /\ NDirect \in Nat /\ PerIndirect \in Nat /\ j.got \in Nat
    BY CallTypes
  <1>2. ASSUME NEW g \in Nat, NEW p \in {"inode", "data"} PROVE Good([j EXCEPT !.pc = p, !.got = g])
    <2>1. PICK k : k = [j EXCEPT !.pc = p, !.got = g]
      OBVIOUS
    <2>2. k \in Calls /\ SameCall(j, k) /\ k.pc \in {"inode", "data"}
      BY <2>1 DEF Started, Calls, SameCall
    <2>3. Where(k, D)
      BY <2>2 DEF Where
    <2> QED
      BY <2>1, <2>2, <2>3
  <1>3. ASSUME NEW w \in {"direct", "indirect"}, w = "indirect" => InRange(j)
        PROVE  Good([j EXCEPT !.pc = "alloc", !.want = w])
    <2>1. PICK k : k = [j EXCEPT !.pc = "alloc", !.want = w]
      OBVIOUS
    <2>2. k \in Calls /\ SameCall(j, k) /\ k.pc = "alloc" /\ k.want = w /\ k.i = j.i
      BY <2>1 DEF Started, Calls, SameCall
    <2>3. Where(k, D)
      BY <1>3, <2>2 DEF Where, Wants, InRange
    <2> QED
      BY <2>1, <2>2, <2>3
  <1>4. CASE ~ (2 * j.i < j.n)
    <2>1. Loop(j) = [j EXCEPT !.pc = "inode", !.got = j.got]
      BY <1>4 DEF Loop, Started
    <2>2. Good(Loop(j))
      <3> HIDE DEF Good
      <3> QED
        BY <1>1, <1>2, <2>1
    <2> QED
      BY <2>2
  <1>5. CASE 2 * j.i < j.n /\ j.i < NDirect
    <2>1. j.i \in 0..(NDirect - 1)
      BY <1>1, <1>5
    <2>2. PICK d \in Nat : d = j.ino.direct[j.i]
      BY <2>1, CallTypes
    <2>3. Loop(j) = IF d = 0 THEN [j EXCEPT !.pc = "alloc", !.want = "direct"]
                    ELSE [j EXCEPT !.pc = "data", !.got = d]
      BY <1>5, <2>2 DEF Loop, get_or_alloc_block_ptr, ToAlloc, ToBlock
    <2>4. Good(Loop(j))
      <3> HIDE DEF Good
      <3> QED
        BY <1>2, <1>3, <2>3
    <2> QED
      BY <2>4
  <1>6. CASE 2 * j.i < j.n /\ ~ (j.i < NDirect) /\ j.i - NDirect >= PerIndirect
    <2>1. Loop(j) = [j EXCEPT !.pc = "inode", !.got = 0]
      BY <1>6 DEF Loop, get_or_alloc_block_ptr, ToBlock
    <2>2. Good(Loop(j))
      <3> HIDE DEF Good
      <3> QED
        BY <1>2, <2>1
    <2> QED
      BY <2>2
  <1>7. CASE 2 * j.i < j.n /\ ~ (j.i < NDirect) /\ ~ (j.i - NDirect >= PerIndirect)
    <2>1. InRange(j)
      BY <1>1, <1>7 DEF InRange
    <2>2. CASE j.ino.indirect = 0
      <3>1. Loop(j) = [j EXCEPT !.pc = "alloc", !.want = "indirect"]
        BY <1>7, <2>2 DEF Loop, get_or_alloc_block_ptr, ToAlloc
      <3>2. Good(Loop(j))
        <4> HIDE DEF Good
        <4> QED
          BY <1>3, <2>1, <3>1
      <3> QED
        BY <3>2
    <2>3. CASE j.ino.indirect # 0
      <3>1. PICK k : k = [j EXCEPT !.pc = "read"] /\ k = Loop(j)
        BY <1>7, <2>3 DEF Loop, get_or_alloc_block_ptr
      <3>2. k \in Calls /\ SameCall(j, k) /\ k.pc = "read" /\ k.i = j.i
        BY <3>1 DEF Started, Calls, SameCall
      <3>3. Where(k, D)
        BY <2>1, <3>2 DEF Where, InRange
      <3> QED
        BY <3>1, <3>2, <3>3
    <2> QED
      BY <2>2, <2>3
  <1> QED
    BY <1>4, <1>5, <1>6, <1>7

LEMMA AssignedInPlace ==
    ASSUME NEW D, NEW j \in Started, j.ino.indirect \in Blocks, Whose(j, D), Wants(j),
           NEW b \in Nat, b = 0 \/ Given(j, b, D)
    PROVE  Assigned(j, b) \in Calls /\ InPlace(Assigned(j, b), D)
  <1>1. CASE j.want = "direct"
    <2>1. PICK a : a = [j.ino EXCEPT !.direct[j.i] = b]
      OBVIOUS
    <2>2. j.ino \in Inode
      BY CallTypes
    <2>3. a \in Inode /\ a.indirect = j.ino.indirect
      BY <2>1, <2>2 DEF Inode
    <2>4. PICK m : m = [j EXCEPT !.ino = a]
      OBVIOUS
    <2>5. m \in Started /\ m.ino = a /\ m.f = j.f /\ m.call = j.call
      BY <2>3, <2>4 DEF Started
    <2>6. Assigned(j, b) = ToBlock(m, b)
      BY <1>1, <2>1, <2>4 DEF Assigned
    <2>7. PICK k : k = ToBlock(m, b)
      OBVIOUS
    <2>8. k \in Calls /\ SameCall(m, k) /\ k.pc \in {"inode", "data"}
      BY <2>5, <2>7, ToBlockFacts
    <2>9. Where(k, D)
      BY <2>8 DEF Where
    <2>10. Whose(m, D) /\ m.ino.indirect \in Blocks
      BY <2>3, <2>5 DEF Whose
    <2> QED
      BY <2>5, <2>6, <2>7, <2>8, <2>9, <2>10, BaseMoves
  <1>2. CASE j.want = "indirect"
    <2>1. PICK a : a = [j.ino EXCEPT !.indirect = b]
      OBVIOUS
    <2>2. j.ino \in Inode
      BY CallTypes
    <2>3. a \in Inode /\ a.indirect = b
      BY <2>1, <2>2 DEF Inode
    <2>4. PICK k : k = [j EXCEPT !.ino = a, !.pc = "read"]
      OBVIOUS
    <2>5. k \in Calls /\ k.ino = a /\ k.f = j.f /\ k.call = j.call /\ k.pc = "read" /\ k.i = j.i
      BY <2>3, <2>4 DEF Started, Calls
    <2>6. Assigned(j, b) = k
      BY <1>2, <2>1, <2>4 DEF Assigned
    <2>7. b \in Blocks
      BY <1>2, Sizes0 DEF Given
    <2>8. InRange(j)
      BY <1>2 DEF Wants
    <2>9. InPlace(k, D)
      BY <2>3, <2>5, <2>7, <2>8 DEF InPlace, Where, Whose, InRange
    <2> QED
      BY <2>5, <2>6, <2>9
  <1>3. CASE j.want = "word"
    <2>1. PICK k : k = [j EXCEPT !.pc = "ind", !.got = b] /\ k = Assigned(j, b)
      BY <1>3 DEF Assigned
    <2>2. k \in Calls /\ SameCall(j, k) /\ k.pc = "ind"
      BY <2>1 DEF Started, Calls, SameCall
    <2>3. Where(k, D)
      BY <2>2 DEF Where
    <2> QED
      BY <2>1, <2>2, <2>3, BaseMoves
  <1>4. CASE j.want = "inode"
    <2>1. b = 0 \/ Fresh(b, D)
      BY <1>4 DEF Given
    <2>2. PICK m : m = [j EXCEPT !.f = b]
      OBVIOUS
    <2>3. b \in {0} \cup Inodes
      BY <2>1 DEF Fresh
    <2>4. m \in Started /\ m.f = b /\ m.ino = j.ino /\ m.call = j.call
      BY <2>2, <2>3 DEF Started
    <2>5. j.call = "create"
      BY <1>4 DEF Wants
    <2>6. Whose(m, D)
      BY <2>1, <2>4, <2>5 DEF Whose
    <2>7. Assigned(j, b) = Loop(m)
      BY <1>4, <2>2 DEF Assigned
    <2>8. PICK k : k = Loop(m)
      OBVIOUS
    <2>9. k \in Calls /\ SameCall(m, k) /\ Where(k, D)
      BY <2>4, <2>8, LoopWhere
    <2> QED
      BY <2>4, <2>6, <2>7, <2>8, <2>9, BaseMoves
  <1> QED
    BY <1>1, <1>2, <1>3, <1>4 DEF Wants

LEMMA WildBase ==
    ASSUME NEW D, NEW N, NEW j, Base(D, N, j), j # None
    PROVE  Base(D, N, Wild(j))
  <1>1. j \in Started /\ j.ino.indirect \in Blocks /\ Whose(j, D)
    BY BaseFacts DEF Base, InPlace
  <1>2. PICK k : k = [j EXCEPT !.pc = "wild"] /\ k = Wild(j)
    BY DEF Wild
  <1>3. k \in Calls /\ SameCall(j, k) /\ k.pc = "wild"
    BY <1>1, <1>2 DEF Started, Calls, SameCall
  <1>4. Where(k, D)
    BY <1>3 DEF Where
  <1> QED
    BY <1>1, <1>2, <1>3, <1>4, BaseMoves, BaseJob

\* A bit is set: an inode that had none is nobody's.
LEMMA MarkedBase ==
    ASSUME NEW D, NEW N, NEW j, Base(D, N, j), j # None, j.pc = "alloc",
           NEW k, k = IF j.want = "inode" THEN "inode" ELSE "block",
           NEW b \in Bits(k), b \notin D.bits[k]
    PROVE  Base(Marked(D, k, b), N, [j EXCEPT !.pc = "bgdt", !.got = Numbered(k, b)])
  <1>1. /\ D \in DiskType /\ Stored(D, N) /\ j \in Started /\ j.ino.indirect \in Blocks
        /\ Whose(j, D) /\ Wants(j) /\ Listed(D) /\ k \in Kinds
    BY BaseFacts DEF Base, InPlace, Where, Kinds
  <1>2. b \in Nat
    BY <1>1, BitsFinite
  <1>3. PICK E : E = Marked(D, k, b)
    OBVIOUS
  <1>4. /\ E \in DiskType /\ E.bits[k] = D.bits[k] \cup {b}
        /\ \A l \in Kinds : l # k => E.bits[l] = D.bits[l]
        /\ E.ino = D.ino /\ E.dir = D.dir
    BY <1>1, <1>2, <1>3, MarkedFacts
  <1>5. (\A l \in Kinds : E.bits[l] \subseteq Bits(l)) /\ D.bits["inode"] \subseteq E.bits["inode"]
    BY <1>1, <1>4 DEF Stored, Kinds
  <1>6. \A f : Fresh(f, D) => Fresh(f, E)
    BY <1>4, <1>5 DEF Fresh
  <1>7. Listed(E)
    BY <1>1, <1>4, <1>5 DEF Listed
  <1>8. PICK n \in Nat : n = Numbered(k, b)
    BY <1>2 DEF Numbered
  <1>9. IF j.want = "inode" THEN Fresh(n, E) ELSE n \in Blocks
    <2>1. CASE j.want = "inode"
      <3>1. k = "inode" /\ n = b + 1 /\ b + 1 \in Inodes /\ (b + 1) - 1 = b
        BY <1>2, <1>8, <2>1, Sizes0 DEF Numbered, Bits, Inodes
      <3>2. \A e \in DOMAIN D.dir : D.dir[e] # n
        BY <1>1, <3>1 DEF Listed
      <3> QED
        BY <1>4, <2>1, <3>1, <3>2 DEF Fresh
    <2>2. CASE j.want # "inode"
      <3>1. k = "block" /\ n = b
        BY <1>8, <2>2 DEF Numbered
      <3>2. NGroups * PerGroup["block"] \in Nat /\ FirstData \in Nat
        <4>1. NGroups \in Nat /\ PerGroup["block"] \in Nat /\ FirstData \in Nat
          BY Ext2Assumption DEF Kinds
        <4> QED
          BY <4>1
      <3> QED
        BY <2>2, <3>1, <3>2 DEF Bits, Blocks
    <2> QED
      BY <2>1, <2>2
  <1>10. PICK l : l = [j EXCEPT !.pc = "bgdt", !.got = n]
    OBVIOUS
  <1>11. /\ l \in Calls /\ SameCall(j, l) /\ l.pc = "bgdt" /\ l.got = n /\ l.want = j.want
         /\ l.i = j.i /\ l.call = j.call
    BY <1>1, <1>10 DEF Started, Calls, SameCall
  <1>12. Where(l, E)
    BY <1>1, <1>9, <1>11 DEF Where, Wants, InRange, Given
  <1>13. Whose(j, E)
    BY <1>1, <1>6 DEF Whose
  <1>14. InPlace(l, E)
    BY <1>1, <1>11, <1>12, <1>13, BaseMoves
  <1>15. Typed(E, N, l)
    BY <1>1, <1>4, <1>5, <1>11 DEF Typed, Stored
  <1>16. Base(E, N, l)
    BY <1>4, <1>7, <1>14, <1>15 DEF Base
  <1> QED
    BY <1>3, <1>8, <1>10, <1>16

\* The history goes one way, and transfers that fail are counted.
LEMMA HistoryNext ==
    ASSUME fails \in Nat, stray \in BOOLEAN, [Next]_vars
    PROVE  fails' \in Nat /\ stray' \in BOOLEAN /\ (~stray' => ~stray)
  <1>1. fails' \in Nat
    <2>1. \A ok : Count(ok) => fails' \in Nat
      BY DEF Count
    <2>2. fails' = fails \/ \E ok : Count(ok)
      BY DEF Next, vars, vfs_open, fd_remove, write_file, create_file,
         write_bgdt_to_disk, write_sb_base_to_disk, read_indirect, write_indirect, write_block,
         write_inode, link, power_loss, alloc
    <2> QED
      BY <2>1, <2>2
  <1>2. CASE alloc
    BY <1>1, <1>2, AllocCases DEF Nothing, Takes, Lost
  <1>3. CASE ~alloc
    <2>1. stray' = stray
      BY <1>3 DEF Next, vars, vfs_open, fd_remove, write_file, create_file,
         write_bgdt_to_disk, write_sb_base_to_disk, read_indirect, write_indirect, write_block,
         write_inode, link, power_loss
    <2> QED
      BY <1>1, <2>1
  <1> QED
    BY <1>2, <1>3

\* A step that leaves bitmaps and counts alone.
LEMMA CountsAlone ==
    ASSUME Ext2Base, [Next]_vars, Base(disk', node', job'), ops' \in 0..MaxOps,
           mem' = mem, disk'.bits = disk.bits, disk'.bgdt = disk.bgdt, disk'.sb = disk.sb
    PROVE  Ext2Base'
  <1>1. Covers(mem, disk) /\ Covers(disk, disk) /\ mem \in MemType
    BY CoversBoth DEF Ext2Base
  <1>2. Covers(mem', disk') /\ Covers(disk, disk')
    BY <1>1, CoversSame
  <1>3. Covers(disk', disk')
    BY <1>2, CoversCopy
  <1>4. CountsCover'
    BY <1>2, <1>3, CoversNext
  <1>5. fails' \in Nat /\ stray' \in BOOLEAN
    BY HistoryNext DEF Ext2Base
  <1>6. FirstData = 0 => Taken \subseteq disk'.bits["block"]
    BY DEF Ext2Base
  <1> QED
    BY <1>1, <1>4, <1>5, <1>6 DEF Ext2Base

LEMMA AllocBase == Ext2Base /\ alloc => Ext2Base'
  <1> SUFFICES ASSUME Ext2Base, alloc PROVE Ext2Base'
    OBVIOUS
  <1>1. Base(disk, node, job) /\ mem \in MemType /\ Covers(mem, disk) /\ Covers(disk, disk)
        /\ ops \in 0..MaxOps
    BY CoversBoth DEF Ext2Base
  <1>2. job.pc = "alloc" /\ node' = node /\ ops' = ops /\ [Next]_vars
    BY AllocCases DEF Next
  <1>3. /\ job # None /\ job \in Started /\ disk \in DiskType
        /\ job.ino.indirect \in Blocks /\ Whose(job, disk) /\ Wants(job)
    BY <1>1, <1>2, NoneFacts, BaseFacts DEF Base, InPlace, Where
  <1>4. CASE Nothing
    <2>1. PICK k : k = Assigned(job, 0)
      OBVIOUS
    <2>2. k \in Calls /\ InPlace(k, disk)
      <3>1. 0 \in Nat
        OBVIOUS
      <3> QED
        BY <1>3, <2>1, <3>1, AssignedInPlace
    <2>3. Base(disk, node, k)
      BY <1>1, <2>2, BaseJob
    <2> QED
      BY <1>1, <1>2, <1>4, <2>1, <2>3, CountsAlone DEF Nothing
  <1>5. ASSUME NEW g \in Groups, NEW b \in ClearBits(disk, Wanted, g), Takes(g, b)
        PROVE  Ext2Base'
    <2>1. Wanted \in Kinds /\ Wanted = IF job.want = "inode" THEN "inode" ELSE "block"
      BY DEF Wanted, Kinds
    <2>2. /\ Counted(mem, Wanted, g) \in MemType
          /\ Covers(Counted(mem, Wanted, g), Marked(disk, Wanted, b))
          /\ Covers(Marked(disk, Wanted, b), Marked(disk, Wanted, b))
      BY <1>1, <1>3, <2>1, TakeCounts
    <2>3. disk' = Marked(disk, Wanted, b) /\ mem' = Counted(mem, Wanted, g)
          /\ job' = [job EXCEPT !.pc = "bgdt", !.got = Numbered(Wanted, b)]
      BY <1>5 DEF Takes
    <2>4. mem' \in MemType /\ CountsCover'
      BY <2>2, <2>3, CoversNext
    <2>5. b \in Bits(Wanted) /\ b \notin disk.bits[Wanted] /\ b \in Nat
      BY <2>1, BitsFinite DEF ClearBits
    <2>6. Base(disk', node', job')
      BY <1>1, <1>2, <1>3, <2>1, <2>3, <2>5, MarkedBase
    <2>7. disk.bits["block"] \subseteq disk'.bits["block"]
      BY <1>3, <2>1, <2>3, <2>5, MarkedFacts DEF Kinds
    <2>8. fails' \in Nat /\ stray' \in BOOLEAN
      BY <1>2, HistoryNext DEF Ext2Base
    <2> QED
      BY <1>1, <1>2, <2>4, <2>6, <2>7, <2>8 DEF Ext2Base
  <1>6. CASE Lost
    <2>1. Base(disk, node, Wild(job))
      BY <1>1, <1>3, WildBase
    <2> QED
      BY <1>1, <1>2, <1>6, <2>1, CountsAlone DEF Lost
  <1> QED
    BY <1>4, <1>5, <1>6, AllocCases

LEMMA BgdtBase == Ext2Base /\ write_bgdt_to_disk => Ext2Base'
  <1> SUFFICES ASSUME Ext2Base, write_bgdt_to_disk PROVE Ext2Base'
    OBVIOUS
  <1>1. Base(disk, node, job) /\ mem \in MemType /\ Covers(mem, disk) /\ Covers(disk, disk)
        /\ ops \in 0..MaxOps
    BY CoversBoth DEF Ext2Base
  <1>2. /\ job.pc = "bgdt" /\ node' = node /\ ops' = ops /\ mem' = mem
        /\ job' = [job EXCEPT !.pc = "sb"] /\ [Next]_vars
        /\ disk' = [disk EXCEPT !.bgdt = mem.bgdt] \/ disk' = disk
    BY DEF write_bgdt_to_disk, Next
  <1>3. /\ job # None /\ job \in Started /\ disk \in DiskType
        /\ job.ino.indirect \in Blocks /\ Whose(job, disk) /\ Wants(job) /\ Given(job, job.got, disk)
    BY <1>1, <1>2, NoneFacts, BaseFacts DEF Base, InPlace, Where
  <1>4. PICK l : l = [job EXCEPT !.pc = "sb"]
    OBVIOUS
  <1>5. /\ l \in Calls /\ SameCall(job, l) /\ l.pc = "sb" /\ l.want = job.want /\ l.got = job.got
        /\ l.i = job.i /\ l.call = job.call
    BY <1>3, <1>4 DEF Started, Calls, SameCall
  <1>6. Where(l, disk)
    BY <1>3, <1>5 DEF Where, Wants, InRange, Given
  <1>7. Base(disk, node, l)
    BY <1>1, <1>3, <1>5, <1>6, BaseMoves, BaseJob
  <1>8. CASE disk' = disk
    BY <1>1, <1>2, <1>4, <1>7, <1>8, CountsAlone
  <1>9. CASE disk' = [disk EXCEPT !.bgdt = mem.bgdt]
    <2>1. mem.bgdt \in [Kinds -> [Groups -> Nat]]
      BY <1>1 DEF MemType
    <2>2. /\ disk' \in DiskType /\ disk'.bgdt = mem.bgdt /\ disk'.bits = disk.bits
          /\ disk'.sb = disk.sb /\ disk'.ino = disk.ino /\ disk'.blk = disk.blk /\ disk'.dir = disk.dir
      BY <1>3, <1>9, <2>1 DEF DiskType
    <2>3. Base(disk', node', job')
      BY <1>2, <1>4, <1>7, <2>2, BaseDisk
    <2>4. Covers(mem', disk')
      BY <1>1, <1>2, <2>2, CoversSame
    <2>5. Covers(disk', disk')
      BY <1>1, <2>2 DEF Covers, ClearBits
    <2>6. fails' \in Nat /\ stray' \in BOOLEAN
      BY <1>2, HistoryNext DEF Ext2Base
    <2> QED
      BY <1>1, <1>2, <2>2, <2>3, <2>4, <2>5, <2>6, CoversNext DEF Ext2Base
  <1> QED
    BY <1>2, <1>8, <1>9

LEMMA SbBase == Ext2Base /\ write_sb_base_to_disk => Ext2Base'
  <1> SUFFICES ASSUME Ext2Base, write_sb_base_to_disk PROVE Ext2Base'
    OBVIOUS
  <1>1. Base(disk, node, job) /\ mem \in MemType /\ Covers(mem, disk) /\ Covers(disk, disk)
        /\ ops \in 0..MaxOps
    BY CoversBoth DEF Ext2Base
  <1>2. /\ job.pc = "sb" /\ node' = node /\ ops' = ops /\ mem' = mem
        /\ job' = Assigned(job, job.got) /\ [Next]_vars
        /\ disk' = [disk EXCEPT !.sb = mem.sb] \/ disk' = disk
    BY DEF write_sb_base_to_disk, Next
  <1>3. /\ job # None /\ job \in Started /\ disk \in DiskType
        /\ job.ino.indirect \in Blocks /\ Whose(job, disk) /\ Wants(job) /\ Given(job, job.got, disk)
    BY <1>1, <1>2, NoneFacts, BaseFacts DEF Base, InPlace, Where
  <1>4. PICK l : l = Assigned(job, job.got)
    OBVIOUS
  <1>5. l \in Calls /\ InPlace(l, disk)
    <2>1. job.got \in Nat
      BY <1>3, CallTypes
    <2> QED
      BY <1>3, <1>4, <2>1, AssignedInPlace
  <1>6. Base(disk, node, l)
    BY <1>1, <1>5, BaseJob
  <1>7. CASE disk' = disk
    BY <1>1, <1>2, <1>4, <1>6, <1>7, CountsAlone
  <1>8. CASE disk' = [disk EXCEPT !.sb = mem.sb]
    <2>1. mem.sb \in [Kinds -> Nat]
      BY <1>1 DEF MemType
    <2>2. /\ disk' \in DiskType /\ disk'.sb = mem.sb /\ disk'.bits = disk.bits
          /\ disk'.bgdt = disk.bgdt /\ disk'.ino = disk.ino /\ disk'.blk = disk.blk
          /\ disk'.dir = disk.dir
      BY <1>3, <1>8, <2>1 DEF DiskType
    <2>3. Base(disk', node', job')
      BY <1>2, <1>4, <1>6, <2>2, BaseDisk
    <2>4. Covers(mem', disk')
      BY <1>1, <1>2, <2>2, CoversSame
    <2>5. Covers(disk', disk')
      BY <1>1, <2>2 DEF Covers, ClearBits
    <2>6. fails' \in Nat /\ stray' \in BOOLEAN
      BY <1>2, HistoryNext DEF Ext2Base
    <2> QED
      BY <1>1, <1>2, <2>2, <2>3, <2>4, <2>5, <2>6, CoversNext DEF Ext2Base
  <1> QED
    BY <1>2, <1>7, <1>8

\* A call that only goes on: its pc, its block or its place is another.
LEMMA GoesOn ==
    ASSUME NEW D, NEW N, NEW j, Base(D, N, j), j # None, NEW b \in Nat,
           NEW k, k \in {ToBlock(j, b), [j EXCEPT !.pc = "inode"], Loop([j EXCEPT !.i = @ + 1]),
                         ToAlloc(j, "word")}
    PROVE  Base(D, N, k)
  <1>1. j \in Started /\ j.ino.indirect \in Blocks /\ Whose(j, D) /\ j.i \in Nat
    BY BaseFacts, CallTypes DEF Base, InPlace
  <1>2. CASE k = ToBlock(j, b)
    <2>1. k \in Calls /\ SameCall(j, k) /\ k.pc \in {"inode", "data"}
      BY <1>1, <1>2, ToBlockFacts
    <2>2. Where(k, D)
      BY <2>1 DEF Where
    <2> QED
      BY <1>1, <2>1, <2>2, BaseMoves, BaseJob
  <1>3. CASE k = [j EXCEPT !.pc = "inode"]
    <2>1. k \in Calls /\ SameCall(j, k) /\ k.pc = "inode"
      BY <1>1, <1>3 DEF Started, Calls, SameCall
    <2>2. Where(k, D)
      BY <2>1 DEF Where
    <2> QED
      BY <1>1, <2>1, <2>2, BaseMoves, BaseJob
  <1>4. CASE k = Loop([j EXCEPT !.i = @ + 1])
    <2>1. PICK n \in Nat : n = j.i + 1
      BY <1>1
    <2>2. PICK m : m = [j EXCEPT !.i = n]
      OBVIOUS
    <2>3. m \in Started /\ m.ino = j.ino /\ m.f = j.f /\ m.call = j.call
      BY <1>1, <2>2 DEF Started
    <2>4. m.ino.indirect \in Blocks /\ Whose(m, D)
      BY <1>1, <2>3 DEF Whose
    <2>5. k = Loop(m)
      BY <1>4, <2>1, <2>2
    <2>6. k \in Calls /\ SameCall(m, k) /\ Where(k, D)
      BY <2>3, <2>5, LoopWhere
    <2> QED
      BY <2>3, <2>4, <2>6, BaseMoves, BaseJob
  <1>5. CASE k = ToAlloc(j, "word")
    <2>1. k = [j EXCEPT !.pc = "alloc", !.want = "word"]
      BY <1>5 DEF ToAlloc
    <2>2. k \in Calls /\ SameCall(j, k) /\ k.pc = "alloc" /\ k.want = "word"
      BY <1>1, <2>1 DEF Started, Calls, SameCall
    <2>3. Where(k, D)
      BY <2>2 DEF Where, Wants
    <2> QED
      BY <1>1, <2>2, <2>3, BaseMoves, BaseJob
  <1> QED
    BY <1>2, <1>3, <1>4, <1>5

LEMMA ReadBase == Ext2Base /\ read_indirect => Ext2Base'
  <1> SUFFICES ASSUME Ext2Base, read_indirect PROVE Ext2Base'
    OBVIOUS
  <1>1. Base(disk, node, job) /\ ops \in 0..MaxOps
    BY DEF Ext2Base
  <1>2. /\ job.pc = "read" /\ disk' = disk /\ node' = node /\ ops' = ops /\ mem' = mem
        /\ job' = InIndirect(job, disk) \/ job' = Wild(job)
        /\ [Next]_vars
    BY DEF read_indirect, Next
  <1>3. job # None /\ job \in Started /\ InRange(job) /\ job.ino.indirect \in Blocks /\ Stored(disk, node)
    BY <1>1, <1>2, NoneFacts, BaseFacts DEF Base, InPlace, Where
  <1>4. PICK w \in Nat : w = disk.blk[job.ino.indirect][job.i - NDirect + 1]
    <2>1. job.i - NDirect + 1 \in 1..2
      BY <1>3, CallTypes, Sizes0 DEF InRange
    <2>2. disk.blk[job.ino.indirect] \in [1..2 -> Nat]
      BY <1>3, StoredFacts
    <2> QED
      BY <2>1, <2>2
  <1>5. InIndirect(job, disk) \in {ToBlock(job, w), ToAlloc(job, "word")}
    BY <1>4 DEF InIndirect
  <1>6. Base(disk, node, InIndirect(job, disk))
    <2>1. PICK k : k = InIndirect(job, disk)
      OBVIOUS
    <2>2. k \in {ToBlock(job, w), [job EXCEPT !.pc = "inode"], Loop([job EXCEPT !.i = @ + 1]),
                 ToAlloc(job, "word")}
      BY <1>5, <2>1
    <2>3. Base(disk, node, k)
      BY ONLY <1>1, <1>3, <2>2, w \in Nat, GoesOn
    <2> QED
      BY <2>1, <2>3
  <1>7. Base(disk, node, Wild(job))
    BY <1>1, <1>3, WildBase
  <1> QED
    BY <1>1, <1>2, <1>6, <1>7, CountsAlone

LEMMA IndBase == Ext2Base /\ write_indirect => Ext2Base'
  <1> SUFFICES ASSUME Ext2Base, write_indirect PROVE Ext2Base'
    OBVIOUS
  <1>1. /\ job.pc = "ind" /\ node' = node /\ ops' = ops /\ mem' = mem /\ [Next]_vars
        /\ job' = ToBlock(job, job.got)
        /\ \/ disk' = disk
           \/ disk' = [disk EXCEPT !.blk[job.ino.indirect][job.i - NDirect + 1] = job.got]
    BY DEF write_indirect, Next
  <1>2. Base(disk, node, job) /\ job # None /\ ops \in 0..MaxOps
    BY <1>1, NoneFacts DEF Ext2Base
  <1>3. job.got \in Nat /\ disk \in DiskType /\ Stored(disk, node)
    BY <1>2, BaseFacts, CallTypes
  <1>4. Base(disk, node, job')
    BY <1>1, <1>2, <1>3, GoesOn
  <1>5. CASE disk' = disk
    BY <1>1, <1>2, <1>4, <1>5, CountsAlone
  <1>6. CASE disk' = [disk EXCEPT !.blk[job.ino.indirect][job.i - NDirect + 1] = job.got]
    <2>1. PICK a : a = job.ino.indirect
      OBVIOUS
    <2>2. PICK w : w = job.i - NDirect + 1
      OBVIOUS
    <2>3. PICK g \in Nat : g = job.got
      BY <1>3
    <2>4. PICK B \in [Blocks -> [1..2 -> Nat]] : B = disk.blk
      BY <1>3, StoredFacts
    <2>5. PICK X : X = [B EXCEPT ![a][w] = g]
      OBVIOUS
    <2>6. X \in [Blocks -> [1..2 -> Nat]]
      BY ONLY <2>5, g \in Nat, B \in [Blocks -> [1..2 -> Nat]]
    <2>7. disk' = [disk EXCEPT !.blk = X]
      BY <1>6, <2>1, <2>2, <2>3, <2>4, <2>5
    <2>8. /\ disk' \in DiskType /\ disk'.bits = disk.bits /\ disk'.bgdt = disk.bgdt
          /\ disk'.sb = disk.sb /\ disk'.ino = disk.ino /\ disk'.dir = disk.dir
      BY <1>3, <2>6, <2>7, BlocksFacts
    <2>9. Base(disk', node', job')
      BY <1>1, <1>4, <2>8, BaseDisk
    <2> QED
      BY <1>1, <1>2, <2>8, <2>9, CountsAlone
  <1> QED
    BY <1>1, <1>5, <1>6

LEMMA BlockBase == Ext2Base /\ write_block /\ job.got \notin Meta => Ext2Base'
  <1> SUFFICES ASSUME Ext2Base, write_block, job.got \notin Meta PROVE Ext2Base'
    OBVIOUS
  <1>1. Base(disk, node, job) /\ ops \in 0..MaxOps
    BY DEF Ext2Base
  <1>2. job.pc = "data" /\ node' = node /\ ops' = ops /\ mem' = mem /\ [Next]_vars
    BY DEF write_block, Next
  <1>3. job # None /\ job \in Started /\ disk \in DiskType /\ Stored(disk, node)
    BY <1>1, <1>2, NoneFacts, BaseFacts
  <1>4. PICK n : /\ \/ disk' = disk
                    \/ disk' = [disk EXCEPT !.blk[job.got] = ata_write(@, Filled(job, @), n)]
                 /\ \/ job' = [job EXCEPT !.pc = "inode"]
                    \/ job' = Loop([job EXCEPT !.i = @ + 1])
    BY DEF write_block
  <1>5. Base(disk, node, job')
    <2>1. PICK k : k = job'
      OBVIOUS
    <2>2. PICK b \in Nat : b = 0
      OBVIOUS
    <2>3. k \in {ToBlock(job, b), [job EXCEPT !.pc = "inode"], Loop([job EXCEPT !.i = @ + 1]),
                 ToAlloc(job, "word")}
      BY <1>4, <2>1
    <2>4. Base(disk, node, k)
      BY ONLY <1>1, <1>3, <2>3, b \in Nat, GoesOn
    <2> QED
      BY <2>1, <2>4
  <1>6. CASE disk' = disk
    BY <1>1, <1>2, <1>5, <1>6, CountsAlone
  <1>7. CASE disk' # disk
    <2>1. PICK B \in [Blocks -> [1..2 -> Nat]] : B = disk.blk
      BY <1>3, StoredFacts
    <2>2. PICK b : b = job.got
      OBVIOUS
    <2>3. PICK q \in Nat : q = Word(job.f, job.v)
      BY <1>3, CallTypes, WordFile, Sizes0, ZenonT(30)
    <2>4. PICK p : p = ata_write(B[b], Filled(job, B[b]), n)
      OBVIOUS
    <2>5. b \in Blocks => p \in [1..2 -> Nat]
      <3>1. \A x \in 1..2 : p[x] = IF x <= n /\ 2 * job.i + x <= job.n THEN q ELSE B[b][x]
        BY <2>3, <2>4 DEF ata_write, Filled
      <3>2. p = [x \in 1..2 |-> p[x]]
        BY <2>4 DEF ata_write
      <3>3. b \in Blocks => \A x \in 1..2 : p[x] \in Nat
        BY <2>1, <2>3, <3>1
      <3> QED
        BY <3>2, <3>3
    <2>6. PICK X : X = [B EXCEPT ![b] = p]
      OBVIOUS
    <2>7. X \in [Blocks -> [1..2 -> Nat]]
      BY ONLY <2>5, <2>6, B \in [Blocks -> [1..2 -> Nat]]
    <2>8. disk' = [disk EXCEPT !.blk = X]
      BY <1>4, <1>7, <2>1, <2>2, <2>4, <2>6
    <2>9. /\ disk' \in DiskType /\ disk'.bits = disk.bits /\ disk'.bgdt = disk.bgdt
          /\ disk'.sb = disk.sb /\ disk'.ino = disk.ino /\ disk'.dir = disk.dir
      BY <1>3, <2>7, <2>8, BlocksFacts
    <2>10. Base(disk', node', job')
      BY <1>2, <1>5, <2>9, BaseDisk
    <2> QED
      BY <1>1, <1>2, <2>9, <2>10, CountsAlone
  <1> QED
    BY <1>6, <1>7

LEMMA InodeBase == Ext2Base /\ write_inode => Ext2Base'
  <1> SUFFICES ASSUME Ext2Base, write_inode PROVE Ext2Base'
    OBVIOUS
  <1>1. Base(disk, node, job) /\ ops \in 0..MaxOps
    BY DEF Ext2Base
  <1>2. job.pc = "inode" /\ ops' = ops /\ mem' = mem /\ [Next]_vars
    BY DEF write_inode, Next
  <1>3. /\ job # None /\ job \in Started /\ Stored(disk, node) /\ disk \in DiskType
        /\ job.ino.indirect \in Blocks /\ Whose(job, disk)
    BY <1>1, <1>2, NoneFacts, BaseFacts DEF Base, InPlace
  <1>4. CASE job.f = 0
    <2>1. job' = Wild(job) /\ disk' = disk /\ node' = node
      BY <1>4 DEF write_inode
    <2>2. Base(disk', node', job')
      BY <1>1, <1>3, <2>1, WildBase
    <2> QED
      BY <1>1, <1>2, <2>1, <2>2, CountsAlone
  <1>5. CASE job.f # 0
    <2>1. job.f \in Inodes /\ job.ino \in Inode
      BY <1>3, <1>5, CallTypes
    <2>2. /\ disk' = disk \/ disk' = [disk EXCEPT !.ino[job.f] = job.ino]
          /\ node' = IF job.call = "write" THEN [node EXCEPT ![job.f] = job.ino] ELSE node
          /\ job' = IF job.call = "write" THEN None ELSE [job EXCEPT !.pc = "dir"]
      BY <1>5 DEF write_inode
    <2>3. PICK E : E = disk'
      OBVIOUS
    <2>4. InodeSent(disk, E, job) /\ E.bgdt = disk.bgdt /\ E.sb = disk.sb /\ E.bits = disk.bits
          /\ E.dir = disk.dir
      <3>1. CASE E = disk
        BY <1>3, <3>1 DEF InodeSent
      <3>2. CASE E = [disk EXCEPT !.ino[job.f] = job.ino]
        BY <1>3, <2>1, <3>2, InodeFacts DEF InodeSent
      <3> QED
        BY <2>2, <2>3, <3>1, <3>2
    <2>5. \A f \in Inodes : E.ino[f].indirect \in Blocks
      BY <1>1, <1>3, <2>4 DEF InodeSent, Base
    <2>6. PICK P : P = node'
      OBVIOUS
    <2>7. /\ P \in [Inodes -> Inode \cup {None}]
          /\ \A f \in Inodes : P[f] # None => P[f].indirect \in Blocks
      <3>1. node \in [Inodes -> Inode \cup {None}]
        BY <1>3 DEF Stored
      <3>2. \A f \in Inodes : node[f] # None => node[f].indirect \in Blocks
        BY <1>1 DEF Base
      <3> QED
        BY <1>3, <2>1, <2>2, <2>6, <3>1, <3>2
    <2>8. Listed(E) /\ \A f : Fresh(f, disk) => Fresh(f, E)
      BY <1>1, <2>4 DEF Base, Listed, Fresh
    <2>9. job' \in Calls \cup {None} /\ (job' # None => InPlace(job', E))
      <3>1. CASE job.call # "write"
        <4>1. PICK l : l = [job EXCEPT !.pc = "dir"]
          OBVIOUS
        <4>2. /\ l \in Calls /\ SameCall(job, l) /\ l.pc = "dir" /\ l.f = job.f /\ l.call = job.call
          BY <1>3, <4>1 DEF Started, Calls, SameCall
        <4>3. Where(l, E)
          BY <1>5, <3>1, <4>2 DEF Where
        <4>4. Whose(job, E)
          BY <1>3, <2>8 DEF Whose
        <4>5. InPlace(l, E)
          BY <1>3, <4>2, <4>3, <4>4, BaseMoves
        <4> QED
          BY <2>2, <3>1, <4>1, <4>2, <4>5
      <3>2. CASE job.call = "write"
        BY <2>2, <3>2
      <3> QED
        BY <3>1, <3>2
    <2>10. Base(E, P, job')
      <3>1. E \in DiskType /\ \A k \in Kinds : E.bits[k] \subseteq Bits(k)
        BY <1>3, <2>4 DEF InodeSent, Stored
      <3>2. Typed(E, P, job')
        BY <2>7, <2>9, <3>1 DEF Typed
      <3> QED
        BY <2>5, <2>7, <2>8, <2>9, <3>2 DEF Base
    <2> QED
      BY <1>1, <1>2, <2>3, <2>4, <2>6, <2>10, CountsAlone
  <1> QED
    BY <1>4, <1>5

LEMMA LinkBase == Ext2Base /\ link => Ext2Base'
  <1> SUFFICES ASSUME Ext2Base, link PROVE Ext2Base'
    OBVIOUS
  <1>1. Base(disk, node, job) /\ ops \in 0..MaxOps
    BY DEF Ext2Base
  <1>2. job.pc = "dir" /\ ops' = ops /\ mem' = mem /\ node' = node /\ [Next]_vars
    BY DEF link, Next
  <1>3. job # None
    BY <1>2, NoneFacts
  <1>4. CASE Len(disk.dir) >= DirRoom
    <2>1. job' = Wild(job) /\ disk' = disk
      BY <1>4 DEF link
    <2>2. Base(disk', node', job')
      BY <1>1, <1>2, <1>3, <2>1, WildBase
    <2> QED
      BY <1>1, <1>2, <2>1, <2>2, CountsAlone
  <1>5. CASE ~ (Len(disk.dir) >= DirRoom)
    <2>1. /\ disk' = disk \/ disk' = [disk EXCEPT !.dir = Append(@, job.f)]
          /\ job' = None
      BY <1>5 DEF link
    <2>2. /\ disk \in DiskType /\ disk.dir \in Seq(Inodes) /\ Stored(disk, node) /\ Listed(disk)
          /\ Fresh(job.f, disk)
      BY <1>1, <1>2, <1>3, BaseFacts, StoredFacts DEF Base, InPlace, Where, Whose
    <2>3. Base(disk, node, None)
      BY <1>1, <2>2, BaseIdle DEF Stored
    <2>4. CASE disk' = disk
      BY <1>1, <1>2, <2>1, <2>3, <2>4, CountsAlone
    <2>5. CASE disk' # disk
      <3>1. PICK S : S = Append(disk.dir, job.f)
        OBVIOUS
      <3>2. PICK d \in Seq(Inodes) : d = disk.dir
        BY <2>2
      <3>3. PICK f \in Inodes : f = job.f /\ f - 1 \in disk.bits["inode"]
                                /\ \A e \in DOMAIN d : d[e] # f
        BY <2>2, <3>2 DEF Fresh
      <3>4. /\ S \in Seq(Inodes) /\ DOMAIN S = 1..(Len(d) + 1) /\ DOMAIN d = 1..Len(d) /\ Len(d) \in Nat
            /\ S[Len(d) + 1] = f /\ \A e \in 1..Len(d) : S[e] = d[e]
        BY <3>1, <3>2, <3>3
      <3>5. disk' = [disk EXCEPT !.dir = S]
        BY <2>1, <2>5, <3>1
      <3>6. /\ disk' \in DiskType /\ disk'.dir = S /\ disk'.bits = disk.bits /\ disk'.bgdt = disk.bgdt
            /\ disk'.sb = disk.sb /\ disk'.ino = disk.ino
        BY <2>2, <3>4, <3>5 DEF DiskType
      <3>7. \A x \in DOMAIN S : x = Len(d) + 1 \/ (x \in DOMAIN d /\ S[x] = d[x])
        BY <3>4
      <3>8. /\ \A e \in DOMAIN d : d[e] - 1 \in disk.bits["inode"]
            /\ \A x, y \in DOMAIN d : x # y => d[x] # d[y]
        BY <2>2, <3>2 DEF Listed
      <3>9. \A e \in DOMAIN S : S[e] - 1 \in disk.bits["inode"]
        BY <3>3, <3>4, <3>7, <3>8
      <3>10. \A x, y \in DOMAIN S : x # y => S[x] # S[y]
        BY <3>3, <3>4, <3>7, <3>8
      <3>11. Listed(disk')
        BY <3>6, <3>9, <3>10 DEF Listed
      <3>12. Base(disk', node', job')
        BY <1>2, <2>1, <2>3, <3>6, <3>11 DEF Base, Typed
      <3> QED
        BY <1>1, <1>2, <3>6, <3>12, CountsAlone
    <2> QED
      BY <2>4, <2>5
  <1> QED
    BY <1>4, <1>5

LEMMA PowerBase == Ext2Base /\ power_loss => Ext2Base'
  <1> SUFFICES ASSUME Ext2Base, power_loss PROVE Ext2Base'
    OBVIOUS
  <1>1. Base(disk, node, job) /\ ops \in 0..MaxOps /\ Covers(disk, disk)
    BY CoversBoth DEF Ext2Base
  <1>2. /\ disk' = disk /\ mem' = [bgdt |-> disk.bgdt, sb |-> disk.sb] /\ job' = None /\ ops' = ops
        /\ node' = [f \in Inodes |-> None] /\ [Next]_vars
    BY DEF power_loss, fs_init, Next
  <1>3. PICK P : P = [f \in Inodes |-> None]
    OBVIOUS
  <1>4. P \in [Inodes -> Inode \cup {None}] /\ \A h \in Inodes : P[h] = None
    BY <1>3
  <1>5. Base(disk, P, None)
    BY <1>1, <1>4, BaseIdle
  <1>6. Base(disk', node', job')
    BY <1>2, <1>3, <1>5
  <1>7. disk \in DiskType
    BY <1>1, BaseFacts
  <1>8. mem' \in MemType
    BY <1>2, <1>7 DEF DiskType, MemType
  <1>9. Covers(mem', disk')
    <2>1. mem'.bgdt = disk.bgdt /\ mem'.sb = disk.sb
      BY <1>2
    <2>2. Covers(mem', disk)
      BY <1>1, <2>1, CoversCopy
    <2> QED
      BY <1>2, <2>2
  <1>10. Covers(disk', disk')
    BY <1>1, <1>2
  <1>11. fails' \in Nat /\ stray' \in BOOLEAN
    BY <1>2, HistoryNext DEF Ext2Base
  <1> QED
    BY <1>1, <1>2, <1>6, <1>8, <1>9, <1>10, <1>11, CoversNext DEF Ext2Base

\* The calls that start or end without a transfer.
Begins ==
    \/ \E f \in Inodes : vfs_open(f) \/ fd_remove(f)
    \/ \E f \in Inodes, n \in Sizes : write_file(f, n)
    \/ \E n \in Sizes : create_file(n)

\* The new call k that writes file f, or creates one.
WriteCall(f, n, k) ==
    /\ k \in Started /\ k.call = "write" /\ k.f = f /\ k.pc = "" /\ node[f] # None
    /\ k.ino.direct = node[f].direct /\ k.ino.indirect = node[f].indirect
    /\ job' = Loop(k) /\ disk' = disk /\ mem' = mem /\ node' = node /\ ops' \in 0..MaxOps
CreateCall(n, k) ==
    /\ k \in Calls /\ k.call = "create" /\ k.f = 0 /\ k.pc = "alloc" /\ k.want = "inode"
    /\ k.ino = [Blank EXCEPT !.used = TRUE, !.size = n]
    /\ job' = k /\ disk' = disk /\ mem' = mem /\ node' = node /\ ops' \in 0..MaxOps

LEMMA CallStarts ==
    ASSUME Ext2Base, NEW n \in Sizes
    PROVE  /\ \A f \in Inodes : write_file(f, n) => \E k : WriteCall(f, n, k)
           /\ create_file(n) => \E k : CreateCall(n, k)
  <1>1. Base(disk, node, job) /\ ops \in 0..MaxOps /\ fails \in Nat /\ Stored(disk, node)
    BY BaseFacts DEF Ext2Base
  <1>2. MaxOps \in Nat /\ MaxOps < 100 /\ n \in Nat
    BY Ext2Assumption
  <1>3. ASSUME NEW f \in Inodes, write_file(f, n) PROVE \E k : WriteCall(f, n, k)
    <2>1. /\ disk' = disk /\ mem' = mem /\ ops' = ops + 1 /\ node' = node /\ ops < MaxOps
          /\ node[f] # None
      BY <1>3 DEF write_file
    <2>2. ops' \in 0..MaxOps /\ ops' \in 0..99
      BY <1>1, <1>2, <2>1
    <2>3. PICK a : a = [node[f] EXCEPT !.size = n]
      OBVIOUS
    <2>4. a \in Inode /\ a.direct = node[f].direct /\ a.indirect = node[f].indirect
      <3>1. node[f] \in Inode
        BY <1>1, <2>1, StoredFacts
      <3> QED
        BY <1>2, <2>3, <3>1 DEF Inode
    <2>5. PICK k : k = [pc |-> "", call |-> "write", f |-> f, v |-> ops', n |-> n, i |-> 0,
                        ino |-> a, want |-> "", got |-> 0, fails |-> fails]
      OBVIOUS
    <2>6. job' = Loop(k)
      BY <1>3, <2>3, <2>5 DEF write_file
    <2>7. k \in Started /\ k.call = "write" /\ k.f = f /\ k.pc = "" /\ k.ino = a
      BY <1>1, <1>2, <2>2, <2>4, <2>5 DEF Started
    <2>8. WriteCall(f, n, k)
      BY <2>1, <2>2, <2>4, <2>6, <2>7 DEF WriteCall
    <2> QED
      BY <2>8
  <1>4. ASSUME create_file(n) PROVE \E k : CreateCall(n, k)
    <2>1. /\ disk' = disk /\ mem' = mem /\ ops' = ops + 1 /\ node' = node /\ ops < MaxOps
      BY <1>4 DEF create_file
    <2>2. ops' \in 0..MaxOps /\ ops' \in 0..99
      BY <1>1, <1>2, <2>1
    <2>3. PICK a : a = [Blank EXCEPT !.used = TRUE, !.size = n]
      OBVIOUS
    <2>4. a \in Inode
      BY <1>2, <2>3, BlankInode DEF Inode
    <2>5. PICK k : k = [pc |-> "alloc", call |-> "create", f |-> 0, v |-> ops', n |-> n, i |-> 0,
                        ino |-> a, want |-> "inode", got |-> 0, fails |-> fails]
      OBVIOUS
    <2>6. job' = k
      BY <1>4, <2>3, <2>5 DEF create_file
    <2>7. /\ k \in Calls /\ k.call = "create" /\ k.f = 0 /\ k.pc = "alloc" /\ k.want = "inode"
          /\ k.ino = a
      BY <1>1, <1>2, <2>2, <2>4, <2>5 DEF Calls
    <2>8. CreateCall(n, k)
      BY <2>1, <2>2, <2>3, <2>6, <2>7 DEF CreateCall
    <2> QED
      BY <2>8
  <1> QED
    BY <1>3, <1>4

LEMMA CallBase == Ext2Base /\ Begins => Ext2Base'
  <1> SUFFICES ASSUME Ext2Base, Begins PROVE Ext2Base'
    OBVIOUS
  <1>1. Base(disk, node, job) /\ ops \in 0..MaxOps /\ job = None /\ [Next]_vars
    BY DEF Ext2Base, Begins, Next, vfs_open, fd_remove, write_file, create_file
  <1>2. Stored(disk, node) /\ node \in [Inodes -> Inode \cup {None}]
    BY <1>1, BaseFacts DEF Stored
  <1>3. ASSUME NEW f \in Inodes, vfs_open(f) \/ fd_remove(f) PROVE Ext2Base'
    <2>1. /\ disk' = disk /\ mem' = mem /\ ops' = ops /\ job' = None
          /\ node' = [node EXCEPT ![f] = disk.ino[f]] \/ node' = [node EXCEPT ![f] = None]
      BY <1>1, <1>3 DEF vfs_open, fd_remove
    <2>2. PICK P : P = node'
      OBVIOUS
    <2>3. disk.ino[f] \in Inode
      BY <1>2, StoredFacts
    <2>4. /\ P \in [Inodes -> Inode \cup {None}]
          /\ \A h \in Inodes : P[h] \in {None, node[h], disk.ino[h]}
      BY <1>2, <2>1, <2>2, <2>3
    <2>5. Base(disk, P, None)
      BY <1>1, <2>4, BaseIdle
    <2> QED
      BY <1>1, <2>1, <2>2, <2>5, CountsAlone
  <1>4. ASSUME NEW f \in Inodes, NEW n \in Sizes, write_file(f, n) PROVE Ext2Base'
    <2>1. PICK k : WriteCall(f, n, k)
      BY <1>4, CallStarts
    <2>2. k.ino.indirect \in Blocks /\ Whose(k, disk) /\ k \in Started
      BY <1>1, <2>1 DEF WriteCall, Base, Whose
    <2>3. PICK l : l = Loop(k)
      OBVIOUS
    <2>4. l \in Calls /\ SameCall(k, l) /\ Where(l, disk)
      BY <2>2, <2>3, LoopWhere
    <2>5. Base(disk, node, l)
      BY <1>1, <2>2, <2>4, BaseMoves, BaseJob
    <2> QED
      BY <1>1, <2>1, <2>3, <2>5, CountsAlone DEF WriteCall
  <1>5. ASSUME NEW n \in Sizes, create_file(n) PROVE Ext2Base'
    <2>1. PICK k : CreateCall(n, k)
      BY <1>5, CallStarts
    <2>2. k.ino.indirect = 0
      BY <2>1 DEF CreateCall, Blank
    <2>3. k \in Calls /\ InPlace(k, disk)
      BY <2>1, <2>2, Sizes0 DEF CreateCall, InPlace, Whose, Where, Wants
    <2>4. Base(disk, node, k)
      BY <1>1, <2>3, BaseJob
    <2> QED
      BY <1>1, <2>1, <2>4, CountsAlone DEF CreateCall
  <1> QED
    BY <1>3, <1>4, <1>5 DEF Begins

LEMMA BaseStep == Ext2Base /\ [Next]_vars => Ext2Base'
  <1> SUFFICES ASSUME Ext2Base, [Next]_vars PROVE Ext2Base'
    OBVIOUS
  <1>1. CASE UNCHANGED vars
    BY <1>1 DEF vars, Ext2Base, CountsCover, ClearBits
  <1>2. CASE write_block /\ job.got \in Meta
    <2>1. /\ job.pc = "data" /\ job' = Wild(job) /\ disk' = disk /\ node' = node /\ mem' = mem
          /\ ops' = ops
      BY <1>2 DEF write_block
    <2>2. Base(disk, node, job) /\ job # None /\ ops \in 0..MaxOps
      BY <2>1, NoneFacts DEF Ext2Base
    <2>3. Base(disk', node', job')
      BY <2>1, <2>2, WildBase
    <2> QED
      BY <2>1, <2>2, <2>3, CountsAlone
  <1> QED
    BY <1>1, <1>2, CallBase, AllocBase, BgdtBase, SbBase, ReadBase, IndBase, BlockBase, InodeBase,
       LinkBase, PowerBase DEF Next, Begins

-----------------------------------------------------------------------------
(* What is kept while blocks are spare *)

LEMMA AllocStep ==
    ASSUME Sound(disk, node, job), alloc, stray \in BOOLEAN, ~stray'
    PROVE  Sound(disk', node', job')
  <1>1. job.pc = "alloc" /\ node' = node
    BY AllocCases
  <1>2. job # None /\ AtStep(job, Current(disk, node, job), disk, node) /\ Empty(job, disk.blk)
    BY <1>1, NoneFacts DEF Sound, AtStep
  <1>3. CASE Nothing
    <2>1. Usable(job, 0, disk, node) /\ 0 \in Nat /\ job.pc # "dir"
      BY <1>1 DEF Usable
    <2>2. Sound(disk, node, Assigned(job, 0))
      BY <1>2, <2>1, AssignSound
    <2> QED
      BY <1>1, <1>3, <2>2 DEF Nothing
  <1>4. ASSUME NEW g \in Groups, NEW b \in ClearBits(disk, Wanted, g), Takes(g, b)
        PROVE  Sound(disk', node', job')
    <2>1. b \in Bits(Wanted) /\ b \notin disk.bits[Wanted]
      BY DEF ClearBits
    <2>2. /\ disk' = Marked(disk, Wanted, b)
          /\ job' = [job EXCEPT !.pc = "bgdt", !.got = Numbered(Wanted, b)]
          /\ Wanted = "block" => Numbered(Wanted, b) \in Spare
      BY <1>4 DEF Takes
    <2>3. CASE job.want = "inode"
      <3>1. Wanted = "inode" /\ Numbered(Wanted, b) = b + 1
        BY <2>3 DEF Wanted, Numbered
      <3>2. Sound(Marked(disk, "inode", b), node, [job EXCEPT !.pc = "bgdt", !.got = b + 1])
        BY <1>1, <1>2, <2>1, <2>3, <3>1, InodeTaken
      <3> QED
        BY <1>1, <2>2, <3>1, <3>2
    <2>4. CASE job.want # "inode"
      <3>1. Wanted = "block" /\ Numbered(Wanted, b) = b
        BY <2>4 DEF Wanted, Numbered
      <3>2. b \in Bits("block") /\ b \notin disk.bits["block"] /\ b \in Spare
        BY <2>1, <2>2, <3>1
      <3>3. Sound(Marked(disk, "block", b), node, [job EXCEPT !.pc = "bgdt", !.got = b])
        BY <1>1, <1>2, <2>4, <3>2, BlockTaken
      <3> QED
        BY <1>1, <2>2, <3>1, <3>3
    <2> QED
      BY <2>3, <2>4
  <1>5. CASE Lost
    BY <1>1, <1>2, <1>5, WildSound DEF Lost
  <1> QED
    BY <1>3, <1>4, <1>5, AllocCases

LEMMA BgdtStep ==
    ASSUME Sound(disk, node, job), mem \in MemType, write_bgdt_to_disk
    PROVE  Sound(disk', node', job')
  <1>1. /\ job.pc = "bgdt" /\ node' = node
        /\ job' = [job EXCEPT !.pc = "sb"]
        /\ disk' = [disk EXCEPT !.bgdt = mem.bgdt] \/ disk' = disk
    BY DEF write_bgdt_to_disk
  <1>2. /\ job # None /\ Ready(disk, node, job) /\ job \in Started /\ disk \in DiskType
        /\ AtStep(job, Current(disk, node, job), disk, node)
    BY <1>1, NoneFacts, SoundReady DEF Sound, Stored
  <1>3. PICK l : l = [job EXCEPT !.pc = "sb"]
    OBVIOUS
  <1>4. l \in Calls /\ SameCall(job, l) /\ l.pc = "sb" /\ l.want = job.want /\ l.got = job.got
    BY <1>2, <1>3 DEF Started, Calls, SameCall
  <1>5. Empty(job, disk.blk)
    BY <1>1, <1>2 DEF AtStep
  <1>6. Empty(l, disk.blk)
    BY <1>4, <1>5 DEF Empty, SameCall
  <1>7. AtStep(l, Current(disk, node, job), disk, node)
    BY <1>1, <1>2, <1>4, <1>6 DEF AtStep
  <1>8. Sound(disk, node, l)
    BY <1>2, <1>4, <1>7, StepSound
  <1>9. CASE disk' = disk
    BY <1>1, <1>3, <1>8, <1>9
  <1>10. CASE disk' = [disk EXCEPT !.bgdt = mem.bgdt]
    <2>1. mem.bgdt \in [Kinds -> [Groups -> Nat]]
      BY DEF MemType
    <2>2. /\ disk' \in DiskType /\ disk'.bits = disk.bits
          /\ disk'.ino = disk.ino /\ disk'.blk = disk.blk /\ disk'.dir = disk.dir
      BY <1>2, <1>10, <2>1 DEF DiskType
    <2> QED
      BY <1>1, <1>3, <1>8, <2>2, SoundWithoutCounts
  <1> QED
    BY <1>1, <1>9, <1>10

LEMMA SbStep ==
    ASSUME Sound(disk, node, job), mem \in MemType, write_sb_base_to_disk
    PROVE  Sound(disk', node', job')
  <1>1. /\ job.pc = "sb" /\ node' = node
        /\ job' = Assigned(job, job.got)
        /\ disk' = [disk EXCEPT !.sb = mem.sb] \/ disk' = disk
    BY DEF write_sb_base_to_disk
  <1>2. /\ job # None /\ job \in Started /\ disk \in DiskType
        /\ AtStep(job, Current(disk, node, job), disk, node)
    BY <1>1, NoneFacts, SoundReady DEF Sound, Stored
  <1>3. Empty(job, disk.blk) /\ Usable(job, job.got, disk, node) /\ job.got \in Nat
    BY <1>1, <1>2, CallTypes DEF AtStep, Usable
  <1>4. Sound(disk, node, Assigned(job, job.got))
    BY <1>1, <1>2, <1>3, AssignSound
  <1>5. CASE disk' = disk
    BY <1>1, <1>4, <1>5
  <1>6. CASE disk' = [disk EXCEPT !.sb = mem.sb]
    <2>1. mem.sb \in [Kinds -> Nat]
      BY DEF MemType
    <2>2. /\ disk' \in DiskType /\ disk'.bits = disk.bits /\ disk'.ino = disk.ino
          /\ disk'.blk = disk.blk /\ disk'.dir = disk.dir
      BY <1>2, <1>6, <2>1 DEF DiskType
    <2> QED
      BY <1>1, <1>4, <2>2, SoundWithoutCounts
  <1> QED
    BY <1>1, <1>5, <1>6

LEMMA ReadStep ==
    ASSUME Sound(disk, node, job), read_indirect
    PROVE  Sound(disk', node', job')
  <1>1. /\ job.pc = "read" /\ disk' = disk /\ node' = node
        /\ job' = InIndirect(job, disk) \/ job' = Wild(job)
    BY DEF read_indirect
  <1>2. /\ job # None /\ Ready(disk, node, job)
        /\ NDirect <= job.i /\ job.i < NDirect + PerIndirect
    BY <1>1, NoneFacts, SoundReady DEF Sound, AtStep
  <1>3. Sound(disk, node, InIndirect(job, disk)) /\ Sound(disk, node, Wild(job))
    BY <1>2, InIndirectSound, WildSound
  <1> QED
    BY <1>1, <1>3

LEMMA IndStep ==
    ASSUME Sound(disk, node, job), write_indirect
    PROVE  Sound(disk', node', job')
  <1>1. /\ job.pc = "ind" /\ node' = node
        /\ job' = ToBlock(job, job.got)
        /\ \/ disk' = disk
           \/ disk' = [disk EXCEPT !.blk[job.ino.indirect][job.i - NDirect + 1] = job.got]
    BY DEF write_indirect
  <1>2. job # None
    BY <1>1, NoneFacts
  <1>3. PICK E : E = disk'
    OBVIOUS
  <1>4. WordSent(disk, E, job)
    BY <1>1, <1>3 DEF WordSent
  <1>5. Sound(E, node, ToBlock(job, job.got))
    BY <1>1, <1>2, <1>4, WordSound
  <1> QED
    BY <1>1, <1>3, <1>5

LEMMA BlockStep ==
    ASSUME Sound(disk, node, job), write_block, job.got \notin Meta
    PROVE  Sound(disk', node', job')
  <1>1. job.pc = "data" /\ node' = node
    BY DEF write_block
  <1>2. job # None /\ Ready(disk, node, job)
    BY <1>1, NoneFacts, SoundReady
  <1>3. PICK n : \/ /\ disk' = disk /\ job' = [job EXCEPT !.pc = "inode"]
                 \/ /\ disk' = [disk EXCEPT !.blk[job.got] = ata_write(@, Filled(job, @), n)]
                    /\ \/ job' = [job EXCEPT !.pc = "inode"]
                       \/ job' = Loop([job EXCEPT !.i = @ + 1])
    BY DEF write_block
  <1>4. CASE disk' = disk /\ job' = [job EXCEPT !.pc = "inode"]
    BY <1>1, <1>2, <1>4, LoopEnds
  <1>5. CASE /\ disk' = [disk EXCEPT !.blk[job.got] = ata_write(@, Filled(job, @), n)]
             /\ \/ job' = [job EXCEPT !.pc = "inode"]
                \/ job' = Loop([job EXCEPT !.i = @ + 1])
    <2>1. PICK E : E = disk'
      OBVIOUS
    <2>2. DataSent(disk, E, job, n)
      BY <1>5, <2>1 DEF DataSent
    <2>3. Ready(E, node, job)
      BY <1>1, <1>2, <2>2, DataReady
    <2>4. /\ Sound(E, node, [job EXCEPT !.pc = "inode"])
          /\ Sound(E, node, Loop([job EXCEPT !.i = @ + 1]))
      BY <1>1, <2>3, LoopEnds, NextBlock
    <2> QED
      BY <1>1, <1>5, <2>1, <2>4
  <1> QED
    BY <1>3, <1>4, <1>5

LEMMA InodeStep ==
    ASSUME Sound(disk, node, job), write_inode
    PROVE  Sound(disk', node', job')
  <1>1. job.pc = "inode"
    BY DEF write_inode
  <1>2. job # None /\ job \in Started /\ Stored(disk, node) /\ disk \in DiskType
    BY <1>1, NoneFacts, SoundReady DEF Stored
  <1>3. CASE job.f = 0
    <2>1. job' = Wild(job) /\ disk' = disk /\ node' = node
      BY <1>3 DEF write_inode
    <2> QED
      BY <1>2, <2>1, WildSound
  <1>4. CASE job.f # 0
    <2>1. job.f \in Inodes /\ job.ino \in Inode
      BY <1>2, <1>4, CallTypes
    <2>2. /\ disk' = disk \/ disk' = [disk EXCEPT !.ino[job.f] = job.ino]
          /\ node' = IF job.call = "write" THEN [node EXCEPT ![job.f] = job.ino] ELSE node
          /\ job' = IF job.call = "write" THEN None ELSE [job EXCEPT !.pc = "dir"]
      BY <1>4 DEF write_inode
    <2>3. PICK E : E = disk'
      OBVIOUS
    <2>4. InodeSent(disk, E, job)
      <3>1. CASE E = disk
        BY <1>2, <3>1 DEF InodeSent
      <3>2. CASE E = [disk EXCEPT !.ino[job.f] = job.ino]
        BY <1>2, <2>1, <3>2, InodeFacts DEF InodeSent
      <3> QED
        BY <2>2, <2>3, <3>1, <3>2
    <2>5. CASE job.call = "write"
      <3>1. Sound(E, [node EXCEPT ![job.f] = job.ino], None)
        BY <1>2, <2>4, <2>5, WriteEnds
      <3> QED
        BY <2>2, <2>3, <2>5, <3>1
    <2>6. CASE job.call # "write"
      <3>1. Sound(E, node, [job EXCEPT !.pc = "dir"])
        BY <1>2, <1>4, <2>4, <2>6, CreateWritten
      <3> QED
        BY <2>2, <2>3, <2>6, <3>1
    <2> QED
      BY <2>5, <2>6
  <1> QED
    BY <1>3, <1>4

LEMMA LinkStep ==
    ASSUME Sound(disk, node, job), link
    PROVE  Sound(disk', node', job')
  <1>1. job.pc = "dir" /\ node' = node
    BY DEF link
  <1>2. job # None
    BY <1>1, NoneFacts
  <1>3. CASE Len(disk.dir) >= DirRoom
    <2>1. job' = Wild(job) /\ disk' = disk
      BY <1>3 DEF link
    <2> QED
      BY <1>1, <1>2, <2>1, WildSound
  <1>4. CASE ~ (Len(disk.dir) >= DirRoom)
    <2>1. /\ disk' = disk \/ disk' = [disk EXCEPT !.dir = Append(@, job.f)]
          /\ job' = None
      BY <1>4 DEF link
    <2>2. PICK E : E = disk'
      OBVIOUS
    <2>3. E = disk \/ E = [disk EXCEPT !.dir = Append(@, job.f)]
      BY <2>1, <2>2
    <2>4. Sound(E, node, None)
      BY <1>1, <1>2, <2>3, LinkSound
    <2> QED
      BY <1>1, <2>1, <2>2, <2>4
  <1> QED
    BY <1>3, <1>4

LEMMA PowerStep ==
    ASSUME Sound(disk, node, job), power_loss
    PROVE  Sound(disk', node', job')
  <1>1. disk' = disk /\ job' = None /\ node' = [f \in Inodes |-> None]
    BY DEF power_loss
  <1>2. PICK P : P = [f \in Inodes |-> None]
    OBVIOUS
  <1>3. P \in [Inodes -> Inode \cup {None}] /\ \A h \in Inodes : P[h] \in {None, node[h]}
    BY <1>2
  <1>4. Sound(disk, P, None)
    BY <1>3, CallGone
  <1> QED
    BY <1>1, <1>2, <1>4

LEMMA CallStep == Ext2Inv /\ Begins => Sound(disk', node', job')
  <1> SUFFICES ASSUME Ext2Inv, Begins PROVE Sound(disk', node', job')
    OBVIOUS
  <1>1. Sound(disk, node, job) /\ job = None /\ Ext2Base
    BY DEF Ext2Inv, Begins, vfs_open, fd_remove, write_file, create_file
  <1>2. Sound(disk, node, None) /\ Stored(disk, node) /\ InodesKept(disk, node)
        /\ node \in [Inodes -> Inode \cup {None}]
    BY <1>1, SoundReady DEF Stored
  <1>3. ASSUME NEW f \in Inodes, vfs_open(f) PROVE Sound(disk', node', job')
    <2>1. /\ disk' = disk /\ job' = None
          /\ node' = [node EXCEPT ![f] = disk.ino[f]] /\ node[f] = None
          /\ \E e \in DOMAIN disk.dir : disk.dir[e] = f
      BY <1>1, <1>3 DEF vfs_open
    <2>2. f - 1 \in disk.bits["inode"]
      BY <1>2, <2>1 DEF InodesKept
    <2> QED
      BY <1>2, <2>1, <2>2, OpenSound
  <1>4. ASSUME NEW f \in Inodes, fd_remove(f) PROVE Sound(disk', node', job')
    <2>1. disk' = disk /\ job' = None /\ node' = [node EXCEPT ![f] = None]
      BY <1>1, <1>4 DEF fd_remove
    <2>2. PICK P : P = [node EXCEPT ![f] = None]
      OBVIOUS
    <2>3. P \in [Inodes -> Inode \cup {None}] /\ \A h \in Inodes : P[h] \in {None, node[h]}
      BY <1>2, <2>2
    <2>4. Sound(disk, P, None)
      BY <1>2, <2>3, CallGone
    <2> QED
      BY <2>1, <2>2, <2>4
  <1>5. ASSUME NEW f \in Inodes, NEW n \in Sizes, write_file(f, n) PROVE Sound(disk', node', job')
    <2>1. PICK k : WriteCall(f, n, k)
      BY <1>1, <1>5, CallStarts
    <2>2. Sound(disk, node, Loop(k))
      BY <1>2, <2>1, WriteStarts DEF WriteCall
    <2> QED
      BY <2>1, <2>2 DEF WriteCall
  <1>6. ASSUME NEW n \in Sizes, create_file(n) PROVE Sound(disk', node', job')
    <2>1. PICK k : CreateCall(n, k)
      BY <1>1, <1>6, CallStarts
    <2>2. Sound(disk, node, k)
      BY <1>2, <2>1, CreateStarts DEF CreateCall
    <2> QED
      BY <2>1, <2>2 DEF CreateCall
  <1> QED
    BY <1>3, <1>4, <1>5, <1>6 DEF Begins

\* As long as blocks are spare, soundness is kept.
LEMMA SoundStep == Ext2Inv /\ [Next]_vars /\ ~stray' => Ext2Inv'
  <1> SUFFICES ASSUME Ext2Inv, [Next]_vars, ~stray' PROVE Ext2Inv'
    OBVIOUS
  <1>1. Sound(disk, node, job) /\ Ext2Base /\ mem \in MemType /\ stray \in BOOLEAN
    BY DEF Ext2Inv, Ext2Base
  <1>2. Ext2Base'
    BY <1>1, BaseStep
  <1>3. CASE UNCHANGED vars
    BY <1>1, <1>2, <1>3 DEF vars, Ext2Inv
  <1>4. CASE write_block /\ job.got \in Meta
    <2>1. job.pc = "data" /\ job' = Wild(job) /\ disk' = disk /\ node' = node
      BY <1>4 DEF write_block
    <2>2. Sound(disk', node', job')
      BY <1>1, <2>1, NoneFacts, WildSound
    <2> QED
      BY <1>2, <2>2 DEF Ext2Inv
  <1>5. CASE Begins
    BY <1>2, <1>5, CallStep DEF Ext2Inv
  <1>6. CASE alloc
    BY <1>1, <1>2, <1>6, AllocStep DEF Ext2Inv
  <1>7. CASE write_bgdt_to_disk
    BY <1>1, <1>2, <1>7, BgdtStep DEF Ext2Inv
  <1>8. CASE write_sb_base_to_disk
    BY <1>1, <1>2, <1>8, SbStep DEF Ext2Inv
  <1>9. CASE read_indirect
    BY <1>1, <1>2, <1>9, ReadStep DEF Ext2Inv
  <1>10. CASE write_indirect
    BY <1>1, <1>2, <1>10, IndStep DEF Ext2Inv
  <1>11. CASE write_block /\ job.got \notin Meta
    BY <1>1, <1>2, <1>11, BlockStep DEF Ext2Inv
  <1>12. CASE write_inode
    BY <1>1, <1>2, <1>12, InodeStep DEF Ext2Inv
  <1>13. CASE link
    BY <1>1, <1>2, <1>13, LinkStep DEF Ext2Inv
  <1>14. CASE power_loss
    BY <1>1, <1>2, <1>14, PowerStep DEF Ext2Inv
  <1> QED
    BY <1>3, <1>4, <1>5, <1>6, <1>7, <1>8, <1>9, <1>10, <1>11, <1>12, <1>13, <1>14 DEF Next, Begins

LEMMA Ext2Step == Ext2Kept /\ [Next]_vars => Ext2Kept'
  <1> SUFFICES ASSUME Ext2Kept, [Next]_vars PROVE Ext2Kept'
    OBVIOUS
  <1>1. Ext2Base'
    BY BaseStep DEF Ext2Kept
  <1>2. ~stray' => ~stray
    BY HistoryNext DEF Ext2Kept, Ext2Base
  <1>3. ~stray' => Ext2Inv'
    BY <1>2, SoundStep DEF Ext2Kept
  <1> QED
    BY <1>1, <1>3 DEF Ext2Kept

-----------------------------------------------------------------------------
(* The new disk *)

LEMMA NewDiskFacts ==
           /\ NewDisk \in DiskType
           /\ FirstData = 0 => NewDisk.bits["block"] = Taken
           /\ NewDisk.bits["inode"] = {f - 1 : f \in DOMAIN Made}
           /\ Covers(NewDisk, NewDisk)
           /\ \A f \in Inodes : NewDisk.ino[f].indirect = 0
           /\ \A f \in Inodes : f \notin DOMAIN Made => NewDisk.ino[f] = Blank
           /\ \A f \in Inodes, i \in 0..(NDirect - 1) : f \in DOMAIN Made =>
                NewDisk.ino[f].direct[i] = IF i = 0 THEN Made[f] ELSE 0
           /\ \A b \in Meta \cup Spare : Zero(NewDisk.blk, b)
           /\ \A f \in DOMAIN Made : OwnBy(NewDisk.blk, Made[f], f)
           /\ NewDisk.dir = [f \in DOMAIN Made |-> f]
           /\ DOMAIN Made \subseteq Inodes /\ \A f \in DOMAIN Made : Made[f] \in Blocks \ Meta
           /\ \A f, g \in DOMAIN Made : f # g => Made[f] # Made[g]
           /\ Meta \subseteq Blocks /\ 0 \in Meta
           /\ \A k \in Kinds : NewDisk.bits[k] \subseteq Bits(k)
  <1>1. /\ Made \in Seq(Blocks \ Meta) /\ Len(Made) \in Inodes
        /\ \A f, g \in DOMAIN Made : f # g => Made[f] # Made[g]
        /\ Meta \subseteq Blocks /\ 0 \in Meta
    BY Ext2Assumption
  <1>2. DOMAIN Made = 1..Len(Made) /\ Len(Made) \in Nat /\ \A f \in DOMAIN Made : Made[f] \in Blocks \ Meta
    BY <1>1
  <1>3. DOMAIN Made \subseteq Inodes
    BY <1>1, <1>2, Sizes0 DEF Inodes
  <1>4. PICK top \in Nat : top = NGroups * PerGroup["block"]
    <2>1. NGroups \in Nat /\ PerGroup["block"] \in Nat
      BY Ext2Assumption DEF Kinds
    <2> QED
      BY <2>1
  <1>41. FirstData \in {0, 1} /\ Bits("block") = 0..(top - 1) /\ Blocks = 0..(top - 1 + FirstData) /\ Blocks \subseteq Nat
    BY <1>4, Ext2Assumption DEF Bits, Blocks
  <1>42. Taken \subseteq Blocks
    BY TakenFacts
  <1>5. PICK U : U = [k \in Kinds |->
                   IF k = "block" THEN {b - FirstData : b \in Taken \ 0..(FirstData - 1)}
                   ELSE {f - 1 : f \in DOMAIN Made}]
    OBVIOUS
  <1>6. /\ U["block"] = {b - FirstData : b \in Taken \ 0..(FirstData - 1)}
        /\ U["inode"] = {f - 1 : f \in DOMAIN Made}
    BY <1>5 DEF Kinds
  <1>61. ASSUME FirstData = 0 PROVE U["block"] = Taken
    <2>1. \A b \in Taken : b - FirstData = b
      BY <1>41, <1>42, <1>61
    <2>2. 0..(FirstData - 1) = {}
      BY <1>61
    <2> QED
      BY <1>6, <2>1, <2>2
  <1>7. U["block"] \subseteq Bits("block") /\ U["inode"] \subseteq Bits("inode")
        /\ U["block"] \subseteq Nat /\ U["inode"] \subseteq Nat
    <2>1. U["block"] \subseteq Bits("block")
      <3>1. ASSUME NEW b \in Taken, b \notin 0..(FirstData - 1) PROVE b - FirstData \in 0..(top - 1)
        BY <1>4, <1>41, <1>42, <3>1
      <3> QED
        BY <1>41, <1>6, <3>1
    <2>5. Bits("block") \subseteq Nat
      BY <1>41
    <2>2. PICK m \in Nat \ {0} : m = NGroups * PerGroup["inode"]
      BY Sizes0
    <2>3. \A f \in 1..m : f - 1 \in 0..(m - 1) /\ f - 1 \in Nat
      OBVIOUS
    <2>4. \A f \in DOMAIN Made : f - 1 \in Bits("inode") /\ f - 1 \in Nat
      BY <1>3, <2>2, <2>3 DEF Inodes, Bits
    <2> QED
      BY <1>6, <2>1, <2>4, <2>5
  <1>8. U \in [Kinds -> SUBSET Nat]
    <2>1. U = [k \in Kinds |-> U[k]] /\ \A k \in Kinds : U[k] \in SUBSET Nat
      BY <1>5, <1>7 DEF Kinds
    <2> QED
      BY <2>1
  <1>9. PICK F : F = [k \in Kinds |-> [g \in Groups |->
                   Cardinality({b \in Bits(k) \ U[k] : b \div PerGroup[k] = g})]]
    OBVIOUS
  <1>10. PICK T : T = [k \in Kinds |-> Cardinality(Bits(k) \ U[k])]
    OBVIOUS
  <1>11. PICK I : I = [f \in Inodes |->
                    IF f \in DOMAIN Made
                    THEN [Blank EXCEPT !.used = TRUE, !.size = 2, !.direct[0] = Made[f]] ELSE Blank]
    OBVIOUS
  <1>12. PICK B : B = [b \in Blocks |->
                    IF \E f \in DOMAIN Made : Made[f] = b
                    THEN Data(CHOOSE f \in DOMAIN Made : Made[f] = b, 0, 2)
                    ELSE IF b \in Meta THEN <<0, 0>> ELSE <<Leftover, Leftover>>]
    OBVIOUS
  <1>13. PICK R : R = [f \in DOMAIN Made |-> f]
    OBVIOUS
  <1>14. NewDisk = [bits |-> U, bgdt |-> F, sb |-> T, ino |-> I, blk |-> B, dir |-> R]
    BY <1>5, <1>9, <1>10, <1>11, <1>12, <1>13 DEF NewDisk
  <1>15. /\ NewDisk.bits = U /\ NewDisk.bgdt = F /\ NewDisk.sb = T
         /\ NewDisk.ino = I /\ NewDisk.blk = B /\ NewDisk.dir = R
    BY <1>14
  <1>16. \A k \in Kinds, g \in Groups :
           {b \in Bits(k) \ U[k] : b \div PerGroup[k] = g} = ClearBits(NewDisk, k, g)
    BY <1>15 DEF ClearBits
  <1>17. /\ \A k \in Kinds, g \in Groups : F[k][g] = Cardinality(ClearBits(NewDisk, k, g))
         /\ \A k \in Kinds, g \in Groups : Cardinality(ClearBits(NewDisk, k, g)) \in Nat
    BY <1>9, <1>16, BitsFinite
  <1>18. F \in [Kinds -> [Groups -> Nat]]
    <2>1. \A k \in Kinds, g \in Groups : Cardinality({b \in Bits(k) \ U[k] : b \div PerGroup[k] = g}) \in Nat
      BY <1>16, <1>17
    <2> QED
      BY <1>9, <2>1
  <1>19. /\ \A k \in Kinds : T[k] = Cardinality(Bits(k) \ NewDisk.bits[k])
         /\ T \in [Kinds -> Nat]
    <2>1. \A k \in Kinds : Cardinality(Bits(k) \ NewDisk.bits[k]) \in Nat
      BY BitsFinite
    <2> QED
      BY <1>10, <1>15, <2>1
  <1>20. Covers(NewDisk, NewDisk)
    <2>1. \A k \in Kinds, g \in Groups : NewDisk.bgdt[k][g] >= Cardinality(ClearBits(NewDisk, k, g))
      BY <1>15, <1>17
    <2>2. \A k \in Kinds : NewDisk.sb[k] >= Cardinality(Bits(k) \ NewDisk.bits[k])
      BY <1>15, <1>19
    <2> QED
      BY <2>1, <2>2 DEF Covers
  <1>21. ASSUME NEW f \in Inodes, f \in DOMAIN Made
         PROVE  /\ I[f] \in Inode /\ I[f].indirect = 0
                /\ \A i \in 0..(NDirect - 1) : I[f].direct[i] = IF i = 0 THEN Made[f] ELSE 0
    <2>1. PICK m \in Nat : m = Made[f]
      BY <1>2, <1>41, <1>21
    <2>2. I[f] = [Blank EXCEPT !.used = TRUE, !.size = 2, !.direct[0] = m]
      BY <1>11, <1>21, <2>1
    <2>3. Blank.direct = [i \in 0..(NDirect - 1) |-> 0]
      BY DEF Blank
    <2>4. PICK d : d = [Blank.direct EXCEPT ![0] = m]
      OBVIOUS
    <2>5. /\ d \in [0..(NDirect - 1) -> Nat]
          /\ \A i \in 0..(NDirect - 1) : d[i] = IF i = 0 THEN m ELSE 0
      <3>1. PICK z \in [0..(NDirect - 1) -> Nat] : z = Blank.direct /\ \A i \in 0..(NDirect - 1) : z[i] = 0
        BY <2>3
      <3>2. d = [z EXCEPT ![0] = m]
        BY <2>4, <3>1
      <3> QED
        BY ONLY <2>1, <3>1, <3>2
    <2>6. I[f] = [used |-> TRUE, size |-> 2, direct |-> d, indirect |-> 0]
      BY <2>2, <2>4 DEF Blank
    <2> QED
      BY <2>1, <2>5, <2>6 DEF Inode
  <1>22. \A f \in Inodes : f \notin DOMAIN Made => I[f] = Blank
    BY <1>11
  <1>23. I \in [Inodes -> Inode]
    <2>1. \A f \in Inodes : I[f] \in Inode
      BY <1>21, <1>22, BlankInode
    <2> QED
      BY <1>11, <2>1
  <1>24. \A f \in Inodes : I[f].indirect = 0
    BY <1>21, <1>22 DEF Blank
  <1>25. ASSUME NEW f \in DOMAIN Made
         PROVE  B[Made[f]] \in [1..2 -> Nat] /\ OwnBy(B, Made[f], f)
    <2>1. Made[f] \in Blocks
      BY <1>2
    <2>2. (CHOOSE g \in DOMAIN Made : Made[g] = Made[f]) = f
      BY <1>1
    <2>3. B[Made[f]] = Data(f, 0, 2)
      BY <1>12, <2>1, <2>2
    <2>4. Word(f, 0) \in Nat /\ Word(f, 0) \div 100 = f
      <3>1. f \in {0} \cup Inodes /\ 0 \in 0..99
        BY <1>3
      <3> QED
        BY ONLY <3>1, WordFile
    <2>5. B[Made[f]] = [x \in 1..2 |-> Word(f, 0)]
      BY <2>3 DEF Data
    <2> QED
      BY <2>4, <2>5 DEF OwnBy
  <1>26. ASSUME NEW b \in Blocks, ~ \E f \in DOMAIN Made : Made[f] = b
         PROVE  B[b] \in [1..2 -> Nat] /\ (b \in Meta \cup Spare => Zero(B, b))
    <2>1. B[b] = IF b \in Meta THEN <<0, 0>> ELSE <<Leftover, Leftover>>
      BY <1>12, <1>26
    <2>2. Leftover \in Nat /\ (b \in Spare => Leftover = 0)
      BY Ext2Assumption DEF Spare
    <2>3. \A v \in Nat : <<v, v>> \in [1..2 -> Nat] /\ \A x \in 1..2 : <<v, v>>[x] = v
      OBVIOUS
    <2>4. PICK v \in Nat : B[b] = <<v, v>> /\ (b \in Meta \cup Spare => v = 0)
      BY <2>1, <2>2
    <2> QED
      BY <2>3, <2>4 DEF Zero
  <1>27. B \in [Blocks -> [1..2 -> Nat]]
    <2>1. \A b \in Blocks : B[b] \in [1..2 -> Nat]
      BY <1>25, <1>26
    <2> QED
      BY <1>12, <2>1
  <1>28. R \in Seq(Inodes)
    <2>1. R = [f \in 1..Len(Made) |-> f] /\ \A f \in 1..Len(Made) : f \in Inodes
      BY <1>2, <1>3, <1>13
    <2> QED
      BY <1>2, <2>1
  <1>29. NewDisk \in DiskType
    <2>1. [bits |-> U, bgdt |-> F, sb |-> T, ino |-> I, blk |-> B, dir |-> R] \in DiskType
      BY ONLY <1>8, <1>18, <1>19, <1>23, <1>27, <1>28 DEF DiskType
    <2> QED
      BY ONLY <1>14, <2>1
  <1>30. \A f \in Inodes, i \in 0..(NDirect - 1) : f \in DOMAIN Made =>
           NewDisk.ino[f].direct[i] = IF i = 0 THEN Made[f] ELSE 0
    BY <1>15, <1>21
  <1>31. ASSUME NEW b \in Meta \cup Spare PROVE Zero(NewDisk.blk, b)
    <2>1. b \in Blocks /\ ~ \E f \in DOMAIN Made : Made[f] = b
      BY <1>1, <1>2 DEF Spare, Taken
    <2> QED
      BY <1>15, <1>26, <2>1
  <1>32. \A f \in DOMAIN Made : OwnBy(NewDisk.blk, Made[f], f)
    BY <1>15, <1>25
  <1>33. \A f \in Inodes : f \notin DOMAIN Made => NewDisk.ino[f] = Blank
    BY <1>15, <1>22
  <1>34. \A f \in Inodes : NewDisk.ino[f].indirect = 0
    BY <1>15, <1>24
  <1>35. \A k \in Kinds : NewDisk.bits[k] \subseteq Bits(k)
    BY <1>7, <1>15 DEF Kinds
  <1> QED
    BY <1>1, <1>2, <1>3, <1>6, <1>61, <1>13, <1>15, <1>20, <1>35, <1>29, <1>30, <1>31, <1>32, <1>33, <1>34

\* Pointers of the new disk: the first one of each file that was copied to it.
LEMMA NewPointers ==
    ASSUME NEW C, NEW h \in Owners, NEW i \in Slots,
           C[-1] = Blank, C[0] = Blank, \A f \in Inodes : C[f] = NewDisk.ino[f]
    PROVE  Ptr(C, NewDisk.blk, h, i) = IF h \in DOMAIN Made /\ i = 0 THEN Made[h] ELSE 0
  <1>1. Blank.indirect = 0 /\ \A l \in 0..(NDirect - 1) : Blank.direct[l] = 0
    BY DEF Blank
  <1>2. DOMAIN Made \subseteq Inodes /\ \A f \in Inodes : f # -1 /\ f # 0
    BY NewDiskFacts, InodeOwners
  <1>3. C[h].indirect = 0
    BY <1>1, NewDiskFacts, Sizes0
  <1>4. ASSUME i < NDirect
        PROVE  C[h].direct[i] = IF h \in DOMAIN Made /\ i = 0 THEN Made[h] ELSE 0
    <2>1. i \in 0..(NDirect - 1)
      BY <1>4, Sizes0 DEF Slots
    <2>2. CASE h \in {-1, 0}
      BY <1>1, <1>2, <2>1, <2>2
    <2>3. CASE h \in Inodes
      BY <1>1, <2>1, <2>3, NewDiskFacts
    <2> QED
      BY <2>2, <2>3, Sizes0
  <1>5. ASSUME i > NDirect PROVE NewDisk.blk[0][i - NDirect] = 0
    <2>1. i - NDirect \in 1..2
      BY <1>5, Sizes0 DEF Slots
    <2>3. Zero(NewDisk.blk, 0)
      BY NewDiskFacts
    <2> QED
      BY <2>1, <2>3 DEF Zero
  <1>6. CASE i < NDirect
    BY <1>4, <1>6 DEF Ptr
  <1>7. CASE i = NDirect
    BY <1>3, <1>7, Sizes0 DEF Ptr
  <1>8. CASE i > NDirect
    BY <1>3, <1>5, <1>8, Sizes0 DEF Ptr
  <1> QED
    BY <1>6, <1>7, <1>8, Sizes0 DEF Slots

LEMMA Ext2Init == Init => Ext2Inv
  <1> SUFFICES ASSUME Init PROVE Ext2Inv
    OBVIOUS
  <1>1. PICK N : N = [f \in Inodes |-> None]
    OBVIOUS
  <1>2. N \in [Inodes -> Inode \cup {None}] /\ \A f \in Inodes : N[f] = None
    BY <1>1
  <1>3. PICK D : D = NewDisk
    OBVIOUS
  <1>4. D \in DiskType /\ Stored(D, N)
    BY <1>2, <1>3, NewDiskFacts DEF Stored
  <1>5. PICK C : C = Current(D, N, None)
    OBVIOUS
  <1>6. C[-1] = Blank /\ C[0] = Blank /\ \A f \in Inodes : C[f] = D.ino[f]
    BY <1>2, <1>4, <1>5, CurrentFacts
  <1>7. \A h \in Owners, i \in Slots :
          Ptr(C, D.blk, h, i) = IF h \in DOMAIN Made /\ i = 0 THEN Made[h] ELSE 0
    BY <1>3, <1>6, NewPointers
  <1>8. PICK M : M = Gone(D)
    OBVIOUS
  <1>9. Taken \subseteq M /\ M \subseteq Blocks /\ 0 \in M /\ \A f \in DOMAIN Made : Made[f] \in M
    BY <1>4, <1>8, StoredFacts DEF Gone, Taken
  <1>10. Tidy(C, D.blk, M)
    <2>1. C[-1].indirect = 0 /\ \A i \in 0..(NDirect - 1) : C[-1].direct[i] = 0
      BY <1>6 DEF Blank
    <2>2. \A h \in Owners, i \in Slots : Ptr(C, D.blk, h, i) # 0 => Ptr(C, D.blk, h, i) \in M
      BY <1>7, <1>9
    <2>3. ASSUME NEW h \in Owners, NEW k \in Owners, NEW i \in Slots, NEW l \in Slots,
                 <<h, i>> # <<k, l>>, Ptr(C, D.blk, h, i) # 0
          PROVE  Ptr(C, D.blk, h, i) # Ptr(C, D.blk, k, l)
      <3>1. h \in DOMAIN Made /\ i = 0 /\ Ptr(C, D.blk, h, i) = Made[h]
        BY <1>7, <2>3
      <3>2. CASE k \in DOMAIN Made /\ l = 0
        <4>1. k # h
          BY <2>3, <3>1, <3>2
        <4>2. Made[k] # Made[h]
          BY <3>1, <3>2, <4>1, NewDiskFacts
        <4> QED
          BY <1>7, <3>1, <3>2, <4>2
      <3>3. CASE ~ (k \in DOMAIN Made /\ l = 0)
        BY <1>7, <2>3, <3>3
      <3> QED
        BY <3>2, <3>3
    <2>4. ASSUME NEW h \in Inodes, NEW i \in Slots, Ptr(C, D.blk, h, i) # 0
          PROVE  OwnBy(D.blk, Ptr(C, D.blk, h, i), h)
      <3>1. h \in DOMAIN Made /\ Ptr(C, D.blk, h, i) = Made[h]
        BY <1>7, <2>4, InodeOwners
      <3> QED
        BY <1>3, <3>1, NewDiskFacts
    <2>5. \A b \in Spare \ M : Zero(D.blk, b)
      BY <1>3, NewDiskFacts
    <2> QED
      BY <1>9, <2>1, <2>2, <2>3, <2>4, <2>5 DEF Tidy
  <1>11. InodesKept(D, N)
    <2>1. D.bits["inode"] = {f - 1 : f \in DOMAIN Made} /\ D.dir = [f \in DOMAIN Made |-> f]
      BY <1>3, NewDiskFacts
    <2>2. ASSUME NEW f \in Inodes, f - 1 \notin D.bits["inode"] PROVE Older(D.ino[f], Blank)
      <3>1. f \notin DOMAIN Made
        BY <2>1, <2>2
      <3> QED
        BY <1>3, <3>1, NewDiskFacts, OlderFacts
    <2>3. DOMAIN D.dir = DOMAIN Made /\ \A e \in DOMAIN D.dir : D.dir[e] = e
      BY <2>1
    <2> QED
      BY <1>2, <2>1, <2>2, <2>3 DEF InodesKept
  <1>12. Sound(D, N, None)
    BY <1>2, <1>4, <1>5, <1>8, <1>10, <1>11 DEF Sound, Typed, Stored
  <1>13. disk = D /\ node = N /\ job = None /\ mem = [bgdt |-> D.bgdt, sb |-> D.sb]
         /\ ops = 0 /\ fails = 0 /\ stray = FALSE
    BY <1>1, <1>3 DEF Init, fs_init
  <1>14. mem \in MemType
    BY <1>4, <1>13 DEF MemType, DiskType
  <1>15. Covers(disk, disk) /\ Covers(mem, disk)
    <2>1. Covers(D, D)
      BY <1>3, NewDiskFacts
    <2>2. mem.bgdt = D.bgdt /\ mem.sb = D.sb
      BY <1>13
    <2>3. Covers(mem, D)
      BY <2>1, <2>2, CoversCopy
    <2> QED
      BY <1>13, <2>1, <2>3
  <1>16. 0 \in 0..MaxOps
    BY Ext2Assumption
  <1>17. Base(D, N, None)
    <2>1. \A f \in Inodes : D.ino[f].indirect \in Blocks /\ N[f] = None
      BY <1>2, <1>3, <1>9, NewDiskFacts
    <2>2. Listed(D) /\ Typed(D, N, None)
      BY <1>11, <1>12 DEF InodesKept, Listed, Sound
    <2> QED
      BY <2>1, <2>2 DEF Base
  <1>18. FirstData = 0 => Taken \subseteq D.bits["block"]
    BY <1>3, NewDiskFacts
  <1>19. Ext2Base
    BY <1>13, <1>14, <1>15, <1>16, <1>17, <1>18, CoversBoth DEF Ext2Base
  <1> QED
    BY <1>12, <1>13, <1>19 DEF Ext2Inv

-----------------------------------------------------------------------------
(* What the invariant says of the disk and of the copies of open files. *)

\* The inodes of the disk, and those with the copies of open files in their place.
LEMMA Views ==
    ASSUME Ext2Inv, NEW I \in {disk.ino, Newest}, NEW f \in Inodes
    PROVE  I[f] \in Inode /\ Older(I[f], Current(disk, node, job)[f])
  <1>1. Sound(disk, node, job) /\ Stored(disk, node)
    BY SoundReady DEF Ext2Inv
  <1>2. Newest[f] \in {disk.ino[f], node[f]} /\ (node[f] = None => Newest[f] = disk.ino[f])
    BY DEF Newest
  <1> QED
    BY <1>1, <1>2, StoredFacts, StoredIsOlder

\* A place that claims a block claims the one in its file's slot.
LEMMA ClaimsAreSlots ==
    ASSUME Ext2Inv, NEW I \in {disk.ino, Newest}, NEW x \in Places, Claim(I, x) # 0
    PROVE  /\ x[1] \in Inodes /\ x[2] \in Slots /\ x = <<x[1], x[2]>>
           /\ Claim(I, x) = Ptr(Current(disk, node, job), disk.blk, x[1], x[2])
  <1>1. PICK f \in Inodes : \E i \in Slots : x = <<f, i>>
    BY DEF Places, Slots
  <1>2. PICK i \in Slots : x = <<f, i>>
    BY <1>1
  <1>3. x[1] = f /\ x[2] = i
    BY <1>2
  <1>4. Claim(I, x) = Ptr(I, disk.blk, f, i)
    BY <1>3, InodeOwners DEF Claim, Ptr
  <1>5. PICK C : C = Current(disk, node, job)
    OBVIOUS
  <1>6. Spaces(C, disk.blk, Gone(disk)) /\ Tidy(C, disk.blk, Gone(disk))
    BY <1>5, SoundReady, CurrentFacts DEF Ext2Inv, Sound
  <1>7. Older(I[f], C[f])
    BY <1>5, Views
  <1>8. Ptr(I, disk.blk, f, i) \in {0, Ptr(C, disk.blk, f, i)}
    BY <1>6, <1>7, InodeOwners, OlderPtr
  <1> QED
    BY <1>2, <1>3, <1>4, <1>5, <1>8

LEMMA InvApart == Ext2Inv => NoSharedBlock
  <1> SUFFICES ASSUME Ext2Inv, NEW I \in {disk.ino, Newest}, NEW x \in Places, NEW y \in Places,
                      x # y, Claim(I, x) # 0, Claim(I, x) = Claim(I, y)
               PROVE  FALSE
    BY DEF NoSharedBlock
  <1>1. PICK C : C = Current(disk, node, job)
    OBVIOUS
  <1>2. Tidy(C, disk.blk, Gone(disk))
    BY <1>1 DEF Ext2Inv, Sound
  <1>3. /\ x[1] \in Inodes /\ x[2] \in Slots /\ x = <<x[1], x[2]>>
        /\ Claim(I, x) = Ptr(C, disk.blk, x[1], x[2])
    BY <1>1, ClaimsAreSlots
  <1>4. /\ y[1] \in Inodes /\ y[2] \in Slots /\ y = <<y[1], y[2]>>
        /\ Claim(I, y) = Ptr(C, disk.blk, y[1], y[2])
    BY <1>1, ClaimsAreSlots
  <1>5. PICK h \in Owners : h = x[1]
    BY <1>3, InodeOwners
  <1>6. PICK k \in Owners : k = y[1]
    BY <1>4, InodeOwners
  <1>7. PICK i \in Slots : i = x[2]
    BY <1>3
  <1>8. PICK l \in Slots : l = y[2]
    BY <1>4
  <1>9. x = <<h, i>> /\ y = <<k, l>> /\ <<h, i>> # <<k, l>>
    BY <1>3, <1>4, <1>5, <1>6, <1>7, <1>8
  <1>10. Ptr(C, disk.blk, h, i) # 0 /\ Ptr(C, disk.blk, h, i) = Ptr(C, disk.blk, k, l)
    BY <1>3, <1>4, <1>5, <1>6, <1>7, <1>8
  <1> QED
    BY ONLY <1>2, <1>9, <1>10, h \in Owners, k \in Owners, i \in Slots, l \in Slots DEF Tidy

LEMMA InvMarked == Ext2Kept => ClaimedIsMarked
  <1> SUFFICES ASSUME Ext2Kept PROVE ClaimedIsMarked
    OBVIOUS
  <1>1. PICK C : C = Current(disk, node, job)
    OBVIOUS
  <1>3. ASSUME ~stray, NEW x \in Places, Claim(disk.ino, x) # 0
        PROVE  \/ Claim(disk.ino, x) \in disk.bits["block"]
               \/ FirstData # 0 /\ Claim(disk.ino, x) \in Taken
    <2>1. PICK p : p = Claim(disk.ino, x)
      OBVIOUS
    <2>2. Ext2Inv /\ Tidy(C, disk.blk, Gone(disk))
      BY <1>1, <1>3 DEF Ext2Kept, Ext2Inv, Sound
    <2>3. /\ x[1] \in Inodes /\ x[2] \in Slots
          /\ p = Ptr(C, disk.blk, x[1], x[2])
      BY <1>1, <1>3, <2>1, <2>2, ClaimsAreSlots
    <2>4. p \in Gone(disk)
      BY <1>3, <2>1, <2>2, <2>3, InodeOwners DEF Tidy
    <2>5. FirstData = 0 => Taken \subseteq disk.bits["block"]
      BY DEF Ext2Kept, Ext2Base
    <2> QED
      BY <2>1, <2>4, <2>5 DEF Gone
  <1>4. /\ \A e \in DOMAIN disk.dir : disk.dir[e] - 1 \in disk.bits["inode"]
        /\ \A d, e \in DOMAIN disk.dir : d # e => disk.dir[d] # disk.dir[e]
    BY DEF Ext2Kept, Ext2Base, Base, Listed
  <1> QED
    BY <1>3, <1>4 DEF ClaimedIsMarked

\* The block that a file is read from is its own.
LEMMA BlockRead ==
    ASSUME Ext2Inv, NEW I \in {disk.ino, Newest}, NEW f \in Inodes, NEW i \in Nat,
           NEW p, p = get_block_ptr(disk, I[f], i), p # 0
    PROVE  OwnBy(disk.blk, p, f)
  <1>1. PICK C : C = Current(disk, node, job)
    OBVIOUS
  <1>2. Spaces(C, disk.blk, Gone(disk)) /\ Tidy(C, disk.blk, Gone(disk))
    BY <1>1, SoundReady, CurrentFacts DEF Ext2Inv, Sound
  <1>3. Older(I[f], C[f]) /\ I[f] \in Inode
    BY <1>1, Views
  <1>4. \A s \in Slots : s # NDirect /\ Ptr(C, disk.blk, f, s) = p => OwnBy(disk.blk, p, f)
    BY <1>2 DEF Tidy
  <1>5. CASE i < NDirect
    <2>1. i \in 0..(NDirect - 1)
      BY <1>5, Sizes0
    <2>2. p = I[f].direct[i]
      BY <1>5 DEF get_block_ptr
    <2>3. p = C[f].direct[i]
      BY <1>3, <2>1, <2>2 DEF Older
    <2>4. i \in Slots /\ i # NDirect /\ Ptr(C, disk.blk, f, i) = p
      BY <1>2, <2>1, <2>3, PtrFacts, InodeOwners
    <2> QED
      BY <1>4, <2>4
  <1>6. CASE ~ (i < NDirect)
    <2>1. ~ (i - NDirect >= PerIndirect) /\ I[f].indirect # 0
      BY <1>6 DEF get_block_ptr
    <2>2. PICK w \in 1..PerIndirect : w = i - NDirect + 1
      BY <1>6, <2>1, Sizes0
    <2>3. p = disk.blk[I[f].indirect][w]
      BY <1>6, <2>1, <2>2 DEF get_block_ptr
    <2>4. C[f].indirect = I[f].indirect
      BY <1>3, <2>1 DEF Older
    <2>5. NDirect + w \in Slots /\ NDirect + w # NDirect /\ Ptr(C, disk.blk, f, NDirect + w) = p
      BY <1>2, <2>1, <2>3, <2>4, PtrFacts, InodeOwners
    <2> QED
      BY <1>4, <2>5
  <1> QED
    BY <1>5, <1>6

\* The words of a file come from the blocks in front of its first hole.
LEMMA WordsRead ==
    ASSUME NEW D, NEW ino \in Inode, NEW x \in DOMAIN read_file_contents(D, ino)
    PROVE  /\ x \in Nat \ {0} /\ (x - 1) \div 2 \in Nat /\ ((x - 1) % 2) + 1 \in 1..2
           /\ get_block_ptr(D, ino, (x - 1) \div 2) \in Blocks \ {0}
           /\ read_file_contents(D, ino)[x] =
                D.blk[get_block_ptr(D, ino, (x - 1) \div 2)][((x - 1) % 2) + 1]
  <1>1. PICK s \in Nat : s = ino.size
    BY DEF Inode
  <1>2. PICK nb \in Nat : nb = (s + 1) \div 2
    BY <1>1
  <1>3. PICK H : H = {i \in 0..(nb - 1) : get_block_ptr(D, ino, i) \notin Blocks \ {0}}
    OBVIOUS
  <1>4. PICK t : t = IF H = {} THEN nb ELSE Least(H)
    OBVIOUS
  <1>5. t \in 0..nb /\ \A y \in H : t <= y
    <2>1. CASE H = {}
      BY <1>4, <2>1
    <2>2. CASE H # {}
      <3>1. H \in SUBSET Nat /\ H \subseteq 0..(nb - 1)
        BY <1>3
      <3>2. Least(H) \in H /\ \A y \in H : Least(H) <= y
        BY <2>2, <3>1, LeastIn
      <3> QED
        BY <1>4, <2>2, <3>1, <3>2
    <2> QED
      BY <2>1, <2>2
  <1>6. PICK m : m = IF 2 * t < s THEN 2 * t ELSE s
    OBVIOUS
  <1>7. read_file_contents(D, ino) =
          [y \in 1..m |-> D.blk[get_block_ptr(D, ino, (y - 1) \div 2)][((y - 1) % 2) + 1]]
    BY <1>1, <1>2, <1>3, <1>4, <1>6 DEF read_file_contents
  <1>8. x \in 1..m
    BY <1>7
  <1>9. m \in Nat /\ m <= 2 * t
    BY <1>1, <1>5, <1>6
  <1>10. x \in Nat \ {0} /\ x <= 2 * t
    BY <1>5, <1>8, <1>9
  <1>11. PICK i : i = (x - 1) \div 2
    OBVIOUS
  <1>12. i \in Nat /\ i < t /\ ((x - 1) % 2) + 1 \in 1..2
    BY <1>5, <1>10, <1>11
  <1>13. i \in 0..(nb - 1) /\ i \notin H
    BY <1>2, <1>5, <1>12
  <1>14. get_block_ptr(D, ino, i) \in Blocks \ {0}
    BY <1>3, <1>13
  <1> QED
    BY <1>7, <1>8, <1>10, <1>11, <1>12, <1>14

LEMMA InvOwnWords == Ext2Inv => OnlyOwnWords
  <1> SUFFICES ASSUME Ext2Inv, NEW f \in Inodes, NEW I \in {disk.ino, Newest},
                      NEW x \in DOMAIN read_file_contents(disk, I[f])
               PROVE  \/ read_file_contents(disk, I[f])[x] = 0
                      \/ read_file_contents(disk, I[f])[x] \div 100 = f
    BY DEF OnlyOwnWords
  <1>1. I[f] \in Inode
    BY Views
  <1>2. PICK p : p = get_block_ptr(disk, I[f], (x - 1) \div 2)
    OBVIOUS
  <1>3. /\ (x - 1) \div 2 \in Nat /\ ((x - 1) % 2) + 1 \in 1..2 /\ p # 0
        /\ read_file_contents(disk, I[f])[x] = disk.blk[p][((x - 1) % 2) + 1]
    BY <1>1, <1>2, WordsRead
  <1>4. OwnBy(disk.blk, p, f)
    BY <1>2, <1>3, BlockRead
  <1> QED
    BY <1>3, <1>4 DEF OwnBy

LEMMA InvTyped == Ext2Base => TypeOK
  <1> SUFFICES ASSUME Ext2Base PROVE TypeOK
    OBVIOUS
  <1>1. /\ disk \in DiskType /\ \A k \in Kinds : disk.bits[k] \subseteq Bits(k)
        /\ node \in [Inodes -> Inode \cup {None}] /\ mem \in MemType
    BY DEF Ext2Base, Base, Typed
  <1>2. /\ disk.bgdt \in [Kinds -> [Groups -> Nat]] /\ disk.sb \in [Kinds -> Nat]
        /\ disk.ino \in [Inodes -> Inode] /\ disk.blk \in [Blocks -> [1..2 -> Nat]]
    BY <1>1 DEF DiskType
  <1>3. mem.bgdt \in [Kinds -> [Groups -> Nat]] /\ mem.sb \in [Kinds -> Nat]
    BY <1>1 DEF MemType
  <1>4. \A f \in Inodes : node[f] = None \/ node[f] \in Inode
    BY <1>1
  <1> QED
    BY <1>1, <1>2, <1>3, <1>4 DEF TypeOK

-----------------------------------------------------------------------------
(* The theorems *)

\* The inductive invariant holds on every disk: through every allocation, write and
\* power loss of the driver, whichever transfers fail.
THEOREM Ext2Invariant == Spec => []Ext2Kept
  <1>1. Init => Ext2Kept
    BY Ext2Init DEF Ext2Kept, Ext2Inv
  <1>2. Ext2Kept /\ [Next]_vars => Ext2Kept'
    BY Ext2Step
  <1> QED
    BY <1>1, <1>2, PTL DEF Spec

\* Bitmaps, counts, inodes and pointers keep their types: no free count of the
\* superblock or of a group descriptor is taken below 0.
THEOREM Ext2TypeCorrect == Spec => []TypeOK
  <1>1. Ext2Kept => TypeOK
    BY InvTyped DEF Ext2Kept
  <1> QED
    BY <1>1, Ext2Invariant, PTL

\* fs_ext2_alloc_block hands no block out twice: as long as the blocks it hands out
\* were spare on the new disk, no block belongs to two files, or twice to one,
\* whatever transfers fail and wherever power goes.
THEOREM BlocksNeverShared == Spec => []BlocksApart
  <1>1. Ext2Kept => BlocksApart
    BY InvApart DEF Ext2Kept, BlocksApart
  <1> QED
    BY <1>1, Ext2Invariant, PTL

\* On a disk whose bit 0 stands for block 0 and whose free blocks hold zeros, every
\* block that fs_ext2_alloc_block hands out was spare, so that nothing is ever shared.
THEOREM NeverStray == FirstData = 0 /\ Leftover = 0 => (Spec => [](~stray /\ NoSharedBlock))
  <1> SUFFICES ASSUME FirstData = 0, Leftover = 0 PROVE Spec => [](~stray /\ NoSharedBlock)
    OBVIOUS
  <1>1. Init => ~stray
    BY DEF Init
  <1>2. Ext2Kept /\ ~stray /\ [Next]_vars => ~stray'
    <2> SUFFICES ASSUME Ext2Kept, ~stray, [Next]_vars PROVE ~stray'
      OBVIOUS
    <2>1. CASE alloc
      <3>1. Taken \subseteq disk.bits["block"] /\ Ext2Base
        BY DEF Ext2Kept, Ext2Base
      <3>2. Bits("block") = Blocks
        <4>1. PICK top \in Nat : top = NGroups * PerGroup["block"]
          <5>1. NGroups \in Nat /\ PerGroup["block"] \in Nat
            BY Ext2Assumption DEF Kinds
          <5> QED
            BY <5>1
        <4>2. top - 1 + FirstData = top - 1
          BY <4>1
        <4> QED
          BY <4>1, <4>2 DEF Bits, Blocks
      <3>3. ASSUME NEW b \in Bits("block") \ disk.bits["block"] PROVE b \in Spare
        BY <3>1, <3>2 DEF Spare
      <3>4. ASSUME NEW g \in Groups, NEW b \in ClearBits(disk, Wanted, g), Takes(g, b)
            PROVE  ~stray'
        <4>1. b \in Bits(Wanted) /\ b \notin disk.bits[Wanted]
          BY DEF ClearBits
        <4>2. Wanted = "block" => Numbered(Wanted, b) \in Spare
          BY <3>3, <4>1 DEF Numbered
        <4> QED
          BY <3>4, <4>2 DEF Takes
      <3> QED
        BY <2>1, <3>4, AllocCases DEF Nothing, Lost
    <2>2. CASE ~alloc
      BY <2>2 DEF Next, vars, vfs_open, fd_remove, write_file, create_file, write_bgdt_to_disk,
           write_sb_base_to_disk, read_indirect, write_indirect, write_block, write_inode,
           link, power_loss
    <2> QED
      BY <2>1, <2>2
  <1>3. Ext2Kept /\ ~stray => NoSharedBlock
    BY InvApart DEF Ext2Kept
  <1> QED
    BY <1>1, <1>2, <1>3, Ext2Invariant, PTL DEF Spec

\* The bitmap goes to the disk before the pointer or the directory entry does:
\* what the disk's inodes and directory name is marked, at every power loss.
THEOREM NamedIsMarked == Spec => []ClaimedIsMarked
  BY Ext2Invariant, InvMarked, PTL

\* The free counts, written after the bitmaps, never say less than these: no group
\* that has room is passed over.
THEOREM RoomIsFound == Spec => []CountsCover
  <1>1. Ext2Kept => CountsCover
    BY DEF Ext2Kept, Ext2Base
  <1> QED
    BY <1>1, Ext2Invariant, PTL

\* fs_ext2_read_file_contents shows a file's own words only, never those of another
\* file or of an indirect block, as long as only spare blocks were handed out.
THEOREM FilesShowOwnWords == Spec => []OnlyOwnWords
  <1>1. Ext2Kept => OnlyOwnWords
    BY InvOwnWords DEF Ext2Kept, OnlyOwnWords
  <1> QED
    BY <1>1, Ext2Invariant, PTL

-----------------------------------------------------------------------------
(***************************************************************************)
(* Proof that a write that met no error stays: WritesLast of Ext2, on a    *)
(* disk whose bitmaps can be read.  With a bitmap that cannot be, a file   *)
(* without an indirect block is given block 0, and the property is false.  *)
(*                                                                         *)
(* What the last write of a file left can change only through the blocks   *)
(* that the file's slots name, and Ext2Inv says that these are no other    *)
(* file's.  While a call writes, the words so far are in place as long as  *)
(* none of its transfers failed, and the block it is about to write is     *)
(* the next one of its inode.                                              *)
(***************************************************************************)

BitmapsRead == "bitmap_r" \notin Fails

\* No block is free.
Full(D) == D.bits["block"] = Bits("block")

\* Why a write of n words may end after m.
Enough(D, n, m) == m = n \/ n > 2 * (NDirect + PerIndirect) \/ Full(D)

\* The words that call j has written.
Reached(j) == IF 2 * j.i < j.n THEN 2 * j.i ELSE j.n

\* The x-th word that inode ino leads to is version v of file f's; and the first m.
WordAt(D, ino, f, v, x) ==
    LET p == get_block_ptr(D, ino, (x - 1) \div 2)
    IN  p \in Blocks \ {0} /\ D.blk[p][((x - 1) % 2) + 1] = Word(f, v)
Written(D, ino, f, v, m) == \A x \in 1..m : WordAt(D, ino, f, v, x)

LastWrites == [v: 0..99, n: Nat, clean: BOOLEAN, done: Nat]

\* The last write of file f is on disk D, for the last writes L.
KeptOf(D, L, f) ==
    /\ L[f] # None /\ L[f].clean =>
        /\ L[f].done <= D.ino[f].size
        /\ Written(D, D.ino[f], f, L[f].v, L[f].done)
        /\ Enough(D, L[f].n, L[f].done)
    /\ f - 1 \notin D.bits["inode"] => L[f] = None

Kept(D, L) ==
    /\ L \in [Inodes -> LastWrites \cup {None}]
    /\ \A f \in Inodes : KeptOf(D, L, f)

Writing(j) == j # None /\ j.pc \notin {"dir", "wild"}

\* Call j, whatever failed: its file has no last write, and block 0 becomes the
\* indirect block only when no block is free.
Prepared(D, L, j) ==
    /\ j.ino.size = j.n /\ (j.f # 0 => L[j.f] = None)
    /\ j.pc \in {"bgdt", "sb"} /\ j.want = "inode" => L[j.got] = None
    /\ j.pc = "read" /\ j.ino.indirect = 0 => Full(D)
    /\ j.pc = "alloc" /\ j.want = "word" /\ j.ino.indirect = 0 => Full(D)
    /\ j.pc \in {"bgdt", "sb"} /\ j.want = "word" => j.ino.indirect # 0
    /\ j.pc = "ind" /\ j.ino.indirect = 0 => j.got = 0
    /\ j.pc = "ind" /\ j.got = 0 => Full(D)

\* Call j when none of its transfers failed.
OnTrack(D, j) ==
    /\ Written(D, j.ino, j.f, j.v, Reached(j))
    /\ j.pc = "data" => j.got = get_block_ptr(D, j.ino, j.i) /\ 2 * j.i < j.n
    /\ j.pc \in {"alloc", "bgdt", "sb", "ind"} =>
        IF j.want = "inode" THEN j.i = 0 ELSE 2 * j.i < j.n
    /\ j.pc = "read" => 2 * j.i < j.n
    /\ j.pc = "inode" => Enough(D, j.n, Reached(j))

\* The call in progress after F failed transfers.
InCall(D, L, j, F) ==
    /\ Zero(D.blk, 0)
    /\ j # None => j.fails <= F
    /\ Writing(j) => Prepared(D, L, j) /\ (j.fails = F => OnTrack(D, j))

WriteInv == Kept(disk, last) /\ InCall(disk, last, job, fails)

-----------------------------------------------------------------------------
(* Words and blocks *)

\* Blocks other than q are the same on both disks.
OnlyBlock(D, E, q) == \A b \in Blocks : b # q => E.blk[b] = D.blk[b]

\* The slot of the i-th block of a file.
SlotOf(i) == IF i < NDirect THEN i ELSE i + 1

\* Inode ino is a copy of owner g's, in a tidy state.
CopyOf(ino, g, C, D, M) ==
    /\ Spaces(C, D.blk, M) /\ Tidy(C, D.blk, M)
    /\ g \in Owners /\ g # -1 /\ Older(ino, C[g])

\* A block that an inode leads to is in a slot of its file.
LEMMA ReadSlot ==
    ASSUME NEW C, NEW D, NEW M, NEW g, NEW ino, CopyOf(ino, g, C, D, M),
           NEW i \in Nat, NEW p, p = get_block_ptr(D, ino, i), p # 0
    PROVE  /\ SlotOf(i) \in Slots /\ SlotOf(i) # NDirect /\ Ptr(C, D.blk, g, SlotOf(i)) = p
           /\ p \in M
           /\ ~ (i < NDirect) => /\ i - NDirect < PerIndirect /\ ino.indirect # 0
                                 /\ ino.indirect = C[g].indirect
  <1> USE DEF CopyOf
  <1>1. CASE i < NDirect
    <2>1. i \in 0..(NDirect - 1)
      BY <1>1, Sizes0
    <2>2. p = ino.direct[i]
      BY <1>1 DEF get_block_ptr
    <2>3. p = C[g].direct[i]
      BY <2>1, <2>2 DEF Older
    <2>4. i \in Slots /\ i # NDirect /\ Ptr(C, D.blk, g, i) = p
      BY <2>1, <2>3, PtrFacts
    <2>5. p \in M
      BY <2>4 DEF Tidy
    <2> QED
      BY <1>1, <2>4, <2>5 DEF SlotOf
  <1>2. CASE ~ (i < NDirect)
    <2>1. ~ (i - NDirect >= PerIndirect) /\ ino.indirect # 0
      BY <1>2 DEF get_block_ptr
    <2>2. PICK w \in 1..PerIndirect : w = i - NDirect + 1
      BY <1>2, <2>1, Sizes0
    <2>3. p = D.blk[ino.indirect][w]
      BY <1>2, <2>1, <2>2 DEF get_block_ptr
    <2>4. C[g].indirect = ino.indirect
      BY <2>1 DEF Older
    <2>5. NDirect + w \in Slots /\ NDirect + w # NDirect /\ Ptr(C, D.blk, g, NDirect + w) = p
      BY <2>1, <2>3, <2>4, PtrFacts
    <2>6. p \in M
      BY <2>5 DEF Tidy
    <2>7. SlotOf(i) = NDirect + w /\ i - NDirect < PerIndirect
      BY <1>2, <2>1, <2>2, Sizes0 DEF SlotOf
    <2> QED
      BY <2>1, <2>4, <2>5, <2>6, <2>7
  <1> QED
    BY <1>1, <1>2

LEMMA WordPlace ==
    ASSUME NEW x \in Nat \ {0}
    PROVE  (x - 1) \div 2 \in Nat /\ ((x - 1) % 2) + 1 \in 1..2
           /\ x = 2 * ((x - 1) \div 2) + (((x - 1) % 2) + 1)
  BY SMT

\* A word is the same when the block that changes is not on the way to it.
LEMMA SameWord ==
    ASSUME NEW C, NEW D, NEW M, NEW g, NEW ino, CopyOf(ino, g, C, D, M),
           NEW E, NEW q, OnlyBlock(D, E, q),
           NEW v, NEW x \in Nat \ {0}, WordAt(D, ino, g, v, x),
           C[g].indirect # q, get_block_ptr(D, ino, (x - 1) \div 2) # q
    PROVE  WordAt(E, ino, g, v, x)
  <1>1. PICK i \in Nat : i = (x - 1) \div 2
    BY WordPlace
  <1>2. PICK p : p = get_block_ptr(D, ino, i)
    OBVIOUS
  <1>3. p \in Blocks \ {0} /\ p # q /\ D.blk[p][((x - 1) % 2) + 1] = Word(g, v)
    BY <1>1, <1>2 DEF WordAt
  <1>4. ~ (i < NDirect) => ino.indirect = C[g].indirect /\ ino.indirect # 0
    BY <1>2, <1>3, ReadSlot
  <1>5. C[g].indirect \in Blocks
    BY PtrFacts DEF CopyOf, Spaces
  <1>6. get_block_ptr(E, ino, i) = p
    <2>1. CASE i < NDirect
      BY <1>2, <2>1 DEF get_block_ptr
    <2>2. CASE ~ (i < NDirect)
      <3>1. E.blk[ino.indirect] = D.blk[ino.indirect]
        BY <1>4, <1>5, <2>2 DEF OnlyBlock
      <3> QED
        BY <1>2, <2>2, <3>1 DEF get_block_ptr
    <2> QED
      BY <2>1, <2>2
  <1>7. E.blk[p] = D.blk[p]
    BY <1>3 DEF OnlyBlock
  <1> QED
    BY <1>1, <1>3, <1>6, <1>7 DEF WordAt

\* Last writes stay when the block that changes is in no slot of their files.
LEMMA OthersKept ==
    ASSUME NEW D, NEW N, NEW j, Sound(D, N, j), NEW L, Kept(D, L),
           NEW E, E.ino = D.ino, E.bits = D.bits, NEW q, OnlyBlock(D, E, q),
           \A g \in Inodes : L[g] # None =>
               \A s \in Slots : Ptr(Current(D, N, j), D.blk, g, s) # q
    PROVE  Kept(E, L)
  <1>1. PICK C : C = Current(D, N, j)
    OBVIOUS
  <1>2. PICK M : M = Gone(D)
    OBVIOUS
  <1>3. Spaces(C, D.blk, M) /\ Tidy(C, D.blk, M)
    BY <1>1, <1>2, SoundReady, CurrentFacts DEF Sound
  <1>4. ASSUME NEW g \in Inodes, L[g] # None, L[g].clean
        PROVE  Written(E, E.ino[g], g, L[g].v, L[g].done)
    <2>1. Written(D, D.ino[g], g, L[g].v, L[g].done) /\ L[g].done \in Nat
      BY <1>4 DEF Kept, KeptOf, LastWrites
    <2>2. g \in Owners /\ CopyOf(D.ino[g], g, C, D, M)
      BY <1>1, <1>3, InodeOwners, StoredIsOlder DEF CopyOf
    <2>3. \A s \in Slots : Ptr(C, D.blk, g, s) # q
      BY <1>1, <1>4
    <2>4. C[g].indirect # q
      BY <1>3, <2>2, <2>3, PtrFacts, Sizes0
    <2>5. ASSUME NEW x \in 1..L[g].done PROVE WordAt(E, D.ino[g], g, L[g].v, x)
      <3>1. x \in Nat \ {0} /\ WordAt(D, D.ino[g], g, L[g].v, x) /\ (x - 1) \div 2 \in Nat
        BY <2>1, WordPlace DEF Written
      <3>2. PICK p : p = get_block_ptr(D, D.ino[g], (x - 1) \div 2)
        OBVIOUS
      <3>3. p # 0
        BY <3>1, <3>2 DEF WordAt
      <3>4. SlotOf((x - 1) \div 2) \in Slots /\ Ptr(C, D.blk, g, SlotOf((x - 1) \div 2)) = p
        BY <2>2, <3>1, <3>2, <3>3, ReadSlot
      <3>5. p # q
        BY <2>3, <3>4
      <3> QED
        BY <2>2, <2>4, <3>1, <3>2, <3>5, SameWord
    <2> QED
      BY <2>5 DEF Written
  <1>5. ASSUME NEW g \in Inodes PROVE KeptOf(E, L, g)
    BY <1>4 DEF Kept, KeptOf, Enough, Full
  <1> QED
    BY <1>5 DEF Kept

\* The last writes can be read back.
LEMMA KeptIsRead ==
    ASSUME NEW D, NEW N, NEW j, Sound(D, N, j), NEW L, NEW f \in Inodes, KeptOf(D, L, f),
           L \in [Inodes -> LastWrites \cup {None}], L[f] # None, L[f].clean
    PROVE  LET c == read_file_contents(D, D.ino[f])
           IN  Len(c) >= L[f].done /\ \A x \in 1..L[f].done : c[x] = Word(f, L[f].v)
  <1>1. PICK ino \in Inode : ino = D.ino[f]
    BY SoundReady, StoredFacts
  <1>2. PICK d \in Nat : d = L[f].done
    BY DEF LastWrites
  <1>3. PICK s \in Nat : s = ino.size
    BY DEF Inode
  <1>4. d <= s /\ Written(D, ino, f, L[f].v, d)
    BY <1>1, <1>2, <1>3 DEF KeptOf
  <1>5. PICK nb \in Nat : nb = (s + 1) \div 2
    BY <1>3
  <1>6. PICK H : H = {i \in 0..(nb - 1) : get_block_ptr(D, ino, i) \notin Blocks \ {0}}
    OBVIOUS
  <1>7. PICK t : t = IF H = {} THEN nb ELSE Least(H)
    OBVIOUS
  <1>8. t \in Nat /\ d <= 2 * t
    <2>1. CASE H = {}
      BY <1>4, <1>5, <1>7, <2>1
    <2>2. CASE H # {}
      <3>1. H \in SUBSET Nat /\ Least(H) \in H
        BY <1>6, <2>2, LeastIn
      <3>2. t \in H /\ t \in Nat
        BY <1>7, <2>2, <3>1
      <3>3. CASE 2 * t < d
        <4>1. PICK x \in 1..d : x = 2 * t + 1
          BY <3>2, <3>3
        <4>2. (x - 1) \div 2 = t
          BY <3>2, <4>1
        <4>3. get_block_ptr(D, ino, t) \in Blocks \ {0}
          BY <1>4, <4>2 DEF Written, WordAt
        <4> QED
          BY <1>6, <3>2, <4>3
      <3> QED
        BY <3>2, <3>3
    <2> QED
      BY <2>1, <2>2
  <1>9. PICK m \in Nat : m = IF 2 * t < s THEN 2 * t ELSE s
    BY <1>3, <1>8
  <1>10. d <= m
    BY <1>4, <1>8, <1>9
  <1>11. PICK c : c = read_file_contents(D, ino)
    OBVIOUS
  <1>12. c = [y \in 1..m |-> D.blk[get_block_ptr(D, ino, (y - 1) \div 2)][((y - 1) % 2) + 1]]
    BY <1>3, <1>5, <1>6, <1>7, <1>9, <1>11 DEF read_file_contents
  <1>13. Len(c) = m
    BY <1>12
  <1>14. ASSUME NEW x \in 1..d PROVE c[x] = Word(f, L[f].v)
    <2>1. WordAt(D, ino, f, L[f].v, x)
      BY <1>4 DEF Written
    <2>2. x \in 1..m
      BY <1>10
    <2> QED
      BY <1>12, <2>1, <2>2 DEF WordAt
  <1> QED
    BY <1>1, <1>2, <1>10, <1>11, <1>13, <1>14

LEMMA InvLast == Ext2Inv /\ WriteInv => WritesLast
  <1> SUFFICES ASSUME Ext2Inv, WriteInv, NEW f \in Inodes, last[f] # None, last[f].clean
               PROVE  LET c == read_file_contents(disk, disk.ino[f])
                      IN  /\ Len(c) >= last[f].done
                          /\ \A x \in 1..last[f].done : c[x] = Word(f, last[f].v)
                          /\ \/ last[f].done = last[f].n
                             \/ last[f].n > 2 * (NDirect + PerIndirect)
                             \/ disk.bits["block"] = Bits("block")
    BY DEF WritesLast
  <1>1. /\ Sound(disk, node, job) /\ last \in [Inodes -> LastWrites \cup {None}]
        /\ KeptOf(disk, last, f)
    BY DEF Ext2Inv, WriteInv, Kept
  <1>2. Enough(disk, last[f].n, last[f].done)
    BY <1>1 DEF KeptOf
  <1> QED
    BY <1>1, <1>2, KeptIsRead DEF Enough, Full

-----------------------------------------------------------------------------
(* The steps of a call in memory *)

\* A call whose word is taken from its indirect block: got is its next block.
LEMMA IndirectShape ==
    ASSUME NEW j \in Started, NEW D, NEW l, l = InIndirect(j, D),
           D.blk[j.ino.indirect][j.i - NDirect + 1] \in Nat
    PROVE  /\ l.pc = "data" => l.got = D.blk[j.ino.indirect][j.i - NDirect + 1] /\ l.got # 0
           /\ l.pc = "alloc" => l.want = "word"
           /\ l.pc \in {"data", "alloc"}
  <1>1. PICK w \in Nat : w = D.blk[j.ino.indirect][j.i - NDirect + 1]
    OBVIOUS
  <1>2. CASE w = 0
    <2>1. l = [j EXCEPT !.pc = "alloc", !.want = "word"]
      BY <1>1, <1>2 DEF InIndirect, ToAlloc
    <2>2. l.pc = "alloc" /\ l.want = "word"
      BY ONLY <2>1, j \in Started DEF Started
    <2> QED
      BY <2>2
  <1>3. CASE w # 0
    <2>1. l = ToBlock(j, w)
      BY <1>1, <1>3 DEF InIndirect
    <2>2. l.got = w /\ l.pc = "data"
      BY ONLY <1>3, <2>1, j \in Started, w \in Nat, ToBlockFacts
    <2> QED
      BY <1>1, <1>3, <2>2
  <1> QED
    BY <1>2, <1>3

\* What the head of the loop finds.
LEMMA LoopShape ==
    ASSUME NEW j \in Started, NEW D, NEW l, l = Loop(j)
    PROVE  /\ l.pc = "inode" => j.n <= 2 * j.i \/ j.n > 2 * (NDirect + PerIndirect)
           /\ l.pc = "data" => l.got = get_block_ptr(D, j.ino, j.i) /\ 2 * j.i < j.n
           /\ l.pc = "alloc" => l.want \in {"direct", "indirect"} /\ 2 * j.i < j.n
           /\ l.pc = "read" => j.ino.indirect # 0 /\ 2 * j.i < j.n
           /\ l.pc \in {"inode", "data", "alloc", "read"}
  <1>1. NDirect \in Nat /\ PerIndirect \in Nat /\ j.i \in Nat /\ j.n \in Nat
        /\ \A i \in 0..(NDirect - 1) : j.ino.direct[i] \in Nat
    BY CallTypes
  <1>2. CASE ~ (2 * j.i < j.n)
    <2>1. l = [j EXCEPT !.pc = "inode"] /\ j.n <= 2 * j.i
      BY <1>1, <1>2 DEF Loop
    <2> QED
      BY <2>1 DEF Started
  <1>3. CASE 2 * j.i < j.n /\ j.i < NDirect
    <2>1. PICK b \in Nat : b = j.ino.direct[j.i]
      BY <1>1, <1>3
    <2>2. CASE b = 0
      <3>1. l = [j EXCEPT !.pc = "alloc", !.want = "direct"]
        BY <1>3, <2>1, <2>2 DEF Loop, get_or_alloc_block_ptr, ToAlloc
      <3> QED
        BY <1>3, <3>1 DEF Started
    <2>3. CASE b # 0
      <3>1. l = ToBlock(j, b)
        BY <1>3, <2>1, <2>3 DEF Loop, get_or_alloc_block_ptr
      <3>2. get_block_ptr(D, j.ino, j.i) = b
        BY <1>3, <2>1 DEF get_block_ptr
      <3> QED
        BY <1>3, <2>3, <3>1, <3>2, ToBlockFacts
    <2> QED
      BY <2>2, <2>3
  <1>4. CASE 2 * j.i < j.n /\ ~ (j.i < NDirect) /\ j.i - NDirect >= PerIndirect
    <2>1. l = ToBlock(j, 0)
      BY <1>4 DEF Loop, get_or_alloc_block_ptr
    <2>2. j.n > 2 * (NDirect + PerIndirect)
      BY <1>1, <1>4
    <2> QED
      BY <2>1, <2>2, ToBlockFacts
  <1>5. CASE /\ 2 * j.i < j.n /\ ~ (j.i < NDirect) /\ ~ (j.i - NDirect >= PerIndirect)
             /\ j.ino.indirect = 0
    <2>1. l = [j EXCEPT !.pc = "alloc", !.want = "indirect"]
      BY <1>5 DEF Loop, get_or_alloc_block_ptr, ToAlloc
    <2> QED
      BY <1>5, <2>1 DEF Started
  <1>6. CASE /\ 2 * j.i < j.n /\ ~ (j.i < NDirect) /\ ~ (j.i - NDirect >= PerIndirect)
             /\ j.ino.indirect # 0
    <2>1. l = [j EXCEPT !.pc = "read"]
      BY <1>6 DEF Loop, get_or_alloc_block_ptr
    <2> QED
      BY <1>6, <2>1 DEF Started
  <1> QED
    BY <1>2, <1>3, <1>4, <1>5, <1>6

\* Call k is at its step as it should be, if its words so far are in place.
Tracked(D, L, k, words) ==
    Writing(k) /\ Prepared(D, L, k) /\ (words => OnTrack(D, k))

LEMMA WordOfIndirect ==
    ASSUME NEW D, NEW N, NEW j, Ready(D, N, j), ~ (j.i < NDirect), j.i - NDirect < PerIndirect
    PROVE  /\ j.i - NDirect + 1 \in 1..PerIndirect /\ j.i - NDirect + 1 \in 1..2
           /\ j.ino.indirect \in Blocks
           /\ D.blk[j.ino.indirect][j.i - NDirect + 1] \in Nat
  <1>1. PICK C : C = Current(D, N, j)
    OBVIOUS
  <1>2. Spaces(C, D.blk, Gone(D)) /\ Tidy(C, D.blk, Gone(D)) /\ C[j.f] = j.ino
        /\ j.f \in Owners /\ j \in Started
    BY <1>1, CurrentFacts, CallTypes, NoneFacts DEF Ready
  <1>3. j.i - NDirect + 1 \in 1..PerIndirect /\ j.i - NDirect + 1 \in 1..2
    BY <1>2, CallTypes, Sizes0
  <1>4. j.ino.indirect \in Gone(D)
    BY <1>2, PtrFacts
  <1>5. j.ino.indirect \in Blocks /\ D.blk[j.ino.indirect] \in [1..2 -> Nat]
    BY <1>2, <1>4 DEF Spaces
  <1> QED
    BY <1>3, <1>5

LEMMA LoopTracked ==
    ASSUME NEW D, NEW N, NEW j, Ready(D, N, j), NEW L,
           j.ino.size = j.n, j.f # 0 => L[j.f] = None
    PROVE  /\ Tracked(D, L, Loop(j), Written(D, j.ino, j.f, j.v, Reached(j)))
           /\ Loop(j).fails = j.fails
  <1>1. PICK l : l = Loop(j)
    OBVIOUS
  <1>2. j \in Started /\ j # None
    BY NoneFacts DEF Ready
  <1>3. l \in Calls /\ SameCall(j, l)
    <2>1. PICK C : C = Current(D, N, j)
      OBVIOUS
    <2>2. Spaces(C, D.blk, Gone(D)) /\ Tidy(C, D.blk, Gone(D)) /\ C[j.f] = j.ino
      BY <1>2, <2>1, CurrentFacts DEF Ready
    <2> QED
      BY <1>1, <1>2, <2>2, LoopStep
  <1>4. l # None
    BY <1>3, NoneFacts, CallsStarted
  <1>5. /\ l.pc = "inode" => j.n <= 2 * j.i \/ j.n > 2 * (NDirect + PerIndirect)
        /\ l.pc = "data" => l.got = get_block_ptr(D, j.ino, j.i) /\ 2 * j.i < j.n
        /\ l.pc = "alloc" => l.want \in {"direct", "indirect"} /\ 2 * j.i < j.n
        /\ l.pc = "read" => j.ino.indirect # 0 /\ 2 * j.i < j.n
        /\ l.pc \in {"inode", "data", "alloc", "read"}
    BY <1>1, <1>2, LoopShape
  <1>6. /\ l.f = j.f /\ l.v = j.v /\ l.n = j.n /\ l.i = j.i /\ l.ino = j.ino /\ l.fails = j.fails
    BY <1>3 DEF SameCall
  <1>7. Reached(l) = Reached(j)
    BY <1>6 DEF Reached
  <1>8. Prepared(D, L, l)
    BY <1>5, <1>6 DEF Prepared
  <1>9. l.pc = "inode" => Enough(D, l.n, Reached(l))
    <2>1. j.n \in Nat /\ j.i \in Nat
      BY <1>2, CallTypes
    <2> QED
      BY <1>5, <1>6, <2>1 DEF Enough, Reached
  <1>10. Written(D, j.ino, j.f, j.v, Reached(j)) => OnTrack(D, l)
    BY <1>5, <1>6, <1>7, <1>9 DEF OnTrack
  <1> QED
    BY <1>1, <1>4, <1>5, <1>6, <1>8, <1>10 DEF Tracked, Writing

\* The words so far lie in front of block i.
LEMMA ReachedBefore ==
    ASSUME NEW j \in Started, 2 * j.i < j.n, NEW x \in 1..Reached(j)
    PROVE  /\ x \in Nat \ {0} /\ (x - 1) \div 2 \in Nat /\ (x - 1) \div 2 < j.i
           /\ Reached(j) = 2 * j.i
  <1>1. j.i \in Nat /\ j.n \in Nat
    BY CallTypes
  <1>2. Reached(j) = 2 * j.i
    BY DEF Reached
  <1> QED
    BY <1>1, <1>2

\* A pointer that was empty is filled: the words so far do not go through it.
LEMMA SameWords ==
    ASSUME NEW j \in Started, 2 * j.i < j.n, NEW D, NEW ino,
           \A i \in Nat : i < j.i /\ get_block_ptr(D, j.ino, i) # 0 =>
               get_block_ptr(D, ino, i) = get_block_ptr(D, j.ino, i),
           Written(D, j.ino, j.f, j.v, Reached(j))
    PROVE  Written(D, ino, j.f, j.v, Reached(j))
  <1> SUFFICES ASSUME NEW x \in 1..Reached(j) PROVE WordAt(D, ino, j.f, j.v, x)
    BY DEF Written
  <1>1. (x - 1) \div 2 \in Nat /\ (x - 1) \div 2 < j.i
    BY ReachedBefore
  <1>2. WordAt(D, j.ino, j.f, j.v, x)
    BY DEF Written
  <1>3. get_block_ptr(D, ino, (x - 1) \div 2) = get_block_ptr(D, j.ino, (x - 1) \div 2)
    BY <1>1, <1>2 DEF WordAt
  <1> QED
    BY <1>2, <1>3 DEF WordAt

\* A block for a direct pointer, or none.
LEMMA DirectTracked ==
    ASSUME NEW D, NEW j \in Started, j.pc \in {"alloc", "sb"}, j.want = "direct",
           j.i < NDirect, NEW b \in Nat, NEW L, Prepared(D, L, j), b = 0 => Full(D)
    PROVE  /\ Tracked(D, L, Assigned(j, b), OnTrack(D, j))
           /\ Assigned(j, b).fails = j.fails
  <1>1. j.i \in 0..(NDirect - 1) /\ j.ino \in Inode /\ j.i \in Nat /\ j.n \in Nat
    BY CallTypes
  <1>2. PICK a : a = [j.ino EXCEPT !.direct[j.i] = b]
    OBVIOUS
  <1>3. /\ a \in Inode /\ a.direct[j.i] = b /\ a.indirect = j.ino.indirect /\ a.size = j.ino.size
        /\ \A l \in 0..(NDirect - 1) : l # j.i => a.direct[l] = j.ino.direct[l]
    BY <1>1, <1>2 DEF Inode
  <1>4. PICK k : k = [j EXCEPT !.ino.direct[j.i] = b]
    OBVIOUS
  <1>5. /\ k \in Started /\ k.ino = a /\ k.f = j.f /\ k.v = j.v /\ k.n = j.n /\ k.i = j.i
        /\ k.fails = j.fails
    BY <1>2, <1>3, <1>4 DEF Started
  <1>6. PICK l : l = ToBlock(k, b)
    OBVIOUS
  <1>7. l \in Calls /\ SameCall(k, l) /\ l.got = b /\ l.pc = IF b = 0 THEN "inode" ELSE "data"
    BY <1>5, <1>6, ToBlockFacts
  <1>8. /\ l.ino = a /\ l.f = j.f /\ l.v = j.v /\ l.n = j.n /\ l.i = j.i /\ l.fails = j.fails
        /\ l # None /\ l.pc \in {"inode", "data"}
    BY <1>5, <1>7, NoneFacts, CallsStarted DEF SameCall
  <1>9. Assigned(j, b) = l
    BY <1>4, <1>6 DEF Assigned
  <1>10. Prepared(D, L, l)
    BY <1>3, <1>8 DEF Prepared
  <1>11. ASSUME OnTrack(D, j) PROVE OnTrack(D, l)
    <2>1. 2 * j.i < j.n /\ Written(D, j.ino, j.f, j.v, Reached(j))
      BY <1>11 DEF OnTrack
    <2>2. ASSUME NEW i \in Nat, i < j.i PROVE get_block_ptr(D, a, i) = get_block_ptr(D, j.ino, i)
      <3>1. i \in 0..(NDirect - 1) /\ i # j.i /\ i < NDirect
        BY <1>1, <2>2, Sizes0
      <3> QED
        BY <1>3, <3>1 DEF get_block_ptr
    <2>3. Written(D, a, j.f, j.v, Reached(j))
      BY <2>1, <2>2, SameWords
    <2>4. Reached(l) = Reached(j)
      BY <1>8 DEF Reached
    <2>5. get_block_ptr(D, a, j.i) = b
      BY <1>3 DEF get_block_ptr
    <2>6. l.pc = "inode" => Full(D)
      BY <1>7
    <2> QED
      BY <1>7, <1>8, <2>1, <2>3, <2>4, <2>5, <2>6 DEF OnTrack, Enough
  <1> QED
    BY <1>8, <1>9, <1>10, <1>11 DEF Tracked, Writing

\* An indirect block, or block 0 for want of one.
LEMMA IndirectTracked ==
    ASSUME NEW D, NEW j \in Started, j.pc \in {"alloc", "sb"}, j.want = "indirect",
           NDirect <= j.i, j.i < NDirect + PerIndirect, j.ino.indirect = 0,
           NEW b \in Nat, NEW L, Prepared(D, L, j), b = 0 => Full(D)
    PROVE  /\ Tracked(D, L, Assigned(j, b), OnTrack(D, j))
           /\ Assigned(j, b).fails = j.fails
  <1>1. j.ino \in Inode /\ j.i \in Nat /\ j.n \in Nat /\ j.i - NDirect + 1 \in 1..2
    BY CallTypes, Sizes0
  <1>2. PICK a : a = [j.ino EXCEPT !.indirect = b]
    OBVIOUS
  <1>3. a \in Inode /\ a.direct = j.ino.direct /\ a.indirect = b /\ a.size = j.ino.size
    BY <1>1, <1>2 DEF Inode
  <1>4. PICK k : k = [j EXCEPT !.ino.indirect = b]
    OBVIOUS
  <1>5. /\ k \in Started /\ k.ino = a /\ k.f = j.f /\ k.v = j.v /\ k.n = j.n /\ k.i = j.i
        /\ k.fails = j.fails
    BY <1>2, <1>3, <1>4, ZenonT(30) DEF Started
  <1>7. PICK l : l = [k EXCEPT !.pc = "read"]
    OBVIOUS
  <1>8. l \in Calls /\ SameCall(k, l) /\ l.pc = "read"
    BY <1>5, <1>7, ZenonT(30) DEF Started, Calls, SameCall
  <1>9. /\ l.ino = a /\ l.f = j.f /\ l.v = j.v /\ l.n = j.n /\ l.i = j.i /\ l.fails = j.fails
        /\ l # None
    BY <1>5, <1>8, NoneFacts, CallsStarted DEF SameCall
  <1>10. Assigned(j, b) = l
    <2>1. Assigned(j, b) = [j EXCEPT !.ino.indirect = b, !.pc = "read"]
      BY DEF Assigned
    <2> QED
      BY <1>4, <1>7, <2>1 DEF Started
  <1>11. Prepared(D, L, l)
    BY <1>3, <1>8, <1>9 DEF Prepared
  <1>12. ASSUME OnTrack(D, j) PROVE OnTrack(D, l)
    <2>1. 2 * j.i < j.n /\ Written(D, j.ino, j.f, j.v, Reached(j))
      BY <1>12 DEF OnTrack
    <2>2. ASSUME NEW i \in Nat, get_block_ptr(D, j.ino, i) # 0
          PROVE  get_block_ptr(D, a, i) = get_block_ptr(D, j.ino, i)
      <3>1. i < NDirect
        BY <2>2 DEF get_block_ptr
      <3> QED
        BY <1>3, <3>1 DEF get_block_ptr
    <2>3. Written(D, a, j.f, j.v, Reached(j))
      BY <2>1, <2>2, SameWords
    <2>4. Reached(l) = Reached(j)
      BY <1>9 DEF Reached
    <2> QED
      BY <1>8, <1>9, <2>1, <2>3, <2>4 DEF OnTrack
  <1> QED
    BY <1>8, <1>9, <1>10, <1>11, <1>12 DEF Tracked, Writing

\* A block for a word of the indirect block, or none.
LEMMA WordTracked ==
    ASSUME NEW D, NEW j \in Started, j.pc \in {"alloc", "sb"}, j.want = "word",
           NEW b \in Nat, NEW L, Prepared(D, L, j), b = 0 => Full(D), b # 0 => j.ino.indirect # 0
    PROVE  /\ Tracked(D, L, Assigned(j, b), OnTrack(D, j))
           /\ Assigned(j, b).fails = j.fails
  <1>1. PICK l : l = [j EXCEPT !.pc = "ind", !.got = b]
    OBVIOUS
  <1>2. l \in Calls /\ SameCall(j, l) /\ l.pc = "ind" /\ l.want = j.want /\ l.got = b
    BY <1>1 DEF Started, Calls, SameCall
  <1>3. /\ l.ino = j.ino /\ l.f = j.f /\ l.v = j.v /\ l.n = j.n /\ l.i = j.i /\ l.fails = j.fails
        /\ l # None
    BY <1>2, NoneFacts, CallsStarted DEF SameCall
  <1>4. Assigned(j, b) = l
    BY <1>1 DEF Assigned
  <1>5. Prepared(D, L, l)
    BY <1>2, <1>3 DEF Prepared
  <1>6. Reached(l) = Reached(j)
    BY <1>3 DEF Reached
  <1>7. OnTrack(D, j) => OnTrack(D, l)
    BY <1>2, <1>3, <1>6 DEF OnTrack
  <1> QED
    BY <1>2, <1>3, <1>4, <1>5, <1>7 DEF Tracked, Writing

\* An inode for a new file, or none: its first block is looked for.
LEMMA InodeTracked ==
    ASSUME NEW D, NEW N, NEW j, Sound(D, N, j), j # None, j.pc \in {"alloc", "sb"},
           j.want = "inode", Empty(j, D.blk), NEW b, b = 0 \/ NewInode(b, D, N),
           NEW L, Prepared(D, L, j), b # 0 => L[b] = None
    PROVE  /\ Tracked(D, L, Assigned(j, b), OnTrack(D, j))
           /\ Assigned(j, b).fails = j.fails
  <1>1. j \in Started /\ j.call = "create" /\ Older(j.ino, Blank)
    BY SoundReady DEF Empty
  <1>2. PICK k : k = [j EXCEPT !.f = b]
    OBVIOUS
  <1>3. Ready(D, N, k)
    BY <1>1, <1>2, InodeAssigned
  <1>4. k.f = b /\ k.ino = j.ino /\ k.n = j.n /\ k.i = j.i /\ k.fails = j.fails
    BY <1>1, <1>2 DEF Started
  <1>5. k.ino.size = k.n /\ (k.f # 0 => L[k.f] = None)
    BY <1>4 DEF Prepared
  <1>6. Assigned(j, b) = Loop(k)
    BY <1>2 DEF Assigned
  <1>7. /\ Tracked(D, L, Loop(k), Written(D, k.ino, k.f, k.v, Reached(k)))
        /\ Loop(k).fails = k.fails
    BY <1>3, <1>5, LoopTracked
  <1>8. ASSUME OnTrack(D, j) PROVE Written(D, k.ino, k.f, k.v, Reached(k))
    <2>1. j.i = 0 /\ j.n \in Nat
      BY <1>1, <1>8, CallTypes DEF OnTrack
    <2>2. Reached(k) = 0
      BY <1>4, <2>1 DEF Reached
    <2> QED
      BY <2>2 DEF Written
  <1> QED
    BY <1>4, <1>6, <1>7, <1>8 DEF Tracked

\* What call j knows of the number b that it is given.
Knows(D, L, j, b) ==
    /\ j.want # "inode" /\ b = 0 => Full(D)
    /\ j.want = "inode" /\ b # 0 => L[b] = None
    /\ j.want = "word" /\ b # 0 => j.ino.indirect # 0

LEMMA AssignTracked ==
    ASSUME NEW D, NEW N, NEW j, Sound(D, N, j), j # None, j.pc \in {"alloc", "sb"},
           NEW b \in Nat, Usable(j, b, D, N),
           NEW L, Prepared(D, L, j), Knows(D, L, j, b)
    PROVE  /\ Tracked(D, L, Assigned(j, b), OnTrack(D, j))
           /\ Assigned(j, b).fails = j.fails
  <1>1. j \in Started /\ Empty(j, D.blk)
    BY SoundReady DEF Sound, AtStep
  <1>2. CASE j.want = "direct"
    <2>1. j.i < NDirect /\ (b = 0 => Full(D))
      BY <1>1, <1>2 DEF Empty, Knows
    <2> QED
      BY <1>1, <1>2, <2>1, DirectTracked
  <1>3. CASE j.want = "indirect"
    <2>1. NDirect <= j.i /\ j.i < NDirect + PerIndirect /\ j.ino.indirect = 0 /\ (b = 0 => Full(D))
      BY <1>1, <1>3 DEF Empty, Knows
    <2> QED
      BY <1>1, <1>3, <2>1, IndirectTracked
  <1>4. CASE j.want = "word"
    <2>1. (b = 0 => Full(D)) /\ (b # 0 => j.ino.indirect # 0)
      BY <1>4 DEF Knows
    <2> QED
      BY <1>1, <1>4, <2>1, WordTracked
  <1>5. CASE j.want = "inode"
    <2>1. (b = 0 \/ NewInode(b, D, N)) /\ (b # 0 => L[b] = None)
      BY <1>5 DEF Usable, Knows
    <2> QED
      BY <1>1, <1>5, <2>1, InodeTracked
  <1> QED
    BY <1>1, <1>2, <1>3, <1>4, <1>5 DEF Empty

-----------------------------------------------------------------------------
(* When no block is found, none is free. *)

LEMMA GroupOf ==
    ASSUME NEW k \in Kinds, NEW b \in Bits(k)
    PROVE  b \div PerGroup[k] \in Groups
  <1>1. PICK n \in Nat \ {0} : n = NGroups
    BY Ext2Assumption
  <1>2. PICK p \in Nat \ {0} : p = PerGroup[k]
    BY Ext2Assumption
  <1>3. b \in Nat /\ b < n * p
    <2>1. n * p \in Nat
      BY SMT
    <2> QED
      BY <1>1, <1>2, <2>1 DEF Bits
  <1>4. PICK q \in Nat : q = b \div p /\ p * q <= b
    BY <1>3
  <1>5. q < n
    <2>1. CASE q >= n
      <3>1. p * q >= p * n /\ p * n = n * p
        BY <2>1, SMT
      <3> QED
        BY <1>3, <1>4, <3>1
    <2> QED
      BY <2>1
  <1> QED
    BY <1>1, <1>2, <1>4, <1>5 DEF Groups

LEMMA NoneFree ==
    ASSUME NEW D, NEW M, NEW k \in Kinds, M \in MemType, Covers(M, D), D.bits[k] \subseteq Bits(k),
           \A g \in Groups : M.bgdt[k][g] = 0 \/ ClearBits(D, k, g) = {}
    PROVE  D.bits[k] = Bits(k)
  <1> SUFFICES ASSUME NEW b \in Bits(k), b \notin D.bits[k] PROVE FALSE
    OBVIOUS
  <1>1. PICK g \in Groups : g = b \div PerGroup[k]
    BY GroupOf
  <1>2. b \in ClearBits(D, k, g)
    BY <1>1 DEF ClearBits
  <1>3. M.bgdt[k][g] = 0
    BY <1>2
  <1>4. PICK S : S = ClearBits(D, k, g)
    OBVIOUS
  <1>5. IsFiniteSet(S) /\ Cardinality(S) \in Nat /\ S # {}
    BY <1>2, <1>4, BitsFinite
  <1>6. Cardinality(S) # 0
    BY <1>5, FS_EmptySet
  <1>7. 0 >= Cardinality(S)
    BY <1>3, <1>4 DEF Covers
  <1> QED
    BY <1>5, <1>6, <1>7

-----------------------------------------------------------------------------
(* The steps of a call on the disk *)

\* Neither blocks nor inodes change, and no block becomes free.
LEMMA SameBlocks ==
    ASSUME NEW D, NEW E, E.blk = D.blk, Full(D) => Full(E)
    PROVE  /\ \A ino, f, v, m : Written(E, ino, f, v, m) <=> Written(D, ino, f, v, m)
           /\ \A n, m : Enough(D, n, m) => Enough(E, n, m)
           /\ \A L, j : Prepared(D, L, j) => Prepared(E, L, j)
           /\ \A j : OnTrack(D, j) => OnTrack(E, j)
           /\ \A L : (E.ino = D.ino /\ D.bits["inode"] \subseteq E.bits["inode"] /\ Kept(D, L))
                        => Kept(E, L)
  <1>1. \A ino, i : get_block_ptr(E, ino, i) = get_block_ptr(D, ino, i)
    BY DEF get_block_ptr
  <1>2. ASSUME NEW ino, NEW f, NEW v, NEW m
        PROVE  Written(E, ino, f, v, m) <=> Written(D, ino, f, v, m)
    <2>1. \A x : WordAt(E, ino, f, v, x) <=> WordAt(D, ino, f, v, x)
      BY <1>1 DEF WordAt
    <2> QED
      BY <2>1 DEF Written
  <1>3. \A n, m : Enough(D, n, m) => Enough(E, n, m)
    BY DEF Enough
  <1>4. ASSUME NEW L, NEW j, Prepared(D, L, j) PROVE Prepared(E, L, j)
    BY <1>4 DEF Prepared
  <1>5. ASSUME NEW j, OnTrack(D, j) PROVE OnTrack(E, j)
    BY <1>1, <1>2, <1>3, <1>5 DEF OnTrack
  <1>6. ASSUME NEW L, E.ino = D.ino, D.bits["inode"] \subseteq E.bits["inode"], Kept(D, L)
        PROVE  Kept(E, L)
    <2>1. ASSUME NEW f \in Inodes PROVE KeptOf(E, L, f)
      <3>1. KeptOf(D, L, f)
        BY <1>6 DEF Kept
      <3> QED
        BY <1>2, <1>3, <1>6, <3>1 DEF KeptOf
    <2> QED
      BY <1>6, <2>1 DEF Kept
  <1> QED
    BY <1>2, <1>3, <1>4, <1>5, <1>6

\* Call l follows j, after F failed transfers and then G.
LEMMA InCallStep ==
    ASSUME NEW E, NEW L, NEW j \in Started, NEW l, NEW F \in Nat, NEW G \in {F, F + 1},
           Zero(E.blk, 0), j.fails <= F, l.fails = j.fails,
           Writing(l) => Prepared(E, L, l),
           Writing(l) /\ G = F /\ j.fails = F => OnTrack(E, l)
    PROVE  InCall(E, L, l, G)
  <1>1. j.fails \in Nat
    BY CallTypes
  <1>2. l.fails <= G /\ (l.fails = G => G = F)
    BY <1>1
  <1> QED
    BY <1>2 DEF InCall

\* The state of the call in progress, by name.
LEMMA OwnCopy ==
    ASSUME NEW D, NEW N, NEW j, Sound(D, N, j), j # None
    PROVE  LET C == Current(D, N, j) IN
           /\ CopyOf(j.ino, j.f, C, D, Gone(D)) /\ C[j.f] = j.ino
           /\ j \in Started /\ j.f \in Owners /\ j.f # -1 /\ D \in DiskType
           /\ D.blk \in [Blocks -> [1..2 -> Nat]]
           /\ Spaces(C, D.blk, Gone(D)) /\ Tidy(C, D.blk, Gone(D))
  <1>1. PICK C : C = Current(D, N, j)
    OBVIOUS
  <1>2. Stored(D, N) /\ j \in Started /\ Tidy(C, D.blk, Gone(D))
    BY <1>1, SoundReady DEF Sound
  <1>3. Spaces(C, D.blk, Gone(D)) /\ C[j.f] = j.ino
    BY <1>1, <1>2, CurrentFacts
  <1>4. j.f \in Owners /\ j.f # -1 /\ Older(j.ino, C[j.f])
    BY <1>2, <1>3, CallTypes, OlderFacts
  <1> QED
    BY <1>1, <1>2, <1>3, <1>4, StoredFacts DEF CopyOf, Stored

\* The disk F after word w of block a was written.
OneWord(D, F, a, w, b) == F = [D EXCEPT !.blk[a][w] = b]

LEMMA WordWritten ==
    ASSUME NEW D \in DiskType, NEW a \in Blocks, NEW w \in 1..2, NEW b \in Nat,
           NEW F, OneWord(D, F, a, w, b)
    PROVE  /\ F.bits = D.bits /\ F.ino = D.ino /\ F.blk \in [Blocks -> [1..2 -> Nat]]
           /\ F.blk[a][w] = b /\ \A x \in 1..2 : x # w => F.blk[a][x] = D.blk[a][x]
           /\ OnlyBlock(D, F, a)
           /\ D.blk[a][w] = b => F.blk = D.blk
  <1>1. D.blk \in [Blocks -> [1..2 -> Nat]]
    BY DEF DiskType
  <1>2. PICK o \in [1..2 -> Nat] : o = D.blk[a]
    BY <1>1
  <1>3. PICK p : p = [o EXCEPT ![w] = b]
    OBVIOUS
  <1>4. p \in [1..2 -> Nat] /\ p[w] = b /\ \A x \in 1..2 : x # w => p[x] = o[x]
    BY <1>2, <1>3
  <1>5. PICK X : X = [D.blk EXCEPT ![a] = p]
    OBVIOUS
  <1>6. /\ X \in [Blocks -> [1..2 -> Nat]] /\ X[a] = p
        /\ \A c \in Blocks : c # a => X[c] = D.blk[c]
    BY <1>1, <1>4, <1>5
  <1>7. F = [D EXCEPT !.blk = X]
    BY <1>2, <1>3, <1>5 DEF OneWord
  <1>8. PICK G : G = [D EXCEPT !.blk = X]
    OBVIOUS
  <1>9. G.blk = X /\ G.bits = D.bits /\ G.ino = D.ino
    BY <1>6, <1>8, BlocksFacts
  <1>10. D.blk[a][w] = b => X = D.blk
    <2> SUFFICES ASSUME o[w] = b PROVE X = D.blk
      BY <1>2
    <2>1. p = o
      BY <1>2, <1>3
    <2> QED
      BY <1>1, <1>2, <1>5, <2>1
  <1> QED
    BY <1>2, <1>4, <1>6, <1>7, <1>8, <1>9, <1>10 DEF OnlyBlock

WordDone(D, E, j) == E = [D EXCEPT !.blk[j.ino.indirect][j.i - NDirect + 1] = j.got]

\* The words that lie in front of the one that an indirect block is given.
LEMMA WordsBefore ==
    ASSUME NEW D, NEW N, NEW j, Sound(D, N, j), j # None, 2 * j.i < j.n,
           NEW E, NEW q \in Blocks \ {0}, q = j.ino.indirect, OnlyBlock(D, E, q),
           NEW w \in 1..2, w = j.i - NDirect + 1,
           \A x \in 1..2 : x # w => E.blk[q][x] = D.blk[q][x],
           Written(D, j.ino, j.f, j.v, Reached(j))
    PROVE  Written(E, j.ino, j.f, j.v, Reached(j))
  <1>1. PICK C : C = Current(D, N, j)
    OBVIOUS
  <1>2. PICK M : M = Gone(D)
    OBVIOUS
  <1>3. /\ CopyOf(j.ino, j.f, C, D, M) /\ C[j.f] = j.ino /\ j \in Started /\ j.f \in Owners
        /\ Spaces(C, D.blk, M) /\ Tidy(C, D.blk, M)
    BY <1>1, <1>2, OwnCopy
  <1>4. Ptr(C, D.blk, j.f, NDirect) = q /\ NDirect \in Slots
    <2>1. Ptr(C, D.blk, j.f, NDirect) = C[j.f].indirect
      BY <1>3, PtrFacts
    <2> QED
      BY <1>3, <2>1, Sizes0
  <1> SUFFICES ASSUME NEW x \in 1..Reached(j) PROVE WordAt(E, j.ino, j.f, j.v, x)
    BY DEF Written
  <1>5. WordAt(D, j.ino, j.f, j.v, x)
    BY DEF Written
  <1>6. PICK i \in Nat : i = (x - 1) \div 2 /\ i < j.i
    BY <1>3, ReachedBefore
  <1>7. PICK p : p = get_block_ptr(D, j.ino, i)
    OBVIOUS
  <1>8. p \in Blocks \ {0} /\ D.blk[p][((x - 1) % 2) + 1] = Word(j.f, j.v)
    BY <1>5, <1>6, <1>7 DEF WordAt
  <1>9. /\ SlotOf(i) \in Slots /\ SlotOf(i) # NDirect /\ Ptr(C, D.blk, j.f, SlotOf(i)) = p
        /\ ~ (i < NDirect) => i - NDirect < PerIndirect
    BY <1>3, <1>7, <1>8, ReadSlot
  <1>10. p # q
    <2>1. <<j.f, SlotOf(i)>> # <<j.f, NDirect>>
      BY <1>9
    <2> QED
      BY <1>3, <1>4, <1>8, <1>9, <2>1 DEF Tidy
  <1>11. get_block_ptr(E, j.ino, i) = p
    <2>1. CASE i < NDirect
      BY <1>7, <2>1 DEF get_block_ptr
    <2>2. CASE ~ (i < NDirect)
      <3>1. i - NDirect < PerIndirect /\ NDirect \in Nat /\ PerIndirect \in {1, 2} /\ j.i \in Nat
        BY <1>3, <1>9, <2>2, Sizes0, CallTypes
      <3>2. i - NDirect + 1 \in 1..2 /\ i - NDirect + 1 # w /\ ~ (i - NDirect >= PerIndirect)
        BY <1>6, <2>2, <3>1
      <3>3. E.blk[q][i - NDirect + 1] = D.blk[q][i - NDirect + 1]
        BY <3>2
      <3> QED
        BY <1>7, <2>2, <3>2, <3>3 DEF get_block_ptr
    <2> QED
      BY <2>1, <2>2
  <1>12. E.blk[p] = D.blk[p]
    BY <1>8, <1>10 DEF OnlyBlock
  <1> QED
    BY <1>6, <1>8, <1>11, <1>12 DEF WordAt

LEMMA IndWrites ==
    ASSUME NEW D, NEW N, NEW j, Sound(D, N, j), j # None, j.pc = "ind",
           NEW E, WordSent(D, E, j), Zero(D.blk, 0), NEW L, Kept(D, L), Prepared(D, L, j),
           NEW l, l = ToBlock(j, j.got)
    PROVE  /\ Kept(E, L) /\ Zero(E.blk, 0) /\ Writing(l) /\ Prepared(E, L, l) /\ l.fails = j.fails
           /\ WordDone(D, E, j) /\ OnTrack(D, j) => OnTrack(E, l)
  <1>1. PICK C : C = Current(D, N, j)
    OBVIOUS
  <1>2. PICK M : M = Gone(D)
    OBVIOUS
  <1>3. /\ C[j.f] = j.ino /\ j \in Started /\ j.f \in Owners /\ D \in DiskType
        /\ Spaces(C, D.blk, M) /\ Tidy(C, D.blk, M)
    BY <1>1, <1>2, OwnCopy
  <1>4. j.want = "word" /\ Empty(j, D.blk)
    BY DEF Sound, AtStep
  <1>5. PICK w \in 1..2 : w = j.i - NDirect + 1 /\ ~ (j.i < NDirect) /\ ~ (j.i - NDirect >= PerIndirect)
    <2>1. NDirect <= j.i /\ j.i < NDirect + PerIndirect /\ PerIndirect \in {1, 2}
      BY <1>4, Sizes0 DEF Empty
    <2> QED
      BY <2>1, <1>3, CallTypes
  <1>6. PICK q \in Blocks : q = j.ino.indirect
    BY <1>3, PtrFacts DEF Spaces
  <1>7. D.blk[q][w] = 0 /\ j.got \in Nat
    BY <1>3, <1>4, <1>5, <1>6, CallTypes DEF Empty
  <1>8. l \in Calls /\ SameCall(j, l) /\ l.got = j.got /\ l.pc = IF j.got = 0 THEN "inode" ELSE "data"
    BY <1>3, <1>7, ToBlockFacts
  <1>9. /\ l.ino = j.ino /\ l.f = j.f /\ l.v = j.v /\ l.n = j.n /\ l.i = j.i /\ l.fails = j.fails
        /\ l # None /\ l.pc \in {"inode", "data"}
    BY <1>8, NoneFacts, CallsStarted DEF SameCall
  <1>10. Prepared(E, L, l) /\ Writing(l)
    BY <1>9 DEF Prepared, Writing
  <1>11. Reached(l) = Reached(j)
    BY <1>9 DEF Reached
  <1>12. PICK F : F = [D EXCEPT !.blk[q][w] = j.got]
    OBVIOUS
  <1>13. /\ F.bits = D.bits /\ F.ino = D.ino /\ F.blk \in [Blocks -> [1..2 -> Nat]]
         /\ F.blk[q][w] = j.got /\ \A x \in 1..2 : x # w => F.blk[q][x] = D.blk[q][x]
         /\ OnlyBlock(D, F, q)
         /\ D.blk[q][w] = j.got => F.blk = D.blk
    <2>1. OneWord(D, F, q, w, j.got)
      BY <1>12 DEF OneWord
    <2> QED
      BY <1>3, <1>7, <2>1, WordWritten
  <1>14. (WordDone(D, E, j) => E = F) /\ (E = D \/ E = F)
    BY <1>5, <1>6, <1>12 DEF WordDone, WordSent
  <1>15. CASE j.got = 0
    <2>1. E.blk = D.blk /\ E.bits = D.bits /\ E.ino = D.ino
      BY <1>7, <1>13, <1>14, <1>15
    <2>2. Full(D) /\ Full(E)
      BY <1>15, <2>1 DEF Prepared, Full
    <2>3. Kept(E, L) /\ \A m : Written(D, j.ino, j.f, j.v, m) => Written(E, j.ino, j.f, j.v, m)
      BY <2>1, <2>2, SameBlocks
    <2>4. Zero(E.blk, 0)
      BY <2>1
    <2>5. OnTrack(D, j) => OnTrack(E, l)
      BY <1>8, <1>9, <1>11, <1>15, <2>2, <2>3 DEF OnTrack, Enough
    <2> QED
      BY <1>9, <1>10, <2>3, <2>4, <2>5
  <1>16. CASE j.got # 0
    <2>1. q # 0
      BY <1>6, <1>16 DEF Prepared
    <2>2. Ptr(C, D.blk, j.f, NDirect) = q /\ NDirect \in Slots
      <3>1. Ptr(C, D.blk, j.f, NDirect) = C[j.f].indirect
        BY <1>3, PtrFacts
      <3> QED
        BY <1>3, <1>6, <3>1, Sizes0
    <2>3. ASSUME NEW g \in Inodes, L[g] # None, NEW s \in Slots PROVE Ptr(C, D.blk, g, s) # q
      <3>1. g # j.f /\ g \in Owners
        BY <2>3, InodeOwners DEF Prepared
      <3>2. <<j.f, NDirect>> # <<g, s>>
        BY <3>1
      <3> QED
        BY <1>3, <2>1, <2>2, <3>1, <3>2 DEF Tidy
    <2>4. Kept(F, L)
      BY <1>1, <1>13, <2>3, OthersKept
    <2>5. Zero(F.blk, 0)
      <3>1. 0 \in Blocks
        BY Sizes0
      <3>2. F.blk[0] = D.blk[0]
        BY <1>13, <2>1, <3>1 DEF OnlyBlock
      <3> QED
        BY <3>2 DEF Zero
    <2>6. ASSUME OnTrack(D, j) PROVE OnTrack(F, l)
      <3>1. Written(D, j.ino, j.f, j.v, Reached(j)) /\ 2 * j.i < j.n
        BY <1>4, <2>6 DEF OnTrack
      <3>2. Written(F, j.ino, j.f, j.v, Reached(j))
        BY <1>5, <1>6, <1>13, <2>1, <3>1, WordsBefore
      <3>3. get_block_ptr(F, j.ino, j.i) = j.got
        BY <1>5, <1>6, <1>13, <2>1 DEF get_block_ptr
      <3> QED
        BY <1>8, <1>9, <1>11, <1>16, <3>1, <3>2, <3>3 DEF OnTrack
    <2> QED
      BY <1>9, <1>10, <1>14, <2>4, <2>5, <2>6
  <1> QED
    BY <1>15, <1>16

\* A block that another one does not lead to is found where it was.
LEMMA PtrKept ==
    ASSUME NEW D, NEW N, NEW j, Sound(D, N, j), j # None, NEW E, NEW q, OnlyBlock(D, E, q),
           NEW i \in Nat, j.ino.indirect # q
    PROVE  get_block_ptr(E, j.ino, i) = get_block_ptr(D, j.ino, i)
  <1>1. PICK C : C = Current(D, N, j)
    OBVIOUS
  <1>2. PICK M : M = Gone(D)
    OBVIOUS
  <1>3. C[j.f] = j.ino /\ j.f \in Owners /\ Spaces(C, D.blk, M) /\ Tidy(C, D.blk, M)
    BY <1>1, <1>2, OwnCopy
  <1>4. C[j.f].indirect \in Blocks
    BY <1>3, PtrFacts DEF Spaces
  <1>5. E.blk[j.ino.indirect] = D.blk[j.ino.indirect]
    BY <1>3, <1>4 DEF OnlyBlock
  <1> QED
    BY <1>5 DEF get_block_ptr

\* The words of a call once its block i is on the disk.
LEMMA BlockWords ==
    ASSUME NEW D, NEW N, NEW j, Sound(D, N, j), j # None, 2 * j.i < j.n,
           NEW E, NEW q \in Blocks \ {0}, q = get_block_ptr(D, j.ino, j.i), OnlyBlock(D, E, q),
           j.ino.indirect # q, Written(D, j.ino, j.f, j.v, 2 * j.i),
           \A y \in 1..2 : 2 * j.i + y <= j.n => E.blk[q][y] = Word(j.f, j.v),
           NEW x \in Nat \ {0}, x <= j.n, x <= 2 * j.i + 2
    PROVE  WordAt(E, j.ino, j.f, j.v, x)
  <1>1. PICK C : C = Current(D, N, j)
    OBVIOUS
  <1>2. PICK M : M = Gone(D)
    OBVIOUS
  <1>3. /\ CopyOf(j.ino, j.f, C, D, M) /\ C[j.f] = j.ino /\ j \in Started /\ j.f \in Owners
        /\ Spaces(C, D.blk, M) /\ Tidy(C, D.blk, M)
    BY <1>1, <1>2, OwnCopy
  <1>4. j.i \in Nat /\ j.n \in Nat
    BY <1>3, CallTypes
  <1>5. CASE x <= 2 * j.i
    <2>1. WordAt(D, j.ino, j.f, j.v, x)
      BY <1>4, <1>5 DEF Written
    <2>2. PICK i \in Nat : i = (x - 1) \div 2 /\ i < j.i
      BY <1>4, <1>5
    <2>3. PICK p : p = get_block_ptr(D, j.ino, i)
      OBVIOUS
    <2>4. p # 0
      BY <2>1, <2>2, <2>3 DEF WordAt
    <2>5. SlotOf(i) \in Slots /\ Ptr(C, D.blk, j.f, SlotOf(i)) = p
      BY <1>3, <2>3, <2>4, ReadSlot
    <2>6. SlotOf(j.i) \in Slots /\ Ptr(C, D.blk, j.f, SlotOf(j.i)) = q
      BY <1>3, <1>4, ReadSlot
    <2>7. SlotOf(i) # SlotOf(j.i)
      BY <1>4, <2>2, Sizes0 DEF SlotOf
    <2>8. p # q
      <3>1. <<j.f, SlotOf(i)>> # <<j.f, SlotOf(j.i)>>
        BY <2>7
      <3> QED
        BY <1>3, <2>4, <2>5, <2>6, <3>1 DEF Tidy
    <2> QED
      BY <1>3, <2>1, <2>2, <2>3, <2>8, SameWord
  <1>6. CASE ~ (x <= 2 * j.i)
    <2>1. PICK y \in 1..2 : /\ y = x - 2 * j.i /\ 2 * j.i + y <= j.n
                            /\ (x - 1) \div 2 = j.i /\ ((x - 1) % 2) + 1 = y
      BY <1>4, <1>6
    <2>2. get_block_ptr(E, j.ino, j.i) = q
      BY <1>4, PtrKept
    <2>3. E.blk[q][y] = Word(j.f, j.v)
      BY <2>1
    <2> QED
      BY <2>1, <2>2, <2>3 DEF WordAt
  <1> QED
    BY <1>5, <1>6

LEMMA DataWrites ==
    ASSUME NEW D, NEW N, NEW j, Sound(D, N, j), j # None, j.pc = "data",
           NEW E, NEW n, DataSent(D, E, j, n), Zero(D.blk, 0), NEW L, Kept(D, L), Prepared(D, L, j)
    PROVE  /\ Kept(E, L) /\ Zero(E.blk, 0)
           /\ n = 2 /\ OnTrack(D, j) =>
                Written(E, j.ino, j.f, j.v, Reached([j EXCEPT !.i = @ + 1]))
  <1>1. PICK C : C = Current(D, N, j)
    OBVIOUS
  <1>2. PICK M : M = Gone(D)
    OBVIOUS
  <1>3. C[j.f] = j.ino /\ j \in Started /\ j.f \in Owners
    BY <1>1, OwnCopy
  <1>4. /\ j.got \in Blocks /\ j.got # 0 /\ E.bits = D.bits /\ E.ino = D.ino
        /\ \A c \in Blocks : c # j.got => E.blk[c] = D.blk[c]
        /\ \A x \in 1..2 : E.blk[j.got][x] =
             IF x <= n /\ 2 * j.i + x <= j.n THEN Word(j.f, j.v) ELSE D.blk[j.got][x]
    BY DataReady
  <1>5. PICK q \in Blocks \ {0} : q = j.got
    BY <1>4
  <1>6. Writable(C, D.blk, M, q, j.f)
    BY <1>1, <1>2, <1>5 DEF Sound, AtStep
  <1>7. OnlyBlock(D, E, q)
    BY <1>4, <1>5 DEF OnlyBlock
  <1>8. Kept(E, L)
    <2>1. ASSUME NEW g \in Inodes, L[g] # None, NEW s \in Slots PROVE Ptr(C, D.blk, g, s) # q
      <3>1. g # j.f
        BY <2>1, InodeOwners DEF Prepared
      <3> QED
        BY <1>6, <3>1 DEF Writable
    <2> QED
      BY <1>1, <1>4, <1>7, <2>1, OthersKept
  <1>9. Zero(E.blk, 0)
    <2>1. E.blk[0] = D.blk[0]
      BY <1>7, Sizes0 DEF OnlyBlock
    <2> QED
      BY <2>1 DEF Zero
  <1>10. ASSUME n = 2, OnTrack(D, j)
         PROVE  Written(E, j.ino, j.f, j.v, Reached([j EXCEPT !.i = @ + 1]))
    <2>1. j.i \in Nat /\ j.n \in Nat /\ 2 * j.i < j.n /\ q = get_block_ptr(D, j.ino, j.i)
      BY <1>3, <1>5, <1>10, CallTypes DEF OnTrack
    <2>2. Written(D, j.ino, j.f, j.v, 2 * j.i)
      BY <1>10, <2>1 DEF OnTrack, Reached
    <2>3. j.ino.indirect # q
      BY <1>3, <1>6 DEF Writable
    <2>4. \A y \in 1..2 : 2 * j.i + y <= j.n => E.blk[q][y] = Word(j.f, j.v)
      BY <1>4, <1>5, <1>10
    <2>5. PICK k : k = [j EXCEPT !.i = @ + 1]
      OBVIOUS
    <2>6. k.i = j.i + 1 /\ k.n = j.n
      BY <1>3, <2>5 DEF Started
    <2>7. Reached(k) = IF 2 * j.i + 2 < j.n THEN 2 * j.i + 2 ELSE j.n
      BY <2>1, <2>6 DEF Reached
    <2>8. ASSUME NEW x \in 1..Reached(k) PROVE WordAt(E, j.ino, j.f, j.v, x)
      <3>1. x \in Nat \ {0} /\ x <= j.n /\ x <= 2 * j.i + 2
        BY <2>1, <2>7
      <3> QED
        BY <1>7, <2>1, <2>2, <2>3, <2>4, <3>1, BlockWords
    <2> QED
      BY <2>5, <2>8 DEF Written
  <1> QED
    BY <1>8, <1>9, <1>10

\* Call l follows j once bit b is set.
Took(j, l, k, b) == l = [j EXCEPT !.pc = "bgdt", !.got = Numbered(k, b)]

\* A block or an inode is taken: no file of that number has a last write.
LEMMA TakenTracked ==
    ASSUME NEW D \in DiskType, NEW j \in Started, j.pc = "alloc",
           NEW k \in Kinds, k = IF j.want = "inode" THEN "inode" ELSE "block",
           NEW b \in Bits(k), b \notin D.bits[k], NEW L, Kept(D, L), Prepared(D, L, j),
           NEW E, E = Marked(D, k, b), NEW l, Took(j, l, k, b)
    PROVE  /\ Kept(E, L) /\ E.blk = D.blk /\ Tracked(E, L, l, OnTrack(D, j)) /\ l.fails = j.fails
  <1>1. b \in Nat
    BY BitsFinite
  <1>2. /\ E.bits[k] = D.bits[k] \cup {b} /\ \A m \in Kinds : m # k => E.bits[m] = D.bits[m]
        /\ E.ino = D.ino /\ E.blk = D.blk
    BY <1>1, MarkedFacts
  <1>3. Kinds = {"block", "inode"}
    BY DEF Kinds
  <1>4. k = "block" => ~ Full(D)
    BY DEF Full
  <1>5. Full(D) => Full(E)
    BY <1>2, <1>3, <1>4 DEF Full
  <1>6. D.bits["inode"] \subseteq E.bits["inode"]
    BY <1>2, <1>3
  <1>7. Kept(E, L) /\ (OnTrack(D, j) => OnTrack(E, j))
    BY <1>2, <1>5, <1>6, SameBlocks
  <1>8. Numbered(k, b) \in Nat
    BY <1>1 DEF Numbered
  <1>9. /\ l \in Calls /\ SameCall(j, l) /\ l.pc = "bgdt" /\ l.want = j.want
        /\ l.got = Numbered(k, b)
    BY <1>8 DEF Started, Calls, SameCall, Took
  <1>10. /\ l.ino = j.ino /\ l.f = j.f /\ l.v = j.v /\ l.n = j.n /\ l.i = j.i /\ l.fails = j.fails
         /\ l # None
    BY <1>9, NoneFacts, CallsStarted DEF SameCall
  <1>11. j.want = "inode" => L[l.got] = None
    <2> SUFFICES ASSUME j.want = "inode" PROVE L[l.got] = None
      OBVIOUS
    <2>1. k = "inode" /\ l.got = b + 1
      BY <1>9 DEF Numbered
    <2>2. b + 1 \in Inodes
      <3>1. PICK m \in Nat : m = NGroups * PerGroup["inode"]
        BY Sizes0
      <3>2. b \in 0..(m - 1)
        BY <2>1, <3>1 DEF Bits
      <3> QED
        BY <3>1, <3>2 DEF Inodes
    <2>3. (b + 1) - 1 \notin D.bits["inode"]
      BY <1>1, <2>1
    <2> QED
      BY <2>1, <2>2, <2>3 DEF Kept, KeptOf
  <1>12. j.want = "word" => j.ino.indirect # 0
    BY <1>4 DEF Prepared
  <1>13. Prepared(E, L, l)
    BY <1>9, <1>10, <1>11, <1>12 DEF Prepared
  <1>14. Reached(l) = Reached(j)
    BY <1>10 DEF Reached
  <1>15. OnTrack(E, j) => OnTrack(E, l)
    BY <1>9, <1>10, <1>14 DEF OnTrack
  <1> QED
    BY <1>2, <1>7, <1>9, <1>10, <1>13, <1>15 DEF Tracked, Writing

LEMMA CountsTracked ==
    ASSUME NEW D, NEW j \in Started, j.pc = "bgdt", NEW L, Prepared(D, L, j),
           NEW l, l = [j EXCEPT !.pc = "sb"]
    PROVE  Tracked(D, L, l, OnTrack(D, j)) /\ l.fails = j.fails
  <1>1. l \in Calls /\ SameCall(j, l) /\ l.pc = "sb" /\ l.want = j.want /\ l.got = j.got
    BY DEF Started, Calls, SameCall
  <1>2. /\ l.ino = j.ino /\ l.f = j.f /\ l.v = j.v /\ l.n = j.n /\ l.i = j.i /\ l.fails = j.fails
        /\ l # None
    BY <1>1, NoneFacts, CallsStarted DEF SameCall
  <1>3. Prepared(D, L, l)
    BY <1>1, <1>2 DEF Prepared
  <1>4. Reached(l) = Reached(j)
    BY <1>2 DEF Reached
  <1>5. OnTrack(D, j) => OnTrack(D, l)
    BY <1>1, <1>2, <1>4 DEF OnTrack
  <1> QED
    BY <1>1, <1>2, <1>3, <1>5 DEF Tracked, Writing

-----------------------------------------------------------------------------
(* The actions *)

\* The state that a step of a call in progress finds.
LEMMA InProgress ==
    ASSUME Ext2Inv, WriteInv, job.pc \notin {"none", "dir", "wild"}
    PROVE  /\ Sound(disk, node, job) /\ job # None /\ job \in Started /\ disk \in DiskType
           /\ Kept(disk, last) /\ Zero(disk.blk, 0) /\ job.fails <= fails
           /\ Prepared(disk, last, job) /\ (job.fails = fails => OnTrack(disk, job))
           /\ AtStep(job, Current(disk, node, job), disk, node) /\ fails \in Nat
  <1>1. Sound(disk, node, job) /\ job # None /\ fails \in Nat
    BY NoneFacts DEF Ext2Inv, Ext2Base
  <1>2. job \in Started /\ disk \in DiskType /\ AtStep(job, Current(disk, node, job), disk, node)
    BY <1>1, SoundReady DEF Sound, Stored
  <1>3. Writing(job)
    BY <1>1 DEF Writing
  <1> QED
    BY <1>1, <1>2, <1>3 DEF WriteInv, InCall

\* The next state has the call that follows.
LEMMA NextInCall ==
    ASSUME NEW j \in Started, NEW F \in Nat, j.fails <= F, fails' \in {F, F + 1},
           NEW words, j.fails = F /\ fails' = F => words,
           Kept(disk', last'), Zero(disk'.blk, 0), Tracked(disk', last', job', words),
           job'.fails = j.fails
    PROVE  WriteInv'
  <1>1. InCall(disk', last', job', fails')
    BY InCallStep DEF Tracked
  <1> QED
    BY <1>1 DEF WriteInv

\* A call that is no longer followed writes nothing.
LEMMA NotFollowed ==
    ASSUME NEW j \in Started, fails \in Nat, j.fails <= fails, fails' \in {fails, fails + 1},
           job' = Wild(j), Kept(disk', last'), Zero(disk'.blk, 0)
    PROVE  WriteInv'
  <1>1. job'.pc = "wild" /\ job'.fails = j.fails /\ j.fails \in Nat
    BY CallTypes DEF Wild, Started
  <1>2. job'.fails <= fails'
    BY <1>1
  <1> QED
    BY <1>1, <1>2 DEF WriteInv, InCall, Writing

LEMMA AllocWrites ==
    ASSUME BitmapsRead, Ext2Inv, WriteInv, alloc
    PROVE  WriteInv'
  <1>1. job.pc = "alloc" /\ node' = node /\ last' = last /\ fails' \in {fails, fails + 1}
    BY AllocCases
  <1>2. /\ Sound(disk, node, job) /\ job # None /\ job \in Started /\ disk \in DiskType
        /\ Kept(disk, last) /\ Zero(disk.blk, 0) /\ job.fails <= fails /\ fails \in Nat
        /\ Prepared(disk, last, job) /\ (job.fails = fails => OnTrack(disk, job))
    BY <1>1, InProgress
  <1>3. Wanted \in Kinds /\ Wanted = IF job.want = "inode" THEN "inode" ELSE "block"
    BY DEF Wanted, Kinds
  <1>4. CASE Nothing
    <2>7. /\ job' = Assigned(job, 0) /\ disk' = disk
          /\ \A g \in Groups : mem.bgdt[Wanted][g] = 0 \/ ClearBits(disk, Wanted, g) = {}
      BY <1>4 DEF Nothing, BitmapsRead
    <2>1. mem \in MemType /\ Covers(mem, disk) /\ disk.bits[Wanted] \subseteq Bits(Wanted)
      BY <1>2, <1>3, CoversBoth DEF Ext2Inv, Ext2Base, Sound, Typed
    <2>2. disk.bits[Wanted] = Bits(Wanted)
      BY <1>3, <2>1, <2>7, NoneFree
    <2>3. Knows(disk, last, job, 0) /\ Usable(job, 0, disk, node) /\ 0 \in Nat
      BY <1>3, <2>2 DEF Knows, Usable, Full
    <2>4. PICK l : l = Assigned(job, 0)
      OBVIOUS
    <2>5. Tracked(disk, last, l, OnTrack(disk, job)) /\ l.fails = job.fails
      BY <1>1, <1>2, <2>3, <2>4, AssignTracked
    <2>6. Tracked(disk', last', job', OnTrack(disk, job)) /\ job'.fails = job.fails
          /\ Kept(disk', last') /\ Zero(disk'.blk, 0)
      BY <1>1, <1>2, <2>4, <2>5, <2>7
    <2> QED
      BY <1>1, <1>2, <2>6, NextInCall
  <1>5. ASSUME NEW g \in Groups, NEW b \in ClearBits(disk, Wanted, g), Takes(g, b)
        PROVE  WriteInv'
    <2>6. /\ disk' = Marked(disk, Wanted, b)
          /\ job' = [job EXCEPT !.pc = "bgdt", !.got = Numbered(Wanted, b)]
      BY <1>5 DEF Takes
    <2>1. b \in Bits(Wanted) /\ b \notin disk.bits[Wanted]
      BY DEF ClearBits
    <2>2. PICK E : E = Marked(disk, Wanted, b)
      OBVIOUS
    <2>3. PICK l : l = [job EXCEPT !.pc = "bgdt", !.got = Numbered(Wanted, b)]
      OBVIOUS
    <2>4. Kept(E, last) /\ E.blk = disk.blk /\ Tracked(E, last, l, OnTrack(disk, job))
          /\ l.fails = job.fails
      <3>1. Took(job, l, Wanted, b)
        BY <2>3 DEF Took
      <3> QED
        BY <1>1, <1>2, <1>3, <2>1, <2>2, <3>1, TakenTracked
    <2>5. Tracked(disk', last', job', OnTrack(disk, job)) /\ job'.fails = job.fails
          /\ Kept(disk', last') /\ Zero(disk'.blk, 0)
      BY <1>1, <1>2, <2>2, <2>3, <2>4, <2>6
    <2> QED
      BY <1>1, <1>2, <2>5, NextInCall
  <1>6. CASE Lost
    BY <1>1, <1>2, <1>6, NotFollowed DEF Lost
  <1> QED
    BY <1>4, <1>5, <1>6, AllocCases

\* The counts go to the disk.
LEMMA SameFiles ==
    ASSUME NEW D, NEW E, E.blk = D.blk, E.bits = D.bits, E.ino = D.ino, NEW L, Kept(D, L),
           NEW l, NEW words, Tracked(D, L, l, words), Zero(D.blk, 0)
    PROVE  Kept(E, L) /\ Zero(E.blk, 0) /\ Tracked(E, L, l, words)
  <1>1. Full(D) => Full(E)
    BY DEF Full
  <1>2. Kept(E, L)
    BY <1>1, SameBlocks
  <1>3. Prepared(D, L, l) => Prepared(E, L, l)
    BY <1>1, SameBlocks
  <1>4. OnTrack(D, l) => OnTrack(E, l)
    BY <1>1, SameBlocks
  <1> QED
    BY <1>2, <1>3, <1>4 DEF Tracked

LEMMA BgdtWrites ==
    ASSUME Ext2Inv, WriteInv, write_bgdt_to_disk
    PROVE  WriteInv'
  <1>1. /\ job.pc = "bgdt" /\ last' = last /\ fails' \in {fails, fails + 1}
        /\ job' = [job EXCEPT !.pc = "sb"]
        /\ disk' = [disk EXCEPT !.bgdt = mem.bgdt] \/ disk' = disk
    BY DEF write_bgdt_to_disk, Count
  <1>2. /\ Sound(disk, node, job) /\ job # None /\ job \in Started /\ disk \in DiskType
        /\ Kept(disk, last) /\ Zero(disk.blk, 0) /\ job.fails <= fails /\ fails \in Nat
        /\ Prepared(disk, last, job) /\ (job.fails = fails => OnTrack(disk, job))
    BY <1>1, InProgress
  <1>3. PICK l : l = [job EXCEPT !.pc = "sb"]
    OBVIOUS
  <1>4. Tracked(disk, last, l, OnTrack(disk, job)) /\ l.fails = job.fails
    BY <1>1, <1>2, <1>3, CountsTracked
  <1>5. disk'.blk = disk.blk /\ disk'.bits = disk.bits /\ disk'.ino = disk.ino
    BY <1>1, <1>2 DEF DiskType
  <1>6. PICK E : E = disk'
    OBVIOUS
  <1>7. Kept(E, last) /\ Zero(E.blk, 0) /\ Tracked(E, last, l, OnTrack(disk, job))
    BY <1>2, <1>4, <1>5, <1>6, SameFiles
  <1>8. Tracked(disk', last', job', OnTrack(disk, job)) /\ job'.fails = job.fails
        /\ Kept(disk', last') /\ Zero(disk'.blk, 0)
    BY <1>1, <1>3, <1>4, <1>6, <1>7
  <1> QED
    BY <1>1, <1>2, <1>8, NextInCall

LEMMA SbWrites ==
    ASSUME Ext2Inv, WriteInv, write_sb_base_to_disk
    PROVE  WriteInv'
  <1>1. /\ job.pc = "sb" /\ last' = last /\ fails' \in {fails, fails + 1}
        /\ job' = Assigned(job, job.got)
        /\ disk' = [disk EXCEPT !.sb = mem.sb] \/ disk' = disk
    BY DEF write_sb_base_to_disk, Count
  <1>2. /\ Sound(disk, node, job) /\ job # None /\ job \in Started /\ disk \in DiskType
        /\ Kept(disk, last) /\ Zero(disk.blk, 0) /\ job.fails <= fails /\ fails \in Nat
        /\ Prepared(disk, last, job) /\ (job.fails = fails => OnTrack(disk, job))
        /\ AtStep(job, Current(disk, node, job), disk, node)
    BY <1>1, InProgress
  <1>3. Usable(job, job.got, disk, node) /\ job.got \in Nat
    BY <1>1, <1>2, CallTypes DEF AtStep, Usable
  <1>4. Knows(disk, last, job, job.got)
    BY <1>1, <1>2 DEF AtStep, Held, Knows, Prepared
  <1>5. PICK l : l = Assigned(job, job.got)
    OBVIOUS
  <1>6. Tracked(disk, last, l, OnTrack(disk, job)) /\ l.fails = job.fails
    BY <1>1, <1>2, <1>3, <1>4, <1>5, AssignTracked
  <1>7. disk'.blk = disk.blk /\ disk'.bits = disk.bits /\ disk'.ino = disk.ino
    BY <1>1, <1>2 DEF DiskType
  <1>8. PICK E : E = disk'
    OBVIOUS
  <1>9. Kept(E, last) /\ Zero(E.blk, 0) /\ Tracked(E, last, l, OnTrack(disk, job))
    BY <1>2, <1>6, <1>7, <1>8, SameFiles
  <1>10. Tracked(disk', last', job', OnTrack(disk, job)) /\ job'.fails = job.fails
         /\ Kept(disk', last') /\ Zero(disk'.blk, 0)
    BY <1>1, <1>5, <1>6, <1>8, <1>9
  <1> QED
    BY <1>1, <1>2, <1>10, NextInCall

\* A transfer that succeeds is done.
LEMMA EndsWell ==
    ASSUME NEW t, NEW e \in Ends(t)
    PROVE  e.ok \in BOOLEAN /\ (e.ok => e.done)
  <1>1. e = [ok |-> TRUE, done |-> TRUE] \/ e \in [ok: {FALSE}, done: BOOLEAN]
    BY DEF Ends
  <1>2. CASE e = [ok |-> TRUE, done |-> TRUE]
    <2>1. e.ok = TRUE /\ e.done = TRUE
      BY <1>2
    <2> QED
      BY <2>1
  <1>3. CASE e \in [ok: {FALSE}, done: BOOLEAN]
    <2>1. e.ok = FALSE
      BY <1>3
    <2> QED
      BY <2>1
  <1> QED
    BY <1>1, <1>2, <1>3

\* The word of the indirect block is known: an indirect block that has one is not
\* block 0, which holds zeros.
LEMMA ReadTracked ==
    ASSUME NEW D, NEW N, NEW j, Ready(D, N, j), j.pc = "read", InRange(j), Zero(D.blk, 0),
           NEW L, Prepared(D, L, j), NEW l, l = InIndirect(j, D)
    PROVE  Tracked(D, L, l, OnTrack(D, j)) /\ l.fails = j.fails
  <1>1. j \in Started /\ j # None /\ j.i \in Nat
    BY NoneFacts, CallTypes DEF Ready
  <1>2. ~ (j.i < NDirect) /\ j.i - NDirect < PerIndirect
    BY <1>1, Sizes0 DEF InRange
  <1>3. PICK w \in Nat : w = D.blk[j.ino.indirect][j.i - NDirect + 1]
    BY <1>2, WordOfIndirect
  <1>4. j.i - NDirect + 1 \in 1..2
    BY <1>2, WordOfIndirect
  <1>5. w # 0 => j.ino.indirect # 0
    BY <1>3, <1>4 DEF Zero
  <1>6. /\ l.pc = "data" => l.got = w /\ l.got # 0
        /\ l.pc = "alloc" => l.want = "word"
        /\ l.pc \in {"data", "alloc"}
    BY <1>1, <1>3, IndirectShape
  <1>7. l \in Calls /\ SameCall(j, l)
    <2>1. CASE w = 0
      <3>1. l = [j EXCEPT !.pc = "alloc", !.want = "word"]
        BY <1>3, <2>1 DEF InIndirect, ToAlloc
      <3> QED
        BY <1>1, <3>1 DEF Started, Calls, SameCall
    <2>2. CASE w # 0
      <3>1. l = ToBlock(j, w)
        BY <1>3, <2>2 DEF InIndirect
      <3> QED
        BY <1>1, <3>1, ToBlockFacts
    <2> QED
      BY <2>1, <2>2
  <1>8. /\ l.ino = j.ino /\ l.f = j.f /\ l.v = j.v /\ l.n = j.n /\ l.i = j.i /\ l.fails = j.fails
        /\ l # None
    BY <1>7, NoneFacts, CallsStarted DEF SameCall
  <1>9. Prepared(D, L, l)
    BY <1>6, <1>8 DEF Prepared
  <1>10. w # 0 => get_block_ptr(D, j.ino, j.i) = w
    BY <1>1, <1>2, <1>3, <1>5, Sizes0 DEF get_block_ptr
  <1>11. Reached(l) = Reached(j)
    BY <1>8 DEF Reached
  <1>12. OnTrack(D, j) => OnTrack(D, l)
    BY <1>6, <1>8, <1>10, <1>11 DEF OnTrack
  <1> QED
    BY <1>6, <1>8, <1>9, <1>12 DEF Tracked, Writing

LEMMA ReadWrites ==
    ASSUME Ext2Inv, WriteInv, read_indirect
    PROVE  WriteInv'
  <1>1. /\ job.pc = "read" /\ disk' = disk /\ last' = last /\ fails' \in {fails, fails + 1}
        /\ job' = InIndirect(job, disk) \/ job' = Wild(job)
    BY DEF read_indirect, Count
  <1>2. /\ Sound(disk, node, job) /\ job # None /\ job \in Started
        /\ Kept(disk, last) /\ Zero(disk.blk, 0) /\ job.fails <= fails /\ fails \in Nat
        /\ Prepared(disk, last, job) /\ (job.fails = fails => OnTrack(disk, job))
        /\ AtStep(job, Current(disk, node, job), disk, node)
    BY <1>1, InProgress
  <1>3. Ready(disk, node, job) /\ InRange(job)
    BY <1>1, <1>2, SoundReady DEF AtStep, InRange
  <1>4. CASE job' = Wild(job)
    BY <1>1, <1>2, <1>4, NotFollowed
  <1>5. CASE job' = InIndirect(job, disk)
    <2>1. PICK l : l = InIndirect(job, disk)
      OBVIOUS
    <2>2. Tracked(disk, last, l, OnTrack(disk, job)) /\ l.fails = job.fails
      BY <1>1, <1>2, <1>3, <2>1, ReadTracked
    <2>3. Tracked(disk', last', job', OnTrack(disk, job)) /\ job'.fails = job.fails
          /\ Kept(disk', last') /\ Zero(disk'.blk, 0)
      BY <1>1, <1>2, <1>5, <2>1, <2>2
    <2> QED
      BY <1>1, <1>2, <2>3, NextInCall
  <1> QED
    BY <1>1, <1>4, <1>5

LEMMA MetaWrites ==
    ASSUME Ext2Inv, WriteInv, write_block, job.got \in Meta
    PROVE  WriteInv'
  <1>1. job.pc = "data" /\ job' = Wild(job) /\ disk' = disk /\ last' = last /\ fails' = fails
    BY DEF write_block
  <1>2. job \in Started /\ Kept(disk, last) /\ Zero(disk.blk, 0) /\ job.fails <= fails /\ fails \in Nat
    BY <1>1, InProgress
  <1> QED
    BY <1>1, <1>2, NotFollowed

LEMMA IndirectWrites ==
    ASSUME Ext2Inv, WriteInv, write_indirect
    PROVE  WriteInv'
  <1>1. /\ job.pc = "ind" /\ last' = last /\ fails' \in {fails, fails + 1}
        /\ job' = ToBlock(job, job.got)
        /\ \/ disk' = disk /\ fails' = fails + 1
           \/ disk' = [disk EXCEPT !.blk[job.ino.indirect][job.i - NDirect + 1] = job.got]
    <2>1. PICK e \in Ends("ind_w") :
            /\ Count(e.ok)
            /\ disk' = IF e.done
                       THEN [disk EXCEPT !.blk[job.ino.indirect][job.i - NDirect + 1] = job.got]
                       ELSE disk
      BY DEF write_indirect
    <2>2. e.ok => e.done
      BY EndsWell
    <2>3. fails' = IF e.ok THEN fails ELSE fails + 1
      BY <2>1 DEF Count
    <2>4. job.pc = "ind" /\ last' = last /\ job' = ToBlock(job, job.got)
      BY DEF write_indirect
    <2> QED
      BY <2>1, <2>2, <2>3, <2>4
  <1>2. /\ Sound(disk, node, job) /\ job # None /\ job \in Started /\ disk \in DiskType
        /\ Kept(disk, last) /\ Zero(disk.blk, 0) /\ job.fails <= fails /\ fails \in Nat
        /\ Prepared(disk, last, job) /\ (job.fails = fails => OnTrack(disk, job))
    BY <1>1, InProgress
  <1>3. PICK E : E = disk'
    OBVIOUS
  <1>4. PICK l : l = ToBlock(job, job.got)
    OBVIOUS
  <1>5. WordSent(disk, E, job) /\ (fails' = fails => WordDone(disk, E, job))
    BY <1>1, <1>2, <1>3 DEF WordSent, WordDone
  <1>6. /\ Kept(E, last) /\ Zero(E.blk, 0) /\ Writing(l) /\ Prepared(E, last, l)
        /\ l.fails = job.fails /\ (WordDone(disk, E, job) /\ OnTrack(disk, job) => OnTrack(E, l))
    BY <1>1, <1>2, <1>4, <1>5, IndWrites
  <1>7. /\ Kept(disk', last') /\ Zero(disk'.blk, 0) /\ job'.fails = job.fails
        /\ Tracked(disk', last', job', OnTrack(E, l))
        /\ job.fails = fails /\ fails' = fails => OnTrack(E, l)
    BY <1>1, <1>2, <1>3, <1>4, <1>5, <1>6 DEF Tracked
  <1> QED
    BY <1>1, <1>2, <1>7, NextInCall

\* A call that gives up goes on to write its inode.
LEMMA EndTracked ==
    ASSUME NEW D, NEW E, NEW j \in Started, NEW L, Prepared(D, L, j),
           NEW l, l = [j EXCEPT !.pc = "inode"]
    PROVE  Tracked(E, L, l, OnTrack(E, l)) /\ l.fails = j.fails
  <1>1. l \in Calls /\ SameCall(j, l) /\ l.pc = "inode"
    BY DEF Started, Calls, SameCall
  <1>2. l.ino = j.ino /\ l.f = j.f /\ l.n = j.n /\ l.fails = j.fails /\ l # None
    BY <1>1, NoneFacts, CallsStarted DEF SameCall
  <1>3. Prepared(E, L, l)
    BY <1>1, <1>2 DEF Prepared
  <1> QED
    BY <1>1, <1>2, <1>3 DEF Tracked, Writing

\* A block is written, and the loop goes on with the next one.
LEMMA NextTracked ==
    ASSUME NEW D, NEW N, NEW j, Sound(D, N, j), j # None, j.pc = "data",
           NEW E, DataSent(D, E, j, 2), Zero(D.blk, 0), NEW L, Kept(D, L), Prepared(D, L, j),
           NEW l, l = Loop([j EXCEPT !.i = @ + 1])
    PROVE  Tracked(E, L, l, OnTrack(D, j)) /\ l.fails = j.fails
  <1>1. j \in Started
    BY SoundReady
  <1>2. PICK k : k = [j EXCEPT !.i = @ + 1]
    OBVIOUS
  <1>3. k.ino = j.ino /\ k.f = j.f /\ k.v = j.v /\ k.n = j.n /\ k.fails = j.fails
    BY <1>1, <1>2 DEF Started
  <1>4. Ready(E, N, k)
    <2>1. Ready(E, N, j)
      BY DataReady
    <2> QED
      BY <1>2, <2>1, NextBlock
  <1>5. k.ino.size = k.n /\ (k.f # 0 => L[k.f] = None)
    BY <1>3 DEF Prepared
  <1>6. /\ Tracked(E, L, l, Written(E, k.ino, k.f, k.v, Reached(k))) /\ l.fails = k.fails
    <2>1. l = Loop(k)
      BY <1>2
    <2> QED
      BY <1>4, <1>5, <2>1, LoopTracked
  <1>7. OnTrack(D, j) => Written(E, j.ino, j.f, j.v, Reached(k))
    BY <1>2, DataWrites
  <1> QED
    BY <1>3, <1>6, <1>7 DEF Tracked

LEMMA BlockWrites ==
    ASSUME Ext2Inv, WriteInv, write_block, job.got \notin Meta
    PROVE  WriteInv'
  <1>1. job.pc = "data" /\ last' = last
    BY DEF write_block
  <1>2. /\ Sound(disk, node, job) /\ job # None /\ job \in Started /\ disk \in DiskType
        /\ Kept(disk, last) /\ Zero(disk.blk, 0) /\ job.fails <= fails /\ fails \in Nat
        /\ Prepared(disk, last, job) /\ (job.fails = fails => OnTrack(disk, job))
        /\ AtStep(job, Current(disk, node, job), disk, node)
    BY <1>1, InProgress
  <1>3. job.got \in Blocks
    <2>1. job.got \in Gone(disk)
      BY <1>1, <1>2 DEF AtStep, Writable
    <2> QED
      BY <1>2, <2>1, OwnCopy DEF Spaces
  <1>4. PICK n : \/ /\ disk' = disk /\ job' = [job EXCEPT !.pc = "inode"] /\ fails' = fails + 1
                 \/ /\ DataSent(disk, disk', job, n)
                    /\ \/ n # 2 /\ job' = [job EXCEPT !.pc = "inode"] /\ fails' = fails + 1
                       \/ /\ n = 2 /\ job' = Loop([job EXCEPT !.i = @ + 1])
                          /\ fails' = fails
    BY <1>3 DEF write_block, Count, DataSent
  <1>5. PICK E : E = disk'
    OBVIOUS
  <1>6. PICK l : l = job'
    OBVIOUS
  <1>7. CASE disk' = disk /\ job' = [job EXCEPT !.pc = "inode"] /\ fails' = fails + 1
    <2>1. Tracked(E, last, l, OnTrack(E, l)) /\ l.fails = job.fails
      BY <1>2, <1>6, <1>7, EndTracked
    <2>2. /\ Kept(disk', last') /\ Zero(disk'.blk, 0) /\ job'.fails = job.fails
          /\ Tracked(disk', last', job', OnTrack(E, l))
          /\ fails' \in {fails, fails + 1} /\ fails' # fails
      BY <1>1, <1>2, <1>5, <1>6, <1>7, <2>1
    <2> QED
      BY <1>2, <2>2, NextInCall
  <1>8. CASE DataSent(disk, disk', job, n) /\ job' = [job EXCEPT !.pc = "inode"] /\ fails' = fails + 1
    <2>1. Tracked(E, last, l, OnTrack(E, l)) /\ l.fails = job.fails
      BY <1>2, <1>6, <1>8, EndTracked
    <2>2. Kept(E, last) /\ Zero(E.blk, 0)
      BY <1>1, <1>2, <1>5, <1>8, DataWrites
    <2>3. /\ Kept(disk', last') /\ Zero(disk'.blk, 0) /\ job'.fails = job.fails
          /\ Tracked(disk', last', job', OnTrack(E, l))
          /\ fails' \in {fails, fails + 1} /\ fails' # fails
      BY <1>1, <1>2, <1>5, <1>6, <1>8, <2>1, <2>2
    <2> QED
      BY <1>2, <2>3, NextInCall
  <1>9. CASE /\ DataSent(disk, disk', job, 2) /\ job' = Loop([job EXCEPT !.i = @ + 1])
             /\ fails' = fails
    <2>1. DataSent(disk, E, job, 2) /\ l = Loop([job EXCEPT !.i = @ + 1])
      BY <1>5, <1>6, <1>9
    <2>2. Kept(E, last) /\ Zero(E.blk, 0)
      BY <1>1, <1>2, <2>1, DataWrites
    <2>3. Tracked(E, last, l, OnTrack(disk, job)) /\ l.fails = job.fails
      BY <1>1, <1>2, <2>1, NextTracked
    <2>4. /\ Kept(disk', last') /\ Zero(disk'.blk, 0) /\ job'.fails = job.fails
          /\ Tracked(disk', last', job', OnTrack(disk, job)) /\ fails' \in {fails, fails + 1}
      BY <1>1, <1>5, <1>6, <1>9, <2>2, <2>3
    <2> QED
      BY <1>2, <2>4, NextInCall
  <1> QED
    BY <1>4, <1>7, <1>8, <1>9

\* The inode of a call is written: its write is the last one of its file.
EndOf(j, clean) == [v |-> j.v, n |-> j.n, clean |-> clean, done |-> Reached(j)]

Ended(L, K, j, clean) == K = [L EXCEPT ![j.f] = EndOf(j, clean)]

LEMMA EndKept ==
    ASSUME NEW D, NEW N, NEW j, Sound(D, N, j), j # None, j.pc = "inode", j.f # 0,
           NEW E, InodeSent(D, E, j), NEW L, Kept(D, L), Prepared(D, L, j),
           NEW clean \in BOOLEAN, clean => E.ino[j.f] = j.ino /\ OnTrack(D, j),
           NEW K, Ended(L, K, j, clean)
    PROVE  Kept(E, K)
  <1>1. j \in Started /\ Stored(D, N) /\ InodesKept(D, N) /\ OfFile(j, D, N)
    BY SoundReady DEF Sound
  <1>2. j.f \in Inodes /\ j.i \in Nat /\ j.n \in Nat /\ j.v \in 0..99
    BY <1>1, CallTypes
  <1>3. E.blk = D.blk /\ E.bits = D.bits /\ \A g \in Inodes : g # j.f => E.ino[g] = D.ino[g]
    BY DEF InodeSent
  <1>4. Full(D) => Full(E)
    BY <1>3 DEF Full
  <1>5. /\ \A ino, f, v, m : Written(E, ino, f, v, m) <=> Written(D, ino, f, v, m)
        /\ \A n, m : Enough(D, n, m) => Enough(E, n, m)
    BY <1>3, <1>4, SameBlocks
  <1>6. Reached(j) \in Nat /\ Reached(j) <= j.n
    BY <1>2 DEF Reached
  <1>7. PICK R : R = EndOf(j, clean)
    OBVIOUS
  <1>8. R.v = j.v /\ R.n = j.n /\ R.clean = clean /\ R.done = Reached(j) /\ R \in LastWrites
    BY <1>2, <1>6, <1>7 DEF EndOf, LastWrites
  <1>9. L \in [Inodes -> LastWrites \cup {None}]
    BY DEF Kept
  <1>10. /\ K \in [Inodes -> LastWrites \cup {None}] /\ K[j.f] = R
         /\ \A g \in Inodes : g # j.f => K[g] = L[g]
    BY <1>2, <1>7, <1>8, <1>9 DEF Ended
  <1>11. j.f - 1 \in D.bits["inode"]
    BY <1>1, <1>2 DEF OfFile, InodesKept
  <1>12. KeptOf(E, K, j.f)
    <2>1. ASSUME R.clean
          PROVE  /\ R.done <= E.ino[j.f].size /\ Written(E, E.ino[j.f], j.f, R.v, R.done)
                 /\ Enough(E, R.n, R.done)
      <3>1. E.ino[j.f] = j.ino /\ OnTrack(D, j)
        BY <1>8, <2>1
      <3>2. j.ino.size = j.n
        BY DEF Prepared
      <3>3. Written(D, j.ino, j.f, j.v, Reached(j)) /\ Enough(D, j.n, Reached(j))
        BY <3>1 DEF OnTrack
      <3> QED
        BY <1>5, <1>6, <1>8, <3>1, <3>2, <3>3
    <2> QED
      BY <1>3, <1>10, <1>11, <2>1 DEF KeptOf
  <1>13. ASSUME NEW g \in Inodes, g # j.f PROVE KeptOf(E, K, g)
    <2>1. KeptOf(D, L, g) /\ E.ino[g] = D.ino[g] /\ K[g] = L[g]
      BY <1>3, <1>10, <1>13 DEF Kept
    <2> QED
      BY <1>3, <1>5, <2>1 DEF KeptOf
  <1> QED
    BY <1>10, <1>12, <1>13 DEF Kept

LEMMA InodeWrites ==
    ASSUME Ext2Inv, WriteInv, write_inode
    PROVE  WriteInv'
  <1>1. job.pc = "inode"
    BY DEF write_inode
  <1>2. /\ Sound(disk, node, job) /\ job # None /\ job \in Started /\ disk \in DiskType
        /\ Kept(disk, last) /\ Zero(disk.blk, 0) /\ job.fails <= fails /\ job.fails \in Nat
        /\ fails \in Nat
        /\ Prepared(disk, last, job) /\ (job.fails = fails => OnTrack(disk, job))
    BY <1>1, InProgress, CallTypes
  <1>3. CASE job.f = 0
    <2>1. job' = Wild(job) /\ disk' = disk /\ last' = last /\ fails' = fails
      BY <1>3 DEF write_inode
    <2> QED
      BY <1>2, <2>1, NotFollowed
  <1>4. CASE job.f # 0
    <2>1. job.f \in Inodes /\ job.ino \in Inode
      BY <1>2, <1>4, CallTypes
    <2>2. PICK e \in Ends("inode_w") :
            /\ Count(e.ok)
            /\ disk' = IF e.done THEN [disk EXCEPT !.ino[job.f] = job.ino] ELSE disk
            /\ last' = [last EXCEPT ![job.f] =
                          [v |-> job.v, n |-> job.n, clean |-> e.ok /\ fails = job.fails,
                           done |-> IF 2 * job.i < job.n THEN 2 * job.i ELSE job.n]]
            /\ job' = IF job.call = "write" THEN None ELSE [job EXCEPT !.pc = "dir"]
      BY <1>4 DEF write_inode
    <2>3. PICK clean \in BOOLEAN : clean = (e.ok /\ fails = job.fails)
      BY EndsWell
    <2>4. PICK E : E = disk'
      OBVIOUS
    <2>5. InodeSent(disk, E, job) /\ E.blk = disk.blk /\ (e.ok => E.ino[job.f] = job.ino)
      <3>1. CASE E = disk /\ ~ e.done
        <4>1. ~ e.ok
          BY <3>1, EndsWell
        <4> QED
          BY <1>2, <3>1, <4>1 DEF InodeSent
      <3>2. CASE E = [disk EXCEPT !.ino[job.f] = job.ino]
        BY <1>2, <2>1, <3>2, InodeFacts DEF InodeSent
      <3> QED
        BY <2>2, <2>4, <3>1, <3>2
    <2>6. PICK K : K = [last EXCEPT ![job.f] = EndOf(job, clean)]
      OBVIOUS
    <2>7. last' = K
      BY <2>2, <2>3, <2>6 DEF EndOf, Reached
    <2>8. clean => E.ino[job.f] = job.ino /\ OnTrack(disk, job)
      BY <1>2, <2>3, <2>5
    <2>9. Kept(E, K)
      <3>1. Ended(last, K, job, clean)
        BY <2>6 DEF Ended
      <3> QED
        BY <1>1, <1>2, <1>4, <2>5, <2>8, <3>1, EndKept
    <2>10. fails' \in {fails, fails + 1}
      BY <2>2 DEF Count
    <2>11. job' = None \/ (job'.pc = "dir" /\ job'.fails = job.fails)
      BY <1>2, <2>2 DEF Started
    <2>12. InCall(disk', last', job', fails')
      <3>1. Zero(disk'.blk, 0)
        BY <1>2, <2>4, <2>5
      <3>2. job' # None => job'.fails <= fails'
        BY <1>2, <2>10, <2>11
      <3> QED
        BY <2>11, <3>1, <3>2 DEF InCall, Writing
    <2> QED
      BY <2>4, <2>7, <2>9, <2>12 DEF WriteInv
  <1> QED
    BY <1>3, <1>4

\* No call writes: the last writes stay with the blocks and inodes.
LEMMA IdleKept ==
    ASSUME NEW D, NEW E, E.blk = D.blk, E.bits = D.bits, E.ino = D.ino, NEW L, Kept(D, L),
           Zero(D.blk, 0), NEW l, ~ Writing(l), NEW F, l # None => l.fails <= F
    PROVE  Kept(E, L) /\ InCall(E, L, l, F)
  <1>1. Full(D) => Full(E)
    BY DEF Full
  <1>2. Kept(E, L)
    BY <1>1, SameBlocks
  <1> QED
    BY <1>2 DEF InCall

LEMMA LinkWrites ==
    ASSUME Ext2Inv, WriteInv, link
    PROVE  WriteInv'
  <1>1. Sound(disk, node, job) /\ job.pc = "dir" /\ last' = last /\ job # None /\ fails \in Nat
    BY NoneFacts DEF Ext2Inv, Ext2Base, link
  <1>2. job \in Started /\ Kept(disk, last) /\ Zero(disk.blk, 0) /\ job.fails <= fails
    BY <1>1, SoundReady DEF WriteInv, InCall
  <1>3. CASE Len(disk.dir) >= DirRoom
    <2>1. job' = Wild(job) /\ disk' = disk /\ fails' = fails
      BY <1>3 DEF link
    <2> QED
      BY <1>1, <1>2, <2>1, NotFollowed
  <1>4. CASE ~ (Len(disk.dir) >= DirRoom)
    <2>1. /\ disk' = disk \/ disk' = [disk EXCEPT !.dir = Append(@, job.f)]
          /\ job' = None
      BY <1>4 DEF link
    <2>2. PICK E : E = disk'
      OBVIOUS
    <2>3. E = disk \/ E = [disk EXCEPT !.dir = Append(@, job.f)]
      BY <2>1, <2>2
    <2>4. E.bits = disk.bits /\ E.ino = disk.ino /\ E.blk = disk.blk
      BY <1>1, <2>3, LinkSound
    <2>5. Kept(E, last) /\ InCall(E, last, None, fails')
      BY <1>2, <2>4, IdleKept DEF Writing
    <2> QED
      BY <1>1, <2>1, <2>2, <2>5 DEF WriteInv
  <1> QED
    BY <1>3, <1>4

LEMMA PowerWrites ==
    ASSUME Ext2Inv, WriteInv, power_loss
    PROVE  WriteInv'
  <1>1. disk' = disk /\ last' = last /\ job' = None
    BY DEF power_loss
  <1>2. Kept(disk, last) /\ Zero(disk.blk, 0)
    BY DEF WriteInv, InCall
  <1> QED
    BY <1>1, <1>2 DEF WriteInv, InCall, Writing

LEMMA CallWrites ==
    ASSUME Ext2Inv, WriteInv, Begins
    PROVE  WriteInv'
  <1>1. Sound(disk, node, None) /\ ops \in 0..MaxOps /\ job = None /\ fails \in Nat
    BY DEF Begins, Ext2Inv, Ext2Base, vfs_open, fd_remove, write_file, create_file
  <1>2. Kept(disk, last) /\ Zero(disk.blk, 0)
    BY DEF WriteInv, InCall
  <1>3. MaxOps \in Nat /\ MaxOps < 100 /\ Sizes \subseteq Nat
    BY Ext2Assumption
  <1>4. ASSUME NEW f \in Inodes, vfs_open(f) \/ fd_remove(f) PROVE WriteInv'
    <2>1. disk' = disk /\ last' = last /\ job' = None
      BY <1>1, <1>4 DEF vfs_open, fd_remove
    <2> QED
      BY <1>2, <2>1 DEF WriteInv, InCall, Writing
  <1>5. ASSUME NEW f \in Inodes, NEW n \in Sizes, write_file(f, n) PROVE WriteInv'
    <2>1. /\ disk' = disk /\ ops' = ops + 1 /\ node[f] # None /\ ops < MaxOps /\ fails' = fails
          /\ last' = [last EXCEPT ![f] = None]
      BY <1>5 DEF write_file
    <2>2. ops' \in 0..99 /\ n \in Nat
      BY <1>1, <1>3, <2>1
    <2>3. PICK a : a = [node[f] EXCEPT !.size = n]
      OBVIOUS
    <2>4. a \in Inode /\ a.direct = node[f].direct /\ a.indirect = node[f].indirect /\ a.size = n
      <3>1. node[f] \in Inode
        BY <1>1, <2>1, SoundReady, StoredFacts
      <3> QED
        BY <2>2, <2>3, <3>1 DEF Inode
    <2>5. PICK k : k = [pc |-> "", call |-> "write", f |-> f, v |-> ops', n |-> n, i |-> 0,
                        ino |-> a, want |-> "", got |-> 0, fails |-> fails]
      OBVIOUS
    <2>6. job' = Loop(k)
      BY <1>5, <2>3, <2>5 DEF write_file
    <2>7. /\ k \in Started /\ k.call = "write" /\ k.f = f /\ k.pc = "" /\ k.ino = a
          /\ k.n = n /\ k.i = 0 /\ k.fails = fails
      BY <1>1, <2>2, <2>4, <2>5 DEF Started
    <2>8. Ready(disk, node, k)
      BY <1>1, <2>1, <2>4, <2>7, WriteStarts
    <2>9. PICK K : K = [last EXCEPT ![f] = None]
      OBVIOUS
    <2>10. last \in [Inodes -> LastWrites \cup {None}]
      BY <1>2 DEF Kept
    <2>11. /\ K \in [Inodes -> LastWrites \cup {None}] /\ K[f] = None
           /\ \A g \in Inodes : g # f => K[g] = last[g]
      BY <2>9, <2>10
    <2>12. Kept(disk, K)
      <3>1. ASSUME NEW g \in Inodes PROVE KeptOf(disk, K, g)
        <4>1. KeptOf(disk, last, g) /\ (K[g] = None \/ K[g] = last[g])
          BY <1>2, <2>11 DEF Kept
        <4> QED
          BY <4>1 DEF KeptOf
      <3> QED
        BY <2>11, <3>1 DEF Kept
    <2>13. k.ino.size = k.n /\ (k.f # 0 => K[k.f] = None)
      BY <2>4, <2>7, <2>11
    <2>14. PICK l : l = Loop(k)
      OBVIOUS
    <2>15. /\ Tracked(disk, K, l, Written(disk, k.ino, k.f, k.v, Reached(k)))
           /\ l.fails = k.fails
      BY <2>8, <2>13, <2>14, LoopTracked
    <2>16. Written(disk, k.ino, k.f, k.v, Reached(k))
      <3>1. k.i = 0 /\ k.n = n /\ n \in Nat
        BY <2>2, <2>7
      <3>2. Reached(k) = 0
        BY <3>1 DEF Reached
      <3> QED
        BY <3>2 DEF Written
    <2>17. l.fails = fails
      BY <2>7, <2>15
    <2>18. InCall(disk, K, l, fails)
      BY <1>1, <1>2, <2>15, <2>16, <2>17 DEF InCall, Tracked
    <2> QED
      BY <2>1, <2>6, <2>9, <2>12, <2>14, <2>18 DEF WriteInv
  <1>6. ASSUME NEW n \in Sizes, create_file(n) PROVE WriteInv'
    <2>1. disk' = disk /\ ops' = ops + 1 /\ ops < MaxOps /\ fails' = fails /\ last' = last
      BY <1>6 DEF create_file
    <2>2. n \in Nat
      BY <1>3
    <2>3. PICK a : a = [Blank EXCEPT !.used = TRUE, !.size = n]
      OBVIOUS
    <2>4. a.size = n
      BY <2>3, BlankInode DEF Inode
    <2>5. PICK k : k = [pc |-> "alloc", call |-> "create", f |-> 0, v |-> ops', n |-> n, i |-> 0,
                        ino |-> a, want |-> "inode", got |-> 0, fails |-> fails]
      OBVIOUS
    <2>6. job' = k
      BY <1>6, <2>3, <2>5 DEF create_file
    <2>7. /\ k.f = 0 /\ k.pc = "alloc" /\ k.want = "inode" /\ k.ino = a /\ k.n = n /\ k.i = 0
          /\ k.fails = fails
      BY <2>5
    <2>8. Prepared(disk, last, k)
      BY <2>4, <2>7 DEF Prepared
    <2>9. OnTrack(disk, k)
      <3>1. Reached(k) = 0
        BY <2>2, <2>7 DEF Reached
      <3> QED
        BY <2>7, <3>1 DEF OnTrack, Written
    <2>10. InCall(disk, last, k, fails)
      BY <1>1, <1>2, <2>7, <2>8, <2>9 DEF InCall
    <2> QED
      BY <1>2, <2>1, <2>6, <2>10 DEF WriteInv
  <1> QED
    BY <1>4, <1>5, <1>6 DEF Begins

-----------------------------------------------------------------------------
(* The theorem *)

LEMMA WriteStep ==
    ASSUME BitmapsRead, Ext2Inv, WriteInv, [Next]_vars
    PROVE  WriteInv'
  <1>1. CASE UNCHANGED vars
    BY <1>1 DEF vars, WriteInv
  <1>2. CASE Begins
    BY <1>2, CallWrites
  <1>3. CASE alloc
    BY <1>3, AllocWrites
  <1>4. CASE write_bgdt_to_disk
    BY <1>4, BgdtWrites
  <1>5. CASE write_sb_base_to_disk
    BY <1>5, SbWrites
  <1>6. CASE write_indirect
    BY <1>6, IndirectWrites
  <1>7. CASE write_block /\ job.got \notin Meta
    BY <1>7, BlockWrites
  <1>8. CASE write_inode
    BY <1>8, InodeWrites
  <1>9. CASE link
    BY <1>9, LinkWrites
  <1>10. CASE power_loss
    BY <1>10, PowerWrites
  <1>11. CASE read_indirect
    BY <1>11, ReadWrites
  <1>12. CASE write_block /\ job.got \in Meta
    BY <1>12, MetaWrites
  <1> QED
    BY <1>1, <1>2, <1>3, <1>4, <1>5, <1>6, <1>7, <1>8, <1>9, <1>10, <1>11, <1>12 DEF Next, Begins

LEMMA WriteInit == Init => WriteInv
  <1> SUFFICES ASSUME Init PROVE WriteInv
    OBVIOUS
  <1>1. PICK D : D = NewDisk
    OBVIOUS
  <1>2. Zero(D.blk, 0)
    BY <1>1, NewDiskFacts
  <1>3. disk = D /\ job = None /\ last = [f \in Inodes |-> None]
    BY <1>1 DEF Init
  <1>4. Kept(D, last)
    BY <1>3 DEF Kept, KeptOf
  <1> QED
    BY <1>2, <1>3, <1>4 DEF WriteInv, InCall, Writing

\* A write that fs_ext2_write_file ended without an error stays on the disk, in the
\* words that it returned, until the file is written again: other calls, failed
\* transfers and power losses leave it there.  It wrote less than it was asked to
\* only at the file's limit or on a full disk.  This as long as only spare blocks were
\* handed out, and on a disk whose bitmaps can be read.
THEOREM WritesStay == BitmapsRead => (Spec => []WritesLast)
  <1> SUFFICES ASSUME BitmapsRead PROVE Spec => []WritesLast
    OBVIOUS
  <1>1. Init => WriteInv
    BY WriteInit
  <1>2. Ext2Kept /\ (~stray => WriteInv) /\ [Next]_vars => (~stray' => WriteInv')
    <2> SUFFICES ASSUME Ext2Kept, ~stray => WriteInv, [Next]_vars, ~stray' PROVE WriteInv'
      OBVIOUS
    <2>1. ~stray
      BY HistoryNext DEF Ext2Kept, Ext2Base
    <2>2. Ext2Inv /\ WriteInv
      BY <2>1 DEF Ext2Kept
    <2> QED
      BY <2>2, WriteStep
  <1>3. Ext2Kept /\ (~stray => WriteInv) => WritesLast
    BY InvLast DEF Ext2Kept, WritesLast
  <1> QED
    BY <1>1, <1>2, <1>3, Ext2Invariant, PTL DEF Spec
=============================================================================
