-------------------------------- MODULE Ext2 --------------------------------
(***************************************************************************)
(* The ext2 driver: block and inode allocation, files and one directory,   *)
(* over a disk whose transfers fail and a machine that loses power.        *)
(*                                                                         *)
(* Every call runs with interrupts off, so calls do not interleave.  What  *)
(* does come between two steps of a call is a transfer that fails or the   *)
(* power going: one action is one ata_write, with the reads and the work   *)
(* in memory before it, or one read whose failure the code passes over.    *)
(* The call in progress is the record "job"; one that goes on with a       *)
(* buffer it has freed or never filled, or that writes over the file       *)
(* system's own blocks, goes "wild" and is not followed.                   *)
(*                                                                         *)
(* A block is two sectors of one word each.  A word is a number: data, or  *)
(* a block number in an indirect block.                                    *)
(***************************************************************************)
EXTENDS Integers, Sequences, FiniteSets

CONSTANTS
    NGroups,        \* __fs_ext2_nb_block_groups
    PerGroup,       \* [block |-> blocks, inode |-> inodes] of a group
    FirstData,      \* number of the block that bit 0 of the first bitmap stands for
    NDirect,        \* direct block pointers of an inode (12)
    PerIndirect,    \* words of an indirect block used (block size / 4)
    Meta,           \* blocks taken by the file system itself and its directory
    Made,           \* files on the new disk: the one block of inodes 1, 2, ...
    Leftover,       \* the word that the free blocks of the new disk hold
    Sizes,          \* sizes of writes, in words
    DirRoom,        \* entries that fit in the directory's last block
    Fails,          \* the transfers that may fail
    MaxOps, MaxFails, MaxCrashes    \* bounds: calls, failed transfers, power losses

Kinds     == {"block", "inode"}
Groups    == 0..(NGroups - 1)
Bits(k)   == 0..(NGroups * PerGroup[k] - 1)
Blocks    == 0..(NGroups * PerGroup["block"] - 1 + FirstData)
Inodes    == 1..(NGroups * PerGroup["inode"])

\* Transfers that may fail.
Transfers == {"bitmap_r", "bitmap_w", "bgdt_w", "sb_w", "ind_r", "ind_w", "data_r",
              "data_w", "inode_w", "dir_w"}

ASSUME Ext2Assumption ==
    /\ {NGroups, NDirect, PerIndirect, DirRoom} \subseteq Nat \ {0}
    /\ PerGroup \in [Kinds -> Nat \ {0}]
    /\ FirstData \in {0, 1} /\ PerIndirect <= 2
    /\ Meta \subseteq Blocks /\ 0 \in Meta /\ Leftover \in Nat
    /\ Made \in Seq(Blocks \ Meta) /\ Len(Made) \in Inodes /\ Len(Made) <= DirRoom
    /\ \A f, g \in DOMAIN Made : f # g => Made[f] # Made[g]
    /\ Sizes \subseteq Nat /\ Fails \subseteq Transfers
    /\ {MaxOps, MaxFails, MaxCrashes} \subseteq Nat /\ MaxOps < 100    \* see Word

VARIABLES
    disk,       \* what is on the disk
    mem,        \* the cached descriptor table and superblock
    node,       \* the inode copy of each open file's descriptor table entry
    job,        \* the call in progress
    last,       \* history: the last write to each file that came to its end
    stray,      \* history: alloc_block has given a block that was not spare
    ops, fails, crashes     \* calls, failed transfers and power losses so far

vars == <<disk, mem, node, job, last, stray, ops, fails, crashes>>

Least(S) == CHOOSE x \in S : \A y \in S : x <= y
None     == [pc |-> "none"]

\* fs_ext2_inode: size_low_bits, the direct pointers and the singly indirect one.
Blank == [used |-> FALSE, size |-> 0, direct |-> [i \in 0..(NDirect - 1) |-> 0], indirect |-> 0]

\* The v-th version of the words of file f, and where they lie in blocks.
Word(f, v)   == 100 * f + v
Data(f, v, n) == [x \in 1..n |-> Word(f, v)]

ClearBits(D, k, g) == {b \in Bits(k) : b \div PerGroup[k] = g /\ b \notin D.bits[k]}

\* The blocks in use on the new disk.
Taken == Meta \cup {Made[f] : f \in DOMAIN Made}

\* The disk as mkfs.ext2 leaves it, with the files copied to it: its free blocks
\* hold zeros on an image that was filled once, old words on one filled again.
NewDisk ==
    LET used == [k \in Kinds |->
                   IF k = "block" THEN {b - FirstData : b \in Taken \ 0..(FirstData - 1)}
                   ELSE {f - 1 : f \in DOMAIN Made}]
        free == [k \in Kinds |-> [g \in Groups |->
                   Cardinality({b \in Bits(k) \ used[k] : b \div PerGroup[k] = g})]]
    IN [bits |-> used,
        bgdt |-> free,
        sb   |-> [k \in Kinds |-> Cardinality(Bits(k) \ used[k])],
        ino  |-> [f \in Inodes |->
                    IF f \in DOMAIN Made
                    THEN [Blank EXCEPT !.used = TRUE, !.size = 2, !.direct[0] = Made[f]] ELSE Blank],
        blk  |-> [b \in Blocks |->
                    IF \E f \in DOMAIN Made : Made[f] = b
                    THEN Data(CHOOSE f \in DOMAIN Made : Made[f] = b, 0, 2)
                    ELSE IF b \in Meta THEN <<0, 0>> ELSE <<Leftover, Leftover>>],
        dir  |-> [f \in DOMAIN Made |-> f]]

\* The blocks that are free on the new disk, and hold zeros.
Spare == {b \in Blocks \ Taken : Leftover = 0}

\* Mutant: the superblock is not read.
init_without_sb(D) == [bgdt |-> D.bgdt, sb |-> [k \in Kinds |-> 0]]

\* fs_init: fs_ext2_read_superblock and fs_ext2_read_bgdt cache the counts.
fs_init(D) == [bgdt |-> D.bgdt, sb |-> D.sb]

Init ==
    /\ disk = NewDisk
    /\ mem = fs_init(NewDisk)
    /\ node = [f \in Inodes |-> None]
    /\ job = None
    /\ last = [f \in Inodes |-> None]
    /\ stray = FALSE
    /\ ops = 0 /\ fails = 0 /\ crashes = 0

-----------------------------------------------------------------------------
(* Reading *)

\* __fs_ext2_get_block_ptr: the i-th block of a file, 0 for none.
get_block_ptr(D, ino, i) ==
    IF i < NDirect THEN ino.direct[i]
    ELSE IF i - NDirect >= PerIndirect \/ ino.indirect = 0 THEN 0
    ELSE D.blk[ino.indirect][i - NDirect + 1]

\* fs_ext2_read_file_contents of the file's size: up to the first block that is
\* not there.
read_file_contents(D, ino) ==
    LET nb    == (ino.size + 1) \div 2
        holes == {i \in 0..(nb - 1) : get_block_ptr(D, ino, i) \notin Blocks \ {0}}
        stop  == IF holes = {} THEN nb ELSE Least(holes)
    IN  [x \in 1..(IF 2 * stop < ino.size THEN 2 * stop ELSE ino.size) |->
            D.blk[get_block_ptr(D, ino, (x - 1) \div 2)][((x - 1) % 2) + 1]]

\* __syscall_open of a file that exists and whose inode can be read, as long as
\* the descriptor table has no entry for it (FdTable): __ext2_open's copy.
vfs_open(f) ==
    /\ job = None
    /\ (\E e \in DOMAIN disk.dir : disk.dir[e] = f) /\ disk.ino[f].used
    /\ node[f] = None
    /\ node' = [node EXCEPT ![f] = disk.ino[f]]
    /\ UNCHANGED <<disk, mem, job, last, stray, ops, fails, crashes>>

\* The last close of a file: fd_remove drops the entry.
fd_remove(f) ==
    /\ job = None
    /\ node[f] # None
    /\ node' = [node EXCEPT ![f] = None]
    /\ UNCHANGED <<disk, mem, job, last, stray, ops, fails, crashes>>

-----------------------------------------------------------------------------
(* Writing *)

\* How a transfer may end: well, or not.
Outcomes(t) == IF t \in Fails /\ fails < MaxFails THEN BOOLEAN ELSE {TRUE}
Count(ok)   == fails' = IF ok THEN fails ELSE fails + 1

\* How the write of a block of which one sector changes may end: a failed one may
\* have come after that sector.
Ends(t) ==
    {[ok |-> TRUE, done |-> TRUE]} \cup
        IF t \in Fails /\ fails < MaxFails THEN [ok: {FALSE}, done: BOOLEAN] ELSE {}

\* ata_write sends a block sector by sector; one that is not ready in time ends
\* it there.  The sectors sent, 2 when it succeeds.
Sent(t) == IF t \in Fails /\ fails < MaxFails THEN 0..2 ELSE {2}

\* The block with the first n sectors of new.
ata_write(old, new, n) == [x \in 1..2 |-> IF x <= n THEN new[x] ELSE old[x]]

\* What a job does next once it has its block: write it, or stop without one.
ToBlock(j, b)    == [j EXCEPT !.pc = IF b = 0 THEN "inode" ELSE "data", !.got = b]
ToAlloc(j, want) == [j EXCEPT !.pc = "alloc", !.want = want]

\* The call goes on in a way that is not followed.
Wild(j) == [j EXCEPT !.pc = "wild"]

\* The word of the indirect block, taken as it is found on the disk.
InIndirect(j, D) ==
    LET w == D.blk[j.ino.indirect][j.i - NDirect + 1]
    IN  IF w = 0 THEN ToAlloc(j, "word") ELSE ToBlock(j, w)

\* __fs_ext2_get_or_alloc_block_ptr for block j.i, up to its first allocation or to
\* the read of the indirect block.
get_or_alloc_block_ptr(j) ==
    IF j.i < NDirect
    THEN IF j.ino.direct[j.i] = 0 THEN ToAlloc(j, "direct") ELSE ToBlock(j, j.ino.direct[j.i])
    ELSE IF j.i - NDirect >= PerIndirect THEN ToBlock(j, 0)
    ELSE IF j.ino.indirect = 0 THEN ToAlloc(j, "indirect") ELSE [j EXCEPT !.pc = "read"]

\* Mutant: a last block that is not full is left out.
loop_whole_blocks(j) ==
    IF 2 * j.i + 2 <= j.n THEN get_or_alloc_block_ptr(j) ELSE [j EXCEPT !.pc = "inode"]

\* The head of fs_ext2_write_file's loop.
Loop(j) == IF 2 * j.i < j.n THEN get_or_alloc_block_ptr(j) ELSE [j EXCEPT !.pc = "inode"]

\* Where the number that an allocation gave goes; 0 if there was none.
Assigned(j, b) ==
    CASE j.want = "direct"   -> ToBlock([j EXCEPT !.ino.direct[j.i] = b], b)
      [] j.want = "indirect" -> [j EXCEPT !.ino.indirect = b, !.pc = "read"]
      [] j.want = "word"     -> [j EXCEPT !.pc = "ind", !.got = b]
      [] j.want = "inode"    -> Loop([j EXCEPT !.f = b])

\* fs_ext2_write_file is called, by __syscall_write_file through a descriptor.
write_file(f, n) ==
    /\ job = None /\ ops < MaxOps
    /\ node[f] # None
    /\ ops' = ops + 1
    /\ job' = Loop([pc |-> "", call |-> "write", f |-> f, v |-> ops', n |-> n, i |-> 0,
                    ino |-> [node[f] EXCEPT !.size = n], want |-> "", got |-> 0, fails |-> fails])
    /\ last' = [last EXCEPT ![f] = None]
    /\ UNCHANGED <<disk, mem, node, stray, fails, crashes>>

\* fs_ext2_create_file is called: an inode is allocated first.
create_file(n) ==
    /\ job = None /\ ops < MaxOps
    /\ ops' = ops + 1
    /\ job' = [pc |-> "alloc", call |-> "create", f |-> 0, v |-> ops', n |-> n, i |-> 0,
               ino |-> [Blank EXCEPT !.used = TRUE, !.size = n], want |-> "inode", got |-> 0, fails |-> fails]
    /\ UNCHANGED <<disk, mem, node, last, stray, fails, crashes>>

Wanted == IF job.want = "inode" THEN "inode" ELSE "block"

\* Mutant: inodes are numbered as blocks are.
numbered_from_zero(k, b) == b

\* The number of the block or inode that a bit stands for, as the code has it.
Numbered(k, b) == IF k = "inode" THEN b + 1 ELSE b

\* Mutant: the bitmap with the new bit does not go to the disk.
mark_in_memory(D, k, b) == D

\* The bitmap is written back with the bit set.
Marked(D, k, b) == [D EXCEPT !.bits[k] = @ \cup {b}]

\* Mutant: always counted in the first group.
count_in_first(M, k, g) == [M EXCEPT !.bgdt[k][0] = @ - 1, !.sb[k] = @ - 1]

\* The cached counts after an allocation in group g.
Counted(M, k, g) == [M EXCEPT !.bgdt[k][g] = @ - 1, !.sb[k] = @ - 1]

\* fs_ext2_alloc_block and fs_ext2_alloc_inode with the write of the bitmap: the
\* first clear bit of the first group whose count is not 0 and whose bitmap can
\* be read.  When the write fails the search goes on in the freed bitmap.
alloc ==
    /\ job.pc = "alloc"
    /\ \E ok \in Outcomes("bitmap_r") :
        LET k    == Wanted
            full == {g \in Groups : mem.bgdt[k][g] = 0 \/ ClearBits(disk, k, g) = {}}
            try  == Groups \ full
            grps == IF ok \/ try = {} THEN try ELSE try \ {Least(try)}
            g    == Least(grps)
            b    == Least(ClearBits(disk, k, g))
        IN  \/ /\ grps = {}
               /\ Count(ok)
               /\ job' = Assigned(job, 0)
               /\ UNCHANGED <<disk, mem, stray>>
            \/ /\ grps # {}
               /\ Count(ok)
               /\ disk' = Marked(disk, k, b)
               /\ mem' = Counted(mem, k, g)
               /\ job' = [job EXCEPT !.pc = "bgdt", !.got = Numbered(k, b)]
               /\ stray' = (stray \/ (k = "block" /\ Numbered(k, b) \notin Spare))
            \/ /\ grps # {}
               /\ FALSE \in Outcomes("bitmap_w") /\ Count(FALSE)
               /\ job' = Wild(job)
               /\ UNCHANGED <<disk, mem, stray>>
    /\ UNCHANGED <<node, last, ops, crashes>>

\* __fs_ext2_write_bgdt_to_disk.
write_bgdt_to_disk ==
    /\ job.pc = "bgdt"
    /\ \E e \in Ends("bgdt_w") :
        /\ Count(e.ok)
        /\ disk' = IF e.done THEN [disk EXCEPT !.bgdt = mem.bgdt] ELSE disk
    /\ job' = [job EXCEPT !.pc = "sb"]
    /\ UNCHANGED <<mem, node, last, stray, ops, crashes>>

\* __fs_ext2_write_sb_base_to_disk; the allocation is then done.
write_sb_base_to_disk ==
    /\ job.pc = "sb"
    /\ \E e \in Ends("sb_w") :
        /\ Count(e.ok)
        /\ disk' = IF e.done THEN [disk EXCEPT !.sb = mem.sb] ELSE disk
    /\ job' = Assigned(job, job.got)
    /\ UNCHANGED <<mem, node, last, stray, ops, crashes>>

\* The indirect block is read; when that fails the code goes on with what its buffer
\* happened to hold.
read_indirect ==
    /\ job.pc = "read"
    /\ \E ok \in Outcomes("ind_r") :
        /\ Count(ok)
        /\ job' = IF ok /\ job.ino.indirect \notin Meta \ {0} THEN InIndirect(job, disk) ELSE Wild(job)
    /\ UNCHANGED <<disk, mem, node, last, stray, ops, crashes>>

\* The indirect block goes back with its new word; the result is not looked at.
write_indirect ==
    /\ job.pc = "ind"
    /\ \E e \in Ends("ind_w") :
        /\ Count(e.ok)
        /\ disk' = IF e.done THEN [disk EXCEPT !.blk[job.ino.indirect][job.i - NDirect + 1] = job.got]
                   ELSE disk
    /\ job' = ToBlock(job, job.got)
    /\ UNCHANGED <<mem, node, last, stray, ops, crashes>>

\* The block as write_file leaves it: what the call does not write stays.
Filled(j, old) == [x \in 1..2 |-> IF 2 * j.i + x <= j.n THEN Word(j.f, j.v) ELSE old[x]]

\* One block of fs_ext2_write_file, read and written back.  A failed read, or a
\* number beyond the disk, ends the loop, as a failed write does.  The number of a
\* block of the file system itself is taken too, and the block written over.
write_block ==
    /\ job.pc = "data"
    /\ IF job.got \in Meta
       THEN job' = Wild(job) /\ UNCHANGED <<disk, fails>>
       ELSE \E ok \in Outcomes("data_r"), n \in Sent("data_w") :
            LET read == ok /\ job.got \in Blocks
                done == read /\ n = 2
                D    == IF read
                        THEN [disk EXCEPT !.blk[job.got] = ata_write(@, Filled(job, @), n)] ELSE disk
            IN  /\ ok \/ n = 2
                /\ Count(ok /\ n = 2)
                /\ disk' = D
                /\ job' = IF done THEN Loop([job EXCEPT !.i = @ + 1]) ELSE [job EXCEPT !.pc = "inode"]
    /\ UNCHANGED <<mem, node, last, stray, ops, crashes>>

\* fs_ext2_write_inode ends write_file, which returns the words written.  Inode 0
\* lies before the inode table: what is then read and written is not known.
write_inode ==
    /\ job.pc = "inode"
    /\ IF job.f = 0
       THEN job' = Wild(job) /\ UNCHANGED <<disk, node, last, fails>>
       ELSE \E e \in Ends("inode_w") :
            /\ Count(e.ok)
            /\ disk' = IF e.done THEN [disk EXCEPT !.ino[job.f] = job.ino] ELSE disk
            /\ node' = IF job.call = "write" THEN [node EXCEPT ![job.f] = job.ino] ELSE node
            /\ last' = [last EXCEPT ![job.f] =
                          [v |-> job.v, n |-> job.n, clean |-> e.ok /\ fails = job.fails,
                           done |-> IF 2 * job.i < job.n THEN 2 * job.i ELSE job.n]]
            /\ job' = IF job.call = "write" THEN None ELSE [job EXCEPT !.pc = "dir"]
    /\ UNCHANGED <<mem, stray, ops, crashes>>

\* The tail of fs_ext2_create_file: the entry goes behind the last one, whether
\* there is room for it or not.
link ==
    /\ job.pc = "dir"
    /\ IF Len(disk.dir) >= DirRoom
       THEN job' = Wild(job) /\ UNCHANGED <<disk, fails>>
       ELSE \E e \in Ends("dir_w") :
            /\ Count(e.ok)
            /\ disk' = IF e.done THEN [disk EXCEPT !.dir = Append(@, job.f)] ELSE disk
            /\ job' = None
    /\ UNCHANGED <<mem, node, last, stray, ops, crashes>>

\* Power goes at any point that is followed; the next boot reads counts and inodes from the disk.
power_loss ==
    /\ job.pc # "wild"
    /\ crashes < MaxCrashes
    /\ crashes' = crashes + 1
    /\ mem' = fs_init(disk)
    /\ node' = [f \in Inodes |-> None]
    /\ job' = None
    /\ UNCHANGED <<disk, last, stray, ops, fails>>

Next ==
    \/ \E f \in Inodes : vfs_open(f) \/ fd_remove(f)
    \/ \E f \in Inodes, n \in Sizes : write_file(f, n)
    \/ \E n \in Sizes : create_file(n)
    \/ alloc \/ write_bgdt_to_disk \/ write_sb_base_to_disk
    \/ read_indirect \/ write_indirect \/ write_block \/ write_inode \/ link
    \/ power_loss

Spec == Init /\ [][Next]_vars

-----------------------------------------------------------------------------
Inode == [used: BOOLEAN, size: Nat, direct: [0..(NDirect - 1) -> Nat], indirect: Nat]

\* The type invariant: bitmaps, counts, inodes and pointers keep their types; no
\* count wraps below 0.
TypeOK ==
    /\ \A k \in Kinds :
        /\ disk.bits[k] \subseteq Bits(k)
        /\ {disk.bgdt[k], mem.bgdt[k]} \subseteq [Groups -> Nat]
        /\ disk.sb[k] \in Nat /\ mem.sb[k] \in Nat
    /\ disk.ino \in [Inodes -> Inode]
    /\ disk.blk \in [Blocks -> [1..2 -> Nat]]
    /\ \A f \in Inodes : node[f] = None \/ node[f] \in Inode

\* The places that claim a block: a file's direct pointers, its indirect pointer
\* and the words of its indirect block.
Places == Inodes \X (0..(NDirect + PerIndirect))
Claim(I, pl) ==
    LET ino == I[pl[1]] IN
    IF pl[2] < NDirect THEN ino.direct[pl[2]]
    ELSE IF pl[2] = NDirect THEN ino.indirect
    ELSE IF ino.indirect = 0 THEN 0 ELSE disk.blk[ino.indirect][pl[2] - NDirect]

\* The newest copy of each inode: a descriptor's, if the file is open.
Newest == [f \in Inodes |-> IF node[f] # None THEN node[f] ELSE disk.ino[f]]

\* No block belongs to two files, or twice to one, on the disk or in the copies
\* of open files.
NoSharedBlock ==
    \A I \in {disk.ino, Newest} : \A x, y \in Places :
        x # y /\ Claim(I, x) # 0 => Claim(I, x) # Claim(I, y)

\* As long as alloc_block has given out spare blocks only, no block is shared: over
\* failing transfers and losses of power it gives none out twice.
BlocksApart == ~stray => NoSharedBlock

\* An inode that a directory entry names is marked in its bitmap, and no two entries
\* name the same inode; as long as alloc_block has given out spare blocks only, so is
\* a block that the disk's inodes claim, under the number it was given out by: the
\* bitmap is written before anyone writes the entry or the pointer, so that power
\* lost in between loses an inode or a block but never gives one away.
ClaimedIsMarked ==
    /\ ~stray => \A x \in Places : Claim(disk.ino, x) # 0 =>
           \/ Claim(disk.ino, x) \in disk.bits["block"]
           \/ FirstData # 0 /\ Claim(disk.ino, x) \in Taken
    /\ \A e \in DOMAIN disk.dir : disk.dir[e] - 1 \in disk.bits["inode"]
    /\ \A d, e \in DOMAIN disk.dir : d # e => disk.dir[d] # disk.dir[e]

\* The counts never say less than the bitmaps, in memory and on the disk, though
\* they are written after them: alloc_block passes over no group that has room.
CountsCover ==
    \A k \in Kinds : \A C \in {mem, [bgdt |-> disk.bgdt, sb |-> disk.sb]} :
        /\ \A g \in Groups : C.bgdt[k][g] >= Cardinality(ClearBits(disk, k, g))
        /\ C.sb[k] >= Cardinality(Bits(k) \ disk.bits[k])

\* As long as alloc_block has given out spare blocks only, a file shows only words
\* that were written to it, whatever failed: neither those of another file nor an
\* indirect block's.
OnlyOwnWords ==
    ~stray => \A f \in Inodes : \A I \in {disk.ino, Newest} :
        LET c == read_file_contents(disk, I[f])
        IN  \A x \in DOMAIN c : c[x] = 0 \/ c[x] \div 100 = f

\* A write that met no error is on the disk, in the words that it returned,
\* until the file is written again: through a later power loss and other calls.
\* It wrote less than asked only when the file is at its limit or no block is free.
\* This too as long as alloc_block has given out spare blocks only.
WritesLast ==
    ~stray => \A f \in Inodes : (last[f] # None /\ last[f].clean) =>
        LET c == read_file_contents(disk, disk.ino[f])
        IN  /\ Len(c) >= last[f].done
            /\ \A x \in 1..last[f].done : c[x] = Word(f, last[f].v)
            /\ \/ last[f].done = last[f].n
               \/ last[f].n > 2 * (NDirect + PerIndirect)
               \/ disk.bits["block"] = Bits("block")
=============================================================================
