# Verification of kaku

kaku is a small 32-bit x86 kernel with a shell. This directory holds TLA+
models of its kernel, its user library and its shell, configurations that model-check them with TLC, and proofs
checked by TLAPS. `PROJECT.json` lists runs, mutants, the correspondence of
definitions and source lines, findings, hazards and theorems.

## The system

One CPU, no threads in the kernel. Every IDT gate is an interrupt gate
(`kernel/hw/src/idt.c`), so interrupt and system call handlers run to completion
with interrupts off. What interleaves is the *order of handlers*: timer ticks,
keys, page faults and the calls of the processes. State that outlives a handler
(a pointer kept in `__waiting_stdin`, a line handed over by reference, a frame
freed and handed out again) is where the system is hard to get right.

| Component | State | Operations | Interacts with |
|---|---|---|---|
| scheduler, process table (`proc/src/sched.c`) | array of processes, head index, current process | tick, yield, segfault switch, add, notify parent, reap | all calls that block or end a process |
| processes (`proc/src/proc.c`) | pid, state, parent, exit code, waited-for pid, descriptors, break, mmap regions | create, destroy, descriptor calls | heap, frames, descriptor table |
| system calls (`syscall/src/syscall.c`) | none of its own | 15 calls | everything |
| keyboard, stdin (`dev/src/kb.c`, `tty/src/stdin.c`) | one line buffer, one registered reader | key, backspace, Enter, read | scheduler (wake-up, deferred copy) |
| kernel heap (`mm/src/heap.c`) | free lists per order | kmalloc, kfree, krealloc | all kernel objects |
| frames, paging (`mm/src/frame.c`, `paging.c`) | bitmap, page directories and tables | alloc, free, map, create directory | ELF loader, sbrk, mmap, destroy |
| descriptors (`fs/src/fd.c`) | table of counted entries | new, find, remove | open, close |
| ELF loader (`elf/src/elf.c`) | none | load | VFS, processes, paging, scheduler |
| ext2, VFS, ATA (`fs/`, `dev/src/ata.c`) | superblock, descriptors, disk | read, write, allocate, create | descriptors, loader |
| terminal (`tty/src/tty.c`) | cells, cursor | put, backspace, scroll, flush | stdin, write, log |
| log, panic (`log/`, `panic/`) | sinks | write, panic | terminal |
| user library (`user_fs/lib/`) | user heap, environment | malloc, free, realloc, getenv, setenv, readdir | system calls |
| programs (`user_fs/src/`) | PWD and HOME of a shell | genkan starts kai; kai runs cd, exit, ls, cat, kai | user library, system calls |

What makes each correct: a runnable process runs, a dead one stays dead and is
collected once, a blocked one has a waker (scheduler); a line arrives as typed
(stdin); blocks and frames have one owner and none is lost (heap, frames); a
descriptor names its file (descriptors); pages granted stay mapped, each on a frame
of its own (paging); a block has one owner and a write that met no error stays, whatever
transfer fails and wherever power goes (ext2); what is printed and typed is what
the screen shows (terminal); an owner's bytes stay (user heap); a program gets the
words and the directory the user meant (shell).

## The modules

| Module | Models | Run by |
|---|---|---|
| `Sched` | scheduler, process table, exec, exit, kill, waitpid, read, timer, Enter, page fault | `MCSched` |
| `ProcLife` | abstract specification of process life, implemented by `Sched` | through `Sched` |
| `SchedProofs` | theorems about `Sched`: whatever programs do, without kill, and the refinement of `ProcLife` | TLAPS |
| `Stdin` | keyboard buffer, Enter, deferred copy of the line, the segfault switch that omits it | `MCStdin` |
| `StdinProofs` | theorems about `Stdin` | TLAPS |
| `KHeap` | buddy allocator with one-byte headers, krealloc | `MCKHeap` |
| `KHeapProofs` | theorems about `KHeap` | TLAPS |
| `FdTable` | descriptor table shared by processes | `MCFdTable` |
| `FdTableProofs` | theorems about `FdTable` | TLAPS |
| `AddrSpace` | frame bitmap, page tables, elf_load, sbrk, mmap, munmap, programs' stores, proc_destroy | `MCAddrSpace` |
| `AddrSpaceProofs` | theorems about `AddrSpace` | TLAPS |
| `Ext2` | block and inode allocation, file writes and reads, creation, the ATA transfers under them, power loss | `MCExt2` |
| `Ext2Proofs` | theorems about `Ext2` | TLAPS |
| `UserMalloc` | the user allocator of `lib/mem.h` | `MCUserMalloc` |
| `UserMallocProofs` | theorems about `UserMalloc` | TLAPS |
| `Tty` | terminal, write, log, warnings, panic report, echo of keys | `MCTty` |
| `TtyProofs` | theorems about `Tty` | TLAPS |
| `Shell` | kai, ls, cat, environment, path resolution in shell and kernel, argument passing | `MCShell` |

Each action is one handler or call, with everything it calls (`Ext2` excepted, below).
Operators keep the names of the C functions (without the leading underscores). A
definition whose comment starts with "Mutant" is a deliberately wrong variant used to
show that a property can fail; no specification uses one.

**Sched.** A `proc` struct is a heap object: `Slots` are addresses, and a freed
slot may be used again, so stale pointers behave as in C. `procs_head`,
`current_proc`, `waiting` (`__waiting_stdin.p`) and `pid_counter` are the C
variables. A handler computes the structs it leaves behind (`P`) and passes them
to `scheduler_core`, the model of `__scheduler_core`, or to
`scheduler_on_segfault`, which has switching code of its own. `eax` is the
register a process sees after waitpid and `line` says that `stdin_kernel_buf` is
set. Which programs read, kill or fault is a parameter (`Readers`, `Killers`,
`Faulters`), and `TakeTurns` says whether a program reads only while no other waits
for a line: properties that hold for the shipped programs only are checked for
those. `syscall_exec` stands for a successful load: a failed one changes nothing
here. kill of an unknown pid follows a null pointer in ring 0, a panic.

**Stdin** looks closer at the line itself: the buffer's contents, the length kept
in a `uint8_t`, and the copy made only when the reader is switched to. `pending` is
`stdin_kernel_buf`. When another process faults, `scheduler_on_segfault` may switch to
a woken reader without the copy: its read returns with the buffer as it was, and the
line arrives at the next ordinary switch, when the process does something else.
`taken` and `quiet` are history variables.

**KHeap** keeps free lists as sets: the code takes the head of a list, the model
any block of it, so it covers every order the lists can be in.

**FdTable.** `lost` is a history variable: `proc_destroy` does not close
descriptors, so the counts of a dead process's files stay. `RefsExact` says that
this is the only way a count is off. An open beyond `MAX_FDS` or of a missing file
changes nothing here. A descriptor number at or beyond `MAX_FDS`, which
the code does not check either, is outside the model.

**AddrSpace.** `mem` is the contents of every frame, each word read as a page table
entry: a frame, `Outside` (an address the bitmap does not manage) or `Absent` (present
bit clear). `store` lets a program put any of `Words` anywhere in its pages, and the
kernel in a kernel stack; nothing clears a frame that is freed or handed out, so that
data becomes table entries when `paging_map` takes the frame for a table. `Words` stands
for the values with the present bit that are ever stored. `proc_destroy` is called for a
child of a living process, as `scheduler_reap_child` does. `robbed` is a history
variable: a `proc_destroy` has freed a frame outside the bitmap or one that another
process needs. From then on, as after a panic, the system is not followed. Image and
stack are one page each (the image's size and four in the code); the image page is
filled by the loader, the others keep what their frames held. A panic is final, so the
partial effects before it are not kept.

**Ext2.** A call runs with interrupts off, so calls do not interleave; failures and
power loss come *inside* them. One action is one `ata_write` with the reads and
the work in memory before it, and `job` is the call in progress, with the C
function's local variables. `mem` is the cached descriptor table and superblock,
`node` the inode copy that an entry of the descriptor table keeps (`FdTable` models
the sharing of the entry). A block is two sectors of one word: `ata_write` can end
between the two. Of a superblock, descriptor table, indirect block, inode block or
directory block the change is taken to lie in one sector, which a write that fails
has sent or not. A failed read before such a write counts as the write failing, and a
write whose final flush times out, which the driver reports as a success, is on the
disk. Bitmaps are sets of bits.
`FirstData` is the superblock's first data block, which the code leaves out of its
arithmetic: 1 on a disk of 1 KiB blocks, which `mkfs.ext2` makes of an image of this
size (`Makefile:44`), 0 with larger blocks. `Leftover` is what free blocks hold: zeros on an image
made from `/dev/zero` and filled once, old words on one filled again by `make
fill-disk`. A `Spare` block is one that is free on the new disk and zero; `stray` is a
history variable that says that alloc_block has handed out another one. A call that goes
on with a buffer it has freed (a failed bitmap write) or never filled (a failed read of
an indirect block), or that writes over the file system's own blocks, goes "wild" and is
not followed. `fs_ext2_create_file` is modelled as part of the driver's interface; no
system call reaches it yet. `last` is a history variable.

**UserMalloc.** An address is a cell, and the cells behind an owner's pointer are
written whatever lies there, so an overlap shows as a changed byte. The lists are
sequences in the code's order. `sbrk` and `mmap` are the kernel's calls as the
allocator uses them; the kernel panics rather than refuse a break, and the refusal
that the allocator is prepared for is modelled.

**Tty.** `cells` is `tty_backbuffer`, `screen` what was drawn of it. Output, log,
warnings, panics and keys use the same cursor; each is one action, because interrupts
are off in all of them once a program runs. After a panic the machine stops; the
model goes on, which only adds behaviours. `quiet` is a history variable.

**Shell.** A name is one symbol and a path a sequence of names and slashes, so
`kstrsplit`, which keeps empty segments, and `strsplit`, which does not, are
different operators. The shell's `..` is a pop of its components, the kernel's a
directory entry. A child's stack is the array of pointers that the scheduler lays
out, and `_start` finds `environ` behind the null that ends argv. Typed lines are a
command and at most one word; a command contains no slash. The file tree is fixed.

## The runs

| Run | Shows |
|---|---|
| `sched_any` | whatever programs do, `procs_head` and the running process agree; a runnable process gets the CPU |
| `sched_nokill` | without kill: no pid or struct is in the table twice, the registered reader is blocked, every blocked process has a waker, zombies stay dead, and `Sched` implements `ProcLife` |
| `stdin` | the buffer stays in bounds; a short line arrives as typed when no key is stored before the copy, whoever faults |
| `kheap` | blocks tile the heap, owners are apart, every aligned run of free bytes lies in one listed block |
| `fd_table` | descriptors name their files, one entry per file, exact counts |
| `addr_space` | three processes one after another in two slots, with data that becomes tables and children reaped: granted pages are mapped, and until a reaping frees another's frames every frame in use has one use and none is lost |
| `ext2` | bit 0 for block 0, free blocks zero, with one failed transfer and one power loss at any point: no block has two owners, pointers and entries lead to marked blocks and inodes, counts never hide free space, a file shows only its own words, and an undisturbed write is on the disk |
| `ext2_1k_shared` | the second finding below |
| `user_malloc` | blocks held and listed make up the arena, regions are given back, owners' bytes and headers stay |
| `tty` | the cursor stays on the screen, nothing is overwritten, output is drawn, and the echoed line is the line Enter hands over |
| `shell` | PWD is a directory's canonical path, cd goes where directory entries lead, a child's main gets its parent's words and environment, cat shows the file meant and ls PWD, or its word taken from the root |
| `sched_kill_waiter` | the first finding below |

Two runs are findings, in which TLC refutes what the repository says:

1. kill does not wake a parent in waitpid (`syscall.c:141`), though genkan announces the
   end of a killed shell (`genkan.c:21`);
2. alloc_block leaves the first data block out of the number (`ext2.c:378`): on the disk of
   1 KiB blocks that the Makefile builds, the first block allocated is another file's.
   The code reads the descriptor table at byte 2048, where blocks of 1 or 2 KiB put it;
   only the latter work. `NoSharedBlock` fails without any failed transfer or power
   loss, on a disk that the Makefile means to pass `e2fsck` (`Makefile:77`).

`BlocksApart`, `OnlyOwnWords`, `WritesLast` and the part of `ClaimedIsMarked` about
blocks speak of a driver that hands out spare blocks (`~stray`). With bit 0 for block 0
and zeros in the free blocks this is no condition, as `NeverStray` proves; on the
Makefile's disk it ends with the first allocation. `TypeOK`, `CountsCover` and the rest of
`ClaimedIsMarked` are proved for every disk.

`CountsCover` is one-sided on purpose: power lost between the bitmap and the counts
leaves counts that are too high, which costs a look at a full bitmap and nothing else.
`OnlyOwnWords` holds although a new indirect block is used as found: with zeros in the
free blocks, and as no block is ever freed, none comes back with old words.

### Other deviations

The models show other deviations that have no run of their own. These are reached by
checking a further property or by changing the constants of a run:

- a waitpid that blocked returns the call number (`syscall.c:169`):
  `Sched!WaitpidReports` fails;
- keys typed after Enter overwrite the line (`stdin.c:72`): `QuietLineArrives` without
  `quiet[p]` fails;
- page tables on recycled frames keep old entries (`paging.c:45`), so that a process has
  pages mapped that nobody gave it: an invariant that all present pages of a process are
  in `Granted` fails in `addr_space`, and in a run of five calls without any reaping;
- `proc_destroy` frees every frame that the words of such a table name (`proc.c:103`), so
  that a reaped child takes frames from its living parent, and the next process gets
  them: `NeededIsMarked` fails with the constants of `addr_space`, in the step that sets
  `robbed`;
- a new indirect block is used as found (`ext2.c:190`): on an image filled again
  (`Leftover` not 0), old words are taken for block numbers, and `NoSharedBlock` fails;
- a bitmap that cannot be read makes alloc_block return 0, and block 0 then serves as
  the indirect block of every file that has none (`ext2.c:190`): `WritesLast` fails
  with `"bitmap_r"` in `Fails`;
- with kill, Enter revives a process killed while reading (`sched.c:179`):
  `ZombieIsFinal` fails once `Killers` is not empty;
- killing pid 1 leaves the kernel running, against genkan.c:4 (`syscall_kill`);
- a second reader displaces the first, which then has no waker: `BlockedHasWaker`
  fails with two readers and `TakeTurns = FALSE`. No shipped program makes two processes
  read at once: a shell started from a shell reads while its parent is in waitpid;
- after a page fault a STARTING process runs without its arguments, and one woken
  by Enter without its line, which it gets later (`scheduler_on_segfault`, `sched.c:170`;
  the case that `QuietLineArrives` excepts);
- lines of 256 characters and more arrive cut to their length modulo 256
  (`scheduler_wake_stdin`, `sched.c:175`);
- closing an unopened descriptor panics (`syscall_close`, `proc.c:188`);
- the mmap window runs into the stack (`syscall.c:301`): `GrantedIsMapped` fails
  once `MmapEnd` lies past the stack page;
- a row that wraps while it is typed, or while the kernel prints a warning, is not
  drawn until something else draws it (`stdin.c:46`, `tty.c:67`): `OutputShown`
  bounds which cells these are.

These were met in the code and lie outside the models:

- after a failed bitmap write alloc_block goes on with the freed buffer
  (`ext2.c:381`); after a failed read of an indirect block the write uses an
  uninitialized one (`ext2.c:195`); create_file without a free inode writes inode 0, and
  in a full directory writes behind the block (`ext2.c:488`, `ext2.c:548`): `Ext2`
  reaches these and stops in a state it calls "wild". Reading a file whose indirect
  block cannot be read also uses an uninitialized buffer (`ext2.c:172`);
- a size near 2^32 wraps in malloc and calloc (`mem.h:123`, `mem.h:160`), excluded by
  an assumption; large blocks are not rounded to 16 bytes, so what follows is not
  aligned (`mem.h:111`);
- vsnprintf frees a pointer it has advanced (`stdio.h:35`, `stdio.h:41`);
- `ls dir` takes a relative word from the root, not from PWD (`ls.c:9`), which
  `UtilitiesFollowPwd` states; an empty component in a path given to cat or ls is
  looked up by the kernel and not found;
- paths of more than 31 components overflow strsplit's array (`kai.c:43`), excluded by
  an assumption, and beyond 512 characters lose components (`kai.c:63`);
- kai keeps the token array of a built-in command (`kai.c:190`); cat prints a buffer
  that need not be terminated (`cat.c:67`); elf_load ignores the result of reading the
  file, also for a directory (`elf.c:26`).

### Bounds

- Sched: three slots and four pids let a parent, a child and a grandchild exist
  and a slot be reused (three pids in `sched_any`, whose liveness cannot use
  symmetry). The deviations of the scheduler need at most three processes.
- Stdin: buffer 4 and length modulo 3 stand for 512 and 256, so empty, short,
  long and full lines occur, with two readers.
- KHeap: eight smallest blocks of two bytes; requests up to the heap's size,
  so splits over three levels, full merges and exhaustion all happen. With a
  header of one byte, two-byte blocks are the smallest that hold anything.
- FdTable: two descriptors per process and three files give sharing inside and
  between processes, holes in the table and their reuse.
- AddrSpace: pages of two bytes, so that a break falls inside a page, and three tables of
  three pages, so that a region can need a table of its own: three processes in two slots, fourteen frames (six for each of two processes and
  two more), and three calls or stores, which suffice to store a word, give its frame
  back and take it for a table. The words stored are the number of the first process's directory
  and an address outside the bitmap. Memory runs out.
- Ext2: two groups of four blocks and two inodes, three files of one block each, one
  direct pointer and an indirect block of two words: a write of six words fills the
  direct block, the indirect one and both blocks behind it, and exhausts the disk. Two
  calls let a file be rewritten, another be written after it, or a file be created and
  one written. One failure and one power loss fall on every step of every call. With
  bit 0 for block 1 there are two files and a ninth block; the violation needs one call.
- UserMalloc: two classes, blocks cut two at a time, sizes on both sides of each class,
  of the large list and of the threshold; the arena holds about four blocks, so it
  runs out.
- Tty: three rows of two cells; texts shorter and longer than a row, new lines and a
  form feed; a typed line of up to three characters wraps and scrolls.
- Shell: a tree three directories deep, two shells, words of up to three components in
  all ways to write them; an array of four components is filled. Directories have 2,
  4 and 5 entries against room for 2, then 4, then 8, so exactly full buffers occur.

### Fairness

`FairSpec` of `Sched` makes the timer tick weakly fair: the PIT runs at 100 Hz and
interrupts are enabled in user mode and in the idle task. `Boot` is weakly fair:
kernel_main does not wait for anything. Programs and the keyboard are not assumed
to do anything. All other runs check safety without fairness. Runs whose system may stop (a panic, all bounds used up) do not check deadlock.

## What is proved

Every theorem holds for all values of the constants that satisfy the `ASSUME` of the
module it is about. These are about types and sizes, and TLC evaluates them in each run.
Hypotheses beyond them are part of the theorem's statement. In each module the
inductive invariant was first checked with TLC on the run's instance.

Induction over data is outside the provers' reach. `LeastNat` stands in for it, in each
module that needs it: a non-empty set of natural numbers has a least member (from the
library's theorem that `<` is well-founded), so that a claim about all orders, entries
or bits holds because it has no least counterexample.

**Scheduler, whatever programs do** (`SchedProofs`): `TypeCorrect`,
`HeadTracksCurrent` (`HeadIsCurrent`), `TablePidsUnique` (`PidsUnique`), from
`SchedInvariant`. `HeadIsCurrent` is not inductive. `scheduler_reap_child` removes an
entry and leaves `procs_head`: this is right only if the child lies behind its parent.
The strengthening says that pids increase along the array, are below `pid_counter`,
and that a process's parent has a smaller pid. New processes are appended with
the largest pid and removal keeps the order, so a child is always behind the parent
that reaps it.

**Scheduler without kill** (`SchedProofs`): `WaiterNeverDangles`
(`StdinWaiterBlocked`), `DeadIsFinal` (`ZombieIsFinal`), `NobodyStuck`
(`BlockedHasWaker`), and `SchedImplementsLife` (`ImplementsLife`), the refinement of
`ProcLife`. The hypothesis `NoKill` is that no program calls kill, `NobodyStuck` also
has `TakeTurns`, that a program reads only while no other waits for a line. Both are true
of the programs in `user_fs/src`, shells started from shells included, and the section on
deviations says what fails without them. Any number of programs may read.
The invariant adds to the scheduler's that a process which is not blocked waits for
nobody, that the registered reader is blocked and not in waitpid, and that a process
in waitpid has a living child of the pid it waits for. Every handler is shown to
have one of six effects on the table as others see it (nothing visible, a wake-up, a
death, a block, a creation, a reaping); invariants and refinement are then proved
of the effects, not of the handlers. A switch (`scheduler_core`) changes nothing
that an effect speaks of, and the pointer left by a freed struct is harmless because the
registered reader is never one that dies.

**Standard input** (`StdinProofs`): `StdinTypeCorrect`, which bounds the line and all
lengths, and `QuietLine` (`QuietLineArrives`), for any readers, characters, buffer
size and modulus. The action property needs to know, when the line is copied, what
happened since Enter. `LineIntact` carries it: for a woken reader whose line nobody
typed over, the buffer still begins with the line, and its length is the line's
modulo the width of the byte. Enter establishes it from the buffer, a key gives up
`quiet`, and no other handler touches the buffer's characters. It holds as long as the
line is pending, not only while the reader is woken, so it covers the late copy too.

**Kernel heap** (`KHeapProofs`): `HeapTypeCorrect`, `HeapTiled` (`BlocksTile`),
`OwnersApart` (`PayloadPrivate`), `FreeSpaceMerged` (`FreeSpaceUsable`), for any
smallest block, number of orders and requests. The invariant: every byte lies in
exactly one block, free or not, blocks are aligned to their size, owners' blocks
have room for header and payload, and no two free blocks of one order are buddies.
`FreeSpaceMerged` says of an aligned run of free bytes that one listed block contains it.
Splitting and merging both rest on one fact (`Parts`): the block of order m around
an address is the block of order o around it and the buddies at the orders between.
The provers know nothing of powers; `PowersDouble` assumes of the orders that occur
that the next power of two is twice the last, and TLC evaluates it.

**Descriptors** (`FdTableProofs`): `FdTypeCorrect`, `FdNamesRightFile`
(`FdNamesItsFile`), `FileHasOneEntry` (`OneEntryPerFile`), `RefCountsExact`
(`RefsExact`), for any processes, files and descriptors. The four are inductive only
together: close removes an entry whose count is 1, and only the exact count says
that no other descriptor names it. `ProcsFinite` makes the counts finite.

**ext2** (`Ext2Proofs`): `Ext2TypeCorrect`, `BlocksNeverShared` (`BlocksApart`),
`NamedIsMarked` (`ClaimedIsMarked`), `RoomIsFound` (`CountsCover`) and
`FilesShowOwnWords` (`OnlyOwnWords`), for any groups, sizes, files, writes, failing
transfers and power losses, whichever block bit 0 stands for and whatever the free
blocks hold. The invariant `Ext2Kept` has two parts. `Ext2Base` holds on every disk:
types, counts that cover the bitmaps, marked inodes that are named once, pointers that
stay on the disk. The rest, `Ext2Inv`, holds while alloc_block has handed out only spare
blocks (`~stray`); `NeverStray` proves that this is always so, and hence that no block is
ever shared, if bit 0 stands for block 0 and free blocks are zero: then what is taken on
the new disk is marked, and only clear bits are handed out. It takes the newest inode
copy of every file (that of the call in progress, of the descriptor table, or of the
disk) and says that the blocks in all slots of these (direct, indirect, words of the
indirect block) are different and marked, that data blocks hold their file's words,
and that unmarked blocks are zero; older copies only lack pointers. A block that is
allocated and not yet in a slot is zero and in nobody's slot, which is what makes a
power loss at that point harmless. Two owners are not files: a create that got no
inode, and block 0, which after a failed allocation serves as an indirect block. The
new disk must give its files different blocks (`Made` is injective), and fewer than
100 calls keep the words of two files apart, which is how the model writes a word.

**ext2, what is written stays** (`Ext2Proofs`): `WritesStay` (`WritesLast`), with
the hypothesis `BitmapsRead`, that no read of a bitmap fails: after one the
property is false, as the section on deviations says. Every other transfer may fail.
To the invariant above it adds, for each file with a clean last write, that its words
are where the inode on the disk leads, and for the call in progress, that its file has no last
write meanwhile and that, unless one of its own transfers failed, its words so far are in
place behind its own copy of the inode. A step changes at most one block; by the
invariant above that block is in no slot of another file and not in front of the
call's earlier words. That a short write means a full disk comes from `CountsCover`:
an allocation that finds no group with a count and a clear bit finds no clear bit at all.

**Address spaces** (`AddrSpaceProofs`): `TypeCorrect`, `NothingTakenAway`
(`GrantedIsMapped`) and `MemoryPrivate` (`FramesPrivate`), for any memory, tables,
slots, requests and words that programs store. `TypeCorrect` has no hypothesis: any word
may stand in a table, but what is marked comes from `fa_alloc`. The invariant names an
owner function: every frame that the bitmap marks has exactly one use, as a directory, a
kernel stack, a table of a directory or a page that a process was given; entries of a
table for pages that were not given may hold anything. Everything else follows from it: a
frame just allocated has no use yet, so filling it or putting it into a table disturbs
nobody, a program stores only into its own pages, and `proc_destroy` frees at least the
frames that the dead process used. If it freed no others that are needed (`~robbed`), the
rest still have their uses. Between `fa_alloc` and
`paging_map` a frame is marked and has no use; the lemmas carry such a frame as an
exception, and the call ends without one unless it ends in a panic. Regions of a
process lie in the mmap window, apart from each other and below its next address. The
hypothesis `Apart` of the last two is that the mmap window ends below the stack, as the
deviations say. `NothingTakenAway` also holds of the state in which another's frames have
just been freed: the tables that name them are untouched until the frames are handed out
again, and from there the model does not follow. That such a state is reached is one of
the deviations.

**Terminal** (`TtyProofs`): `TypeCorrect`, `NothingOverwritten` (`AppendsOnly`),
`EchoCorrect` (`EchoIsLine`) and `FlushesEnough` (`OutputShown`), for any screen, texts
and lines. The invariant says that everything from the cursor on is blank, that rows
above the cursor's are drawn except where the code leaves one undrawn, and that the
cells in front of the cursor are the line in the buffer as long as nothing else was
printed since its first key. Printing a text is a recursive function of the number of
characters printed; that a whole text keeps the invariant is shown for one
character and carried along by the least counterexample.

**User heap** (`UserMallocProofs`): `UserHeapTypeCorrect`, `NothingIsLost` (`NothingLost`)
and `BytesStay` (`DataKept`), for any classes, header, threshold, page size, arena, sizes
and number of allocations. The invariant `HeapInv(h, H)` is stated of a heap and the
set of blocks handed out, so that it can be followed through the steps of a call: each
class's list holds blocks of exactly the class's size, and the large list larger ones,
so that a block can be on one list only; the blocks listed and held lie side by side and
fill the arena up to the break; every region belongs to a held block that fits in it, and
regions are apart; all headers are intact. `Sound` adds the owners: allocations have
blocks of their own, each with room for its header and bytes, and hold what was written.
`malloc` is shown to give (`Gives`) a block that nobody holds and that is large enough,
leaving all held blocks as they were, whichever of the three paths it takes; a free puts
the block back where `Fit` says; the rest of `realloc` writes behind the pointer of one
held block, which touches no other (`PayloadKeeps`). `ClassesGrow` is an assumption
because the provers know nothing of powers of two; TLC evaluates it. That an owner
can always write a value of its own (`NewVal`) is the pigeonhole principle. `realloc` with
a move needs the order of the code: the bytes are copied before the old block is freed,
because freeing gives its cells up.

### Only model-checked

- `RunnableRuns`: liveness is outside the prover's reach.
- `Shell`: splitting, joining and resolving are folds over words and paths whose
  result depends on the whole of the input, induction over data.

## What is not modelled

The boot loader, display and serial drivers and fonts are output or run once on
hardware state. The TSS is one assignment per switch. The text of messages and the
formatting of numbers are left out: no property depends on them. The layout of
memory at boot (the kernel's image, heap and first frame, `frame.c:37`) and
echo in the middle of boot output, when interrupts are on (`tty.c:66`), are planned.
ELF headers are taken to be those of the shipped programs.

## Plan

1. `MemLayout`: kernel image, heap and first frame at boot; the kernel's directory.
2. The terminal during boot, with a key between the statements of `tty_putchar`.
