------------------------------ MODULE AddrSpace ------------------------------
(***************************************************************************)
(* Physical frames, page tables and the memory calls of a process: the     *)
(* frame bitmap, paging_map, the address space elf_load builds, sbrk, mmap *)
(* and munmap, and what proc_destroy gives back.                           *)
(*                                                                         *)
(* mem[f] is what frame f holds, each word read as an entry of a page      *)
(* directory or table: the frame it refers to, Outside when it refers to   *)
(* an address the bitmap does not manage, or Absent when its present bit   *)
(* is clear.  Programs store words in their pages, the kernel in their     *)
(* kernel stacks, and nothing clears a frame when it is freed or handed    *)
(* out again: what was data may become a page table.                       *)
(*                                                                         *)
(* Pages are numbered from the start of the image.  Page 0 is the image,   *)
(* the heap follows it, the mmap window starts at MmapBase and runs up to  *)
(* the stack, which is the last page modelled.                             *)
(***************************************************************************)
EXTENDS Integers, Sequences, FiniteSets

CONSTANTS
    NFrames,    \* frames the bitmap manages
    PerTable,   \* entries of a table (1024)
    NTables,    \* tables of a process, up to the one that maps the stack
    PageSize,   \* bytes of a page (4096)
    MmapBase,   \* first page of the mmap window (0x7000000)
    Slots,      \* processes that can exist at a time
    NoProc,     \* an empty slot
    MaxSbrk,    \* bound: bytes per sbrk
    MaxMmap,    \* bound: pages per mmap
    MaxRegions, \* bound: regions of a process
    MaxBreak,   \* bound: the heap stays below this page
    MmapEnd,    \* bound: mmap_next stays at or below this page
    MaxProcs,   \* bound: processes ever created
    Words,      \* the words that are stored in pages and kernel stacks
    MaxCalls    \* bound: memory calls and stores of the processes

ASSUME AddrAssumption ==
    /\ NFrames \in Nat /\ PerTable \in Nat \ {0} /\ PageSize \in Nat \ {0}
    /\ NTables \in 1..PerTable
    /\ MmapBase \in 1..(NTables * PerTable - 1)
    /\ MaxBreak \in 1..MmapBase
    /\ MmapEnd \in MmapBase..(NTables * PerTable)
    /\ {MaxSbrk, MaxMmap} \subseteq Nat
    /\ NoProc \notin Slots

VARIABLES
    used,       \* fa_bitmap: the frames marked in use
    mem,        \* the words of each frame
    space,      \* the memory fields of each process
    created,    \* processes created so far
    calls,      \* memory calls and stores so far
    panicked,   \* no free frame available
    robbed      \* history: proc_destroy has freed what was not its own

vars == <<used, mem, space, created, calls, panicked, robbed>>

Frames    == 0..(NFrames - 1)
Absent    == -1
Outside   == -2
Word      == Frames \cup {Absent, Outside}
StackPage == NTables * PerTable - 1
Blank     == [i \in 0..(PerTable - 1) |-> Absent]

ASSUME WordsAssumption == Words \subseteq Word

\* The memory fields of a process, and its pid.
Process == [pid : Nat, pd : Frames, ks : Frames, brk : Nat, mmap_next : Nat,
            regions : Seq([base : Nat, len : Nat])]

\* An empty slot is told from a process.
ASSUME NoProcAssumption == NoProc \notin Process

Init ==
    /\ used = {}
    /\ mem = [f \in Frames |-> Blank]
    /\ space = [s \in Slots |-> NoProc]
    /\ created = 0
    /\ calls = 0
    /\ panicked = FALSE
    /\ robbed = FALSE

\* The system is in order: past a panic, or past a frame freed under another
\* process, it is not followed.
Sane == ~panicked /\ ~robbed

-----------------------------------------------------------------------------
\* Frames and tables, on a record m of used and mem, with oom set once an
\* allocation has found no frame.

Machine == [used |-> used, mem |-> mem, oom |-> FALSE]

\* The frame after the last one in use.
alloc_past_last(m) ==
    IF m.used = {} THEN 0 ELSE 1 + CHOOSE f \in m.used : \A g \in m.used : g <= f

\* Mutant: the bit set is the one after the last in use, not that of the frame.
claim_past_last(m) == IF m.used = Frames THEN [m EXCEPT !.oom = TRUE]
                      ELSE [m EXCEPT !.used = @ \cup {alloc_past_last(m)}]

\* fa_alloc: the lowest free frame.
fa_alloc(m) == CHOOSE f \in Frames \ m.used : \A g \in Frames \ m.used : f <= g

\* The machine after fa_alloc.
Claim(m) == IF m.used = Frames THEN [m EXCEPT !.oom = TRUE]
            ELSE [m EXCEPT !.used = @ \cup {fa_alloc(m)}]

\* paging_map of frame f at page v: a missing table is allocated, and used with
\* whatever its frame held.
paging_map(m, pd, f, v) ==
    LET t == v \div PerTable
        n == IF m.mem[pd][t] # Absent THEN m
             ELSE IF Claim(m).oom THEN Claim(m)
             ELSE [Claim(m) EXCEPT !.mem[pd][t] = fa_alloc(m)]
    IN  IF n.oom THEN n ELSE [n EXCEPT !.mem[n.mem[pd][t]][v % PerTable] = f]

\* One page: a frame, then its mapping.
MapPage(m, pd, v) ==
    IF m.oom \/ Claim(m).oom THEN [m EXCEPT !.oom = TRUE]
    ELSE paging_map(Claim(m), pd, fa_alloc(m), v)

\* The pages from, from + 1, ..., to - 1, in this order.
MapPages(m, pd, from, to) ==
    LET After[v \in from..to] == IF v = from THEN m ELSE MapPage(After[v - 1], pd, v - 1)
    IN  IF from < to THEN After[to] ELSE m

Present(m, pd, v) ==
    /\ m.mem[pd][v \div PerTable] # Absent
    /\ m.mem[m.mem[pd][v \div PerTable]][v % PerTable] # Absent

FrameOf(m, pd, v) == m.mem[m.mem[pd][v \div PerTable]][v % PerTable]

\* __syscall_unmap_pages: present pages lose their frame and their entry.
syscall_unmap_pages(m, pd, from, to) ==
    LET gone == {v \in from..(to - 1) : Present(m, pd, v)}
    IN  [m EXCEPT
           !.used = @ \ {FrameOf(m, pd, v) : v \in gone},
           !.mem = [f \in Frames |-> [i \in 0..(PerTable - 1) |->
                      IF \E v \in gone : /\ f = m.mem[pd][v \div PerTable]
                                         /\ i = v % PerTable
                      THEN Absent ELSE m.mem[f][i]]]]

\* What a call leaves behind.
Commit(m, s, p) ==
    /\ used' = m.used
    /\ mem' = m.mem
    /\ space' = [space EXCEPT ![s] = p]
    /\ UNCHANGED <<panicked, robbed>>

\* The same for a call that allocates: fa_alloc panics when no frame is free.
CommitOrPanic(m, s, p) ==
    \/ ~m.oom /\ Commit(m, s, p)
    \/ m.oom /\ panicked' = TRUE /\ UNCHANGED <<used, mem, space, robbed>>

-----------------------------------------------------------------------------
\* elf_load with proc_create: page directory (cleared by paging_create_pd),
\* kernel stack, stack page, image page, in this order.  The image page is
\* filled from the file (words of the file with the present bit set count as
\* stores), the other pages keep what their frames held.
elf_load(s) ==
    LET m1 == Claim(Machine)                    \* paging_create_pd
        pd == fa_alloc(Machine)
        m2 == [m1 EXCEPT !.mem[pd] = Blank]
        m3 == Claim(m2)                         \* kernel stack
        m4 == MapPages(m3, pd, StackPage, StackPage + 1)
        m5 == MapPages(m4, pd, 0, 1)
        m  == IF m1.oom THEN m1 ELSE IF m3.oom THEN m3 ELSE IF m5.oom THEN m5
              ELSE [m5 EXCEPT !.mem[FrameOf(m5, pd, 0)] = Blank]
    IN  /\ Sane
        /\ space[s] = NoProc
        /\ created < MaxProcs
        /\ CommitOrPanic(m, s, [pid |-> created, pd |-> pd, ks |-> fa_alloc(m2), brk |-> PageSize,
                                mmap_next |-> MmapBase, regions |-> <<>>])
        /\ created' = created + 1
        /\ UNCHANGED calls

\* One more call or store of a process.
Counted == calls < MaxCalls /\ calls' = calls + 1 /\ UNCHANGED created

RoundUp(b) == (b + PageSize - 1) \div PageSize

\* Mutant: the break rounded down.
NewBreakPageDown(b) == b \div PageSize

\* The page sbrk grows or shrinks to, from a new break.
NewBreakPage(b) == RoundUp(b)

\* __syscall_sbrk.
syscall_sbrk(s, inc) ==
    LET p   == space[s]
        brk == IF p.brk + inc < 0 THEN 0 ELSE p.brk + inc
        old == RoundUp(p.brk)
        new == NewBreakPage(brk)
        m   == IF new > old THEN MapPages(Machine, p.pd, old, new)
               ELSE syscall_unmap_pages(Machine, p.pd, new, old)
    IN  /\ Sane
        /\ space[s] # NoProc
        /\ brk <= MaxBreak * PageSize
        /\ CommitOrPanic(m, s, [p EXCEPT !.brk = brk])
        /\ Counted

\* __syscall_mmap: the window only ever grows.
syscall_mmap(s, pages) ==
    LET p == space[s]
        m == MapPages(Machine, p.pd, p.mmap_next, p.mmap_next + pages)
    IN  /\ Sane
        /\ space[s] # NoProc
        /\ Len(p.regions) < MaxRegions
        /\ p.mmap_next + pages <= MmapEnd
        /\ CommitOrPanic(m, s, [p EXCEPT
                !.mmap_next = @ + pages,
                !.regions = Append(@, [base |-> p.mmap_next, len |-> pages])])
        /\ Counted

\* __syscall_munmap of a page where a region starts: the first such region goes.
\* Any other address is refused and changes nothing.
syscall_munmap(s, base) ==
    LET p == space[s]
        At(i) == p.regions[i].base = base
        k == CHOOSE i \in DOMAIN p.regions : At(i) /\ \A j \in 1..(i - 1) : ~At(j)
        m == syscall_unmap_pages(Machine, p.pd, base, base + p.regions[k].len)
    IN  /\ Sane
        /\ space[s] # NoProc
        /\ \E i \in DOMAIN p.regions : At(i)
        /\ Commit(m, s, [p EXCEPT !.regions =
                [i \in 1..(Len(@) - 1) |-> IF i < k THEN @[i] ELSE @[i + 1]]])
        /\ Counted

Running == {s \in Slots : space[s] # NoProc}

\* The pages a process has been given: image and heap, regions, stack.
Granted(s) ==
    0..(RoundUp(space[s].brk) - 1)
        \cup (UNION {space[s].regions[i].base..(space[s].regions[i].base + space[s].regions[i].len - 1) :
                         i \in DOMAIN space[s].regions})
        \cup {StackPage}

\* A program stores any word anywhere in its pages, or the kernel in its kernel
\* stack.
store(s, i, w) ==
    /\ Sane
    /\ space[s] # NoProc
    /\ Counted
    /\ \E f \in {space[s].ks} \cup {FrameOf(Machine, space[s].pd, v) : v \in Granted(s)} :
           mem' = [mem EXCEPT ![f][i] = w]
    /\ UNCHANGED <<used, space, panicked, robbed>>

\* The frames of a process as proc_destroy finds them in its tables.
Tables(m, pd) == {m.mem[pd][t] : t \in 0..(NTables - 1)} \ {Absent}
Pages(m, pd)  == (UNION {{m.mem[pt][i] : i \in 0..(PerTable - 1)} : pt \in Tables(m, pd)})
                     \ {Absent}

Held(p) == {p.ks, p.pd} \cup Tables(Machine, p.pd) \cup Pages(Machine, p.pd)

\* Mutant: the pages go back, the tables that map them do not.
free_pages_only(p) == {p.ks, p.pd} \cup Pages(Machine, p.pd)

\* The frames proc_destroy frees.
Freed(p) == Held(p)

\* The frames a process cannot do without: its directory, kernel stack and tables,
\* and those behind the pages it has been given.
Needed(s) ==
    {space[s].ks, space[s].pd} \cup Tables(Machine, space[s].pd)
        \cup {FrameOf(Machine, space[s].pd, v) : v \in Granted(s)}

\* proc_destroy of the child of a living process, called when this reaps it.
proc_destroy(s) ==
    LET p == space[s]
    IN  /\ Sane
        /\ space[s] # NoProc
        /\ \E q \in Running : space[q].pid < p.pid
        /\ used' = used \ Freed(p)
        /\ space' = [space EXCEPT ![s] = NoProc]
        /\ robbed' = (\/ Outside \in Freed(p)
                      \/ \E q \in Running \ {s} : Freed(p) \cap Needed(q) # {})
        /\ UNCHANGED <<mem, created, calls, panicked>>

Next ==
    \E s \in Slots :
        \/ elf_load(s)
        \/ \E inc \in (-MaxSbrk)..MaxSbrk : syscall_sbrk(s, inc)
        \/ \E pages \in 0..MaxMmap : syscall_mmap(s, pages)
        \/ \E base \in MmapBase..MmapEnd : syscall_munmap(s, base)
        \/ \E i \in 0..(PerTable - 1), w \in Words : store(s, i, w)
        \/ proc_destroy(s)

Spec == Init /\ [][Next]_vars

-----------------------------------------------------------------------------
UserPages == 0..StackPage

\* The type invariant: only frames of the bitmap are ever marked in use, made a
\* directory or a kernel stack.
TypeOK ==
    /\ used \subseteq Frames
    /\ mem \in [Frames -> [0..(PerTable - 1) -> Word]]
    /\ \A s \in Running : space[s].pd \in Frames /\ space[s].ks \in Frames
    /\ panicked \in BOOLEAN /\ robbed \in BOOLEAN

\* A page a process has been given is mapped for it on a frame of the bitmap,
\* whatever was grown, shrunk, mapped and unmapped before and whatever its tables
\* held when paging_map took them: no call takes away what another gave, and no
\* old word shows in its place.
GrantedIsMapped ==
    \A s \in Running : \A v \in Granted(s) :
        /\ mem[space[s].pd][v \div PerTable] \in Frames
        /\ FrameOf(Machine, space[s].pd, v) \in Frames

\* The places of a process that hold a frame, and the frame each holds.
Places == [kind : {"pd", "ks"}, at : {0}]
              \cup [kind : {"table"}, at : 0..(NTables - 1)]
              \cup [kind : {"page"}, at : UserPages]

FrameAt(s, place) ==
    LET pd == space[s].pd
    IN  CASE place.kind = "pd"    -> pd
          [] place.kind = "ks"    -> space[s].ks
          [] place.kind = "table" -> mem[pd][place.at]
          [] place.kind = "page"  -> IF place.at \in Granted(s)
                                     THEN FrameOf(Machine, pd, place.at) ELSE Absent

Uses == {u \in [slot : Running, place : Places] : FrameAt(u.slot, u.place) # Absent}

\* As long as no proc_destroy has freed what was not its own, the frames in use are
\* those the processes need, each for one thing: fa_alloc hands out nothing twice,
\* no process is given another's memory, and reaping loses no frame, though it finds
\* them through tables with old entries.
FramesPrivate ==
    ~robbed => /\ used = {FrameAt(u.slot, u.place) : u \in Uses}
               /\ Cardinality(used) = Cardinality(Uses)

\* The frames a process needs stay marked in use, so that fa_alloc gives them to
\* nobody else.  A proc_destroy that walks a table with old entries takes them away.
NeededIsMarked == \A s \in Running : Needed(s) \subseteq used
=============================================================================
