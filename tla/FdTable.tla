------------------------------- MODULE FdTable -------------------------------
(***************************************************************************)
(* File descriptors: each process has its own array of descriptors, and    *)
(* each descriptor names an entry of one kernel-wide table, shared by all  *)
(* descriptors of the same file and counted.                               *)
(*                                                                         *)
(* Every call is a system call and runs with interrupts off: one action    *)
(* per call.  What the calls of several processes share is the table.      *)
(***************************************************************************)
EXTENDS Integers, Sequences, FiniteSets, Functions

CONSTANTS
    Procs,      \* processes; a pid's place is taken again after proc_destroy
    Vnodes,     \* files (vnode_id)
    NoEntry,    \* the null pointer, in the table and in a process's array
    Flags,      \* the modes files are opened with: FD_FLAGS_RO, _WO, _RW
    FirstFd,    \* the first descriptor handed out (3)
    MaxFds,     \* MAX_FDS (16)
    MaxRefs     \* bound: references an entry collects

ASSUME FdAssumption ==
    /\ Flags \subseteq {"RO", "WO", "RW"}
    /\ FirstFd \in Nat /\ MaxFds \in Nat /\ FirstFd <= MaxFds
    /\ MaxRefs \in Nat

\* The process table is bounded.
ASSUME ProcsFinite == IsFiniteSet(Procs)

VARIABLES
    fd_table,   \* __fd_table
    fds,        \* the descriptors of each process
    lost,       \* history: references to each file that proc_destroy dropped
    panicked    \* the kernel followed a null pointer

vars == <<fd_table, fds, lost, panicked>>

Fds   == 0..(MaxFds - 1)

\* A descriptor; vnode is the file it was opened for, which the code does not keep.
ProcFd == [global_fd: Nat, flags: Flags, vnode: Vnodes]
Entry  == [vnode: Vnodes, ref_count: Nat, write_lock: BOOLEAN]

\* The null pointer is neither.
ASSUME NoEntryIsNull == NoEntry \notin ProcFd /\ NoEntry \notin Entry

Init ==
    /\ fd_table = <<>>                                  \* fd_init_table
    /\ fds = [p \in Procs |-> [i \in Fds |-> NoEntry]]
    /\ lost = [v \in Vnodes |-> 0]
    /\ panicked = FALSE

\* fd_get(g), with g counted from 0: past the end, dynarray_get gives null.
fd_get(g) == IF g < Len(fd_table) THEN fd_table[g + 1] ELSE NoEntry

\* Mutant: an open file is never found.
find_nothing(v) == -1

\* fd_find_by_node: the first entry of this file, -1 if there is none.
fd_find_by_node(v) ==
    IF \E i \in DOMAIN fd_table : fd_table[i] # NoEntry /\ fd_table[i].vnode = v
    THEN (CHOOSE i \in DOMAIN fd_table :
            /\ fd_table[i] # NoEntry /\ fd_table[i].vnode = v
            /\ \A j \in 1..(i - 1) : fd_table[j] = NoEntry \/ fd_table[j].vnode # v) - 1
    ELSE -1

\* fd_add: the first hole in the table, or its end.
fd_add ==
    IF \E i \in DOMAIN fd_table : fd_table[i] = NoEntry
    THEN (CHOOSE i \in DOMAIN fd_table :
            fd_table[i] = NoEntry /\ \A j \in 1..(i - 1) : fd_table[j] # NoEntry) - 1
    ELSE Len(fd_table)

\* fd_new, with the first reference counted.
fd_new(v, flags) == [vnode |-> v, ref_count |-> 1, write_lock |-> flags # "RO"]

\* The table with entry e at index g, which may be its end.
Put(g, e) == [i \in 1..(IF g < Len(fd_table) THEN Len(fd_table) ELSE g + 1) |->
                IF i = g + 1 THEN e ELSE fd_table[i]]

\* Mutant: the standard descriptors are handed out too.
FreeFdsFromZero(p) == {i \in Fds : fds[p][i] = NoEntry}

\* The descriptors proc_alloc_fd may take: it takes the least.
FreeFds(p) == {i \in Fds : i >= FirstFd /\ fds[p][i] = NoEntry}

\* Mutant: only a new entry is counted.
share_uncounted(e) == e

\* An entry with one reference more.
Shared(e) == [e EXCEPT !.ref_count = @ + 1]

\* __syscall_open of a file that exists, with proc_alloc_fd.  A file that does
\* not exist changes nothing.
syscall_open(p, v, flags) ==
    LET found == fd_find_by_node(v)
        g     == IF found = -1 THEN fd_add ELSE found
        fd    == CHOOSE i \in FreeFds(p) : \A j \in FreeFds(p) : i <= j
    IN  /\ ~panicked
        /\ FreeFds(p) # {}
        /\ found # -1 => fd_get(found).ref_count < MaxRefs
        /\ fd_table' = Put(g, IF found = -1 THEN fd_new(v, flags) ELSE Shared(fd_get(g)))
        /\ fds' = [fds EXCEPT ![p][fd] = [global_fd |-> g, flags |-> flags, vnode |-> v]]
        /\ UNCHANGED <<lost, panicked>>

\* Mutant: the entry goes with the first descriptor closed.
remove_always(g) == Put(g, NoEntry)

\* fd_remove of an entry that exists.
fd_remove(g) ==
    Put(g, IF fd_get(g).ref_count = 1 THEN NoEntry
           ELSE [fd_get(g) EXCEPT !.ref_count = @ - 1])

\* __syscall_close with proc_close_fd.  Descriptors below 3 are refused.  One
\* that is not open makes proc_close_fd read through a null pointer in ring 0.
syscall_close(p, fd) ==
    /\ ~panicked
    /\ fd >= FirstFd
    /\ \/ /\ fds[p][fd] = NoEntry
          /\ panicked' = TRUE
          /\ UNCHANGED <<fd_table, fds, lost>>
       \/ /\ fds[p][fd] # NoEntry
          /\ fd_get(fds[p][fd].global_fd) # NoEntry
          /\ fd_table' = fd_remove(fds[p][fd].global_fd)
          /\ fds' = [fds EXCEPT ![p][fd] = NoEntry]
          /\ UNCHANGED <<lost, panicked>>

\* proc_destroy frees the struct and leaves the table's counts as they are.
proc_destroy(p) ==
    /\ ~panicked
    /\ fds' = [fds EXCEPT ![p] = [i \in Fds |-> NoEntry]]
    /\ lost' = [v \in Vnodes |->
                  lost[v] + Cardinality({i \in Fds : fds[p][i] # NoEntry /\ fds[p][i].vnode = v})]
    /\ UNCHANGED <<fd_table, panicked>>

Next ==
    \E p \in Procs :
        \/ \E v \in Vnodes, flags \in Flags : syscall_open(p, v, flags)
        \/ \E fd \in Fds : syscall_close(p, fd)
        \/ proc_destroy(p)

Spec == Init /\ [][Next]_vars

-----------------------------------------------------------------------------
\* The type invariant: table and descriptors keep their types, and the standard
\* descriptors 0, 1 and 2 are never handed out.
TypeOK ==
    /\ fd_table \in Seq(Entry \cup {NoEntry})
    /\ fds \in [Procs -> [Fds -> ProcFd \cup {NoEntry}]]
    /\ \A p \in Procs : \A i \in Fds : i < FirstFd => fds[p][i] = NoEntry
    /\ lost \in [Vnodes -> Nat]
    /\ panicked \in BOOLEAN

\* The open descriptors of a file, of all processes.
Open(v) == {x \in Procs \X Fds : fds[x[1]][x[2]] # NoEntry /\ fds[x[1]][x[2]].vnode = v}

\* A descriptor names an entry that exists and is the file it was opened for,
\* whatever other processes have closed and whatever indices were used again:
\* proc_fd_read_file and proc_fd_write_file follow it unchecked.
FdNamesItsFile ==
    \A p \in Procs : \A i \in Fds : fds[p][i] # NoEntry =>
        LET e == fd_get(fds[p][i].global_fd) IN e # NoEntry /\ e.vnode = fds[p][i].vnode

\* A file has at most one entry, so write_lock and ref_count speak for the file.
OneEntryPerFile ==
    \A i, j \in DOMAIN fd_table :
        (i # j /\ fd_table[i] # NoEntry /\ fd_table[j] # NoEntry)
            => fd_table[i].vnode # fd_table[j].vnode

\* An entry counts the open descriptors of its file and those that went with a
\* destroyed process, and an open file has an entry.
RefsExact ==
    \A v \in Vnodes :
        LET E == {i \in DOMAIN fd_table : fd_table[i] # NoEntry /\ fd_table[i].vnode = v}
            n == Cardinality(Open(v)) + lost[v]
        IN  IF E = {} THEN n = 0 ELSE \A i \in E : fd_table[i].ref_count = n
=============================================================================
