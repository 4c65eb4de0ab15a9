-------------------------------- MODULE Sched --------------------------------
(***************************************************************************)
(* The process subsystem of kaku: the round-robin scheduler, the process   *)
(* table, and the system calls and interrupts that change a process's      *)
(* state (exec, exit, kill, waitpid, read, the timer, Enter on the         *)
(* keyboard and the user-mode page fault).                                 *)
(*                                                                         *)
(* Every IDT gate is an interrupt gate and there is one CPU, so each       *)
(* handler runs to completion: one action per handler.  What interleaves   *)
(* is the order in which handlers run.                                     *)
(*                                                                         *)
(* A proc struct is a heap object.  Slots are the heap addresses a proc    *)
(* may live at; a slot freed by proc_destroy may be handed out again, so   *)
(* __waiting_stdin.p, which nobody clears when a process goes away, is     *)
(* modelled as the raw pointer it is.                                      *)
(***************************************************************************)
EXTENDS Integers, Sequences, FiniteSets, Functions

CONSTANTS
    Slots,      \* heap addresses of proc structs
    NoProc,     \* the null proc pointer
    MaxPid,     \* bound: the largest pid handed out
    ExitCodes,  \* values a program passes to exit
    Readers,    \* pids whose program calls read
    Killers,    \* pids whose program calls kill
    Faulters,   \* pids whose program may touch an unmapped page
    TakeTurns   \* whether a program reads only while no other waits for a line

ASSUME SchedAssumption ==
    /\ NoProc \notin Slots
    /\ MaxPid \in Nat \ {0}
    /\ ExitCodes \subseteq Int
    /\ Readers \subseteq Nat
    /\ Killers \subseteq Nat
    /\ Faulters \subseteq Nat
    /\ TakeTurns \in BOOLEAN

VARIABLES
    proc,         \* the proc structs, by slot
    procs,        \* the dynarray of all processes, oldest first
    procs_head,   \* 0-based index of the process scheduled last
    current_proc, \* the process on the CPU; NoProc at boot and when idle
    pid_counter,  \* the next pid
    waiting,      \* __waiting_stdin.p
    panicked      \* the kernel has panicked and halted

vars == <<proc, procs, procs_head, current_proc, pid_counter, waiting, panicked>>

States == {"READY", "BLOCKED", "ZOMBIE", "STARTING"}

SYS_WAITPID == 10
SegvCode    == 139

\* The EAX a process can see when waitpid returns: an exit code, -1 (no such
\* pid), -2 (not a child), or the call number it entered the kernel with.
Eax == ExitCodes \cup {-2, -1, 0, SYS_WAITPID, SegvCode}

\* line: stdin_kernel_buf is set, a typed line is yet to be copied to the user.
\* eax: the register at the last return from waitpid.
Proc == [pid: Nat, state: States, parent_pid: Nat, exit_code: ExitCodes \cup {0, SegvCode},
         waiting_for: Nat, line: BOOLEAN, eax: Eax]

\* A freed struct: nothing in the kernel reads it again.
Freed == [pid |-> 0, state |-> "ZOMBIE", parent_pid |-> 0, exit_code |-> 0,
          waiting_for |-> 0, line |-> FALSE, eax |-> 0]

Init ==
    /\ proc = [s \in Slots |-> Freed]
    /\ procs = <<>>
    /\ procs_head = 0
    /\ current_proc = NoProc
    /\ pid_counter = 1          \* proc_create_k_idle has taken pid 0
    /\ waiting = NoProc
    /\ panicked = FALSE

-----------------------------------------------------------------------------
\* The process table.

Live == Range(procs)

\* scheduler_get_proc: the process with this pid, NoProc if there is none.
scheduler_get_proc(pid) ==
    IF \E s \in Live : proc[s].pid = pid
    THEN CHOOSE s \in Live : proc[s].pid = pid
    ELSE NoProc

CurrentPid == IF current_proc = NoProc THEN 0 ELSE proc[current_proc].pid

\* dynarray_remove: the entries after position i move down by one.
dynarray_remove(seq, i) ==
    [j \in 1..(Len(seq) - 1) |-> IF j < i THEN seq[j] ELSE seq[j + 1]]

\* Mutant: pids are numbered by the current length of the table.
proc_create_by_count == [Freed EXCEPT !.pid = Len(procs) + 1, !.parent_pid = CurrentPid,
                                      !.state = "READY"]

\* proc_create: the running process, if any, is the parent.
proc_create ==
    [pid |-> pid_counter, state |-> "READY", parent_pid |-> CurrentPid,
     exit_code |-> 0, waiting_for |-> 0, line |-> FALSE, eax |-> 0]

\* Mutant: a new process goes to the front.
add_proc_front(s) == <<s>> \o procs

\* scheduler_add_proc: the table after dynarray_add.
scheduler_add_proc(s) == Append(procs, s)

\* elf_load of a file that is a valid ELF image: the process waits, STARTING,
\* for the scheduler to lay out its arguments.
elf_load ==
    /\ pid_counter <= MaxPid
    /\ \E s \in Slots \ Live :
         /\ proc' = [proc EXCEPT ![s] = [proc_create EXCEPT !.state = "STARTING"]]
         /\ procs' = scheduler_add_proc(s)
    /\ pid_counter' = pid_counter + 1

\* Mutant: nobody is told.
notify_nobody(P, c) == P

\* Mutant: the parent is woken whatever it is blocked in.
notify_any_blocked(P, c) ==
    [s \in Slots |->
        IF s \in Live /\ P[s].pid = P[c].parent_pid /\ P[s].state = "BLOCKED"
        THEN [P[s] EXCEPT !.state = "READY", !.waiting_for = 0]
        ELSE P[s]]

\* scheduler_notify_parent(c), on the structs P: a parent blocked in waitpid on
\* c becomes runnable.  Its frame, EAX included, is left alone.
scheduler_notify_parent(P, c) ==
    [s \in Slots |->
        IF /\ s \in Live
           /\ P[c].parent_pid # 0
           /\ P[s].pid = P[c].parent_pid
           /\ P[s].state = "BLOCKED"
           /\ P[s].waiting_for = P[c].pid
        THEN [P[s] EXCEPT !.state = "READY", !.waiting_for = 0]
        ELSE P[s]]

-----------------------------------------------------------------------------
\* The scheduler, on the structs P that the handler leaves behind.

Runnable(P, s) == P[s].state \notin {"BLOCKED", "ZOMBIE"}

\* Mutant: the search starts at the beginning of the table.
AfterStart(d) == procs[((d - 1) % Len(procs)) + 1]

\* The slot d places after the head, in round-robin order.
After(d) == procs[((procs_head + d) % Len(procs)) + 1]

\* pick_next_ready_proc stops d places after the head.
pick_next_ready_proc(P, d) ==
    /\ Runnable(P, After(d))
    /\ \A e \in 1..(d - 1) : ~Runnable(P, After(e))

\* No process is runnable: pick_next_ready_proc has gone full circle, and the
\* idle task gets the CPU.
SwitchToIdle(P) ==
    /\ \A s \in Live : ~Runnable(P, s)
    /\ proc' = P
    /\ current_proc' = NoProc
    /\ procs_head' = procs_head % Len(procs)

\* __sched_flush_proc_bufs: the pending line goes to the user's buffer.
sched_flush_proc_bufs(r) == [r EXCEPT !.line = FALSE]

\* A process taken for the first time has its arguments laid out.
LayOutArgs(r) == [r EXCEPT !.state = IF r.state = "STARTING" THEN "READY" ELSE r.state]

\* __scheduler_core.
scheduler_core(P) ==
    \/ /\ procs = <<>>
       /\ proc' = P
       /\ UNCHANGED <<procs_head, current_proc>>
    \/ procs # <<>> /\ SwitchToIdle(P)
    \/ \E d \in 1..Len(procs) :
         /\ pick_next_ready_proc(P, d)
         /\ procs_head' = (procs_head + d) % Len(procs)
         /\ current_proc' = After(d)
         /\ proc' = [P EXCEPT ![After(d)] = LayOutArgs(sched_flush_proc_bufs(@))]

\* scheduler_on_segfault switches by a path of its own: it neither copies the
\* pending line nor lays out arguments.
scheduler_on_segfault(P) ==
    \/ SwitchToIdle(P)
    \/ \E d \in 1..Len(procs) :
         /\ pick_next_ready_proc(P, d)
         /\ procs_head' = (procs_head + d) % Len(procs)
         /\ current_proc' = After(d)
         /\ proc' = P

-----------------------------------------------------------------------------
\* kernel_main and the interrupt handlers.

\* kernel_main starts /bin/genkan; if it cannot, the kernel panics.
Boot ==
    /\ ~panicked
    /\ pid_counter = 1
    /\ \/ elf_load /\ UNCHANGED panicked
       \/ panicked' = TRUE /\ UNCHANGED <<proc, procs, pid_counter>>
    /\ UNCHANGED <<procs_head, current_proc, waiting>>

\* scheduler: the timer interrupt, every 10 ms.
TimerTick ==
    /\ ~panicked
    /\ scheduler_core(proc)
    /\ UNCHANGED <<procs, pid_counter, waiting, panicked>>

\* Mutant: the woken process is marked RUNNING, which pick_next_ready_proc would
\* accept but nothing else in the kernel knows.
wake_stdin_running(r) == [r EXCEPT !.line = TRUE, !.state = "RUNNING"]

\* scheduler_wake_stdin.
scheduler_wake_stdin(r) == [r EXCEPT !.line = TRUE, !.state = "READY"]

\* stdin_flush: Enter, with a process registered for the line.
KeyEnter ==
    /\ ~panicked
    /\ waiting # NoProc
    /\ proc' = [proc EXCEPT ![waiting] = scheduler_wake_stdin(@)]
    /\ waiting' = NoProc
    /\ UNCHANGED <<procs, procs_head, current_proc, pid_counter, panicked>>

\* page_fault_handler, from user mode.
page_fault_handler ==
    /\ ~panicked
    /\ current_proc # NoProc
    /\ CurrentPid \in Faulters
    /\ LET P == [proc EXCEPT ![current_proc].state = "ZOMBIE",
                             ![current_proc].exit_code = SegvCode]
       IN  scheduler_on_segfault(scheduler_notify_parent(P, current_proc))
    /\ UNCHANGED <<procs, pid_counter, waiting, panicked>>

-----------------------------------------------------------------------------
\* syscall_handler.  A call that leaves the caller BLOCKED or ZOMBIE ends in
\* scheduler_yield, any other returns to the caller.

InSyscall == ~panicked /\ current_proc # NoProc

syscall_read ==
    /\ InSyscall
    /\ CurrentPid \in Readers
    /\ TakeTurns => waiting = NoProc
    /\ scheduler_core([proc EXCEPT ![current_proc].state = "BLOCKED"])
    /\ waiting' = current_proc                                  \* stdin_wait
    /\ UNCHANGED <<procs, pid_counter, panicked>>

syscall_exit(code) ==
    /\ InSyscall
    /\ LET P == [proc EXCEPT ![current_proc].state = "ZOMBIE",
                             ![current_proc].exit_code = code]
       IN  scheduler_core(scheduler_notify_parent(P, current_proc))
    /\ UNCHANGED <<procs, pid_counter, waiting, panicked>>

\* An exec whose elf_load fails returns -1 and changes nothing here.
syscall_exec ==
    /\ InSyscall
    /\ elf_load
    /\ UNCHANGED <<procs_head, current_proc, waiting, panicked>>

\* kill does not check the result of scheduler_get_proc: for an unknown pid it
\* writes through a null pointer in ring 0, and page_fault_handler panics.
syscall_kill(pid) ==
    /\ InSyscall
    /\ CurrentPid \in Killers
    /\ LET s == scheduler_get_proc(pid)
           P == [proc EXCEPT ![s].state = "ZOMBIE"]
       IN  \/ /\ s = NoProc
              /\ panicked' = TRUE
              /\ UNCHANGED <<proc, procs_head, current_proc>>
           \/ /\ s \notin {NoProc, current_proc}
              /\ proc' = P
              /\ UNCHANGED <<procs_head, current_proc, panicked>>
           \/ /\ s = current_proc
              /\ scheduler_core(P)
              /\ UNCHANGED panicked
    /\ UNCHANGED <<procs, pid_counter, waiting>>

\* waitpid returns at once with this EAX.
WaitReturns(P, eax) ==
    /\ proc' = [P EXCEPT ![current_proc].eax = eax]
    /\ UNCHANGED <<procs_head, current_proc>>

\* scheduler_reap_child, proc_destroy included.
scheduler_reap_child(s) ==
    /\ procs' = dynarray_remove(procs, CHOOSE i \in DOMAIN procs : procs[i] = s)
    /\ WaitReturns([proc EXCEPT ![s] = Freed], proc[s].exit_code)

syscall_waitpid(pid) ==
    /\ InSyscall
    /\ LET s == scheduler_get_proc(pid)
       IN  \/ /\ s = NoProc
              /\ WaitReturns(proc, -1)
              /\ UNCHANGED procs
           \/ /\ s # NoProc
              /\ proc[s].parent_pid # CurrentPid
              /\ WaitReturns(proc, -2)
              /\ UNCHANGED procs
           \/ /\ s # NoProc
              /\ proc[s].parent_pid = CurrentPid
              /\ proc[s].state = "ZOMBIE"
              /\ scheduler_reap_child(s)
           \/ /\ s # NoProc
              /\ proc[s].parent_pid = CurrentPid
              /\ proc[s].state # "ZOMBIE"
              /\ scheduler_core([proc EXCEPT ![current_proc].state = "BLOCKED",
                                             ![current_proc].waiting_for = pid,
                                             ![current_proc].eax = SYS_WAITPID])
              /\ UNCHANGED procs
    /\ UNCHANGED <<pid_counter, waiting, panicked>>

-----------------------------------------------------------------------------
Pids == 1..MaxPid

Next ==
    \/ Boot
    \/ TimerTick
    \/ KeyEnter
    \/ page_fault_handler
    \/ syscall_read
    \/ \E code \in ExitCodes : syscall_exit(code)
    \/ syscall_exec
    \/ \E pid \in Pids : syscall_kill(pid)
    \/ \E pid \in Pids : syscall_waitpid(pid)

Spec == Init /\ [][Next]_vars

\* The PIT keeps firing (hw_timer_init(100)) and interrupts are on whenever a
\* process or the idle task runs, so the tick is weakly fair.  Nothing is
\* assumed of programs or of the person typing.  kernel_main reaches elf_load.
FairSpec == Spec /\ WF_vars(TimerTick) /\ WF_vars(Boot)

-----------------------------------------------------------------------------
\* Properties.

\* The type invariant: the structs, the table and the scheduler's variables keep
\* their types, and no more pids are handed out than MaxPid.
TypeOK ==
    /\ proc \in [Slots -> Proc]
    /\ procs \in Seq(Slots)
    /\ procs_head \in Nat
    /\ current_proc \in Slots \cup {NoProc}
    /\ pid_counter \in 1..(MaxPid + 1)
    /\ waiting \in Slots \cup {NoProc}
    /\ panicked \in BOOLEAN

\* The process on the CPU is the one procs_head points at, and it is runnable.
\* pick_next_ready_proc starts from procs_head, and scheduler_reap_child shifts
\* the array under it without adjusting the index: round-robin order rests on
\* a reaped child always lying behind its parent in the array.
HeadIsCurrent ==
    current_proc # NoProc =>
        /\ procs_head < Len(procs)
        /\ procs[procs_head + 1] = current_proc
        /\ Runnable(proc, current_proc)

\* No process is in the table twice and no pid is handed out twice, whatever
\* slots proc_destroy has freed and kmalloc handed out again: scheduler_get_proc
\* finds the process meant.
PidsUnique ==
    \A i, j \in DOMAIN procs :
        i # j => procs[i] # procs[j] /\ proc[procs[i]].pid # proc[procs[j]].pid

\* A blocked process has somebody who will wake it: the child it waits for,
\* still alive, or Enter on the keyboard (__waiting_stdin).
BlockedHasWaker ==
    \A s \in Live : proc[s].state = "BLOCKED" =>
        \/ waiting = s /\ proc[s].waiting_for = 0
        \/ \E c \in Live : /\ proc[c].pid = proc[s].waiting_for
                           /\ proc[c].parent_pid = proc[s].pid
                           /\ proc[c].state # "ZOMBIE"

\* A process whose child is dead is not blocked in waitpid on that child.
NoWaitOnZombie ==
    \A s, c \in Live :
        (proc[s].state = "BLOCKED" /\ proc[c].state = "ZOMBIE")
            => proc[s].waiting_for # proc[c].pid

\* __waiting_stdin.p points at a process in the table that is blocked, never at
\* one that is dead or at a struct that proc_destroy has freed.
StdinWaiterBlocked ==
    waiting # NoProc => waiting \in Live /\ proc[waiting].state = "BLOCKED"

\* Once dead, a process stays dead until it is reaped: no key, tick or call
\* makes it runnable again.
ZombieIsFinal ==
    [][\A s \in Live : proc[s].state = "ZOMBIE" =>
          proc'[s].state = "ZOMBIE" \/ s \notin Range(procs')]_vars

\* A process that runs after waitpid sees what waitpid reported, an exit code or
\* an error, and not the number it called the kernel with.
WaitpidReports ==
    current_proc # NoProc => proc[current_proc].eax # SYS_WAITPID

\* A runnable process gets the CPU, is killed, or the kernel panics: no
\* behaviour of the other processes keeps the round robin from reaching it.
RunnableRuns ==
    \A pid \in Pids :
        (\E s \in Live : proc[s].pid = pid /\ Runnable(proc, s))
            ~> (CurrentPid = pid \/ panicked
                \/ ~\E s \in Live : proc[s].pid = pid /\ Runnable(proc, s))

-----------------------------------------------------------------------------
\* Refinement: what each pid looks like from outside the kernel.

\* The process that has this pid now.
Holder(pid) == CHOOSE s \in Live : proc[s].pid = pid

InUse(pid) == \E s \in Live : proc[s].pid = pid

LifeOf == [pid \in Pids |->
    IF pid >= pid_counter THEN "none"
    ELSE IF ~InUse(pid) THEN "reaped"
    ELSE IF proc[Holder(pid)].state = "ZOMBIE" THEN "zombie" ELSE "alive"]

ParentOf == [pid \in Pids |-> IF InUse(pid) THEN proc[Holder(pid)].parent_pid ELSE 0]

WaitsOf == [pid \in Pids |->
    IF InUse(pid) /\ proc[Holder(pid)].state = "BLOCKED"
    THEN proc[Holder(pid)].waiting_for ELSE 0]

Life == INSTANCE ProcLife WITH
    life <- LifeOf, parent <- ParentOf, waits <- WaitsOf

\* The scheduler implements ProcLife.
ImplementsLife == Life!LifeSpec

=============================================================================
