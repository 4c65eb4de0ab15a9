-------------------------------- MODULE Stdin --------------------------------
(***************************************************************************)
(* The keyboard line discipline: keys are collected in one buffer shared   *)
(* by the whole system, Enter hands the buffer, by reference, to the       *)
(* process registered for it, and the scheduler copies the line to the     *)
(* process's memory when it next switches to the process.  The switch that *)
(* follows a page fault is another piece of code, and copies nothing.      *)
(*                                                                         *)
(* Every handler runs with interrupts off, so each is one action; between  *)
(* Enter and the switch any key may arrive and any process may call read.  *)
(* The scheduler is seen from here only as the switch to a process, by a   *)
(* tick or a call or after a fault of some other process; Sched models     *)
(* which process it picks.                                                 *)
(***************************************************************************)
EXTENDS Integers, Sequences

CONSTANTS
    Readers,        \* the processes that read from the keyboard
    NoProc,         \* the null proc pointer
    Chars,          \* the characters of kb_map
    STDIN_BUF_MAX,  \* capacity of __stdin_buf (512)
    LenMod          \* values of scheduler_wake_stdin's uint8_t length (256)

ASSUME StdinAssumption ==
    /\ NoProc \notin Readers
    /\ STDIN_BUF_MAX \in Nat \ {0}
    /\ LenMod \in Nat \ {0}

VARIABLES
    stdin_buf,      \* __stdin_buf, as the characters at positions 1, 2, ...
    stdin_buf_len,  \* __stdin_buf_len
    waiting,        \* __waiting_stdin.p
    state,          \* user: runs or may run; blocked: in read; woken: read ended
    pending,        \* stdin_kernel_buf # 0: a line is handed over and not copied
    kernel_len,     \* stdin_kernel_buf_len of such a process
    user_buf,       \* what the last copy left in the process's buffer
    taken,          \* history: the line on the screen when Enter was pressed
    quiet           \* history: no key has been stored since that Enter

vars == <<stdin_buf, stdin_buf_len, waiting, state, pending, kernel_len, user_buf,
          taken, quiet>>

\* The first n characters of a buffer.
Line(b, n) == [i \in 1..n |-> b[i]]

Init ==
    /\ stdin_buf \in [1..STDIN_BUF_MAX -> Chars]      \* kmalloc does not clear
    /\ stdin_buf_len = 0
    /\ waiting = NoProc
    /\ state = [p \in Readers |-> "user"]
    /\ pending = [p \in Readers |-> FALSE]
    /\ kernel_len = [p \in Readers |-> 0]
    /\ user_buf = [p \in Readers |-> <<>>]
    /\ taken = [p \in Readers |-> <<>>]
    /\ quiet = [p \in Readers |-> TRUE]

\* Mutant: the last cell may be filled too.
room_for_one == stdin_buf_len < STDIN_BUF_MAX

\* One cell is always left for the terminator.
HasRoom == stdin_buf_len + 1 < STDIN_BUF_MAX

\* stdin_put: a key with a character; dropped when the buffer is full.
stdin_put(c) ==
    /\ HasRoom
    /\ stdin_buf' = [stdin_buf EXCEPT ![stdin_buf_len + 1] = c]
    /\ stdin_buf_len' = stdin_buf_len + 1
    /\ quiet' = [p \in Readers |-> FALSE]
    /\ UNCHANGED <<waiting, state, pending, kernel_len, user_buf, taken>>

\* stdin_pop: Backspace.
stdin_pop ==
    /\ stdin_buf_len > 0
    /\ stdin_buf_len' = stdin_buf_len - 1
    /\ UNCHANGED <<stdin_buf, waiting, state, pending, kernel_len, user_buf, taken, quiet>>

\* Mutant: the length handed over counts the position of the next key.
wake_one_more(p) == [kernel_len EXCEPT ![p] = (stdin_buf_len + 1) % LenMod]

\* scheduler_wake_stdin takes the length as a uint8_t.
scheduler_wake_stdin(p) == [kernel_len EXCEPT ![p] = stdin_buf_len % LenMod]

\* stdin_flush: Enter.  With nobody registered it does nothing, and the line
\* stays for the next reader.
stdin_flush ==
    /\ waiting # NoProc
    /\ kernel_len' = scheduler_wake_stdin(waiting)
    /\ pending' = [pending EXCEPT ![waiting] = TRUE]
    /\ state' = [state EXCEPT ![waiting] = "woken"]
    /\ taken' = [taken EXCEPT ![waiting] = Line(stdin_buf, stdin_buf_len)]
    /\ quiet' = [quiet EXCEPT ![waiting] = TRUE]
    /\ stdin_buf_len' = 0
    /\ waiting' = NoProc
    /\ UNCHANGED <<stdin_buf, user_buf>>

\* __syscall_read and stdin_wait: the last process to read is the one registered.
\* A line a fault kept from being copied stays handed over meanwhile.
syscall_read(p) ==
    /\ state[p] = "user"
    /\ state' = [state EXCEPT ![p] = "blocked"]
    /\ waiting' = p
    /\ UNCHANGED <<stdin_buf, stdin_buf_len, pending, kernel_len, user_buf, taken, quiet>>

\* __sched_flush_proc_bufs, in __scheduler_core's switch to a process that is not
\* blocked: the copy reads the shared buffer as it is now.  A woken process
\* returns from read with it; one that a fault's switch resumed has gone on, and
\* gets the line while it does something else.
sched_flush_proc_bufs(p) ==
    /\ state[p] # "blocked"
    /\ pending[p]
    /\ user_buf' = [user_buf EXCEPT ![p] = Line(stdin_buf, kernel_len[p])]
    /\ kernel_len' = [kernel_len EXCEPT ![p] = 0]
    /\ pending' = [pending EXCEPT ![p] = FALSE]
    /\ state' = [state EXCEPT ![p] = "user"]
    /\ UNCHANGED <<stdin_buf, stdin_buf_len, waiting, taken, quiet>>

\* scheduler_on_segfault, when the process it picks after somebody's fault is a
\* woken reader: it switches without __sched_flush_proc_bufs, so read returns
\* with the buffer as it was.
scheduler_on_segfault(p) ==
    /\ state[p] = "woken"
    /\ state' = [state EXCEPT ![p] = "user"]
    /\ UNCHANGED <<stdin_buf, stdin_buf_len, waiting, pending, kernel_len, user_buf, taken, quiet>>

\* kb_handle_interrupt: one action per kind of key.
Next ==
    \/ \E c \in Chars : stdin_put(c)
    \/ stdin_pop
    \/ stdin_flush
    \/ \E p \in Readers :
          syscall_read(p) \/ sched_flush_proc_bufs(p) \/ scheduler_on_segfault(p)

Spec == Init /\ [][Next]_vars

-----------------------------------------------------------------------------
\* The type invariant: the line never fills its buffer, and no length exceeds it.
TypeOK ==
    /\ stdin_buf \in [1..STDIN_BUF_MAX -> Chars]
    /\ stdin_buf_len \in 0..(STDIN_BUF_MAX - 1)
    /\ waiting \in Readers \cup {NoProc}
    /\ state \in [Readers -> {"user", "blocked", "woken"}]
    /\ pending \in [Readers -> BOOLEAN]
    /\ kernel_len \in [Readers -> 0..(STDIN_BUF_MAX - 1)]
    /\ user_buf \in [Readers -> Seq(Chars)]
    /\ taken \in [Readers -> Seq(Chars)]
    /\ quiet \in [Readers -> BOOLEAN]

\* p's line is copied to it in this step.
Copied(p) == pending[p] /\ ~pending'[p]

\* p's read returns in this step.
Returns(p) == state[p] = "woken" /\ state'[p] = "user"

\* A line shorter than 256 characters reaches the reader as it stood on the
\* screen at Enter, provided no key was stored between that Enter and the copy,
\* whoever else reads, presses Enter, faults or is switched to in between.  The
\* line is there when read returns, but for one case: after another process's
\* fault scheduler_on_segfault may resume the reader without the copy.  Then the
\* line is still owed, and the copy that comes later is the right one.
QuietLineArrives ==
    [][\A p \in Readers :
          ((Copied(p) \/ Returns(p)) /\ quiet[p] /\ Len(taken[p]) < LenMod)
              => \/ user_buf'[p] = taken[p]
                 \/ scheduler_on_segfault(p) /\ pending'[p]]_vars
=============================================================================
