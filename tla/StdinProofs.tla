----------------------------- MODULE StdinProofs -----------------------------
(***************************************************************************)
(* Stdin, for any readers, characters, buffer size and width of the length *)
(* byte: the buffer is never overrun, and a line nobody types over arrives *)
(* as it was on the screen.                                                *)
(***************************************************************************)
EXTENDS Stdin, TLAPS

\* The length byte holds a small length as it is, and never a larger one.
LEMMA ModSmall ==
    ASSUME NEW x \in Nat, NEW m \in Nat \ {0}
    PROVE  x % m \in 0..x /\ (x < m => x % m = x)
  BY SMT

\* The first n characters of a full buffer are a line of length n.
LEMMA LineType ==
    ASSUME NEW b \in [1..STDIN_BUF_MAX -> Chars], NEW n \in 0..STDIN_BUF_MAX
    PROVE  Line(b, n) \in Seq(Chars) /\ Len(Line(b, n)) = n
  BY StdinAssumption DEF Line

\* A line cut at its own length is the line.
LEMMA LineOfLine ==
    ASSUME NEW b \in [1..STDIN_BUF_MAX -> Chars], NEW n \in 0..STDIN_BUF_MAX
    PROVE  Line(b, n) = Line(b, Len(Line(b, n)))
  BY LineType

-----------------------------------------------------------------------------
\* The keyboard buffer still holds every line that is handed over, not copied and
\* not typed over, and the reader's length is the line's, as a byte holds it.
LineIntact ==
    \A p \in Readers : (pending[p] /\ quiet[p]) =>
        /\ Len(taken[p]) \in 0..(STDIN_BUF_MAX - 1)
        /\ taken[p] = Line(stdin_buf, Len(taken[p]))
        /\ kernel_len[p] = Len(taken[p]) % LenMod

\* A woken reader has its line handed over.
WokenPending == \A p \in Readers : state[p] = "woken" => pending[p]

StdinInv == TypeOK /\ LineIntact /\ WokenPending

LEMMA InitHolds == Init => StdinInv
  <1>1. Init => TypeOK
    BY StdinAssumption DEF Init, TypeOK
  <1>2. Init => LineIntact
    BY DEF Init, LineIntact
  <1>3. Init => WokenPending
    BY DEF Init, WokenPending
  <1> QED  BY <1>1, <1>2, <1>3 DEF StdinInv

\* stdin_put leaves room: the new length is still inside the buffer.
LEMMA PutKeeps ==
    ASSUME StdinInv, NEW c \in Chars, stdin_put(c)
    PROVE  StdinInv'
  <1> USE DEF stdin_put, StdinInv
  <1>1. TypeOK'
    BY StdinAssumption DEF TypeOK, HasRoom
  <1>2. LineIntact' /\ WokenPending'
    BY DEF LineIntact, WokenPending
  <1> QED  BY <1>1, <1>2

LEMMA PopKeeps ==
    ASSUME StdinInv, stdin_pop
    PROVE  StdinInv'
  BY StdinAssumption DEF stdin_pop, StdinInv, TypeOK, LineIntact, WokenPending

\* Enter records for the waiting reader what the buffer holds.
LEMMA FlushKeeps ==
    ASSUME StdinInv, stdin_flush
    PROVE  StdinInv'
  <1> USE DEF stdin_flush, StdinInv
  <1> DEFINE w == waiting
             line == Line(stdin_buf, stdin_buf_len)
  <1>1. w \in Readers
    BY DEF TypeOK
  <1>2. /\ stdin_buf \in [1..STDIN_BUF_MAX -> Chars]
        /\ stdin_buf_len \in 0..STDIN_BUF_MAX
        /\ stdin_buf_len \in Nat
    BY StdinAssumption DEF TypeOK
  <1>3. line \in Seq(Chars) /\ Len(line) = stdin_buf_len /\ line = Line(stdin_buf, Len(line))
    BY <1>2, LineType, LineOfLine
  <1>4. stdin_buf_len % LenMod \in 0..stdin_buf_len
    BY <1>2, ModSmall, StdinAssumption
  <1>5. stdin_buf_len % LenMod \in 0..(STDIN_BUF_MAX - 1)
    BY <1>4, StdinAssumption DEF TypeOK
  <1>6. TypeOK'
    BY <1>1, <1>3, <1>5, StdinAssumption DEF TypeOK, scheduler_wake_stdin
  <1>7. ASSUME NEW p \in Readers, pending'[p], quiet'[p]
        PROVE  /\ Len(taken'[p]) \in 0..(STDIN_BUF_MAX - 1)
               /\ taken'[p] = Line(stdin_buf', Len(taken'[p]))
               /\ kernel_len'[p] = Len(taken'[p]) % LenMod
    <2>1. CASE p = w
      <3>1. taken'[p] = line /\ kernel_len'[p] = stdin_buf_len % LenMod /\ stdin_buf' = stdin_buf
        BY <1>1, <2>1 DEF TypeOK, scheduler_wake_stdin
      <3> QED  BY <1>3, <3>1 DEF TypeOK
    <2>2. CASE p # w
      <3>1. /\ taken'[p] = taken[p] /\ kernel_len'[p] = kernel_len[p]
            /\ pending[p] /\ quiet[p] /\ stdin_buf' = stdin_buf
        BY <1>7, <2>2 DEF TypeOK, scheduler_wake_stdin
      <3> QED  BY <3>1 DEF LineIntact
    <2> QED  BY <2>1, <2>2
  <1>8. LineIntact'
    BY <1>7 DEF LineIntact
  <1>9. WokenPending'
    BY DEF TypeOK, WokenPending
  <1> QED  BY <1>6, <1>8, <1>9

LEMMA ReadKeeps ==
    ASSUME StdinInv, NEW p \in Readers, syscall_read(p)
    PROVE  StdinInv'
  <1> USE DEF syscall_read, StdinInv
  <1>1. TypeOK'
    BY DEF TypeOK
  <1>2. LineIntact' /\ WokenPending'
    BY DEF TypeOK, LineIntact, WokenPending
  <1> QED  BY <1>1, <1>2

\* The copy discharges the line and touches no other reader.
LEMMA CopyKeeps ==
    ASSUME StdinInv, NEW p \in Readers, sched_flush_proc_bufs(p)
    PROVE  StdinInv'
  <1> USE DEF sched_flush_proc_bufs, StdinInv
  <1>1. /\ stdin_buf \in [1..STDIN_BUF_MAX -> Chars]
        /\ kernel_len[p] \in 0..STDIN_BUF_MAX
    BY StdinAssumption DEF TypeOK
  <1>2. Line(stdin_buf, kernel_len[p]) \in Seq(Chars)
    BY <1>1, LineType
  <1>3. TypeOK'
    BY <1>2, StdinAssumption DEF TypeOK
  <1>4. LineIntact' /\ WokenPending'
    BY DEF TypeOK, LineIntact, WokenPending
  <1> QED  BY <1>3, <1>4

\* A fault's switch leaves the line with the kernel.
LEMMA FaultKeeps ==
    ASSUME StdinInv, NEW p \in Readers, scheduler_on_segfault(p)
    PROVE  StdinInv'
  <1> USE DEF scheduler_on_segfault, StdinInv
  <1>1. TypeOK'
    BY DEF TypeOK
  <1>2. LineIntact' /\ WokenPending'
    BY DEF TypeOK, LineIntact, WokenPending
  <1> QED  BY <1>1, <1>2

LEMMA NextKeeps == StdinInv /\ [Next]_vars => StdinInv'
  <1> SUFFICES ASSUME StdinInv, [Next]_vars PROVE StdinInv'
    OBVIOUS
  <1>1. CASE \E c \in Chars : stdin_put(c)
    BY <1>1, PutKeeps
  <1>2. CASE stdin_pop
    BY <1>2, PopKeeps
  <1>3. CASE stdin_flush
    BY <1>3, FlushKeeps
  <1>4. CASE \E p \in Readers : syscall_read(p)
    BY <1>4, ReadKeeps
  <1>5. CASE \E p \in Readers : sched_flush_proc_bufs(p)
    BY <1>5, CopyKeeps
  <1>6. CASE \E p \in Readers : scheduler_on_segfault(p)
    BY <1>6, FaultKeeps
  <1>7. CASE UNCHANGED vars
    BY <1>7 DEF vars, StdinInv, TypeOK, LineIntact, WokenPending
  <1> QED  BY <1>1, <1>2, <1>3, <1>4, <1>5, <1>6, <1>7 DEF Next

\* The keyboard buffer and the lengths derived from it stay in bounds.
THEOREM StdinTypeCorrect == Spec => []TypeOK
  <1>1. StdinInv => TypeOK
    BY DEF StdinInv
  <1> QED  BY InitHolds, NextKeeps, <1>1, PTL DEF Spec

\* A short line nobody types over reaches its reader as it stood at Enter, at
\* the end of read or, after another process's fault, later.
THEOREM QuietLine == Spec => QuietLineArrives
  <1> DEFINE Short(p) == (Copied(p) \/ Returns(p)) /\ quiet[p] /\ Len(taken[p]) < LenMod
             Arrives(p) == \/ user_buf'[p] = taken[p]
                           \/ scheduler_on_segfault(p) /\ pending'[p]
  <1>1. ASSUME StdinInv, Next, NEW p \in Readers, Short(p)
        PROVE  Arrives(p)
    <2> USE <1>1
    <2>1. sched_flush_proc_bufs(p) \/ scheduler_on_segfault(p)
      <3>1. ASSUME NEW c \in Chars, stdin_put(c) PROVE FALSE
        BY <3>1 DEF stdin_put, Copied, Returns
      <3>2. CASE stdin_pop
        BY <3>2 DEF stdin_pop, Copied, Returns
      <3>3. CASE stdin_flush
        BY <3>3 DEF stdin_flush, Copied, Returns, StdinInv, TypeOK
      <3>4. ASSUME NEW q \in Readers, syscall_read(q) PROVE FALSE
        BY <3>4 DEF syscall_read, Copied, Returns, StdinInv, TypeOK
      <3>5. ASSUME NEW q \in Readers, sched_flush_proc_bufs(q) PROVE q = p
        BY <3>5 DEF sched_flush_proc_bufs, Copied, Returns, StdinInv, TypeOK
      <3>6. ASSUME NEW q \in Readers, scheduler_on_segfault(q) PROVE q = p
        BY <3>6 DEF scheduler_on_segfault, Copied, Returns, StdinInv, TypeOK
      <3> QED  BY <3>1, <3>2, <3>3, <3>4, <3>5, <3>6 DEF Next
    <2>2. CASE scheduler_on_segfault(p)
      BY <2>2 DEF scheduler_on_segfault, StdinInv, WokenPending
    <2>3. CASE sched_flush_proc_bufs(p)
      <3>1. /\ taken[p] = Line(stdin_buf, Len(taken[p]))
            /\ kernel_len[p] = Len(taken[p]) % LenMod
        BY <2>3 DEF StdinInv, LineIntact, sched_flush_proc_bufs
      <3>2. Len(taken[p]) \in Nat
        BY DEF StdinInv, TypeOK
      <3>3. kernel_len[p] = Len(taken[p])
        BY <3>1, <3>2, ModSmall, StdinAssumption
      <3>4. user_buf'[p] = Line(stdin_buf, kernel_len[p])
        BY <2>3 DEF sched_flush_proc_bufs, StdinInv, TypeOK
      <3> QED  BY <3>1, <3>3, <3>4
    <2> QED  BY <2>1, <2>2, <2>3
  <1>2. StdinInv /\ [Next]_vars => [\A p \in Readers : Short(p) => Arrives(p)]_vars
    BY <1>1
  <1> QED  BY InitHolds, NextKeeps, <1>2, PTL DEF Spec, QuietLineArrives
==============================================================================
