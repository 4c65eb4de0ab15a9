---------------------------- MODULE SchedProofs ----------------------------
(***************************************************************************)
(* Proofs about Sched, for any number of slots, pids and programs.         *)
(*                                                                         *)
(* The inductive invariant strengthens HeadIsCurrent by what makes it hold *)
(* across scheduler_reap_child: the table is ordered by pid and a child is *)
(* younger than its parent, so the entry reaped lies behind procs_head.    *)
(***************************************************************************)
EXTENDS Sched, TLAPS

\* The table is ordered by pid, and every pid in it has been handed out.
TableOrdered ==
    /\ \A i \in 1..Len(procs) : proc[procs[i]].pid \in 1..(pid_counter - 1)
    /\ \A i, j \in 1..Len(procs) : i < j => proc[procs[i]].pid < proc[procs[j]].pid

\* Every process is younger than its parent.
ParentsOlder ==
    \A i \in 1..Len(procs) : proc[procs[i]].parent_pid < proc[procs[i]].pid

\* procs_head is an index of the table once there is one.
HeadInTable == IF procs = <<>> THEN procs_head = 0 ELSE procs_head < Len(procs)

SchedInv ==
    /\ TypeOK
    /\ TableOrdered
    /\ ParentsOlder
    /\ HeadInTable
    /\ HeadIsCurrent

\* P has the pids and the parents of proc: what no handler but elf_load and
\* scheduler_reap_child changes.
SameIds(P) ==
    \A s \in Slots : /\ P[s].pid = proc[s].pid
                     /\ P[s].parent_pid = proc[s].parent_pid

-----------------------------------------------------------------------------
\* An index taken modulo the table's length is an index of the table.
LEMMA ModRange ==
    ASSUME NEW a \in Nat, NEW n \in Nat, n # 0
    PROVE  a % n \in 0..(n - 1)
  BY SMT

\* Live is the set of slots in the table.
LEMMA LiveSlots ==
    ASSUME procs \in Seq(Slots)
    PROVE  /\ Live \subseteq Slots
           /\ \A s \in Live : \E i \in 1..Len(procs) : procs[i] = s
           /\ \A i \in 1..Len(procs) : procs[i] \in Live
  BY DEF Live, Range

\* The round-robin search yields a slot of the table.
LEMMA AfterSlot ==
    ASSUME TypeOK, NEW d \in 1..Len(procs)
    PROVE  /\ (procs_head + d) % Len(procs) \in 0..(Len(procs) - 1)
           /\ After(d) \in Slots
           /\ After(d) \in Live
  <1>1. procs_head + d \in Nat /\ Len(procs) \in Nat /\ Len(procs) # 0
    BY DEF TypeOK
  <1>2. (procs_head + d) % Len(procs) \in 0..(Len(procs) - 1)
    BY <1>1, ModRange
  <1>3. ((procs_head + d) % Len(procs)) + 1 \in 1..Len(procs)
    BY <1>1, <1>2
  <1>4. procs \in Seq(Slots)
    BY DEF TypeOK
  <1> QED
    BY <1>2, <1>3, <1>4, LiveSlots DEF After

\* scheduler_notify_parent keeps the types, the pids and the parents, and never
\* makes a dead or blocked process of a runnable one.
LEMMA NotifyKeeps ==
    ASSUME TypeOK, NEW P \in [Slots -> Proc], NEW c \in Slots
    PROVE  /\ scheduler_notify_parent(P, c) \in [Slots -> Proc]
           /\ \A s \in Slots :
                /\ scheduler_notify_parent(P, c)[s].pid = P[s].pid
                /\ scheduler_notify_parent(P, c)[s].parent_pid = P[s].parent_pid
  <1> DEFINE N == scheduler_notify_parent(P, c)
  <1>1. ASSUME NEW s \in Slots
        PROVE  N[s] \in Proc /\ N[s].pid = P[s].pid /\ N[s].parent_pid = P[s].parent_pid
    BY <1>1 DEF scheduler_notify_parent, Proc, States
  <1>2. N = [s \in Slots |-> N[s]]
    BY DEF scheduler_notify_parent
  <1> HIDE DEF N
  <1> QED
    BY <1>1, <1>2 DEF N

\* Dispatching keeps a struct's type, pid and parent, and leaves it runnable.
LEMMA DispatchKeeps ==
    ASSUME NEW r \in Proc
    PROVE  /\ LayOutArgs(sched_flush_proc_bufs(r)) \in Proc
           /\ LayOutArgs(sched_flush_proc_bufs(r)).pid = r.pid
           /\ LayOutArgs(sched_flush_proc_bufs(r)).parent_pid = r.parent_pid
           /\ r.state \notin {"BLOCKED", "ZOMBIE"} =>
                LayOutArgs(sched_flush_proc_bufs(r)).state \notin {"BLOCKED", "ZOMBIE"}
  BY DEF LayOutArgs, sched_flush_proc_bufs, Proc, States

\* A switch to the idle task keeps the invariant's parts that it touches.
LEMMA IdleKeeps ==
    ASSUME TypeOK, HeadInTable, procs # <<>>, procs' = procs,
           NEW P \in [Slots -> Proc], SameIds(P), SwitchToIdle(P)
    PROVE  /\ proc' \in [Slots -> Proc]
           /\ procs_head' \in Nat
           /\ current_proc' \in Slots \cup {NoProc}
           /\ SameIds(proc')
           /\ HeadInTable'
           /\ HeadIsCurrent'
  <1>1. procs_head \in Nat /\ Len(procs) \in Nat /\ Len(procs) # 0
    BY DEF TypeOK
  <1>2. procs_head % Len(procs) \in 0..(Len(procs) - 1)
    BY <1>1, ModRange
  <1> QED
    BY <1>1, <1>2 DEF SwitchToIdle, HeadInTable, HeadIsCurrent

\* The switch to the process found d places after the head, when its struct
\* becomes r, keeps the invariant's parts that it touches.
LEMMA SwitchKeeps ==
    ASSUME TypeOK, procs' = procs, NEW P \in [Slots -> Proc], SameIds(P),
           NEW d \in 1..Len(procs), NEW r \in Proc,
           procs_head' = (procs_head + d) % Len(procs),
           current_proc' = After(d),
           proc' = [P EXCEPT ![After(d)] = r],
           r.pid = P[After(d)].pid, r.parent_pid = P[After(d)].parent_pid,
           r.state \notin {"BLOCKED", "ZOMBIE"}
    PROVE  /\ proc' \in [Slots -> Proc]
           /\ procs_head' \in Nat
           /\ current_proc' \in Slots \cup {NoProc}
           /\ SameIds(proc')
           /\ HeadInTable'
           /\ HeadIsCurrent'
  <1>1. /\ (procs_head + d) % Len(procs) \in 0..(Len(procs) - 1)
        /\ After(d) \in Slots
    BY AfterSlot
  <1>2. procs # <<>> /\ Len(procs) \in Nat
    BY DEF TypeOK
  <1>3. proc' \in [Slots -> Proc] /\ proc'[After(d)] = r
    BY <1>1
  <1>4. SameIds(proc')
    BY <1>1 DEF SameIds
  <1>5. HeadInTable'
    BY <1>1, <1>2 DEF HeadInTable
  <1>6. HeadIsCurrent'
    BY <1>1, <1>2, <1>3 DEF HeadIsCurrent, Runnable, After
  <1> QED
    BY <1>1, <1>2, <1>3, <1>4, <1>5, <1>6

\* __scheduler_core, on structs with the same pids.
LEMMA CoreKeeps ==
    ASSUME SchedInv, procs' = procs,
           NEW P \in [Slots -> Proc], SameIds(P), scheduler_core(P)
    PROVE  /\ proc' \in [Slots -> Proc]
           /\ procs_head' \in Nat
           /\ current_proc' \in Slots \cup {NoProc}
           /\ SameIds(proc')
           /\ HeadInTable'
           /\ HeadIsCurrent'
  <1> USE DEF SchedInv
  <1>1. CASE procs = <<>> /\ proc' = P /\ UNCHANGED <<procs_head, current_proc>>
    <2>1. current_proc = NoProc
      BY <1>1 DEF HeadIsCurrent, TypeOK
    <2> QED
      BY <1>1, <2>1 DEF TypeOK, HeadInTable, HeadIsCurrent
  <1>2. CASE procs # <<>> /\ SwitchToIdle(P)
    BY <1>2, IdleKeeps
  <1>3. ASSUME NEW d \in 1..Len(procs),
               pick_next_ready_proc(P, d),
               procs_head' = (procs_head + d) % Len(procs),
               current_proc' = After(d),
               proc' = [P EXCEPT ![After(d)] = LayOutArgs(sched_flush_proc_bufs(@))]
        PROVE  /\ proc' \in [Slots -> Proc]
               /\ procs_head' \in Nat
               /\ current_proc' \in Slots \cup {NoProc}
               /\ SameIds(proc')
               /\ HeadInTable'
               /\ HeadIsCurrent'
    <2> DEFINE r == LayOutArgs(sched_flush_proc_bufs(P[After(d)]))
    <2>1. After(d) \in Slots
      BY <1>3, AfterSlot
    <2>2. P[After(d)] \in Proc
      BY <2>1
    <2>3. P[After(d)].state \notin {"BLOCKED", "ZOMBIE"}
      BY <1>3 DEF pick_next_ready_proc, Runnable
    <2>4. /\ r \in Proc
          /\ r.pid = P[After(d)].pid
          /\ r.parent_pid = P[After(d)].parent_pid
          /\ r.state \notin {"BLOCKED", "ZOMBIE"}
      BY <2>2, <2>3, DispatchKeeps
    <2>5. proc' = [P EXCEPT ![After(d)] = r]
      BY <1>3
    <2> HIDE DEF r
    <2> QED
      BY <1>3, <2>4, <2>5, SwitchKeeps
  <1> QED
    BY <1>1, <1>2, <1>3 DEF scheduler_core

\* scheduler_on_segfault, on structs with the same pids.
LEMMA SegfaultKeeps ==
    ASSUME SchedInv, procs' = procs, procs # <<>>,
           NEW P \in [Slots -> Proc], SameIds(P), scheduler_on_segfault(P)
    PROVE  /\ proc' \in [Slots -> Proc]
           /\ procs_head' \in Nat
           /\ current_proc' \in Slots \cup {NoProc}
           /\ SameIds(proc')
           /\ HeadInTable'
           /\ HeadIsCurrent'
  <1> USE DEF SchedInv
  <1>1. CASE SwitchToIdle(P)
    BY <1>1, IdleKeeps
  <1>2. ASSUME NEW d \in 1..Len(procs),
               pick_next_ready_proc(P, d),
               procs_head' = (procs_head + d) % Len(procs),
               current_proc' = After(d),
               proc' = P
        PROVE  /\ proc' \in [Slots -> Proc]
               /\ procs_head' \in Nat
               /\ current_proc' \in Slots \cup {NoProc}
               /\ SameIds(proc')
               /\ HeadInTable'
               /\ HeadIsCurrent'
    <2>1. After(d) \in Slots
      BY <1>2, AfterSlot
    <2>2. P[After(d)] \in Proc /\ proc' = [P EXCEPT ![After(d)] = P[After(d)]]
      BY <1>2, <2>1
    <2>3. P[After(d)].state \notin {"BLOCKED", "ZOMBIE"}
      BY <1>2 DEF pick_next_ready_proc, Runnable
    <2> QED
      BY <1>2, <2>2, <2>3, SwitchKeeps
  <1> QED
    BY <1>1, <1>2 DEF scheduler_on_segfault

\* With the same pids, table and pid_counter, the table stays ordered.
LEMMA IdsKeepTable ==
    ASSUME SchedInv, procs' = procs, pid_counter' = pid_counter, SameIds(proc')
    PROVE  TableOrdered' /\ ParentsOlder'
  <1>1. \A i \in 1..Len(procs) : procs[i] \in Slots
    BY DEF SchedInv, TypeOK
  <1>2. \A i \in 1..Len(procs) :
          /\ proc'[procs[i]].pid = proc[procs[i]].pid
          /\ proc'[procs[i]].parent_pid = proc[procs[i]].parent_pid
    BY <1>1 DEF SameIds
  <1> QED
    BY <1>2 DEF SchedInv, TableOrdered, ParentsOlder

-----------------------------------------------------------------------------
\* A handler that keeps the table, and whose switch, if any, is one of the above.
LEMMA SwitchKeepsInv ==
    ASSUME SchedInv, procs' = procs, pid_counter' = pid_counter,
           waiting' \in Slots \cup {NoProc}, panicked' \in BOOLEAN,
           proc' \in [Slots -> Proc], procs_head' \in Nat,
           current_proc' \in Slots \cup {NoProc},
           SameIds(proc'), HeadInTable', HeadIsCurrent'
    PROVE  SchedInv'
  <1>1. TypeOK'
    BY DEF SchedInv, TypeOK
  <1> QED
    BY <1>1, IdsKeepTable DEF SchedInv

\* A handler that writes structs of processes and does not switch.
LEMMA WriteKeepsInv ==
    ASSUME SchedInv,
           UNCHANGED <<procs, procs_head, current_proc, pid_counter>>,
           waiting' \in Slots \cup {NoProc}, panicked' \in BOOLEAN,
           proc' \in [Slots -> Proc], SameIds(proc'),
           current_proc # NoProc => Runnable(proc', current_proc)
    PROVE  SchedInv'
  <1>1. HeadInTable' /\ HeadIsCurrent'
    BY DEF SchedInv, HeadInTable, HeadIsCurrent
  <1> QED
    BY <1>1, SwitchKeepsInv DEF SchedInv, TypeOK

\* The process on the CPU is in the table.
LEMMA CurrentInTable ==
    ASSUME SchedInv, current_proc # NoProc
    PROVE  /\ procs # <<>>
           /\ current_proc \in Slots
           /\ current_proc \in Live
           /\ CurrentPid = proc[current_proc].pid
           /\ procs_head + 1 \in 1..Len(procs)
           /\ procs[procs_head + 1] = current_proc
  <1>1. procs_head + 1 \in 1..Len(procs)
    BY DEF SchedInv, TypeOK, HeadIsCurrent
  <1>2. procs \in Seq(Slots)
    BY DEF SchedInv, TypeOK
  <1> QED
    BY <1>1, <1>2, LiveSlots DEF SchedInv, TypeOK, HeadIsCurrent, CurrentPid

\* scheduler_get_proc returns a process of the table, or NoProc.
LEMMA GetProc ==
    ASSUME SchedInv, NEW pid
    PROVE  \/ scheduler_get_proc(pid) = NoProc
           \/ /\ scheduler_get_proc(pid) \in Live
              /\ scheduler_get_proc(pid) \in Slots
              /\ proc[scheduler_get_proc(pid)].pid = pid
  <1>1. procs \in Seq(Slots)
    BY DEF SchedInv, TypeOK
  <1> QED
    BY <1>1, LiveSlots DEF scheduler_get_proc

-----------------------------------------------------------------------------
\* One lemma per handler.

\* elf_load: the new process is the youngest and goes to the end of the table.
LEMMA ElfLoadKeeps ==
    ASSUME SchedInv, elf_load, UNCHANGED <<procs_head, current_proc, waiting, panicked>>
    PROVE  SchedInv'
  <1> USE DEF SchedInv
  <1> DEFINE r == [proc_create EXCEPT !.state = "STARTING"]
  <1>1. PICK s \in Slots \ Live : /\ proc' = [proc EXCEPT ![s] = r]
                                  /\ procs' = Append(procs, s)
    BY DEF elf_load, scheduler_add_proc
  <1>2. pid_counter \in 1..MaxPid /\ pid_counter' = pid_counter + 1 /\ MaxPid \in Nat
    BY SchedAssumption DEF elf_load, TypeOK
  <1>3. CurrentPid \in Nat /\ CurrentPid < pid_counter
    <2>1. CASE current_proc = NoProc
      BY <2>1, <1>2 DEF CurrentPid
    <2>2. CASE current_proc # NoProc
      BY <2>2, <1>2, CurrentInTable DEF TableOrdered
    <2> QED
      BY <2>1, <2>2
  <1>4. r \in Proc /\ r.pid = pid_counter /\ r.parent_pid = CurrentPid
    <2>1. pid_counter \in Nat
      BY <1>2
    <2>2. /\ proc_create \in Proc
          /\ proc_create.pid = pid_counter /\ proc_create.parent_pid = CurrentPid
      BY <2>1, <1>3 DEF proc_create, Proc, States, Eax
    <2>3. ASSUME NEW q \in Proc
          PROVE  /\ [q EXCEPT !.state = "STARTING"] \in Proc
                 /\ [q EXCEPT !.state = "STARTING"].pid = q.pid
                 /\ [q EXCEPT !.state = "STARTING"].parent_pid = q.parent_pid
      BY DEF Proc, States
    <2> QED
      BY <2>2, <2>3
  <1> HIDE DEF r
  <1>5. procs \in Seq(Slots) /\ Len(procs) \in Nat
    BY DEF TypeOK
  <1>6. /\ procs' \in Seq(Slots)
        /\ Len(procs') = Len(procs) + 1
        /\ procs' # <<>>
        /\ procs'[Len(procs) + 1] = s
        /\ \A i \in 1..Len(procs) : procs'[i] = procs[i]
    BY <1>1, <1>5
  <1>7. \A i \in 1..Len(procs) : procs[i] \in Slots /\ procs[i] # s
    BY <1>1, <1>5, LiveSlots
  <1>8. \A i \in 1..Len(procs) : proc'[procs'[i]] = proc[procs[i]]
    BY <1>1, <1>6, <1>7 DEF TypeOK
  <1>9. proc'[procs'[Len(procs) + 1]] = r
    BY <1>1, <1>6 DEF TypeOK
  <1>10. proc' \in [Slots -> Proc]
    BY <1>1, <1>4 DEF TypeOK
  <1>11. TypeOK'
    BY <1>10, <1>6, <1>2 DEF TypeOK
  <1>12. TableOrdered'
    <2>1. ASSUME NEW i \in 1..(Len(procs) + 1)
          PROVE  proc'[procs'[i]].pid \in 1..pid_counter
      BY <1>2, <1>4, <1>5, <1>8, <1>9, SMTT(30) DEF TableOrdered
    <2>2. ASSUME NEW i \in 1..(Len(procs) + 1), NEW j \in 1..(Len(procs) + 1), i < j
          PROVE  proc'[procs'[i]].pid < proc'[procs'[j]].pid
      <3>1. i \in 1..Len(procs)
        BY <2>2, <1>5
      <3>2. CASE j \in 1..Len(procs)
        BY <3>1, <3>2, <2>2, <1>8 DEF TableOrdered
      <3>3. CASE j = Len(procs) + 1
        BY <3>1, <3>3, <1>2, <1>4, <1>8, <1>9, SMTT(30) DEF TableOrdered
      <3> QED
        BY <3>2, <3>3, <1>5
    <2> QED
      BY <2>1, <2>2, <1>2, <1>6 DEF TableOrdered
  <1>13. ParentsOlder'
    BY <1>3, <1>4, <1>5, <1>6, <1>8, <1>9 DEF ParentsOlder
  <1>14. HeadInTable'
    BY <1>5, <1>6 DEF HeadInTable, TypeOK
  <1>15. HeadIsCurrent'
    <2>1. CASE current_proc = NoProc
      BY <2>1 DEF HeadIsCurrent
    <2>2. CASE current_proc # NoProc
      <3>1. procs_head + 1 \in 1..Len(procs) /\ procs[procs_head + 1] = current_proc
        BY <2>2, CurrentInTable
      <3>2. procs'[procs_head + 1] = current_proc /\ proc'[current_proc] = proc[current_proc]
        BY <3>1, <1>6, <1>8
      <3> QED
        <4>1. procs_head' = procs_head /\ current_proc' = current_proc
          OBVIOUS
        <4>2. procs_head < Len(procs')
          BY <3>1, <1>5, <1>6 DEF TypeOK
        <4>3. Runnable(proc', current_proc)
          BY <2>2, <3>2 DEF HeadIsCurrent, Runnable
        <4> QED
          BY <4>1, <4>2, <4>3, <3>2 DEF HeadIsCurrent, Runnable
    <2> QED
      BY <2>1, <2>2
  <1> QED
    BY <1>11, <1>12, <1>13, <1>14, <1>15

\* scheduler_reap_child: the child lies behind its parent, the running process,
\* so the entries up to procs_head stay where they are.
LEMMA ReapKeeps ==
    ASSUME SchedInv, current_proc # NoProc, NEW c \in Live,
           proc[c].parent_pid = CurrentPid,
           scheduler_reap_child(c), UNCHANGED <<pid_counter, waiting, panicked>>
    PROVE  SchedInv'
  <1> USE DEF SchedInv
  <1> DEFINE k == CHOOSE i \in DOMAIN procs : procs[i] = c
             h == procs_head + 1
             n == Len(procs)
  <1>1. procs \in Seq(Slots) /\ n \in Nat /\ DOMAIN procs = 1..n
    BY DEF TypeOK
  <1>2. k \in 1..n /\ procs[k] = c /\ c \in Slots
    BY <1>1, LiveSlots
  <1>3. /\ h \in 1..n /\ procs[h] = current_proc /\ current_proc \in Slots
        /\ CurrentPid = proc[current_proc].pid
    BY CurrentInTable
  <1>4. procs' = dynarray_remove(procs, k)
    BY DEF scheduler_reap_child
  <1> HIDE DEF k
  <1>5. \A i \in 1..n : procs[i] \in Slots /\ proc[procs[i]].pid \in Nat
    BY <1>1 DEF TypeOK, TableOrdered
  <1>6. h < k
    <2>1. proc[procs[h]].pid < proc[procs[k]].pid
      BY <1>2, <1>3 DEF ParentsOlder
    <2>2. ~(k < h)
      BY <2>1, <1>2, <1>3, <1>5 DEF TableOrdered
    <2>3. k # h
      BY <2>1, <1>3, <1>5
    <2> QED
      BY <2>2, <2>3, <1>2, <1>3
  <1>7. /\ procs' \in Seq(Slots)
        /\ Len(procs') = n - 1
        /\ \A j \in 1..(n - 1) : procs'[j] = IF j < k THEN procs[j] ELSE procs[j + 1]
    <2>1. n - 1 \in Nat
      BY <1>1, <1>3
    <2>2. \A j \in 1..(n - 1) : (IF j < k THEN procs[j] ELSE procs[j + 1]) \in Slots
      BY <1>1, <1>5
    <2> QED
      BY <2>1, <2>2, <1>4 DEF dynarray_remove
  <1>8. \A i \in 1..n : i # k => procs[i] # c
    BY <1>2, <1>5 DEF TableOrdered
  <1>9. current_proc # c
    BY <1>3, <1>6, <1>8, <1>2
  <1>10. /\ proc' = [[proc EXCEPT ![c] = Freed] EXCEPT ![current_proc].eax = proc[c].exit_code]
         /\ UNCHANGED <<procs_head, current_proc>>
    BY DEF scheduler_reap_child, WaitReturns
  <1>11. proc' \in [Slots -> Proc]
    <2>1. Freed \in Proc
      BY DEF Freed, Proc, States, Eax
    <2>2. proc[c].exit_code \in Eax
      BY <1>2 DEF TypeOK, Proc, Eax
    <2>3. [proc[current_proc] EXCEPT !.eax = proc[c].exit_code] \in Proc
      BY <2>2, <1>3, ZenonT(30) DEF TypeOK, Proc
    <2> QED
      BY <2>1, <2>3, <1>2, <1>3, <1>9, <1>10 DEF TypeOK
  <1>12. \A s \in Slots \ {c} : /\ proc'[s].pid = proc[s].pid
                                /\ proc'[s].parent_pid = proc[s].parent_pid
                                /\ proc'[s].state = proc[s].state
    BY <1>10, <1>3, <1>9 DEF TypeOK, Proc
  <1>13. TypeOK'
    BY <1>7, <1>10, <1>11 DEF TypeOK
  <1> DEFINE o(j) == IF j < k THEN j ELSE j + 1
  <1>14. \A j \in 1..(n - 1) : o(j) \in 1..n /\ o(j) # k /\ procs'[j] = procs[o(j)]
    BY <1>1, <1>2, <1>7
  <1>15. \A j \in 1..(n - 1) : /\ proc'[procs'[j]].pid = proc[procs[o(j)]].pid
                               /\ proc'[procs'[j]].parent_pid = proc[procs[o(j)]].parent_pid
    BY <1>5, <1>8, <1>12, <1>14
  <1>16. \A i, j \in 1..(n - 1) : i < j => o(i) < o(j)
    BY <1>1, <1>2
  <1> HIDE DEF o
  <1>17. TableOrdered'
    <2>1. pid_counter' = pid_counter
      OBVIOUS
    <2>2. ASSUME NEW i \in 1..(n - 1)
          PROVE  proc'[procs'[i]].pid \in 1..(pid_counter - 1)
      BY <1>14, <1>15 DEF TableOrdered
    <2>3. ASSUME NEW i \in 1..(n - 1), NEW j \in 1..(n - 1), i < j
          PROVE  proc'[procs'[i]].pid < proc'[procs'[j]].pid
      BY <2>3, <1>14, <1>15, <1>16 DEF TableOrdered
    <2> QED
      BY <2>1, <2>2, <2>3, <1>7 DEF TableOrdered
  <1>18. ParentsOlder'
    BY <1>7, <1>14, <1>15 DEF ParentsOlder
  <1>19. procs'[h] = current_proc /\ h \in 1..(n - 1)
    BY <1>1, <1>2, <1>3, <1>6, <1>7
  <1>20. HeadInTable'
    BY <1>7, <1>10, <1>19, <1>1 DEF HeadInTable, TypeOK
  <1>21. HeadIsCurrent'
    BY <1>1, <1>3, <1>7, <1>9, <1>10, <1>12, <1>19 DEF HeadIsCurrent, Runnable, TypeOK
  <1> QED
    BY <1>13, <1>17, <1>18, <1>20, <1>21

\* A write to the state of one struct keeps the types and the pids.
LEMMA StateWrite ==
    ASSUME SchedInv, NEW s \in Slots, NEW st \in States, NEW P,
           P = [proc EXCEPT ![s].state = st]
    PROVE  P \in [Slots -> Proc] /\ SameIds(P)
  <1>1. [proc[s] EXCEPT !.state = st] \in Proc
    BY DEF SchedInv, TypeOK, Proc
  <1>2. /\ [proc[s] EXCEPT !.state = st].pid = proc[s].pid
        /\ [proc[s] EXCEPT !.state = st].parent_pid = proc[s].parent_pid
    BY DEF SchedInv, TypeOK, Proc
  <1> QED
    BY <1>1, <1>2 DEF SchedInv, TypeOK, SameIds

\* The structs of a process that dies keep the types and the pids.
LEMMA DeathWrite ==
    ASSUME SchedInv, NEW s \in Slots, NEW code \in ExitCodes \cup {0, SegvCode}, NEW P,
           P = [proc EXCEPT ![s].state = "ZOMBIE", ![s].exit_code = code]
    PROVE  /\ scheduler_notify_parent(P, s) \in [Slots -> Proc]
           /\ SameIds(scheduler_notify_parent(P, s))
  <1> DEFINE r == [[proc[s] EXCEPT !.state = "ZOMBIE"] EXCEPT !.exit_code = code]
  <1>1. proc[s] \in Proc /\ proc \in [Slots -> Proc]
    BY DEF SchedInv, TypeOK
  <1>2. r \in Proc /\ r.pid = proc[s].pid /\ r.parent_pid = proc[s].parent_pid
    BY <1>1 DEF Proc, States
  <1>3. P = [proc EXCEPT ![s] = r]
    BY <1>1
  <1> HIDE DEF r
  <1>4. P \in [Slots -> Proc]
    BY <1>1, <1>2, <1>3
  <1>5. SameIds(P)
    BY <1>1, <1>2, <1>3 DEF SameIds
  <1> QED
    BY <1>4, <1>5, NotifyKeeps, ZenonT(30) DEF SchedInv, SameIds

LEMMA BootKeeps ==
    ASSUME SchedInv, Boot
    PROVE  SchedInv'
  <1>1. CASE elf_load /\ UNCHANGED panicked
    BY <1>1, ElfLoadKeeps DEF Boot
  <1>2. CASE panicked' = TRUE /\ UNCHANGED <<proc, procs, pid_counter>>
    BY <1>2 DEF Boot, SchedInv, TypeOK, TableOrdered, ParentsOlder, HeadInTable,
                HeadIsCurrent, Runnable
  <1> QED
    BY <1>1, <1>2 DEF Boot

LEMMA TimerKeeps ==
    ASSUME SchedInv, TimerTick
    PROVE  SchedInv'
  <1>1. proc \in [Slots -> Proc] /\ SameIds(proc)
    BY DEF SchedInv, TypeOK, SameIds
  <1>2. /\ scheduler_core(proc)
        /\ UNCHANGED <<procs, pid_counter, waiting, panicked>>
    BY DEF TimerTick
  <1> QED
    BY <1>1, <1>2, CoreKeeps, SwitchKeepsInv DEF SchedInv, TypeOK

LEMMA KeyEnterKeeps ==
    ASSUME SchedInv, KeyEnter
    PROVE  SchedInv'
  <1> DEFINE r == scheduler_wake_stdin(proc[waiting])
  <1>1. waiting \in Slots /\ proc \in [Slots -> Proc] /\ proc[waiting] \in Proc
    BY DEF SchedInv, TypeOK, KeyEnter
  <1>2. /\ r \in Proc
        /\ r.pid = proc[waiting].pid /\ r.parent_pid = proc[waiting].parent_pid
        /\ r.state = "READY"
    BY <1>1 DEF scheduler_wake_stdin, Proc, States
  <1>3. /\ proc' = [proc EXCEPT ![waiting] = r]
        /\ waiting' = NoProc
        /\ UNCHANGED <<procs, procs_head, current_proc, pid_counter, panicked>>
    BY DEF KeyEnter
  <1> HIDE DEF r
  <1>4. proc' \in [Slots -> Proc] /\ SameIds(proc')
    BY <1>1, <1>2, <1>3 DEF SameIds
  <1>5. current_proc # NoProc => Runnable(proc', current_proc)
    <2>1. CASE current_proc = waiting
      BY <2>1, <1>1, <1>2, <1>3 DEF Runnable
    <2>2. CASE current_proc # waiting
      BY <2>2, <1>1, <1>3 DEF Runnable, SchedInv, HeadIsCurrent, TypeOK
    <2> QED
      BY <2>1, <2>2
  <1> QED
    BY <1>3, <1>4, <1>5, WriteKeepsInv DEF SchedInv, TypeOK

LEMMA PageFaultKeeps ==
    ASSUME SchedInv, page_fault_handler
    PROVE  SchedInv'
  <1> DEFINE P == [proc EXCEPT ![current_proc].state = "ZOMBIE",
                               ![current_proc].exit_code = SegvCode]
             N == scheduler_notify_parent(P, current_proc)
  <1>1. /\ current_proc # NoProc
        /\ scheduler_on_segfault(N)
        /\ UNCHANGED <<procs, pid_counter, waiting, panicked>>
    BY DEF page_fault_handler
  <1>2. current_proc \in Slots /\ procs # <<>>
    BY <1>1, CurrentInTable
  <1>3. N \in [Slots -> Proc] /\ SameIds(N)
    BY <1>2, DeathWrite
  <1> HIDE DEF N
  <1> QED
    BY <1>1, <1>2, <1>3, SegfaultKeeps, SwitchKeepsInv DEF SchedInv, TypeOK

LEMMA ReadKeeps ==
    ASSUME SchedInv, syscall_read
    PROVE  SchedInv'
  <1> DEFINE P == [proc EXCEPT ![current_proc].state = "BLOCKED"]
  <1>1. /\ current_proc # NoProc
        /\ scheduler_core(P)
        /\ waiting' = current_proc
        /\ UNCHANGED <<procs, pid_counter, panicked>>
    BY DEF syscall_read, InSyscall
  <1>2. current_proc \in Slots
    BY <1>1, CurrentInTable
  <1>3. P \in [Slots -> Proc] /\ SameIds(P)
    BY <1>2, StateWrite DEF States
  <1> HIDE DEF P
  <1> QED
    BY <1>1, <1>2, <1>3, CoreKeeps, SwitchKeepsInv DEF SchedInv, TypeOK

LEMMA ExitKeeps ==
    ASSUME SchedInv, NEW code \in ExitCodes, syscall_exit(code)
    PROVE  SchedInv'
  <1> DEFINE P == [proc EXCEPT ![current_proc].state = "ZOMBIE",
                               ![current_proc].exit_code = code]
             N == scheduler_notify_parent(P, current_proc)
  <1>1. /\ current_proc # NoProc
        /\ scheduler_core(N)
        /\ UNCHANGED <<procs, pid_counter, waiting, panicked>>
    BY DEF syscall_exit, InSyscall
  <1>2. current_proc \in Slots
    BY <1>1, CurrentInTable
  <1>3. N \in [Slots -> Proc] /\ SameIds(N)
    BY <1>2, DeathWrite
  <1> HIDE DEF N
  <1> QED
    BY <1>1, <1>3, CoreKeeps, SwitchKeepsInv DEF SchedInv, TypeOK

LEMMA KillKeeps ==
    ASSUME SchedInv, NEW pid \in Pids, syscall_kill(pid)
    PROVE  SchedInv'
  <1> DEFINE s == scheduler_get_proc(pid)
             P == [proc EXCEPT ![s].state = "ZOMBIE"]
  <1>1. current_proc # NoProc /\ UNCHANGED <<procs, pid_counter, waiting>>
    BY DEF syscall_kill, InSyscall
  <1>2. s # NoProc => P \in [Slots -> Proc] /\ SameIds(P)
    BY GetProc, StateWrite DEF States
  <1>3. CASE panicked' = TRUE /\ UNCHANGED <<proc, procs_head, current_proc>>
    BY <1>1, <1>3 DEF SchedInv, TypeOK, TableOrdered, ParentsOlder, HeadInTable,
                      HeadIsCurrent, Runnable
  <1>4. CASE /\ s \notin {NoProc, current_proc}
             /\ proc' = P
             /\ UNCHANGED <<procs_head, current_proc, panicked>>
    <2>1. Runnable(proc', current_proc)
      BY <1>1, <1>4, GetProc, CurrentInTable
         DEF SchedInv, TypeOK, HeadIsCurrent, Runnable
    <2> QED
      BY <1>1, <1>2, <1>4, <2>1, WriteKeepsInv DEF SchedInv, TypeOK
  <1>5. CASE s = current_proc /\ scheduler_core(P) /\ UNCHANGED panicked
    BY <1>1, <1>2, <1>5, CoreKeeps, SwitchKeepsInv DEF SchedInv, TypeOK
  <1> QED
    BY <1>3, <1>4, <1>5 DEF syscall_kill

\* waitpid that reports an error at once.
LEMMA WaitErrorKeeps ==
    ASSUME SchedInv, current_proc # NoProc, NEW e \in {-1, -2}, WaitReturns(proc, e),
           UNCHANGED <<procs, pid_counter, waiting, panicked>>
    PROVE  SchedInv'
  <1>1. current_proc \in Slots /\ proc[current_proc] \in Proc /\ proc \in [Slots -> Proc]
    BY CurrentInTable DEF SchedInv, TypeOK
  <1> DEFINE r == [proc[current_proc] EXCEPT !.eax = e]
  <1>2. /\ r \in Proc
        /\ r.pid = proc[current_proc].pid /\ r.parent_pid = proc[current_proc].parent_pid
        /\ r.state = proc[current_proc].state
    BY <1>1 DEF Proc, Eax
  <1>3. proc' = [proc EXCEPT ![current_proc] = r] /\ UNCHANGED <<procs_head, current_proc>>
    BY <1>1 DEF WaitReturns
  <1> HIDE DEF r
  <1>4. proc' \in [Slots -> Proc] /\ SameIds(proc') /\ proc'[current_proc] = r
    BY <1>1, <1>2, <1>3 DEF SameIds
  <1>5. Runnable(proc', current_proc)
    BY <1>2, <1>4 DEF SchedInv, HeadIsCurrent, Runnable
  <1> QED
    BY <1>3, <1>4, <1>5, WriteKeepsInv DEF SchedInv, TypeOK

LEMMA WaitpidKeeps ==
    ASSUME SchedInv, NEW pid \in Pids, syscall_waitpid(pid)
    PROVE  SchedInv'
  <1> DEFINE s == scheduler_get_proc(pid)
             P == [proc EXCEPT ![current_proc].state = "BLOCKED",
                               ![current_proc].waiting_for = pid,
                               ![current_proc].eax = SYS_WAITPID]
  <1>1. current_proc # NoProc /\ UNCHANGED <<pid_counter, waiting, panicked>>
    BY DEF syscall_waitpid, InSyscall
  <1>2. CASE s = NoProc /\ WaitReturns(proc, -1) /\ UNCHANGED procs
    BY <1>1, <1>2, WaitErrorKeeps
  <1>3. CASE WaitReturns(proc, -2) /\ UNCHANGED procs
    BY <1>1, <1>3, WaitErrorKeeps
  <1>4. CASE s # NoProc /\ proc[s].parent_pid = CurrentPid /\ scheduler_reap_child(s)
    BY <1>1, <1>4, GetProc, ReapKeeps
  <1>5. CASE scheduler_core(P) /\ UNCHANGED procs
    <2> DEFINE r == [[[proc[current_proc] EXCEPT !.state = "BLOCKED"]
                        EXCEPT !.waiting_for = pid] EXCEPT !.eax = SYS_WAITPID]
    <2>1. current_proc \in Slots /\ proc[current_proc] \in Proc /\ proc \in [Slots -> Proc]
      BY <1>1, CurrentInTable DEF SchedInv, TypeOK
    <2>2. pid \in Nat
      BY SchedAssumption DEF Pids
    <2>3. /\ r \in Proc
          /\ r.pid = proc[current_proc].pid
          /\ r.parent_pid = proc[current_proc].parent_pid
      BY <2>1, <2>2 DEF Proc, States, Eax
    <2>4. P = [proc EXCEPT ![current_proc] = r]
      BY <2>1
    <2> HIDE DEF r, P
    <2>5. P \in [Slots -> Proc] /\ SameIds(P)
      BY <2>1, <2>3, <2>4 DEF SameIds
    <2> QED
      BY <1>1, <1>5, <2>5, CoreKeeps, SwitchKeepsInv DEF SchedInv, TypeOK
  <1> QED
    BY <1>2, <1>3, <1>4, <1>5 DEF syscall_waitpid

-----------------------------------------------------------------------------
LEMMA InitInv == Init => SchedInv
  <1> SUFFICES ASSUME Init PROVE SchedInv
    OBVIOUS
  <1>1. Freed \in Proc
    BY DEF Freed, Proc, States, Eax
  <1>2. TypeOK
    <2>1. proc \in [Slots -> Proc]
      BY <1>1 DEF Init
    <2>2. procs \in Seq(Slots)
      BY DEF Init
    <2>3. 1 \in 1..(MaxPid + 1)
      BY SchedAssumption
    <2> QED
      BY <2>1, <2>2, <2>3 DEF Init, TypeOK
  <1> QED
    BY <1>2 DEF Init, SchedInv, TableOrdered, ParentsOlder, HeadInTable, HeadIsCurrent

LEMMA NextInv == SchedInv /\ [Next]_vars => SchedInv'
  <1> SUFFICES ASSUME SchedInv, [Next]_vars PROVE SchedInv'
    OBVIOUS
  <1>1. CASE Boot
    BY <1>1, BootKeeps
  <1>2. CASE TimerTick
    BY <1>2, TimerKeeps
  <1>3. CASE KeyEnter
    BY <1>3, KeyEnterKeeps
  <1>4. CASE page_fault_handler
    BY <1>4, PageFaultKeeps
  <1>5. CASE syscall_read
    BY <1>5, ReadKeeps
  <1>6. ASSUME NEW code \in ExitCodes, syscall_exit(code) PROVE SchedInv'
    BY <1>6, ExitKeeps
  <1>7. CASE syscall_exec
    BY <1>7, ElfLoadKeeps DEF syscall_exec
  <1>8. ASSUME NEW pid \in Pids, syscall_kill(pid) PROVE SchedInv'
    BY <1>8, KillKeeps
  <1>9. ASSUME NEW pid \in Pids, syscall_waitpid(pid) PROVE SchedInv'
    BY <1>9, WaitpidKeeps
  <1>10. CASE UNCHANGED vars
    BY <1>10 DEF vars, SchedInv, TypeOK, TableOrdered, ParentsOlder, HeadInTable,
                 HeadIsCurrent, Runnable
  <1> QED
    BY <1>1, <1>2, <1>3, <1>4, <1>5, <1>6, <1>7, <1>8, <1>9, <1>10 DEF Next

\* The inductive invariant holds in every reachable state.
THEOREM SchedInvariant == Spec => []SchedInv
  BY InitInv, NextInv, PTL DEF Spec

\* Every handler keeps every variable in its type.
THEOREM TypeCorrect == Spec => []TypeOK
  <1>1. SchedInv => TypeOK
    BY DEF SchedInv
  <1> QED
    BY <1>1, SchedInvariant, PTL

\* Whatever programs do, procs_head is the index of the process on the CPU.
THEOREM HeadTracksCurrent == Spec => []HeadIsCurrent
  <1>1. SchedInv => HeadIsCurrent
    BY DEF SchedInv
  <1> QED
    BY <1>1, SchedInvariant, PTL

\* Whatever slots are freed and reused, no slot and no pid is in the table twice.
THEOREM TablePidsUnique == Spec => []PidsUnique
  <1>1. SchedInv => PidsUnique
    <2> SUFFICES ASSUME SchedInv, NEW i \in 1..Len(procs), NEW j \in 1..Len(procs), i # j
                 PROVE  proc[procs[i]].pid # proc[procs[j]].pid
      BY DEF SchedInv, TypeOK, PidsUnique
    <2>1. proc[procs[i]].pid \in Int /\ proc[procs[j]].pid \in Int
      BY DEF SchedInv, TableOrdered
    <2>2. CASE i < j
      BY <2>1, <2>2 DEF SchedInv, TableOrdered
    <2>3. CASE j < i
      BY <2>1, <2>3 DEF SchedInv, TableOrdered
    <2> QED
      BY <2>2, <2>3
  <1> QED
    BY <1>1, SchedInvariant, PTL


-----------------------------------------------------------------------------
(***************************************************************************)
(* Proofs about Sched when no program calls kill: who wakes a blocked      *)
(* process, that the dead stay dead, and that Sched implements ProcLife,   *)
(* for any number of slots, pids and programs.                             *)
(*                                                                         *)
(* Without the hypothesis none of this holds: kill leaves __waiting_stdin  *)
(* pointing at a dead process and tells no parent.                         *)
(***************************************************************************)

NoKill == Killers = {}

\* A process waits for a child only while it is blocked.
WaitsOnlyBlocked ==
    \A s \in Live : proc[s].state # "BLOCKED" => proc[s].waiting_for = 0

\* The process registered for a line is blocked in read, not in waitpid.
WaiterReads ==
    waiting # NoProc => proc[waiting].waiting_for = 0

\* A process blocked in waitpid has the child it waits for, and it is alive.
ChildAlive ==
    \A s \in Live : proc[s].state = "BLOCKED" /\ proc[s].waiting_for # 0 =>
        \E c \in Live : /\ proc[c].pid = proc[s].waiting_for
                        /\ proc[c].parent_pid = proc[s].pid
                        /\ proc[c].state # "ZOMBIE"

LifeInv ==
    /\ SchedInv
    /\ WaitsOnlyBlocked
    /\ StdinWaiterBlocked
    /\ WaiterReads
    /\ ChildAlive

\* A process blocked in read is the one that is registered.
ReaderRegistered ==
    \A s \in Live : proc[s].state = "BLOCKED" /\ proc[s].waiting_for = 0 =>
        waiting = s

\* Q shows of every process what P shows of it: a switch changes no more than
\* STARTING to READY and the pending line.
Looks(P, Q) ==
    \A s \in Slots :
        /\ Q[s].pid = P[s].pid
        /\ Q[s].parent_pid = P[s].parent_pid
        /\ Q[s].waiting_for = P[s].waiting_for
        /\ Q[s].state = "BLOCKED" <=> P[s].state = "BLOCKED"
        /\ Q[s].state = "ZOMBIE" <=> P[s].state = "ZOMBIE"

-----------------------------------------------------------------------------
\* Dispatching a struct.
LEMMA DispatchLooks ==
    ASSUME NEW r \in Proc, NEW q, q = LayOutArgs(sched_flush_proc_bufs(r))
    PROVE  /\ q.pid = r.pid /\ q.parent_pid = r.parent_pid /\ q.waiting_for = r.waiting_for
           /\ q.state = "BLOCKED" <=> r.state = "BLOCKED"
           /\ q.state = "ZOMBIE" <=> r.state = "ZOMBIE"
  BY DEF LayOutArgs, sched_flush_proc_bufs, Proc, States

\* __scheduler_core changes nothing that shows.
LEMMA CoreLooks ==
    ASSUME SchedInv, NEW P \in [Slots -> Proc], scheduler_core(P)
    PROVE  Looks(P, proc')
  <1>1. CASE proc' = P
    BY <1>1 DEF Looks
  <1>2. ASSUME NEW d \in 1..Len(procs),
               proc' = [P EXCEPT ![After(d)] = LayOutArgs(sched_flush_proc_bufs(@))]
        PROVE  Looks(P, proc')
    <2>1. PICK a \in Slots : a = After(d)
      BY AfterSlot DEF SchedInv
    <2>2. PICK q : q = LayOutArgs(sched_flush_proc_bufs(P[a]))
      OBVIOUS
    <2>3. proc' = [P EXCEPT ![a] = q]
      BY <1>2, <2>1, <2>2
    <2>4. P[a] \in Proc
      BY <2>1
    <2>5. /\ q.pid = P[a].pid /\ q.parent_pid = P[a].parent_pid
          /\ q.waiting_for = P[a].waiting_for
          /\ q.state = "BLOCKED" <=> P[a].state = "BLOCKED"
          /\ q.state = "ZOMBIE" <=> P[a].state = "ZOMBIE"
      BY <2>2, <2>4, DispatchLooks
    <2> QED
      BY <2>3, <2>5 DEF Looks
  <1> QED
    BY <1>1, <1>2 DEF scheduler_core, SwitchToIdle

\* Nor does scheduler_on_segfault.
LEMMA SegfaultLooks ==
    ASSUME NEW P \in [Slots -> Proc], scheduler_on_segfault(P)
    PROVE  Looks(P, proc')
  BY DEF scheduler_on_segfault, SwitchToIdle, Looks

\* The processes of the table, by slot: each has a pid of its own.
LEMMA LivePids ==
    ASSUME SchedInv
    PROVE  /\ Live \subseteq Slots
           /\ \A s \in Live : /\ proc[s] \in Proc
                              /\ proc[s].pid \in 1..(pid_counter - 1)
                              /\ proc[s].parent_pid < proc[s].pid
           /\ \A s, t \in Live : proc[s].pid = proc[t].pid => s = t
           /\ current_proc # NoProc =>
                /\ current_proc \in Live
                /\ CurrentPid = proc[current_proc].pid
                /\ proc[current_proc].state \notin {"BLOCKED", "ZOMBIE"}
  <1>1. procs \in Seq(Slots)
    BY DEF SchedInv, TypeOK
  <1>2. /\ Live \subseteq Slots
        /\ \A s \in Live : \E i \in 1..Len(procs) : procs[i] = s
    BY <1>1, LiveSlots
  <1>3. \A s \in Live : /\ proc[s] \in Proc
                        /\ proc[s].pid \in 1..(pid_counter - 1)
                        /\ proc[s].parent_pid < proc[s].pid
    BY <1>2 DEF SchedInv, TypeOK, TableOrdered, ParentsOlder
  <1>4. ASSUME NEW s \in Live, NEW t \in Live, proc[s].pid = proc[t].pid
        PROVE  s = t
    <2>1. PICK i \in 1..Len(procs) : procs[i] = s
      BY <1>2
    <2>2. PICK j \in 1..Len(procs) : procs[j] = t
      BY <1>2
    <2>3. proc[s].pid \in Int
      BY <1>3
    <2>4. ~(i < j) /\ ~(j < i)
      BY <1>4, <2>1, <2>2, <2>3 DEF SchedInv, TableOrdered
    <2> QED
      BY <2>1, <2>2, <2>4
  <1>5. current_proc # NoProc =>
          /\ current_proc \in Live
          /\ CurrentPid = proc[current_proc].pid
          /\ proc[current_proc].state \notin {"BLOCKED", "ZOMBIE"}
    BY CurrentInTable DEF SchedInv, HeadIsCurrent, Runnable
  <1> QED
    BY <1>2, <1>3, <1>4, <1>5
-----------------------------------------------------------------------------
\* What the handlers do, as it shows from outside: six kinds of step.

\* Slot s shows the same after the step.
Same(s) ==
    /\ proc'[s].pid = proc[s].pid
    /\ proc'[s].parent_pid = proc[s].parent_pid
    /\ proc'[s].waiting_for = proc[s].waiting_for
    /\ proc'[s].state = "BLOCKED" <=> proc[s].state = "BLOCKED"
    /\ proc'[s].state = "ZOMBIE" <=> proc[s].state = "ZOMBIE"

\* Slot s keeps its pid and parent.
SameId(s) ==
    /\ proc'[s].pid = proc[s].pid
    /\ proc'[s].parent_pid = proc[s].parent_pid

SameTable == Live' = Live /\ pid_counter' = pid_counter

Quiet == SameTable /\ waiting' = waiting /\ \A s \in Live : Same(s)

\* The reader gets its line.
Wakes ==
    /\ SameTable
    /\ waiting # NoProc /\ waiting' = NoProc
    /\ \A s \in Live \ {waiting} : Same(s)
    /\ SameId(waiting)
    /\ proc'[waiting].waiting_for = proc[waiting].waiting_for
    /\ proc'[waiting].state = "READY"

\* The running process blocks: in waitpid on child n, or in read (n = 0).
Blocks(n) ==
    /\ SameTable
    /\ current_proc # NoProc
    /\ \A s \in Live \ {current_proc} : Same(s)
    /\ SameId(current_proc)
    /\ proc'[current_proc].state = "BLOCKED"
    /\ proc'[current_proc].waiting_for = n
    /\ \/ n = 0 /\ waiting' = current_proc /\ (TakeTurns => waiting = NoProc)
       \/ /\ n \in Pids /\ waiting' = waiting
          /\ \E c \in Live : /\ proc[c].pid = n /\ proc[c].parent_pid = CurrentPid
                             /\ proc[c].state # "ZOMBIE"

\* Slot s is blocked in waitpid on the running process.
WaitsOnCurrent(s) ==
    /\ proc[s].pid = proc[current_proc].parent_pid
    /\ proc[s].state = "BLOCKED"
    /\ proc[s].waiting_for = proc[current_proc].pid

\* The running process dies and its parent learns of it.
Dies ==
    /\ SameTable /\ waiting' = waiting
    /\ current_proc # NoProc
    /\ SameId(current_proc)
    /\ proc'[current_proc].state = "ZOMBIE"
    /\ proc'[current_proc].waiting_for = proc[current_proc].waiting_for
    /\ \A s \in Live \ {current_proc} :
         /\ ~WaitsOnCurrent(s) => Same(s)
         /\ WaitsOnCurrent(s) => /\ SameId(s)
                                 /\ proc'[s].state \notin {"BLOCKED", "ZOMBIE"}
                                 /\ proc'[s].waiting_for = 0

\* A process is created at slot s.
Creates(s) ==
    /\ s \notin Live /\ Live' = Live \cup {s}
    /\ pid_counter \in Pids /\ pid_counter' = pid_counter + 1
    /\ waiting' = waiting
    /\ \A t \in Live : Same(t)
    /\ proc'[s].pid = pid_counter /\ proc'[s].parent_pid = CurrentPid
    /\ proc'[s].state = "STARTING" /\ proc'[s].waiting_for = 0
    /\ current_proc = NoProc => pid_counter = 1

\* The running process collects its dead child at slot c.
Reaps(c) ==
    /\ c \in Live /\ Live' = Live \ {c}
    /\ current_proc # NoProc /\ c # current_proc
    /\ proc[c].state = "ZOMBIE" /\ proc[c].parent_pid = CurrentPid
    /\ pid_counter' = pid_counter /\ waiting' = waiting
    /\ \A s \in Live \ {c} : Same(s)

Effect ==
    \/ Quiet \/ Wakes \/ Dies
    \/ \E n \in Pids \cup {0} : Blocks(n)
    \/ \E s \in Slots : Creates(s)
    \/ \E c \in Slots : Reaps(c)

-----------------------------------------------------------------------------
LEMMA LooksSame ==
    ASSUME Looks(proc, proc'), Live \subseteq Slots
    PROVE  \A s \in Live : Same(s)
  BY DEF Looks, Same

LEMMA TimerEffect ==
    ASSUME LifeInv, TimerTick
    PROVE  Quiet
  <1>1. /\ scheduler_core(proc) /\ procs' = procs
        /\ pid_counter' = pid_counter /\ waiting' = waiting
    BY DEF TimerTick
  <1>2. SchedInv /\ proc \in [Slots -> Proc] /\ Live \subseteq Slots
    BY LivePids DEF LifeInv, SchedInv, TypeOK
  <1>3. Looks(proc, proc')
    BY <1>1, <1>2, CoreLooks
  <1> QED
    BY <1>1, <1>2, <1>3, LooksSame DEF Quiet, SameTable, Live

LEMMA KeyEnterEffect ==
    ASSUME LifeInv, KeyEnter
    PROVE  Wakes
  <1>1. /\ waiting # NoProc /\ waiting' = NoProc
        /\ proc' = [proc EXCEPT ![waiting] = scheduler_wake_stdin(@)]
        /\ procs' = procs /\ pid_counter' = pid_counter
    BY DEF KeyEnter
  <1>2. waiting \in Slots /\ proc \in [Slots -> Proc] /\ Live \subseteq Slots
    BY <1>1, LivePids DEF LifeInv, SchedInv, TypeOK
  <1>3. proc'[waiting] = [[proc[waiting] EXCEPT !.line = TRUE] EXCEPT !.state = "READY"]
    BY <1>1, <1>2 DEF scheduler_wake_stdin
  <1>4. proc[waiting] \in Proc
    BY <1>2
  <1>5. /\ SameId(waiting) /\ proc'[waiting].state = "READY"
        /\ proc'[waiting].waiting_for = proc[waiting].waiting_for
    BY <1>3, <1>4 DEF SameId, Proc
  <1>6. \A s \in Live \ {waiting} : proc'[s] = proc[s]
    BY <1>1, <1>2
  <1>7. \A s \in Live \ {waiting} : Same(s)
    BY <1>6 DEF Same
  <1> QED
    BY <1>1, <1>5, <1>7 DEF Wakes, SameTable, Live

\* The structs that a handler leaves to the switch, and those after it.
LEMMA AfterSwitch ==
    ASSUME NEW P, Looks(P, proc'), NEW s \in Slots
    PROVE  /\ proc'[s].pid = P[s].pid /\ proc'[s].parent_pid = P[s].parent_pid
           /\ proc'[s].waiting_for = P[s].waiting_for
           /\ proc'[s].state = "BLOCKED" <=> P[s].state = "BLOCKED"
           /\ proc'[s].state = "ZOMBIE" <=> P[s].state = "ZOMBIE"
           /\ P[s] = proc[s] => Same(s)
  BY DEF Looks, Same

LEMMA ReadEffect ==
    ASSUME LifeInv, syscall_read
    PROVE  Blocks(0)
  <1>1. PICK P : P = [proc EXCEPT ![current_proc].state = "BLOCKED"]
    OBVIOUS
  <1>2. /\ scheduler_core(P) /\ procs' = procs /\ current_proc # NoProc
        /\ pid_counter' = pid_counter /\ waiting' = current_proc
        /\ TakeTurns => waiting = NoProc
    BY <1>1 DEF syscall_read, InSyscall
  <1>3. /\ SchedInv /\ proc \in [Slots -> Proc] /\ Live \subseteq Slots
        /\ current_proc \in Live /\ current_proc \in Slots
        /\ proc[current_proc].state \notin {"BLOCKED", "ZOMBIE"}
    BY <1>2, LivePids DEF LifeInv, SchedInv, TypeOK
  <1>4. P \in [Slots -> Proc]
    BY <1>1, <1>3, StateWrite DEF States
  <1>5. /\ P[current_proc] = [proc[current_proc] EXCEPT !.state = "BLOCKED"]
        /\ \A s \in Slots \ {current_proc} : P[s] = proc[s]
    BY <1>1, <1>3
  <1>6. proc[current_proc] \in Proc
    BY <1>3
  <1>7. /\ P[current_proc].pid = proc[current_proc].pid
        /\ P[current_proc].parent_pid = proc[current_proc].parent_pid
        /\ P[current_proc].waiting_for = proc[current_proc].waiting_for
        /\ P[current_proc].state = "BLOCKED"
    BY <1>5, <1>6 DEF Proc
  <1>8. Looks(P, proc')
    BY <1>2, <1>3, <1>4, CoreLooks
  <1>9. proc[current_proc].waiting_for = 0
    BY <1>3 DEF LifeInv, WaitsOnlyBlocked
  <1>10. \A s \in Live \ {current_proc} : Same(s)
    BY <1>3, <1>5, <1>8, AfterSwitch
  <1>11. /\ SameId(current_proc) /\ proc'[current_proc].state = "BLOCKED"
         /\ proc'[current_proc].waiting_for = 0
    BY <1>3, <1>7, <1>8, <1>9, AfterSwitch DEF SameId
  <1> QED
    BY <1>2, <1>10, <1>11 DEF Blocks, SameTable, Live

\* A process that dies, and the wake-up of its parent, before the switch.
LEMMA DeathEffect ==
    ASSUME LifeInv, current_proc # NoProc, NEW code \in ExitCodes \cup {0, SegvCode}, NEW P, NEW N,
           P = [proc EXCEPT ![current_proc].state = "ZOMBIE", ![current_proc].exit_code = code],
           N = scheduler_notify_parent(P, current_proc), Looks(N, proc'),
           procs' = procs, pid_counter' = pid_counter, waiting' = waiting
    PROVE  Dies
  <1>1. /\ SchedInv /\ proc \in [Slots -> Proc] /\ Live \subseteq Slots
        /\ current_proc \in Live /\ current_proc \in Slots
        /\ proc[current_proc].pid \in Nat \ {0}
        /\ proc[current_proc].parent_pid < proc[current_proc].pid
        /\ \A s \in Live : proc[s].pid \in Nat \ {0} /\ proc[s] \in Proc
    BY LivePids DEF LifeInv, SchedInv, TypeOK
  <1>2. P[current_proc] = [[proc[current_proc] EXCEPT !.state = "ZOMBIE"] EXCEPT !.exit_code = code]
    BY <1>1
  <1>3. \A s \in Slots \ {current_proc} : P[s] = proc[s]
    BY <1>1
  <1>4. /\ P[current_proc].pid = proc[current_proc].pid
        /\ P[current_proc].parent_pid = proc[current_proc].parent_pid
        /\ P[current_proc].waiting_for = proc[current_proc].waiting_for
        /\ P[current_proc].state = "ZOMBIE"
    BY <1>1, <1>2 DEF Proc
  <1>5. N[current_proc] = P[current_proc]
    BY <1>1, <1>4 DEF scheduler_notify_parent
  <1>6. ASSUME NEW s \in Live \ {current_proc}, ~WaitsOnCurrent(s) PROVE Same(s)
    <2>1. N[s] = proc[s]
      BY <1>1, <1>3, <1>4, <1>6 DEF scheduler_notify_parent, WaitsOnCurrent
    <2> QED
      BY <1>1, <2>1, AfterSwitch
  <1>7. ASSUME NEW s \in Live \ {current_proc}, WaitsOnCurrent(s)
        PROVE  /\ SameId(s) /\ proc'[s].waiting_for = 0
               /\ proc'[s].state \notin {"BLOCKED", "ZOMBIE"}
    <2>1. N[s] = [[proc[s] EXCEPT !.state = "READY"] EXCEPT !.waiting_for = 0]
      BY <1>1, <1>3, <1>4, <1>7, ZenonT(30) DEF scheduler_notify_parent, WaitsOnCurrent
    <2>2. /\ N[s].pid = proc[s].pid /\ N[s].parent_pid = proc[s].parent_pid
          /\ N[s].state = "READY" /\ N[s].waiting_for = 0
      BY <1>1, <2>1 DEF Proc
    <2>3. s \in Slots
      BY <1>1
    <2>4. /\ proc'[s].pid = N[s].pid /\ proc'[s].parent_pid = N[s].parent_pid
          /\ proc'[s].waiting_for = N[s].waiting_for
          /\ proc'[s].state = "BLOCKED" <=> N[s].state = "BLOCKED"
          /\ proc'[s].state = "ZOMBIE" <=> N[s].state = "ZOMBIE"
      BY <2>3, AfterSwitch
    <2> QED
      BY <2>2, <2>4 DEF SameId
  <1>8. /\ SameId(current_proc) /\ proc'[current_proc].state = "ZOMBIE"
        /\ proc'[current_proc].waiting_for = proc[current_proc].waiting_for
    <2>1. PICK k \in Slots : k = current_proc
      BY <1>1
    <2>2. /\ proc'[k].pid = N[k].pid /\ proc'[k].parent_pid = N[k].parent_pid
          /\ proc'[k].waiting_for = N[k].waiting_for
          /\ proc'[k].state = "ZOMBIE" <=> N[k].state = "ZOMBIE"
      BY <2>1, AfterSwitch
    <2>3. /\ N[k].pid = proc[k].pid /\ N[k].parent_pid = proc[k].parent_pid
          /\ N[k].waiting_for = proc[k].waiting_for /\ N[k].state = "ZOMBIE"
      BY <2>1, <1>4, <1>5
    <2>4. SameId(k) /\ proc'[k].state = "ZOMBIE" /\ proc'[k].waiting_for = proc[k].waiting_for
      BY <2>2, <2>3 DEF SameId
    <2> QED
      BY <2>1, <2>4
  <1> QED
    BY <1>6, <1>7, <1>8 DEF Dies, SameTable, Live

LEMMA ExitEffect ==
    ASSUME LifeInv, NEW code \in ExitCodes, syscall_exit(code)
    PROVE  Dies
  <1>1. PICK P : P = [proc EXCEPT ![current_proc].state = "ZOMBIE",
                                  ![current_proc].exit_code = code]
    OBVIOUS
  <1>2. PICK N : N = scheduler_notify_parent(P, current_proc)
    OBVIOUS
  <1>3. /\ current_proc # NoProc /\ scheduler_core(N)
        /\ procs' = procs /\ pid_counter' = pid_counter /\ waiting' = waiting
    BY <1>1, <1>2 DEF syscall_exit, InSyscall
  <1>4. SchedInv /\ current_proc \in Slots
    BY <1>3, CurrentInTable DEF LifeInv
  <1>5. N \in [Slots -> Proc]
    BY <1>1, <1>2, <1>4, DeathWrite
  <1>6. Looks(N, proc')
    BY <1>3, <1>4, <1>5, CoreLooks
  <1> QED
    BY <1>1, <1>2, <1>3, <1>6, DeathEffect

LEMMA PageFaultEffect ==
    ASSUME LifeInv, page_fault_handler
    PROVE  Dies
  <1>1. PICK P : P = [proc EXCEPT ![current_proc].state = "ZOMBIE",
                                  ![current_proc].exit_code = SegvCode]
    OBVIOUS
  <1>2. PICK N : N = scheduler_notify_parent(P, current_proc)
    OBVIOUS
  <1>3. /\ current_proc # NoProc /\ scheduler_on_segfault(N)
        /\ procs' = procs /\ pid_counter' = pid_counter /\ waiting' = waiting
    BY <1>1, <1>2 DEF page_fault_handler
  <1>4. SchedInv /\ current_proc \in Slots
    BY <1>3, CurrentInTable DEF LifeInv
  <1>5. N \in [Slots -> Proc]
    BY <1>1, <1>2, <1>4, DeathWrite
  <1>6. Looks(N, proc')
    BY <1>3, <1>5, SegfaultLooks
  <1> QED
    BY <1>1, <1>2, <1>3, <1>6, DeathEffect

\* waitpid that reports an error at once.
LEMMA WaitErrorEffect ==
    ASSUME LifeInv, current_proc # NoProc, NEW e, WaitReturns(proc, e),
           procs' = procs, pid_counter' = pid_counter, waiting' = waiting
    PROVE  Quiet
  <1>1. proc' = [proc EXCEPT ![current_proc].eax = e]
    BY DEF WaitReturns
  <1>2. /\ proc \in [Slots -> Proc] /\ Live \subseteq Slots
        /\ current_proc \in Slots /\ proc[current_proc] \in Proc
    BY LivePids DEF LifeInv, SchedInv, TypeOK
  <1>3. proc'[current_proc] = [proc[current_proc] EXCEPT !.eax = e]
    BY <1>1, <1>2
  <1>4. Same(current_proc)
    BY <1>2, <1>3 DEF Same, Proc
  <1>5. \A s \in Live \ {current_proc} : proc'[s] = proc[s]
    BY <1>1, <1>2
  <1>6. \A s \in Live : Same(s)
    BY <1>4, <1>5 DEF Same
  <1> QED
    BY <1>6 DEF Quiet, SameTable, Live

\* dynarray_remove takes one process out of the table and no other.
LEMMA ReapedLeaves ==
    ASSUME SchedInv, NEW c \in Live, scheduler_reap_child(c)
    PROVE  Live' = Live \ {c}
  <1>1. PICK n \in Nat : n = Len(procs)
    BY DEF SchedInv, TypeOK
  <1>2. /\ procs \in Seq(Slots) /\ DOMAIN procs = 1..n
        /\ \A s \in Live : \E i \in 1..n : procs[i] = s
        /\ \A i \in 1..n : procs[i] \in Live
    BY <1>1, LiveSlots DEF SchedInv, TypeOK
  <1>3. \E i \in DOMAIN procs : procs[i] = c
    BY <1>2
  <1>4. PICK k \in 1..n : k = CHOOSE i \in DOMAIN procs : procs[i] = c
    BY <1>2, <1>3
  <1>5. procs[k] = c
    BY <1>3, <1>4
  <1>6. procs' = [j \in 1..(n - 1) |-> IF j < k THEN procs[j] ELSE procs[j + 1]]
    BY <1>1, <1>4 DEF scheduler_reap_child, dynarray_remove
  <1>7. \A i, j \in 1..n : i # j => procs[i] # procs[j]
    <2> SUFFICES ASSUME NEW i \in 1..n, NEW j \in 1..n, i # j PROVE procs[i] # procs[j]
      OBVIOUS
    <2>1. proc[procs[i]].pid \in Int /\ proc[procs[j]].pid \in Int
      BY <1>1 DEF SchedInv, TableOrdered
    <2>2. i < j \/ j < i
      BY <1>1
    <2> QED
      BY <1>1, <2>1, <2>2 DEF SchedInv, TableOrdered
  <1>8. Live' = {procs'[j] : j \in 1..(n - 1)}
    BY <1>6 DEF Live, Range
  <1>9. ASSUME NEW j \in 1..(n - 1) PROVE procs'[j] \in Live \ {c}
    <2>1. CASE j < k
      <3>1. j \in 1..n /\ j # k /\ procs'[j] = procs[j]
        BY <1>6, <2>1
      <3> QED
        BY <3>1, <1>2, <1>5, <1>7
    <2>2. CASE ~(j < k)
      <3>1. j + 1 \in 1..n /\ j + 1 # k /\ procs'[j] = procs[j + 1]
        BY <1>6, <2>2
      <3> QED
        BY <3>1, <1>2, <1>5, <1>7
    <2> QED
      BY <2>1, <2>2
  <1>10. ASSUME NEW s \in Live \ {c} PROVE \E j \in 1..(n - 1) : procs'[j] = s
    <2>1. PICK i \in 1..n : procs[i] = s
      BY <1>2
    <2>2. i # k
      BY <1>5, <2>1
    <2>3. CASE i < k
      <3>1. i \in 1..(n - 1) /\ procs'[i] = procs[i]
        BY <1>6, <2>3
      <3> QED
        BY <2>1, <3>1
    <2>4. CASE k < i
      <3>1. i - 1 \in 1..(n - 1) /\ procs'[i - 1] = procs[i]
        BY <1>6, <2>4
      <3> QED
        BY <2>1, <3>1
    <2> QED
      BY <2>2, <2>3, <2>4
  <1> QED
    BY <1>8, <1>9, <1>10

\* waitpid on a dead child.
LEMMA ReapEffect ==
    ASSUME LifeInv, current_proc # NoProc, NEW c \in Live,
           proc[c].parent_pid = CurrentPid, proc[c].state = "ZOMBIE",
           scheduler_reap_child(c), pid_counter' = pid_counter, waiting' = waiting
    PROVE  Reaps(c)
  <1>1. proc' = [[proc EXCEPT ![c] = Freed] EXCEPT ![current_proc].eax = proc[c].exit_code]
    BY DEF scheduler_reap_child, WaitReturns
  <1>2. /\ SchedInv /\ proc \in [Slots -> Proc] /\ Live \subseteq Slots
        /\ current_proc \in Slots /\ proc[current_proc] \in Proc
        /\ proc[current_proc].state # "ZOMBIE"
    BY LivePids DEF LifeInv, SchedInv, TypeOK
  <1>3. c # current_proc
    BY <1>2
  <1>4. proc'[current_proc] = [proc[current_proc] EXCEPT !.eax = proc[c].exit_code]
    BY <1>1, <1>2, <1>3
  <1>5. Same(current_proc)
    BY <1>2, <1>4 DEF Same, Proc
  <1>6. \A s \in Live \ {c, current_proc} : proc'[s] = proc[s]
    BY <1>1, <1>2
  <1>7. \A s \in Live \ {c} : Same(s)
    BY <1>5, <1>6 DEF Same
  <1>8. Live' = Live \ {c}
    BY <1>2, ReapedLeaves
  <1> QED
    BY <1>3, <1>7, <1>8 DEF Reaps

\* waitpid on a child that is alive.
LEMMA WaitBlockEffect ==
    ASSUME LifeInv, current_proc # NoProc, NEW pid \in Pids, NEW c \in Live,
           proc[c].pid = pid, proc[c].parent_pid = CurrentPid, proc[c].state # "ZOMBIE",
           scheduler_core([proc EXCEPT ![current_proc].state = "BLOCKED",
                                       ![current_proc].waiting_for = pid,
                                       ![current_proc].eax = SYS_WAITPID]),
           procs' = procs, pid_counter' = pid_counter, waiting' = waiting
    PROVE  Blocks(pid)
  <1>1. PICK P : P = [proc EXCEPT ![current_proc].state = "BLOCKED",
                                  ![current_proc].waiting_for = pid,
                                  ![current_proc].eax = SYS_WAITPID]
    OBVIOUS
  <1>2. scheduler_core(P)
    BY <1>1
  <1>3. /\ SchedInv /\ proc \in [Slots -> Proc] /\ Live \subseteq Slots
        /\ current_proc \in Live /\ current_proc \in Slots /\ proc[current_proc] \in Proc
    BY LivePids DEF LifeInv, SchedInv, TypeOK
  <1>4. pid \in Nat
    BY SchedAssumption DEF Pids
  <1>5. PICK r : r = [[[proc[current_proc] EXCEPT !.state = "BLOCKED"]
                         EXCEPT !.waiting_for = pid] EXCEPT !.eax = SYS_WAITPID]
    OBVIOUS
  <1>6. /\ r \in Proc /\ r.state = "BLOCKED" /\ r.waiting_for = pid
        /\ r.pid = proc[current_proc].pid
        /\ r.parent_pid = proc[current_proc].parent_pid
    BY <1>3, <1>4, <1>5 DEF Proc, States, Eax
  <1>7. P = [proc EXCEPT ![current_proc] = r]
    BY <1>1, <1>3, <1>5
  <1>8. P \in [Slots -> Proc] /\ P[current_proc] = r /\ \A s \in Slots \ {current_proc} : P[s] = proc[s]
    BY <1>3, <1>6, <1>7
  <1>9. Looks(P, proc')
    BY <1>2, <1>3, <1>8, CoreLooks
  <1>10. \A s \in Live \ {current_proc} : Same(s)
    <2> SUFFICES ASSUME NEW s \in Live \ {current_proc} PROVE Same(s)
      OBVIOUS
    <2>1. s \in Slots /\ P[s] = proc[s]
      BY <1>3, <1>8
    <2> QED
      BY <1>9, <2>1, AfterSwitch
  <1>11. PICK k \in Slots : k = current_proc
    BY <1>3
  <1>12. /\ proc'[k].pid = P[k].pid /\ proc'[k].parent_pid = P[k].parent_pid
         /\ proc'[k].waiting_for = P[k].waiting_for
         /\ proc'[k].state = "BLOCKED" <=> P[k].state = "BLOCKED"
    BY <1>9, AfterSwitch
  <1>13. SameId(k) /\ proc'[k].state = "BLOCKED" /\ proc'[k].waiting_for = pid
    BY <1>6, <1>8, <1>11, <1>12 DEF SameId
  <1>14. SameTable
    BY DEF SameTable, Live
  <1> QED
    BY <1>10, <1>11, <1>13, <1>14 DEF Blocks

LEMMA WaitpidEffect ==
    ASSUME LifeInv, NEW pid \in Pids, syscall_waitpid(pid)
    PROVE  Effect
  <1>1. PICK s : s = scheduler_get_proc(pid)
    OBVIOUS
  <1>2. /\ current_proc # NoProc /\ pid_counter' = pid_counter /\ waiting' = waiting
        /\ SchedInv
    BY DEF syscall_waitpid, InSyscall, LifeInv
  <1>3. s # NoProc => s \in Live /\ s \in Slots /\ proc[s].pid = pid
    BY <1>1, <1>2, GetProc
  <1>4. ASSUME NEW e, WaitReturns(proc, e), procs' = procs PROVE Effect
    BY <1>2, <1>4, WaitErrorEffect DEF Effect
  <1>5. ASSUME s # NoProc, proc[s].parent_pid = CurrentPid, proc[s].state = "ZOMBIE",
               scheduler_reap_child(s)
        PROVE  Effect
    BY <1>2, <1>3, <1>5, ReapEffect DEF Effect
  <1>6. ASSUME s # NoProc, proc[s].parent_pid = CurrentPid, proc[s].state # "ZOMBIE",
               scheduler_core([proc EXCEPT ![current_proc].state = "BLOCKED",
                                           ![current_proc].waiting_for = pid,
                                           ![current_proc].eax = SYS_WAITPID]),
               procs' = procs
        PROVE  Effect
    <2>1. Blocks(pid)
      BY <1>2, <1>3, <1>6, WaitBlockEffect
    <2> QED
      BY <2>1 DEF Effect
  <1> QED
    BY <1>1, <1>4, <1>5, <1>6 DEF syscall_waitpid

LEMMA CreateEffect ==
    ASSUME LifeInv, elf_load, waiting' = waiting, current_proc = NoProc => pid_counter = 1
    PROVE  \E s \in Slots : Creates(s)
  <1>1. PICK r : r = [proc_create EXCEPT !.state = "STARTING"]
    OBVIOUS
  <1>2. PICK s \in Slots : /\ s \notin Live
                           /\ proc' = [proc EXCEPT ![s] = r]
                           /\ procs' = Append(procs, s)
    BY <1>1 DEF elf_load, scheduler_add_proc
  <1>3. /\ procs \in Seq(Slots) /\ proc \in [Slots -> Proc] /\ Live \subseteq Slots
    BY LivePids DEF LifeInv, SchedInv, TypeOK
  <1>4. pid_counter \in Pids /\ pid_counter' = pid_counter + 1
    BY SchedAssumption DEF LifeInv, SchedInv, TypeOK, elf_load, Pids
  <1>5. /\ r.pid = pid_counter /\ r.parent_pid = CurrentPid
        /\ r.state = "STARTING" /\ r.waiting_for = 0
    BY <1>1 DEF proc_create
  <1>6. proc'[s] = r /\ \A t \in Live : proc'[t] = proc[t]
    BY <1>2, <1>3
  <1>7. \A t \in Live : Same(t)
    BY <1>6 DEF Same
  <1>8. Live' = Live \cup {s}
    <2>1. PICK n \in Nat : n = Len(procs)
      BY <1>3
    <2>2. /\ Live = {procs[i] : i \in 1..n}
          /\ Live' = {procs'[i] : i \in 1..(n + 1)}
      BY <1>2, <1>3, <2>1 DEF Live, Range
    <2>3. procs'[n + 1] = s /\ \A i \in 1..n : procs'[i] = procs[i]
      BY <1>2, <1>3, <2>1
    <2>4. 1..(n + 1) = (1..n) \cup {n + 1}
      BY <2>1
    <2> QED
      BY <2>2, <2>3, <2>4
  <1>9. Creates(s)
    BY <1>2, <1>4, <1>5, <1>6, <1>7, <1>8 DEF Creates
  <1> QED
    BY <1>9

LEMMA BootEffect ==
    ASSUME LifeInv, Boot
    PROVE  Effect
  <1>1. CASE elf_load
    <2>1. pid_counter = 1 /\ waiting' = waiting
      BY DEF Boot
    <2> QED
      BY <1>1, <2>1, CreateEffect DEF Effect
  <1>2. CASE UNCHANGED <<proc, procs, pid_counter>>
    BY <1>2 DEF Boot, Effect, Quiet, SameTable, Live, Same
  <1> QED
    BY <1>1, <1>2 DEF Boot

LEMMA ExecEffect ==
    ASSUME LifeInv, syscall_exec
    PROVE  Effect
  <1>1. elf_load /\ waiting' = waiting /\ current_proc # NoProc
    BY DEF syscall_exec, InSyscall
  <1> QED
    BY <1>1, CreateEffect DEF Effect

\* Without kill, every step is of one of the six kinds.
LEMMA StepEffect ==
    ASSUME NoKill, LifeInv, [Next]_vars
    PROVE  Effect
  <1>1. CASE Boot
    BY <1>1, BootEffect
  <1>2. CASE TimerTick
    BY <1>2, TimerEffect DEF Effect
  <1>3. CASE KeyEnter
    BY <1>3, KeyEnterEffect DEF Effect
  <1>4. CASE page_fault_handler
    BY <1>4, PageFaultEffect DEF Effect
  <1>5. CASE syscall_read
    BY <1>5, ReadEffect DEF Effect
  <1>6. ASSUME NEW code \in ExitCodes, syscall_exit(code) PROVE Effect
    BY <1>6, ExitEffect DEF Effect
  <1>7. CASE syscall_exec
    BY <1>7, ExecEffect
  <1>8. ASSUME NEW pid \in Pids, syscall_kill(pid) PROVE Effect
    BY <1>8 DEF syscall_kill, NoKill
  <1>9. ASSUME NEW pid \in Pids, syscall_waitpid(pid) PROVE Effect
    BY <1>9, WaitpidEffect
  <1>10. CASE UNCHANGED vars
    BY <1>10 DEF vars, Effect, Quiet, SameTable, Live, Same
  <1> QED
    BY <1>1, <1>2, <1>3, <1>4, <1>5, <1>6, <1>7, <1>8, <1>9, <1>10 DEF Next

-----------------------------------------------------------------------------
\* Each kind of step keeps the invariant.

\* What the invariant says of the running process and of the reader.
LEMMA ActorFacts ==
    ASSUME LifeInv
    PROVE  /\ waiting # NoProc => waiting \in Live
           /\ current_proc # NoProc =>
                /\ current_proc \in Live /\ waiting # current_proc
                /\ CurrentPid = proc[current_proc].pid /\ CurrentPid \in Nat \ {0}
                /\ proc[current_proc].state \notin {"BLOCKED", "ZOMBIE"}
                /\ proc[current_proc].waiting_for = 0
  <1>1. waiting # NoProc => waiting \in Live /\ proc[waiting].state = "BLOCKED"
    BY DEF LifeInv, StdinWaiterBlocked
  <1>2. ASSUME current_proc # NoProc
        PROVE  /\ current_proc \in Live
               /\ CurrentPid = proc[current_proc].pid /\ CurrentPid \in Nat \ {0}
               /\ proc[current_proc].state \notin {"BLOCKED", "ZOMBIE"}
    BY <1>2, LivePids DEF LifeInv
  <1>3. current_proc # NoProc => proc[current_proc].waiting_for = 0
    BY <1>2 DEF LifeInv, WaitsOnlyBlocked
  <1> QED
    BY <1>1, <1>2, <1>3

\* The parts of LifeInv beyond SchedInv.
WaitInv == WaitsOnlyBlocked /\ StdinWaiterBlocked /\ WaiterReads /\ ChildAlive

LEMMA QuietKeeps ==
    ASSUME LifeInv, Quiet
    PROVE  WaitInv'
  BY DEF LifeInv, Quiet, SameTable, Same, WaitInv, WaitsOnlyBlocked, StdinWaiterBlocked,
         WaiterReads, ChildAlive

LEMMA WakesKeeps ==
    ASSUME LifeInv, Wakes
    PROVE  WaitInv'
  <1>1. WaitsOnlyBlocked' /\ StdinWaiterBlocked' /\ WaiterReads'
    BY DEF LifeInv, Wakes, SameTable, Same, WaitsOnlyBlocked, StdinWaiterBlocked, WaiterReads
  <1>2. ChildAlive'
    BY DEF LifeInv, Wakes, SameTable, Same, SameId, StdinWaiterBlocked, ChildAlive
  <1> QED
    BY <1>1, <1>2 DEF WaitInv

LEMMA BlocksKeeps ==
    ASSUME LifeInv, NEW n \in Pids \cup {0}, Blocks(n)
    PROVE  WaitInv'
  <1>1. /\ current_proc \in Live /\ waiting # current_proc
        /\ CurrentPid = proc[current_proc].pid
    BY ActorFacts DEF Blocks
  <1>2. WaitsOnlyBlocked'
    BY <1>1 DEF LifeInv, Blocks, SameTable, Same, WaitsOnlyBlocked
  <1>3. StdinWaiterBlocked' /\ WaiterReads'
    BY <1>1 DEF LifeInv, Blocks, SameTable, Same, StdinWaiterBlocked, WaiterReads
  <1>4. ChildAlive'
    BY <1>1 DEF LifeInv, Blocks, SameTable, Same, SameId, ChildAlive
  <1> QED
    BY <1>2, <1>3, <1>4 DEF WaitInv

LEMMA DiesKeeps ==
    ASSUME LifeInv, Dies
    PROVE  WaitInv'
  <1>1. /\ current_proc \in Live /\ waiting # current_proc
        /\ proc[current_proc].pid \in Nat \ {0}
        /\ proc[current_proc].waiting_for = 0
        /\ proc[current_proc].state \notin {"BLOCKED", "ZOMBIE"}
        /\ \A s, t \in Live : proc[s].pid = proc[t].pid => s = t
        /\ waiting # NoProc => waiting \in Live
    BY ActorFacts, LivePids DEF Dies, LifeInv
  <1>2. WaitsOnlyBlocked'
    BY <1>1 DEF LifeInv, Dies, SameTable, Same, WaitsOnlyBlocked
  <1>3. waiting # NoProc => ~WaitsOnCurrent(waiting)
    BY <1>1 DEF LifeInv, WaiterReads, WaitsOnCurrent
  <1>4. StdinWaiterBlocked' /\ WaiterReads'
    BY <1>1, <1>3 DEF LifeInv, Dies, SameTable, Same, StdinWaiterBlocked, WaiterReads
  <1>5. ChildAlive'
    <2> SUFFICES ASSUME NEW s \in Live, proc'[s].state = "BLOCKED", proc'[s].waiting_for # 0
                 PROVE  \E c \in Live : /\ proc'[c].pid = proc'[s].waiting_for
                                         /\ proc'[c].parent_pid = proc'[s].pid
                                         /\ proc'[c].state # "ZOMBIE"
      BY DEF Dies, SameTable, ChildAlive
    <2>1. s # current_proc /\ Same(s) /\ ~WaitsOnCurrent(s)
      BY DEF Dies
    <2>2. PICK c \in Live : /\ proc[c].pid = proc[s].waiting_for
                            /\ proc[c].parent_pid = proc[s].pid
                            /\ proc[c].state # "ZOMBIE"
      BY <2>1 DEF LifeInv, ChildAlive, Same
    <2>3. c # current_proc
      BY <2>1, <2>2 DEF WaitsOnCurrent, Same
    <2>4. SameId(c) /\ proc'[c].state # "ZOMBIE"
      BY <2>2, <2>3 DEF Dies, Same, SameId
    <2> QED
      BY <2>1, <2>2, <2>4 DEF Same, SameId
  <1> QED
    BY <1>2, <1>4, <1>5 DEF WaitInv

LEMMA CreatesKeeps ==
    ASSUME LifeInv, NEW s \in Slots, Creates(s)
    PROVE  WaitInv'
  <1>1. WaitsOnlyBlocked' /\ StdinWaiterBlocked' /\ WaiterReads'
    BY DEF LifeInv, Creates, Same, WaitsOnlyBlocked, StdinWaiterBlocked, WaiterReads
  <1>2. ChildAlive'
    BY DEF LifeInv, Creates, Same, ChildAlive
  <1> QED
    BY <1>1, <1>2 DEF WaitInv

LEMMA ReapsKeeps ==
    ASSUME LifeInv, NEW c \in Slots, Reaps(c)
    PROVE  WaitInv'
  <1>1. WaitsOnlyBlocked' /\ StdinWaiterBlocked' /\ WaiterReads'
    BY DEF LifeInv, Reaps, Same, WaitsOnlyBlocked, StdinWaiterBlocked, WaiterReads
  <1>2. ChildAlive'
    BY DEF LifeInv, Reaps, Same, ChildAlive
  <1> QED
    BY <1>1, <1>2 DEF WaitInv

LEMMA LifeInit == Init => LifeInv
  <1> SUFFICES ASSUME Init PROVE LifeInv
    OBVIOUS
  <1>1. Live = {} /\ waiting = NoProc
    BY DEF Init, Live, Range
  <1> QED
    BY <1>1, InitInv DEF LifeInv, WaitsOnlyBlocked, StdinWaiterBlocked, WaiterReads, ChildAlive

LEMMA LifeStep ==
    ASSUME NoKill, LifeInv, [Next]_vars
    PROVE  LifeInv'
  <1>1. Effect
    BY StepEffect
  <1>2. WaitInv'
    BY <1>1, QuietKeeps, WakesKeeps, BlocksKeeps, DiesKeeps, CreatesKeeps, ReapsKeeps DEF Effect
  <1>3. SchedInv'
    BY NextInv DEF LifeInv
  <1> QED
    BY <1>2, <1>3 DEF LifeInv, WaitInv

\* The processes that wait have what they wait for, in every reachable state.
THEOREM LifeInvariant == NoKill => (Spec => []LifeInv)
  <1> SUFFICES ASSUME NoKill PROVE Spec => []LifeInv
    OBVIOUS
  <1>1. LifeInv /\ [Next]_vars => LifeInv'
    BY LifeStep
  <1> QED
    BY <1>1, LifeInit, PTL DEF Spec

\* As long as no program calls kill, __waiting_stdin never dangles: it points at
\* a blocked process of the table, whatever slots are freed and reused.
THEOREM WaiterNeverDangles == NoKill => (Spec => []StdinWaiterBlocked)
  <1> SUFFICES ASSUME NoKill PROVE Spec => []StdinWaiterBlocked
    OBVIOUS
  <1>1. LifeInv => StdinWaiterBlocked
    BY DEF LifeInv
  <1> QED
    BY <1>1, LifeInvariant, PTL

\* A dead process is not touched before it is reaped, by any of the six steps.
LEMMA DeadStay ==
    ASSUME NoKill, LifeInv, [Next]_vars
    PROVE  \A s \in Live : proc[s].state = "ZOMBIE" =>
             proc'[s].state = "ZOMBIE" \/ s \notin Range(procs')
  <1> SUFFICES ASSUME NEW s \in Live, proc[s].state = "ZOMBIE", s \in Live'
               PROVE  proc'[s].state = "ZOMBIE"
    BY DEF Live
  <1>1. Effect
    BY StepEffect
  <1>2. waiting # NoProc => s # waiting
    BY DEF LifeInv, StdinWaiterBlocked
  <1>3. current_proc # NoProc => s # current_proc
    BY ActorFacts
  <1>4. CASE Quiet
    BY <1>4 DEF Quiet, Same
  <1>5. CASE Wakes
    BY <1>2, <1>5 DEF Wakes, Same
  <1>6. CASE Dies
    BY <1>3, <1>6 DEF Dies, WaitsOnCurrent, Same
  <1>7. ASSUME NEW n \in Pids \cup {0}, Blocks(n) PROVE proc'[s].state = "ZOMBIE"
    BY <1>3, <1>7 DEF Blocks, Same
  <1>8. ASSUME NEW t \in Slots, Creates(t) PROVE proc'[s].state = "ZOMBIE"
    BY <1>8 DEF Creates, Same
  <1>9. ASSUME NEW c \in Slots, Reaps(c) PROVE proc'[s].state = "ZOMBIE"
    BY <1>9 DEF Reaps, Same
  <1> QED
    BY <1>1, <1>4, <1>5, <1>6, <1>7, <1>8, <1>9 DEF Effect

\* As long as no program calls kill, no key, tick or call revives a dead process.
THEOREM DeadIsFinal == NoKill => (Spec => ZombieIsFinal)
  <1> SUFFICES ASSUME NoKill PROVE Spec => ZombieIsFinal
    OBVIOUS
  <1>1. LifeInv /\ [Next]_vars =>
          [\A s \in Live : proc[s].state = "ZOMBIE" =>
              proc'[s].state = "ZOMBIE" \/ s \notin Range(procs')]_vars
    BY DeadStay
  <1> QED
    BY <1>1, LifeInvariant, PTL DEF Spec, ZombieIsFinal

-----------------------------------------------------------------------------
\* When programs take turns, nobody takes the keyboard from a process that waits for it.
LEMMA ReaderStep ==
    ASSUME NoKill, TakeTurns, LifeInv, ReaderRegistered, [Next]_vars
    PROVE  ReaderRegistered'
  <1>1. Effect
    BY StepEffect
  <1>2. SchedInv
    BY DEF LifeInv
  <1>3. CASE Quiet
    BY <1>3 DEF Quiet, SameTable, Same, ReaderRegistered
  <1>4. CASE Wakes
    BY <1>4 DEF Wakes, SameTable, Same, ReaderRegistered
  <1>5. CASE Dies
    BY <1>5 DEF Dies, SameTable, Same, ReaderRegistered
  <1>6. ASSUME NEW n \in Pids \cup {0}, Blocks(n) PROVE ReaderRegistered'
    <2>1. /\ current_proc \in Live /\ CurrentPid = proc[current_proc].pid
          /\ \A s, t \in Live : proc[s].pid = proc[t].pid => s = t
      BY <1>2, <1>6, ActorFacts, LivePids DEF Blocks
    <2>2. n \in Pids => n # 0
      BY SchedAssumption DEF Pids
    <2>3. CASE n = 0
      <3>1. waiting = NoProc /\ waiting' = current_proc
        BY <1>6, <2>2, <2>3 DEF Blocks
      <3>2. NoProc \notin Live
        BY <1>2, LiveSlots, SchedAssumption DEF SchedInv, TypeOK
      <3> QED
        BY <1>6, <2>1, <2>3, <3>1, <3>2 DEF Blocks, SameTable, Same, ReaderRegistered
    <2>4. CASE n # 0
      BY <1>6, <2>1, <2>4 DEF Blocks, SameTable, Same, ReaderRegistered
    <2> QED
      BY <2>3, <2>4
  <1>7. ASSUME NEW t \in Slots, Creates(t) PROVE ReaderRegistered'
    BY <1>7 DEF Creates, Same, ReaderRegistered
  <1>8. ASSUME NEW c \in Slots, Reaps(c) PROVE ReaderRegistered'
    BY <1>8 DEF Reaps, Same, ReaderRegistered
  <1> QED
    BY <1>1, <1>3, <1>4, <1>5, <1>6, <1>7, <1>8 DEF Effect

\* As long as no program calls kill, and one that reads does so while no other
\* waits for a line, every blocked process has somebody who will wake it.
THEOREM NobodyStuck == NoKill /\ TakeTurns => (Spec => []BlockedHasWaker)
  <1> SUFFICES ASSUME NoKill, TakeTurns PROVE Spec => []BlockedHasWaker
    OBVIOUS
  <1>1. Init => ReaderRegistered
    BY DEF Init, Live, Range, ReaderRegistered
  <1>2. LifeInv /\ ReaderRegistered /\ [Next]_vars => ReaderRegistered'
    BY ReaderStep
  <1>3. LifeInv /\ ReaderRegistered => BlockedHasWaker
    BY DEF LifeInv, ReaderRegistered, ChildAlive, BlockedHasWaker
  <1> QED
    BY <1>1, <1>2, <1>3, LifeInvariant, PTL DEF Spec

-----------------------------------------------------------------------------
\* The refinement of ProcLife.

\* L, A and W are the life, parent and waits that a table of processes shows:
\* live are its slots, P its structs, n the next pid.
View(L, A, W, live, P, n) ==
    /\ L = [p \in Pids |-> L[p]]
    /\ A = [p \in Pids |-> A[p]]
    /\ W = [p \in Pids |-> W[p]]
    /\ \A s \in live :
         /\ P[s].pid \in Pids /\ P[s].pid < n
         /\ L[P[s].pid] = IF P[s].state = "ZOMBIE" THEN "zombie" ELSE "alive"
         /\ A[P[s].pid] = P[s].parent_pid
         /\ W[P[s].pid] = IF P[s].state = "BLOCKED" THEN P[s].waiting_for ELSE 0
    /\ \A p \in Pids : (\A s \in live : P[s].pid # p) =>
         /\ L[p] = IF p >= n THEN "none" ELSE "reaped"
         /\ A[p] = 0
         /\ W[p] = 0

LEMMA ViewHolds == SchedInv => View(LifeOf, ParentOf, WaitsOf, Live, proc, pid_counter)
  <1> SUFFICES ASSUME SchedInv PROVE View(LifeOf, ParentOf, WaitsOf, Live, proc, pid_counter)
    OBVIOUS
  <1>1. /\ LifeOf = [p \in Pids |-> LifeOf[p]]
        /\ ParentOf = [p \in Pids |-> ParentOf[p]]
        /\ WaitsOf = [p \in Pids |-> WaitsOf[p]]
    BY DEF LifeOf, ParentOf, WaitsOf
  <1>2. pid_counter \in 1..(MaxPid + 1) /\ MaxPid \in Nat
    BY SchedAssumption DEF SchedInv, TypeOK
  <1>3. ASSUME NEW s \in Live
        PROVE  /\ proc[s].pid \in Pids /\ proc[s].pid < pid_counter
               /\ LifeOf[proc[s].pid] = IF proc[s].state = "ZOMBIE" THEN "zombie" ELSE "alive"
               /\ ParentOf[proc[s].pid] = proc[s].parent_pid
               /\ WaitsOf[proc[s].pid] = IF proc[s].state = "BLOCKED"
                                         THEN proc[s].waiting_for ELSE 0
    <2>1. proc[s].pid \in 1..(pid_counter - 1)
      BY LivePids
    <2>2. PICK p \in Pids : p = proc[s].pid
      BY <1>2, <2>1 DEF Pids
    <2>3. p < pid_counter /\ ~(p >= pid_counter)
      BY <1>2, <2>1, <2>2
    <2>4. InUse(p)
      BY <2>2 DEF InUse
    <2>5. Holder(p) \in Live /\ proc[Holder(p)].pid = p
      BY <2>2 DEF Holder
    <2>6. Holder(p) = s
      BY <2>2, <2>5, LivePids
    <2>7. LifeOf[p] = IF proc[s].state = "ZOMBIE" THEN "zombie" ELSE "alive"
      BY <2>3, <2>4, <2>6 DEF LifeOf
    <2>8. ParentOf[p] = proc[s].parent_pid
      BY <2>4, <2>6 DEF ParentOf
    <2>9. WaitsOf[p] = IF proc[s].state = "BLOCKED" THEN proc[s].waiting_for ELSE 0
      BY <2>4, <2>6 DEF WaitsOf
    <2> QED
      BY <2>2, <2>3, <2>7, <2>8, <2>9
  <1>4. ASSUME NEW p \in Pids, \A s \in Live : proc[s].pid # p
        PROVE  /\ LifeOf[p] = IF p >= pid_counter THEN "none" ELSE "reaped"
               /\ ParentOf[p] = 0
               /\ WaitsOf[p] = 0
    <2>1. ~InUse(p)
      BY <1>4 DEF InUse
    <2> QED
      BY <2>1 DEF LifeOf, ParentOf, WaitsOf
  <1> QED
    BY <1>1, <1>3, <1>4 DEF View

LEMMA ViewNext == SchedInv' => View(LifeOf', ParentOf', WaitsOf', Live', proc', pid_counter')
  <1>1. (SchedInv => View(LifeOf, ParentOf, WaitsOf, Live, proc, pid_counter))'
    BY ViewHolds, PTL
  <1> QED
    BY <1>1

\* The view at a pid, before and after a step, is that of the slot that holds it.
\* A step that changes no slot's part of the view changes nothing.
LEMMA ViewStutters ==
    ASSUME NEW live, NEW n, NEW P, NEW Q,
           NEW L, NEW A, NEW W, NEW L2, NEW A2, NEW W2,
           View(L, A, W, live, P, n), View(L2, A2, W2, live, Q, n),
           \A s \in live :
             /\ Q[s].pid = P[s].pid /\ Q[s].parent_pid = P[s].parent_pid
             /\ Q[s].state = "ZOMBIE" <=> P[s].state = "ZOMBIE"
             /\ (IF Q[s].state = "BLOCKED" THEN Q[s].waiting_for ELSE 0)
                  = (IF P[s].state = "BLOCKED" THEN P[s].waiting_for ELSE 0)
    PROVE  L2 = L /\ A2 = A /\ W2 = W
  <1>1. ASSUME NEW p \in Pids PROVE L2[p] = L[p] /\ A2[p] = A[p] /\ W2[p] = W[p]
    <2>1. CASE \E s \in live : P[s].pid = p
      <3>1. PICK s \in live : P[s].pid = p
        BY <2>1
      <3> QED
        BY <3>1 DEF View
    <2>2. CASE \A s \in live : P[s].pid # p
      BY <2>2 DEF View
    <2> QED
      BY <2>1, <2>2
  <1> QED
    BY <1>1 DEF View

LEMMA QuietLife ==
    ASSUME LifeInv, LifeInv', Quiet
    PROVE  UNCHANGED Life!lifeVars
  <1>1. /\ View(LifeOf, ParentOf, WaitsOf, Live, proc, pid_counter)
        /\ View(LifeOf', ParentOf', WaitsOf', Live, proc', pid_counter)
    BY ViewHolds, ViewNext DEF LifeInv, Quiet, SameTable
  <1>2. LifeOf' = LifeOf /\ ParentOf' = ParentOf /\ WaitsOf' = WaitsOf
    BY <1>1, ViewStutters DEF Quiet, Same
  <1> QED
    BY <1>2 DEF Life!lifeVars

LEMMA WakesLife ==
    ASSUME LifeInv, LifeInv', Wakes
    PROVE  UNCHANGED Life!lifeVars
  <1>1. /\ View(LifeOf, ParentOf, WaitsOf, Live, proc, pid_counter)
        /\ View(LifeOf', ParentOf', WaitsOf', Live, proc', pid_counter)
    BY ViewHolds, ViewNext DEF LifeInv, Wakes, SameTable
  <1>2. /\ waiting \in Live /\ proc[waiting].state = "BLOCKED"
        /\ proc[waiting].waiting_for = 0
    BY DEF LifeInv, Wakes, StdinWaiterBlocked, WaiterReads
  <1>3. LifeOf' = LifeOf /\ ParentOf' = ParentOf /\ WaitsOf' = WaitsOf
    BY <1>1, <1>2, ViewStutters DEF Wakes, Same, SameId
  <1> QED
    BY <1>3 DEF Life!lifeVars

LEMMA ReadLife ==
    ASSUME LifeInv, LifeInv', Blocks(0)
    PROVE  UNCHANGED Life!lifeVars
  <1>1. /\ View(LifeOf, ParentOf, WaitsOf, Live, proc, pid_counter)
        /\ View(LifeOf', ParentOf', WaitsOf', Live, proc', pid_counter)
    BY ViewHolds, ViewNext DEF LifeInv, Blocks, SameTable
  <1>2. /\ current_proc \in Live
        /\ proc[current_proc].state \notin {"BLOCKED", "ZOMBIE"}
    BY ActorFacts DEF Blocks
  <1>3. LifeOf' = LifeOf /\ ParentOf' = ParentOf /\ WaitsOf' = WaitsOf
    BY <1>1, <1>2, ViewStutters DEF Blocks, Same, SameId
  <1> QED
    BY <1>3 DEF Life!lifeVars

\* waitpid on a child that is alive is ProcLife's Wait.
LEMMA WaitLife ==
    ASSUME LifeInv, LifeInv', NEW n \in Pids, Blocks(n)
    PROVE  Life!Wait(CurrentPid, n) /\ CurrentPid \in Pids
  <1>1. /\ View(LifeOf, ParentOf, WaitsOf, Live, proc, pid_counter)
        /\ View(LifeOf', ParentOf', WaitsOf', Live, proc', pid_counter)
    BY ViewHolds, ViewNext DEF LifeInv, Blocks, SameTable
  <1>2. PICK k \in Live : k = current_proc
    BY ActorFacts DEF Blocks
  <1>3. /\ proc[k].state \notin {"BLOCKED", "ZOMBIE"} /\ CurrentPid = proc[k].pid
        /\ \A s, t \in Live : proc[s].pid = proc[t].pid => s = t
    BY <1>2, ActorFacts, LivePids DEF Blocks, LifeInv
  <1>4. PICK p \in Pids : p = CurrentPid
    BY <1>1, <1>3 DEF View
  <1>5. n # 0
    BY SchedAssumption DEF Pids
  <1>6. PICK c \in Live : /\ proc[c].pid = n /\ proc[c].parent_pid = p
                          /\ proc[c].state # "ZOMBIE"
    BY <1>4, <1>5 DEF Blocks
  <1>7. LifeOf[p] = "alive" /\ WaitsOf[p] = 0 /\ LifeOf[n] = "alive" /\ ParentOf[n] = p
    BY <1>1, <1>3, <1>4, <1>6 DEF View
  <1>8. /\ \A s \in Live : s # k => Same(s)
        /\ SameId(k) /\ proc'[k].state = "BLOCKED" /\ proc'[k].waiting_for = n
    BY <1>2 DEF Blocks
  <1>9. ASSUME NEW q \in Pids
        PROVE  /\ LifeOf'[q] = LifeOf[q] /\ ParentOf'[q] = ParentOf[q]
               /\ WaitsOf'[q] = IF q = p THEN n ELSE WaitsOf[q]
    <2>1. CASE q = p
      BY <1>1, <1>3, <1>4, <1>8, <2>1 DEF View, SameId
    <2>2. CASE q # p /\ \E s \in Live : proc[s].pid = q
      <3>1. PICK s \in Live : proc[s].pid = q
        BY <2>2
      <3>2. Same(s)
        BY <1>3, <1>4, <1>8, <2>2, <3>1
      <3> QED
        BY <1>1, <2>2, <3>1, <3>2 DEF View, Same
    <2>3. CASE q # p /\ \A s \in Live : proc[s].pid # q
      <3>1. \A s \in Live : proc'[s].pid # q
        BY <1>8, <2>3 DEF Same, SameId
      <3> QED
        BY <1>1, <2>3, <3>1 DEF View
    <2> QED
      BY <2>1, <2>2, <2>3
  <1>10. /\ LifeOf' = LifeOf /\ ParentOf' = ParentOf
         /\ WaitsOf' = [WaitsOf EXCEPT ![p] = n]
    BY <1>1, <1>9 DEF View
  <1> QED
    BY <1>4, <1>7, <1>10 DEF Life!Wait, Life!Awake

\* exit and the fatal page fault are ProcLife's Die: the parent that waits is
\* released in the same step, and nobody else waits for this process.
LEMMA DieLife ==
    ASSUME LifeInv, LifeInv', Dies
    PROVE  Life!Die(CurrentPid) /\ CurrentPid \in Pids
  <1>1. /\ View(LifeOf, ParentOf, WaitsOf, Live, proc, pid_counter)
        /\ View(LifeOf', ParentOf', WaitsOf', Live, proc', pid_counter)
    BY ViewHolds, ViewNext DEF LifeInv, Dies, SameTable
  <1>2. PICK k \in Live : k = current_proc
    BY ActorFacts DEF Dies
  <1>3. /\ proc[k].state \notin {"BLOCKED", "ZOMBIE"} /\ CurrentPid = proc[k].pid
        /\ CurrentPid # 0
        /\ \A s, t \in Live : proc[s].pid = proc[t].pid => s = t
    BY <1>2, ActorFacts, LivePids DEF Dies, LifeInv
  <1>4. PICK p \in Pids : p = CurrentPid
    BY <1>1, <1>3 DEF View
  <1>5. LifeOf[p] = "alive" /\ WaitsOf[p] = 0
    BY <1>1, <1>3, <1>4 DEF View
  <1>6. /\ SameId(k) /\ proc'[k].state = "ZOMBIE"
        /\ \A s \in Live : s # k /\ ~WaitsOnCurrent(s) => Same(s)
        /\ \A s \in Live : s # k /\ WaitsOnCurrent(s) =>
             SameId(s) /\ proc'[s].state \notin {"BLOCKED", "ZOMBIE"}
    BY <1>2 DEF Dies
  <1>7. ASSUME NEW s \in Live, proc[s].state = "BLOCKED", proc[s].waiting_for = p
        PROVE  WaitsOnCurrent(s)
    <2>1. PICK c \in Live : /\ proc[c].pid = p
                            /\ proc[c].parent_pid = proc[s].pid
      BY <1>3, <1>4, <1>7 DEF LifeInv, ChildAlive
    <2>2. c = k
      BY <1>3, <1>4, <2>1
    <2> QED
      BY <1>2, <1>3, <1>4, <1>7, <2>1, <2>2 DEF WaitsOnCurrent
  <1>8. ASSUME NEW q \in Pids
        PROVE  /\ LifeOf'[q] = IF q = p THEN "zombie" ELSE LifeOf[q]
               /\ ParentOf'[q] = ParentOf[q]
               /\ WaitsOf'[q] = IF WaitsOf[q] = p THEN 0 ELSE WaitsOf[q]
    <2>1. CASE q = p
      BY <1>1, <1>3, <1>4, <1>5, <1>6, <2>1 DEF View, SameId
    <2>2. CASE q # p /\ \E s \in Live : proc[s].pid = q
      <3>1. PICK s \in Live : proc[s].pid = q
        BY <2>2
      <3>2. s # k
        BY <1>3, <1>4, <2>2, <3>1
      <3>3. CASE WaitsOnCurrent(s)
        <4>1. proc[s].state = "BLOCKED" /\ proc[s].waiting_for = p
          BY <1>2, <1>3, <1>4, <3>3 DEF WaitsOnCurrent
        <4>2. SameId(s) /\ proc'[s].state \notin {"BLOCKED", "ZOMBIE"}
          BY <1>6, <3>2, <3>3
        <4> QED
          BY <1>1, <2>2, <3>1, <4>1, <4>2 DEF View, SameId
      <3>4. CASE ~WaitsOnCurrent(s)
        <4>1. Same(s)
          BY <1>6, <3>2, <3>4
        <4>2. ~(proc[s].state = "BLOCKED" /\ proc[s].waiting_for = p)
          BY <1>7, <3>4
        <4>3. WaitsOf[q] # p
          BY <1>1, <1>3, <1>4, <3>1, <4>2 DEF View
        <4> QED
          BY <1>1, <2>2, <3>1, <4>1, <4>3 DEF View, Same
      <3> QED
        BY <3>3, <3>4
    <2>3. CASE q # p /\ \A s \in Live : proc[s].pid # q
      <3>1. \A s \in Live : proc'[s].pid # q
        BY <1>6, <2>3 DEF Same, SameId
      <3> QED
        BY <1>1, <1>3, <1>4, <2>3, <3>1 DEF View
    <2> QED
      BY <2>1, <2>2, <2>3
  <1>9. /\ LifeOf' = [LifeOf EXCEPT ![p] = "zombie"] /\ ParentOf' = ParentOf
        /\ WaitsOf' = [q \in Pids |-> IF WaitsOf[q] = p THEN 0 ELSE WaitsOf[q]]
    BY <1>1, <1>8 DEF View
  <1> QED
    BY <1>4, <1>5, <1>9 DEF Life!Die, Life!Awake

\* elf_load is ProcLife's Create, by the running process or, at boot, by none.
LEMMA CreateLife ==
    ASSUME LifeInv, LifeInv', NEW s \in Slots, Creates(s)
    PROVE  /\ Life!Create(pid_counter, CurrentPid)
           /\ pid_counter \in Pids /\ CurrentPid \in Pids \cup {0}
  <1>1. /\ View(LifeOf, ParentOf, WaitsOf, Live, proc, pid_counter)
        /\ View(LifeOf', ParentOf', WaitsOf', Live \cup {s}, proc', pid_counter + 1)
    BY ViewHolds, ViewNext DEF LifeInv, Creates
  <1>2. PICK p \in Pids : p = pid_counter
    BY DEF Creates
  <1>3. p \in Nat /\ \A q \in Pids : q \in Nat /\ 1 <= q
    BY SchedAssumption DEF Pids
  <1>4. \A t \in Live : proc[t].pid # p
    BY <1>1, <1>2, <1>3 DEF View
  <1>5. LifeOf[p] = "none" /\ WaitsOf[p] = 0
    BY <1>1, <1>2, <1>3, <1>4 DEF View
  <1>6. ASSUME NEW q \in Pids, q < p PROVE LifeOf[q] # "none"
    <2>1. CASE \E t \in Live : proc[t].pid = q
      BY <1>1, <2>1 DEF View
    <2>2. CASE \A t \in Live : proc[t].pid # q
      <3>1. ~(q >= p)
        BY <1>3, <1>6
      <3> QED
        BY <1>1, <1>2, <2>2, <3>1 DEF View
    <2> QED
      BY <2>1, <2>2
  <1>7. /\ CurrentPid \in Pids \cup {0}
        /\ IF CurrentPid = 0 THEN \A q \in Pids : LifeOf[q] = "none"
           ELSE LifeOf[CurrentPid] = "alive" /\ WaitsOf[CurrentPid] = 0
    <2>1. CASE current_proc = NoProc
      <3>1. CurrentPid = 0 /\ p = 1
        BY <1>2, <2>1 DEF CurrentPid, Creates
      <3>2. ASSUME NEW q \in Pids PROVE LifeOf[q] = "none"
        <4>1. q >= p /\ \A t \in Live : proc[t].pid # q
          BY <1>1, <1>2, <1>3, <3>1 DEF View
        <4> QED
          BY <1>1, <1>2, <4>1 DEF View
      <3> QED
        BY <3>1, <3>2
    <2>2. CASE current_proc # NoProc
      <3>1. /\ current_proc \in Live /\ CurrentPid = proc[current_proc].pid
            /\ CurrentPid # 0 /\ proc[current_proc].state \notin {"BLOCKED", "ZOMBIE"}
        BY <2>2, ActorFacts
      <3> QED
        BY <1>1, <3>1 DEF View
    <2> QED
      BY <2>1, <2>2
  <1>8. /\ \A t \in Live : Same(t)
        /\ proc'[s].pid = p /\ proc'[s].parent_pid = CurrentPid
        /\ proc'[s].state = "STARTING"
    BY <1>2 DEF Creates
  <1>9. ASSUME NEW q \in Pids
        PROVE  /\ LifeOf'[q] = IF q = p THEN "alive" ELSE LifeOf[q]
               /\ ParentOf'[q] = IF q = p THEN CurrentPid ELSE ParentOf[q]
               /\ WaitsOf'[q] = WaitsOf[q]
    <2>1. CASE q = p
      BY <1>1, <1>5, <1>8, <2>1 DEF View
    <2>2. CASE q # p /\ \E t \in Live : proc[t].pid = q
      <3>1. PICK t \in Live : proc[t].pid = q
        BY <2>2
      <3> QED
        BY <1>1, <1>8, <2>2, <3>1 DEF View, Same
    <2>3. CASE q # p /\ \A t \in Live : proc[t].pid # q
      <3>1. \A t \in Live \cup {s} : proc'[t].pid # q
        BY <1>8, <2>3 DEF Same
      <3>2. q >= p <=> q >= p + 1
        BY <1>3, <2>3
      <3> QED
        BY <1>1, <1>2, <2>3, <3>1, <3>2 DEF View
    <2> QED
      BY <2>1, <2>2, <2>3
  <1>10. /\ LifeOf' = [LifeOf EXCEPT ![p] = "alive"]
         /\ ParentOf' = [ParentOf EXCEPT ![p] = CurrentPid]
         /\ WaitsOf' = WaitsOf
    BY <1>1, <1>9 DEF View
  <1> QED
    BY <1>2, <1>5, <1>6, <1>7, <1>10 DEF Life!Create, Life!Awake

\* waitpid on a dead child is ProcLife's Reap.
LEMMA ReapLife ==
    ASSUME LifeInv, LifeInv', NEW c \in Slots, Reaps(c)
    PROVE  /\ Life!Reap(CurrentPid, proc[c].pid)
           /\ CurrentPid \in Pids /\ proc[c].pid \in Pids
  <1>1. /\ View(LifeOf, ParentOf, WaitsOf, Live, proc, pid_counter)
        /\ View(LifeOf', ParentOf', WaitsOf', Live \ {c}, proc', pid_counter)
    BY ViewHolds, ViewNext DEF LifeInv, Reaps
  <1>2. /\ current_proc \in Live /\ CurrentPid = proc[current_proc].pid
        /\ proc[current_proc].state \notin {"BLOCKED", "ZOMBIE"}
        /\ \A s, t \in Live : proc[s].pid = proc[t].pid => s = t
    BY ActorFacts, LivePids DEF Reaps, LifeInv
  <1>3. /\ c \in Live /\ proc[c].state = "ZOMBIE" /\ proc[c].parent_pid = CurrentPid
        /\ \A s \in Live \ {c} : Same(s)
    BY DEF Reaps
  <1>4. PICK p \in Pids : p = CurrentPid
    BY <1>1, <1>2 DEF View
  <1>5. PICK n \in Pids : n = proc[c].pid
    BY <1>1, <1>3 DEF View
  <1>6. /\ LifeOf[p] = "alive" /\ WaitsOf[p] = 0
        /\ LifeOf[n] = "zombie" /\ ParentOf[n] = p /\ WaitsOf[n] = 0
    BY <1>1, <1>2, <1>3, <1>4, <1>5 DEF View
  <1>7. ~(n >= pid_counter)
    <2>1. n < pid_counter
      BY <1>1, <1>3, <1>5 DEF View
    <2>2. pid_counter \in Nat /\ n \in Nat
      BY SchedAssumption DEF LifeInv, SchedInv, TypeOK, Pids
    <2> QED
      BY <2>1, <2>2
  <1>8. ASSUME NEW q \in Pids
        PROVE  /\ LifeOf'[q] = IF q = n THEN "reaped" ELSE LifeOf[q]
               /\ ParentOf'[q] = IF q = n THEN 0 ELSE ParentOf[q]
               /\ WaitsOf'[q] = WaitsOf[q]
    <2>1. CASE q = n
      <3>1. \A s \in Live \ {c} : proc'[s].pid # n
        BY <1>2, <1>3, <1>5 DEF Same
      <3> QED
        BY <1>1, <1>6, <1>7, <2>1, <3>1 DEF View
    <2>2. CASE q # n /\ \E s \in Live : proc[s].pid = q
      <3>1. PICK s \in Live : proc[s].pid = q
        BY <2>2
      <3>2. s \in Live \ {c} /\ Same(s)
        BY <1>3, <1>5, <2>2, <3>1
      <3> QED
        BY <1>1, <2>2, <3>1, <3>2 DEF View, Same
    <2>3. CASE q # n /\ \A s \in Live : proc[s].pid # q
      <3>1. \A s \in Live \ {c} : proc'[s].pid # q
        BY <1>3, <2>3 DEF Same
      <3> QED
        BY <1>1, <2>3, <3>1 DEF View
    <2> QED
      BY <2>1, <2>2, <2>3
  <1>9. /\ LifeOf' = [LifeOf EXCEPT ![n] = "reaped"]
        /\ ParentOf' = [ParentOf EXCEPT ![n] = 0]
        /\ WaitsOf' = WaitsOf
    BY <1>1, <1>8 DEF View
  <1> QED
    BY <1>4, <1>5, <1>6, <1>9 DEF Life!Reap, Life!Awake

-----------------------------------------------------------------------------
LEMMA InitLife == Init => Life!LifeInit
  <1> SUFFICES ASSUME Init PROVE Life!LifeInit
    OBVIOUS
  <1>1. /\ View(LifeOf, ParentOf, WaitsOf, Live, proc, pid_counter)
        /\ Live = {} /\ pid_counter = 1
    BY InitInv, ViewHolds DEF Init, Live, Range
  <1>2. \A p \in Pids : p >= 1
    BY SchedAssumption DEF Pids
  <1>3. \A p \in Pids : LifeOf[p] = "none" /\ ParentOf[p] = 0 /\ WaitsOf[p] = 0
    BY <1>1, <1>2 DEF View
  <1> QED
    BY <1>1, <1>3 DEF View, Life!LifeInit

\* Every step of the kernel is a step of ProcLife or changes nothing it sees.
LEMMA NextLife ==
    ASSUME NoKill, LifeInv, LifeInv', [Next]_vars
    PROVE  [Life!LifeNext]_(Life!lifeVars)
  <1>1. Effect
    BY StepEffect
  <1>2. CASE Quiet
    BY <1>2, QuietLife
  <1>3. CASE Wakes
    BY <1>3, WakesLife
  <1>4. CASE Dies
    <2>1. PICK p \in Pids : p = CurrentPid
      BY <1>4, DieLife
    <2>2. Life!Die(p)
      BY <1>4, <2>1, DieLife
    <2> QED
      BY <2>2 DEF Life!LifeNext
  <1>5. ASSUME NEW n \in Pids \cup {0}, Blocks(n) PROVE [Life!LifeNext]_(Life!lifeVars)
    <2>1. CASE n = 0
      BY <1>5, <2>1, ReadLife
    <2>2. CASE n \in Pids
      <3>1. PICK p \in Pids : p = CurrentPid
        BY <1>5, <2>2, WaitLife
      <3>2. Life!Wait(p, n)
        BY <1>5, <2>2, <3>1, WaitLife
      <3> QED
        BY <2>2, <3>2 DEF Life!LifeNext
    <2> QED
      BY <2>1, <2>2
  <1>6. ASSUME NEW s \in Slots, Creates(s) PROVE [Life!LifeNext]_(Life!lifeVars)
    <2>1. PICK p \in Pids, by \in Pids \cup {0} : p = pid_counter /\ by = CurrentPid
      BY <1>6, CreateLife
    <2>2. Life!Create(p, by)
      BY <1>6, <2>1, CreateLife
    <2> QED
      BY <2>2 DEF Life!LifeNext
  <1>7. ASSUME NEW c \in Slots, Reaps(c) PROVE [Life!LifeNext]_(Life!lifeVars)
    <2>1. PICK p \in Pids, n \in Pids : p = CurrentPid /\ n = proc[c].pid
      BY <1>7, ReapLife
    <2>2. Life!Reap(p, n)
      BY <1>7, <2>1, ReapLife
    <2> QED
      BY <2>2 DEF Life!LifeNext
  <1> QED
    BY <1>1, <1>2, <1>3, <1>4, <1>5, <1>6, <1>7 DEF Effect

\* As long as no program calls kill, the scheduler, its table and its pointers
\* implement the life of a process as ProcLife states it.
THEOREM SchedImplementsLife == NoKill => (Spec => ImplementsLife)
  <1> SUFFICES ASSUME NoKill PROVE Spec => ImplementsLife
    OBVIOUS
  <1>1. LifeInv /\ LifeInv' /\ [Next]_vars => [Life!LifeNext]_(Life!lifeVars)
    BY NextLife
  <1> QED
    BY <1>1, InitLife, LifeInvariant, PTL DEF Spec, ImplementsLife, Life!LifeSpec

=============================================================================
