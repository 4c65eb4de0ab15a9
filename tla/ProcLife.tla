------------------------------- MODULE ProcLife -------------------------------
(***************************************************************************)
(* What the process subsystem promises its programs, without scheduler,    *)
(* process table or pointers: a pid is handed out once, in increasing      *)
(* order; a process dies once; a dead child is collected once, by its      *)
(* parent; and a parent waiting for a child is released by the very step   *)
(* in which the child dies.                                                *)
(***************************************************************************)
EXTENDS Integers

CONSTANT Pids   \* the pids that may be handed out

VARIABLES
    life,     \* each pid's stage
    parent,   \* the creator of each pid in use, 0 for the first process
    waits     \* the child each process is waiting for, 0 if none

lifeVars == <<life, parent, waits>>

Stages == {"none", "alive", "zombie", "reaped"}

LifeInit ==
    /\ life = [p \in Pids |-> "none"]
    /\ parent = [p \in Pids |-> 0]
    /\ waits = [p \in Pids |-> 0]

\* A process that is alive and not inside waitpid.
Awake(p) == life[p] = "alive" /\ waits[p] = 0

Create(p, by) ==
    /\ life[p] = "none"
    /\ \A q \in Pids : q < p => life[q] # "none"
    /\ IF by = 0 THEN \A q \in Pids : life[q] = "none" ELSE Awake(by)
    /\ life' = [life EXCEPT ![p] = "alive"]
    /\ parent' = [parent EXCEPT ![p] = by]
    /\ UNCHANGED waits

Wait(p, c) ==
    /\ Awake(p)
    /\ life[c] = "alive"
    /\ parent[c] = p
    /\ waits' = [waits EXCEPT ![p] = c]
    /\ UNCHANGED <<life, parent>>

Die(c) ==
    /\ Awake(c)
    /\ life' = [life EXCEPT ![c] = "zombie"]
    /\ waits' = [p \in Pids |-> IF waits[p] = c THEN 0 ELSE waits[p]]
    /\ UNCHANGED parent

Reap(p, c) ==
    /\ Awake(p)
    /\ life[c] = "zombie"
    /\ parent[c] = p
    /\ life' = [life EXCEPT ![c] = "reaped"]
    /\ parent' = [parent EXCEPT ![c] = 0]
    /\ UNCHANGED waits

LifeNext ==
    \/ \E p \in Pids, by \in Pids \cup {0} : Create(p, by)
    \/ \E p, c \in Pids : Wait(p, c) \/ Reap(p, c)
    \/ \E c \in Pids : Die(c)

LifeSpec == LifeInit /\ [][LifeNext]_lifeVars

=============================================================================
