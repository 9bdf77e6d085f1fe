------------------------------- MODULE Proc -------------------------------
(***************************************************************************)
(* The process table of proc.c: fork, exit, wait, kill, sleep, wakeup and  *)
(* the per-CPU scheduler, with the return path of syscall() and trap().    *)
(*                                                                         *)
(* One step is one critical section of ptable.lock (Sched.tla looks inside *)
(* them), or the code a thread runs between two of them.  A slot of the    *)
(* table stands for its process, its kernel stack and its user program;    *)
(* programs may make any call at any time, except that init never exits.   *)
(***************************************************************************)
EXTENDS Naturals, FiniteSets, FiniteSetsExt

CONSTANTS
  NPROC,      \* slots of the table
  CPU,        \* processors, each running scheduler()
  Chan,       \* sleep channels other than struct proc pointers
  KillPid,    \* the pids that programs pass to kill()
  Memory,     \* pages kalloc() can hand out to processes
  MaxPid      \* bound: the last pid given out

Slot == 1..NPROC
initproc == 1        \* userinit() runs first and takes the first slot
None == 0            \* null pointer: no process, no channel

ASSUME ProcConstants ==
  /\ NPROC \in Nat \ {0}
  /\ MaxPid \in Nat
  /\ Memory \in Nat
  /\ KillPid \subseteq Nat
  /\ Chan \intersect (0..NPROC) = {}

VARIABLES
  state,      \* p->state
  pid,        \* p->pid; 0 in a slot that wait() has freed
  parent,     \* p->parent
  chan,       \* p->chan; a process waiting for its children sleeps on itself
  killed,     \* p->killed
  pc,         \* the kernel code the process is in
  np,         \* fork()'s local: the slot allocproc() returned
  nextpid,
  cpu,        \* per CPU: the process it runs
  scan,       \* per CPU: the next slot of scheduler()'s pass over the table
  pages,      \* pages left in kalloc()'s free list
  sys         \* "up" or "panic"

vars == <<state, pid, parent, chan, killed, pc, np, nextpid, cpu, scan, pages, sys>>

ProcState == {"UNUSED", "EMBRYO", "SLEEPING", "RUNNABLE", "RUNNING", "ZOMBIE"}
Live == {"SLEEPING", "RUNNABLE", "RUNNING"}
PC == {"user", "trap", "fork", "exit", "wait", "sleep", "awake"}

\* After userinit(), with every CPU in scheduler().
Init ==
  /\ state = [p \in Slot |-> IF p = initproc THEN "RUNNABLE" ELSE "UNUSED"]
  /\ pid = [p \in Slot |-> IF p = initproc THEN 1 ELSE 0]
  /\ parent = [p \in Slot |-> None]
  /\ chan = [p \in Slot |-> None]
  /\ killed = [p \in Slot |-> FALSE]
  /\ pc = [p \in Slot |-> "user"]
  /\ np = [p \in Slot |-> None]
  /\ nextpid = 2
  /\ cpu = [c \in CPU |-> None]
  /\ scan = [c \in CPU |-> 1]
  /\ pages = Memory
  /\ sys = "up"

---------------------------------------------------------------------------
Runs(p) == sys = "up" /\ state[p] = "RUNNING"

panic ==
  /\ sys' = "panic"
  /\ UNCHANGED <<state, pid, parent, chan, killed, pc, np, nextpid, cpu, scan, pages>>

\* The way back to user space: syscall() and trap() send the killed to exit().
Return(p) == [pc EXCEPT ![p] = IF killed[p] THEN "exit" ELSE "user"]

\* sched(): the CPU goes back to its scheduler().
sched(p) == cpu' = [c \in CPU |-> IF cpu[c] = p THEN None ELSE cpu[c]]

wakeup1(st, ch) ==
  [q \in Slot |-> IF st[q] = "SLEEPING" /\ chan[q] = ch THEN "RUNNABLE" ELSE st[q]]

(***************************************************************************)
(* fork(), cut where allocproc() releases ptable.lock: the new slot is an  *)
(* EMBRYO while the parent fills it in.  kalloc() panics when memory runs  *)
(* out, so the branches of allocproc() and fork() for a null page are dead *)
(* code.  The child's kernel stack counts as one page, its address space   *)
(* as another.                                                             *)
(***************************************************************************)
allocproc(p) ==
  /\ Runs(p) /\ pc[p] = "user"
  /\ nextpid <= MaxPid
  /\ LET free == {q \in Slot : state[q] = "UNUSED"}
     IN IF free = {}
        THEN /\ pc' = Return(p)
             /\ UNCHANGED <<state, pid, parent, chan, killed, np, nextpid, cpu, scan, pages, sys>>
        ELSE IF pages = 0 THEN panic
        ELSE /\ state' = [state EXCEPT ![Min(free)] = "EMBRYO"]
             /\ pid' = [pid EXCEPT ![Min(free)] = nextpid]
             /\ nextpid' = nextpid + 1
             /\ np' = [np EXCEPT ![p] = Min(free)]
             /\ pc' = [pc EXCEPT ![p] = "fork"]
             /\ pages' = pages - 1
             /\ UNCHANGED <<parent, chan, killed, cpu, scan, sys>>

fork(p) ==
  /\ Runs(p) /\ pc[p] = "fork"
  /\ IF pages = 0 THEN panic
     ELSE /\ pages' = pages - 1
          /\ parent' = [parent EXCEPT ![np[p]] = p]
          /\ state' = [state EXCEPT ![np[p]] = "RUNNABLE"]
          /\ np' = [np EXCEPT ![p] = None]
          /\ pc' = [Return(p) EXCEPT ![np[p]] = "user"]
          /\ UNCHANGED <<pid, chan, killed, nextpid, cpu, scan, sys>>

(***************************************************************************)
(* exit(): the process closes its files (call_exit to exit, where it may   *)
(* sleep), then, under ptable.lock, wakes its parent, hands its children   *)
(* to init and becomes a ZOMBIE.                                           *)
(***************************************************************************)
call_exit(p) ==
  /\ Runs(p) /\ pc[p] = "user"
  /\ p # initproc \/ killed[p]
  /\ pc' = [pc EXCEPT ![p] = "exit"]
  /\ UNCHANGED <<state, pid, parent, chan, killed, np, nextpid, cpu, scan, pages, sys>>

\* Mutants: the parent is not told; dead children are not handed over.
woken_InitOnly(p) ==
  IF \E q \in Slot : parent[q] = p /\ state[q] = "ZOMBIE" THEN wakeup1(state, initproc) ELSE state
adopted_NotAll(p) ==
  [q \in Slot |-> IF parent[q] = p /\ state[q] # "ZOMBIE" THEN initproc ELSE parent[q]]

woken(p) ==
  LET told == wakeup1(state, parent[p])
  IN IF \E q \in Slot : parent[q] = p /\ state[q] = "ZOMBIE"
     THEN wakeup1(told, initproc) ELSE told

adopted(p) == [q \in Slot |-> IF parent[q] = p THEN initproc ELSE parent[q]]

exit(p) ==
  /\ Runs(p) /\ pc[p] = "exit"
  /\ IF p = initproc THEN panic
     ELSE /\ state' = [woken(p) EXCEPT ![p] = "ZOMBIE"]
          /\ parent' = adopted(p)
          /\ sched(p)
          /\ UNCHANGED <<pid, chan, killed, pc, np, nextpid, scan, pages, sys>>

(***************************************************************************)
(* wait(): free the first ZOMBIE child, fail, or sleep on oneself.  Being  *)
(* woken, the loop runs again.                                             *)
(***************************************************************************)
\* Mutant: the kernel stack is not freed.
reap_LeaksStack(c) ==
  /\ state' = [state EXCEPT ![c] = "UNUSED"]
  /\ pid' = [pid EXCEPT ![c] = 0]
  /\ parent' = [parent EXCEPT ![c] = None]
  /\ killed' = [killed EXCEPT ![c] = FALSE]
  /\ pages' = pages + 1

reap(c) ==
  /\ state' = [state EXCEPT ![c] = "UNUSED"]
  /\ pid' = [pid EXCEPT ![c] = 0]
  /\ parent' = [parent EXCEPT ![c] = None]
  /\ killed' = [killed EXCEPT ![c] = FALSE]
  /\ pages' = pages + 2

wait(p) ==
  /\ Runs(p) /\ pc[p] \in {"user", "wait"}
  /\ LET kids == {q \in Slot : parent[q] = p}
         dead == {q \in kids : state[q] = "ZOMBIE"}
     IN \/ /\ dead # {}
           /\ reap(Min(dead))
           /\ pc' = Return(p)
           /\ UNCHANGED <<chan, np, nextpid, cpu, scan, sys>>
        \/ /\ dead = {}
           /\ kids = {} \/ killed[p]
           /\ pc' = Return(p)
           /\ UNCHANGED <<state, pid, parent, chan, killed, np, nextpid, cpu, scan, pages, sys>>
        \/ /\ dead = {} /\ kids # {} /\ ~killed[p]
           /\ chan' = [chan EXCEPT ![p] = p]
           /\ state' = [state EXCEPT ![p] = "SLEEPING"]
           /\ pc' = [pc EXCEPT ![p] = "wait"]
           /\ sched(p)
           /\ UNCHANGED <<pid, parent, killed, np, nextpid, scan, pages, sys>>

(***************************************************************************)
(* The sleep loop of a system call that a kill interrupts (sys_sleep(),    *)
(* piperead(), pipewrite(), consoleread()): test p->killed, without        *)
(* ptable.lock, then sleep(); being woken, leave the loop or test again.   *)
(* Closing files in exit() sleeps too, but no kill interrupts that.        *)
(***************************************************************************)
\* Mutant: the loop does not test p->killed.
test_killed_Not(p) ==
  /\ Runs(p) /\ pc[p] \in {"user", "awake"}
  /\ pc' = [pc EXCEPT ![p] = "sleep"]
  /\ UNCHANGED <<state, pid, parent, chan, killed, np, nextpid, cpu, scan, pages, sys>>

test_killed(p) ==
  /\ Runs(p) /\ pc[p] \in {"user", "awake"}
  /\ pc' = IF killed[p] THEN Return(p) ELSE [pc EXCEPT ![p] = "sleep"]
  /\ UNCHANGED <<state, pid, parent, chan, killed, np, nextpid, cpu, scan, pages, sys>>

sleep(p, ch) ==
  /\ Runs(p)
  /\ pc[p] = "sleep" \/ (pc[p] = "exit" /\ p # initproc)
  /\ chan' = [chan EXCEPT ![p] = ch]
  /\ state' = [state EXCEPT ![p] = "SLEEPING"]
  /\ pc' = [pc EXCEPT ![p] = IF @ = "sleep" THEN "awake" ELSE @]
  /\ sched(p)
  /\ UNCHANGED <<pid, parent, killed, np, nextpid, scan, pages, sys>>

leave_loop(p) ==
  /\ Runs(p) /\ pc[p] = "awake"
  /\ pc' = Return(p)
  /\ UNCHANGED <<state, pid, parent, chan, killed, np, nextpid, cpu, scan, pages, sys>>

\* wakeup() of a channel, by an interrupt handler or another system call.
wakeup(ch) ==
  /\ sys = "up"
  /\ state' = wakeup1(state, ch)
  /\ UNCHANGED <<pid, parent, chan, killed, pc, np, nextpid, cpu, scan, pages, sys>>

\* kill(): the first slot with the pid, whatever its state.
roused(q) == [state EXCEPT ![q] = IF @ = "SLEEPING" THEN "RUNNABLE" ELSE @]

kill(p, n) ==
  /\ Runs(p) /\ pc[p] = "user"
  /\ LET hit == {q \in Slot : pid[q] = n}
     IN IF hit = {}
        THEN /\ pc' = Return(p)
             /\ UNCHANGED <<state, killed>>
        ELSE /\ killed' = [killed EXCEPT ![Min(hit)] = TRUE]
             /\ state' = roused(Min(hit))
             /\ pc' = IF Min(hit) = p THEN [pc EXCEPT ![p] = "exit"] ELSE Return(p)
  /\ UNCHANGED <<pid, parent, chan, np, nextpid, cpu, scan, pages, sys>>

(***************************************************************************)
(* trap() for a timer interrupt.  It comes only in user space, since a     *)
(* system call runs with interrupts off (MSR_SFMASK in syscallinit()): a   *)
(* killed process exits, any other yields and is tested again before it is *)
(* back in user space.                                                     *)
(***************************************************************************)
yield(p) ==
  /\ Runs(p) /\ pc[p] = "user"
  /\ IF killed[p]
     THEN /\ pc' = [pc EXCEPT ![p] = "exit"]
          /\ UNCHANGED <<state, cpu>>
     ELSE /\ state' = [state EXCEPT ![p] = "RUNNABLE"]
          /\ sched(p)
          /\ pc' = [pc EXCEPT ![p] = "trap"]
  /\ UNCHANGED <<pid, parent, chan, killed, np, nextpid, scan, pages, sys>>

trap_return(p) ==
  /\ Runs(p) /\ pc[p] = "trap"
  /\ pc' = Return(p)
  /\ UNCHANGED <<state, pid, parent, chan, killed, np, nextpid, cpu, scan, pages, sys>>

(***************************************************************************)
(* scheduler(): go on with the pass over the table.  The chosen process    *)
(* comes out of sched() holding ptable.lock; if it had slept, sleep()      *)
(* clears its chan before the lock is released.                            *)
(***************************************************************************)
\* Mutants: the process is not marked RUNNING; the pass starts over after each
\* process.
dispatched_Not(q) == state
after_StartOver(q) == 1

dispatched(q) == [state EXCEPT ![q] = "RUNNING"]
after(q) == q + 1

scheduler(c) ==
  /\ sys = "up" /\ cpu[c] = None
  /\ LET ready == {q \in Slot : q >= scan[c] /\ state[q] = "RUNNABLE"}
     IN IF ready = {}
        THEN /\ scan' = [scan EXCEPT ![c] = 1]
             /\ UNCHANGED <<state, chan, cpu>>
        ELSE /\ cpu' = [cpu EXCEPT ![c] = Min(ready)]
             /\ state' = dispatched(Min(ready))
             /\ chan' = [chan EXCEPT ![Min(ready)] = None]
             /\ scan' = [scan EXCEPT ![c] = after(Min(ready))]
  /\ UNCHANGED <<pid, parent, killed, pc, np, nextpid, pages, sys>>

Step(p) ==
  \/ allocproc(p) \/ fork(p) \/ call_exit(p) \/ exit(p) \/ wait(p)
  \/ test_killed(p) \/ leave_loop(p) \/ trap_return(p)
  \/ \E ch \in Chan : sleep(p, ch)
  \/ \E n \in KillPid : kill(p, n)

Next ==
  \/ \E p \in Slot : Step(p) \/ yield(p)
  \/ \E c \in CPU : scheduler(c)
  \/ \E ch \in Chan : wakeup(ch)

Spec == Init /\ [][Next]_vars

---------------------------------------------------------------------------
(***************************************************************************)
(* Properties.                                                             *)
(***************************************************************************)
TypeOK ==
  /\ state \in [Slot -> ProcState]
  /\ pid \in [Slot -> Nat]
  /\ parent \in [Slot -> Slot \union {None}]
  /\ chan \in [Slot -> Slot \union Chan \union {None}]
  /\ killed \in [Slot -> BOOLEAN]
  /\ pc \in [Slot -> PC]
  /\ np \in [Slot -> Slot \union {None}]
  /\ nextpid \in Nat
  /\ cpu \in [CPU -> Slot \union {None}]
  /\ scan \in [CPU -> 1..(NPROC + 1)]
  /\ pages \in Nat
  /\ sys \in {"up", "panic"}

\* A process runs on one CPU at most, and RUNNING means exactly that some CPU
\* runs it: two CPUs on one kernel stack would corrupt it.
OneCPU ==
  /\ \A c \in CPU : cpu[c] # None => state[cpu[c]] = "RUNNING"
  /\ \A c, d \in CPU : cpu[c] = cpu[d] /\ cpu[c] # None => c = d
  /\ \A p \in Slot : state[p] = "RUNNING" => \E c \in CPU : cpu[c] = p

\* Nobody is an orphan: the parent of every process that can run or be reaped
\* is itself alive, because exit() hands its children to init before it dies.
ParentAlive ==
  \A p \in Slot \ {initproc} :
    state[p] \in Live \union {"ZOMBIE"} => parent[p] # None /\ state[parent[p]] \in Live

\* No exit is missed: a process asleep in wait() has no ZOMBIE child, whether
\* the child died while it was falling asleep or was inherited by init dead.
NoMissedExit ==
  \A p \in Slot : state[p] = "SLEEPING" /\ chan[p] = p =>
    \A q \in Slot : parent[q] = p => state[q] # "ZOMBIE"

\* wait() is interruptible: kill() and the test of p->killed both hold
\* ptable.lock, so a killed process is never left asleep in wait().
WaitSeesKill ==
  \A p \in Slot : killed[p] => ~(state[p] = "SLEEPING" /\ chan[p] = p)

\* A pid names one process, and a free slot has none: kill() and wait() cannot
\* mistake one process for another.
PidsUnique ==
  /\ \A p, q \in Slot : pid[p] = pid[q] /\ pid[p] # 0 => p = q
  /\ \A p \in Slot : state[p] = "UNUSED" <=> pid[p] = 0
  /\ \A p \in Slot : pid[p] < nextpid

\* kalloc() and kfree() balance over fork, exit and wait, in any order and with
\* any reparenting: a slot in use holds its stack, and once fork() is done with
\* it its address space, and nothing else is held.  (init's two pages came
\* before Memory was counted.)
Stacks == {p \in Slot : state[p] # "UNUSED"}
Spaces == {p \in Slot : state[p] \notin {"UNUSED", "EMBRYO"}}
PagesConserved == pages + Cardinality(Stacks) + Cardinality(Spaces) = Memory + 2

---------------------------------------------------------------------------
(***************************************************************************)
(* What makes the invariants inductive: init stays alive and is the root,  *)
(* a slot not yet filled in by fork() has no parent, and the slot that a   *)
(* fork() is filling in is an EMBRYO of that fork() alone.                 *)
(***************************************************************************)
Rooted ==
  /\ state[initproc] \in Live
  /\ parent[initproc] = None
  /\ \A p \in Slot : parent[p] # p

EmbryoOwned ==
  /\ \A p \in Slot : pc[p] = "fork" =>
       state[p] \in Live /\ np[p] # None /\ state[np[p]] = "EMBRYO"
  /\ \A p, q \in Slot : pc[p] = "fork" /\ pc[q] = "fork" /\ np[p] = np[q] => p = q
  /\ \A p \in Slot : state[p] \in {"UNUSED", "EMBRYO"} => parent[p] = None

---------------------------------------------------------------------------
(***************************************************************************)
(* What a comment of the code promises and the code does not keep.         *)
(***************************************************************************)
\* kill() says it wakes the process from sleep if necessary: then no killed
\* process is asleep in wait() or in a sleep loop that a kill interrupts.  (The
\* sleeps of exit() go on to their end, killed or not.)
KillWakes == \A p \in Slot : killed[p] /\ pc[p] # "exit" => state[p] # "SLEEPING"
===========================================================================
