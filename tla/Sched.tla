------------------------------- MODULE Sched -------------------------------
(***************************************************************************)
(* Inside the critical sections of ptable.lock: spin-locks, interrupts,    *)
(* the switch between a thread and its CPU's scheduler(), sleep(),         *)
(* wakeup(), and a sleep-lock built on them.                               *)
(*                                                                         *)
(* A context is a kernel thread or the scheduler() of a CPU.  Threads take *)
(* and release one sleep-lock and, with or without it, wait for a device   *)
(* as iderw() and sys_sleep() do.  Channels are named after the spin-lock  *)
(* that protects their condition: "lk" is the spin-lock in the sleep-lock, *)
(* "dev" is idelock or tickslock.                                          *)
(***************************************************************************)
EXTENDS Naturals, FiniteSets

CONSTANTS
  NPROC,     \* slots of the table; each holds a thread
  CPU        \* processors

ASSUME SchedConstants ==
  /\ NPROC \in Nat \ {0}
  /\ CPU \intersect (0..NPROC) = {}

Thread == 1..NPROC
Context == Thread \union CPU
Lock == {"ptable", "lk", "dev"}
None == 0

VARIABLES
  owner,     \* per spin-lock: the CPU in lk->cpu while lk->locked, or None
  spins,     \* CPUs between pushcli() and the xchg that succeeds
  ncli,      \* per CPU
  intena,    \* per CPU
  intr,      \* per CPU: FL_IF, whether interrupts are enabled
  cur,       \* per CPU: the context it executes
  scan,      \* per CPU: the slot that scheduler() looks at next
  skipped,   \* per CPU: scheduler()'s local
  pc,        \* per context
  tf,        \* per context: where the trap it is in returns to, or "none"
  lk,        \* per thread: the lock passed to sleep()
  saved,     \* per thread: sched()'s local intena
  state,     \* per thread: p->state
  chan,      \* per thread: p->chan, or "none"
  locked,    \* the sleep-lock: the thread in lk->pid while lk->locked, or None
  busy,      \* threads whose request the device has not finished
  sys        \* "up" or "panic"

flags == <<ncli, intena, intr>>
locals == <<scan, skipped, lk, saved>>
table == <<state, chan>>
objects == <<locked, busy>>
vars == <<owner, spins, flags, cur, locals, pc, tf, table, objects, sys>>

\* After fork() and mpmain(): threads wait in forkret(), CPUs start scheduler().
Init ==
  /\ owner = [l \in Lock |-> None]
  /\ spins = {}
  /\ ncli = [c \in CPU |-> 0]
  /\ intena = [c \in CPU |-> FALSE]
  /\ intr = [c \in CPU |-> FALSE]
  /\ cur = [c \in CPU |-> c]
  /\ scan = [c \in CPU |-> 1]
  /\ skipped = [c \in CPU |-> 0]
  /\ pc = [x \in Context |-> IF x \in CPU THEN "sti" ELSE "forkret"]
  /\ tf = [x \in Context |-> "none"]
  /\ lk = [t \in Thread |-> "lk"]
  /\ saved = [t \in Thread |-> FALSE]
  /\ state = [t \in Thread |-> "RUNNABLE"]
  /\ chan = [t \in Thread |-> "none"]
  /\ locked = None
  /\ busy = {}
  /\ sys = "up"

---------------------------------------------------------------------------
(***************************************************************************)
(* spinlock.c.  Which lock a context takes or gives up at a label, and     *)
(* where it goes from there.                                               *)
(***************************************************************************)
At(c, label) == sys = "up" /\ c \notin spins /\ pc[cur[c]] = label
Goto(c, label) == pc' = [pc EXCEPT ![cur[c]] = label]

panic == sys' = "panic" /\ UNCHANGED <<owner, spins, flags, cur, locals, pc, tf, table, objects>>

\* Mutant: sleep() keeps lk.
Acquires_KeepsLk ==
  [acquiresleep |-> <<"lk", "test">>,       releasesleep |-> <<"lk", "unlock">>,
   iderw        |-> <<"dev", "queue">>,     sleep        |-> <<"ptable", "sleeping">>,
   sleep_again  |-> <<"lk", "test">>,       sleep_dev    |-> <<"dev", "wait">>,
   wakeup       |-> <<"ptable", "wakeup1">>, yield       |-> <<"ptable", "yielding">>,
   ideintr      |-> <<"dev", "finish">>,    scheduler    |-> <<"ptable", "scan">>]

Acquires ==
  [acquiresleep |-> <<"lk", "test">>,       releasesleep |-> <<"lk", "unlock">>,
   iderw        |-> <<"dev", "queue">>,     sleep        |-> <<"ptable", "sleep_release">>,
   sleep_again  |-> <<"lk", "test">>,       sleep_dev    |-> <<"dev", "wait">>,
   wakeup       |-> <<"ptable", "wakeup1">>, yield       |-> <<"ptable", "yielding">>,
   ideintr      |-> <<"dev", "finish">>,    scheduler    |-> <<"ptable", "scan">>]

Releases(x) ==
  [test_done     |-> <<"lk", "held">>,
   wait_done     |-> <<"dev", IF locked = x THEN "releasesleep" ELSE "sysret">>,
   sleep_release |-> <<IF x \in Thread THEN lk[x] ELSE "lk", "sleeping">>,
   woken         |-> <<"ptable", IF x \in Thread /\ lk[x] = "dev" THEN "sleep_dev" ELSE "sleep_again">>,
   wakeup_done   |-> <<"ptable", IF tf[x] = "none" THEN "unlock_done" ELSE "ideintr_done">>,
   unlock_done   |-> <<"lk", "sysret">>,
   yielded       |-> <<"ptable", "iret">>,
   ideintr_done  |-> <<"dev", "trap">>,
   forkret       |-> <<"ptable", "sysret">>,
   scanned       |-> <<"ptable", "idle">>]

holding(c, l) == owner[l] = c

pushcli(c) ==
  /\ sys = "up" /\ c \notin spins /\ pc[cur[c]] \in DOMAIN Acquires
  /\ IF holding(c, Acquires[pc[cur[c]]][1])
     THEN panic
     ELSE /\ intena' = [intena EXCEPT ![c] = IF ncli[c] = 0 THEN intr[c] ELSE @]
          /\ ncli' = [ncli EXCEPT ![c] = @ + 1]
          /\ intr' = [intr EXCEPT ![c] = FALSE]
          /\ spins' = spins \union {c}
          /\ UNCHANGED <<owner, cur, locals, pc, tf, table, objects, sys>>

acquire(c) ==
  /\ sys = "up" /\ c \in spins
  /\ LET a == Acquires[pc[cur[c]]]
     IN /\ owner[a[1]] = None
        /\ owner' = [owner EXCEPT ![a[1]] = c]
        /\ Goto(c, a[2])
  /\ spins' = spins \ {c}
  /\ UNCHANGED <<flags, cur, locals, tf, table, objects, sys>>

popcli(c) ==
  /\ ncli' = [ncli EXCEPT ![c] = @ - 1]
  /\ intr' = [intr EXCEPT ![c] = ncli[c] = 1 /\ intena[c]]
  /\ UNCHANGED intena

release(c) ==
  /\ sys = "up" /\ c \notin spins /\ pc[cur[c]] \in DOMAIN Releases(cur[c])
  /\ LET r == Releases(cur[c])[pc[cur[c]]]
     IN IF ~holding(c, r[1]) \/ intr[c] \/ ncli[c] = 0
        THEN panic
        ELSE /\ owner' = [owner EXCEPT ![r[1]] = None]
             /\ popcli(c)
             /\ Goto(c, r[2])
             /\ UNCHANGED <<spins, cur, locals, tf, table, objects, sys>>

---------------------------------------------------------------------------
(***************************************************************************)
(* User space, system calls and interrupts.  A system call runs with       *)
(* interrupts off, syscallinit() having put FL_IF in MSR_SFMASK, and so    *)
(* does a trap, mkgate() making interrupt gates.                           *)
(***************************************************************************)
syscall(c) ==
  /\ At(c, "user")
  /\ \E l \in {"acquiresleep", "iderw"} : Goto(c, l)
  /\ intr' = [intr EXCEPT ![c] = FALSE]
  /\ UNCHANGED <<owner, spins, ncli, intena, cur, locals, tf, table, objects, sys>>

sysret(c) ==
  /\ At(c, "sysret")
  /\ Goto(c, "user")
  /\ intr' = [intr EXCEPT ![c] = TRUE]
  /\ UNCHANGED <<owner, spins, ncli, intena, cur, locals, tf, table, objects, sys>>

\* An interrupt of the device or of the timer; it ends a hlt().
interrupt(c) ==
  /\ sys = "up" /\ c \notin spins /\ intr[c]
  /\ tf' = [tf EXCEPT ![cur[c]] = IF pc[cur[c]] = "hlt" THEN "sti" ELSE pc[cur[c]]]
  /\ \E l \in {"ideintr", "trap"} : Goto(c, l)
  /\ skipped' = IF pc[cur[c]] = "hlt" THEN [skipped EXCEPT ![c] = 0] ELSE skipped
  /\ intr' = [intr EXCEPT ![c] = FALSE]
  /\ UNCHANGED <<owner, spins, ncli, intena, cur, scan, lk, saved, table, objects, sys>>

\* Mutant: the state is set before ptable.lock is taken.
trap_SetsState(c) ==
  /\ At(c, "trap")
  /\ \/ /\ cur[c] \in Thread /\ state[cur[c]] = "RUNNING" /\ Goto(c, "yield")
        /\ state' = [state EXCEPT ![cur[c]] = "RUNNABLE"]
     \/ Goto(c, "iret") /\ UNCHANGED state
  /\ UNCHANGED <<owner, spins, flags, cur, locals, tf, chan, objects, sys>>

\* The end of trap(): a thread that the timer interrupted yields.
trap(c) ==
  /\ At(c, "trap")
  /\ \/ cur[c] \in Thread /\ state[cur[c]] = "RUNNING" /\ Goto(c, "yield")
     \/ Goto(c, "iret")
  /\ UNCHANGED <<owner, spins, flags, cur, locals, tf, table, objects, sys>>

iret(c) ==
  /\ At(c, "iret")
  /\ Goto(c, tf[cur[c]])
  /\ tf' = [tf EXCEPT ![cur[c]] = "none"]
  /\ intr' = [intr EXCEPT ![c] = TRUE]
  /\ UNCHANGED <<owner, spins, ncli, intena, cur, locals, table, objects, sys>>

---------------------------------------------------------------------------
(***************************************************************************)
(* The sleep-lock and the device, under their spin-locks.                  *)
(***************************************************************************)
\* The loop of acquiresleep().
test(c) ==
  /\ At(c, "test")
  /\ IF locked # None
     THEN Goto(c, "sleep") /\ lk' = [lk EXCEPT ![cur[c]] = "lk"] /\ UNCHANGED locked
     ELSE Goto(c, "test_done") /\ locked' = cur[c] /\ UNCHANGED lk
  /\ UNCHANGED <<owner, spins, flags, cur, scan, skipped, saved, tf, table, busy, sys>>

\* The owner of the sleep-lock does disk I/O under it, or not.
held(c) ==
  /\ At(c, "held")
  /\ \E l \in {"iderw", "releasesleep"} : Goto(c, l)
  /\ UNCHANGED <<owner, spins, flags, cur, locals, tf, table, objects, sys>>

unlock(c) ==
  /\ At(c, "unlock")
  /\ locked' = None
  /\ Goto(c, "wakeup")
  /\ UNCHANGED <<owner, spins, flags, cur, locals, tf, table, busy, sys>>

\* iderw() appends the request and waits until it is served.
queue(c) ==
  /\ At(c, "queue")
  /\ busy' = busy \union {cur[c]}
  /\ Goto(c, "wait")
  /\ UNCHANGED <<owner, spins, flags, cur, locals, tf, table, locked, sys>>

wait(c) ==
  /\ At(c, "wait")
  /\ IF cur[c] \in busy
     THEN Goto(c, "sleep") /\ lk' = [lk EXCEPT ![cur[c]] = "dev"]
     ELSE Goto(c, "wait_done") /\ UNCHANGED lk
  /\ UNCHANGED <<owner, spins, flags, cur, scan, skipped, saved, tf, table, objects, sys>>

\* ideintr() finishes a request, or returns at once when there is none.
finish(c) ==
  /\ At(c, "finish")
  /\ IF busy = {}
     THEN Goto(c, "ideintr_done") /\ UNCHANGED busy
     ELSE Goto(c, "wakeup") /\ \E t \in busy : busy' = busy \ {t}
  /\ UNCHANGED <<owner, spins, flags, cur, locals, tf, table, locked, sys>>

---------------------------------------------------------------------------
(***************************************************************************)
(* proc.c, under ptable.lock.  A thread that has called sched() stays at   *)
(* "resumed" until scheduler() switches to it.                             *)
(***************************************************************************)
sleep(c) ==
  /\ At(c, "sleeping")
  /\ chan' = [chan EXCEPT ![cur[c]] = lk[cur[c]]]
  /\ state' = [state EXCEPT ![cur[c]] = "SLEEPING"]
  /\ Goto(c, "sched")
  /\ UNCHANGED <<owner, spins, flags, cur, locals, tf, objects, sys>>

yield(c) ==
  /\ At(c, "yielding")
  /\ state' = [state EXCEPT ![cur[c]] = "RUNNABLE"]
  /\ Goto(c, "sched")
  /\ UNCHANGED <<owner, spins, flags, cur, locals, tf, chan, objects, sys>>

sched(c) ==
  /\ At(c, "sched")
  /\ IF ~holding(c, "ptable") \/ ncli[c] # 1 \/ state[cur[c]] = "RUNNING" \/ intr[c]
     THEN panic
     ELSE /\ saved' = [saved EXCEPT ![cur[c]] = intena[c]]
          /\ Goto(c, "resumed")
          /\ cur' = [cur EXCEPT ![c] = c]
          /\ UNCHANGED <<owner, spins, flags, scan, skipped, lk, tf, table, objects, sys>>

\* Mutant: cpu->intena is not restored.
resumed_OtherIntena(c) ==
  /\ At(c, "resumed")
  /\ chan' = [chan EXCEPT ![cur[c]] = "none"]
  /\ Goto(c, IF chan[cur[c]] = "none" THEN "yielded" ELSE "woken")
  /\ UNCHANGED <<owner, spins, flags, cur, locals, tf, state, objects, sys>>

\* The rest of sched(), and sleep() up to the release of ptable.lock.
resumed(c) ==
  /\ At(c, "resumed")
  /\ intena' = [intena EXCEPT ![c] = saved[cur[c]]]
  /\ chan' = [chan EXCEPT ![cur[c]] = "none"]
  /\ Goto(c, IF chan[cur[c]] = "none" THEN "yielded" ELSE "woken")
  /\ UNCHANGED <<owner, spins, ncli, intr, cur, locals, tf, state, objects, sys>>

\* Mutant: only one of the sleepers is woken.
wakeup1_One(c) ==
  /\ At(c, "wakeup1")
  /\ LET ch == IF tf[cur[c]] = "none" THEN "lk" ELSE "dev"
         sleepers == {t \in Thread : state[t] = "SLEEPING" /\ chan[t] = ch}
     IN state' = [t \in Thread |->
                    IF t \in sleepers /\ (\A u \in sleepers : t <= u) THEN "RUNNABLE" ELSE state[t]]
  /\ Goto(c, "wakeup_done")
  /\ UNCHANGED <<owner, spins, flags, cur, locals, tf, chan, objects, sys>>

wakeup1(c) ==
  /\ At(c, "wakeup1")
  /\ LET ch == IF tf[cur[c]] = "none" THEN "lk" ELSE "dev"
     IN state' = [t \in Thread |->
                    IF state[t] = "SLEEPING" /\ chan[t] = ch THEN "RUNNABLE" ELSE state[t]]
  /\ Goto(c, "wakeup_done")
  /\ UNCHANGED <<owner, spins, flags, cur, locals, tf, chan, objects, sys>>

sti(c) ==
  /\ At(c, "sti")
  /\ intr' = [intr EXCEPT ![c] = TRUE]
  /\ Goto(c, "scheduler")
  /\ UNCHANGED <<owner, spins, ncli, intena, cur, locals, tf, table, objects, sys>>

\* Mutant: skipped is not reset when a process has run.
swtch_NoReset(c) ==
  /\ At(c, "scan")
  /\ LET ready == {t \in Thread : t >= scan[c] /\ state[t] = "RUNNABLE"}
     IN IF ready = {}
        THEN /\ skipped' = [skipped EXCEPT ![c] = @ + NPROC + 1 - scan[c]]
             /\ scan' = [scan EXCEPT ![c] = 1]
             /\ Goto(c, "scanned")
             /\ UNCHANGED <<cur, state>>
        ELSE \E t \in ready :
             /\ \A u \in ready : t <= u
             /\ scan' = [scan EXCEPT ![c] = t + 1]
             /\ state' = [state EXCEPT ![t] = "RUNNING"]
             /\ cur' = [cur EXCEPT ![c] = t]
             /\ UNCHANGED <<pc, skipped>>
  /\ UNCHANGED <<owner, spins, flags, lk, saved, tf, chan, objects, sys>>

\* On to the next RUNNABLE slot, or to the end of the table.
swtch(c) ==
  /\ At(c, "scan")
  /\ LET ready == {t \in Thread : t >= scan[c] /\ state[t] = "RUNNABLE"}
     IN IF ready = {}
        THEN /\ skipped' = [skipped EXCEPT ![c] = @ + NPROC + 1 - scan[c]]
             /\ scan' = [scan EXCEPT ![c] = 1]
             /\ Goto(c, "scanned")
             /\ UNCHANGED <<cur, state>>
        ELSE \E t \in ready :
             /\ \A u \in ready : t <= u
             /\ skipped' = [skipped EXCEPT ![c] = 0]
             /\ scan' = [scan EXCEPT ![c] = t + 1]
             /\ state' = [state EXCEPT ![t] = "RUNNING"]
             /\ cur' = [cur EXCEPT ![c] = t]
             /\ UNCHANGED pc
  /\ UNCHANGED <<owner, spins, flags, lk, saved, tf, chan, objects, sys>>

idle(c) ==
  /\ At(c, "idle")
  /\ Goto(c, IF skipped[c] > NPROC THEN "hlt" ELSE "sti")
  /\ UNCHANGED <<owner, spins, flags, cur, locals, tf, table, objects, sys>>

---------------------------------------------------------------------------
Step(c) ==
  \/ pushcli(c) \/ acquire(c) \/ release(c)
  \/ sysret(c) \/ trap(c) \/ iret(c)
  \/ test(c) \/ held(c) \/ unlock(c) \/ queue(c) \/ wait(c) \/ finish(c)
  \/ sleep(c) \/ yield(c) \/ sched(c) \/ resumed(c) \/ wakeup1(c)
  \/ sti(c) \/ swtch(c) \/ idle(c)

Next == \E c \in CPU : syscall(c) \/ interrupt(c) \/ Step(c)

Spec == Init /\ [][Next]_vars

---------------------------------------------------------------------------
Labels ==
  DOMAIN Acquires \union DOMAIN Releases(1) \union
  {"user", "sysret", "trap", "iret", "test", "held", "unlock", "queue", "wait", "finish",
   "sleeping", "yielding", "sched", "resumed", "wakeup1", "sti", "scan", "idle", "hlt"}

\* The variables keep the types of the C declarations; skipped stays below
\* twice the size of the table.
TypeOK ==
  /\ owner \in [Lock -> CPU \union {None}]
  /\ spins \subseteq CPU
  /\ ncli \in [CPU -> 0..3]
  /\ intena \in [CPU -> BOOLEAN] /\ intr \in [CPU -> BOOLEAN]
  /\ \A c \in CPU : cur[c] \in Thread \union {c}
  /\ scan \in [CPU -> 1..(NPROC + 1)]
  /\ skipped \in [CPU -> 0..(2 * NPROC)]
  /\ pc \in [Context -> Labels]
  /\ tf \in [Context -> Labels \union {"none"}]
  /\ lk \in [Thread -> {"lk", "dev"}]
  /\ saved \in [Thread -> BOOLEAN]
  /\ state \in [Thread -> {"RUNNABLE", "RUNNING", "SLEEPING"}]
  /\ chan \in [Thread -> {"none", "lk", "dev"}]
  /\ locked \in Thread \union {None}
  /\ busy \subseteq Thread
  /\ sys \in {"up", "panic"}

\* None of the panics of acquire(), release(), popcli() and sched() is
\* reached: no CPU takes a lock twice, an interrupt handler included, none
\* releases what it does not hold, although ptable.lock is taken by one
\* context and released by another, and no thread switches with a second lock.
NoPanic == sys = "up"

\* No two CPUs execute the same thread: scheduler() on one CPU cannot switch
\* to a thread that is on its way through sched() on another.
OneStack == \A c, d \in CPU : cur[c] = cur[d] => c = d

\* A thread that sleeps has somebody to wake it: the sleep-lock is taken, its
\* request is not finished, or the one who changed that is on its way to
\* wakeup1().  sleep() takes ptable.lock before it releases lk for this.
NoLostWakeup ==
  \A t \in Thread : state[t] = "SLEEPING" =>
    \/ chan[t] = "lk" /\ locked # None
    \/ chan[t] = "dev" /\ t \in busy
    \/ \E c \in CPU : /\ pc[cur[c]] \in {"wakeup", "wakeup1"}
                      /\ (tf[cur[c]] = "none") = (chan[t] = "lk")

\* A system call is not interrupted: the flags that sched() saves and restores
\* keep interrupts off from the entry of the call, whatever CPU it resumes on.
\* Only forkret(), which releases scheduler()'s lock, lets interrupts in.
SyscallsUninterrupted ==
  \A c \in CPU : cur[c] \in Thread /\ intr[c] => pc[cur[c]] \in {"user", "sysret"}

\* A CPU halts only with interrupts on: after a pass in which a thread ran,
\* scheduler() has that thread's cpu->intena and interrupts may be off.
HaltsInterruptible == \A c \in CPU : pc[c] = "hlt" => intr[c]
===========================================================================
