------------------------------ MODULE VmProofs ------------------------------
(***************************************************************************)
(* No CPU runs on a page table that has been freed, for any number of      *)
(* processes, CPUs and pages.  What kalloc() and the page-table code       *)
(* return plays no part in it: the argument is about who may free a table, *)
(* and when.                                                               *)
(***************************************************************************)
EXTENDS Vm, WellFoundedInduction, TLAPS

\* The loops over the table stop at a slot that satisfies their test.
LEMMA MinOfSlots ==
  ASSUME NEW S, S \subseteq Slot, S # {}
  PROVE  Min(S) \in S
<1>1. S \subseteq Nat
  BY VmConstants DEF Slot
<1> DEFINE R == {ss \in Nat \X Nat : ss[1] < ss[2]}
<1>2. IsWellFoundedOn(R, Nat)
  BY NatLessThanWellFounded, Zenon DEF OpToRel
<1>3. PICK x \in S : \A y \in S : ~(<<y, x>> \in R)
  BY <1>1, <1>2, WFMin, Zenon
<1>4. ASSUME NEW y \in S PROVE x <= y
  <2>1. x \in Nat /\ y \in Nat /\ <<y, x>> \in Nat \X Nat
    BY <1>1
  <2>2. ~(y < x)
    BY <1>3, <2>1
  <2> QED BY <2>1, <2>2
<1> QED BY <1>4 DEF Min

USE ZenonT(5), SMTT(30)

\* Each is a function on its set, whatever its values.
Functions ==
  /\ state = [p \in Slot |-> state[p]]
  /\ pgdir = [p \in Slot |-> pgdir[p]]
  /\ cpu \in [CPU -> Slot \union {0}]
  /\ cr3 = [c \in CPU |-> cr3[c]]

\* A process that a CPU runs is RUNNING, on this CPU alone.
Runs ==
  \A c \in CPU : cpu[c] # 0 => /\ state[cpu[c]] = "RUNNING"
                               /\ \A d \in CPU : cpu[d] = cpu[c] => d = c

\* A CPU uses the table of the process it runs.  scheduler(), from sched() to
\* switchkvm(), uses the table of the process it comes from, which has left its
\* CPU and stays where it is as long as ptable.lock is held.
Loaded ==
  \A c \in CPU :
    /\ cpu[c] # 0 => cr3[c] = pgdir[cpu[c]]
    /\ cpu[c] = 0 /\ cr3[c] # 0 =>
         lock = c /\ \E p \in Slot : state[p] \notin {"UNUSED", "RUNNING"} /\ cr3[c] = pgdir[p]

\* The inductive invariant.
VInv == Functions /\ Runs /\ Loaded

USE DEF VInv, procs, cpus

\* The kernel page table is loaded first.
LEMMA Starts == Init => VInv
BY VmConstants DEF Init, Functions, Runs, Loaded, Slot, initproc

\* Steps that leave processes, CPUs and tables in their places.
LEMMA SameTables ==
  ASSUME VInv, UNCHANGED <<pgdir, state, cpu, cr3, lock>>
  PROVE  VInv'
BY DEF Functions, Runs, Loaded

\* Stores, sbrk() and exec() but for its commit change no table in use.
LEMMA KeepsTables ==
  ASSUME VInv, NEW c \in CPU,
         \/ store(c) \/ sys_sbrk(c) \/ exec_alloc(c) \/ exec_bad(c) \/ exec_free(c)
  PROVE  VInv'
<1>1. CASE store(c)
  BY <1>1, SameTables DEF store
<1>2. CASE sys_sbrk(c)
  <2>1. PICK n : growproc(c, n)
    BY <1>2 DEF sys_sbrk
  <2>2. UNCHANGED <<pgdir, state, cpu, lock>> /\ cpu[c] # 0
    BY <2>1 DEF growproc, Then, Call, User
  <2>3. cr3' = cr3 \/ cr3' = [cr3 EXCEPT ![c] = pgdir[cpu[c]]]
    BY <2>1, <2>2 DEF growproc, Then, switchuvm
  <2>4. cr3' = cr3
    BY <2>2, <2>3 DEF Functions, Loaded
  <2>5. QED
    BY <2>2, <2>4, SameTables
<1>3. CASE exec_alloc(c)
  BY <1>3, SameTables DEF exec_alloc, Then
<1>4. CASE exec_bad(c)
  BY <1>4, SameTables DEF exec_bad, Then
<1>5. CASE exec_free(c)
  BY <1>5, SameTables DEF exec_free, Then
<1>6. QED
  BY <1>1, <1>2, <1>3, <1>4, <1>5

\* fork() gives a table to a slot that was free.
LEMMA forkKeeps == ASSUME VInv, NEW c \in CPU, fork(c) PROVE VInv'
<1> DEFINE Unused == {q \in Slot : state[q] = "UNUSED"}
           q == Min(Unused)
<1>1. UNCHANGED cpus
  BY DEF fork, Then
<1>2. CASE UNCHANGED procs
  BY <1>1, <1>2, SameTables
<1>3. CASE ~UNCHANGED procs
  <2>1. /\ Unused # {}
        /\ state' = [state EXCEPT ![q] = "RUNNABLE"]
        /\ \E x : pgdir' = [pgdir EXCEPT ![q] = x]
    BY <1>3 DEF fork, Then
  <2>2. q \in Slot /\ state[q] = "UNUSED"
    BY <2>1, MinOfSlots
  <2> HIDE DEF q
  <2>3. Functions' /\ Runs'
    BY <1>1, <2>1, <2>2 DEF Functions, Runs
  <2>4. \A p \in Slot \ {q} : state'[p] = state[p] /\ pgdir'[p] = pgdir[p]
    BY <2>1, Zenon DEF Functions
  <2>5. ASSUME NEW d \in CPU, cpu[d] # 0 PROVE cpu[d] \in Slot \ {q}
    BY <2>2, <2>5, Zenon DEF Functions, Runs
  <2>6. ASSUME NEW p \in Slot, state[p] # "UNUSED" PROVE p # q
    BY <2>2, <2>6, Zenon
  <2>7. UNCHANGED <<cpu, cr3, lock>>
    BY <1>1, Zenon
  <2>8. ASSUME NEW d \in CPU
        PROVE  /\ cpu'[d] # 0 => cr3'[d] = pgdir'[cpu'[d]]
               /\ cpu'[d] = 0 /\ cr3'[d] # 0 =>
                    lock' = d /\ \E p \in Slot : state'[p] \notin {"UNUSED", "RUNNING"} /\ cr3'[d] = pgdir'[p]
    <3>1. CASE cpu[d] # 0
      <4>1. cr3[d] = pgdir[cpu[d]] /\ pgdir'[cpu[d]] = pgdir[cpu[d]]
        BY <2>4, <2>5, <3>1, Zenon DEF Loaded
      <4>2. QED
        BY <2>7, <3>1, <4>1, Zenon
    <3>2. CASE cpu[d] = 0 /\ cr3[d] # 0
      <4>1. PICK p \in Slot : state[p] \notin {"UNUSED", "RUNNING"} /\ cr3[d] = pgdir[p] /\ lock = d
        BY <3>2, Zenon DEF Loaded
      <4>2. state'[p] = state[p] /\ pgdir'[p] = pgdir[p]
        BY <2>4, <2>6, <4>1, Zenon
      <4>3. QED
        BY <2>7, <3>2, <4>1, <4>2, Zenon
    <3>3. CASE cpu[d] = 0 /\ cr3[d] = 0
      BY <2>7, <3>3, Zenon
    <3>4. QED
      BY <3>1, <3>2, <3>3, Zenon
  <2>9. QED
    BY <2>3, <2>8, Zenon DEF Loaded
<1>4. QED
  BY <1>2, <1>3

\* exec() replaces the table of the process that its CPU runs, and no scheduler()
\* has that one loaded.
LEMMA execKeeps == ASSUME VInv, NEW c \in CPU, exec_commit(c) PROVE VInv'
<1>1. UNCHANGED <<state, cpu, lock>> /\ cpu[c] \in Slot /\ cpu[c] # 0
  BY DEF exec_commit, Then, Functions
<1>2. CASE UNCHANGED procs
  <2>1. cr3' = cr3 \/ cr3' = [cr3 EXCEPT ![c] = pgdir'[cpu[c]]]
    BY DEF exec_commit, Then, switchuvm
  <2>2. cr3' = cr3
    BY <1>1, <1>2, <2>1 DEF Functions, Loaded
  <2>3. QED
    BY <1>1, <1>2, <2>2, SameTables
<1>3. CASE ~UNCHANGED procs
  <2>1. PICK x : pgdir' = [pgdir EXCEPT ![cpu[c]] = x] /\ cr3' = [cr3 EXCEPT ![c] = pgdir'[cpu[c]]]
    BY <1>3 DEF exec_commit, Then, switchuvm
  <2>2. Functions' /\ Runs'
    BY <1>1, <2>1 DEF Functions, Runs
  <2>3. cr3'[c] = pgdir'[cpu[c]] /\ \A d \in CPU \ {c} : cr3'[d] = cr3[d] /\ cpu[d] # cpu[c]
    BY <1>1, <2>1 DEF Functions, Runs
  <2>4. \A p \in Slot : p # cpu[c] => pgdir'[p] = pgdir[p]
    BY <2>1 DEF Functions
  <2>5. state[cpu[c]] = "RUNNING" /\ \A d \in CPU : cpu[d] \in Slot \union {0}
    BY <1>1 DEF Functions, Runs
  <2>6. ASSUME NEW d \in CPU, cpu[d] # 0 PROVE cr3'[d] = pgdir'[cpu[d]]
    <3>1. CASE d = c
      BY <2>3, <3>1, Zenon
    <3>2. CASE d # c
      <4>1. cr3'[d] = cr3[d] /\ pgdir'[cpu[d]] = pgdir[cpu[d]]
        BY <2>3, <2>4, <2>5, <2>6, <3>2, Zenon
      <4>2. QED
        BY <2>6, <4>1, Zenon DEF Loaded
    <3>3. QED
      BY <3>1, <3>2
  <2>7. ASSUME NEW d \in CPU, cpu[d] = 0, cr3'[d] # 0
        PROVE  lock = d /\ \E p \in Slot : state[p] \notin {"UNUSED", "RUNNING"} /\ cr3'[d] = pgdir'[p]
    <3>1. d # c /\ cr3'[d] = cr3[d]
      BY <1>1, <2>3, <2>7, Zenon
    <3>2. PICK p \in Slot : state[p] \notin {"UNUSED", "RUNNING"} /\ cr3[d] = pgdir[p] /\ lock = d
      BY <2>7, <3>1, Zenon DEF Loaded
    <3>3. pgdir'[p] = pgdir[p]
      BY <2>4, <2>5, <3>2, Zenon
    <3>4. QED
      BY <3>1, <3>2, <3>3, Zenon
  <2>8. UNCHANGED <<state, cpu, lock>>
    BY <1>1
  <2>9. Loaded'
    BY <2>6, <2>7, <2>8, Zenon DEF Loaded
  <2>10. QED
    BY <2>2, <2>9
<1>4. QED
  BY <1>2, <1>3

\* exit(), yield() and the sleep() of wait(): the process leaves its CPU to a
\* scheduler() that has its table and ptable.lock.
LEMMA LeavesKeep ==
  ASSUME VInv, NEW c \in CPU, exit(c) \/ yield(c) \/ wait_sleep(c)
  PROVE  VInv'
<1>1. /\ cpu[c] # 0 /\ (lock = None \/ lock = c)
      /\ cpu' = [cpu EXCEPT ![c] = 0] /\ lock' = c /\ UNCHANGED <<cr3, pgdir>>
  BY DEF exit, yield, wait_sleep, sched, Unlocked, InWait, User
<1>2. cpu[c] \in Slot /\ state[cpu[c]] = "RUNNING"
  BY <1>1 DEF Functions, Runs
<1>3. /\ state' = [p \in Slot |-> state'[p]]
      /\ state'[cpu[c]] \notin {"UNUSED", "RUNNING"}
      /\ \A p \in Slot \ {cpu[c]} : state'[p] = state[p] \/ (state[p] = "SLEEPING" /\ state'[p] = "RUNNABLE")
  BY <1>2 DEF Functions, exit, yield, wait_sleep, wakeup1
<1>4. Functions' /\ Runs'
  <2>1. Functions'
    BY <1>1, <1>3, Zenon DEF Functions
  <2>2. cpu'[c] = 0 /\ \A d \in CPU \ {c} : cpu'[d] = cpu[d]
    BY <1>1, Zenon DEF Functions
  <2>3. ASSUME NEW d \in CPU, cpu'[d] # 0
        PROVE  state'[cpu'[d]] = "RUNNING" /\ \A e \in CPU : cpu'[e] = cpu'[d] => e = d
    <3>1. d # c /\ cpu'[d] = cpu[d] /\ cpu[d] \in Slot \ {cpu[c]} /\ state[cpu[d]] = "RUNNING"
      BY <1>1, <1>2, <2>2, <2>3, Zenon DEF Functions, Runs
    <3>2. state'[cpu[d]] = "RUNNING"
      BY <1>3, <3>1, Zenon
    <3>3. \A e \in CPU : cpu'[e] = cpu'[d] => e = d
      BY <2>2, <2>3, <3>1, Zenon DEF Runs
    <3>4. QED
      BY <3>1, <3>2, <3>3, Zenon
  <2>4. QED
    BY <2>1, <2>3, Zenon DEF Runs
<1>5. cpu'[c] = 0 /\ cr3[c] = pgdir[cpu[c]] /\ \A d \in CPU \ {c} : cpu'[d] = cpu[d]
  BY <1>1 DEF Functions, Loaded
<1>6. \A d \in CPU \ {c} : cpu[d] = 0 => cr3[d] = 0
  BY <1>1, VmConstants DEF Loaded
<1>7. Loaded'
  BY <1>1, <1>2, <1>3, <1>5, <1>6 DEF Loaded
<1>8. QED
  BY <1>4, <1>7

\* wait() frees the table of a zombie, with ptable.lock held: no CPU runs the
\* zombie, and no scheduler() is on its way from it.
LEMMA waitKeeps ==
  ASSUME VInv, NEW c \in CPU, wait_reap(c) \/ wait_fails(c)
  PROVE  VInv'
<1> DEFINE Zombies == {z \in Slot : parent[z] = cpu[c] /\ state[z] = "ZOMBIE"}
           q == Min(Zombies)
<1>1. cpu[c] # 0 /\ (lock = None \/ lock = c) /\ UNCHANGED <<pgdir, cpu, cr3>>
  BY DEF wait_reap, wait_fails, InWait, User, Then
<1>2. \A d \in CPU : cpu[d] = 0 => cr3[d] = 0
  BY <1>1, VmConstants DEF Loaded
<1>3. state' = state \/ (Zombies # {} /\ state' = [state EXCEPT ![q] = "UNUSED"])
  BY DEF wait_reap, wait_fails, Then
<1>4. Zombies # {} => q \in Slot /\ state[q] = "ZOMBIE"
  BY MinOfSlots
<1> HIDE DEF q, Zombies
<1>5. Functions' /\ Runs'
  BY <1>1, <1>3, <1>4 DEF Functions, Runs
<1>6. Loaded'
  BY <1>1, <1>2, <1>3, <1>4 DEF Functions, Loaded
<1>7. QED
  BY <1>5, <1>6

\* kill() wakes a process that has no CPU.
LEMMA killKeeps == ASSUME VInv, NEW p \in Slot, kill(p) PROVE VInv'
<1>1. /\ state[p] = "SLEEPING" /\ state' = [state EXCEPT ![p] = "RUNNABLE"]
      /\ UNCHANGED <<pgdir, cpu, cr3, lock>>
  BY DEF kill
<1>2. Functions' /\ Runs'
  BY <1>1 DEF Functions, Runs
<1>3. Loaded'
  BY <1>1 DEF Functions, Loaded
<1>4. QED
  BY <1>2, <1>3

\* scheduler() starts a process on a CPU that uses kpml4.
LEMMA schedulerKeeps ==
  ASSUME VInv, NEW c \in CPU,
         scheduler_acquire(c) \/ scheduler_run(c) \/ switchkvm(c) \/ scheduler_release(c)
  PROVE  VInv'
<1>1. CASE scheduler_acquire(c)
  <2>1. lock = None /\ UNCHANGED <<state, pgdir, cpu, cr3>>
    BY <1>1, Zenon DEF scheduler_acquire
  <2>2. \A d \in CPU : None # d
    BY VmConstants, Zenon
  <2>3. Functions' /\ Runs'
    BY <2>1, Zenon DEF Functions, Runs
  <2>4. \A d \in CPU : cpu[d] = 0 => cr3[d] = 0
    BY <2>1, <2>2, Zenon DEF Loaded
  <2>5. Loaded'
    BY <2>1, <2>4, Zenon DEF Loaded
  <2>6. QED
    BY <2>3, <2>5
<1>2. CASE scheduler_run(c)
  <2>1. PICK p \in Slot :
          /\ lock = c /\ cpu[c] = 0 /\ cr3[c] = 0 /\ state[p] = "RUNNABLE"
          /\ state' = [state EXCEPT ![p] = "RUNNING"] /\ cpu' = [cpu EXCEPT ![c] = p]
          /\ pgdir' = pgdir /\ cr3' = [cr3 EXCEPT ![c] = pgdir[p]]
    BY <1>2 DEF scheduler_run, Scheduling, switchuvm
  <2>2. p # 0
    BY DEF Slot
  <2>3. Functions' /\ Runs'
    BY <2>1, <2>2 DEF Functions, Runs
  <2>4. Loaded'
    BY <2>1, <2>2 DEF Functions, Runs, Loaded
  <2>5. QED
    BY <2>3, <2>4
<1>3. CASE switchkvm(c)
  BY <1>3 DEF switchkvm, Scheduling, Functions, Runs, Loaded
<1>4. CASE scheduler_release(c)
  BY <1>4 DEF scheduler_release, Scheduling, Functions, Runs, Loaded
<1>5. QED
  BY <1>1, <1>2, <1>3, <1>4

\* Every step keeps the invariant.
LEMMA Steps == VInv /\ [Next]_vars => VInv'
<1>1. SUFFICES ASSUME VInv, [Next]_vars PROVE VInv'
  OBVIOUS
<1>2. CASE UNCHANGED vars
  BY <1>1, <1>2, SameTables DEF vars
<1>3. CASE panicked
  BY <1>1, <1>3, SameTables DEF panicked, vars
<1>4. ASSUME NEW c \in CPU,
             \/ store(c) \/ sys_sbrk(c) \/ fork(c) \/ exit(c) \/ yield(c)
             \/ exec_alloc(c) \/ exec_bad(c) \/ exec_commit(c) \/ exec_free(c)
             \/ wait_reap(c) \/ wait_fails(c) \/ wait_sleep(c)
             \/ scheduler_acquire(c) \/ scheduler_run(c) \/ switchkvm(c) \/ scheduler_release(c)
      PROVE VInv'
  BY <1>1, <1>4, KeepsTables, forkKeeps, execKeeps, LeavesKeep, waitKeeps, schedulerKeeps
<1>5. QED
  BY <1>1, <1>2, <1>3, <1>4, killKeeps DEF Next

\* The invariant of tables and CPUs.
THEOREM TablesInvariant == Spec => []VInv
BY Starts, Steps, PTL DEF Spec

\* No CPU runs on a page table that has been freed.
THEOREM LoadedTableIsLive == Spec => []LoadedTableLives
<1>1. ASSUME VInv PROVE LoadedTableLives
  <2>1. ASSUME NEW c \in CPU, cr3[c] # 0 PROVE \E p \in Slot : state[p] # "UNUSED" /\ cr3[c] = pgdir[p]
    <3>1. CASE cpu[c] # 0
      BY <1>1, <2>1, <3>1 DEF Functions, Runs, Loaded
    <3>2. CASE cpu[c] = 0
      BY <1>1, <2>1, <3>2 DEF Loaded
    <3>3. QED
      BY <3>1, <3>2
  <2>2. QED
    BY <2>1 DEF LoadedTableLives, Live
<1>2. QED
  BY <1>1, TablesInvariant, PTL
=============================================================================
