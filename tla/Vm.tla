-------------------------------- MODULE Vm --------------------------------
(***************************************************************************)
(* Physical pages and address spaces (kalloc.c, vm.c, exec.c, and what     *)
(* fork, wait, exit, sbrk and the scheduler do with them in proc.c).       *)
(*                                                                         *)
(* A page table has two levels: a root (pml4) of FANOUT tables of FANOUT   *)
(* entries; walkpgdir(), freevm() and setupkvm() treat the two levels in   *)
(* between as they do the tables.  Sizes are in units of which a page has  *)
(* PGSIZE, addresses of pages are page numbers.  A page of the kernel is   *)
(* a number from 1 on, 0 is a null pointer or an entry without PTE_P.      *)
(*                                                                         *)
(* A process touches no page table but its own, so a call is a step, cut   *)
(* where exec() reads the disk and where ptable.lock changes hands.        *)
(***************************************************************************)
EXTENDS Integers, FiniteSets, SequencesExt

CONSTANTS
  NPROC, CPU,
  PHYSPAGES,   \* pages left when the kernel has its own
  FANOUT, PGSIZE,
  KERNBASE,    \* end of user addresses, in units
  ImageEnd,    \* where the programs on the disk end, in units
  Change,      \* arguments of sbrk(), in units
  Mark,        \* what programs write to their pages
  Touched,     \* the pages they write to
  MaxCalls,    \* bound on calls of fork(), exec() and sbrk()
  None

ASSUME VmConstants ==
  /\ NPROC \in Nat \ {0} /\ PHYSPAGES \in Nat /\ FANOUT \in Nat \ {0} /\ PGSIZE \in Nat \ {0}
  /\ KERNBASE <= FANOUT * FANOUT * PGSIZE
  /\ ImageEnd \subseteq Nat /\ Change \subseteq Int
  /\ None \notin CPU

Slot == 1..NPROC
initproc == 1
Page == 1..PHYSPAGES
Index == 0..(FANOUT - 1)

NoTables == [i \in Index |-> 0]
NotPresent == [pa |-> 0, u |-> FALSE]
NoPages == [i \in Index |-> NotPresent]

VARIABLES
  mem,      \* free: kmem.freelist; pd, pt, data: what a page holds as a root,
            \* as a table and for a user; sys: "up" or the message of a panic
  pgdir, sz, kstack, state, parent,   \* struct proc
  pc,       \* per process: "user", "wait", "exec" or "freevm"
  new,      \* per process: exec()'s locals: pgdir and sz, later oldpgdir; or None
  cpu,      \* per CPU: the process it runs, or 0
  cr3,      \* per CPU: the root it uses, or 0 for kpml4
  lock,     \* ptable.lock: the CPU whose scheduler() holds it, or None
  calls     \* calls so far

procs == <<pgdir, sz, kstack, state, parent, pc, new>>
cpus == <<cpu, cr3, lock>>
vars == <<mem, procs, cpus, calls>>

-----------------------------------------------------------------------------
(* kalloc.c.  mem is passed through the calls; panic() stops the machine.  *)

panic(m, message) == [m EXCEPT !.sys = IF @ = "up" THEN message ELSE @]

\* What kalloc() returns and what it leaves; page 0 stands in after the panic.
got(m) == IF m.free = <<>> THEN 0 ELSE Head(m.free)
kalloc(m) == IF m.free = <<>> THEN panic(m, "Out of memory!") ELSE [m EXCEPT !.free = Tail(@)]

kfree(m, x) ==
  IF x \notin Page THEN panic(m, "kfree")
  ELSE [m EXCEPT !.free = <<x>> \o @, !.pd[x] = NoTables, !.pt[x] = NoPages, !.data[x] = "junk"]

-----------------------------------------------------------------------------
(* vm.c *)

\* As a page number
PGROUNDUP(n) == (n + PGSIZE - 1) \div PGSIZE

\* The page numbers a with a * PGSIZE in from..to - 1, in order.
PagesIn(from, to) == [i \in 1..(PGROUNDUP(to) - PGROUNDUP(from)) |-> PGROUNDUP(from) + i - 1]

setupkvm(m) == [kalloc(m) EXCEPT !.pd[got(m)] = NoTables]

\* walkpgdir(pgdir, a, 0), followed to the entry
table(m, r, a) == m.pd[r][a \div FANOUT]
pte(m, r, a) == IF table(m, r, a) = 0 THEN NotPresent ELSE m.pt[table(m, r, a)][a % FANOUT]

\* walkpgdir(pgdir, a, 1)
walkpgdir(m, r, a) ==
  IF table(m, r, a) # 0 THEN m
  ELSE [kalloc(m) EXCEPT !.pd[r][a \div FANOUT] = got(m), !.pt[got(m)] = NoPages]

mappages(m, r, a, entry) ==
  LET w == walkpgdir(m, r, a)
  IN  IF pte(w, r, a).pa # 0 THEN panic(w, "remap")
      ELSE [w EXCEPT !.pt[table(w, r, a)][a % FANOUT] = entry]

\* A page with contents x, mapped at a
newpage(m, r, a, x, u) ==
  mappages([kalloc(m) EXCEPT !.data[got(m)] = x], r, a, [pa |-> got(m), u |-> u])

\* allocuvm()'s result and what it does
allocsz(oldsz, newsz) == IF newsz >= KERNBASE THEN 0 ELSE IF newsz < oldsz THEN oldsz ELSE newsz
\* Mutant: the page is not cleared.
allocuvm_Dirty(m, r, oldsz, newsz) ==
  IF newsz >= KERNBASE THEN m
  ELSE FoldLeft(LAMBDA w, a : newpage(w, r, a, w.data[got(w)], TRUE), m, PagesIn(oldsz, newsz))
allocuvm(m, r, oldsz, newsz) ==
  IF newsz >= KERNBASE THEN m
  ELSE FoldLeft(LAMBDA w, a : newpage(w, r, a, "zero", TRUE), m, PagesIn(oldsz, newsz))

\* The sizes are unsigned: a negative newsz is beyond every oldsz.
deallocsz(oldsz, newsz) == IF newsz < 0 \/ newsz >= oldsz THEN oldsz ELSE newsz
\* Mutant: newsz is rounded down.
deallocuvm_Down(m, r, oldsz, newsz) ==
  LET drop(w, a) ==
        IF pte(w, r, a).pa = 0 THEN w
        ELSE [kfree(w, pte(w, r, a).pa) EXCEPT !.pt[table(w, r, a)][a % FANOUT] = NotPresent]
      down == (deallocsz(oldsz, newsz) \div PGSIZE) * PGSIZE
  IN  FoldLeft(drop, m, IF newsz < 0 \/ newsz >= oldsz THEN <<>> ELSE PagesIn(down, oldsz))
deallocuvm(m, r, oldsz, newsz) ==
  LET drop(w, a) ==
        IF pte(w, r, a).pa = 0 THEN w
        ELSE [kfree(w, pte(w, r, a).pa) EXCEPT !.pt[table(w, r, a)][a % FANOUT] = NotPresent]
  IN  FoldLeft(drop, m, PagesIn(deallocsz(oldsz, newsz), oldsz))

\* The pages of an address space, in the order freevm() frees them
tree(m, r) ==
  LET below(t) == IF t = 0 THEN <<>>
                  ELSE SelectSeq([i \in 1..FANOUT |-> m.pt[t][i - 1].pa], LAMBDA x : x # 0) \o <<t>>
  IN  FlattenSeq([i \in 1..FANOUT |-> below(m.pd[r][i - 1])]) \o <<r>>

freevm(m, r) == IF r = 0 THEN panic(m, "freevm: no pgdir") ELSE FoldLeft(kfree, m, tree(m, r))

clearpteu(m, r, a) ==
  IF table(m, r, a) = 0 THEN panic(m, "clearpteu")
  ELSE [m EXCEPT !.pt[table(m, r, a)][a % FANOUT].u = FALSE]

copyuvm(m, r, size) ==
  LET d == got(m)
      copy(w, a) ==
        IF pte(w, r, a).pa = 0 THEN panic(w, "copyuvm: page not present")
        ELSE newpage(w, d, a, w.data[pte(w, r, a).pa], pte(w, r, a).u)
  IN  FoldLeft(copy, setupkvm(m), PagesIn(PGSIZE, size))

\* Contents x to page a
write(m, r, a, x) == [m EXCEPT !.data[pte(m, r, a).pa] = x]

inituvm(m, r) == newpage(m, r, 1, "initcode", TRUE)
loaduvm(m, r, size) == FoldLeft(LAMBDA w, a : write(w, r, a, "text"), m, PagesIn(PGSIZE, size))
copyout(m, r, a) == write(m, r, a, "args")

-----------------------------------------------------------------------------
(* proc.c and exec.c.  p is the process of CPU c.                          *)

Unlocked(c) == mem.sys = "up" /\ lock = None /\ cpu[c] # 0

\* The process of c runs user code: it has a page to run it from.
Mapped(r) == {a \in 1..(PGROUNDUP(KERNBASE) - 1) : pte(mem, r, a).u}
User(c) ==
  /\ mem.sys = "up" /\ cpu[c] # 0
  /\ pc[cpu[c]] = "user" /\ Mapped(pgdir[cpu[c]]) # {}

Call(c) == User(c) /\ calls < MaxCalls /\ calls' = calls + 1

\* The call leaves memory m and does A, or panics.
Then(m, A) ==
  \/ m.sys = "up" /\ mem' = m /\ A
  \/ m.sys # "up" /\ mem' = [mem EXCEPT !.sys = m.sys] /\ UNCHANGED <<procs, cpus>>

\* A user's store, through cr3
store(c) ==
  /\ User(c)
  /\ \E a \in Mapped(cr3[c]) \intersect Touched, x \in Mark : mem' = write(mem, cr3[c], a, x)
  /\ UNCHANGED <<procs, cpus, calls>>

switchuvm(c, p) == cr3' = [cr3 EXCEPT ![c] = pgdir'[p]]

growproc(c, n) ==
  LET p == cpu[c]
      newsz == IF n > 0 THEN allocsz(sz[p], sz[p] + n) ELSE deallocsz(sz[p], sz[p] + n)
      m == IF n > 0 THEN allocuvm(mem, pgdir[p], sz[p], sz[p] + n)
           ELSE deallocuvm(mem, pgdir[p], sz[p], sz[p] + n)
  IN  /\ p # initproc \* init.c never calls sbrk()
      /\ Call(c)
      /\ Then(m, /\ sz' = [sz EXCEPT ![p] = IF newsz = 0 THEN @ ELSE newsz]
                 /\ UNCHANGED <<pgdir, kstack, state, parent, pc, new, cpu, lock>>
                 /\ IF newsz = 0 THEN UNCHANGED cr3 ELSE switchuvm(c, p))

sys_sbrk(c) == \E n \in Change : growproc(c, n)

\* allocproc() takes the first UNUSED slot.
fork(c) ==
  LET p == cpu[c]
      Unused == {q \in Slot : state[q] = "UNUSED"}
      np == Min(Unused)
      m == kalloc(mem)
  IN  /\ lock = None
      /\ Call(c)
      /\ IF Unused = {} THEN UNCHANGED <<mem, procs, cpus>>
         ELSE Then(copyuvm(m, pgdir[p], sz[p]),
                /\ kstack' = [kstack EXCEPT ![np] = got(mem)]
                /\ pgdir' = [pgdir EXCEPT ![np] = got(m)]
                /\ sz' = [sz EXCEPT ![np] = sz[p]]
                /\ parent' = [parent EXCEPT ![np] = p]
                /\ state' = [state EXCEPT ![np] = "RUNNABLE"]
                /\ pc' = [pc EXCEPT ![np] = "user"]
                /\ UNCHANGED <<new, cpus>>)

\* exec() as far as loaduvm(), which sleeps for the disk.
exec_alloc(c) == \E end \in ImageEnd :
  LET p == cpu[c]
      r == got(mem)
      size == allocsz(PGSIZE, end)
      m == allocuvm(setupkvm(mem), r, PGSIZE, end)
  IN  /\ Call(c)
      /\ IF size = 0
         THEN Then(freevm(m, r), UNCHANGED <<procs, cpus>>)
         ELSE Then(m, /\ new' = [new EXCEPT ![p] = [pgdir |-> r, sz |-> size]]
                      /\ pc' = [pc EXCEPT ![p] = "exec"]
                      /\ UNCHANGED <<pgdir, sz, kstack, state, parent, cpus>>)

\* Mutant: the new address space is not freed.
exec_bad_Leaks(c) ==
  LET p == cpu[c]
  IN  /\ mem.sys = "up" /\ p # 0 /\ pc[p] = "exec"
      /\ new' = [new EXCEPT ![p] = None]
      /\ pc' = [pc EXCEPT ![p] = "user"]
      /\ UNCHANGED <<mem, pgdir, sz, kstack, state, parent, cpus, calls>>

\* The label bad: a short read, or arguments that copyout() cannot place
exec_bad(c) ==
  LET p == cpu[c]
  IN  /\ mem.sys = "up" /\ p # 0 /\ pc[p] = "exec"
      /\ Then(freevm(mem, new[p].pgdir),
              /\ new' = [new EXCEPT ![p] = None]
              /\ pc' = [pc EXCEPT ![p] = "user"]
              /\ UNCHANGED <<pgdir, sz, kstack, state, parent, cpus>>)
      /\ UNCHANGED calls

\* The rest of exec(): the program, the guard page, the stack, the commit as far
\* as switchuvm().
exec_commit(c) ==
  LET p == cpu[c]
      r == new[p].pgdir
      guard == PGROUNDUP(new[p].sz)
      top == (guard + 2) * PGSIZE
      loaded == loaduvm(mem, r, new[p].sz)
      stack == clearpteu(allocuvm(loaded, r, guard * PGSIZE, top), r, guard)
  IN  /\ mem.sys = "up" /\ p # 0 /\ pc[p] = "exec"
      /\ top < KERNBASE
      /\ Then(copyout(stack, r, guard + 1),
              /\ pgdir' = [pgdir EXCEPT ![p] = r]
              /\ sz' = [sz EXCEPT ![p] = top]
              /\ new' = [new EXCEPT ![p] = [pgdir |-> pgdir[p], sz |-> sz[p]]]
              /\ pc' = [pc EXCEPT ![p] = "freevm"]
              /\ switchuvm(c, p)
              /\ UNCHANGED <<kstack, state, parent, cpu, lock>>)
      /\ UNCHANGED calls

\* freevm(oldpgdir); the CPU may have changed since.
exec_free(c) ==
  LET p == cpu[c]
  IN  /\ mem.sys = "up" /\ p # 0 /\ pc[p] = "freevm"
      /\ Then(freevm(mem, new[p].pgdir),
              /\ new' = [new EXCEPT ![p] = None]
              /\ pc' = [pc EXCEPT ![p] = "user"]
              /\ UNCHANGED <<pgdir, sz, kstack, state, parent, cpus>>)
      /\ UNCHANGED calls

\* Mutant: ptable.lock is released before the switch.
sched_Unlocks(c) == cpu' = [cpu EXCEPT ![c] = 0] /\ lock' = None /\ UNCHANGED cr3

\* sched(): the CPU is scheduler()'s again, with ptable.lock and p's table.
sched(c) == cpu' = [cpu EXCEPT ![c] = 0] /\ lock' = c /\ UNCHANGED cr3

\* Of the channels only a parent's in wait() is kept.
wakeup1(st, Q) == [q \in Slot |-> IF q \in Q /\ st[q] = "SLEEPING" THEN "RUNNABLE" ELSE st[q]]

\* exit(), from a call or from trap() when the process faults
exit(c) ==
  LET p == cpu[c]
      Children == {q \in Slot : parent[q] = p}
      Woken == {parent[p]} \union
               (IF \E q \in Children : state[q] = "ZOMBIE" THEN {initproc} ELSE {})
  IN  /\ Unlocked(c) /\ pc[p] = "user" /\ p # initproc
      /\ state' = [wakeup1(state, Woken) EXCEPT ![p] = "ZOMBIE"]
      /\ parent' = [q \in Slot |-> IF q \in Children THEN initproc ELSE parent[q]]
      /\ sched(c)
      /\ UNCHANGED <<mem, pgdir, sz, kstack, pc, new, calls>>

\* yield(), and sleep() for the disk in exec(), which may end at any time
yield(c) ==
  /\ Unlocked(c) /\ pc[cpu[c]] # "wait"
  /\ state' = [state EXCEPT ![cpu[c]] = "RUNNABLE"]
  /\ sched(c)
  /\ UNCHANGED <<mem, pgdir, sz, kstack, parent, pc, new, calls>>

\* One turn of wait()'s loop: the call, or the return of its sleep(), which
\* holds ptable.lock.  A process that has been killed gives up.
InWait(c) ==
  \/ User(c) /\ lock = None
  \/ mem.sys = "up" /\ lock = c /\ cpu[c] # 0

wait_reap(c) ==
  LET p == cpu[c]
      Zombies == {q \in Slot : parent[q] = p /\ state[q] = "ZOMBIE"}
      q == Min(Zombies)
  IN  /\ InWait(c) /\ Zombies # {}
      /\ Then(freevm(kfree(mem, kstack[q]), pgdir[q]),
              /\ kstack' = [kstack EXCEPT ![q] = 0]
              /\ parent' = [parent EXCEPT ![q] = 0]
              /\ state' = [state EXCEPT ![q] = "UNUSED"]
              /\ pc' = [pc EXCEPT ![p] = "user"]
              /\ lock' = None
              /\ UNCHANGED <<pgdir, sz, new, cpu, cr3>>)
      /\ UNCHANGED calls

\* (At the call itself a return of -1 changes nothing.)
wait_fails(c) ==
  /\ InWait(c) /\ lock = c
  /\ ~\E q \in Slot : parent[q] = cpu[c] /\ state[q] = "ZOMBIE"
  /\ pc' = [pc EXCEPT ![cpu[c]] = "user"]
  /\ lock' = None
  /\ UNCHANGED <<mem, pgdir, sz, kstack, state, parent, new, cpu, cr3, calls>>

wait_sleep(c) ==
  /\ InWait(c)
  /\ \E q \in Slot : parent[q] = cpu[c]
  /\ ~\E q \in Slot : parent[q] = cpu[c] /\ state[q] = "ZOMBIE"
  /\ state' = [state EXCEPT ![cpu[c]] = "SLEEPING"]
  /\ pc' = [pc EXCEPT ![cpu[c]] = "wait"]
  /\ sched(c)
  /\ UNCHANGED <<mem, pgdir, sz, kstack, parent, new, calls>>

\* kill() of a process that sleeps
kill(q) ==
  /\ mem.sys = "up" /\ lock = None /\ state[q] = "SLEEPING"
  /\ state' = [state EXCEPT ![q] = "RUNNABLE"]
  /\ UNCHANGED <<mem, pgdir, sz, kstack, parent, pc, new, cpus, calls>>

-----------------------------------------------------------------------------
(* scheduler(), one action per part of its loop                            *)

Scheduling(c) == mem.sys = "up" /\ lock = c /\ cpu[c] = 0

scheduler_acquire(c) ==
  /\ mem.sys = "up" /\ lock = None /\ cpu[c] = 0
  /\ lock' = c
  /\ UNCHANGED <<mem, procs, cpu, cr3, calls>>

\* Whoever resumes releases ptable.lock, but wait().
scheduler_run(c) == \E p \in Slot :
  /\ Scheduling(c) /\ cr3[c] = 0 /\ state[p] = "RUNNABLE"
  /\ state' = [state EXCEPT ![p] = "RUNNING"]
  /\ cpu' = [cpu EXCEPT ![c] = p]
  /\ lock' = IF pc[p] = "wait" THEN c ELSE None
  /\ UNCHANGED <<mem, pgdir, sz, kstack, parent, pc, new, calls>>
  /\ switchuvm(c, p)

switchkvm(c) ==
  /\ Scheduling(c) /\ cr3[c] # 0
  /\ cr3' = [cr3 EXCEPT ![c] = 0]
  /\ UNCHANGED <<mem, procs, cpu, lock, calls>>

scheduler_release(c) ==
  /\ Scheduling(c) /\ cr3[c] = 0
  /\ lock' = None
  /\ UNCHANGED <<mem, procs, cpu, cr3, calls>>

\* panic() loops forever.
panicked == mem.sys # "up" /\ UNCHANGED vars

-----------------------------------------------------------------------------

\* kinit1() has freed the pages in order; userinit() makes the first process.
Boot ==
  [free |-> Reverse([i \in Page |-> i]), sys |-> "up", pd |-> [x \in 0..PHYSPAGES |-> NoTables],
   pt |-> [x \in 0..PHYSPAGES |-> NoPages], data |-> [x \in 0..PHYSPAGES |-> "junk"]]

Init ==
  LET m == kalloc(Boot)
      only(x, other) == [p \in Slot |-> IF p = initproc THEN x ELSE other]
  IN  /\ mem = inituvm(setupkvm(m), got(m))
      /\ kstack = only(got(Boot), 0)
      /\ pgdir = only(got(m), 0)
      /\ sz = only(2 * PGSIZE, 0)
      /\ state = only("RUNNABLE", "UNUSED")
      /\ parent = [p \in Slot |-> 0]
      /\ pc = [p \in Slot |-> "user"]
      /\ new = [p \in Slot |-> None]
      /\ cpu = [c \in CPU |-> 0]
      /\ cr3 = [c \in CPU |-> 0]
      /\ lock = None
      /\ calls = 0

Next ==
  \/ \E c \in CPU :
       \/ store(c) \/ sys_sbrk(c) \/ fork(c) \/ exit(c) \/ yield(c)
       \/ exec_alloc(c) \/ exec_bad(c) \/ exec_commit(c) \/ exec_free(c)
       \/ wait_reap(c) \/ wait_fails(c) \/ wait_sleep(c)
       \/ scheduler_acquire(c) \/ scheduler_run(c) \/ switchkvm(c) \/ scheduler_release(c)
  \/ \E q \in Slot : kill(q)
  \/ panicked

Spec == Init /\ [][Next]_vars

-----------------------------------------------------------------------------
(* What the run checks                                                     *)

Live == {p \in Slot : state[p] # "UNUSED"}

\* What a process finds at the pages it may use
Image(p) == [a \in IF p \in Live THEN Mapped(pgdir[p]) ELSE {} |-> mem.data[pte(mem, pgdir[p], a).pa]]

\* The images exec() and userinit() start
ProgramImage(end) ==
  LET guard == PGROUNDUP(end)
  IN  [a \in (1..(guard - 1)) \union {guard + 1} |-> IF a < guard THEN "text" ELSE "args"]

Private == INSTANCE Memory WITH
  Proc <- Slot, Page <- 1..(PGROUNDUP(KERNBASE) - 1), Val <- Mark, Zero <- "zero",
  Program <- {[a \in {1} |-> "initcode"]} \union {ProgramImage(end) : end \in ImageEnd},
  image <- [p \in Slot |-> Image(p)]

\* Processes have private memories: a store shows in the memory of the
\* process that made it and in no other, fork() copies, exec() replaces the
\* image as a whole or not at all, sbrk() brings zeroed pages and keeps the
\* others, and nothing else, neither the reuse of a freed page nor the exit
\* of another process, changes what a process finds in its memory.
PrivateMemory == Private!Spec

\* Every page of physical memory is in one place: once on kmem.freelist, or
\* the kernel stack of one process, or once in the tree of one page table,
\* that of a process, or one that exec() is building
\* or has yet to free.  None is lost to a
\* failed exec() or an exit, none is freed twice or shared.
PagesOwnedOnce ==
  LET stacks == SelectSeq([p \in Slot |-> kstack[p]], LAMBDA x : x # 0)
      trees == FlattenSeq([p \in Slot |->
                 (IF p \in Live THEN tree(mem, pgdir[p]) ELSE <<>>) \o
                 (IF new[p] # None THEN tree(mem, new[p].pgdir) ELSE <<>>)])
      all == mem.free \o stacks \o trees
  IN  Len(all) = PHYSPAGES /\ ToSet(all) = Page

\* No CPU runs on a page table that has been freed: cr3 is kpml4 or the
\* table of a process whose slot is not free, although exec() frees the
\* table its CPU runs on and wait(), on another CPU, that of a process
\* whose CPU may not have switched away from it.
LoadedTableLives == \A c \in CPU : cr3[c] # 0 => cr3[c] \in {pgdir[p] : p \in Live}

\* Running out of memory is the only panic: sz and the page table agree
\* whenever fork() walks one by the other, no page is mapped twice, and no
\* address that kfree() refuses is freed.
OnlyOutOfMemory == mem.sys \in {"up", "Out of memory!"}

=============================================================================
