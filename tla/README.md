# Verification of Oh-My-XV6

TLA+ models of the Oh-My-XV6 kernel (xv6-64 with a richer console and shell) and of
the user programs that have algorithms of their own, checked by TLC on small instances
and, for the log, the buffer cache and disk driver, the process table, the locks and
the context switch, files and pipes, and the use of page tables, proved by TLAPS for
every size. Sources are under `src/src/`; file names below are
relative to it. `PROJECT.json` maps each definition to the lines it stands for.

## 1. The system

The machine is a PC with several CPUs (`CPUS := 2` in the Makefile). All CPUs run
one kernel. System calls run with interrupts disabled (`vm.c:28` puts FL_IF into
the syscall mask), so on one CPU a system call is cut only where it sleeps or
yields; on two CPUs anything outside a lock interleaves.

| part | state | operations | depends on |
|---|---|---|---|
| spin-locks, context switch (`spinlock.c`, `proc.c`, `swtch.S`) | lock words, `ncli`, `intena`, FL_IF, saved contexts | acquire, release, sched, scheduler, sleep, wakeup, interrupts | hardware |
| sleep-locks (`sleeplock.c`) | `locked`, `pid` | acquiresleep, releasesleep | sleep, wakeup |
| process table (`proc.c`, `sysproc.c`, `trap.c`) | `ptable`, `nextpid`, `cpu->proc` | fork, exit, wait, kill, sleep, wakeup, yield, scheduler | spin-locks, kalloc |
| disk driver (`ide.c`) | `idequeue` | iderw, idestart, ideintr | sleep, wakeup |
| buffer cache (`bio.c`) | buffers, LRU list | bget, bread, bwrite, brelse | driver, sleep-locks |
| log (`log.c`) | `log.lh`, `outstanding`, `committing`, the log area of the disk | begin_op, end_op, log_write, commit, recovery | buffer cache |
| inodes, directories (`fs.c`) | `icache`, inodes, free map, entries | ialloc, iget, ilock, iput, itrunc, dirlookup, dirlink, namex | log |
| calls on names (`sysfile.c`) | `cwd`, descriptors | open, create, link, unlink, mkdir, chdir, getcwd | inodes |
| files and pipes (`file.c`, `pipe.c`) | `ftable`, `ofile`, ring buffer | filedup, fileclose, pipealloc, piperead, pipewrite, pipeclose | sleep, wakeup |
| console input (`console.c`) | ring `buf`, `r`, `w`, `cur`, `e`, history draft | handle_input, consoleread, replace_input | keyboard interrupts |
| shell (`sh.c`) | command buffer, history lists, completion | getcmd, history, autocomplete, parser, runcmd | all calls |
| memory (`kalloc.c`, `vm.c`, `exec.c`) | free list, page tables, `cr3` of each CPU | kalloc, kfree, allocuvm, deallocuvm, copyuvm, freevm, exec, sbrk, switchuvm | process table |
| contents of files (`fs.c`, `file.c`) | direct and indirect blocks, offsets | bmap, itrunc, readi, writei, fileread, filewrite, fileseek | inodes, log |
| `mkfs.c` | the first image of the disk | mkdirp, iappend, balloc | layout in `fs.h` |
| user heap (`umalloc.c`), `grep.c` | circular free list; buffer and matcher | malloc, free, morecore; grep, match | sbrk, read |
| display, devices, boot, libraries, other programs | | | |

What is hard about it: the order of `ptable.lock` and a caller's lock in
sleep/wakeup; processes that die while their parents wait, fork or die; kills that
meet a process anywhere; group commit with absorbed writes, limited log space and
crashes, also during recovery; buffers recycled while others look for them; the
free-inode path of `iput()`, which holds no inode lock; two inode locks at once;
directories removed under a process; a page table freed while a CPU uses it; sizes
that are no multiple of a page; indices that wrap; keys that arrive while the
shell is answering earlier ones. The full list, each at its line, is under
"hazards" in `PROJECT.json`.

## 2. The modules

Each module's head says what a step is. Together the modules form a stack in which
the lower one justifies the step size of the upper one: `Sched` opens the critical
sections that `Proc`, `Pipe`, `BufCache` and `Log` take as steps; `BufCache` shows
that the cache is a store of locked blocks, which is how `Log` sees it; `Log`
shows that groups of calls are atomic across crashes, which is how `Fs` sees it.

| module | models | abstract specification |
|---|---|---|
| `Sched` | spin-locks, `pushcli`, interrupts, `sched()`/`scheduler()`, `sleep`, `wakeup`, a sleep-lock, a device | |
| `Proc` | the process table, one critical section of `ptable.lock` a step, several CPUs | |
| `BufCache` | `bio.c` over `ide.c` and a drive | `BlockStore`: blocks that one thread at a time holds, reads and writes |
| `Log` | `log.c`, with the cache's and the disk's view of each block | `AtomicDisk`: contents change by whole groups of finished operations |
| `Fs` | inode cache, inodes, free map, directories, the calls on names | |
| `Pipe` | file table, descriptors, pipes, and what fork and exit do with them | `Stream`: a bounded queue |
| `Vm` | free list, page tables, exec, sbrk, and what fork, exit, wait and the scheduler do with address spaces | `Memory`: each process has pages of its own |
| `Mkfs` | the layout of the disk and the program that makes the first one | |
| `FileData` | contents of files on a disk of `Mkfs` | `ByteFile`: a file is a sequence of bytes, an open file a place in one |
| `Parser` | the shell's recursive descent, against a grammar | |
| `Runcmd` | the shell's loop, `runcmd()` and `fork1()` as processes with descriptors and pipes | |
| `Heap` | `malloc()`, `free()`, `morecore()` | |
| `Grep` | the line loop and the matcher, against what a pattern means | |
| `Console` | the console's ring and its keys | `LineEdit`: a line editor in front of a FIFO |
| `Shell` | `Console` plus the shell's `getcmd()`, history and completion | |
| `MC*` | constants, symmetry, fairness and bounds for TLC | |
| `LogProofs`, `ProcProofs`, `BufCacheProofs`, `SchedProofs`, `VmProofs` | theorems about `Log`, `Proc`, `BufCache`, `Sched`, `Vm` | |
| `PipeDefs`, `PipeInv`, `PipeWaits`, `PipeProofs` | theorems about `Pipe`: the vocabulary, reference counts, ends and sleepers, and the results | |

How state and actions correspond to the code:

* **Log.** `home`, `logd`, `hdr` are the disk; one `bwrite()` is one step. `cache`
  and `dirty` are the buffers of blocks, `lh`, `outstanding`, `committing` the fields
  of `struct log`. `begin_op` tests and sleeps in one step (both under `log.lock`).
  An operation is any sequence of `modify` (bread and a change) and `log_write`,
  on at most `OpBlocks` different blocks. `commit()` is `write_log`, `write_head`,
  `install_trans`, `erase_head`, `end_commit`, the loops a block at a time.
  `crash` may happen in every state and loses all memory; `read_head`,
  `recover_install`, `recover_done` are `recover_from_log()`. The test of the
  size in `log_write()`, made before the lock, precedes the step in the same action;
  `modify` and `log_write` of different threads interleave.
* **Proc.** A slot is a process. `allocproc` and `fork` are the two halves of
  `fork()`, cut where `ptable.lock` is free; `exit` and `wait` are whole, loops
  included, because the lock is held throughout; `test_killed` and `sleep` are apart,
  because the sleep loops of the kernel test `proc->killed` without `ptable.lock`.
  `scheduler` looks at one slot a step. `pages` counts kernel stacks and address spaces.
* **Sched.** `pc` of each context (thread or `scheduler()`) names the place in the
  code; `acquire()` is `pushcli` and then the `xchg` that succeeds. A thread sets its
  state, calls `sched()` and leaves its stack in different steps, so a thread that is
  RUNNABLE while it still runs is visible. Interrupts are taken wherever FL_IF is on.
* **BufCache.** One critical section of `bcache.lock` or `idelock` is a step, and so
  is a sleep-lock operation; `brelse()` is two, with the gap between them. The drive
  (external) carries out one command at a time and reports no errors; `ideintr` completes
  it, wakes the thread that waits for it and starts the next. After a panic nothing
  happens, so TLC's search for deadlocks finds both panics and circles of threads.
* **Fs.** A stretch under one inode's sleep-lock is a step; `iput()` is cut where it
  has let go of `icache.lock`, and where the `bread()` of an `iupdate()` may sleep while it frees the inode:
  `itrunc` clears the bit of the block, `iupdate` and `ifree` write the inode. Path walks go one component a step. An inode has one block (`FileData` has many).
  `crash` returns to the disk of a moment with no call in progress, as `Log` proves.
* **Pipe.** Steps are critical sections of `ftable.lock` and of the pipe's lock;
  `fileclose()` is two, and `exit()` is one step for each turn of its loop over the
  descriptors. `nread` and `nwrite` wrap at `UINT`, for 2^32. Who goes to sleep in a pipe keeps
  its lock between the test of `killed` and `sleep()`, since `kill()` does not take it. `kill` may come anywhere:
  a call goes on until it tests `killed` itself, and the process exits on its way back to user space (`Home`).
* **Vm.** `mem` is physical memory: the free list in its order, and what each page holds
  as a root, as a table and for a user. The functions of `kalloc.c` and `vm.c` are
  operators from memory to memory, composed as the code calls them; `Then` commits the
  result or panics. `cr3` of each CPU changes where `switchuvm()` and `switchkvm()` are
  called, and a store of a program goes through it. A call is a step, but `exec()` is cut
  where it reads the program from the disk and between `switchuvm()` and the `freevm()` of the old
  table, and scheduler(), wait() and exit() where `ptable.lock` is passed on. There are two levels of tables instead of four.
* **Mkfs, FileData.** A step of `mkfs` is one `iappend()`, or the choice of the next
  thing to append; its result is the disk on which `FileData` opens, reads, writes,
  seeks, truncates and removes. A block holds two units, an inode one direct and two
  indirect blocks. `filewrite()` goes chunk by chunk, with other calls in between.
* **Parser, Runcmd.** A line is a sequence of tokens. Parsing functions return a command
  and the tokens left, or `Error`. `Runcmd` takes the command the parser returns and
  runs it: fork, pipe, dup, close, exec, wait, exit, and `cat`, `wc` and `echo`
  as programs that copy, count or write and then exit.
* **Heap, Grep.** One call, or one `read()`, is a step.
* **Console, Shell.** A key is a step (`input.lock`), a byte read is a step, and the
  `kbddecoy()` that answers ^P or ^N is a step of its own, which keys may overtake.

## 3. What the runs check

| run | instance | properties |
|---|---|---|
| `log` | 2 threads, 3 blocks, operations of 1 block that reserve 2, a log of 4 that takes 3; 3 calls between crashes, a crash in any state; fair scheduling | `CrashAtomic`: refinement of `AtomicDisk`; `EvictionSafe`, `QuiescentIsDurable`; `NoPanic`: the reservation suffices; `CallsReturn`: nobody stays in `begin_op()` |
| `log_big_write` | operations of 3 blocks that reserve 2, a log of 6, 2 threads | **violated**: see section 6 |
| `proc` | 3 slots, 2 CPUs, 2 forks, kills of both children | `OneCPU`, `ParentAlive`, `NoMissedExit`, `PagesConserved`; fair: `RunnableRuns`, `KilledExits`, `OrphansReaped` |
| `proc_kill_wakes` | same table | **violated**: see section 6 |
| `sched` | 2 CPUs, 2 threads, a sleep-lock and a device | `NoPanic` (the assertions of `sched`, `release`, `acquire`, `popcli`), `OneStack`, `NoLostWakeup`, `SyscallsUninterrupted`, `HaltsInterruptible` |
| `bufcache` | 2 threads, 4 blocks, 3 buffers; a home block locked under a block of the log | `KeepsBlocks`: refinement of `BlockStore`; `DriverQueue`; no deadlock, so no circle and no panic |
| `vm` | 3 processes, 2 CPUs, 16 pages, 4 calls of fork, exec and sbrk | `PrivateMemory`: refinement of `Memory`; `PagesOwnedOnce`, `LoadedTableLives`, `OnlyOutOfMemory` |
| `pipe` | 2 processes, 3 files, 2 descriptors, a pipe of 2 bytes, indices modulo 4 | `Streams`: refinement of `Stream`; `RefsCounted`, `PipeEnds`, `SleepersWait` |
| `fs` | 2 processes, one call each at once, one CPU, 4 inodes, 4 blocks, crashes | `RefsCounted`, `NoPanic`, `NoDangling`, `BlocksSafe`, `NoCircle` |
| `fs_iput_race` | the same on two CPUs, two calls each | **violated**: see section 6 |
| `shell` | a console of 3 bytes, 6 keys, a command buffer of 3, a history in 2 chunks | `EditsLines`: refinement of `LineEdit`; `HistoryKept` |
| `user` | six parts that share nothing, one to a behaviour | see below |

`user` has its parts in one run because each is small: `ParsesGrammar`, every line of up to
five tokens is parsed as the grammar says or refused; `Foreground` and `LineEnds`, twelve
command lines run by processes in any order end, and the prompt comes back only when the
foreground is done; `HeapTiled`, headers, free blocks and blocks in use cover the heap
without overlap and neighbours are joined; `GrepFinds`, `grep` prints the lines that contain
a match, wherever `read()` cuts the input; `FilesAreBytes`, refinement of `ByteFile`, over
every disk `mkfs` makes from up to two of five arguments, in which each file must be found in its place with its contents, and over calls on two files of one of them.

Each property has a mutant of the code (a dropped guard, a wrong order, a missed
reset) under which the same run finds it violated.

### Bounds, and why they are enough

* *Log*: two threads whose operations share blocks are enough for absorption, group commit and
  a commit that waits. While one thread's operation is open the other makes two, so a group has up to three
  blocks, which is what `log_write()` accepts (`NLOG - 1`): were `begin_op()` to admit one operation more, it
  would panic. Crashes fall before, between and after installs, and any number of crashes may follow one another. `MaxCalls` bounds
  the calls between two crashes: with endless overlapping calls the code
  promises nothing, since `outstanding` need not reach 0. For more of everything there
  are the theorems. `MCLogBigWrite` has the kernel's proportions: the log is three reservations long, and an
  operation that is too large for its reservation still fits in the log alone.
* *Proc*: three slots are init, a child and a grandchild, or two children; the table
  gets full and slots are reused. `MaxPid`
  bounds the forks. Two CPUs are the Makefile's. `Memory` is enough for all slots.
* *Sched*: two threads and two CPUs let each thread sleep, be woken, migrate and meet
  the other in every critical section. No other bound.
* *BufCache*: fewer buffers than blocks, so that every release can lead to recycling. One
  block is pinned by the log, and two threads use two buffers each at most; with more pins `bget()`
  may panic, which the kernel's `NBUF` does not rule out (section 6). For more there are the theorems.
* *Vm*: three processes, so that a process with a changed size can be a parent too; sixteen
  pages hold three processes, one of them with a fresh image, and run out for more. `Change` has an odd
  growth, a shrinking and one below zero; `ImageEnd` a program that fits and one that reaches `KERNBASE`.
* *Pipe*: writes longer than the pipe, indices that wrap many times, a full file table.
* *Fs*: initial states are those that earlier calls leave: a tree `/a/b`, with processes
  anywhere in it and `b` perhaps removed, or a file `/a`, perhaps removed while open.
  From each of them two processes make any two calls at once. `SMP = FALSE` keeps
  other processes out while `iput()` is between its last disk update and `flags = 0`,
  as one CPU does; with `SMP = TRUE` the race of section 6 appears. `stale` of `MCFs` records that a lookup
  came to the `..` of a directory outside of the tree; from then on `NoPanic` allows the panics of section 6, and
  `NoDangling` and `BlocksSafe` say nothing. (Two calls each of `mkdir` and `unlink`, or of `getcwd` and
  `unlink`, were checked once, over paths through `..`, and need no further exception.)
* *Shell*: six keys fill, wrap and edit the ring of three; `MaxCmds` bounds the history.
  Indices drop by `INPUT_BUF` together, which changes neither their differences nor what they select.

* *User*: five tokens reach every pair of operators and a nested block; the process table of
  five is too small for one of the lines. The heap grows twice, then `sbrk()` fails. Patterns of
  three characters have each operator before and after another. The disk has 27 blocks, so that files fill
  it; directories take several blocks, and one fills its blocks exactly.

### Fairness

`MCLogLive`: a thread in the kernel that can take a step does so, the disk
answers, and an operation does not log blocks for ever; the model has no fairness for starting
calls or for crashes. `MCProcLive`: weak fairness
of each CPU's `scheduler()` (its loop has no exit), of `yield` (the timer interrupts user
code), of kernel code (nothing preempts it) and of `wakeup(&ticks)`; strong fairness of
`exit()` getting through the files it closes and of init's `wait()` loop (`init.c` does
nothing else). `KilledExits` rests on the ticking of the channel: a process that sleeps on a
channel nobody wakes is the subject of `proc_kill_wakes`. `MCUser`: weak fairness of every
process of a command line, which `RunnableRuns` justifies. Sleep-locks are not FIFO, so no
thread is promised a particular lock, and no property says so.

CHECK_DEADLOCK is off where the system may stop: `fs` and `shell` (the bounded calls or keys
run out), `user` (programs end) and `pipe` (all processes exit, or wait for one another as programs may).

## 4. What is proved

TLAPS proves these for all values of the constants.

*Log* (`LogProofs`), for any threads, blocks and sizes
that satisfy `LogFits`: operations log fewer than `MAXOPBLOCKS` blocks, an operation fits in the log,
and the log fits in its area of the disk.

* `TypeCorrect`; `ReservationSuffices` (`[]NoPanic`); `StaysInLogArea`; `NoLostWakeup`
  (a thread asleep in `begin_op()` has one that will wake it);
* `LogInvariant`, `DurableWhenQuiet`, `EvictionIsSafe`;
* `CrashAtomicity`: `Spec => CrashAtomic`, the refinement of `AtomicDisk`.

The inductive invariant has three layers. *Counters*: `outstanding` is the number of
threads inside an operation, and `committing` says that exactly one thread is in commit and nobody in an
operation; the test `log.committing` in `end_op()` cannot be ruled out without it.
*Reservation*: entries of the log plus the blocks each open operation may still log stay
within `LOGSIZE`. Absorption makes the log shorter than the sum, so the budget is counted as
the set of pairs (operation, unused entry), which shrinks by one when the log grows by one.
*Disk*: for each phase of commit and recovery, which slots of the log and which home blocks have been written.
Atomicity needs the last one: what recovery would find (`Recovered`) changes only at the first
`write_head()`, where it becomes what operations see, and neither installs nor the erasing
of the header change it. The mapping is `stable = Recovered`, `current = cache`.

*Process table* (`ProcProofs`), for any number of slots, CPUs, channels
and pids: `TypeCorrect`, `RunsOnOneCPU`, `NoOrphans`, `ExitIsSeen`, `KillIsSeenByWait`,
`PidsAreUnique`, `NoPageLeak`. The invariant `PInv` adds to the properties that init and
processes being forked stay where they are: an EMBRYO belongs to one running `fork()`,
and only to it (`EmbryoOwned`), and init is alive (`Rooted`); without the first a slot
could be filled twice, without the second orphans could be handed to a dead process.

*Buffer cache and driver* (`BufCacheProofs`), for any number of blocks and
buffers and any finite set of threads, if no block is read while it is held (`bget()` would wait for its own caller):

* `CacheInvariant`, the inductive invariant; `DriverQueueAlways` (`[]DriverQueue`);
* `KeepsBlocksAlways`: `Spec => KeepsBlocks`, the refinement of `BlockStore`.

`DriverQueue` alone is not inductive: that `iderw()` appends a buffer which is not yet queued
needs to know who holds its lock (`LockInv`), and that `bget()` recycles none that is
queued needs `refcnt` to be the number of the buffer's users (`RefsCounted`, a cardinality, hence the
finite set of threads). The refinement needs that a block is in one buffer (`OneBuffer`) and that a
valid buffer which is not dirty equals its block on the disk (`DataInv`): then `Content` does not change
when such a buffer is recycled, when the drive reads or writes, or when a thread returns from `iderw()`.
`SleepInv` shows that a thread that has been woken never sleeps again for the same request. The panics
of `bget()` and `iderw()` are steps of the model; that they are not reached is checked by TLC only, for
`bget()` can be if enough buffers are pinned.

*Spin-locks, interrupts and the switch* (`SchedProofs`), for any number of threads and CPUs:
`SchedInvariant`; `NeverPanics`, `OneCPUPerThread`, `CallsUninterrupted`, `WakeupsArrive`,
`HaltsAwake`, which are the five properties of the run; and `LocksExclude`. The code relies on an
invariant that it states nowhere: what a CPU holds and how deep its `pushcli()` goes can be read off the
place of the context it executes. `IInv` says so (`Holds`, `Depth`, `Flags`). A context keeps its place when
it is switched away from, so `ptable.lock` passes from one to the other at `swtch()` and is found
held where the other comes back. `cpu->intena` belongs to the CPU and not to the thread; `Flags` says where it
may be on, and that is what makes the restored interrupt flag right. For `WakeupsArrive`, `Waits` follows a
sleeper from the test under its own lock to the moment it holds `ptable.lock` instead.

*Page tables in use* (`VmProofs`), for any number of processes, CPUs and pages: `TablesInvariant` and
`LoadedTableIsLive` (`[]LoadedTableLives`). What `kalloc()` and the page-table code return plays no part in it,
the argument is who may free a table and when: a CPU uses the table of the process it runs or, from
`sched()` to `switchkvm()`, that of a process that has left, and which `wait()` cannot free before the
scheduler lets go of `ptable.lock`.

*Files and pipes*, for any finite set of processes, any numbers of files, descriptors and pages, any size of the
ring and any modulus of its indices that is a larger multiple of it (2^32 and 512 in the code):

* `ReferencesCounted` (`[]RefsCounted`) and `PipesNeverPanic`. `RInv` adds to the count where each process is in
  its call, and that a child being forked has only descriptors of its parent (`ForkOf`), so a copy has something to count;
* `EndsOpenRight` (`[]PipeEnds`). `EInv` counts ends as values of two functions, of files and of closing
  processes, so that a step changes each at one place. It needs `RInv`: `fileclose()` hands an end
  from the table to the closer only at the last reference;
* `SleepersHaveReason`: `Spec => SleepersWait`, an invariant and an action property, with kills at any point. `WInv` says who keeps a
  pipe's lock on the way to `sleep()` and that its reason still holds, and that the indices stay within one
  ring of each other modulo their width; `ReadersKnow` is the step.

`PipeInv` (for `RInv`) and `PipeWaits` (for `EInv` and `WInv`) take the facts they need about finite sets as the
hypothesis `Library` of `PipeDefs`, and `PipeProofs` proves that hypothesis from the library's theorems
(`LibraryHolds`), so no result depends on it.

Only model-checked:

* the properties under fairness: liveness and ENABLED are out of the prover's reach;
* what recursive definitions and folds compute, for induction over data is out of its reach too: `PrivateMemory`,
  `PagesOwnedOnce` and `OnlyOutOfMemory` of `Vm` (folds over page tables), and everything
  about `FileData`, `Mkfs`, `Parser`, `Heap` and `Grep`;
* `Streams` of `Pipe`: a write of several bytes is compared with the queue as a sequence, cut and joined around
  the end of the ring;
* everything about `Fs`, `Console`, `Shell` and `Runcmd`: no proof has been attempted.

## 5. What is not modelled

Display, device registers, boot code and libraries decide nothing that the other parts
depend on, or are straight-line code; so are most user programs. In the modelled parts:
read errors of the drive; in `Fs` one block to an inode (the others are in `FileData`), and neither
`mknod` nor `ioctl`; segments, the TSS and the kernel's own mappings in `Vm`; `gettoken()`'s
characters and the built-in `cd`, `jump` and `rfsh` in `Runcmd`; raw mode of the console,
which no program turns on; `sys_sleep()`'s count of ticks; `procdump` and other reads; arguments for which
`mkfs` aborts. Memory is taken to be sequentially consistent: shared data is
reached under locks, whose `xchg` and `__sync_synchronize()` are full barriers. The modules are composed by
their step sizes (section 2) and not by conjunction: `BufCache` and `Log` in one module are beyond
TLC's reach. "components" in `PROJECT.json` has the complete list.

## 6. Where code and promise part

Runs that find a violation:

* `log_big_write` (`file.c:148`): the chunk of `filewrite()` comes from `LOGSIZE`, the
  reservation of `begin_op()` from `MAXOPBLOCKS`; one large write fits in the log, two at once overflow it, against the comment at `file.c:142`.
* `proc_kill_wakes` (`sysproc.c:55`): a `kill()` between the test of `killed` and
  `sleep()` on another CPU wakes nobody, against `proc.c:409`. (`KillWakes` leaves out the sleeps of `exit()`, which no kill is to interrupt.)
* `fs_iput_race` (`fs.c:304`): `iput()` frees an inode on the disk before it marks its cache entry
  invalid, and without its lock; on two CPUs a new file with that inode is left free on the disk.

Seen while modelling; the models contain these steps unless it says otherwise, and the properties name them as exceptions:

* `kill()` looks at free slots too, whose pid is 0 (`proc.c:407`): `kill(0)` marks one, and its next process is born killed.
* `kalloc()` panics when memory runs out (`kalloc.c:77`), so the error paths of its callers are dead.
* A log with operations of exactly `MAXOPBLOCKS` blocks can meet `log.size - 1` (`log.c:202`); hence "fewer" in `LogFits`.
* The test of the log's size in `log_write()` is made before `log.lock` is taken (`log.c:202`); the reservation is what makes it harmless.
* `NBUF` equals `LOGSIZE`: a full log pins nearly all buffers and `bget()` may panic (`bio.c:89`). Not modelled: the instance has room.
* A failed read still sets `B_VALID` (`ide.c:111`). Not modelled: the drive reports no errors.
* A pipe writer that is killed, before its call or in its sleep, fills the pipe and returns -1 without waking the readers (`pipe.c:80`).
* A write to a pipe without readers fails only when the pipe is full (`pipe.c:79`); up to then it succeeds.
* `create()` and `link()` in a directory that was removed meanwhile leave an inode with a link and no name (`sysfile.c:244`).
* `..` of a removed directory is not counted: its inode may be free when a lookup or `getcwd` goes there ("ilock: no type"), or be in
  the middle of `iput()`, which has set its type to 0 in memory: `link()` then takes it for a file and makes an entry for it (`sysfile.c:147`).
* `sys_getcwd()` calls `iput()` outside of a transaction (`sysfile.c:484`).
* Inodes removed while open stay allocated after a crash (`fs.c:298`).
* A directory of `mkfs` that exactly fills its blocks gets a size of one block more (`mkfs.c:316`). `readi()` maps that block and so allocates it: a read of the directory, outside of a transaction, panics. `readi` of `FileData` does so too, but programs that read directories, and lookups of names that are not there, are not modelled.
* `mkfs` does not count the `..` of a directory it makes as a link to the parent (`mkfs.c:124`), but the kernel's `unlink()` of the directory subtracts one. Not modelled.
* `mkfs` does not compare the inodes it uses with `NINODES`. Not modelled.
* When the second `fork1()` of a pipeline fails, the shell's `panic()` leaves the first process running; `Foreground` excludes lines in which a fork failed.
* `grep` drops the start of a line that a `read()` leaves without its newline when the buffer has no other (`grep.c:27`); `GrepFinds` speaks of what is written up to the first such read.
* A backspace at the start of a line with text hands the text and the backspace to the shell, which erases the last byte of it (`console.c:401`).
* ^P after a Tab leaves what the shell already has in its buffer in front of the recalled command (`sh.c:609`).
* A history file whose first line is empty loses the border between its first two lines (`sh.c:248`). Not modelled: `Files` leaves such histories out.
* `cd`, `jump` and `rfsh` are not logged and leave the position in the history where it was (`sh.c:787`).

## 7. What could come next

* Proofs: `Streams` of `Pipe`, `RefsCounted` and `NoDangling` of `Fs`, `EditsLines` of `Console`.
* Models: `mknod` and devices in `Fs`, ticks in `Proc`, read errors in `BufCache`, link counts in `Mkfs`.
