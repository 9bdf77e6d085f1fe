------------------------------ MODULE BufCache ------------------------------
(***************************************************************************)
(* The buffer cache of bio.c on top of the disk driver of ide.c.           *)
(*                                                                         *)
(* One step is one critical section of bcache.lock or of idelock, or one   *)
(* sleep-lock operation; a sleep-lock is taken when it is free (Sched has  *)
(* the steps of acquiresleep()).  A thread may use a second buffer while   *)
(* it holds one, in the orders Nests: the log block, then the home block,  *)
(* in write_log() and install_trans(); the indirect block, then the        *)
(* bitmap, in bmap() and itrunc().  After a panic() nothing happens any    *)
(* more, which TLC reports as a deadlock.                                  *)
(***************************************************************************)
EXTENDS Naturals, Sequences, FiniteSets

CONSTANTS
  Thread,      \* kernel threads
  Block,       \* disk blocks
  Val,         \* block contents
  NBUF,        \* buffers in the cache
  Logged,      \* blocks that callers change through log_write()
  Direct,      \* blocks of the log, changed by bwrite()
  Nests        \* <<b, c>>: c may be read while b is held

Buf == 1..NBUF
NoBlock == "no block"      \* dev 0, which binit() leaves in every buffer

ASSUME BufConstants ==
  /\ NBUF \in Nat \ {0}
  /\ Logged \subseteq Block /\ Direct \subseteq Block \ Logged
  /\ NoBlock \notin Block
  /\ IsFiniteSet(Thread)
  /\ Nests \subseteq Block \X Block
  /\ \A n \in Block : <<n, n>> \notin Nests

VARIABLES
  disk,        \* contents of the blocks on the drive
  blockno,     \* per buffer: the block it caches
  valid,       \* buffers with B_VALID
  dirty,       \* buffers with B_DIRTY
  refcnt,
  data,
  lru,         \* the list through bcache.head, most recently used first
  lock,        \* per buffer: who holds b->lock, {} or {t}
  idequeue,    \* the driver's queue; its head is in the drive
  drive,       \* the command idestart() gave the drive: <<>> or <<block, write, data>>
  pc,          \* where each thread is
  arg,         \* per thread: the buffer of the call it is in, {} or {b}
  held,        \* per thread: the buffers it has from bread()
  asleep,      \* threads asleep in iderw(), on their buffer
  sys          \* "up" or "panic"

driver == <<disk, idequeue, drive>>
vars == <<disk, blockno, valid, dirty, refcnt, data, lru, lock, idequeue, drive, pc, arg,
          held, asleep, sys>>

PC == {"run", "acquiresleep", "iderw", "sleep", "brelse"}

Init ==
  /\ \E v \in Val : disk = [n \in Block |-> v]
  /\ blockno = [b \in Buf |-> NoBlock]
  /\ valid = {}
  /\ dirty = {}
  /\ refcnt = [b \in Buf |-> 0]
  /\ \E v \in Val : data = [b \in Buf |-> v]
  /\ lru = [i \in Buf |-> NBUF + 1 - i]
  /\ lock = [b \in Buf |-> {}]
  /\ idequeue = <<>>
  /\ drive = <<>>
  /\ pc = [t \in Thread |-> "run"]
  /\ arg = [t \in Thread |-> {}]
  /\ held = [t \in Thread |-> {}]
  /\ asleep = {}
  /\ sys = "up"

---------------------------------------------------------------------------
At(t, label) == sys = "up" /\ pc[t] = label
Goto(t, label) == pc' = [pc EXCEPT ![t] = label]

panic ==
  /\ sys' = "panic"
  /\ UNCHANGED <<driver, blockno, valid, dirty, refcnt, data, lru, lock, pc, arg, held, asleep>>

(***************************************************************************)
(* bget(): the cached buffer, or the least recently used one that is       *)
(* neither referenced nor dirty, or panic.  Then acquiresleep(), and       *)
(* bread()'s test of B_VALID.                                              *)
(***************************************************************************)
\* Mutant: a dirty buffer is recycled.
Recyclable_Dirty(b) == refcnt[b] = 0

Cached(n) == {b \in Buf : blockno[b] = n}
Recyclable(b) == refcnt[b] = 0 /\ b \notin dirty

MayRead(t, n) ==
  \/ held[t] = {}
  \/ \E b \in Buf : held[t] = {b} /\ <<blockno[b], n>> \in Nests

recycle(b, n) ==
  /\ blockno' = [blockno EXCEPT ![b] = n]
  /\ valid' = valid \ {b}
  /\ refcnt' = [refcnt EXCEPT ![b] = 1]

bget(t, n) ==
  /\ At(t, "run") /\ MayRead(t, n)
  /\ LET free == {i \in Buf : Recyclable(lru[i])}
     IN IF Cached(n) = {} /\ free = {}
        THEN panic
        ELSE /\ IF Cached(n) # {}
                THEN \E b \in Cached(n) :
                       /\ refcnt' = [refcnt EXCEPT ![b] = @ + 1]
                       /\ arg' = [arg EXCEPT ![t] = {b}]
                       /\ UNCHANGED <<blockno, valid>>
                ELSE \E i \in free :
                       /\ \A j \in free : j <= i
                       /\ recycle(lru[i], n)
                       /\ arg' = [arg EXCEPT ![t] = {lru[i]}]
             /\ Goto(t, "acquiresleep")
             /\ UNCHANGED <<driver, dirty, data, lru, lock, held, asleep, sys>>

acquiresleep(t, b) ==
  /\ At(t, "acquiresleep") /\ arg[t] = {b}
  /\ lock[b] = {}
  /\ lock' = [lock EXCEPT ![b] = {t}]
  /\ IF b \in valid
     THEN /\ held' = [held EXCEPT ![t] = @ \union {b}]
          /\ arg' = [arg EXCEPT ![t] = {}]
          /\ Goto(t, "run")
     ELSE Goto(t, "iderw") /\ UNCHANGED <<held, arg>>
  /\ UNCHANGED <<driver, blockno, valid, dirty, refcnt, data, lru, asleep, sys>>

(***************************************************************************)
(* What the holder does.  The caller of log_write() stores its data and    *)
(* pins the buffer; commit() later unpins it with bwrite().                *)
(***************************************************************************)
log_write(t, b, v) ==
  /\ At(t, "run") /\ b \in held[t]
  /\ blockno[b] \in Logged
  /\ data' = [data EXCEPT ![b] = v]
  /\ dirty' = dirty \union {b}
  /\ UNCHANGED <<driver, blockno, valid, refcnt, lru, lock, pc, arg, held, asleep, sys>>

bwrite(t, b, v) ==
  /\ At(t, "run") /\ b \in held[t]
  /\ blockno[b] \in Direct \/ (b \in dirty /\ v = data[b])
  /\ data' = [data EXCEPT ![b] = v]
  /\ dirty' = dirty \union {b}
  /\ arg' = [arg EXCEPT ![t] = {b}]
  /\ Goto(t, "iderw")
  /\ UNCHANGED <<driver, blockno, valid, refcnt, lru, lock, held, asleep, sys>>

\* brelse(), first half: the sleep-lock is given up before bcache.lock is taken.
releasesleep(t, b) ==
  /\ At(t, "run") /\ b \in held[t]
  /\ lock' = [lock EXCEPT ![b] = {}]
  /\ held' = [held EXCEPT ![t] = @ \ {b}]
  /\ arg' = [arg EXCEPT ![t] = {b}]
  /\ Goto(t, "brelse")
  /\ UNCHANGED <<driver, blockno, valid, dirty, refcnt, data, lru, asleep, sys>>

tofront(b) ==
  LET i == CHOOSE j \in Buf : lru[j] = b
  IN  [k \in Buf |-> IF k = 1 THEN b ELSE IF k <= i THEN lru[k - 1] ELSE lru[k]]

brelse(t, b) ==
  /\ At(t, "brelse") /\ arg[t] = {b}
  /\ refcnt' = [refcnt EXCEPT ![b] = @ - 1]
  /\ lru' = IF refcnt[b] = 1 THEN tofront(b) ELSE lru
  /\ arg' = [arg EXCEPT ![t] = {}]
  /\ Goto(t, "run")
  /\ UNCHANGED <<driver, blockno, valid, dirty, data, lock, held, asleep, sys>>

---------------------------------------------------------------------------
(***************************************************************************)
(* The driver.  idestart() gives the drive its command, with the data if   *)
(* it is a write; iderw() queues a buffer and sleeps until it is in sync.  *)
(***************************************************************************)
idestart(b) == <<blockno[b], b \in dirty, data[b]>>

\* The loop of iderw(): return to the caller of bread() or bwrite(), or sleep.
InSync(b) == b \in valid /\ b \notin dirty

iderw(t, b) ==
  /\ At(t, "iderw") /\ arg[t] = {b}
  /\ IF InSync(b)
     THEN panic
     ELSE /\ idequeue' = Append(idequeue, b)
          /\ drive' = IF idequeue = <<>> THEN idestart(b) ELSE drive
          /\ asleep' = asleep \union {t}
          /\ Goto(t, "sleep")
          /\ UNCHANGED <<disk, blockno, valid, dirty, refcnt, data, lru, lock, arg, held, sys>>

iderw_return(t, b) ==
  /\ At(t, "sleep") /\ arg[t] = {b} /\ t \notin asleep
  /\ IF InSync(b)
     THEN /\ held' = [held EXCEPT ![t] = @ \union {b}]
          /\ arg' = [arg EXCEPT ![t] = {}]
          /\ Goto(t, "run")
          /\ UNCHANGED asleep
     ELSE asleep' = asleep \union {t} /\ UNCHANGED <<held, arg, pc>>
  /\ UNCHANGED <<driver, blockno, valid, dirty, refcnt, data, lru, lock, sys>>

\* Mutant: the next request is not started.
next_NotStarted == <<>>

wakeup(b) == asleep \ {t \in Thread : arg[t] = {b}}
next == IF Len(idequeue) > 1 THEN idestart(idequeue[2]) ELSE <<>>

\* The drive has carried out its command, without an error; the interrupt
\* handler.
ideintr ==
  /\ sys = "up" /\ drive # <<>>
  /\ disk' = IF drive[2] THEN [disk EXCEPT ![drive[1]] = drive[3]] ELSE disk
  /\ LET b == Head(idequeue)
     IN /\ \/ b \in dirty /\ UNCHANGED data
           \/ b \notin dirty /\ data' = [data EXCEPT ![b] = disk[drive[1]]]
        /\ valid' = valid \union {b}
        /\ dirty' = dirty \ {b}
        /\ asleep' = wakeup(b)
        /\ idequeue' = Tail(idequeue)
        /\ drive' = next
  /\ UNCHANGED <<blockno, refcnt, lru, lock, pc, arg, held, sys>>

Step(t) ==
  \/ \E b \in Buf : acquiresleep(t, b) \/ iderw(t, b) \/ iderw_return(t, b) \/ brelse(t, b)
  \/ \E b \in Buf : releasesleep(t, b)

Next ==
  \/ \E t \in Thread : Step(t)
  \/ \E t \in Thread, n \in Block : bget(t, n)
  \/ \E t \in Thread, b \in Buf, v \in Val : log_write(t, b, v) \/ bwrite(t, b, v)
  \/ ideintr

Spec == Init /\ [][Next]_vars

---------------------------------------------------------------------------
(***************************************************************************)
(* Properties.                                                             *)
(***************************************************************************)
TypeOK ==
  /\ disk \in [Block -> Val]
  /\ blockno \in [Buf -> Block \union {NoBlock}]
  /\ valid \subseteq Buf /\ dirty \subseteq Buf
  /\ refcnt \in [Buf -> Nat]
  /\ data \in [Buf -> Val]
  /\ lru \in [Buf -> Buf]
  /\ lock \in [Buf -> SUBSET Thread]
  /\ idequeue \in Seq(Buf)
  /\ drive \in {<<>>} \union (Block \X BOOLEAN \X Val)
  /\ pc \in [Thread -> PC]
  /\ arg \in [Thread -> SUBSET Buf]
  /\ held \in [Thread -> SUBSET Buf]
  /\ asleep \subseteq Thread
  /\ sys \in {"up", "panic"}

\* The driver's queue: each request belongs to the thread that holds the lock
\* of the buffer and sleeps on it, the drive works on the first one, and every
\* sleeper has a request to wake it.
DriverQueue ==
  /\ \A i, j \in DOMAIN idequeue : idequeue[i] = idequeue[j] => i = j
  /\ \A i \in DOMAIN idequeue : \E t \in asleep :
       arg[t] = {idequeue[i]} /\ lock[idequeue[i]] = {t}
  /\ \A t \in asleep : \E i \in DOMAIN idequeue : arg[t] = {idequeue[i]}
  /\ drive = IF idequeue = <<>> THEN <<>> ELSE idestart(Head(idequeue))

\* The cache keeps what its header comment promises: a block is used by one
\* thread at a time and keeps its contents through recycling, pinning, queued
\* writes and reads.
Content ==
  [n \in Block |->
     IF \E b \in Buf : blockno[b] = n /\ (b \in valid \/ b \in dirty)
     THEN data[CHOOSE b \in Buf : blockno[b] = n /\ (b \in valid \/ b \in dirty)]
     ELSE disk[n]]
Holder == [n \in Block |-> {t \in Thread : \E b \in held[t] : blockno[b] = n}]

BS == INSTANCE BlockStore WITH holder <- Holder, content <- Content
KeepsBlocks == BS!Spec
=============================================================================
