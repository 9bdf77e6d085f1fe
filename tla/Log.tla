-------------------------------- MODULE Log --------------------------------
(***************************************************************************)
(* The write-ahead log of log.c, with the part of the buffer cache and of  *)
(* the disk it works on, under machine crashes and panics.                 *)
(*                                                                         *)
(* A panic() is followed by nothing but a reboot.  Other CPUs may run on   *)
(* for a while (only consputc() reads "panicked"), but the operation that  *)
(* panicked never reaches end_op(), so outstanding stays above 0 and no    *)
(* commit writes to the disk any more; what they do is lost.  A reboot is  *)
(* the same step as a crash: all memory is lost, the disk stays.           *)
(*                                                                         *)
(* A block is one disk sector (BSIZE = 512), so one bwrite() either        *)
(* happens or does not; a crash falls between two of them.                 *)
(***************************************************************************)
EXTENDS Naturals, Sequences, FiniteSets

CONSTANTS
  Proc,         \* kernel threads executing file-system calls
  Block,        \* home blocks: every block outside the log area
  Val,          \* block contents
  MAXOPBLOCKS,  \* param.h: blocks begin_op() reserves for an operation
  LOGSIZE,      \* param.h: entries of struct logheader
  NLOG,         \* superblock nlog = log.size: the header block + the data blocks
  OpBlocks      \* distinct blocks an operation of the callers really writes

ASSUME LogConstants ==
  /\ MAXOPBLOCKS \in Nat \ {0}
  /\ LOGSIZE \in Nat
  /\ MAXOPBLOCKS <= LOGSIZE
  /\ NLOG \in Nat
  /\ OpBlocks \in Nat \ {0}
  /\ IsFiniteSet(Proc)

VARIABLES
  \* the disk
  home,         \* contents of the home blocks
  logd,         \* contents of the log's data blocks; slot i is block log.start+i
  hdr,          \* the on-disk header: block[0..n-1]
  \* memory
  sys,          \* "read_head", "recover", "up" or "panic"
  cache,        \* data of the block's buffer; of an uncached block, the disk's
  dirty,        \* blocks whose buffer has B_DIRTY set: pinned in the cache
  lh,           \* log.lh
  outstanding,  \* log.outstanding
  committing,   \* log.committing
  tail,         \* loop index of write_log() and install_trans()
  \* the threads
  pc,           \* where each thread is
  held,         \* the buffer a thread in log_write() holds locked: {} or {b}
  wrote,        \* blocks the thread's current operation has logged
  asleep        \* threads asleep on channel &log

disk == <<home, logd, hdr>>
memory == <<sys, cache, dirty, lh, outstanding, committing, tail>>
threads == <<pc, held, wrote, asleep>>
vars == <<disk, memory, threads>>

CommitPC == {"write_log", "install_trans", "end_commit"}
OpPC == {"in_op", "log_write"}
PC == {"user", "begin_op"} \union OpPC \union CommitPC

Slots == 1..LOGSIZE
Entries(s) == {s[i] : i \in DOMAIN s}

Init ==
  /\ home \in [Block -> Val]
  /\ \E v \in Val : logd = [i \in Slots |-> v]
  /\ hdr = <<>>
  /\ sys = "read_head"
  /\ cache = home
  /\ dirty = {}
  /\ lh = <<>>
  /\ outstanding = 0
  /\ committing = FALSE
  /\ tail = 0
  /\ pc = [p \in Proc |-> "user"]
  /\ held = [p \in Proc |-> {}]
  /\ wrote = [p \in Proc |-> {}]
  /\ asleep = {}

---------------------------------------------------------------------------
(***************************************************************************)
(* begin_op(): sleep while a commit is under way or the log may overflow,  *)
(* else join the transaction.  Testing and sleeping are one step: both     *)
(* happen under log.lock, which sleep() gives up atomically.               *)
(***************************************************************************)
\* Mutant: the operation does not count itself.
MayBegin_OneShort == ~committing /\ Len(lh) + outstanding * MAXOPBLOCKS <= LOGSIZE

MayBegin ==
  /\ ~committing
  /\ Len(lh) + (outstanding + 1) * MAXOPBLOCKS <= LOGSIZE

begin_op(p) ==
  /\ sys = "up"
  /\ pc[p] \in {"user", "begin_op"}
  /\ p \notin asleep
  /\ IF MayBegin
     THEN /\ outstanding' = outstanding + 1
          /\ pc' = [pc EXCEPT ![p] = "in_op"]
          /\ UNCHANGED asleep
     ELSE /\ pc' = [pc EXCEPT ![p] = "begin_op"]
          /\ asleep' = asleep \union {p}
          /\ UNCHANGED outstanding
  /\ UNCHANGED <<disk, sys, cache, dirty, lh, committing, tail, held, wrote>>

(***************************************************************************)
(* The caller of log_write(): it has the buffer of b locked and has stored *)
(* v in it.  Then log_write()'s tests, made before log.lock is taken.      *)
(***************************************************************************)
panic ==
  /\ sys' = "panic"
  /\ UNCHANGED <<disk, dirty, lh, outstanding, committing, tail, threads>>

TooBig == Len(lh) >= LOGSIZE \/ Len(lh) >= NLOG - 1

modify(p, b, v) ==
  /\ sys = "up"
  /\ pc[p] = "in_op"
  /\ \A q \in Proc : b \notin held[q]
  /\ b \in wrote[p] \/ Cardinality(wrote[p]) < OpBlocks
  /\ cache' = [cache EXCEPT ![b] = v]
  /\ IF TooBig \/ outstanding < 1
     THEN panic
     ELSE /\ pc' = [pc EXCEPT ![p] = "log_write"]
          /\ held' = [held EXCEPT ![p] = {b}]
          /\ UNCHANGED <<disk, sys, dirty, lh, outstanding, committing, tail,
                         wrote, asleep>>

\* log_write() under log.lock: absorb or append, pin the buffer; then brelse().
Absorb(s, b) == IF b \in Entries(s) THEN s ELSE Append(s, b)

\* Mutant: the buffer is not pinned.
log_write_Unpinned(p, b) ==
  /\ sys = "up" /\ pc[p] = "log_write" /\ b \in held[p]
  /\ lh' = Absorb(lh, b)
  /\ wrote' = [wrote EXCEPT ![p] = @ \union {b}]
  /\ held' = [held EXCEPT ![p] = {}]
  /\ pc' = [pc EXCEPT ![p] = "in_op"]
  /\ UNCHANGED <<disk, sys, cache, dirty, outstanding, committing, tail, asleep>>

log_write(p, b) ==
  /\ sys = "up"
  /\ pc[p] = "log_write"
  /\ b \in held[p]
  /\ lh' = Absorb(lh, b)
  /\ dirty' = dirty \union {b}
  /\ wrote' = [wrote EXCEPT ![p] = @ \union {b}]
  /\ held' = [held EXCEPT ![p] = {}]
  /\ pc' = [pc EXCEPT ![p] = "in_op"]
  /\ UNCHANGED <<disk, sys, cache, outstanding, committing, tail, asleep>>

(***************************************************************************)
(* end_op(): the last operation out becomes the committer; any other wakes *)
(* the threads waiting in begin_op().  commit() of an empty log does       *)
(* nothing.                                                                *)
(***************************************************************************)
\* Mutant: commit() skips a log of one block.
end_op_SkipsOne(p) ==
  /\ sys = "up" /\ pc[p] = "in_op" /\ ~committing
  /\ outstanding' = outstanding - 1
  /\ wrote' = [wrote EXCEPT ![p] = {}]
  /\ committing' = (outstanding = 1)
  /\ tail' = IF outstanding = 1 THEN 0 ELSE tail
  /\ asleep' = IF outstanding = 1 THEN asleep ELSE {}
  /\ pc' = [pc EXCEPT ![p] = IF outstanding # 1 THEN "user"
                             ELSE IF Len(lh) > 1 THEN "write_log" ELSE "end_commit"]
  /\ UNCHANGED <<disk, sys, cache, dirty, lh, held>>

end_op(p) ==
  /\ sys = "up"
  /\ pc[p] = "in_op"
  /\ outstanding' = outstanding - 1
  /\ wrote' = [wrote EXCEPT ![p] = {}]
  /\ IF committing
     THEN /\ sys' = "panic"
          /\ UNCHANGED <<committing, pc, asleep, tail>>
     ELSE /\ UNCHANGED sys
          /\ IF outstanding = 1
             THEN /\ committing' = TRUE
                  /\ tail' = 0
                  /\ pc' = [pc EXCEPT ![p] = IF lh # <<>> THEN "write_log"
                                                          ELSE "end_commit"]
                  /\ UNCHANGED asleep
             ELSE /\ asleep' = {}
                  /\ pc' = [pc EXCEPT ![p] = "user"]
                  /\ UNCHANGED <<committing, tail>>
  /\ UNCHANGED <<disk, cache, dirty, lh, held>>

---------------------------------------------------------------------------
(***************************************************************************)
(* commit(), one disk write per step.                                      *)
(***************************************************************************)
write_log(p) ==
  /\ sys = "up"
  /\ pc[p] = "write_log"
  /\ tail < Len(lh)
  /\ logd' = [logd EXCEPT ![tail + 1] = cache[lh[tail + 1]]]
  /\ tail' = tail + 1
  /\ UNCHANGED <<home, hdr, sys, cache, dirty, lh, outstanding, committing,
                 threads>>

\* The first write_head() of commit(): the real commit.
\* Mutant: the header is written before the log blocks.
write_head_Early(p) ==
  /\ sys = "up" /\ pc[p] = "write_log"
  /\ hdr' = lh /\ tail' = 0
  /\ pc' = [pc EXCEPT ![p] = "install_trans"]
  /\ UNCHANGED <<home, logd, sys, cache, dirty, lh, outstanding, committing,
                 held, wrote, asleep>>

write_head(p) ==
  /\ sys = "up"
  /\ pc[p] = "write_log"
  /\ tail = Len(lh)
  /\ hdr' = lh
  /\ tail' = 0
  /\ pc' = [pc EXCEPT ![p] = "install_trans"]
  /\ UNCHANGED <<home, logd, sys, cache, dirty, lh, outstanding, committing,
                 held, wrote, asleep>>

\* One turn of install_trans(): read the log block, write the home block.
InstallStep ==
  /\ tail < Len(lh)
  /\ home' = [home EXCEPT ![lh[tail + 1]] = logd[tail + 1]]
  /\ cache' = [cache EXCEPT ![lh[tail + 1]] = logd[tail + 1]]
  /\ dirty' = dirty \ {lh[tail + 1]}
  /\ tail' = tail + 1
  /\ UNCHANGED <<logd, hdr, lh, outstanding, committing, threads>>

\* log.lh.n = 0, then write_head(): the transaction is erased from the log.
EraseHead ==
  /\ tail = Len(lh)
  /\ lh' = <<>>
  /\ hdr' = <<>>
  /\ tail' = 0
  /\ UNCHANGED <<home, logd, cache, dirty, outstanding, committing>>

install_trans(p) ==
  /\ sys = "up"
  /\ pc[p] = "install_trans"
  /\ InstallStep
  /\ UNCHANGED sys

erase_head(p) ==
  /\ sys = "up"
  /\ pc[p] = "install_trans"
  /\ EraseHead
  /\ pc' = [pc EXCEPT ![p] = "end_commit"]
  /\ UNCHANGED <<sys, held, wrote, asleep>>

\* end_op() after commit().
\* Mutant: no wakeup(&log).
end_commit_NoWakeup(p) ==
  /\ sys = "up" /\ pc[p] = "end_commit"
  /\ committing' = FALSE
  /\ pc' = [pc EXCEPT ![p] = "user"]
  /\ UNCHANGED <<disk, sys, cache, dirty, lh, outstanding, tail, held, wrote, asleep>>

end_commit(p) ==
  /\ sys = "up"
  /\ pc[p] = "end_commit"
  /\ committing' = FALSE
  /\ asleep' = {}
  /\ pc' = [pc EXCEPT ![p] = "user"]
  /\ UNCHANGED <<disk, sys, cache, dirty, lh, outstanding, tail, held, wrote>>

---------------------------------------------------------------------------
(***************************************************************************)
(* initlog() at boot: recover_from_log() runs before any other thread uses *)
(* the file system.                                                        *)
(***************************************************************************)
read_head ==
  /\ sys = "read_head"
  /\ lh' = hdr
  /\ tail' = 0
  /\ sys' = "recover"
  /\ UNCHANGED <<disk, cache, dirty, outstanding, committing, threads>>

recover_install ==
  /\ sys = "recover"
  /\ InstallStep
  /\ UNCHANGED sys

recover_done ==
  /\ sys = "recover"
  /\ EraseHead
  /\ sys' = "up"
  /\ UNCHANGED threads

\* Power loss, or the reboot after a panic.
crash ==
  /\ sys' = "read_head"
  /\ cache' = home
  /\ dirty' = {}
  /\ lh' = <<>>
  /\ outstanding' = 0
  /\ committing' = FALSE
  /\ tail' = 0
  /\ pc' = [p \in Proc |-> "user"]
  /\ held' = [p \in Proc |-> {}]
  /\ wrote' = [p \in Proc |-> {}]
  /\ asleep' = {}
  /\ UNCHANGED disk

CommitStep(p) ==
  write_log(p) \/ write_head(p) \/ install_trans(p) \/ erase_head(p) \/ end_commit(p)

Next ==
  \/ \E p \in Proc : begin_op(p) \/ end_op(p) \/ CommitStep(p)
  \/ \E p \in Proc, b \in Block, v \in Val : modify(p, b, v)
  \/ \E p \in Proc, b \in Block : log_write(p, b)
  \/ read_head \/ recover_install \/ recover_done \/ crash

Spec == Init /\ [][Next]_vars

---------------------------------------------------------------------------
(***************************************************************************)
(* Properties.                                                             *)
(***************************************************************************)
TypeOK ==
  /\ home \in [Block -> Val]
  /\ logd \in [Slots -> Val]
  /\ hdr \in Seq(Block)
  /\ sys \in {"read_head", "recover", "up", "panic"}
  /\ cache \in [Block -> Val]
  /\ dirty \subseteq Block
  /\ lh \in Seq(Block)
  /\ outstanding \in Nat
  /\ committing \in BOOLEAN
  /\ tail \in Nat
  /\ pc \in [Proc -> PC]
  /\ held \in [Proc -> SUBSET Block]
  /\ wrote \in [Proc -> SUBSET Block]
  /\ asleep \subseteq Proc

\* The contents recovery would leave if the machine crashed now.
Recovered ==
  [b \in Block |-> IF b \in Entries(hdr)
                   THEN logd[CHOOSE i \in DOMAIN hdr : hdr[i] = b]
                   ELSE home[b]]

\* What running operations see; while the machine is down or recovering, what
\* they will find.
Visible == IF sys \in {"up", "panic"} THEN cache ELSE Recovered

Active == {p \in Proc : pc[p] \in OpPC}

\* Group commit with redo recovery gives the file system an atomic disk: a
\* crash at any point of commit() or of recovery itself shows either all or
\* none of the operations of a transaction.
AD == INSTANCE AtomicDisk WITH stable <- Recovered, current <- Visible, active <- Active
CrashAtomic == AD!Spec

\* begin_op()'s reservation is enough: no operation meets panic("too big a
\* transaction") or panic("log_write outside of trans"), and no end_op() meets
\* panic("log.committing").
NoPanic == sys # "panic"

\* write_log() stays inside the log area: log.start + n is the last block used
\* and the area ends at log.start + log.size - 1.
LogInBounds == Len(lh) < NLOG /\ Len(lh) <= LOGSIZE

\* No lost wakeup in begin_op(): a thread asleep on &log has someone who will
\* call wakeup(&log), the committer or an operation still to end.
SleeperHasWaker ==
  sys = "up" /\ asleep # {} =>
    \E p \in Proc : pc[p] \in OpPC \union CommitPC

\* bget() may recycle any buffer that is neither dirty nor in use.  Doing so
\* never loses an update: such a buffer equals its disk block.
EvictionSafe ==
  sys = "up" =>
    \A b \in Block : \/ cache[b] = home[b]
                     \/ b \in dirty
                     \/ \E p \in Proc : b \in held[p]

\* end_op() is a synchronous commit point: whenever no operation is active and
\* no commit is running, everything written so far survives a crash.
QuiescentIsDurable ==
  sys = "up" /\ outstanding = 0 /\ ~committing => Recovered = cache /\ hdr = <<>>

---------------------------------------------------------------------------
(***************************************************************************)
(* The inductive invariant behind the properties.                          *)
(***************************************************************************)
Injective(s) == \A i, j \in DOMAIN s : s[i] = s[j] => i = j

Committers == {p \in Proc : pc[p] \in CommitPC}
Booting == sys \in {"read_head", "recover"}

\* log.outstanding counts the threads inside an operation; log.committing
\* says that one thread, and only one, is in commit(), with no operation open.
CountInv ==
  /\ outstanding = Cardinality(Active)
  /\ \A p, q \in Committers : p = q
  /\ committing <=> Committers # {}
  /\ committing => Active = {}

\* A thread holds a buffer only inside log_write(), at most one; a locked
\* buffer has one holder; and nobody runs while the log is being recovered.
ThreadInv ==
  /\ \A p \in Proc : pc[p] # "log_write" => held[p] = {}
  /\ \A p \in Proc : \A b, c \in held[p] : b = c
  /\ \A p, q \in Proc : p # q => held[p] \intersect held[q] = {}
  /\ \A p \in Proc : p \in asleep => pc[p] = "begin_op"
  /\ Booting => /\ \A p \in Proc : pc[p] = "user"
                /\ asleep = {}

\* The log is empty between transactions.
IdleInv ==
  /\ sys = "up" /\ Active = {} /\ ~committing => lh = <<>>
  /\ \A p \in Proc : pc[p] = "end_commit" => lh = <<>>

\* Operations have logged what they wrote and stay within OpBlocks.
WroteInv ==
  /\ \A p \in Proc : /\ wrote[p] \subseteq Entries(lh)
                     /\ IsFiniteSet(wrote[p])
                     /\ Cardinality(wrote[p]) <= OpBlocks
                     /\ pc[p] \notin OpPC => wrote[p] = {}
  /\ \A p \in Proc : \A b \in held[p] :
       b \in wrote[p] \/ Cardinality(wrote[p]) < OpBlocks

\* The log blocks the open operations may still add: one token each.
Tokens == {t \in Active \X (1..OpBlocks) : Cardinality(wrote[t[1]]) < t[2]}

\* Blocks logged plus blocks that may still come never exceed LOGSIZE - 2.
BudgetInv ==
  /\ Len(lh) + Cardinality(Tokens) <= LOGSIZE - 2
  /\ Len(hdr) <= LOGSIZE - 2
  /\ sys # "panic"

\* What is on the disk in each phase of commit() and of recovery.
DiskInv ==
  /\ Injective(lh) /\ Injective(hdr)
  /\ Booting => cache = home
  /\ sys = "read_head" => lh = <<>>
  /\ sys = "recover" =>
       /\ lh = hdr
       /\ tail <= Len(lh)
       /\ \A i \in 1..tail : home[lh[i]] = logd[i]
  /\ sys = "up" =>
       /\ (\A p \in Proc : pc[p] # "install_trans") => hdr = <<>>
       /\ \A b \in Block :
            b \in Entries(lh) \/ cache[b] = home[b] \/ \E p \in Proc : b \in held[p]
  /\ \A p \in Proc :
       /\ pc[p] = "write_log" =>
            /\ tail <= Len(lh)
            /\ \A i \in 1..tail : logd[i] = cache[lh[i]]
       /\ pc[p] = "install_trans" =>
            /\ hdr = lh
            /\ tail <= Len(lh)
            /\ \A i \in 1..Len(lh) : logd[i] = cache[lh[i]]
            /\ \A i \in 1..tail : home[lh[i]] = logd[i]

\* The log's phases and counts hang together: the inductive invariant that the
\* reservation argument of begin_op() and the phases of commit() rest on.
LogInv == CountInv /\ ThreadInv /\ IdleInv /\ WroteInv /\ BudgetInv /\ DiskInv

\* The relation of the sizes under which the reservation is enough.  The
\* kernel has MAXOPBLOCKS = 10, LOGSIZE = 30, and mkfs writes NLOG = LOGSIZE.
LogFits ==
  /\ OpBlocks < MAXOPBLOCKS
  /\ MAXOPBLOCKS < LOGSIZE
  /\ LOGSIZE <= NLOG
============================================================================
