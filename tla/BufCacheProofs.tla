--------------------------- MODULE BufCacheProofs ---------------------------
(***************************************************************************)
(* The buffer cache and the disk driver, for any number of threads, blocks *)
(* and buffers: an inductive invariant, that the driver's queue is always  *)
(* right (DriverQueue), and that they implement BlockStore (KeepsBlocks).  *)
(*                                                                         *)
(* The invariant joins what bio.c and ide.c rely on but state nowhere: a   *)
(* block is in one buffer, refcnt counts the threads that use the buffer,  *)
(* a lock is held by the thread that is between bread() and brelse() or in *)
(* iderw() with it, a valid buffer that is not dirty has what the disk     *)
(* has, and a thread that has been woken in iderw() is in sync.            *)
(***************************************************************************)
EXTENDS BufCache, FiniteSetTheorems, TLAPS

USE ZenonT(5), SMTT(30)

\* The threads that use b: they hold it or are in a call with it.
UsedBy(b) == {t \in Thread : b \in held[t] \union arg[t]}

\* bget() never gives a block a second buffer.
OneBuffer ==
  \A b, c \in Buf : blockno[b] = blockno[c] /\ blockno[b] # NoBlock => b = c

\* refcnt is the number of the buffer's users.
RefsCounted == \A b \in Buf : refcnt[b] = Cardinality(UsedBy(b))

\* A thread in a call has one buffer in hand, which it does not hold while it
\* waits for the lock or has given it up; a buffer in use has a block.
CallInv ==
  \A t \in Thread :
    /\ pc[t] = "run" => arg[t] = {}
    /\ pc[t] # "run" => \E b \in Buf : arg[t] = {b}
    /\ pc[t] \in {"acquiresleep", "brelse"} => arg[t] \intersect held[t] = {}
    /\ \A b \in held[t] \union arg[t] : blockno[b] # NoBlock

\* The sleep-lock of a buffer belongs to the one thread that holds it, or is in
\* iderw() with it.
LockInv ==
  /\ \A b \in Buf, t \in Thread :
       t \in lock[b] <=> b \in held[t] \/ (b \in arg[t] /\ pc[t] \in {"iderw", "sleep"})
  /\ \A b \in Buf : \A t, u \in lock[b] : t = u

\* A dirty buffer is valid, so is a held one, and a valid one that is not dirty
\* agrees with the disk.
DataInv ==
  /\ dirty \subseteq valid
  /\ \A t \in Thread : held[t] \subseteq valid
  /\ \A b \in valid : blockno[b] # NoBlock
  /\ \A b \in valid \ dirty : data[b] = disk[blockno[b]]

\* Only threads in iderw() sleep, and one that has been woken finds its buffer
\* in sync.
SleepInv ==
  \A t \in Thread :
    /\ t \in asleep => pc[t] = "sleep"
    /\ pc[t] = "sleep" /\ t \notin asleep => \A b \in arg[t] : InSync(b)

\* The inductive invariant.
Inv ==
  /\ TypeOK /\ OneBuffer /\ RefsCounted /\ CallInv /\ LockInv
  /\ DataInv /\ SleepInv /\ DriverQueue

-----------------------------------------------------------------------------

\* A buffer has finitely many users.
LEMMA UsedByFinite == \A b \in Buf : IsFiniteSet(UsedBy(b)) /\ Cardinality(UsedBy(b)) \in Nat
<1> TAKE b \in Buf
<1>1. UsedBy(b) \subseteq Thread
  BY DEF UsedBy
<1> QED BY <1>1, BufConstants, FS_Subset, FS_CardinalityType

\* binit() leaves the invariant true.
LEMMA InitInv == Init => Inv
<1> SUFFICES ASSUME Init PROVE Inv
  OBVIOUS
<1> USE DEF Init
<1>1. TypeOK
  <2>1. lru \in [Buf -> Buf]
    BY BufConstants, SMT DEF Buf
  <2> QED BY <2>1, SMT DEF TypeOK, PC
<1>2. RefsCounted
  <2>1. \A b \in Buf : UsedBy(b) = {}
    BY DEF UsedBy
  <2> QED BY <2>1, FS_EmptySet DEF RefsCounted
<1>3. OneBuffer /\ CallInv /\ LockInv /\ DataInv /\ SleepInv
  BY DEF OneBuffer, CallInv, LockInv, DataInv, SleepInv
<1>4. DriverQueue
  BY SMT DEF DriverQueue
<1> QED BY <1>1, <1>2, <1>3, <1>4 DEF Inv

\* Who uses a buffer decides its count.
LEMMA SameUsers ==
  ASSUME RefsCounted, UNCHANGED refcnt,
         \A u \in Thread : held'[u] \union arg'[u] = held[u] \union arg[u]
  PROVE  RefsCounted'
<1>1. \A b \in Buf : UsedBy(b)' = UsedBy(b)
  BY DEF UsedBy
<1> QED BY <1>1 DEF RefsCounted

\* A buffer in the driver's queue belongs to a sleeping thread.
LEMMA QueuedIsLocked ==
  ASSUME Inv, NEW i \in DOMAIN idequeue
  PROVE  /\ idequeue[i] \in Buf
         /\ \E u \in asleep : /\ u \in Thread /\ pc[u] = "sleep"
                              /\ arg[u] = {idequeue[i]} /\ lock[idequeue[i]] = {u}
<1>1. idequeue[i] \in Buf
  BY SMT DEF Inv, TypeOK
<1>2. PICK u \in asleep : arg[u] = {idequeue[i]} /\ lock[idequeue[i]] = {u}
  BY DEF Inv, DriverQueue
<1>3. u \in Thread /\ pc[u] = "sleep"
  BY DEF Inv, TypeOK, SleepInv
<1> QED BY <1>1, <1>2, <1>3

\* A step that touches no queued buffer and no sleeper leaves the queue right.
LEMMA DriverFrame ==
  ASSUME Inv, UNCHANGED <<idequeue, drive, asleep>>,
         \A u \in asleep : arg'[u] = arg[u],
         \A i \in DOMAIN idequeue :
           /\ blockno'[idequeue[i]] = blockno[idequeue[i]]
           /\ data'[idequeue[i]] = data[idequeue[i]]
           /\ lock'[idequeue[i]] = lock[idequeue[i]]
           /\ idequeue[i] \in dirty' <=> idequeue[i] \in dirty
  PROVE  DriverQueue'
<1> USE DEF Inv
<1>1. idequeue # <<>> => idestart(Head(idequeue))' = idestart(Head(idequeue))
  <2> SUFFICES ASSUME idequeue # <<>> PROVE idestart(Head(idequeue))' = idestart(Head(idequeue))
    OBVIOUS
  <2>1. 1 \in DOMAIN idequeue /\ Head(idequeue) = idequeue[1]
    BY SMT DEF TypeOK
  <2>2. (idequeue[1] \in dirty') = (idequeue[1] \in dirty)
    BY <2>1, SMT
  <2> QED BY <2>1, <2>2 DEF idestart
<1>2. drive = IF idequeue = <<>> THEN <<>> ELSE idestart(Head(idequeue))
  BY DEF DriverQueue
<1>3. \A i \in DOMAIN idequeue : \E u \in asleep :
        arg'[u] = {idequeue[i]} /\ lock'[idequeue[i]] = {u}
  <2> TAKE i \in DOMAIN idequeue
  <2>1. PICK u \in asleep : arg[u] = {idequeue[i]} /\ lock[idequeue[i]] = {u}
    BY DEF DriverQueue
  <2> WITNESS u \in asleep
  <2> QED BY <2>1
<1>4. \A u \in asleep : \E i \in DOMAIN idequeue : arg'[u] = {idequeue[i]}
  BY SMT DEF DriverQueue
<1>5. \A i, j \in DOMAIN idequeue : idequeue[i] = idequeue[j] => i = j
  BY DEF DriverQueue
<1> QED BY <1>1, <1>2, <1>3, <1>4, <1>5 DEF DriverQueue

\* The thread that holds a buffer at "run" is not in the driver with it.
LEMMA HeldNotQueued ==
  ASSUME Inv, NEW t \in Thread, NEW b \in Buf, t \in lock[b], pc[t] # "sleep"
  PROVE  /\ lock[b] = {t}
         /\ \A i \in DOMAIN idequeue : idequeue[i] # b
         /\ \A u \in Thread : pc[u] = "sleep" => b \notin arg[u]
<1>1. lock[b] = {t}
  BY SMT DEF Inv, LockInv
<1>2. \A i \in DOMAIN idequeue : idequeue[i] # b
  BY <1>1, QueuedIsLocked
<1>3. \A u \in Thread : pc[u] = "sleep" => b \notin arg[u]
  BY <1>1 DEF Inv, LockInv
<1> QED BY <1>1, <1>2, <1>3

\* A panic changes nothing the invariant speaks of.
LEMMA PanicStep ==
  ASSUME Inv, panic
  PROVE  Inv'
<1> USE DEF Inv, panic, driver
<1>1. TypeOK'
  BY DEF TypeOK
<1>2. OneBuffer' /\ CallInv' /\ LockInv' /\ DataInv'
  BY SMT DEF OneBuffer, CallInv, LockInv, DataInv
<1>3. RefsCounted'
  BY SameUsers
<1>4. SleepInv'
  BY DEF SleepInv, InSync
<1>5. DriverQueue'
  BY DriverFrame
<1> QED BY <1>1, <1>2, <1>3, <1>4, <1>5

\* log_write() pins a buffer its caller has locked.
LEMMA LogWriteStep ==
  ASSUME Inv, NEW t \in Thread, NEW b \in Buf, NEW v \in Val, log_write(t, b, v)
  PROVE  Inv'
<1> USE DEF log_write, At, driver
<1>1. TypeOK'
  BY DEF Inv, TypeOK
<1>2. OneBuffer' /\ CallInv' /\ LockInv'
  BY SMT DEF Inv, OneBuffer, CallInv, LockInv
<1>3. RefsCounted'
  BY SameUsers DEF Inv
<1>4. DataInv'
  BY DEF Inv, DataInv, TypeOK
<1>5. t \in lock[b] /\ pc[t] # "sleep"
  BY DEF Inv, LockInv
<1>6. SleepInv'
  BY <1>5, HeldNotQueued DEF Inv, SleepInv, InSync, TypeOK
<1>7. DriverQueue'
  BY <1>5, HeldNotQueued, DriverFrame, QueuedIsLocked DEF Inv, TypeOK
<1> QED BY <1>1, <1>2, <1>3, <1>4, <1>6, <1>7 DEF Inv

\* bwrite() goes to iderw() with a buffer its caller has locked.
LEMMA BwriteStep ==
  ASSUME Inv, NEW t \in Thread, NEW b \in Buf, NEW v \in Val, bwrite(t, b, v)
  PROVE  Inv'
<1> USE DEF bwrite, At, Goto, driver
<1>1. TypeOK'
  BY DEF Inv, TypeOK, PC
<1>2. OneBuffer'
  BY DEF Inv, OneBuffer
<1>3. RefsCounted'
  <2>1. \A u \in Thread : held'[u] \union arg'[u] = held[u] \union arg[u]
    BY SMT DEF Inv, TypeOK, CallInv
  <2> QED BY <2>1, SameUsers DEF Inv
<1>4. CallInv'
  BY DEF Inv, TypeOK, CallInv
<1>5. LockInv'
  BY SMT DEF Inv, TypeOK, CallInv, LockInv
<1>6. DataInv'
  BY DEF Inv, DataInv, TypeOK
<1>7. t \in lock[b] /\ pc[t] # "sleep"
  BY DEF Inv, LockInv
<1>8. SleepInv'
  BY <1>7, HeldNotQueued DEF Inv, SleepInv, InSync, TypeOK
<1>9. DriverQueue'
  <2>1. t \notin asleep
    BY <1>7 DEF Inv, SleepInv
  <2> QED BY <2>1, <1>7, HeldNotQueued, DriverFrame, QueuedIsLocked DEF Inv, TypeOK
<1> QED BY <1>1, <1>2, <1>3, <1>4, <1>5, <1>6, <1>8, <1>9 DEF Inv

\* bget(): a cached buffer gets one more user; a recycled one has had none, so
\* nobody holds its lock and the driver does not know it.
LEMMA BgetStep ==
  ASSUME Inv, NEW t \in Thread, NEW n \in Block, bget(t, n)
  PROVE  Inv'
<1> DEFINE free == {i \in Buf : Recyclable(lru[i])}
<1>a. pc[t] = "run" /\ MayRead(t, n) /\ arg[t] = {} /\ t \notin asleep
  BY DEF bget, At, Inv, CallInv, SleepInv
<1>b. n # NoBlock /\ n \in Block \union {NoBlock}
  BY BufConstants
<1>1. CASE Cached(n) = {} /\ free = {}
  BY <1>1, PanicStep DEF bget
<1>2. CASE Cached(n) # {}
  <2>1. PICK b \in Cached(n) : /\ refcnt' = [refcnt EXCEPT ![b] = @ + 1]
                               /\ arg' = [arg EXCEPT ![t] = {b}]
                               /\ UNCHANGED <<blockno, valid>>
    BY <1>2 DEF bget
  <2>2. pc' = [pc EXCEPT ![t] = "acquiresleep"]
        /\ UNCHANGED <<driver, dirty, data, lru, lock, held, asleep, sys>>
    BY <1>2 DEF bget, Goto
  <2>3. b \in Buf /\ blockno[b] = n
    BY DEF Cached
  <2>4. b \notin held[t]
    BY <1>a, <1>b, <2>3, BufConstants DEF MayRead
  <2> USE <1>a, <1>b, <2>1, <2>2, <2>3, <2>4 DEF Inv, driver
  <2>5. TypeOK'
    BY SMT DEF TypeOK, PC
  <2>6. OneBuffer' /\ DataInv'
    BY DEF OneBuffer, DataInv
  <2>7. RefsCounted'
    <3>1. UsedBy(b)' = UsedBy(b) \union {t} /\ t \notin UsedBy(b)
      BY SMT DEF UsedBy, TypeOK
    <3>2. \A c \in Buf \ {b} : UsedBy(c)' = UsedBy(c)
      BY DEF UsedBy, TypeOK
    <3>3. Cardinality(UsedBy(b)') = Cardinality(UsedBy(b)) + 1
      BY <3>1, UsedByFinite, FS_AddElement
    <3> QED BY <3>2, <3>3 DEF RefsCounted, TypeOK
  <2>8. CallInv' /\ LockInv'
    BY SMT DEF TypeOK, CallInv, LockInv
  <2>9. SleepInv'
    BY DEF SleepInv, InSync, TypeOK
  <2>10. DriverQueue'
    BY DriverFrame DEF TypeOK
  <2> QED BY <2>5, <2>6, <2>7, <2>8, <2>9, <2>10
<1>3. CASE Cached(n) = {} /\ free # {}
  <2>1. PICK b \in Buf : /\ Recyclable(b) /\ recycle(b, n)
                         /\ arg' = [arg EXCEPT ![t] = {b}]
    <3>1. PICK i \in free : recycle(lru[i], n) /\ arg' = [arg EXCEPT ![t] = {lru[i]}]
      BY <1>3 DEF bget
    <3>2. lru[i] \in Buf /\ Recyclable(lru[i])
      BY DEF Inv, TypeOK
    <3> QED BY <3>1, <3>2
  <2>2. pc' = [pc EXCEPT ![t] = "acquiresleep"]
        /\ UNCHANGED <<driver, dirty, data, lru, lock, held, asleep, sys>>
    BY <1>3 DEF bget, Goto
  <2>3. refcnt[b] = 0 /\ b \notin dirty
    BY <2>1 DEF Recyclable
  <2>4. blockno' = [blockno EXCEPT ![b] = n] /\ valid' = valid \ {b}
        /\ refcnt' = [refcnt EXCEPT ![b] = 1] /\ arg' = [arg EXCEPT ![t] = {b}]
    BY <2>1 DEF recycle
  <2>5. UsedBy(b) = {}
    BY <2>3, UsedByFinite, FS_EmptySet DEF Inv, RefsCounted
  <2>6. \A u \in Thread : b \notin held[u] /\ b \notin arg[u]
    BY <2>5 DEF UsedBy
  <2>7. \A c \in Buf : blockno[c] # n
    BY <1>3 DEF Cached
  <2> HIDE DEF free
  <2> USE <1>a, <1>b, <2>2, <2>3, <2>4, <2>6 DEF Inv, driver
  <2>8. TypeOK'
    BY DEF TypeOK, PC
  <2>9. OneBuffer'
    BY <2>7 DEF OneBuffer, TypeOK
  <2>10. DataInv'
    BY DEF DataInv, TypeOK
  <2>11. RefsCounted'
    <3>1. UsedBy(b)' = {t}
      BY SMT DEF UsedBy, TypeOK
    <3>2. \A c \in Buf \ {b} : UsedBy(c)' = UsedBy(c)
      BY DEF UsedBy, TypeOK
    <3>3. Cardinality(UsedBy(b)') = 1
      BY <3>1, FS_Singleton
    <3> QED BY <3>2, <3>3 DEF RefsCounted, TypeOK
  <2>12. CallInv' /\ LockInv'
    BY SMT DEF TypeOK, CallInv, LockInv
  <2>13. SleepInv'
    BY DEF SleepInv, InSync, TypeOK
  <2>14. DriverQueue'
    <3>1. \A j \in DOMAIN idequeue : idequeue[j] # b /\ idequeue[j] \in Buf
      BY QueuedIsLocked
    <3> QED BY <3>1, DriverFrame DEF TypeOK
  <2> QED BY <2>8, <2>9, <2>10, <2>11, <2>12, <2>13, <2>14
<1> QED BY <1>1, <1>2, <1>3

\* acquiresleep(): a free lock means that nobody holds the buffer.
LEMMA AcquiresleepStep ==
  ASSUME Inv, NEW t \in Thread, NEW b \in Buf, acquiresleep(t, b)
  PROVE  Inv'
<1>a. pc[t] = "acquiresleep" /\ arg[t] = {b} /\ lock[b] = {}
      /\ lock' = [lock EXCEPT ![b] = {t}]
      /\ UNCHANGED <<disk, idequeue, drive, blockno, valid, dirty, refcnt, data, lru, asleep, sys>>
  BY DEF acquiresleep, At, driver
<1>b. t \notin asleep /\ b \notin held[t] /\ (\A u \in Thread : b \notin held[u])
  BY <1>a DEF Inv, SleepInv, CallInv, LockInv
<1>c. \A i \in DOMAIN idequeue : idequeue[i] # b /\ idequeue[i] \in Buf
  BY <1>a, QueuedIsLocked
<1>1. CASE b \in valid
  <2>1. held' = [held EXCEPT ![t] = @ \union {b}] /\ arg' = [arg EXCEPT ![t] = {}]
        /\ pc' = [pc EXCEPT ![t] = "run"]
    BY <1>1 DEF acquiresleep, Goto
  <2> USE <1>a, <1>b, <1>c, <1>1, <2>1 DEF Inv
  <2>2. TypeOK'
    BY DEF TypeOK, PC
  <2>3. OneBuffer'
    BY DEF OneBuffer
  <2>4. RefsCounted'
    <3>1. \A u \in Thread : held'[u] \union arg'[u] = held[u] \union arg[u]
      BY DEF TypeOK
    <3> QED BY <3>1, SameUsers
  <2>5. CallInv'
    BY DEF TypeOK, CallInv
  <2>6. LockInv'
    BY SMT DEF TypeOK, LockInv, CallInv
  <2>7. DataInv'
    BY DEF TypeOK, DataInv
  <2>8. SleepInv'
    BY DEF TypeOK, SleepInv, InSync
  <2>9. DriverQueue'
    BY DriverFrame DEF TypeOK
  <2> QED BY <2>2, <2>3, <2>4, <2>5, <2>6, <2>7, <2>8, <2>9
<1>2. CASE b \notin valid
  <2>1. held' = held /\ arg' = arg /\ pc' = [pc EXCEPT ![t] = "iderw"]
    BY <1>2 DEF acquiresleep, Goto
  <2> USE <1>a, <1>b, <1>c, <1>2, <2>1 DEF Inv
  <2>2. TypeOK'
    BY DEF TypeOK, PC
  <2>3. OneBuffer'
    BY DEF OneBuffer
  <2>4. RefsCounted'
    BY SameUsers
  <2>5. CallInv'
    BY DEF TypeOK, CallInv
  <2>6. LockInv'
    BY SMT DEF TypeOK, LockInv, CallInv
  <2>7. DataInv'
    BY DEF TypeOK, DataInv
  <2>8. SleepInv'
    BY DEF TypeOK, SleepInv, InSync
  <2>9. DriverQueue'
    BY DriverFrame DEF TypeOK
  <2> QED BY <2>2, <2>3, <2>4, <2>5, <2>6, <2>7, <2>8, <2>9
<1> QED BY <1>1, <1>2

\* releasesleep(): the thread still counts as a user.
LEMMA ReleasesleepStep ==
  ASSUME Inv, NEW t \in Thread, NEW b \in Buf, releasesleep(t, b)
  PROVE  Inv'
<1> USE DEF releasesleep, At, Goto, driver
<1>a. t \in lock[b] /\ pc[t] # "sleep" /\ t \notin asleep /\ arg[t] = {}
  BY DEF Inv, LockInv, SleepInv, CallInv
<1>b. lock[b] = {t} /\ (\A i \in DOMAIN idequeue : idequeue[i] # b /\ idequeue[i] \in Buf)
  BY <1>a, HeldNotQueued, QueuedIsLocked
<1> USE DEF Inv
<1>1. TypeOK'
  BY DEF TypeOK, PC
<1>2. OneBuffer'
  BY DEF OneBuffer
<1>3. RefsCounted'
  <2>1. \A u \in Thread : held'[u] \union arg'[u] = held[u] \union arg[u]
    BY <1>a DEF TypeOK
  <2> QED BY <2>1, SameUsers
<1>4. CallInv'
  BY SMT DEF TypeOK, CallInv
<1>5. LockInv'
  BY <1>a, <1>b, SMT DEF TypeOK, LockInv
<1>6. DataInv'
  BY DEF TypeOK, DataInv
<1>7. SleepInv'
  BY <1>a DEF TypeOK, SleepInv, InSync
<1>8. DriverQueue'
  BY <1>a, <1>b, DriverFrame DEF TypeOK
<1> QED BY <1>1, <1>2, <1>3, <1>4, <1>5, <1>6, <1>7, <1>8

\* brelse(): one user less, and the buffer stays in the list.
LEMMA BrelseStep ==
  ASSUME Inv, NEW t \in Thread, NEW b \in Buf, brelse(t, b)
  PROVE  Inv'
<1>a. pc[t] = "brelse" /\ arg[t] = {b}
      /\ refcnt' = [refcnt EXCEPT ![b] = @ - 1]
      /\ lru' = (IF refcnt[b] = 1 THEN tofront(b) ELSE lru)
      /\ arg' = [arg EXCEPT ![t] = {}]
      /\ pc' = [pc EXCEPT ![t] = "run"]
      /\ UNCHANGED <<disk, idequeue, drive, blockno, valid, dirty, data, lock, held, asleep, sys>>
  BY DEF brelse, At, Goto, driver
<1>b. t \notin asleep /\ b \notin held[t]
  BY <1>a DEF Inv, SleepInv, CallInv
<1>1. RefsCounted' /\ refcnt' \in [Buf -> Nat]
  <2>1. UsedBy(b)' = UsedBy(b) \ {t} /\ t \in UsedBy(b)
    BY <1>a, <1>b DEF UsedBy, Inv, TypeOK
  <2>2. \A c \in Buf \ {b} : UsedBy(c)' = UsedBy(c)
    BY <1>a, <1>b DEF UsedBy, Inv, TypeOK
  <2>3. Cardinality(UsedBy(b)') = Cardinality(UsedBy(b)) - 1
        /\ IsFiniteSet(UsedBy(b)')
    BY <2>1, UsedByFinite, FS_RemoveElement, SMT
  <2>4. Cardinality(UsedBy(b)') \in Nat
    BY <2>3, FS_CardinalityType
  <2> QED BY <1>a, <2>2, <2>3, <2>4 DEF RefsCounted, Inv, TypeOK
<1>2. lru' \in [Buf -> Buf]
  <2>1. tofront(b) \in [Buf -> Buf]
    <3> DEFINE i == CHOOSE j \in Buf : lru[j] = b
    <3>1. \A k \in Buf : k # 1 => k - 1 \in Buf
      BY BufConstants, SMT DEF Buf
    <3>2. \A k \in Buf : (IF k = 1 THEN b ELSE IF k <= i THEN lru[k - 1] ELSE lru[k]) \in Buf
      BY <3>1 DEF Inv, TypeOK
    <3> QED BY <3>2 DEF tofront
  <2> QED BY <1>a, <2>1 DEF Inv, TypeOK
<1> USE <1>a, <1>b DEF Inv
<1>3. TypeOK'
  BY <1>1, <1>2 DEF TypeOK, PC
<1>4. OneBuffer'
  BY DEF OneBuffer
<1>5. CallInv' /\ LockInv'
  BY SMT DEF TypeOK, CallInv, LockInv
<1>6. DataInv'
  BY DEF DataInv
<1>7. SleepInv'
  BY DEF TypeOK, SleepInv, InSync
<1>8. DriverQueue'
  BY DriverFrame DEF TypeOK
<1> QED BY <1>1, <1>3, <1>4, <1>5, <1>6, <1>7, <1>8

\* iderw() returns in sync: the second turn of its loop never sleeps again.
LEMMA IderwReturnStep ==
  ASSUME Inv, NEW t \in Thread, NEW b \in Buf, iderw_return(t, b)
  PROVE  Inv'
<1>a. pc[t] = "sleep" /\ arg[t] = {b} /\ t \notin asleep
      /\ UNCHANGED <<disk, idequeue, drive, blockno, valid, dirty, refcnt, data, lru, lock, sys>>
  BY DEF iderw_return, At, driver
<1>b. InSync(b)
  BY <1>a DEF Inv, SleepInv
<1>c. held' = [held EXCEPT ![t] = @ \union {b}] /\ arg' = [arg EXCEPT ![t] = {}]
      /\ pc' = [pc EXCEPT ![t] = "run"] /\ asleep' = asleep
  BY <1>b DEF iderw_return, Goto
<1> USE <1>a, <1>b, <1>c DEF Inv
<1>1. TypeOK'
  BY DEF TypeOK, PC
<1>2. OneBuffer'
  BY DEF OneBuffer
<1>3. RefsCounted'
  <2>1. \A u \in Thread : held'[u] \union arg'[u] = held[u] \union arg[u]
    BY DEF TypeOK
  <2> QED BY <2>1, SameUsers
<1>4. CallInv'
  BY DEF TypeOK, CallInv
<1>5. LockInv'
  BY SMT DEF TypeOK, LockInv
<1>6. DataInv'
  BY DEF TypeOK, DataInv, InSync
<1>7. SleepInv'
  BY DEF TypeOK, SleepInv, InSync
<1>8. DriverQueue'
  BY DriverFrame DEF TypeOK
<1> QED BY <1>1, <1>2, <1>3, <1>4, <1>5, <1>6, <1>7, <1>8

\* iderw() appends a buffer that is not in the queue.
LEMMA IderwStep ==
  ASSUME Inv, NEW t \in Thread, NEW b \in Buf, iderw(t, b)
  PROVE  Inv'
<1>1. CASE InSync(b)
  BY <1>1, PanicStep DEF iderw
<1>2. CASE ~InSync(b)
  <2>a. pc[t] = "iderw" /\ arg[t] = {b}
        /\ idequeue' = Append(idequeue, b)
        /\ drive' = (IF idequeue = <<>> THEN idestart(b) ELSE drive)
        /\ asleep' = asleep \union {t}
        /\ pc' = [pc EXCEPT ![t] = "sleep"]
        /\ UNCHANGED <<disk, blockno, valid, dirty, refcnt, data, lru, lock, arg, held, sys>>
    BY <1>2 DEF iderw, At, Goto
  <2>b. t \in lock[b]
    BY <2>a DEF Inv, LockInv
  <2>c. lock[b] = {t} /\ \A i \in DOMAIN idequeue : idequeue[i] # b
    BY <2>a, <2>b, HeldNotQueued
  <2>d. idequeue \in Seq(Buf) /\ Len(idequeue) \in Nat /\ DOMAIN idequeue = 1..Len(idequeue)
    BY SMT DEF Inv, TypeOK
  <2>e. Len(idequeue') = Len(idequeue) + 1 /\ DOMAIN idequeue' = 1..(Len(idequeue) + 1)
        /\ idequeue'[Len(idequeue) + 1] = b
        /\ \A i \in 1..Len(idequeue) : idequeue'[i] = idequeue[i]
    BY <2>a, <2>d, SMT
  <2>f. blockno[b] \in Block /\ data[b] \in Val
    BY <2>a DEF Inv, CallInv, TypeOK
  <2> USE <2>a DEF Inv
  <2>1. TypeOK'
    <3>1. idestart(b) \in Block \X BOOLEAN \X Val
      <4>1. \A d \in BOOLEAN : <<blockno[b], d, data[b]>> \in Block \X BOOLEAN \X Val
        BY <2>f
      <4>2. (b \in dirty) \in BOOLEAN
        BY SMT
      <4> QED BY <4>1, <4>2, Zenon DEF idestart
    <3>2. drive' \in {<<>>} \union (Block \X BOOLEAN \X Val)
      BY <3>1 DEF TypeOK
    <3> QED BY <3>2, SMT DEF TypeOK, PC
  <2>2. OneBuffer' /\ DataInv'
    BY DEF OneBuffer, DataInv
  <2>3. RefsCounted'
    BY SameUsers
  <2>4. CallInv' /\ LockInv'
    BY SMT DEF TypeOK, CallInv, LockInv
  <2>5. SleepInv'
    BY DEF TypeOK, SleepInv, InSync
  <2>6. DriverQueue'
    <3>1. \A i, j \in DOMAIN idequeue' : idequeue'[i] = idequeue'[j] => i = j
      <4> SUFFICES ASSUME NEW i \in DOMAIN idequeue', NEW j \in DOMAIN idequeue',
                          idequeue'[i] = idequeue'[j]
                   PROVE  i = j
        OBVIOUS
      <4>1. CASE i \in DOMAIN idequeue /\ j \in DOMAIN idequeue
        BY <4>1, <2>d, <2>e DEF DriverQueue
      <4>2. CASE i = Len(idequeue) + 1 \/ j = Len(idequeue) + 1
        BY <4>2, <2>c, <2>d, <2>e, SMT
      <4>3. /\ i \in DOMAIN idequeue \/ i = Len(idequeue) + 1
            /\ j \in DOMAIN idequeue \/ j = Len(idequeue) + 1
        BY <2>d, <2>e, SMT
      <4> HIDE <2>a
      <4> QED BY <4>1, <4>2, <4>3
    <3>2. \A i \in DOMAIN idequeue' : \E u \in asleep' :
            arg'[u] = {idequeue'[i]} /\ lock'[idequeue'[i]] = {u}
      <4> TAKE i \in DOMAIN idequeue'
      <4>1. CASE i \in DOMAIN idequeue
        <5>1. PICK u \in asleep : arg[u] = {idequeue[i]} /\ lock[idequeue[i]] = {u}
          BY <4>1 DEF DriverQueue
        <5>2. idequeue'[i] = idequeue[i]
          BY <4>1, <2>d, <2>e
        <5> WITNESS u \in asleep'
        <5> QED BY <5>1, <5>2
      <4>2. CASE i = Len(idequeue) + 1
        BY <4>2, <2>c, <2>e
      <4>3. i \in DOMAIN idequeue \/ i = Len(idequeue) + 1
        BY <2>d, <2>e, SMT
      <4> HIDE <2>a
      <4> QED BY <4>1, <4>2, <4>3
    <3>3. \A u \in asleep' : \E i \in DOMAIN idequeue' : arg'[u] = {idequeue'[i]}
      <4> TAKE u \in asleep'
      <4>1. CASE u \in asleep
        <5>1. PICK i \in DOMAIN idequeue : arg[u] = {idequeue[i]}
          BY <4>1 DEF DriverQueue
        <5> QED BY <5>1, <2>d, <2>e, SMT
      <4>2. CASE u = t
        BY <4>2, <2>d, <2>e, SMT
      <4> QED BY <4>1, <4>2
    <3>4. drive' = (IF idequeue' = <<>> THEN <<>> ELSE idestart(Head(idequeue))')
      <4>1. idequeue' # <<>> /\ Head(idequeue') = idequeue'[1]
        BY <2>d, <2>e, SMT
      <4>2. CASE idequeue = <<>>
        <5>1. Head(idequeue') = b
          BY <4>1, <4>2, <2>e, SMT
        <5> QED BY <4>1, <4>2, <5>1 DEF idestart
      <4>3. CASE idequeue # <<>>
        <5>1. Head(idequeue') = Head(idequeue)
          BY <4>1, <4>3, <2>d, <2>e, SMT
        <5>2. drive = idestart(Head(idequeue))
          BY <4>3 DEF DriverQueue
        <5> QED BY <4>1, <4>3, <5>1, <5>2 DEF idestart
      <4> QED BY <4>2, <4>3
    <3> QED BY <3>1, <3>2, <3>3, <3>4 DEF DriverQueue
  <2> QED BY <2>1, <2>2, <2>3, <2>4, <2>5, <2>6
<1> QED BY <1>1, <1>2

\* ideintr(): the head of the queue is done, its thread woken, the next started.
LEMMA IdeintrStep ==
  ASSUME Inv, ideintr
  PROVE  Inv'
<1>1. idequeue # <<>> /\ drive = idestart(Head(idequeue))
  BY DEF ideintr, Inv, DriverQueue
<1>2. idequeue \in Seq(Buf) /\ Len(idequeue) \in Nat \ {0} /\ DOMAIN idequeue = 1..Len(idequeue)
  BY <1>1, SMT DEF Inv, TypeOK
<1>3. PICK b \in Buf : b = Head(idequeue) /\ b = idequeue[1]
  BY <1>1, <1>2, SMT
<1>4. PICK h \in asleep : h \in Thread /\ pc[h] = "sleep" /\ arg[h] = {b} /\ lock[b] = {h}
  <2>1. 1 \in DOMAIN idequeue
    BY <1>2, SMT
  <2> QED BY <1>3, <2>1, QueuedIsLocked, SMT
<1>5. PICK n \in Block : n = blockno[b]
  BY <1>4, SMT DEF Inv, CallInv, TypeOK
<1>6. \A c \in Buf \ {b} : blockno[c] # n
  BY <1>5, BufConstants DEF Inv, OneBuffer
<1>7. asleep' = asleep \ {h}
  <2>1. \A t \in asleep : arg[t] = {b} => t = h
    BY <1>4, SMT DEF Inv, TypeOK, SleepInv, LockInv
  <2> QED BY <1>3, <1>4, <2>1 DEF ideintr, wakeup
<1>8. /\ valid' = valid \union {b} /\ dirty' = dirty \ {b}
      /\ idequeue' = Tail(idequeue) /\ drive' = next
      /\ UNCHANGED <<blockno, refcnt, lru, lock, pc, arg, held, sys>>
  BY <1>3 DEF ideintr
<1>9. /\ b \in dirty => disk' = [disk EXCEPT ![n] = data[b]] /\ data' = data
      /\ b \notin dirty => disk' = disk /\ data' = [data EXCEPT ![b] = disk[n]]
  <2>1. drive[1] = n /\ drive[2] = (b \in dirty) /\ drive[3] = data[b]
    BY <1>1, <1>3, <1>5 DEF idestart
  <2> QED BY <1>3, <2>1 DEF ideintr
<1>10. \A i \in 1..(Len(idequeue) - 1) :
         i + 1 \in DOMAIN idequeue /\ idequeue[i + 1] \in Buf \ {b}
  BY <1>2, <1>3, SMT DEF Inv, DriverQueue
<1>11. idequeue' \in Seq(Buf) /\ DOMAIN idequeue' = 1..(Len(idequeue) - 1)
       /\ \A i \in 1..(Len(idequeue) - 1) : idequeue'[i] = idequeue[i + 1]
  BY <1>1, <1>2, <1>8, SMT
<1>12. \A c \in Buf \ {b} : idestart(c)' = idestart(c)
  <2> TAKE c \in Buf \ {b}
  <2>1. (c \in dirty') = (c \in dirty)
    BY <1>8, SMT
  <2>2. data'[c] = data[c]
    BY <1>9 DEF Inv, TypeOK
  <2> QED BY <1>8, <2>1, <2>2 DEF idestart
<1> USE DEF Inv
<1>13. TypeOK'
  <2>1. disk' \in [Block -> Val] /\ data' \in [Buf -> Val]
    BY <1>9 DEF TypeOK
  <2>2. drive' \in {<<>>} \union (Block \X BOOLEAN \X Val)
    <3>1. CASE Len(idequeue) > 1
      <4>1. PICK c \in Buf : c = idequeue[2]
        BY <1>2, <3>1, SMT
      <4>2. blockno[c] \in Block
        <5>1. 2 \in DOMAIN idequeue
          BY <1>2, <3>1, SMT
        <5>2. PICK u \in Thread : arg[u] = {c}
          BY <5>1, <4>1, QueuedIsLocked
        <5> QED BY <5>2, SMT DEF CallInv, TypeOK
      <4>3. \A d \in BOOLEAN : <<blockno[c], d, data[c]>> \in Block \X BOOLEAN \X Val
        BY <4>2 DEF TypeOK
      <4>4. (c \in dirty) \in BOOLEAN
        BY SMT
      <4>5. idestart(c) \in Block \X BOOLEAN \X Val
        BY <4>3, <4>4, Zenon DEF idestart
      <4> QED BY <1>8, <3>1, <4>1, <4>5 DEF next
    <3>2. CASE ~(Len(idequeue) > 1)
      BY <1>8, <3>2 DEF next
    <3> QED BY <3>1, <3>2
  <2> QED BY <1>7, <1>8, <1>11, <2>1, <2>2 DEF TypeOK
<1>14. OneBuffer' /\ CallInv' /\ LockInv'
  BY <1>8, SMT DEF OneBuffer, CallInv, LockInv
<1>15. RefsCounted'
  BY <1>8, SameUsers
<1>16. DataInv'
  <2>1. data'[b] = disk'[n]
    BY <1>9, SMT DEF TypeOK
  <2>2. ASSUME NEW c \in (valid \ dirty) \ {b} PROVE data'[c] = disk'[blockno[c]]
    <3>1. blockno[c] \in Block \ {n} /\ data[c] = disk[blockno[c]] /\ c \in Buf
      BY <1>6 DEF DataInv, TypeOK
    <3> QED BY <3>1, <1>9 DEF TypeOK
  <2>3. n # NoBlock
    BY BufConstants
  <2> QED BY <1>5, <1>8, <2>1, <2>2, <2>3 DEF DataInv
<1>17. SleepInv'
  BY <1>4, <1>7, <1>8 DEF SleepInv, InSync
<1>18. DriverQueue'
  <2>1. \A i, j \in DOMAIN idequeue' : idequeue'[i] = idequeue'[j] => i = j
    <3> TAKE i, j \in DOMAIN idequeue'
    <3> HAVE idequeue'[i] = idequeue'[j]
    <3>1. /\ i + 1 \in DOMAIN idequeue /\ j + 1 \in DOMAIN idequeue
          /\ idequeue[i + 1] = idequeue[j + 1]
      BY <1>10, <1>11
    <3>2. i + 1 = j + 1
      BY <1>2, <3>1 DEF DriverQueue
    <3>3. i \in Nat /\ j \in Nat
      BY <1>10
    <3> QED BY <3>2, <3>3
  <2>2. \A i \in DOMAIN idequeue' : \E u \in asleep' :
          arg'[u] = {idequeue'[i]} /\ lock'[idequeue'[i]] = {u}
    <3> TAKE i \in DOMAIN idequeue'
    <3>1. i + 1 \in DOMAIN idequeue /\ idequeue'[i] = idequeue[i + 1] /\ idequeue[i + 1] # b
      BY <1>10, <1>11
    <3>2. PICK u \in asleep : arg[u] = {idequeue[i + 1]} /\ lock[idequeue[i + 1]] = {u}
      BY <3>1 DEF DriverQueue
    <3>3. u \in asleep'
      BY <1>4, <1>7, <3>1, <3>2
    <3> WITNESS u \in asleep'
    <3> QED BY <1>8, <3>1, <3>2
  <2>3. \A u \in asleep' : \E i \in DOMAIN idequeue' : arg'[u] = {idequeue'[i]}
    <3> TAKE u \in asleep'
    <3>1. u \in asleep /\ arg[u] # {b}
      BY <1>3, <1>7, <1>8 DEF ideintr, wakeup, TypeOK
    <3>2. PICK i \in DOMAIN idequeue : arg[u] = {idequeue[i]}
      BY <3>1 DEF DriverQueue
    <3>3. i - 1 \in DOMAIN idequeue' /\ idequeue'[i - 1] = idequeue[i]
      BY <1>2, <1>3, <1>11, <3>1, <3>2, SMT
    <3> QED BY <1>8, <3>2, <3>3
  <2>4. drive' = (IF idequeue' = <<>> THEN <<>> ELSE idestart(Head(idequeue))')
    <3>1. CASE Len(idequeue) > 1
      <4>1. idequeue' # <<>> /\ Head(idequeue') = idequeue[2] /\ idequeue[2] \in Buf \ {b}
        <5>1. 1 \in 1..(Len(idequeue) - 1)
          BY <1>2, <3>1, SMT
        <5>2. idequeue'[1] = idequeue[2] /\ idequeue[2] \in Buf \ {b} /\ 1 \in DOMAIN idequeue'
          <6>1. idequeue'[1] = idequeue[1 + 1] /\ idequeue[1 + 1] \in Buf \ {b} /\ 1 \in DOMAIN idequeue'
            BY <5>1, <1>10, <1>11, Zenon
          <6>2. 1 + 1 = 2
            BY SMT
          <6> QED BY <6>1, <6>2, Zenon
        <5>3. idequeue' # <<>> /\ Head(idequeue') = idequeue'[1]
          BY <5>2, <1>11, SMT
        <5> QED BY <5>2, <5>3
      <4>2. idestart(Head(idequeue))' = idestart(idequeue[2])
        BY <4>1, <1>12 DEF idestart
      <4> QED BY <1>8, <3>1, <4>1, <4>2 DEF next
    <3>2. CASE ~(Len(idequeue) > 1)
      <4>1. idequeue' = <<>>
        BY <1>2, <1>11, <3>2, SMT
      <4> QED BY <1>8, <3>2, <4>1 DEF next
    <3> QED BY <3>1, <3>2
  <2> QED BY <2>1, <2>2, <2>3, <2>4 DEF DriverQueue
<1> QED BY <1>13, <1>14, <1>15, <1>16, <1>17, <1>18

\* Every step keeps the invariant.
LEMMA NextInv == Inv /\ [Next]_vars => Inv'
<1> SUFFICES ASSUME Inv, [Next]_vars PROVE Inv'
  OBVIOUS
<1>1. CASE UNCHANGED vars
  <2> USE <1>1 DEF vars, Inv
  <2>1. TypeOK' /\ OneBuffer' /\ CallInv' /\ LockInv'
    BY SMT DEF TypeOK, OneBuffer, CallInv, LockInv
  <2>2. RefsCounted'
    BY SameUsers
  <2>3. DataInv' /\ SleepInv'
    BY DEF DataInv, SleepInv, InSync
  <2>4. DriverQueue'
    BY DriverFrame
  <2> QED BY <2>1, <2>2, <2>3, <2>4
<1>2. CASE \E t \in Thread, n \in Block : bget(t, n)
  BY <1>2, BgetStep
<1>3. CASE \E t \in Thread, b \in Buf : acquiresleep(t, b)
  BY <1>3, AcquiresleepStep
<1>4. CASE \E t \in Thread, b \in Buf : iderw(t, b)
  BY <1>4, IderwStep
<1>5. CASE \E t \in Thread, b \in Buf : iderw_return(t, b)
  BY <1>5, IderwReturnStep
<1>6. CASE \E t \in Thread, b \in Buf : brelse(t, b)
  BY <1>6, BrelseStep
<1>7. CASE \E t \in Thread, b \in Buf : releasesleep(t, b)
  BY <1>7, ReleasesleepStep
<1>8. CASE \E t \in Thread, b \in Buf, v \in Val : log_write(t, b, v)
  BY <1>8, LogWriteStep
<1>9. CASE \E t \in Thread, b \in Buf, v \in Val : bwrite(t, b, v)
  BY <1>9, BwriteStep
<1>10. CASE ideintr
  BY <1>10, IdeintrStep
<1> QED BY <1>1, <1>2, <1>3, <1>4, <1>5, <1>6, <1>7, <1>8, <1>9, <1>10 DEF Next, Step

\* The invariant of bio.c and ide.c holds in every reachable state.
THEOREM CacheInvariant == Spec => []Inv
BY InitInv, NextInv, PTL DEF Spec

\* iderw() and ideintr() keep the driver's queue right: its requests belong to
\* sleeping threads that hold their buffers, the drive works on the first, and
\* no thread sleeps without one.
THEOREM DriverQueueAlways == Spec => []DriverQueue
<1>1. Inv => DriverQueue
  BY DEF Inv
<1> QED BY <1>1, CacheInvariant, PTL

---------------------------------------------------------------------------
(***************************************************************************)
(* The refinement: first what Content and Holder are in a state that       *)
(* satisfies the invariant; then, for each kind of step, which step of     *)
(* BlockStore it is.                                                       *)
(***************************************************************************)
\* Where the contents v of block n are to be found.
ContentIs(n, v) ==
  \/ \E b \in valid : blockno[b] = n /\ data[b] = v
  \/ (\A b \in valid : blockno[b] # n) /\ disk[n] = v

\* Content is what its buffer, or else the disk, has.
LEMMA ContentValue ==
  ASSUME Inv, NEW n \in Block, NEW v, ContentIs(n, v)
  PROVE  Content[n] = v
<1> DEFINE P(b) == blockno[b] = n /\ (b \in valid \/ b \in dirty)
<1>1. valid \subseteq Buf /\ \A b \in Buf : P(b) <=> b \in valid /\ blockno[b] = n
  BY DEF Inv, TypeOK, DataInv
<1>2. Content[n] = IF \E b \in Buf : P(b) THEN data[CHOOSE b \in Buf : P(b)] ELSE disk[n]
  BY DEF Content
<1>3. \A b, c \in Buf : P(b) /\ P(c) => b = c
  BY BufConstants DEF Inv, OneBuffer
<1>4. CASE \E b \in valid : blockno[b] = n /\ data[b] = v
  <2>1. PICK b \in Buf : P(b) /\ data[b] = v
    BY <1>4, <1>1
  <2>2. (CHOOSE c \in Buf : P(c)) = b
    BY <2>1, <1>3
  <2> HIDE DEF P
  <2> QED BY <2>1, <2>2, <1>2
<1>5. CASE (\A b \in valid : blockno[b] # n) /\ disk[n] = v
  <2>1. ~\E b \in Buf : P(b)
    BY <1>5, <1>1
  <2> HIDE DEF P
  <2> QED BY <2>1, <1>5, <1>2
<1> QED BY <1>4, <1>5 DEF ContentIs

\* Every block has contents.
LEMMA ContentExists ==
  ASSUME Inv, NEW n \in Block
  PROVE  ContentIs(n, Content[n])
<1>1. CASE \E b \in valid : blockno[b] = n
  <2>1. PICK b \in valid : blockno[b] = n
    BY <1>1
  <2>2. ContentIs(n, data[b])
    BY <2>1 DEF ContentIs
  <2> QED BY <2>2, ContentValue
<1>2. CASE \A b \in valid : blockno[b] # n
  <2>1. ContentIs(n, disk[n])
    BY <1>2 DEF ContentIs
  <2> QED BY <2>1, ContentValue
<1> QED BY <1>1, <1>2

\* The lemma ContentValue as a state predicate, to be used of the next state.
ContentRight == \A n \in Block : \A v : ContentIs(n, v) => Content[n] = v

\* ContentValue, restated.
LEMMA ContentRightAlways == Inv => ContentRight
BY ContentValue DEF ContentRight

\* ContentRight before and after a step.
LEMMA NextContent ==
  ASSUME Inv, Inv'
  PROVE  ContentRight /\ ContentRight' /\ \A n \in Block : ContentIs(n, Content[n])
<1>1. (Inv => ContentRight)'
  BY ContentRightAlways, PTL
<1> QED BY <1>1, ContentRightAlways, ContentExists

\* A block keeps its contents in a step after which the same value can be
\* found where there was one.
LEMMA SameContent ==
  ASSUME Inv, Inv', \A n \in Block : \A v : ContentIs(n, v) => ContentIs(n, v)'
  PROVE  Content' = Content
<1>1. \A n \in Block : Content'[n] = Content[n]
  <2> TAKE n \in Block
  <2>2. PICK v : v = Content[n]
    OBVIOUS
  <2>3. ContentIs(n, v)
    BY <2>2, NextContent
  <2>4. ContentIs(n, v)'
    BY <2>3
  <2>5. (Content[n] = v)'
    BY <2>4, NextContent DEF ContentRight
  <2> QED BY <2>2, <2>5
<1> QED BY <1>1 DEF Content

\* A step that changes the contents of one block.
LEMMA WrittenContent ==
  ASSUME Inv, Inv', NEW m \in Block, NEW w, ContentIs(m, w)',
         \A n \in Block \ {m} : \A v : ContentIs(n, v) => ContentIs(n, v)'
  PROVE  Content' = [Content EXCEPT ![m] = w]
<1>1. (Content[m] = w)'
  BY NextContent DEF ContentRight
<1>2. \A n \in Block \ {m} : Content'[n] = Content[n]
  <2> TAKE n \in Block \ {m}
  <2>2. PICK v : v = Content[n]
    OBVIOUS
  <2>3. ContentIs(n, v)
    BY <2>2, NextContent
  <2>4. ContentIs(n, v)'
    BY <2>3
  <2>5. (Content[n] = v)'
    BY <2>4, NextContent DEF ContentRight
  <2> QED BY <2>2, <2>5
<1>3. Content = [n \in Block |-> Content[n]] /\ Content' = [n \in Block |-> Content'[n]]
  BY DEF Content
<1> QED BY <1>1, <1>2, <1>3

\* A step that moves no held buffer to another block keeps the holders.
LEMMA SameHolder ==
  ASSUME held' = held, \A t \in Thread : \A b \in held[t] : blockno'[b] = blockno[b]
  PROVE  Holder' = Holder
BY DEF Holder

\* A held buffer's block: its holder is the thread that has the lock.
LEMMA HolderOf ==
  ASSUME Inv, NEW b \in Buf, blockno[b] # NoBlock
  PROVE  /\ blockno[b] \in Block
         /\ Holder[blockno[b]] = {t \in Thread : b \in held[t]}
<1>1. blockno[b] \in Block
  BY DEF Inv, TypeOK
<1>2. \A t \in Thread : \A c \in held[t] : blockno[c] = blockno[b] => c = b
  BY DEF Inv, TypeOK, OneBuffer
<1> QED BY <1>1, <1>2 DEF Holder

\* A held buffer is valid and held by one thread.
LEMMA HeldBuffer ==
  ASSUME Inv, NEW t \in Thread, NEW b \in Buf, b \in held[t]
  PROVE  /\ blockno[b] # NoBlock /\ b \in valid
         /\ \A u \in Thread : b \in held[u] => u = t
<1>1. blockno[b] # NoBlock
  BY DEF Inv, CallInv
<1>2. b \in valid
  BY DEF Inv, DataInv
<1>3. \A u \in Thread : b \in held[u] => u = t
  BY SMT DEF Inv, LockInv
<1> QED BY <1>1, <1>2, <1>3

\* A step of BlockStore, or none.
Abstract == [BS!Next]_(BS!vars)

\* A step that changes neither holders nor contents is none of BlockStore's.
LEMMA Stutter ==
  ASSUME Holder' = Holder, Content' = Content
  PROVE  Abstract
BY DEF Abstract, BS!vars

\* A thread gets a buffer nobody holds: Bread.
LEMMA ToBread ==
  ASSUME Inv, Inv', NEW t \in Thread, NEW b \in Buf, blockno[b] # NoBlock,
         \A u \in Thread : b \notin held[u],
         held' = [held EXCEPT ![t] = @ \union {b}],
         UNCHANGED <<blockno, valid, data, disk>>
  PROVE  Abstract
<1>1. Content' = Content
  <2>1. \A n \in Block : \A v : ContentIs(n, v) => ContentIs(n, v)'
    BY DEF ContentIs
  <2> QED BY <2>1, SameContent
<1>2. blockno[b] \in Block /\ Holder[blockno[b]] = {}
  BY HolderOf
<1>3. Holder' = [Holder EXCEPT ![blockno[b]] = {t}]
  <2>1. \A n \in Block : Holder'[n] = IF n = blockno[b] THEN {t} ELSE Holder[n]
    <3> TAKE n \in Block
    <3>1. \A u \in Thread : held'[u] = IF u = t THEN held[u] \union {b} ELSE held[u]
      BY DEF Inv, TypeOK
    <3>2. CASE n = blockno[b]
      <4>1. \A u \in Thread : \A c \in held[u] : blockno[c] # n
        BY <3>2, SMT DEF Inv, TypeOK, OneBuffer
      <4> QED BY <4>1, <3>1, <3>2, SMT DEF Holder
    <3>3. CASE n # blockno[b]
      BY <3>1, <3>3, SMT DEF Holder
    <3> QED BY <3>2, <3>3
  <2>2. Holder = [n \in Block |-> Holder[n]] /\ Holder' = [n \in Block |-> Holder'[n]]
    BY DEF Holder
  <2> QED BY <2>1, <2>2
<1>4. BS!Bread(t, blockno[b])
  BY <1>1, <1>2, <1>3 DEF BS!Bread
<1> QED BY <1>2, <1>4 DEF Abstract, BS!Next

\* A thread gives up a buffer: Brelse.
LEMMA ToBrelse ==
  ASSUME Inv, Inv', NEW t \in Thread, NEW b \in Buf, b \in held[t],
         held' = [held EXCEPT ![t] = @ \ {b}],
         UNCHANGED <<blockno, valid, data, disk>>
  PROVE  Abstract
<1>1. Content' = Content
  <2>1. \A n \in Block : \A v : ContentIs(n, v) => ContentIs(n, v)'
    BY DEF ContentIs
  <2> QED BY <2>1, SameContent
<1>a. blockno[b] # NoBlock /\ \A u \in Thread : b \in held[u] => u = t
  BY HeldBuffer
<1>2. blockno[b] \in Block /\ Holder[blockno[b]] = {t}
  BY <1>a, HolderOf
<1>3. Holder' = [Holder EXCEPT ![blockno[b]] = {}]
  <2>1. \A n \in Block : Holder'[n] = IF n = blockno[b] THEN {} ELSE Holder[n]
    <3> TAKE n \in Block
    <3>1. \A u \in Thread : held'[u] = IF u = t THEN held[u] \ {b} ELSE held[u]
      BY DEF Inv, TypeOK
    <3>2. CASE n = blockno[b]
      <4>1. \A u \in Thread : \A c \in held[u] : blockno[c] = n => c = b
        BY <1>a, <3>2 DEF Inv, TypeOK, OneBuffer
      <4> QED BY <1>a, <4>1, <3>1, <3>2, SMT DEF Holder
    <3>3. CASE n # blockno[b]
      BY <3>1, <3>3, SMT DEF Holder
    <3> QED BY <3>2, <3>3
  <2>2. Holder = [n \in Block |-> Holder[n]] /\ Holder' = [n \in Block |-> Holder'[n]]
    BY DEF Holder
  <2> QED BY <2>1, <2>2
<1>4. BS!Brelse(t, blockno[b])
  BY <1>1, <1>2, <1>3 DEF BS!Brelse
<1> QED BY <1>2, <1>4 DEF Abstract, BS!Next

\* The holder changes the data: Write.
LEMMA ToWrite ==
  ASSUME Inv, Inv', NEW t \in Thread, NEW b \in Buf, NEW w \in Val, b \in held[t],
         data' = [data EXCEPT ![b] = w],
         UNCHANGED <<blockno, valid, disk, held>>
  PROVE  Abstract
<1>1. blockno[b] # NoBlock /\ b \in valid /\ \A u \in Thread : b \in held[u] => u = t
  BY HeldBuffer
<1>2. blockno[b] \in Block /\ Holder[blockno[b]] = {t}
  BY <1>1, HolderOf
<1>3. PICK m \in Block : m = blockno[b]
  BY <1>2
<1>4. ContentIs(m, w)'
  BY <1>1, <1>3 DEF ContentIs, Inv, TypeOK
<1>5. \A n \in Block \ {m} : \A v : ContentIs(n, v) => ContentIs(n, v)'
  BY <1>3 DEF ContentIs, Inv, TypeOK
<1>6. Content' = [Content EXCEPT ![m] = w]
  BY <1>4, <1>5, WrittenContent
<1>7. BS!Write(t, m, w)
  <2>1. Holder' = Holder
    BY SameHolder
  <2> QED BY <2>1, <1>2, <1>3, <1>6 DEF BS!Write
<1> QED BY <1>7 DEF Abstract, BS!Next

\* bget() may recycle: a buffer without users that is not dirty has what the
\* disk has.
LEMMA ToRecycle ==
  ASSUME Inv, Inv', NEW b \in Buf, NEW m \in Block, refcnt[b] = 0, b \notin dirty,
         blockno' = [blockno EXCEPT ![b] = m], valid' = valid \ {b},
         UNCHANGED <<data, disk, held>>
  PROVE  Abstract
<1>1. UsedBy(b) = {}
  BY UsedByFinite, FS_EmptySet DEF Inv, RefsCounted
<1>2. Holder' = Holder
  <2>1. \A t \in Thread : \A c \in held[t] : blockno'[c] = blockno[c]
    BY <1>1, SMT DEF UsedBy, Inv, TypeOK
  <2> QED BY <2>1, SameHolder
<1>3. \A n \in Block : \A v : ContentIs(n, v) => ContentIs(n, v)'
  <2> SUFFICES ASSUME NEW n \in Block, NEW v, ContentIs(n, v) PROVE ContentIs(n, v)'
    OBVIOUS
  <2>1. \A c \in valid' : c \in valid /\ c # b /\ blockno'[c] = blockno[c]
    BY DEF Inv, TypeOK
  <2>2. CASE \E c \in valid \ {b} : blockno[c] = n /\ data[c] = v
    BY <2>1, <2>2 DEF ContentIs
  <2>3. CASE b \in valid /\ blockno[b] = n /\ data[b] = v
    <3>1. disk[n] = v
      BY <2>3 DEF Inv, DataInv
    <3>2. n # NoBlock /\ valid \subseteq Buf
      BY BufConstants DEF Inv, TypeOK
    <3>3. \A c \in valid \ {b} : blockno[c] # n
      BY <2>3, <3>2 DEF Inv, OneBuffer
    <3> QED BY <2>1, <3>1, <3>3 DEF ContentIs
  <2>4. CASE (\A c \in valid : blockno[c] # n) /\ disk[n] = v
    BY <2>1, <2>4 DEF ContentIs
  <2> QED BY <2>2, <2>3, <2>4 DEF ContentIs
<1> QED BY <1>2, <1>3, SameContent, Stutter

\* Steps that move no data.
LEMMA ToSame ==
  ASSUME Inv, Inv', UNCHANGED <<blockno, valid, data, disk, held>>
  PROVE  Abstract
<1>1. \A n \in Block : \A v : ContentIs(n, v) => ContentIs(n, v)'
  BY DEF ContentIs
<1>2. Holder' = Holder
  BY SameHolder
<1> QED BY <1>1, <1>2, SameContent, Stutter

\* The transfer of ideintr(), either way, keeps the contents of every block.
LEMMA ToIntr ==
  ASSUME Inv, Inv', ideintr
  PROVE  Abstract
<1>1. idequeue # <<>> /\ drive = idestart(Head(idequeue))
  BY DEF ideintr, Inv, DriverQueue
<1>2. PICK b \in Buf : b = Head(idequeue)
  BY <1>1, SMT DEF Inv, TypeOK
<1>3. valid' = valid \union {b} /\ blockno' = blockno /\ held' = held
  BY <1>2 DEF ideintr
<1>4. /\ b \in dirty => disk' = [disk EXCEPT ![blockno[b]] = data[b]] /\ data' = data
      /\ b \notin dirty => disk' = disk /\ data' = [data EXCEPT ![b] = disk[blockno[b]]]
  <2>1. drive[1] = blockno[b] /\ drive[2] = (b \in dirty) /\ drive[3] = data[b]
    BY <1>1, <1>2 DEF idestart
  <2> QED BY <1>2, <2>1 DEF ideintr
<1>5. \A n \in Block : \A v : ContentIs(n, v) => ContentIs(n, v)'
  <2> SUFFICES ASSUME NEW n \in Block, NEW v, ContentIs(n, v) PROVE ContentIs(n, v)'
    OBVIOUS
  <2>1. CASE n = blockno[b]
    <3>1. \A c \in valid : blockno[c] = n => c = b
      BY <2>1, BufConstants DEF Inv, TypeOK, OneBuffer
    <3>2. CASE b \in dirty
      <4>1. data[b] = v
        BY <2>1, <3>1, <3>2, SMT DEF ContentIs, Inv, DataInv
      <4> QED BY <4>1, <1>3, <1>4, <2>1, <3>2 DEF ContentIs
    <3>3. CASE b \notin dirty
      <4>1. disk[n] = v
        BY <2>1, <3>1, <3>3 DEF ContentIs, Inv, DataInv
      <4>2. data'[b] = v
        BY <4>1, <1>4, <2>1, <3>3 DEF Inv, TypeOK
      <4> QED BY <4>2, <1>3, <2>1 DEF ContentIs
    <3> QED BY <3>2, <3>3
  <2>2. CASE n # blockno[b]
    <3>1. disk'[n] = disk[n] /\ \A c \in valid : blockno[c] = n => data'[c] = data[c]
      BY <1>4, <2>2 DEF Inv, TypeOK
    <3> QED BY <1>3, <2>2, <3>1 DEF ContentIs
  <2> QED BY <2>1, <2>2
<1> QED BY <1>3, <1>5, SameContent, SameHolder, Stutter

\* An empty cache is the disk.
LEMMA RefinesInit == Init => BS!Init
<1> SUFFICES ASSUME Init PROVE BS!Init
  OBVIOUS
<1>1. Content = [n \in Block |-> disk[n]]
  BY DEF Init, Content
<1>2. Holder = [n \in Block |-> {}]
  BY DEF Init, Holder
<1> QED BY <1>1, <1>2 DEF Init, BS!Init

\* Every step of the cache and the driver is one of BlockStore, or none.
LEMMA RefinesNext == Inv /\ Inv' /\ [Next]_vars => Abstract
<1> SUFFICES ASSUME Inv, Inv', [Next]_vars PROVE Abstract
  OBVIOUS
<1>1. CASE UNCHANGED vars
  BY <1>1, ToSame DEF vars
<1>2. ASSUME NEW t \in Thread, NEW n \in Block, bget(t, n) PROVE Abstract
  <2>1. CASE UNCHANGED <<blockno, valid>>
    BY <1>2, <2>1, ToSame DEF bget, panic, driver
  <2>2. CASE ~UNCHANGED <<blockno, valid>>
    <3>1. PICK i \in Buf : Recyclable(lru[i]) /\ recycle(lru[i], n)
      <4>1. ~panic
        BY <2>2 DEF panic
      <4> QED BY <1>2, <2>2, <4>1 DEF bget
    <3>2. lru[i] \in Buf /\ UNCHANGED <<data, disk, held>>
      BY <1>2, <2>2 DEF bget, panic, driver, Inv, TypeOK
    <3> QED BY <3>1, <3>2, ToRecycle DEF Recyclable, recycle
  <2> QED BY <2>1, <2>2
<1>3. ASSUME NEW t \in Thread, NEW b \in Buf, acquiresleep(t, b) PROVE Abstract
  <2>1. UNCHANGED <<blockno, valid, data, disk>> /\ arg[t] = {b} /\ lock[b] = {}
    BY <1>3 DEF acquiresleep, driver
  <2>a. blockno[b] # NoBlock
    BY <2>1 DEF Inv, CallInv
  <2>b. \A u \in Thread : b \notin held[u]
    BY <2>1 DEF Inv, LockInv
  <2>2. held' = [held EXCEPT ![t] = @ \union {b}] \/ held' = held
    BY <1>3 DEF acquiresleep
  <2> QED BY <2>1, <2>a, <2>b, <2>2, ToBread, ToSame
<1>4. ASSUME NEW t \in Thread, NEW b \in Buf, iderw(t, b) PROVE Abstract
  BY <1>4, ToSame DEF iderw, panic, driver
<1>5. ASSUME NEW t \in Thread, NEW b \in Buf, iderw_return(t, b) PROVE Abstract
  <2>1. UNCHANGED <<blockno, valid, data, disk>> /\ arg[t] = {b} /\ pc[t] = "sleep"
    BY <1>5 DEF iderw_return, At, driver
  <2>a. blockno[b] # NoBlock /\ t \in lock[b]
    <3>1. b \in arg[t]
      BY <2>1
    <3>2. CallInv /\ LockInv
      BY DEF Inv
    <3>3. blockno[b] # NoBlock
      BY <3>1, <3>2 DEF CallInv
    <3>4. t \in lock[b]
      BY <2>1, <3>1, <3>2 DEF LockInv
    <3> QED BY <3>3, <3>4
  <2>2. held' = [held EXCEPT ![t] = @ \union {b}] \/ held' = held
    BY <1>5 DEF iderw_return
  <2>3. CASE b \in held[t]
    <3>1. held' = held
      <4>1. held[t] \union {b} = held[t]
        BY <2>3
      <4>2. held \in [Thread -> SUBSET Buf]
        BY DEF Inv, TypeOK
      <4> QED BY <2>2, <4>1, <4>2
    <3> QED BY <2>1, <3>1, ToSame
  <2>4. CASE b \notin held[t]
    <3>1. \A u \in Thread : b \notin held[u]
      BY <2>a, <2>4, SMT DEF Inv, LockInv
    <3> QED BY <2>1, <2>a, <2>2, <3>1, ToBread, ToSame
  <2> QED BY <2>3, <2>4
<1>6. ASSUME NEW t \in Thread, NEW b \in Buf, brelse(t, b) PROVE Abstract
  BY <1>6, ToSame DEF brelse, driver
<1>7. ASSUME NEW t \in Thread, NEW b \in Buf, releasesleep(t, b) PROVE Abstract
  BY <1>7, ToBrelse DEF releasesleep, driver
<1>8. ASSUME NEW t \in Thread, NEW b \in Buf, NEW v \in Val, log_write(t, b, v) PROVE Abstract
  BY <1>8, ToWrite DEF log_write, driver
<1>9. ASSUME NEW t \in Thread, NEW b \in Buf, NEW v \in Val, bwrite(t, b, v) PROVE Abstract
  BY <1>9, ToWrite DEF bwrite, driver
<1>10. CASE ideintr
  BY <1>10, ToIntr
<1> QED BY <1>1, <1>2, <1>3, <1>4, <1>5, <1>6, <1>7, <1>8, <1>9, <1>10 DEF Next, Step

\* The promise of bio.c's header comment: one thread at a time uses a block,
\* and a block keeps its contents through recycling, pinning, queued writes
\* and reads, whatever the number of buffers.
THEOREM KeepsBlocksAlways == Spec => KeepsBlocks
BY RefinesInit, RefinesNext, CacheInvariant, PTL DEF Spec, KeepsBlocks, BS!Spec, Abstract

=============================================================================
