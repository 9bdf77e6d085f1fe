----------------------------- MODULE PipeProofs -----------------------------
(***************************************************************************)
(* Pipes and the file table, concluded: the facts about finite sets that   *)
(* PipeInv and PipeWaits rest on, the invariants at boot and in every      *)
(* step, and the theorems.                                                 *)
(***************************************************************************)
EXTENDS PipeInv, PipeWaits, FiniteSetTheorems, TLAPS

USE ZenonT(5), SMTT(30)

\* A count of a finite function is a number.
LEMMA LibCountNat ==
  ASSUME NEW h, NEW v, IsFiniteSet(DOMAIN h)
  PROVE  IsFiniteSet({x \in DOMAIN h : h[x] = v}) /\ Count(h, v) \in Nat
<1>1. IsFiniteSet({x \in DOMAIN h : h[x] = v})
  BY FS_Subset
<1>2. QED
  BY <1>1, FS_CardinalityType DEF Count

\* It follows a change at one place.
LEMMA LibChanges ==
  ASSUME NEW h, NEW k, IsFiniteSet(DOMAIN h), DOMAIN k = DOMAIN h, NEW x \in DOMAIN h,
         \A y \in DOMAIN h \ {x} : k[y] = h[y], NEW v
  PROVE  Shifts(h, k, x, v)
<1>0. SUFFICES Count(k, v) + One(h[x] = v) = Count(h, v) + One(k[x] = v)
  BY DEF Shifts
<1> DEFINE H == {y \in DOMAIN h : h[y] = v}
           K == {y \in DOMAIN h : k[y] = v}
<1>1. IsFiniteSet(H) /\ IsFiniteSet(K)
  BY LibCountNat
<1>2. Cardinality(H) \in Nat /\ Cardinality(K) \in Nat
  BY <1>1, FS_CardinalityType
<1>3. Count(h, v) = Cardinality(H) /\ Count(k, v) = Cardinality(K)
  BY DEF Count
<1>4. CASE (h[x] = v) = (k[x] = v)
  <2>1. H = K
    BY <1>4
  <2>2. QED
    BY <1>2, <1>3, <1>4, <2>1 DEF One
<1>5. CASE h[x] = v /\ k[x] # v
  <2>1. K = H \ {x} /\ x \in H
    BY <1>5
  <2>2. Cardinality(K) = Cardinality(H) - 1
    BY <1>1, <2>1, FS_RemoveElement, Zenon
  <2>3. QED
    BY <1>2, <1>3, <1>5, <2>2 DEF One
<1>6. CASE h[x] # v /\ k[x] = v
  <2>1. K = H \union {x} /\ x \notin H
    BY <1>6
  <2>2. Cardinality(K) = Cardinality(H) + 1
    BY <1>1, <2>1, FS_AddElement, Zenon
  <2>3. QED
    BY <1>2, <1>3, <1>6, <2>2 DEF One
<1>7. QED
  BY <1>4, <1>5, <1>6

\* A value taken at one place counts, at two places twice.
LEMMA LibCountsOne ==
  ASSUME NEW h, IsFiniteSet(DOMAIN h), NEW x \in DOMAIN h
  PROVE  Count(h, h[x]) >= 1
<1>1. CASE Count(h, h[x]) = 0
  <2>1. {y \in DOMAIN h : h[y] = h[x]} = {}
    BY <1>1, LibCountNat, FS_EmptySet DEF Count
  <2>2. QED
    BY <2>1
<1>2. Count(h, h[x]) \in Nat
  BY LibCountNat
<1>3. QED
  BY <1>1, <1>2

\* A value taken at two places counts twice.
LEMMA LibCountsTwo ==
  ASSUME NEW h, IsFiniteSet(DOMAIN h), NEW x \in DOMAIN h, NEW y \in DOMAIN h, x # y, h[x] = h[y]
  PROVE  Count(h, h[x]) >= 2
<1> DEFINE T == {z \in DOMAIN h : h[z] = h[x]}
<1>1. IsFiniteSet(T) /\ x \in T /\ y \in T \ {x} /\ IsFiniteSet(T \ {x})
  BY LibCountNat, FS_Subset
<1>2. Cardinality(T \ {x}) = Cardinality(T) - 1
  BY <1>1, FS_RemoveElement, Zenon
<1>3. Cardinality(T \ {x}) # 0
  BY <1>1, FS_EmptySet
<1>4. Cardinality(T) \in Nat /\ Cardinality(T \ {x}) \in Nat
  BY <1>1, FS_CardinalityType
<1>5. QED
  BY <1>2, <1>3, <1>4, TwoLeft, Zenon DEF Count

\* The facts that PipeInv takes from the library.
LEMMA LibraryHolds == Library
<1>1. IsFiniteSet(0..(NOFILE + 2)) /\ IsFiniteSet(File)
  BY Intervals, FS_Interval, Zenon DEF File
<1>2. IsFiniteSet(Here)
  BY <1>1, PipeConstants, FS_Product DEF Here
<1>3. QED
  BY <1>1, <1>2, LibCountNat, LibChanges, LibCountsOne, LibCountsTwo, Zenon DEF Library

\* At boot there are no files.
LEMMA InitRInv == Init => RInv
<1> SUFFICES ASSUME Init PROVE RInv
  OBVIOUS
<1>1. NoFile \in FileRecord /\ NoFile.ref = 0 /\ NoFile.type = "NONE"
  BY DEF NoFile, FileRecord
<1>2. DOMAIN NoPipe = Fields
  BY DEF NoPipe, Fields
<1>3. Types
  <2>1. file \in [File -> FileRecord] /\ ff \in [Proc -> FileRecord]
    BY <1>1 DEF Init
  <2>2. pipe = [g \in Page |-> pipe[g]] /\ \A g \in Page : DOMAIN pipe[g] = Fields
    BY <1>2 DEF Init
  <2>3. ofile \in [Proc -> [FD -> File \union {None}]] /\ arg \in [Proc -> File \union {None}]
        /\ np \in [Proc -> Proc \union {None}] /\ pc \in [Proc -> Labels]
    BY DEF Init, Labels
  <2>4. closing \in [Proc -> Seq(File)]
    BY SMT DEF Init
  <2>5. QED
    BY <2>1, <2>2, <2>3, <2>4 DEF Types, Init
<1>4. Slots /\ \A p \in Proc : CallOf(p) /\ ForkOf(p)
  <2>1. Len(<<>>) = 0
    BY SMT
  <2>2. QED
    BY <1>1, <2>1 DEF Slots, CallOf, ForkOf, Init
<1>5. RefsCounted
  <2>1. ASSUME NEW r \in Here PROVE Held[r] = None
    <3>1. DOMAIN <<>> = {}
      OBVIOUS
    <3>2. QED
      BY <3>1 DEF Held, Here, Init
  <2>2. ASSUME NEW f \in File PROVE {r \in DOMAIN Held : Held[r] = f} = {}
    BY <2>1, Places, Constants DEF PlaceFacts
  <2>3. Cardinality({}) = 0
    BY FS_EmptySet
  <2>4. QED
    BY <1>1, <2>2, <2>3 DEF RefsCounted, Init
<1>6. QED
  BY <1>3, <1>4, <1>5 DEF RInv

\* No end is open.
LEMMA InitEInv == Init => EInv
<1> SUFFICES ASSUME Init, NEW v \in End PROVE Count(FileEnd, v) + Count(CloserEnd, v) = One(Open(v))
  BY DEF EInv
<1>1. NoFile.type = "NONE" /\ ~NoPipe.readopen /\ ~NoPipe.writeopen
  BY DEF NoFile, NoPipe
<1>2. v \in End /\ v # NoEnd /\ v[1] \in Page
  BY EndFacts
<1>3. {f \in DOMAIN FileEnd : FileEnd[f] = v} = {}
  BY <1>1, <1>2, EndFunctions DEF Init
<1>4. {p \in DOMAIN CloserEnd : CloserEnd[p] = v} = {}
  BY <1>2, EndFunctions DEF Init
<1>5. ~Open(v)
  BY <1>1, <1>2 DEF Open, Init
<1>6. Cardinality({}) = 0
  BY FS_EmptySet
<1>7. Count(FileEnd, v) = 0 /\ Count(CloserEnd, v) = 0
  BY <1>3, <1>4, <1>6 DEF Count
<1>8. One(Open(v)) = 0
  BY <1>5 DEF One
<1>9. QED
  BY <1>7, <1>8, NoSum, Zenon

\* Every step keeps the invariant.
LEMMA StepRInv == RInv /\ [Next]_vars => RInv'
BY LibraryHolds, NextKeeps, Zenon

\* f->ref always is the number of references that processes have: fileclose(), in
\* whatever order processes get to its two halves, never frees a file in use, and
\* no error path of pipe() leaks a slot.
THEOREM ReferencesCounted == Spec => []RefsCounted
<1>1. RInv => RefsCounted
  BY DEF RInv
<1>2. QED
  BY <1>1, InitRInv, StepRInv, PTL DEF Spec

\* The panics of filedup() and fileclose() are never reached.
THEOREM PipesNeverPanic == Spec => [](sys = "up")
<1>1. RInv => sys = "up"
  BY DEF RInv, Types
<1>2. QED
  BY <1>1, InitRInv, StepRInv, PTL DEF Spec

---------------------------------------------------------------------------
\* Every step keeps the other two invariants.
LEMMA NextWaits ==
  ASSUME Library, RInv, RInv', EInv, WInv, [Next]_vars
  PROVE  EInv' /\ WInv' /\ ReadersKnow
<1>1. CASE UNCHANGED vars
  <2>1. asleep' \subseteq asleep /\ UNCHANGED <<file, ofile, pipe, lock, pc, arg, ff, todo>>
    BY <1>1 DEF vars, table, pipes, calls
  <2>2. QED
    BY <2>1, killKeeps, Zenon
<1>2. ASSUME NEW p \in Proc,
             \/ start(p) \/ sys_pipe(p) \/ pipealloc(p) \/ exit(p) \/ fork_dup(p) \/ kill(p)
             \/ fileclose(p) \/ pipeclose(p) \/ write_again(p) \/ sleep(p)
             \/ \E c \in Proc : fork(p, c)
             \/ \E d \in FD : sys_dup(p, d) \/ sys_close(p, d)
             \/ \E n \in Reads : read_again(p, n)
             \/ \E d \in FD, n \in Reads : sys_read(p, d, n)
             \/ \E d \in FD, s \in Writes : sys_write(p, d, s)
      PROVE  EInv' /\ WInv' /\ ReadersKnow
  <2>1. TableStep => EInv' /\ WInv' /\ ReadersKnow
    BY TableEnds, TableWaits, Zenon
  <2>2. CASE start(p) \/ sys_pipe(p) \/ exit(p) \/ fork_dup(p) \/ (\E c \in Proc : fork(p, c))
             \/ \E d \in FD : sys_dup(p, d) \/ sys_close(p, d)
    BY <2>1, <2>2, startIs, sys_pipeIs, exitIs, fork_dupIs, forkIs, sys_dupIs, sys_closeIs, Zenon
  <2>3. CASE pipealloc(p)
    <3>1. TableStep \/ \E rf, wf, g : Makes(p, rf, wf, g)
      BY <2>3, pipeallocIs, Zenon
    <3>2. QED
      BY <2>1, <3>1, MakesEnds, MakesWaits, Zenon
  <2>4. CASE fileclose(p)
    <3>1. TableStep \/ \E f : LastClose(p, f)
      BY <2>4, filecloseIs, Zenon
    <3>2. QED
      BY <2>1, <3>1, LastCloseEnds, LastCloseWaits, Zenon
  <2>5. CASE pipeclose(p)
    <3>1. Closes(p, ff[p].pipe, ff[p].writable)
      BY <2>5, pipecloseIs, Zenon
    <3>2. QED
      BY <3>1, ClosesEnds, ClosesWaits, Zenon
  <2>6. CASE kill(p)
    <3>1. asleep' \subseteq asleep /\ UNCHANGED <<file, ofile, pipe, lock, pc, arg, ff, todo>>
      BY <2>6 DEF kill, table, pipes, calls
    <3>2. QED
      BY <3>1, killKeeps, Zenon
  <2>7. CASE \/ write_again(p) \/ sleep(p)
             \/ \E n \in Reads : read_again(p, n)
             \/ \E d \in FD, n \in Reads : sys_read(p, d, n)
             \/ \E d \in FD, s \in Writes : sys_write(p, d, s)
    BY <2>7, write_againKeeps, sleepKeeps, read_againKeeps, sys_readKeeps, sys_writeKeeps, Zenon
  <2>8. QED
    BY <1>2, <2>2, <2>3, <2>4, <2>5, <2>6, <2>7, Zenon
<1>3. QED
  BY <1>1, <1>2, Zenon DEF Next

---------------------------------------------------------------------------
\* The three invariants together.
PInv == RInv /\ EInv /\ WInv

\* At boot.
LEMMA InitPInv == Init => PInv
BY InitRInv, InitEInv, InitWInv, Zenon DEF PInv

\* Every step keeps them, and wakes up the readers it leaves bytes to.
LEMMA StepPInv == PInv /\ [Next]_vars => PInv' /\ ReadersKnow
<1> SUFFICES ASSUME PInv, [Next]_vars PROVE PInv' /\ ReadersKnow
  OBVIOUS
<1>1. RInv /\ EInv /\ WInv /\ RInv'
  BY StepRInv, Zenon DEF PInv
<1>2. EInv' /\ WInv' /\ ReadersKnow
  BY <1>1, LibraryHolds, NextWaits, Zenon
<1>3. QED
  BY <1>1, <1>2, Zenon DEF PInv

\* An end of a pipe is open exactly when one file stands for it or one process is
\* between fileclose() and pipeclose() with it: no end is closed twice, none while
\* a file can still reach it, and a pipe's page is freed once, after both.
THEOREM EndsOpenRight == Spec => []PipeEnds
<1>1. PInv => PipeEnds
  BY EndsOpen, Zenon DEF PInv
<1>2. PInv /\ [Next]_vars => PInv'
  BY StepPInv, Zenon
<1>3. QED
  BY <1>1, <1>2, InitPInv, PTL DEF Spec

\* piperead() and pipewrite() sleep, and go on sleeping, only for a reason, and no
\* step leaves bytes to a reader without waking it up, except for the way out of
\* pipewrite() for a writer that kill() has marked, at whatever moment, and that
\* leaves the pipe full.
THEOREM SleepersHaveReason == Spec => SleepersWait
<1>1. PInv => \A p \in asleep :
                LET q == pipe[PageOf(p)]
                IN IF pc[p] = "piperead" THEN q.writeopen ELSE Full(q) /\ q.readopen
  BY SleepersWaited, Zenon DEF PInv
<1>2. PInv /\ [Next]_vars => PInv'
  BY StepPInv, Zenon
<1>3. PInv /\ [Next]_vars =>
        [\A p \in asleep' : pc'[p] = "piperead" /\ Bytes(PageOf(p))' =>
           /\ p \in asleep
           /\ \/ Bytes(PageOf(p))
              \/ Full(pipe'[PageOf(p)]) /\ \E w \in killed : WritesTo(w, PageOf(p))]_vars
  BY StepPInv, Zenon DEF ReadersKnow
<1>4. QED
  BY <1>1, <1>2, <1>3, InitPInv, PTL DEF Spec, SleepersWait

=============================================================================
