----------------------------- MODULE PipeWaits ------------------------------
(***************************************************************************)
(* The ends of pipes, and sleep and wakeup in them, for any number of      *)
(* processes and pipes, any size of the buffer and any width of its        *)
(* indices.                                                                *)
(*                                                                         *)
(* EInv is PipeEnds with the sets that it counts as values of functions.   *)
(* WInv says who is in a pipe call, who keeps a pipe's lock on the way to  *)
(* sleep(), and that whoever sleeps has a reason to. A step that stores or *)
(* takes bytes moves an index of the ring, so the first part is arithmetic *)
(* modulo the width of the indices.                                        *)
(***************************************************************************)
EXTENDS PipeDefs, TLAPS

USE ZenonT(5), SMTT(30)

---------------------------------------------------------------------------
\* A number modulo u, for numbers below 2u.
LEMMA Mod ==
  ASSUME NEW u \in Nat, NEW a \in Nat, u > 0
  PROVE  /\ a % u \in 0..(u - 1)
         /\ a < u => a % u = a
         /\ a >= u /\ a < u + u => a % u = a - u
BY SMT

\* How far n is ahead of r.
Dist(n, r, u) == (n + u - r) % u

\* The distance of the indices n and r of a ring of u places.
LEMMA Distance ==
  ASSUME NEW u \in Nat, u > 0, NEW n \in 0..(u - 1), NEW r \in 0..(u - 1)
  PROVE  /\ Dist(n, r, u) \in 0..(u - 1)
         /\ Dist(n, r, u) = IF n >= r THEN n - r ELSE n + u - r
<1>1. n + u - r \in Nat
  BY SMT
<1>2. CASE n >= r
  <2>1. n + u - r >= u /\ n + u - r < u + u /\ (n + u - r) - u = n - r
    BY <1>2, SMT
  <2>2. Dist(n, r, u) = (n + u - r) - u
    BY <1>1, <2>1, Mod DEF Dist
  <2> QED BY <1>2, <2>1, <2>2, SMT
<1>3. CASE ~(n >= r)
  <2>1. n + u - r < u
    BY <1>3, SMT
  <2>2. Dist(n, r, u) = n + u - r
    BY <1>1, <2>1, Mod DEF Dist
  <2> QED BY <1>3, <2>1, <2>2, SMT
<1> QED BY <1>2, <1>3

\* Full and empty, and what adding k to either index does.
RingFacts(u, m, n, r, k) ==
  /\ Dist(n, r, u) \in 0..(u - 1)
  /\ n = (r + m) % u <=> Dist(n, r, u) = m
  /\ n = r <=> Dist(n, r, u) = 0
  /\ (n + k) % u \in 0..(u - 1) /\ (r + k) % u \in 0..(u - 1)
  /\ Dist(n, r, u) + k < u => Dist((n + k) % u, r, u) = Dist(n, r, u) + k
  /\ k <= Dist(n, r, u) => Dist(n, (r + k) % u, u) = Dist(n, r, u) - k

\* They hold for a capacity m below u.
LEMMA Ring ==
  ASSUME NEW u \in Nat, u > 0, NEW m \in Nat, m < u, NEW n \in 0..(u - 1), NEW r \in 0..(u - 1),
         NEW k \in Nat
  PROVE  RingFacts(u, m, n, r, k)
<1> DEFINE c == Dist(n, r, u)
<1>1. c \in 0..(u - 1) /\ c = IF n >= r THEN n - r ELSE n + u - r
  BY Distance
<1> HIDE DEF c
<1>2. n = (r + m) % u <=> c = m
  <2>1. CASE r + m < u
    <3>1. (r + m) % u = r + m
      BY <2>1, Mod, SMT
    <3> QED BY <1>1, <2>1, <3>1, SMT
  <2>2. CASE ~(r + m < u)
    <3>1. (r + m) % u = r + m - u
      BY <2>2, Mod, SMT
    <3> QED BY <1>1, <2>2, <3>1, SMT
  <2> QED BY <2>1, <2>2
<1>3. n = r <=> c = 0
  BY <1>1, SMT
<1>4. (n + k) % u \in 0..(u - 1) /\ (r + k) % u \in 0..(u - 1)
  BY Mod, SMT
<1>5. ASSUME c + k < u PROVE Dist((n + k) % u, r, u) = c + k
  <2>1. k < u
    BY <1>1, <1>5, SMT
  <2>2. Dist((n + k) % u, r, u) = IF ((n + k) % u) >= r THEN ((n + k) % u) - r ELSE ((n + k) % u) + u - r
    BY <1>4, Distance
  <2>3. CASE n + k < u
    <3>1. (n + k) % u = n + k
      BY <2>3, Mod, SMT
    <3> QED BY <1>1, <1>5, <2>2, <2>3, <3>1, SMT
  <2>4. CASE ~(n + k < u)
    <3>1. (n + k) % u = n + k - u
      BY <2>1, <2>4, Mod, SMT
    <3> QED BY <1>1, <1>5, <2>1, <2>2, <2>4, <3>1, SMT
  <2> QED BY <2>3, <2>4
<1>6. ASSUME k <= c PROVE Dist(n, (r + k) % u, u) = c - k
  <2>1. k < u
    BY <1>1, <1>6, SMT
  <2>2. Dist(n, (r + k) % u, u) = IF n >= ((r + k) % u) THEN n - ((r + k) % u) ELSE n + u - ((r + k) % u)
    BY <1>4, Distance
  <2>3. CASE r + k < u
    <3>1. (r + k) % u = r + k
      BY <2>3, Mod, SMT
    <3> QED BY <1>1, <1>6, <2>2, <2>3, <3>1, SMT
  <2>4. CASE ~(r + k < u)
    <3>1. (r + k) % u = r + k - u
      BY <2>1, <2>4, Mod, SMT
    <3> QED BY <1>1, <1>6, <2>1, <2>2, <2>4, <3>1, SMT
  <2> QED BY <2>3, <2>4
<1> QED BY <1>1, <1>2, <1>3, <1>4, <1>5, <1>6 DEF c, RingFacts

\* The sizes.
LEMMA Sizes == UINT \in Nat /\ UINT > 0 /\ PIPESIZE \in Nat /\ PIPESIZE > 0 /\ PIPESIZE < UINT
<1>1. UINT \in Nat \ {0} /\ PIPESIZE \in Nat \ {0} /\ UINT > PIPESIZE
  BY PipeConstants, Zenon
<1>2. QED
  BY <1>1, SMT

\* A pipe's indices.
Indices(q) == q.nread \in 0..(UINT - 1) /\ q.nwrite \in 0..(UINT - 1) /\ count(q) <= PIPESIZE

\* Full and empty are counts of bytes.
LEMMA Counts ==
  ASSUME NEW q, Indices(q)
  PROVE  /\ count(q) \in 0..PIPESIZE
         /\ Full(q) <=> count(q) = PIPESIZE
         /\ q.nread = q.nwrite <=> count(q) = 0
<1>1. count(q) = Dist(q.nwrite, q.nread, UINT)
  BY DEF count, Dist
<1>3. 0 \in Nat
  BY SMT
<1>4. RingFacts(UINT, PIPESIZE, q.nwrite, q.nread, 0)
  BY <1>3, Sizes, Ring, Zenon DEF Indices
<1>5. Full(q) <=> count(q) = PIPESIZE
  BY <1>1, <1>4, Zenon DEF Full, RingFacts
<1>6. q.nread = q.nwrite <=> count(q) = 0
  BY <1>1, <1>4, Zenon DEF RingFacts
<1>7. count(q) \in 0..(UINT - 1)
  BY <1>1, <1>4, Zenon DEF RingFacts
<1>8. QED
  BY <1>5, <1>6, <1>7, Sizes, SMT DEF Indices

\* A write of k bytes.
LEMMA Adds ==
  ASSUME NEW q, Indices(q), NEW k \in Nat, k <= PIPESIZE - count(q), NEW t,
         t.nread = q.nread, t.nwrite = (q.nwrite + k) % UINT
  PROVE  Indices(t) /\ count(t) = count(q) + k
<1>1. count(q) = Dist(q.nwrite, q.nread, UINT) /\ count(t) = Dist((q.nwrite + k) % UINT, q.nread, UINT)
  BY DEF count, Dist
<1>2. count(q) \in 0..PIPESIZE
  BY Counts
<1>3. count(q) + k < UINT
  BY <1>2, Sizes, SMT
<1>4. RingFacts(UINT, PIPESIZE, q.nwrite, q.nread, k)
  BY Sizes, Ring, Zenon DEF Indices
<1>5. count(t) = count(q) + k /\ t.nwrite \in 0..(UINT - 1)
  BY <1>1, <1>3, <1>4, Zenon DEF RingFacts
<1>6. QED
  BY <1>2, <1>5, Sizes, SMT DEF Indices

\* A read of k bytes.
LEMMA Takes ==
  ASSUME NEW q, Indices(q), NEW k \in Nat, k <= count(q), NEW t,
         t.nread = (q.nread + k) % UINT, t.nwrite = q.nwrite
  PROVE  Indices(t) /\ count(t) = count(q) - k
<1>1. count(q) = Dist(q.nwrite, q.nread, UINT) /\ count(t) = Dist(q.nwrite, (q.nread + k) % UINT, UINT)
  BY DEF count, Dist
<1>2. count(q) \in 0..PIPESIZE
  BY Counts
<1>3. RingFacts(UINT, PIPESIZE, q.nwrite, q.nread, k)
  BY Sizes, Ring, Zenon DEF Indices
<1>4. count(t) = count(q) - k /\ t.nread \in 0..(UINT - 1)
  BY <1>1, <1>3, Zenon DEF RingFacts
<1>5. QED
  BY <1>2, <1>4, Sizes, SMT DEF Indices

---------------------------------------------------------------------------
\* The end of a pipe that each file stands for, and the end that each process is
\* about to close.
NoEnd == <<None, FALSE>>
FileEnd == [f \in File |-> IF file[f].type = "PIPE" THEN <<file[f].pipe, file[f].writable>> ELSE NoEnd]
CloserEnd == [p \in Proc |-> IF pc[p] = "pipeclose" THEN <<ff[p].pipe, ff[p].writable>> ELSE NoEnd]

\* An end is open or not.
Open(v) == IF v[2] THEN pipe[v[1]].writeopen ELSE pipe[v[1]].readopen
End == Page \X BOOLEAN

\* PipeEnds, with the sets it counts as values of functions.
EInv == \A v \in End : Count(FileEnd, v) + Count(CloserEnd, v) = One(Open(v))

\* What stays of the ends.
SameOpen(g) == pipe'[g].readopen = pipe[g].readopen /\ pipe'[g].writeopen = pipe[g].writeopen
SameClosers == \A q \in Proc : CloserEnd'[q] = CloserEnd[q]

\* The two functions.
LEMMA EndFunctions ==
  /\ DOMAIN FileEnd = File /\ DOMAIN CloserEnd = Proc
  /\ \A f \in File : FileEnd[f] = IF file[f].type = "PIPE" THEN <<file[f].pipe, file[f].writable>> ELSE NoEnd
  /\ \A p \in Proc : CloserEnd[p] = IF pc[p] = "pipeclose" THEN <<ff[p].pipe, ff[p].writable>> ELSE NoEnd
BY DEF FileEnd, CloserEnd

\* In the next state too.
LEMMA EndFunctionsNext ==
  /\ DOMAIN FileEnd' = File /\ DOMAIN CloserEnd' = Proc
  /\ \A f \in File : FileEnd'[f] = IF file'[f].type = "PIPE" THEN <<file'[f].pipe, file'[f].writable>> ELSE NoEnd
  /\ \A p \in Proc : CloserEnd'[p] = IF pc'[p] = "pipeclose" THEN <<ff'[p].pipe, ff'[p].writable>> ELSE NoEnd
BY DEF FileEnd, CloserEnd

\* No end of a pipe is NoEnd; an end has two parts.
LEMMA EndFacts == NoEnd \notin End /\ \A v \in End : v[1] \in Page /\ v[2] \in BOOLEAN /\ v = <<v[1], v[2]>>
BY PipeConstants, SMT DEF NoEnd, End

\* What is left without the first, if it is something.
LEMMA TwoLeft == ASSUME NEW n \in Nat, NEW m \in Nat, m = n - 1, m # 0 PROVE n >= 2
BY SMT

\* Nothing and nothing.
LEMMA NoSum == ASSUME NEW a, NEW b, a = 0, b = 0 PROVE a + b = 0
BY SMT

\* No file is None.
LEMMA NoneNoFile == None \notin File
BY PipeConstants, SMT DEF File, None

\* Counts of ends are numbers.
LEMMA EndNat ==
  ASSUME Library, NEW v
  PROVE  /\ Count(FileEnd, v) \in Nat /\ Count(CloserEnd, v) \in Nat
         /\ Count(FileEnd', v) \in Nat /\ Count(CloserEnd', v) \in Nat
<1>1. IsFiniteSet(File) /\ IsFiniteSet(Proc)
  BY PipeConstants DEF Library
<1>2. QED
  BY <1>1, EndFunctions, EndFunctionsNext, Zenon DEF Library

\* They follow a change of one file, or of one process.
LEMMA OneFile ==
  ASSUME Library, NEW x \in File, \A f \in File \ {x} : FileEnd'[f] = FileEnd[f], NEW v
  PROVE  Count(FileEnd', v) + One(FileEnd[x] = v) = Count(FileEnd, v) + One(FileEnd'[x] = v)
<1>1. DOMAIN FileEnd = File /\ DOMAIN FileEnd' = File /\ IsFiniteSet(File)
  BY EndFunctions, EndFunctionsNext DEF Library
<1>2. Shifts(FileEnd, FileEnd', x, v)
  BY <1>1, Zenon DEF Library
<1>3. QED
  BY <1>2, Zenon DEF Shifts

\* ... of one process.
LEMMA OneCloser ==
  ASSUME Library, NEW p \in Proc, \A q \in Proc \ {p} : CloserEnd'[q] = CloserEnd[q], NEW v
  PROVE  Count(CloserEnd', v) + One(CloserEnd[p] = v) = Count(CloserEnd, v) + One(CloserEnd'[p] = v)
<1>1. DOMAIN CloserEnd = Proc /\ DOMAIN CloserEnd' = Proc /\ IsFiniteSet(Proc)
  BY EndFunctions, EndFunctionsNext, PipeConstants
<1>2. Shifts(CloserEnd, CloserEnd', p, v)
  BY <1>1, Zenon DEF Library
<1>3. QED
  BY <1>2, Zenon DEF Shifts

\* The end of a file counts, and so does one about to be closed.
LEMMA EndTaken ==
  ASSUME Library
  PROVE  /\ \A f \in File : Count(FileEnd, FileEnd[f]) >= 1
         /\ \A p \in Proc : Count(CloserEnd, CloserEnd[p]) >= 1
<1>1. DOMAIN FileEnd = File /\ IsFiniteSet(File) /\ DOMAIN CloserEnd = Proc /\ IsFiniteSet(Proc)
  BY EndFunctions, PipeConstants DEF Library
<1>2. QED
  BY <1>1, Zenon DEF Library

\* Steps that neither make nor close an end.
LEMMA SameEnds ==
  ASSUME EInv, \A f \in File : SameKind(f), \A g \in Page : SameOpen(g), SameClosers
  PROVE  EInv'
<1>1. FileEnd' = FileEnd
  BY DEF FileEnd, SameKind
<1>2. CloserEnd' = CloserEnd
  BY DEF CloserEnd, SameClosers
<1>3. ASSUME NEW v \in End PROVE Open(v)' = Open(v)
  BY <1>3, EndFacts DEF Open, SameOpen
<1>4. ASSUME NEW v \in End PROVE (Count(FileEnd, v) + Count(CloserEnd, v) = One(Open(v)))'
  <2>1. Count(FileEnd, v) + Count(CloserEnd, v) = One(Open(v))
    BY <1>4 DEF EInv
  <2>2. QED
    BY <1>1, <1>2, <1>3, <1>4, <2>1 DEF Count, One
<1>5. QED
  BY <1>4 DEF EInv

\* The file that fileclose() frees passes its end on to the process.
LEMMA PassesEnd ==
  ASSUME Library, EInv, NEW f \in File, NEW p \in Proc,
         \A h \in File \ {f} : SameKind(h), FileEnd'[f] = NoEnd,
         \A q \in Proc \ {p} : CloserEnd'[q] = CloserEnd[q], CloserEnd[p] = NoEnd,
         CloserEnd'[p] = FileEnd[f],
         \A g \in Page : SameOpen(g)
  PROVE  EInv'
<1>1. SUFFICES ASSUME NEW v \in End PROVE (Count(FileEnd, v) + Count(CloserEnd, v) = One(Open(v)))'
  BY DEF EInv
<1>2. Count(FileEnd, v) + Count(CloserEnd, v) = One(Open(v)) /\ v # NoEnd
  BY EndFacts DEF EInv
<1>3. \A h \in File \ {f} : FileEnd'[h] = FileEnd[h]
  BY EndFunctions, EndFunctionsNext, SMT DEF SameKind
<1>4. Count(FileEnd', v) + One(FileEnd[f] = v) = Count(FileEnd, v) + One(FileEnd'[f] = v)
  BY <1>3, OneFile
<1>5. Count(CloserEnd', v) + One(CloserEnd[p] = v) = Count(CloserEnd, v) + One(CloserEnd'[p] = v)
  BY OneCloser, SMT
<1>6. One(Open(v)') = One(Open(v))
  BY EndFacts DEF Open, SameOpen
<1>7. Count(FileEnd, v)' = Count(FileEnd', v) /\ Count(CloserEnd, v)' = Count(CloserEnd', v)
  BY DEF Count
<1>8. One(CloserEnd[p] = v) = 0 /\ One(FileEnd'[f] = v) = 0
  BY <1>2 DEF One
<1>9. Count(FileEnd', v) + Count(CloserEnd', v) = Count(FileEnd, v) + Count(CloserEnd, v)
  <2>1. CloserEnd'[p] = FileEnd[f] /\ One(FileEnd[f] = v) \in Nat
    BY DEF One
  <2>2. QED
    BY <1>4, <1>5, <1>8, <2>1, EndNat, SMT
<1>10. QED
  BY <1>2, <1>6, <1>7, <1>9 DEF One

\* pipeclose() closes the end that the process was left with.
LEMMA ClosesEnd ==
  ASSUME Library, EInv, NEW p \in Proc, NEW e \in End, CloserEnd[p] = e, CloserEnd'[p] = NoEnd,
         \A f \in File : SameKind(f),
         \A q \in Proc \ {p} : CloserEnd'[q] = CloserEnd[q],
         ~Open(e)', \A v \in End \ {e} : Open(v)' = Open(v)
  PROVE  EInv'
<1>1. SUFFICES ASSUME NEW v \in End PROVE (Count(FileEnd, v) + Count(CloserEnd, v) = One(Open(v)))'
  BY DEF EInv
<1>2. Count(FileEnd, v) + Count(CloserEnd, v) = One(Open(v)) /\ v # NoEnd
  BY EndFacts DEF EInv
<1>3. FileEnd' = FileEnd
  BY DEF FileEnd, SameKind
<1>4. Count(CloserEnd', v) + One(e = v) = Count(CloserEnd, v) + One(NoEnd = v)
  <2>1. Count(CloserEnd', v) + One(CloserEnd[p] = v) = Count(CloserEnd, v) + One(CloserEnd'[p] = v)
    BY OneCloser, SMT
  <2>2. QED
    BY <2>1, Zenon
<1>5. One(NoEnd = v) = 0
  BY <1>2 DEF One
<1>6. Count(FileEnd, v)' = Count(FileEnd', v) /\ Count(CloserEnd, v)' = Count(CloserEnd', v)
  BY DEF Count
<1>7. CASE v = e
  <2>1. One(Open(v)') = 0
    BY <1>7 DEF One
  <2>2. Count(CloserEnd, v) >= 1
    <3>1. Count(CloserEnd, CloserEnd[p]) >= 1
      BY EndTaken, Zenon
    <3>2. QED
      BY <1>7, <3>1
  <2>3. One(e = v) = 1 /\ One(Open(v)) \in {0, 1}
    BY <1>7 DEF One
  <2>4. Count(FileEnd', v) + Count(CloserEnd', v) = 0
    BY <1>2, <1>3, <1>4, <1>5, <2>2, <2>3, EndNat, SMT
  <2>5. QED
    BY <1>6, <2>1, <2>4 DEF One
<1>8. CASE v # e
  <2>1. One(Open(v)') = One(Open(v))
    BY <1>8 DEF One
  <2>2. One(e = v) = 0
    BY <1>8 DEF One
  <2>3. Count(CloserEnd', v) = Count(CloserEnd, v)
    BY <1>4, <1>5, <2>2, EndNat, SMT
  <2>4. QED
    BY <1>2, <1>3, <1>6, <2>1, <2>3 DEF One
<1>9. QED
  BY <1>7, <1>8

\* When the ends of two files change.
TwoChange(x, y, v) ==
  Count(FileEnd', v) + One(FileEnd[x] = v) + One(FileEnd[y] = v)
    = Count(FileEnd, v) + One(FileEnd'[x] = v) + One(FileEnd'[y] = v)

\* The counts follow.
LEMMA TwoFiles ==
  ASSUME Library, NEW x \in File, NEW y \in File, x # y,
         \A f \in File \ {x, y} : FileEnd'[f] = FileEnd[f], NEW v
  PROVE  TwoChange(x, y, v)
<1> DEFINE m == [z \in File |-> IF z = x THEN FileEnd'[x] ELSE FileEnd[z]]
<1>1. DOMAIN m = File /\ m[x] = FileEnd'[x] /\ \A z \in File \ {x} : m[z] = FileEnd[z]
  OBVIOUS
<1>2. m[y] = FileEnd[y] /\ \A z \in File \ {y} : FileEnd'[z] = m[z]
  OBVIOUS
<1> HIDE DEF m
<1>3. DOMAIN FileEnd = File /\ DOMAIN FileEnd' = File /\ IsFiniteSet(File)
  BY EndFunctions, EndFunctionsNext DEF Library
<1>4. Shifts(FileEnd, m, x, v)
  BY <1>1, <1>3, Zenon DEF Library
<1>5. Shifts(m, FileEnd', y, v)
  BY <1>1, <1>2, <1>3, Zenon DEF Library
<1>6. Count(FileEnd, v) \in Nat /\ Count(FileEnd', v) \in Nat /\ Count(m, v) \in Nat
  BY <1>1, <1>3, Zenon DEF Library
<1>7. /\ Count(m, v) + One(FileEnd[x] = v) = Count(FileEnd, v) + One(FileEnd'[x] = v)
      /\ Count(FileEnd', v) + One(FileEnd[y] = v) = Count(m, v) + One(FileEnd'[y] = v)
  BY <1>1, <1>2, <1>4, <1>5, Zenon DEF Shifts
<1>8. QED
  BY <1>6, <1>7, SMT DEF TwoChange, One

\* pipealloc() opens both ends of a page that had none.
LEMMA OpensEnds ==
  ASSUME Library, EInv, NEW g \in Page, ~pipe[g].readopen, ~pipe[g].writeopen,
         NEW rf \in File, NEW wf \in File, rf # wf, FileEnd[rf] = NoEnd, FileEnd[wf] = NoEnd,
         FileEnd'[rf] = <<g, FALSE>>, FileEnd'[wf] = <<g, TRUE>>,
         \A f \in File \ {rf, wf} : FileEnd'[f] = FileEnd[f], SameClosers,
         pipe'[g].readopen, pipe'[g].writeopen, \A h \in Page \ {g} : SameOpen(h)
  PROVE  EInv'
<1>1. SUFFICES ASSUME NEW v \in End PROVE (Count(FileEnd, v) + Count(CloserEnd, v) = One(Open(v)))'
  BY DEF EInv
<1>2. Count(FileEnd, v) + Count(CloserEnd, v) = One(Open(v)) /\ v # NoEnd
  BY EndFacts DEF EInv
<1>3. CloserEnd' = CloserEnd
  BY DEF CloserEnd, SameClosers
<1>4. Count(FileEnd', v) + One(FileEnd[rf] = v) + One(FileEnd[wf] = v)
        = Count(FileEnd, v) + One(FileEnd'[rf] = v) + One(FileEnd'[wf] = v)
  <2>1. TwoChange(rf, wf, v)
    BY TwoFiles, Zenon
  <2>2. QED
    BY <2>1, Zenon DEF TwoChange
<1>5. Count(FileEnd, v)' = Count(FileEnd', v) /\ Count(CloserEnd, v)' = Count(CloserEnd', v)
  BY DEF Count
<1>6. One(FileEnd[rf] = v) = 0 /\ One(FileEnd[wf] = v) = 0
  BY <1>2 DEF One
<1>a. 0 + 1 + 0 = 1 /\ 0 + 0 + 1 = 1 /\ \A n \in Nat : n + 0 + 0 = n
  BY SMT
<1>7. One(Open(v)') = One(Open(v)) + One(FileEnd'[rf] = v) + One(FileEnd'[wf] = v)
  <2>1. v[1] \in Page /\ v[2] \in BOOLEAN /\ v = <<v[1], v[2]>>
    BY EndFacts
  <2>2. CASE v[1] # g
    <3>1. One(FileEnd'[rf] = v) = 0 /\ One(FileEnd'[wf] = v) = 0
      BY <2>1, <2>2, SMT DEF One
    <3>2. One(Open(v)') = One(Open(v)) /\ One(Open(v)) \in Nat
      BY <2>1, <2>2 DEF Open, SameOpen, One
    <3>3. QED
      BY <1>a, <3>1, <3>2, Zenon
  <2>3. CASE v = <<g, FALSE>>
    <3>1. One(FileEnd'[rf] = v) = 1 /\ One(FileEnd'[wf] = v) = 0
      BY <2>3, SMT DEF One
    <3>2. One(Open(v)') = 1 /\ One(Open(v)) = 0
      BY <2>3 DEF Open, One
    <3>3. QED
      BY <1>a, <3>1, <3>2, Zenon
  <2>4. CASE v = <<g, TRUE>>
    <3>1. One(FileEnd'[rf] = v) = 0 /\ One(FileEnd'[wf] = v) = 1
      BY <2>4, SMT DEF One
    <3>2. One(Open(v)') = 1 /\ One(Open(v)) = 0
      BY <2>4 DEF Open, One
    <3>3. QED
      BY <1>a, <3>1, <3>2, Zenon
  <2>5. QED
    BY <2>1, <2>2, <2>3, <2>4
<1>8. One(FileEnd'[rf] = v) \in Nat /\ One(FileEnd'[wf] = v) \in Nat /\ One(Open(v)) \in Nat
  BY DEF One
<1>9. Count(FileEnd', v) + Count(CloserEnd', v) = One(Open(v)')
  <2>2. Count(FileEnd', v) + 0 + 0 = Count(FileEnd, v) + One(FileEnd'[rf] = v) + One(FileEnd'[wf] = v)
    BY <1>4, <1>6, Zenon
  <2>3. Count(FileEnd', v) + Count(CloserEnd, v)
          = One(Open(v)) + One(FileEnd'[rf] = v) + One(FileEnd'[wf] = v)
    <3>1. PICK x, y, o \in Nat :
            x = One(FileEnd'[rf] = v) /\ y = One(FileEnd'[wf] = v) /\ o = One(Open(v))
      BY <1>8, Zenon
    <3>2. Count(FileEnd', v) + 0 + 0 = Count(FileEnd, v) + x + y
      BY <2>2, <3>1, Zenon
    <3>3. Count(FileEnd, v) + Count(CloserEnd, v) = o
      BY <1>2, <3>1, Zenon
    <3>4. Count(FileEnd', v) + Count(CloserEnd, v) = o + x + y
      BY <3>2, <3>3, EndNat, SMT
    <3>5. QED
      BY <3>1, <3>4, Zenon
  <2>4. QED
    BY <1>3, <1>7, <2>3, Zenon
<1>10. QED
  BY <1>5, <1>9 DEF One

---------------------------------------------------------------------------
(***************************************************************************)
(* The invariant of sleeping and waking up in pipes.                       *)
(***************************************************************************)
\* A process in a pipe call has its file open, in a descriptor and for its direction.
InCall(p) ==
  pc[p] \in PipeCalls => /\ arg[p] \in File /\ \E d \in FD : ofile[p][d] = arg[p]
                         /\ file[arg[p]].writable <=> pc[p] = "pipewrite"

\* Descriptors are of pipes.
Opened == \A p \in Proc : \A d \in FD : ofile[p][d] # None => file[ofile[p][d]].type = "PIPE"

\* The indices stay within a ring of each other.
Rings ==
  \A g \in Page : /\ pipe[g].nread \in 0..(UINT - 1) /\ pipe[g].nwrite \in 0..(UINT - 1)
                  /\ count(pipe[g]) <= PIPESIZE

\* What a process in a pipe call waits for.
Waits(p) ==
  IF pc[p] = "piperead" THEN pipe[PageOf(p)].writeopen
  ELSE Full(pipe[PageOf(p)]) /\ pipe[PageOf(p)].readopen

\* Who keeps a pipe's lock is on its way to sleep(), and still has to wait.
Locks ==
  /\ lock \in [Page -> Proc \union {"free"}]
  /\ \A g \in Page, q \in Proc : lock[g] = q =>
       /\ pc[q] \in PipeCalls /\ PageOf(q) = g /\ q \notin asleep /\ Waits(q)
       /\ pc[q] = "piperead" => ~Bytes(g)

\* So does who is asleep.
Asleep == asleep \subseteq Proc /\ \A p \in asleep : pc[p] \in PipeCalls /\ Waits(p)

\* The inductive invariant of sleep and wakeup in pipes.
WInv == Opened /\ Rings /\ Locks /\ Asleep /\ todo \in [Proc -> Seq(Byte)] /\ \A p \in Proc : InCall(p)

\* The ends, in the steps of the table.
LEMMA TableEnds == ASSUME EInv, TableStep PROVE EInv'
<1>1. \A f \in File : SameKind(f)
  BY DEF TableStep
<1>2. \A g \in Page : SameOpen(g)
  BY DEF TableStep, SameOpen
<1>3. SameClosers
  <2>1. ASSUME NEW q \in Proc PROVE CloserEnd'[q] = CloserEnd[q]
    BY <2>1, EndFunctions, EndFunctionsNext DEF TableStep, Stays, Elsewhere, Busy
  <2>2. QED
    BY <2>1 DEF SameClosers
<1>4. QED
  BY <1>1, <1>2, <1>3, SameEnds, Zenon

\* fileclose() passes the end on.
LEMMA LastCloseEnds ==
  ASSUME Library, EInv, NEW p \in Proc, NEW f, LastClose(p, f)
  PROVE  EInv'
<1>1. f \in File /\ \A h \in File \ {f} : SameKind(h)
  BY DEF LastClose
<1>2. FileEnd'[f] = NoEnd
  BY <1>1, EndFunctionsNext DEF LastClose
<1>3. CloserEnd[p] = NoEnd /\ \A q \in Proc \ {p} : CloserEnd'[q] = CloserEnd[q]
  BY EndFunctions, EndFunctionsNext, SMT DEF LastClose
<1>4. CloserEnd'[p] = FileEnd[f]
  BY <1>1, EndFunctions, EndFunctionsNext DEF LastClose
<1>5. \A g \in Page : SameOpen(g)
  BY DEF LastClose, SameOpen
<1>6. QED
  BY <1>1, <1>2, <1>3, <1>4, <1>5, PassesEnd, Zenon

\* pipealloc() opens both ends.
LEMMA MakesEnds ==
  ASSUME Library, EInv, NEW p \in Proc, NEW rf, NEW wf, NEW g, Makes(p, rf, wf, g)
  PROVE  EInv'
<1>1. /\ rf \in File /\ wf \in File /\ rf # wf /\ g \in Page /\ ~pipe[g].readopen /\ ~pipe[g].writeopen
      /\ file[rf].type = "NONE" /\ file[wf].type = "NONE"
      /\ file'[rf] = PipeFile(g, FALSE) /\ file'[wf] = PipeFile(g, TRUE)
      /\ \A h \in File \ {rf, wf} : file'[h] = file[h]
      /\ \A h \in Page \ {g} : pipe'[h] = pipe[h]
  BY DEF Makes
<1>2. FileEnd[rf] = NoEnd /\ FileEnd[wf] = NoEnd
  BY <1>1, EndFunctions
<1>3. FileEnd'[rf] = <<g, FALSE>> /\ FileEnd'[wf] = <<g, TRUE>>
  <2>1. /\ file'[rf].type = "PIPE" /\ file'[rf].pipe = g /\ file'[rf].writable = FALSE
        /\ file'[wf].type = "PIPE" /\ file'[wf].pipe = g /\ file'[wf].writable = TRUE
    BY <1>1, SMT DEF PipeFile
  <2>2. /\ FileEnd'[rf] = <<file'[rf].pipe, file'[rf].writable>>
        /\ FileEnd'[wf] = <<file'[wf].pipe, file'[wf].writable>>
    <3>1. rf \in File /\ wf \in File
      BY <1>1
    <3>2. QED
      BY <2>1, <3>1, EndFunctionsNext, Zenon
  <2>3. QED
    BY <2>1, <2>2, Zenon
<1>4. \A f \in File \ {rf, wf} : FileEnd'[f] = FileEnd[f]
  BY <1>1, EndFunctions, EndFunctionsNext, SMT
<1>5. SameClosers
  BY EndFunctions, EndFunctionsNext, SMT DEF SameClosers, Makes, Stays
<1>6. pipe'[g].readopen /\ pipe'[g].writeopen /\ \A h \in Page \ {g} : SameOpen(h)
  BY <1>1 DEF Makes, NoPipe, SameOpen
<1>7. QED
  BY <1>1, <1>2, <1>3, <1>4, <1>5, <1>6, OpensEnds, Zenon

\* The file of a pipe call is of a pipe, and that end of it is open.
LEMMA CallFile ==
  ASSUME Library, RInv, EInv, Opened, NEW q \in Proc, NEW f, NEW d \in FD, ofile[q][d] = f, f # None
  PROVE  /\ f \in File /\ file[f].type = "PIPE" /\ file[f].pipe \in Page /\ file[f].writable \in BOOLEAN
         /\ IF file[f].writable THEN pipe[file[f].pipe].writeopen ELSE pipe[file[f].pipe].readopen
<1>1. f \in File /\ file[f].type = "PIPE" /\ file[f].pipe \in Page /\ file[f].writable \in BOOLEAN
  BY SMT DEF RInv, Types, FileRecord, Slots, Opened
<1>2. PICK v : v = <<file[f].pipe, file[f].writable>>
  OBVIOUS
<1>3. v \in End /\ FileEnd[f] = v
  BY <1>1, <1>2, EndFunctions DEF End
<1>4. Count(FileEnd, v) >= 1
  BY <1>1, <1>3, EndTaken, Zenon
<1>5. Open(v)
  <2>1. Count(FileEnd, v) + Count(CloserEnd, v) = One(Open(v))
    BY <1>3, Zenon DEF EInv
  <2>2. One(Open(v)) # 0
    BY <1>4, <2>1, EndNat, SMT
  <2>3. QED
    BY <2>2 DEF One
<1>6. QED
  BY <1>1, <1>2, <1>5 DEF Open

\* In a pipe call.
LEMMA InCallFile ==
  ASSUME Library, RInv, EInv, WInv, NEW q \in Proc, pc[q] \in PipeCalls
  PROVE  /\ arg[q] \in File /\ file[arg[q]].type = "PIPE" /\ PageOf(q) \in Page
         /\ file[arg[q]].writable <=> pc[q] = "pipewrite"
         /\ IF pc[q] = "pipewrite" THEN pipe[PageOf(q)].writeopen ELSE pipe[PageOf(q)].readopen
<1>1. /\ Opened /\ arg[q] \in File /\ (\E d \in FD : ofile[q][d] = arg[q])
      /\ file[arg[q]].writable <=> pc[q] = "pipewrite"
  BY DEF WInv, InCall
<1>2. PICK d \in FD : ofile[q][d] = arg[q]
  BY <1>1
<1>3. arg[q] # None
  BY <1>1, NoneNoFile
<1>4. /\ file[arg[q]].type = "PIPE" /\ file[arg[q]].pipe \in Page
      /\ IF file[arg[q]].writable THEN pipe[file[arg[q]].pipe].writeopen ELSE pipe[file[arg[q]].pipe].readopen
  BY <1>1, <1>2, <1>3, CallFile, Zenon
<1>5. QED
  BY <1>1, <1>4 DEF PageOf

\* What a step of the table leaves alone: the calls, their files and their pipes.
Frame ==
  /\ asleep' = asleep /\ lock' = lock /\ todo' = todo
  /\ \A q \in Proc : pc[q] \in PipeCalls \/ pc'[q] \in PipeCalls => Stays(q)
  /\ \A q \in Proc : pc[q] \in PipeCalls =>
       SameKind(arg[q]) /\ pipe'[PageOf(q)] = pipe[PageOf(q)]

\* Nobody's reason to sleep changes with it.
LEMMA FrameKeeps ==
  ASSUME Library, RInv, EInv, WInv, Frame, Opened', Rings'
  PROVE  /\ WInv'
         /\ \A q \in asleep' : pc'[q] = "piperead" /\ Bytes(PageOf(q))' => q \in asleep /\ Bytes(PageOf(q))
<1>1. ASSUME NEW q \in Proc, pc[q] \in PipeCalls
      PROVE  /\ pc'[q] = pc[q] /\ arg'[q] = arg[q] /\ ofile'[q] = ofile[q] /\ PageOf(q)' = PageOf(q)
             /\ file'[arg[q]].writable = file[arg[q]].writable /\ pipe'[PageOf(q)] = pipe[PageOf(q)]
  <2>1. file[arg[q]].type = "PIPE"
    BY <1>1, InCallFile, Zenon
  <2>2. QED
    BY <1>1, <2>1 DEF Frame, Stays, SameKind, PageOf
<1>2. ASSUME NEW q \in Proc, pc[q] \in PipeCalls PROVE Waits(q)' = Waits(q)
  BY <1>1, <1>2 DEF Waits, Full
<1>3. ASSUME NEW q \in Proc PROVE InCall(q)'
  <2>1. SUFFICES ASSUME pc'[q] \in PipeCalls PROVE InCall(q)'
    BY DEF InCall
  <2>2. pc[q] \in PipeCalls /\ InCall(q)
    BY <2>1 DEF Frame, Stays, WInv
  <2>3. QED
    BY <1>1, <2>2 DEF InCall
<1>4. Asleep'
  BY <1>1, <1>2 DEF Asleep, WInv, Frame
<1>5. Locks'
  <2>1. ASSUME NEW g \in Page, NEW q \in Proc, lock'[g] = q
        PROVE  /\ pc'[q] \in PipeCalls /\ PageOf(q)' = g /\ q \notin asleep' /\ Waits(q)'
               /\ pc'[q] = "piperead" => ~Bytes(g)'
    <3>1. /\ pc[q] \in PipeCalls /\ PageOf(q) = g /\ q \notin asleep /\ Waits(q)
          /\ pc[q] = "piperead" => ~Bytes(g)
      BY <2>1 DEF WInv, Locks, Frame
    <3>2. Bytes(g)' = Bytes(g)
      BY <1>1, <3>1 DEF Bytes
    <3>3. QED
      BY <1>1, <1>2, <3>1, <3>2 DEF Frame
  <2>2. lock' \in [Page -> Proc \union {"free"}]
    BY DEF WInv, Locks, Frame
  <2>3. QED
    BY <2>1, <2>2 DEF Locks
<1>6. todo' \in [Proc -> Seq(Byte)]
  BY DEF WInv, Frame
<1>7. WInv'
  BY <1>3, <1>4, <1>5, <1>6 DEF WInv
<1>8. ASSUME NEW q \in asleep', pc'[q] = "piperead", Bytes(PageOf(q))'
      PROVE  q \in asleep /\ Bytes(PageOf(q))
  <2>1. q \in asleep /\ q \in Proc /\ pc[q] \in PipeCalls
    BY <1>8 DEF Frame, WInv, Asleep
  <2>2. QED
    BY <1>1, <1>8, <2>1 DEF Bytes
<1>9. QED
  BY <1>7, <1>8

\* What the second half of SleepersWait says of a step.
ReadersKnow ==
  \A q \in asleep' : pc'[q] = "piperead" /\ Bytes(PageOf(q))' =>
    /\ q \in asleep
    /\ \/ Bytes(PageOf(q))
       \/ Full(pipe'[PageOf(q)]) /\ \E w \in killed : WritesTo(w, PageOf(q))

\* The steps of the table.
LEMMA TableWaits == ASSUME Library, RInv, EInv, WInv, TableStep PROVE WInv' /\ ReadersKnow
<1>1. ASSUME NEW q \in Proc, pc[q] \in PipeCalls PROVE arg[q] \in File
  BY <1>1, InCallFile, Zenon
<1>2. Frame
  BY <1>1 DEF TableStep, Frame, Elsewhere, Busy
<1>3. Opened'
  <2>1. SUFFICES ASSUME NEW q \in Proc, NEW d \in FD, ofile'[q][d] # None
                 PROVE  file'[ofile'[q][d]].type = "PIPE"
    BY DEF Opened
  <2>2. PICK r \in Proc, e \in FD : ofile[r][e] = ofile'[q][d]
    BY <2>1 DEF TableStep, Copied
  <2>3. file[ofile[r][e]].type = "PIPE" /\ ofile[r][e] \in File
    BY <2>1, <2>2, SMT DEF WInv, Opened, RInv, Types
  <2>4. QED
    BY <2>2, <2>3 DEF TableStep, SameKind
<1>4. Rings'
  BY DEF WInv, Rings, TableStep
<1>5. QED
  BY <1>2, <1>3, <1>4, FrameKeeps, Zenon DEF ReadersKnow

\* fileclose().
LEMMA LastCloseWaits ==
  ASSUME Library, RInv, EInv, WInv, NEW p \in Proc, NEW f, LastClose(p, f)
  PROVE  WInv' /\ ReadersKnow
<1>0. f \in File /\ (\A h \in File \ {f} : SameKind(h)) /\ (\A q \in Proc : \A d \in FD : ofile[q][d] # f)
  BY DEF LastClose
<1>1. ASSUME NEW q \in Proc, pc[q] \in PipeCalls PROVE arg[q] \in File \ {f}
  <2>1. \E d \in FD : ofile[q][d] = arg[q]
    BY <1>1 DEF WInv, InCall
  <2>2. QED
    BY <1>0, <1>1, <2>1, InCallFile, Zenon
<1>2. Frame
  BY <1>0, <1>1 DEF LastClose, Frame, Stays, PipeCalls
<1>3. Opened'
  <2>1. SUFFICES ASSUME NEW q \in Proc, NEW d \in FD, ofile'[q][d] # None
                 PROVE  file'[ofile'[q][d]].type = "PIPE"
    BY DEF Opened
  <2>2. ofile'[q][d] = ofile[q][d]
    BY DEF LastClose
  <2>3. file[ofile[q][d]].type = "PIPE" /\ ofile[q][d] \in File
    BY <2>1, <2>2, SMT DEF WInv, Opened, RInv, Types
  <2>4. QED
    BY <1>0, <2>2, <2>3 DEF SameKind
<1>4. Rings'
  BY DEF WInv, Rings, LastClose
<1>5. QED
  BY <1>2, <1>3, <1>4, FrameKeeps, Zenon DEF ReadersKnow

\* pipealloc(): nobody is in a call on a page that it takes.
LEMMA MakesWaits ==
  ASSUME Library, RInv, EInv, WInv, NEW p \in Proc, NEW rf, NEW wf, NEW g, Makes(p, rf, wf, g)
  PROVE  WInv' /\ ReadersKnow
<1>0. /\ rf \in File /\ wf \in File /\ g \in Page /\ ~pipe[g].readopen /\ ~pipe[g].writeopen
      /\ \A q \in Proc : \A d \in FD : ofile[q][d] \notin {rf, wf}
      /\ \A h \in File \ {rf, wf} : file'[h] = file[h]
      /\ \A h \in Page \ {g} : pipe'[h] = pipe[h]
  BY DEF Makes
<1>1. ASSUME NEW q \in Proc, pc[q] \in PipeCalls
      PROVE  arg[q] \in File \ {rf, wf} /\ PageOf(q) \in Page \ {g}
  <2>1. \E d \in FD : ofile[q][d] = arg[q]
    BY <1>1 DEF WInv, InCall
  <2>2. arg[q] \in File \ {rf, wf}
    BY <1>0, <1>1, <2>1, InCallFile, Zenon
  <2>3. /\ PageOf(q) \in Page
        /\ IF pc[q] = "pipewrite" THEN pipe[PageOf(q)].writeopen ELSE pipe[PageOf(q)].readopen
    BY <1>1, InCallFile, Zenon
  <2>4. QED
    BY <1>0, <2>2, <2>3
<1>2. Frame
  <2>1. \A q \in Proc : pc[q] \in PipeCalls \/ pc'[q] \in PipeCalls => Stays(q)
    BY DEF Makes, PipeCalls
  <2>2. QED
    BY <1>0, <1>1, <2>1 DEF Makes, Frame, SameKind
<1>3. Opened'
  <2>1. SUFFICES ASSUME NEW q \in Proc, NEW d \in FD, ofile'[q][d] # None
                 PROVE  file'[ofile'[q][d]].type = "PIPE"
    BY DEF Opened
  <2>2. ofile'[q][d] \in {ofile[q][d], rf, wf}
    BY DEF Makes, Stays
  <2>3. CASE ofile'[q][d] \in {rf, wf}
    BY <2>3, SMT DEF Makes, PipeFile
  <2>4. CASE ofile'[q][d] = ofile[q][d]
    <3>1. file[ofile[q][d]].type = "PIPE" /\ ofile[q][d] \in File
      BY <2>1, <2>4, SMT DEF WInv, Opened, RInv, Types
    <3>2. QED
      BY <1>0, <2>4, <3>1
  <2>5. QED
    BY <2>2, <2>3, <2>4
<1>4. Rings'
  <2>1. pipe'[g].nread = 0 /\ pipe'[g].nwrite = 0
    BY DEF Makes, NoPipe
  <2>2. 0 \in 0..(UINT - 1) /\ count(pipe'[g]) <= PIPESIZE
    <3>1. UINT \in Nat /\ UINT > 0 /\ PIPESIZE \in Nat
      BY PipeConstants, SMT
    <3>2. (0 + UINT - 0) % UINT = 0
      BY <3>1, SMT
    <3>3. QED
      BY <2>1, <3>1, <3>2, SMT DEF count
  <2>3. QED
    BY <1>0, <2>1, <2>2 DEF WInv, Rings
<1>5. QED
  BY <1>2, <1>3, <1>4, FrameKeeps, Zenon DEF ReadersKnow

---------------------------------------------------------------------------
\* A step of p on the pipe in page g.
OnPipe(p, g) ==
  /\ g \in Page
  /\ file' = file /\ ofile' = ofile
  /\ \A q \in Proc \ {p} : pc'[q] = pc[q] /\ arg'[q] = arg[q]
  /\ \A h \in Page \ {g} : pipe'[h] = pipe[h] /\ lock'[h] = lock[h]
  /\ lock' \in [Page -> Proc \union {"free"}]
  /\ todo' \in [Proc -> Seq(Byte)]
  /\ asleep' \subseteq asleep \union {p}

\* Who is in a call on another pipe notices nothing.
LEMMA OnPipeKeeps ==
  ASSUME Library, RInv, EInv, WInv, NEW p \in Proc, NEW g, OnPipe(p, g), Indices(pipe'[g]), InCall(p)',
         pc'[p] \in PipeCalls => PageOf(p)' = g,
         p \in asleep' => pc'[p] \in PipeCalls,
         p \notin asleep \/ (pc'[p] = pc[p] /\ arg'[p] = arg[p]),
         \A h \in Page \ {g} : lock[h] # p,
         \A q \in asleep' : pc'[q] \in PipeCalls /\ PageOf(q)' = g => Waits(q)',
         \A q \in Proc : lock'[g] = q =>
           /\ pc'[q] \in PipeCalls /\ PageOf(q)' = g /\ q \notin asleep' /\ Waits(q)'
           /\ pc'[q] = "piperead" => ~Bytes(g)'
  PROVE  WInv'
<1>0. /\ g \in Page /\ file' = file /\ ofile' = ofile
      /\ \A q \in Proc \ {p} : pc'[q] = pc[q] /\ arg'[q] = arg[q] /\ PageOf(q)' = PageOf(q)
      /\ \A h \in Page \ {g} : pipe'[h] = pipe[h] /\ lock'[h] = lock[h]
  BY DEF OnPipe, PageOf
<1>1. Opened' /\ Rings'
  <2>1. Opened'
    BY <1>0 DEF WInv, Opened
  <2>2. Rings'
    BY <1>0 DEF WInv, Rings, Indices
  <2>3. QED
    BY <2>1, <2>2
<1>2. ASSUME NEW q \in Proc PROVE InCall(q)'
  BY <1>0, <1>2, SMT DEF WInv, InCall
<1>3. ASSUME NEW q \in Proc \ {p}, pc[q] \in PipeCalls, PageOf(q) # g
      PROVE  Waits(q)' = Waits(q)
  <2>1. PageOf(q) \in Page
    BY <1>3, InCallFile, Zenon
  <2>2. QED
    BY <1>0, <1>3, <2>1, SMT DEF Waits, Full
<1>4. Asleep'
  <2>1. asleep' \subseteq Proc /\ asleep \subseteq Proc
    BY DEF OnPipe, WInv, Asleep
  <2>2. ASSUME NEW q \in asleep' PROVE pc'[q] \in PipeCalls /\ Waits(q)'
    <3>1. CASE q = p
      BY <2>2, <3>1
    <3>2. CASE q # p
      <4>1. q \in asleep /\ pc[q] \in PipeCalls /\ Waits(q)
        BY <2>2, <3>2 DEF OnPipe, WInv, Asleep
      <4>2. QED
        BY <1>0, <1>3, <2>1, <2>2, <3>2, <4>1
    <3>3. QED
      BY <3>1, <3>2
  <2>3. QED
    BY <2>1, <2>2 DEF Asleep
<1>5. Locks'
  <2>1. ASSUME NEW h \in Page, NEW q \in Proc, lock'[h] = q
        PROVE  /\ pc'[q] \in PipeCalls /\ PageOf(q)' = h /\ q \notin asleep' /\ Waits(q)'
               /\ pc'[q] = "piperead" => ~Bytes(h)'
    <3>1. CASE h = g
      BY <2>1, <3>1
    <3>2. CASE h # g
      <4>1. lock[h] = q /\ q # p
        BY <1>0, <2>1, <3>2
      <4>2. /\ pc[q] \in PipeCalls /\ PageOf(q) = h /\ q \notin asleep /\ Waits(q)
            /\ pc[q] = "piperead" => ~Bytes(h)
        BY <2>1, <4>1 DEF WInv, Locks
      <4>3. Bytes(h)' = Bytes(h)
        BY <1>0, <2>1, <3>2 DEF Bytes
      <4>4. q \notin asleep'
        BY <4>1, <4>2 DEF OnPipe
      <4>5. QED
        BY <1>0, <1>3, <2>1, <3>2, <4>1, <4>2, <4>3, <4>4
    <3>3. QED
      BY <3>1, <3>2
  <2>2. QED
    BY <2>1 DEF Locks, OnPipe
<1>6. QED
  BY <1>1, <1>2, <1>4, <1>5 DEF WInv, OnPipe

\* "free" is no process.
LEMMA FreeLock == ASSUME NEW g \in Page, lock[g] = "free" PROVE \A q \in Proc : lock[g] # q
BY PipeConstants

\* A pipe whose indices stay has as many bytes.
LEMMA SameIndices ==
  ASSUME NEW q, NEW t, t.nread = q.nread, t.nwrite = q.nwrite
  PROVE  (Indices(q) => Indices(t)) /\ count(t) = count(q) /\ (Full(t) <=> Full(q))
BY DEF Indices, count, Full

\* pipeclose() closes the end that the process was left with, and wakes those who
\* wait for the other.
Closes(p, g, w) ==
  /\ g \in Page /\ w \in BOOLEAN /\ lock[g] = "free" /\ p \notin asleep
  /\ pc[p] = "pipeclose" /\ ff[p].pipe = g /\ ff[p].writable = w /\ pc'[p] \notin Busy
  /\ \A q \in Proc \ {p} : pc'[q] = pc[q] /\ arg'[q] = arg[q] /\ ff'[q] = ff[q]
  /\ file' = file /\ ofile' = ofile /\ lock' = lock /\ todo' = todo
  /\ \A h \in Page \ {g} : pipe'[h] = pipe[h]
  /\ pipe'[g].nread = pipe[g].nread /\ pipe'[g].nwrite = pipe[g].nwrite
  /\ IF w THEN ~pipe'[g].writeopen /\ pipe'[g].readopen = pipe[g].readopen
          ELSE ~pipe'[g].readopen /\ pipe'[g].writeopen = pipe[g].writeopen
  /\ asleep' = asleep \ Sleepers(g, chan(w))

\* It does.
LEMMA pipecloseIs ==
  ASSUME RInv, NEW p \in Proc, pipeclose(p)
  PROVE  Closes(p, ff[p].pipe, ff[p].writable)
<1> DEFINE g == ff[p].pipe
           w == ff[p].writable
<1>1. Types /\ CallOf(p) /\ pc[p] = "pipeclose" /\ p \notin asleep
  BY DEF RInv, pipeclose, At
<1>2. /\ lock[g] = "free" /\ asleep' = asleep \ Sleepers(g, chan(w))
      /\ pipe' = IF w THEN [pipe EXCEPT ![g].writeopen = FALSE] ELSE [pipe EXCEPT ![g].readopen = FALSE]
      /\ Goto(p, AfterClose(p, closing[p])) /\ ff' = [ff EXCEPT ![p] = NoFile]
      /\ file' = file /\ ofile' = ofile /\ arg' = arg /\ lock' = lock /\ todo' = todo
  BY DEF pipeclose, table
<1>3. g \in Page /\ w \in BOOLEAN
  BY <1>1 DEF CallOf, Types, FileRecord
<1> HIDE DEF g, w
<1>4. /\ pc'[p] \notin Busy
      /\ \A q \in Proc \ {p} : pc'[q] = pc[q] /\ arg'[q] = arg[q] /\ ff'[q] = ff[q]
  <2>1. AfterClose(p, closing[p]) \notin Busy
    BY DEF AfterClose, Home, Busy, PipeCalls
  <2>2. QED
    BY <1>1, <1>2, <2>1 DEF Types, Goto
<1>5. /\ \A h \in Page \ {g} : pipe'[h] = pipe[h]
      /\ pipe'[g].nread = pipe[g].nread /\ pipe'[g].nwrite = pipe[g].nwrite
      /\ IF w THEN ~pipe'[g].writeopen /\ pipe'[g].readopen = pipe[g].readopen
              ELSE ~pipe'[g].readopen /\ pipe'[g].writeopen = pipe[g].writeopen
  <2>1. /\ g \in DOMAIN pipe /\ DOMAIN pipe[g] = Fields
        /\ "nread" \in Fields /\ "nwrite" \in Fields /\ "readopen" \in Fields /\ "writeopen" \in Fields
    BY <1>1, <1>3 DEF Types, Fields
  <2>2. CASE w
    BY <1>1, <1>2, <2>1, <2>2 DEF Types
  <2>3. CASE ~w
    BY <1>1, <1>2, <2>1, <2>3 DEF Types
  <2>4. QED
    BY <2>2, <2>3
<1>6. QED
  BY <1>1, <1>2, <1>3, <1>4, <1>5 DEF Closes, g, w

\* The ends.
LEMMA ClosesEnds ==
  ASSUME Library, EInv, NEW p \in Proc, NEW g, NEW w, Closes(p, g, w)
  PROVE  EInv'
<1>1. PICK e : e = <<g, w>>
  OBVIOUS
<1>2. e \in End /\ CloserEnd[p] = e /\ CloserEnd'[p] = NoEnd
  BY <1>1, EndFunctions, EndFunctionsNext, SMT DEF Closes, End, Busy
<1>3. \A f \in File : SameKind(f)
  BY SMT DEF Closes, SameKind
<1>4. \A q \in Proc \ {p} : CloserEnd'[q] = CloserEnd[q]
  BY EndFunctions, EndFunctionsNext, SMT DEF Closes
<1>5. ~Open(e)'
  BY <1>1 DEF Closes, Open
<1>6. ASSUME NEW v \in End \ {e} PROVE Open(v)' = Open(v)
  <2>1. v[1] \in Page /\ v[2] \in BOOLEAN /\ v = <<v[1], v[2]>>
    BY EndFacts
  <2>2. v[1] # g \/ v[2] # w
    BY <1>1, <1>6, <2>1
  <2>3. CASE v[1] # g
    BY <2>1, <2>3 DEF Open, Closes
  <2>4. CASE v[1] = g /\ v[2] # w
    BY <2>1, <2>4 DEF Open, Closes
  <2>5. QED
    BY <2>2, <2>3, <2>4
<1>7. QED
  BY <1>2, <1>3, <1>4, <1>5, <1>6, ClosesEnd, Zenon

\* The sleepers.
LEMMA ClosesWaits ==
  ASSUME Library, RInv, EInv, WInv, NEW p \in Proc, NEW g, NEW w, Closes(p, g, w)
  PROVE  WInv' /\ ReadersKnow
<1>1. OnPipe(p, g)
  BY SMT DEF Closes, OnPipe, WInv, Locks
<1>2. Indices(pipe'[g])
  <2>1. Indices(pipe[g])
    BY DEF Closes, WInv, Rings, Indices
  <2>2. QED
    BY <2>1, SameIndices, Zenon DEF Closes
<1>3. pc'[p] \notin PipeCalls /\ pc[p] \notin PipeCalls /\ p \notin asleep /\ p \notin asleep'
  BY DEF Closes, Busy, PipeCalls
<1>4. \A h \in Page : lock[h] # p
  BY <1>3 DEF WInv, Locks
<1>5. ASSUME NEW q \in asleep' PROVE q \in asleep /\ q \in Proc /\ q # p /\ pc'[q] = pc[q] /\ PageOf(q)' = PageOf(q)
  BY <1>3, <1>5 DEF Closes, WInv, Asleep, PageOf
<1>6. ASSUME NEW q \in asleep', PageOf(q)' = g PROVE Waits(q)'
  <2>1. q \in asleep /\ pc'[q] = pc[q] /\ PageOf(q) = g /\ pc[q] \in PipeCalls /\ Waits(q)
    BY <1>5, <1>6 DEF WInv, Asleep
  <2>2. pc[q] # chan(w)
    BY <1>6, <2>1 DEF Closes, Sleepers
  <2>3. Full(pipe[g]) <=> Full(pipe'[g])
    BY SameIndices, Zenon DEF Closes
  <2>5. CASE w
    BY <1>6, <2>1, <2>2, <2>3, <2>5 DEF chan, PipeCalls, Waits, Closes, Full
  <2>6. CASE ~w
    BY <1>6, <2>1, <2>2, <2>3, <2>6 DEF chan, PipeCalls, Waits, Closes, Full
  <2>7. QED
    BY <2>5, <2>6
<1>7. \A q \in Proc : lock'[g] # q
  BY FreeLock DEF Closes
<1>8. WInv'
  BY <1>1, <1>2, <1>3, <1>4, <1>6, <1>7, OnPipeKeeps DEF InCall
<1>9. ReadersKnow
  <2>1. ASSUME NEW q \in asleep', Bytes(PageOf(q))' PROVE q \in asleep /\ Bytes(PageOf(q))
    <3>1. PageOf(q) \in Page
      BY <1>5, <2>1, InCallFile DEF WInv, Asleep
    <3>2. QED
      BY <1>5, <2>1, <3>1, SMT DEF Bytes, Closes
  <2>2. QED
    BY <2>1 DEF ReadersKnow
<1>10. QED
  BY <1>8, <1>9

---------------------------------------------------------------------------
\* The ends, in a pipe call: no file changes, and no pipe is opened or closed.
LEMMA CallEnds ==
  ASSUME EInv, NEW p \in Proc, file' = file, ff' = ff,
         \A q \in Proc \ {p} : pc'[q] = pc[q], pc[p] # "pipeclose", pc'[p] # "pipeclose",
         \A g \in Page : SameOpen(g)
  PROVE  EInv'
<1>1. \A f \in File : SameKind(f)
  BY DEF SameKind
<1>2. SameClosers
  <2>1. ASSUME NEW q \in Proc PROVE CloserEnd'[q] = CloserEnd[q]
    BY <2>1, EndFunctions, EndFunctionsNext, SMT
  <2>2. QED
    BY <2>1 DEF SameClosers
<1>3. QED
  BY <1>1, <1>2, SameEnds, Zenon

\* What is left of a write.
LEMMA Rest ==
  ASSUME NEW s \in Seq(Byte), NEW m \in Nat
  PROVE  /\ AtMost(Len(s), m) \in Nat /\ AtMost(Len(s), m) <= m /\ AtMost(Len(s), m) <= Len(s)
         /\ SubSeq(s, AtMost(Len(s), m) + 1, Len(s)) \in Seq(Byte)
         /\ SubSeq(s, AtMost(Len(s), m) + 1, Len(s)) # <<>> => AtMost(Len(s), m) = m
<1>1. Len(s) \in Nat
  BY SMT
<1>2. /\ AtMost(Len(s), m) \in Nat /\ AtMost(Len(s), m) <= m /\ AtMost(Len(s), m) <= Len(s)
      /\ AtMost(Len(s), m) = m \/ AtMost(Len(s), m) = Len(s)
  BY <1>1, SMT DEF AtMost
<1>3. PICK k \in Nat : k = AtMost(Len(s), m)
  BY <1>2
<1>4. k <= Len(s) /\ (k = m \/ k = Len(s))
  BY <1>2, <1>3
<1>5. SubSeq(s, k + 1, Len(s)) \in Seq(Byte)
  BY <1>1, <1>4, SMT
<1>6. k = Len(s) => SubSeq(s, k + 1, Len(s)) = <<>>
  BY <1>1, SMT
<1>7. QED
  BY <1>2, <1>3, <1>4, <1>5, <1>6, Zenon

\* What pipewrite() does to the pipe in page g, with k bytes written, more left if
\* more, and the readers woken if woken.
Stores(p, g, k, more, woken) ==
  /\ g \in Page /\ lock[g] = "free" /\ k \in Nat /\ k <= PIPESIZE - count(pipe[g])
  /\ \A h \in Page \ {g} : pipe'[h] = pipe[h]
  /\ pipe'[g].nread = pipe[g].nread /\ pipe'[g].nwrite = (pipe[g].nwrite + k) % UINT
  /\ pipe'[g].readopen = pipe[g].readopen /\ pipe'[g].writeopen = pipe[g].writeopen
  /\ file' = file /\ ofile' = ofile /\ ff' = ff /\ todo' \in [Proc -> Seq(Byte)]
  /\ more => k = PIPESIZE - count(pipe[g])
  /\ woken => asleep' = asleep \ Sleepers(g, "piperead")
  /\ ~woken => asleep' = asleep /\ more /\ (p \in killed \/ ~pipe[g].readopen)
  /\ \A q \in Proc \ {p} : pc'[q] = pc[q] /\ arg'[q] = arg[q]

\* Then it goes on to sleep() or returns.
Sleeps(p, f, label) ==
  /\ pc'[p] = label /\ arg'[p] = f /\ lock' = [lock EXCEPT ![file[f].pipe] = p]
Returns(p) == pc'[p] \in {"user", "exit"} /\ arg'[p] = None /\ lock' = lock

\* It does that.
LEMMA pipewriteIs ==
  ASSUME RInv, WInv, NEW p \in Proc, NEW f \in File, file[f].pipe \in Page, NEW s \in Seq(Byte),
         pipewrite(p, f, s)
  PROVE  \E k : \/ Stores(p, file[f].pipe, k, TRUE, TRUE) /\ Sleeps(p, f, "pipewrite") /\ pipe[file[f].pipe].readopen
                \/ \E more, woken \in BOOLEAN : Stores(p, file[f].pipe, k, more, woken) /\ Returns(p)
<1> DEFINE g == file[f].pipe
           q == pipe[g]
           k == AtMost(Len(s), PIPESIZE - count(q))
           rest == SubSeq(s, k + 1, Len(s))
<1>1. Types /\ g \in Page /\ Indices(q) /\ todo \in [Proc -> Seq(Byte)]
  BY DEF RInv, WInv, Rings, Indices
<1>2. PIPESIZE - count(q) \in Nat
  <2>1. count(q) \in 0..PIPESIZE
    BY <1>1, Counts, Zenon
  <2>2. QED
    BY <2>1, Sizes, SMT
<1>3. k \in Nat /\ k <= PIPESIZE - count(q) /\ rest \in Seq(Byte) /\ (rest # <<>> => k = PIPESIZE - count(q))
  BY <1>2, Rest, Zenon
<1>4. /\ lock[g] = "free" /\ pipe' = [pipe EXCEPT ![g] = stored(q, s, k)]
      /\ IF rest # <<>> /\ q.readopen /\ p \notin killed
         THEN /\ todo' = [todo EXCEPT ![p] = rest]
              /\ asleep' = asleep \ Sleepers(g, "piperead")
              /\ GoSleep(p, f, "pipewrite")
         ELSE /\ todo' = [todo EXCEPT ![p] = <<>>]
              /\ asleep' = IF rest = <<>> THEN asleep \ Sleepers(g, "piperead") ELSE asleep
              /\ Return(p)
      /\ file' = file /\ ofile' = ofile /\ ff' = ff
  BY Zenon DEF pipewrite, table
<1> HIDE DEF g, k, rest
<1>5. /\ \A h \in Page \ {g} : pipe'[h] = pipe[h]
      /\ pipe'[g].nread = pipe[g].nread /\ pipe'[g].nwrite = (pipe[g].nwrite + k) % UINT
      /\ pipe'[g].readopen = pipe[g].readopen /\ pipe'[g].writeopen = pipe[g].writeopen
  <2>1. /\ g \in DOMAIN pipe /\ DOMAIN pipe[g] = Fields
        /\ "nread" \in Fields /\ "nwrite" \in Fields /\ "readopen" \in Fields /\ "writeopen" \in Fields
    BY <1>1 DEF Types, Fields
  <2>2. pipe'[g] = stored(q, s, k) /\ \A h \in Page \ {g} : pipe'[h] = pipe[h]
    BY <1>1, <1>4, <2>1 DEF Types
  <2>3. /\ stored(q, s, k).nread = q.nread /\ stored(q, s, k).nwrite = (q.nwrite + k) % UINT
        /\ stored(q, s, k).readopen = q.readopen /\ stored(q, s, k).writeopen = q.writeopen
    BY <2>1 DEF stored
  <2>4. QED
    BY <2>2, <2>3
<1>6. CASE rest # <<>> /\ q.readopen /\ p \notin killed
  <2>1. todo' \in [Proc -> Seq(Byte)]
    BY <1>1, <1>3, <1>4, <1>6
  <2>2. Sleeps(p, f, "pipewrite") /\ \A r \in Proc \ {p} : pc'[r] = pc[r] /\ arg'[r] = arg[r]
    BY <1>1, <1>4, <1>6 DEF GoSleep, Goto, Sleeps, Types
  <2>3. Stores(p, g, k, TRUE, TRUE)
    BY <1>1, <1>3, <1>4, <1>5, <1>6, <2>1, <2>2 DEF Stores
  <2>4. QED
    BY <1>6, <2>2, <2>3 DEF g
<1>7. CASE ~(rest # <<>> /\ q.readopen /\ p \notin killed)
  <2>1. todo' \in [Proc -> Seq(Byte)]
    <3>1. <<>> \in Seq(Byte)
      BY SMT
    <3>2. todo' = [todo EXCEPT ![p] = <<>>]
      BY <1>4, <1>7
    <3>3. QED
      BY <1>1, <3>1, <3>2
  <2>2. Returns(p) /\ \A r \in Proc \ {p} : pc'[r] = pc[r] /\ arg'[r] = arg[r]
    BY <1>1, <1>4, <1>7 DEF Return, Goto, Home, Returns, Types
  <2>3. CASE rest = <<>>
    <3>1. asleep' = asleep \ Sleepers(g, "piperead")
      BY <1>4, <2>3
    <3>2. Stores(p, g, k, FALSE, TRUE)
      BY <1>1, <1>3, <1>4, <1>5, <2>1, <2>2, <3>1 DEF Stores
    <3>3. QED
      BY <2>2, <3>2 DEF g
  <2>4. CASE rest # <<>>
    <3>1. asleep' = asleep /\ (p \in killed \/ ~q.readopen)
      BY <1>4, <1>7, <2>4
    <3>2. Stores(p, g, k, TRUE, FALSE)
      BY <1>1, <1>3, <1>4, <1>5, <2>1, <2>2, <2>4, <3>1 DEF Stores
    <3>3. QED
      BY <2>2, <3>2 DEF g
  <2>5. QED
    BY <2>3, <2>4
<1>8. QED
  BY <1>6, <1>7

\* A write keeps both invariants, and wakes the readers, or the writer has been killed.
LEMMA StoresKeeps ==
  ASSUME Library, RInv, EInv, WInv, NEW p \in Proc, NEW g, NEW k, NEW more \in BOOLEAN, NEW woken \in BOOLEAN,
         Stores(p, g, k, more, woken), p \notin asleep, pc[p] # "pipeclose", \A h \in Page : lock[h] # p,
         \/ Returns(p)
         \/ \E f \in File, d \in FD : /\ file[f].pipe = g /\ file[f].writable /\ ofile[p][d] = f /\ more
                                      /\ Sleeps(p, f, "pipewrite") /\ pipe[g].readopen
  PROVE  /\ EInv' /\ WInv'
         /\ \A q \in asleep' : pc'[q] = "piperead" /\ Bytes(PageOf(q))' =>
              q \in asleep /\ (Bytes(PageOf(q)) \/ (Full(pipe'[PageOf(q)]) /\ p \in killed /\ PageOf(q) = g))
<1>1. /\ g \in Page /\ Indices(pipe[g]) /\ pc'[p] # "pipeclose"
      /\ lock \in [Page -> Proc \union {"free"}] /\ asleep \subseteq Proc
  BY DEF Stores, WInv, Rings, Indices, Locks, Asleep, Returns, Sleeps
<1>2. EInv'
  <2>1. \A h \in Page : SameOpen(h)
    BY DEF Stores, SameOpen
  <2>2. QED
    BY <1>1, <2>1, CallEnds DEF Stores
<1>3. Indices(pipe'[g]) /\ count(pipe'[g]) = count(pipe[g]) + k
  <2>1. /\ k \in Nat /\ k <= PIPESIZE - count(pipe[g])
        /\ pipe'[g].nread = pipe[g].nread /\ pipe'[g].nwrite = (pipe[g].nwrite + k) % UINT
    BY DEF Stores
  <2>2. QED
    BY <1>1, <2>1, Adds, Zenon
<1>4. /\ count(pipe[g]) \in 0..PIPESIZE /\ k \in Nat /\ k <= PIPESIZE - count(pipe[g])
      /\ Full(pipe[g]) <=> count(pipe[g]) = PIPESIZE
      /\ Full(pipe'[g]) <=> count(pipe'[g]) = PIPESIZE
      /\ more => k = PIPESIZE - count(pipe[g])
  BY <1>1, <1>3, Counts, Zenon DEF Stores
<1>5. (Full(pipe[g]) => Full(pipe'[g])) /\ (more => Full(pipe'[g]))
  <2>1. PICK c \in 0..PIPESIZE : c = count(pipe[g])
    BY <1>4
  <2>2. PIPESIZE \in Nat /\ k \in Nat /\ k <= PIPESIZE - c /\ (more => k = PIPESIZE - c)
    BY <1>4, <2>1, Sizes, Zenon
  <2>3. (c = PIPESIZE => c + k = PIPESIZE) /\ (k = PIPESIZE - c => c + k = PIPESIZE)
    BY <2>2, SMT
  <2>4. QED
    BY <1>3, <1>4, <2>1, <2>2, <2>3, Zenon
<1>6. OnPipe(p, g)
  <2>1. lock' \in [Page -> Proc \union {"free"}] /\ \A h \in Page \ {g} : lock'[h] = lock[h]
    BY <1>1 DEF Returns, Sleeps
  <2>2. asleep' \subseteq asleep \union {p}
    BY DEF Stores
  <2>3. QED
    BY <1>1, <2>1, <2>2 DEF OnPipe, Stores
<1>7. InCall(p)' /\ (pc'[p] \in PipeCalls => PageOf(p)' = g /\ pc'[p] = "pipewrite" /\ more /\ pipe[g].readopen)
  <2>1. CASE Returns(p)
    BY <2>1 DEF Returns, InCall, PipeCalls
  <2>2. ASSUME NEW f \in File, NEW d \in FD, file[f].pipe = g, file[f].writable, ofile[p][d] = f, more,
               Sleeps(p, f, "pipewrite"), pipe[g].readopen
        PROVE  InCall(p)' /\ PageOf(p)' = g /\ pc'[p] = "pipewrite" /\ more /\ pipe[g].readopen
    <3>1. file' = file /\ ofile' = ofile /\ arg'[p] = f /\ pc'[p] = "pipewrite"
      BY <2>2 DEF Stores, Sleeps
    <3>2. QED
      BY <2>2, <3>1 DEF InCall, PageOf
  <2>3. QED
    BY <2>1, <2>2
<1>8. asleep' \subseteq asleep /\ p \notin asleep'
  BY DEF Stores
<1>9. ASSUME NEW q \in asleep'
      PROVE  /\ q \in asleep /\ q \in Proc \ {p} /\ pc'[q] = pc[q] /\ arg'[q] = arg[q] /\ PageOf(q)' = PageOf(q)
             /\ pc[q] \in PipeCalls /\ Waits(q)
  <2>1. q \in asleep /\ q \in Proc \ {p}
    BY <1>1, <1>8, <1>9
  <2>2. QED
    BY <2>1 DEF Stores, PageOf, WInv, Asleep
<1>10. ASSUME NEW q \in asleep', PageOf(q)' = g PROVE Waits(q)'
  <2>1. /\ pc'[q] = pc[q] /\ PageOf(q) = g /\ Waits(q)
    BY <1>9, <1>10
  <2>2. pipe'[g].readopen = pipe[g].readopen /\ pipe'[g].writeopen = pipe[g].writeopen
    BY DEF Stores
  <2>3. QED
    BY <1>5, <1>10, <2>1, <2>2 DEF Waits, Full
<1>11. ASSUME NEW q \in Proc, lock'[g] = q
       PROVE  /\ pc'[q] \in PipeCalls /\ PageOf(q)' = g /\ q \notin asleep' /\ Waits(q)'
              /\ pc'[q] = "piperead" => ~Bytes(g)'
  <2>1. lock[g] # q
    BY <1>1, <1>11, FreeLock, Zenon DEF Stores
  <2>2. q = p /\ pc'[p] = "pipewrite"
    BY <1>1, <1>11, <2>1 DEF Returns, Sleeps
  <2>3. PageOf(p)' = g /\ more /\ pipe[g].readopen /\ p \notin asleep'
    BY <1>7, <1>8, <2>2 DEF PipeCalls
  <2>4. Waits(p)'
    BY <1>5, <2>2, <2>3 DEF Waits, Full, Stores
  <2>5. QED
    BY <2>2, <2>3, <2>4 DEF PipeCalls
<1>12. WInv'
  BY <1>3, <1>6, <1>7, <1>8, <1>10, <1>11, OnPipeKeeps
<1>13. ASSUME NEW q \in asleep', pc'[q] = "piperead", Bytes(PageOf(q))'
       PROVE  q \in asleep /\ (Bytes(PageOf(q)) \/ (Full(pipe'[PageOf(q)]) /\ p \in killed /\ PageOf(q) = g))
  <2>1. PageOf(q) \in Page /\ pipe[PageOf(q)].readopen /\ pc[q] = "piperead"
    <3>1. /\ PageOf(q) \in Page /\ pc[q] = "piperead"
          /\ IF pc[q] = "pipewrite" THEN pipe[PageOf(q)].writeopen ELSE pipe[PageOf(q)].readopen
      BY <1>9, <1>13, InCallFile
    <3>2. QED
      BY <3>1
  <2>2. CASE PageOf(q) # g
    BY <1>9, <1>13, <2>1, <2>2, SMT DEF Bytes, Stores
  <2>3. CASE PageOf(q) = g
    <3>1. ~woken
      BY <1>9, <1>13, <2>1, <2>3 DEF Stores, Sleepers
    <3>2. more /\ p \in killed
      BY <2>1, <2>3, <3>1 DEF Stores
    <3>3. Full(pipe'[PageOf(q)])
      BY <1>5, <2>3, <3>2, Zenon
    <3>4. QED
      BY <1>9, <1>13, <2>3, <3>2, <3>3, Zenon
  <2>4. QED
    BY <2>2, <2>3
<1>14. QED
  BY <1>2, <1>12, <1>13

\* What piperead() does to the pipe in page g when it takes k bytes.
TakesBytes(p, g, k) ==
  /\ g \in Page /\ lock[g] = "free" /\ k \in Nat /\ k <= count(pipe[g])
  /\ \A h \in Page \ {g} : pipe'[h] = pipe[h]
  /\ pipe'[g].nread = (pipe[g].nread + k) % UINT /\ pipe'[g].nwrite = pipe[g].nwrite
  /\ pipe'[g].readopen = pipe[g].readopen /\ pipe'[g].writeopen = pipe[g].writeopen
  /\ asleep' = asleep \ Sleepers(g, "pipewrite") /\ Returns(p)

\* It finds nothing to read.
FindsNone(p, g) ==
  /\ g \in Page /\ lock[g] = "free" /\ pipe[g].nread = pipe[g].nwrite /\ pipe[g].writeopen
  /\ pipe' = pipe /\ asleep' = asleep

\* In both cases.
ReadLeaves(p) ==
  /\ file' = file /\ ofile' = ofile /\ ff' = ff /\ todo' = todo
  /\ \A q \in Proc \ {p} : pc'[q] = pc[q] /\ arg'[q] = arg[q]

\* piperead() does one of the two.
LEMMA pipereadIs ==
  ASSUME RInv, WInv, NEW p \in Proc, NEW f \in File, file[f].pipe \in Page, NEW n \in Nat, piperead(p, f, n)
  PROVE  /\ ReadLeaves(p)
         /\ \/ \E k : TakesBytes(p, file[f].pipe, k)
            \/ FindsNone(p, file[f].pipe) /\ (Returns(p) \/ Sleeps(p, f, "piperead"))
<1> DEFINE g == file[f].pipe
           q == pipe[g]
           k == AtMost(n, count(q))
<1>1. Types /\ g \in Page /\ Indices(q)
  BY DEF RInv, WInv, Rings, Indices
<1>2. k \in Nat /\ k <= count(q)
  <2>1. count(q) \in 0..PIPESIZE
    BY <1>1, Counts, Zenon
  <2>2. QED
    BY <2>1, Sizes, SMT DEF AtMost
<1>3. /\ lock[g] = "free"
      /\ IF q.nread = q.nwrite /\ q.writeopen
         THEN /\ IF p \in killed THEN Return(p) ELSE GoSleep(p, f, "piperead")
              /\ UNCHANGED <<pipe, asleep>>
         ELSE /\ pipe' = [pipe EXCEPT ![g].nread = (@ + k) % UINT,
                                     ![g].data = [i \in DOMAIN @ |-> IF i \in Cells(q, k) THEN None ELSE @[i]]]
              /\ asleep' = asleep \ Sleepers(g, "pipewrite")
              /\ Return(p)
      /\ file' = file /\ ofile' = ofile /\ ff' = ff /\ todo' = todo
  BY Zenon DEF piperead, table
<1> HIDE DEF g, k
<1>4. Return(p) => Returns(p) /\ \A r \in Proc \ {p} : pc'[r] = pc[r] /\ arg'[r] = arg[r]
  BY <1>1 DEF Return, Goto, Home, Returns, Types
<1>5. GoSleep(p, f, "piperead") =>
        Sleeps(p, f, "piperead") /\ \A r \in Proc \ {p} : pc'[r] = pc[r] /\ arg'[r] = arg[r]
  BY <1>1 DEF GoSleep, Goto, Sleeps, Types
<1>6. CASE q.nread = q.nwrite /\ q.writeopen
  <2>1. Returns(p) \/ Sleeps(p, f, "piperead")
    BY <1>3, <1>4, <1>5, <1>6
  <2>2. FindsNone(p, g)
    BY <1>1, <1>3, <1>6 DEF FindsNone
  <2>3. ReadLeaves(p)
    BY <1>3, <1>4, <1>5, <1>6 DEF ReadLeaves
  <2>4. QED
    BY <2>1, <2>2, <2>3 DEF g
<1>7. CASE ~(q.nread = q.nwrite /\ q.writeopen)
  <2>1. /\ g \in DOMAIN pipe /\ DOMAIN pipe[g] = Fields
        /\ "nread" \in Fields /\ "nwrite" \in Fields /\ "readopen" \in Fields /\ "writeopen" \in Fields
    BY <1>1 DEF Types, Fields
  <2>2. pipe' = [pipe EXCEPT ![g].nread = (@ + k) % UINT,
                             ![g].data = [i \in DOMAIN @ |-> IF i \in Cells(q, k) THEN None ELSE @[i]]]
    BY <1>3, <1>7
  <2>3. /\ \A h \in Page \ {g} : pipe'[h] = pipe[h]
        /\ pipe'[g].nread = (pipe[g].nread + k) % UINT /\ pipe'[g].nwrite = pipe[g].nwrite
        /\ pipe'[g].readopen = pipe[g].readopen /\ pipe'[g].writeopen = pipe[g].writeopen
    BY <1>1, <2>1, <2>2 DEF Types
  <2>4. TakesBytes(p, g, k) /\ ReadLeaves(p)
    BY <1>1, <1>2, <1>3, <1>4, <1>7, <2>3 DEF TakesBytes, ReadLeaves
  <2>5. QED
    BY <2>4 DEF g
<1>8. QED
  BY <1>6, <1>7

\* A read of bytes keeps both invariants.
LEMMA TakesKeeps ==
  ASSUME Library, RInv, EInv, WInv, NEW p \in Proc, NEW g, NEW k, TakesBytes(p, g, k), ReadLeaves(p),
         p \notin asleep, pc[p] # "pipeclose", \A h \in Page : lock[h] # p
  PROVE  EInv' /\ WInv' /\ ReadersKnow
<1>1. /\ g \in Page /\ Indices(pipe[g]) /\ pc'[p] \in {"user", "exit"} /\ lock' = lock
      /\ lock \in [Page -> Proc \union {"free"}] /\ asleep \subseteq Proc
  BY DEF TakesBytes, WInv, Rings, Indices, Locks, Asleep, Returns
<1>2. EInv'
  <2>1. \A h \in Page : SameOpen(h)
    BY DEF TakesBytes, SameOpen
  <2>2. QED
    BY <1>1, <2>1, CallEnds DEF ReadLeaves
<1>3. Indices(pipe'[g]) /\ count(pipe'[g]) = count(pipe[g]) - k
  <2>1. /\ k \in Nat /\ k <= count(pipe[g])
        /\ pipe'[g].nread = (pipe[g].nread + k) % UINT /\ pipe'[g].nwrite = pipe[g].nwrite
    BY DEF TakesBytes
  <2>2. QED
    BY <1>1, <2>1, Takes, Zenon
<1>4. Bytes(g)' => Bytes(g)
  <2>1. /\ count(pipe[g]) \in 0..PIPESIZE /\ (pipe[g].nread = pipe[g].nwrite <=> count(pipe[g]) = 0)
        /\ (pipe'[g].nread = pipe'[g].nwrite <=> count(pipe'[g]) = 0)
    BY <1>1, <1>3, Counts, Zenon
  <2>2. count(pipe[g]) = 0 => count(pipe'[g]) = 0
    BY <1>3, <2>1, SMT DEF TakesBytes
  <2>3. QED
    BY <2>1, <2>2 DEF Bytes
<1>5. OnPipe(p, g)
  BY <1>1 DEF OnPipe, TakesBytes, ReadLeaves, WInv
<1>6. InCall(p)' /\ pc'[p] \notin PipeCalls
  BY <1>1 DEF InCall, PipeCalls
<1>7. asleep' \subseteq asleep /\ p \notin asleep'
  BY DEF TakesBytes
<1>8. ASSUME NEW q \in asleep'
      PROVE  /\ q \in asleep /\ q \in Proc \ {p} /\ pc'[q] = pc[q] /\ arg'[q] = arg[q] /\ PageOf(q)' = PageOf(q)
             /\ pc[q] \in PipeCalls /\ Waits(q)
  <2>1. q \in asleep /\ q \in Proc \ {p}
    BY <1>1, <1>7, <1>8
  <2>2. QED
    BY <2>1 DEF ReadLeaves, PageOf, WInv, Asleep
<1>9. ASSUME NEW q \in asleep', PageOf(q)' = g PROVE Waits(q)'
  <2>1. /\ pc'[q] = pc[q] /\ PageOf(q) = g /\ Waits(q) /\ pc[q] \in PipeCalls
    BY <1>8, <1>9
  <2>2. pc[q] = "piperead"
    BY <1>8, <1>9, <2>1 DEF TakesBytes, Sleepers, PipeCalls
  <2>3. QED
    BY <1>9, <2>1, <2>2 DEF Waits, TakesBytes
<1>10. \A q \in Proc : lock'[g] # q
  BY <1>1, FreeLock, Zenon DEF TakesBytes
<1>11. WInv'
  BY <1>3, <1>5, <1>6, <1>7, <1>9, <1>10, OnPipeKeeps
<1>12. ASSUME NEW q \in asleep', Bytes(PageOf(q))' PROVE q \in asleep /\ Bytes(PageOf(q))
  <2>1. PageOf(q) \in Page
    BY <1>8, <1>12, InCallFile
  <2>2. CASE PageOf(q) # g
    BY <1>8, <1>12, <2>1, <2>2, SMT DEF Bytes, TakesBytes
  <2>3. CASE PageOf(q) = g
    BY <1>4, <1>8, <1>12, <2>3 DEF Bytes
  <2>4. QED
    BY <2>2, <2>3
<1>13. QED
  BY <1>2, <1>11, <1>12 DEF ReadersKnow

\* So does one that finds none.
LEMMA FindsKeeps ==
  ASSUME Library, RInv, EInv, WInv, NEW p \in Proc, NEW g, FindsNone(p, g), ReadLeaves(p),
         p \notin asleep, pc[p] # "pipeclose", \A h \in Page : lock[h] # p,
         \/ Returns(p)
         \/ \E f \in File, d \in FD : file[f].pipe = g /\ ~file[f].writable /\ ofile[p][d] = f
                                      /\ Sleeps(p, f, "piperead")
  PROVE  EInv' /\ WInv' /\ ReadersKnow
<1>1. /\ g \in Page /\ Indices(pipe[g]) /\ pc'[p] # "pipeclose" /\ pipe' = pipe /\ asleep' = asleep
      /\ lock \in [Page -> Proc \union {"free"}] /\ asleep \subseteq Proc
  BY DEF FindsNone, WInv, Rings, Indices, Locks, Asleep, Returns, Sleeps
<1>2. EInv'
  <2>1. \A h \in Page : SameOpen(h)
    BY <1>1 DEF SameOpen
  <2>2. QED
    BY <1>1, <2>1, CallEnds DEF ReadLeaves
<1>3. OnPipe(p, g)
  <2>1. lock' \in [Page -> Proc \union {"free"}] /\ \A h \in Page \ {g} : lock'[h] = lock[h]
    BY <1>1 DEF Returns, Sleeps
  <2>2. QED
    BY <1>1, <2>1 DEF OnPipe, ReadLeaves, WInv
<1>4. InCall(p)' /\ (pc'[p] \in PipeCalls => PageOf(p)' = g /\ pc'[p] = "piperead")
  <2>1. CASE Returns(p)
    BY <2>1 DEF Returns, InCall, PipeCalls
  <2>2. ASSUME NEW f \in File, NEW d \in FD, file[f].pipe = g, ~file[f].writable, ofile[p][d] = f,
               Sleeps(p, f, "piperead")
        PROVE  InCall(p)' /\ PageOf(p)' = g /\ pc'[p] = "piperead"
    <3>1. file' = file /\ ofile' = ofile /\ arg'[p] = f /\ pc'[p] = "piperead"
      BY <2>2 DEF ReadLeaves, Sleeps
    <3>2. QED
      BY <2>2, <3>1 DEF InCall, PageOf
  <2>3. QED
    BY <2>1, <2>2
<1>5. ASSUME NEW q \in asleep'
      PROVE  /\ q \in asleep /\ q \in Proc \ {p} /\ pc'[q] = pc[q] /\ PageOf(q)' = PageOf(q) /\ Waits(q)' = Waits(q)
             /\ Waits(q)
  <2>1. q \in asleep /\ q \in Proc \ {p} /\ Waits(q)
    BY <1>1, <1>5 DEF WInv, Asleep
  <2>2. pc'[q] = pc[q] /\ PageOf(q)' = PageOf(q)
    BY <2>1 DEF ReadLeaves, PageOf
  <2>3. QED
    BY <1>1, <2>1, <2>2 DEF Waits
<1>6. ASSUME NEW q \in Proc, lock'[g] = q
      PROVE  /\ pc'[q] \in PipeCalls /\ PageOf(q)' = g /\ q \notin asleep' /\ Waits(q)'
             /\ pc'[q] = "piperead" => ~Bytes(g)'
  <2>1. lock[g] # q
    BY <1>1, <1>6, FreeLock, Zenon DEF FindsNone
  <2>2. q = p /\ pc'[p] = "piperead"
    BY <1>1, <1>6, <2>1 DEF Returns, Sleeps
  <2>3. PageOf(p)' = g /\ p \notin asleep'
    BY <1>1, <1>4, <2>2 DEF PipeCalls
  <2>4. Waits(p)' /\ ~Bytes(g)'
    BY <1>1, <2>2, <2>3 DEF Waits, FindsNone, Bytes
  <2>5. QED
    BY <2>2, <2>3, <2>4 DEF PipeCalls
<1>7. Indices(pipe'[g]) /\ p \notin asleep'
  BY <1>1
<1>8. WInv'
  BY <1>3, <1>4, <1>5, <1>6, <1>7, OnPipeKeeps
<1>9. ReadersKnow
  BY <1>1, <1>5 DEF ReadersKnow, Bytes
<1>10. QED
  BY <1>2, <1>8, <1>9

\* sleep(): the process still had to wait, for it kept the lock.
LEMMA sleepKeeps ==
  ASSUME Library, RInv, EInv, WInv, NEW p \in Proc, sleep(p)
  PROVE  EInv' /\ WInv' /\ ReadersKnow
<1> DEFINE g == PageOf(p)
<1>1. /\ pc[p] \in PipeCalls /\ lock[g] = p /\ asleep' = asleep \union {p} /\ lock' = [lock EXCEPT ![g] = "free"]
      /\ file' = file /\ ofile' = ofile /\ pipe' = pipe /\ pc' = pc /\ arg' = arg /\ ff' = ff /\ todo' = todo
      /\ PageOf(p)' = g
  BY DEF sleep, table, calls, PipeCalls, PageOf
<1>2. g \in Page
  BY <1>1, InCallFile
<1> HIDE DEF g
<1>3. /\ Waits(p) /\ (pc[p] = "piperead" => ~Bytes(g)) /\ Indices(pipe[g])
      /\ lock \in [Page -> Proc \union {"free"}] /\ asleep \subseteq Proc
      /\ \A h \in Page \ {g} : lock[h] # p
  BY <1>1, <1>2 DEF WInv, Locks, Asleep, Rings, Indices, g
<1>4. EInv'
  BY <1>1, CallEnds, SMT DEF SameOpen, PipeCalls
<1>5. ASSUME NEW q \in Proc PROVE PageOf(q)' = PageOf(q) /\ Waits(q)' = Waits(q) /\ InCall(q)'
  BY <1>1, <1>5 DEF PageOf, Waits, InCall, WInv
<1>6. OnPipe(p, g)
  BY <1>1, <1>2, <1>3 DEF OnPipe, WInv
<1>7. \A q \in Proc : lock'[g] # q
  BY <1>1, <1>2, <1>3, PipeConstants
<1>8. \A q \in asleep' : Waits(q)'
  BY <1>1, <1>3, <1>5 DEF WInv, Asleep
<1>9. WInv'
  BY <1>1, <1>3, <1>5, <1>6, <1>7, <1>8, OnPipeKeeps
<1>10. ReadersKnow
  BY <1>1, <1>3, <1>5 DEF ReadersKnow, Bytes, g
<1>11. QED
  BY <1>4, <1>9, <1>10

\* kill() wakes the process; stuttering.
LEMMA killKeeps ==
  ASSUME Library, RInv, EInv, WInv, asleep' \subseteq asleep,
         UNCHANGED <<file, ofile, pipe, lock, pc, arg, ff, todo>>
  PROVE  EInv' /\ WInv' /\ ReadersKnow
<1>1. EInv'
  <2>1. (\A f \in File : SameKind(f)) /\ \A g \in Page : SameOpen(g)
    BY DEF SameKind, SameOpen
  <2>2. SameClosers
    BY EndFunctions, EndFunctionsNext, SMT DEF SameClosers
  <2>3. QED
    BY <2>1, <2>2, SameEnds, Zenon
<1>2. ASSUME NEW q \in Proc PROVE PageOf(q)' = PageOf(q) /\ Waits(q)' = Waits(q) /\ InCall(q)'
  BY <1>2 DEF PageOf, Waits, InCall, WInv
<1>3. Opened' /\ Rings'
  BY DEF Opened, Rings, WInv
<1>4. Locks' /\ Asleep'
  <2>1. Asleep'
    BY <1>2 DEF WInv, Asleep
  <2>2. Locks'
    BY <1>2 DEF WInv, Locks, Bytes
  <2>3. QED
    BY <2>1, <2>2
<1>5. WInv'
  BY <1>2, <1>3, <1>4 DEF WInv
<1>6. ReadersKnow
  BY <1>2 DEF ReadersKnow, Bytes, WInv, Asleep
<1>7. QED
  BY <1>1, <1>5, <1>6

---------------------------------------------------------------------------
\* write(), from user space or again after sleep().
LEMMA writesKeep ==
  ASSUME Library, RInv, EInv, WInv, NEW p \in Proc, NEW f, NEW d \in FD, ofile[p][d] = f, f # None,
         file[f].writable, NEW s \in Seq(Byte), pipewrite(p, f, s), p \notin asleep, pc[p] # "pipeclose",
         \A h \in Page : lock[h] # p
  PROVE  /\ EInv' /\ WInv'
         /\ \A q \in asleep' : pc'[q] = "piperead" /\ Bytes(PageOf(q))' =>
              q \in asleep /\ (Bytes(PageOf(q)) \/ (Full(pipe'[PageOf(q)]) /\ p \in killed /\ PageOf(q) = file[f].pipe))
<1>1. f \in File /\ file[f].pipe \in Page
  BY CallFile, Zenon DEF WInv
<1>2. PICK k : \/ Stores(p, file[f].pipe, k, TRUE, TRUE) /\ Sleeps(p, f, "pipewrite") /\ pipe[file[f].pipe].readopen
               \/ \E more, woken \in BOOLEAN : Stores(p, file[f].pipe, k, more, woken) /\ Returns(p)
  BY <1>1, pipewriteIs, Zenon
<1>3. CASE Stores(p, file[f].pipe, k, TRUE, TRUE) /\ Sleeps(p, f, "pipewrite") /\ pipe[file[f].pipe].readopen
  BY <1>1, <1>3, StoresKeeps, Zenon
<1>4. ASSUME NEW more \in BOOLEAN, NEW woken \in BOOLEAN, Stores(p, file[f].pipe, k, more, woken), Returns(p)
      PROVE  /\ EInv' /\ WInv'
             /\ \A q \in asleep' : pc'[q] = "piperead" /\ Bytes(PageOf(q))' =>
                  q \in asleep /\ (Bytes(PageOf(q)) \/ (Full(pipe'[PageOf(q)]) /\ p \in killed /\ PageOf(q) = file[f].pipe))
  BY <1>4, StoresKeeps, Zenon
<1>5. QED
  BY <1>2, <1>3, <1>4, Zenon

\* read().
LEMMA readsKeep ==
  ASSUME Library, RInv, EInv, WInv, NEW p \in Proc, NEW f, NEW d \in FD, ofile[p][d] = f, f # None,
         ~file[f].writable, NEW n \in Nat, piperead(p, f, n), p \notin asleep, pc[p] # "pipeclose",
         \A h \in Page : lock[h] # p
  PROVE  EInv' /\ WInv' /\ ReadersKnow
<1>1. f \in File /\ file[f].pipe \in Page
  BY CallFile, Zenon DEF WInv
<1>2. /\ ReadLeaves(p)
      /\ \/ \E k : TakesBytes(p, file[f].pipe, k)
         \/ FindsNone(p, file[f].pipe) /\ (Returns(p) \/ Sleeps(p, f, "piperead"))
  BY <1>1, pipereadIs, Zenon
<1>3. CASE \E k : TakesBytes(p, file[f].pipe, k)
  BY <1>2, <1>3, TakesKeeps, Zenon
<1>4. CASE FindsNone(p, file[f].pipe) /\ (Returns(p) \/ Sleeps(p, f, "piperead"))
  BY <1>1, <1>2, <1>4, FindsKeeps, Zenon
<1>5. QED
  BY <1>2, <1>3, <1>4

\* A process in user space keeps no lock, ...
LEMMA UserNoLock == ASSUME WInv, NEW p \in Proc, pc[p] = "user" PROVE \A h \in Page : lock[h] # p
BY DEF WInv, Locks, PipeCalls

\* ... nor does one that finds the lock of its pipe free.
LEMMA AgainNoLock ==
  ASSUME WInv, NEW p \in Proc, lock[PageOf(p)] = "free"
  PROVE  \A h \in Page : lock[h] # p
BY PipeConstants DEF WInv, Locks

\* The calls.
LEMMA sys_writeKeeps ==
  ASSUME Library, RInv, EInv, WInv, NEW p \in Proc, NEW d \in FD, NEW s \in Writes, sys_write(p, d, s)
  PROVE  EInv' /\ WInv' /\ ReadersKnow
<1>1. /\ ofile[p][d] # None /\ file[ofile[p][d]].writable /\ pipewrite(p, ofile[p][d], s)
      /\ pc[p] = "user" /\ p \notin asleep
  BY DEF sys_write, At
<1>2. s \in Seq(Byte) /\ \A h \in Page : lock[h] # p
  BY <1>1, UserNoLock, PipeConstants
<1>3. pc[p] # "pipeclose"
  BY <1>1
<1>4. /\ EInv' /\ WInv'
      /\ \A q \in asleep' : pc'[q] = "piperead" /\ Bytes(PageOf(q))' =>
           q \in asleep /\ (Bytes(PageOf(q)) \/ (Full(pipe'[PageOf(q)]) /\ p \in killed /\ PageOf(q) = file[ofile[p][d]].pipe))
  BY <1>1, <1>2, <1>3, writesKeep, Zenon
<1>5. WritesTo(p, file[ofile[p][d]].pipe)
  BY Zenon DEF WritesTo
<1>6. QED
  BY <1>4, <1>5, Zenon DEF ReadersKnow

\* Again after sleep().
LEMMA write_againKeeps ==
  ASSUME Library, RInv, EInv, WInv, NEW p \in Proc, write_again(p)
  PROVE  EInv' /\ WInv' /\ ReadersKnow
<1>1. pc[p] = "pipewrite" /\ p \notin asleep /\ pipewrite(p, arg[p], todo[p])
  BY DEF write_again, At
<1>2. PICK d \in FD : ofile[p][d] = arg[p]
  BY <1>1 DEF WInv, InCall, PipeCalls
<1>3. arg[p] # None /\ file[arg[p]].writable /\ todo[p] \in Seq(Byte)
  BY <1>1, NoneNoFile DEF WInv, InCall, PipeCalls
<1>4. \A h \in Page : lock[h] # p
  <2>1. lock[PageOf(p)] = "free"
    BY <1>1, Zenon DEF pipewrite, PageOf
  <2>2. QED
    BY <2>1, AgainNoLock
<1>5. pc[p] # "pipeclose"
  BY <1>1
<1>6. /\ EInv' /\ WInv'
      /\ \A q \in asleep' : pc'[q] = "piperead" /\ Bytes(PageOf(q))' =>
           q \in asleep /\ (Bytes(PageOf(q)) \/ (Full(pipe'[PageOf(q)]) /\ p \in killed /\ PageOf(q) = file[arg[p]].pipe))
  BY <1>1, <1>2, <1>3, <1>4, <1>5, writesKeep, Zenon
<1>7. WritesTo(p, file[arg[p]].pipe)
  BY Zenon DEF WritesTo, PageOf
<1>8. QED
  BY <1>6, <1>7, Zenon DEF ReadersKnow

\* read().
LEMMA sys_readKeeps ==
  ASSUME Library, RInv, EInv, WInv, NEW p \in Proc, NEW d \in FD, NEW n \in Reads, sys_read(p, d, n)
  PROVE  EInv' /\ WInv' /\ ReadersKnow
<1>1. /\ ofile[p][d] # None /\ ~file[ofile[p][d]].writable /\ piperead(p, ofile[p][d], n)
      /\ pc[p] = "user" /\ p \notin asleep
  BY DEF sys_read, At
<1>2. n \in Nat /\ (\A h \in Page : lock[h] # p) /\ pc[p] # "pipeclose"
  BY <1>1, UserNoLock, PipeConstants
<1>3. QED
  BY <1>1, <1>2, readsKeep, Zenon

\* Again after sleep().
LEMMA read_againKeeps ==
  ASSUME Library, RInv, EInv, WInv, NEW p \in Proc, NEW n \in Reads, read_again(p, n)
  PROVE  EInv' /\ WInv' /\ ReadersKnow
<1>1. pc[p] = "piperead" /\ p \notin asleep /\ piperead(p, arg[p], n)
  BY DEF read_again, At
<1>2. PICK d \in FD : ofile[p][d] = arg[p]
  BY <1>1 DEF WInv, InCall, PipeCalls
<1>3. arg[p] # None /\ ~file[arg[p]].writable /\ n \in Nat /\ pc[p] # "pipeclose"
  <2>1. arg[p] # None /\ ~file[arg[p]].writable
    BY <1>1, NoneNoFile DEF WInv, InCall, PipeCalls
  <2>2. QED
    BY <1>1, <2>1, PipeConstants
<1>4. \A h \in Page : lock[h] # p
  <2>1. lock[PageOf(p)] = "free"
    BY <1>1, Zenon DEF piperead, PageOf
  <2>2. QED
    BY <2>1, AgainNoLock
<1>5. QED
  BY <1>1, <1>2, <1>3, <1>4, readsKeep, Zenon

\* Where the invariants hold, so does PipeEnds.
LEMMA EndsOpen == ASSUME RInv, EInv PROVE PipeEnds
<1>1. SUFFICES ASSUME NEW g \in Page, NEW w \in BOOLEAN
               PROVE  Cardinality({f \in File : file[f].ref > 0 /\ file[f].type = "PIPE"
                                                /\ file[f].pipe = g /\ file[f].writable = w})
                      + Cardinality({p \in Proc : pc[p] = "pipeclose" /\ ff[p].pipe = g /\ ff[p].writable = w})
                        = IF (IF w THEN pipe[g].writeopen ELSE pipe[g].readopen) THEN 1 ELSE 0
  BY DEF PipeEnds
<1> DEFINE v == <<g, w>>
<1>2. v \in End /\ v # NoEnd
  BY EndFacts DEF End
<1>3. {f \in DOMAIN FileEnd : FileEnd[f] = v}
        = {f \in File : file[f].ref > 0 /\ file[f].type = "PIPE" /\ file[f].pipe = g /\ file[f].writable = w}
  <2>1. ASSUME NEW f \in File, file[f].type = "PIPE" PROVE file[f].ref > 0
    <3>1. file[f].ref \in Nat /\ file[f].ref # 0
      BY <2>1 DEF RInv, Types, FileRecord, Slots
    <3>2. QED
      BY <3>1, SMT
  <2>2. ASSUME NEW f \in File
        PROVE  FileEnd[f] = v <=> file[f].type = "PIPE" /\ file[f].pipe = g /\ file[f].writable = w
    BY <1>2, <2>2, EndFunctions, SMT
  <2>3. DOMAIN FileEnd = File
    BY EndFunctions
  <2>4. QED
    BY <2>1, <2>2, <2>3
<1>4. {p \in DOMAIN CloserEnd : CloserEnd[p] = v}
        = {p \in Proc : pc[p] = "pipeclose" /\ ff[p].pipe = g /\ ff[p].writable = w}
  <2>1. ASSUME NEW p \in Proc
        PROVE  CloserEnd[p] = v <=> pc[p] = "pipeclose" /\ ff[p].pipe = g /\ ff[p].writable = w
    BY <1>2, <2>1, EndFunctions, SMT
  <2>2. DOMAIN CloserEnd = Proc
    BY EndFunctions
  <2>3. QED
    BY <2>1, <2>2
<1>5. Count(FileEnd, v) + Count(CloserEnd, v) = One(Open(v))
  BY <1>2 DEF EInv
<1>6. Open(v) = IF w THEN pipe[g].writeopen ELSE pipe[g].readopen
  BY DEF Open
<1>7. QED
  BY <1>3, <1>4, <1>5, <1>6 DEF Count, One

\* And the first half of SleepersWait.
LEMMA SleepersWaited ==
  ASSUME WInv
  PROVE  \A p \in asleep : LET q == pipe[PageOf(p)]
                           IN IF pc[p] = "piperead" THEN q.writeopen ELSE Full(q) /\ q.readopen
BY DEF WInv, Asleep, Waits

\* At boot there is no pipe and nobody in one.
LEMMA InitWInv == ASSUME Init PROVE WInv
<1>1. /\ NoPipe.nread = 0 /\ NoPipe.nwrite = 0
  BY DEF NoPipe
<1>2. Rings
  <2>1. (0 + UINT - 0) % UINT = 0 /\ 0 \in 0..(UINT - 1) /\ 0 <= PIPESIZE
    BY Sizes, SMT
  <2>2. QED
    BY <1>1, <2>1 DEF Rings, count, Init
<1>3. todo \in [Proc -> Seq(Byte)]
  BY SMT DEF Init
<1>4. Opened /\ Asleep /\ \A p \in Proc : InCall(p)
  BY DEF Opened, Asleep, InCall, PipeCalls, Init
<1>5. Locks
  BY PipeConstants DEF Locks, Init
<1>6. QED
  BY <1>2, <1>3, <1>4, <1>5 DEF WInv

=============================================================================
