------------------------------ MODULE PipeInv -------------------------------
(***************************************************************************)
(* Reference counting in the file table, for any number of processes,      *)
(* files, descriptors and pipes: every step of Pipe keeps the inductive    *)
(* invariant RInv. The counts of RefsCounted are cardinalities of sets     *)
(* that change by one, two or three elements a step.                       *)
(*                                                                         *)
(* The lemmas at the end say what the steps of the table mean to pipes:    *)
(* each is a TableStep, the last close of a pipe's file, or the making of  *)
(* a pipe.                                                                 *)
(***************************************************************************)
EXTENDS PipeDefs, Integers, TLAPS

USE ZenonT(5), SMTT(30)

\* A count is a number, ...
LEMMA CountNat ==
  ASSUME Library, NEW h, NEW v, IsFiniteSet(DOMAIN h)
  PROVE  Count(h, v) \in Nat
BY DEF Library

\* ... follows a change of the function at one place, ...
LEMMA Changes ==
  ASSUME Library, NEW h, NEW k, IsFiniteSet(DOMAIN h), DOMAIN k = DOMAIN h, NEW x \in DOMAIN h,
         \A y \in DOMAIN h \ {x} : k[y] = h[y], NEW v
  PROVE  Count(k, v) + One(h[x] = v) = Count(h, v) + One(k[x] = v)
<1>1. Shifts(h, k, x, v)
  BY Zenon DEF Library
<1>2. QED
  BY <1>1, Zenon DEF Shifts

\* ... is positive for a value that is taken, ...
LEMMA CountsOne ==
  ASSUME Library, NEW h, IsFiniteSet(DOMAIN h), NEW x \in DOMAIN h
  PROVE  Count(h, h[x]) >= 1
BY Zenon DEF Library

\* ... and at least two for a value that is taken twice.
LEMMA CountsTwo ==
  ASSUME Library, NEW h, IsFiniteSet(DOMAIN h), NEW x \in DOMAIN h, NEW y \in DOMAIN h, x # y, h[x] = h[y]
  PROVE  Count(h, h[x]) >= 2
BY Zenon DEF Library

\* There are finitely many places and files.
LEMMA Finite == ASSUME Library PROVE IsFiniteSet(Here) /\ IsFiniteSet(File)
BY DEF Library

\* Two places, and three.
LEMMA Changes2 ==
  ASSUME Library, NEW h, NEW k, IsFiniteSet(DOMAIN h), DOMAIN k = DOMAIN h,
         NEW x \in DOMAIN h, NEW y \in DOMAIN h, x # y,
         \A z \in DOMAIN h \ {x, y} : k[z] = h[z], NEW v
  PROVE  Count(k, v) + One(h[x] = v) + One(h[y] = v) = Count(h, v) + One(k[x] = v) + One(k[y] = v)
<1> DEFINE m == [z \in DOMAIN h |-> IF z = x THEN k[x] ELSE h[z]]
<1>1. DOMAIN m = DOMAIN h /\ m[x] = k[x] /\ \A z \in DOMAIN h \ {x} : m[z] = h[z]
  OBVIOUS
<1>2. m[y] = h[y] /\ \A z \in DOMAIN m \ {y} : k[z] = m[z]
  OBVIOUS
<1> HIDE DEF m
<1>3. Count(m, v) + One(h[x] = v) = Count(h, v) + One(k[x] = v)
  BY <1>1, Changes, SMT
<1>4. Count(k, v) + One(h[y] = v) = Count(m, v) + One(k[y] = v)
  BY <1>1, <1>2, Changes, SMT
<1>5. Count(h, v) \in Nat /\ Count(k, v) \in Nat /\ Count(m, v) \in Nat
  BY <1>1, CountNat
<1>6. QED
  BY <1>3, <1>4, <1>5, SMT DEF One

\* The file table, the descriptors and the places of Held.
LEMMA Constants ==
  /\ NFILE \in Nat /\ NOFILE \in Nat /\ NOFILE > 0 /\ File \subseteq Nat /\ FD \subseteq Nat
  /\ None \notin File /\ None = 0
  /\ \A i : i \in 0..(NOFILE + 2) <=> i \in FD \union {NOFILE, NOFILE + 1, NOFILE + 2}
  /\ NOFILE \notin FD /\ NOFILE + 1 \notin FD /\ NOFILE + 2 \notin FD
<1>1. NFILE \in Nat /\ NOFILE \in Nat /\ NOFILE # 0
  BY PipeConstants
<1>2. File \subseteq Nat /\ FD \subseteq Nat /\ None \notin File /\ None = 0
  BY <1>1, SMT DEF File, FD, None
<1>3. NOFILE > 0 /\ \A i : i \in 0..(NOFILE + 2) <=> i \in FD \union {NOFILE, NOFILE + 1, NOFILE + 2}
  BY <1>1, SMT DEF FD
<1>4. NOFILE \notin FD /\ NOFILE + 1 \notin FD /\ NOFILE + 2 \notin FD
  BY <1>1, SMT DEF FD
<1>5. QED
  BY <1>1, <1>2, <1>3, <1>4

\* A system call returns to user space, or to exit() if the process is killed.
LEMMA AtHome == \A p : Home(p) \in {"user", "exit"}
BY DEF Home

\* The bounds of the intervals are integers.
LEMMA Intervals == 0 \in Int /\ 1 \in Int /\ NOFILE + 2 \in Int /\ NFILE \in Int
BY Constants, SMT

\* The arithmetic of one reference more: at the file that gets it, and elsewhere.
LEMMA OneMore ==
  ASSUME NEW n \in Nat, NEW v, v # None
  PROVE  /\ n + 1 + One(None = v) = n + 1
         /\ \A f : f # v => n + One(None = v) = n + One(f = v)
BY SMT DEF One

\* Three places.
LEMMA Changes3 ==
  ASSUME Library, NEW h, NEW k, IsFiniteSet(DOMAIN h), DOMAIN k = DOMAIN h,
         NEW x \in DOMAIN h, NEW y \in DOMAIN h, NEW w \in DOMAIN h, x # y, x # w, y # w,
         \A z \in DOMAIN h \ {x, y, w} : k[z] = h[z], NEW v
  PROVE  Count(k, v) + One(h[x] = v) + One(h[y] = v) + One(h[w] = v)
           = Count(h, v) + One(k[x] = v) + One(k[y] = v) + One(k[w] = v)
<1> DEFINE m == [z \in DOMAIN h |-> IF z = x THEN k[x] ELSE h[z]]
<1>1. DOMAIN m = DOMAIN h /\ m[x] = k[x] /\ \A z \in DOMAIN h \ {x} : m[z] = h[z]
  OBVIOUS
<1>2. m[y] = h[y] /\ m[w] = h[w] /\ \A z \in DOMAIN m \ {y, w} : k[z] = m[z]
  OBVIOUS
<1> HIDE DEF m
<1>3. Count(m, v) + One(h[x] = v) = Count(h, v) + One(k[x] = v)
  BY <1>1, Changes, SMT
<1>4. Count(k, v) + One(h[y] = v) + One(h[w] = v) = Count(m, v) + One(k[y] = v) + One(k[w] = v)
  BY <1>1, <1>2, Changes2, SMT
<1>5. Count(h, v) \in Nat /\ Count(k, v) \in Nat /\ Count(m, v) \in Nat
  BY <1>1, CountNat
<1>6. QED
  BY <1>3, <1>4, <1>5, SMT DEF One

\* A list of one or two files to close.
OneOrTwo(s) ==
  /\ Head(s) \in File /\ Tail(s) \in Seq(File) /\ Len(Tail(s)) <= 1
  /\ \/ s = <<Head(s)>> /\ Tail(s) = <<>>
     \/ \E g \in File : s = <<Head(s), g>> /\ Tail(s) = <<g>>

\* The shapes of a list of files to close.
LEMMA Shapes ==
  ASSUME NEW t \in Seq(File)
  PROVE  /\ Len(t) = 0 => t = <<>>
         /\ Len(t) = 1 => t = <<t[1]>> /\ t[1] \in File
         /\ Len(t) = 2 => t = <<t[1], t[2]>> /\ t[1] \in File /\ t[2] \in File
BY SMT

\* What fileclose() finds on it.
LEMMA Short ==
  ASSUME NEW s \in Seq(File), Len(s) <= 2, s # <<>>
  PROVE  OneOrTwo(s)
<1>1. PICK t : t = Tail(s)
  OBVIOUS
<1>2. /\ Tail(s) \in Seq(File) /\ Len(Tail(s)) = Len(s) - 1
      /\ Len(s) = 2 => Tail(s)[1] = s[2]
      /\ Head(s) = s[1] /\ Len(s) \in {1, 2}
  <2>1. Len(s) \in Nat /\ Len(s) # 0
    BY Shapes, SMT
  <2>a. \A n \in Nat : n # 0 /\ n <= 2 => n \in {1, 2}
    BY SMT
  <2>2. Len(s) \in {1, 2}
    BY <2>1, <2>a, Zenon
  <2>3. Tail(s) \in Seq(File) /\ Len(Tail(s)) = Len(s) - 1
    BY SMT
  <2>4. Len(s) = 2 => Tail(s)[1] = s[2]
    <3>1. \A i \in 1..(Len(s) - 1) : Tail(s)[i] = s[i + 1]
      BY SMT
    <3>2. 1 \in 1..(2 - 1) /\ 1 + 1 = 2
      BY SMT
    <3> QED BY <3>1, <3>2, Zenon
  <2>5. Head(s) = s[1]
    BY SMT
  <2> QED BY <2>2, <2>3, <2>4, <2>5, Zenon
<1>3. /\ t \in Seq(File) /\ Len(t) = Len(s) - 1
      /\ Len(s) = 2 => t[1] = s[2]
      /\ Head(s) = s[1] /\ Len(s) \in {1, 2}
  BY <1>1, <1>2, Zenon
<1>4. CASE Len(s) = 1
  <2>1. Len(t) = 0
    BY <1>3, <1>4, SMT
  <2>2. Len(t) <= 1
    BY <2>1, SMT
  <2>3. t = <<>> /\ s = <<Head(s)>> /\ Head(s) \in File
    <3>1. t = <<>>
      BY <1>3, <2>1, Shapes, Zenon
    <3>2. s = <<s[1]>> /\ s[1] \in File
      BY <1>4, Shapes, Zenon
    <3> QED BY <1>3, <3>1, <3>2, Zenon
  <2> QED BY <1>1, <1>3, <2>2, <2>3, Zenon DEF OneOrTwo
<1>5. CASE Len(s) = 2
  <2>1. Len(t) = 1
    BY <1>3, <1>5, SMT
  <2>2. Len(t) <= 1
    BY <2>1, SMT
  <2>3. t = <<t[1]>> /\ s = <<Head(s), t[1]>> /\ Head(s) \in File /\ t[1] \in File
    BY <1>3, <1>5, <2>1, Shapes, Zenon
  <2> QED BY <1>1, <1>3, <2>2, <2>3, Zenon DEF OneOrTwo
<1> QED BY <1>3, <1>4, <1>5

\* What Held has at each place of a process.
PlaceFacts ==
  /\ DOMAIN Held = Here
  /\ \A p \in Proc : \A d \in FD : <<p, d>> \in Here /\ Held[<<p, d>>] = ofile[p][d]
  /\ \A p \in Proc : /\ <<p, NOFILE>> \in Here
                     /\ Held[<<p, NOFILE>>] = IF pc[p] = "pipealloc" THEN arg[p] ELSE None
  /\ \A p \in Proc : /\ <<p, NOFILE + 1>> \in Here
                     /\ Held[<<p, NOFILE + 1>>] = IF 1 \in DOMAIN closing[p] THEN closing[p][1] ELSE None
  /\ \A p \in Proc : /\ <<p, NOFILE + 2>> \in Here
                     /\ Held[<<p, NOFILE + 2>>] = IF 2 \in DOMAIN closing[p] THEN closing[p][2] ELSE None

\* It does, ...
LEMMA Places == PlaceFacts
<1>1. DOMAIN Held = Here
  BY DEF Held, Here
<1>4. ASSUME NEW p \in Proc, NEW i \in FD \union {NOFILE, NOFILE + 1, NOFILE + 2}
      PROVE  /\ <<p, i>> \in Here
             /\ Held[<<p, i>>] = IF i \in FD THEN ofile[p][i]
                                ELSE IF i = NOFILE THEN IF pc[p] = "pipealloc" THEN arg[p] ELSE None
                                ELSE IF i - NOFILE \in DOMAIN closing[p] THEN closing[p][i - NOFILE] ELSE None
  BY <1>4, Constants DEF Held, Here
<1>5. QED
  BY <1>1, <1>4, Constants, SMT DEF PlaceFacts

\* ... also in the next state.
LEMMA PlacesNext == PlaceFacts'
BY Places, PTL

\* What a process has in hand is counted in its file.
LEMMA HeldCounts ==
  ASSUME Library, Types, RefsCounted, NEW x \in Here, Held[x] \in File
  PROVE  /\ file[Held[x]].ref >= 1
         /\ \A y \in Here : y # x /\ Held[y] = Held[x] => file[Held[x]].ref >= 2
<1>1. file[Held[x]].ref = Count(Held, Held[x])
  BY DEF RefsCounted, Count
<1>2. DOMAIN Held = Here /\ IsFiniteSet(DOMAIN Held)
  BY Places, Finite DEF PlaceFacts
<1>3. QED
  BY <1>1, <1>2, CountsOne, CountsTwo

\* A file that a step of p may change: one that p has in hand, or a free one.
Touches(p) ==
  \A f \in File : \/ file'[f] = file[f] \/ file[f].ref = 0
                  \/ \E i : <<p, i>> \in Here /\ Held[<<p, i>>] = f

\* Nobody else has the file that pipealloc() is about to fill in.
LEMMA OthersAlloc ==
  ASSUME Library, RInv, NEW p \in Proc, Touches(p), NEW q \in Proc \ {p}, pc[q] = "pipealloc"
  PROVE  file'[arg[q]] = file[arg[q]]
<1>1. arg[q] \in File /\ file[arg[q]].ref = 1
  BY DEF RInv, CallOf
<1>2. <<q, NOFILE>> \in Here /\ Held[<<q, NOFILE>>] = arg[q]
  BY Places DEF PlaceFacts
<1>3. ASSUME NEW i, <<p, i>> \in Here, Held[<<p, i>>] = arg[q] PROVE FALSE
  <2>1. <<p, i>> # <<q, NOFILE>>
    OBVIOUS
  <2>2. file[arg[q]].ref >= 2
    BY <1>1, <1>2, <1>3, <2>1, HeldCounts DEF RInv
  <2>3. QED
    BY <1>1, <2>2, SMT
<1>4. \/ file'[arg[q]] = file[arg[q]] \/ file[arg[q]].ref = 0
      \/ \E i : <<p, i>> \in Here /\ Held[<<p, i>>] = arg[q]
  BY <1>1, Zenon DEF Touches
<1>5. file[arg[q]].ref # 0
  BY <1>1, SMT
<1>6. QED
  BY <1>3, <1>4, <1>5, Zenon

\* A step of p that leaves the calls of the others alone.
Alone(p) ==
  \A q \in Proc \ {p} :
    /\ pc'[q] = pc[q] /\ np'[q] = np[q] /\ ofile'[q] = ofile[q]
    /\ closing'[q] = closing[q] /\ ff'[q] = ff[q] /\ arg'[q] = arg[q]

\* It keeps what holds of their calls.
LEMMA Others ==
  ASSUME Library, RInv, NEW p \in Proc, Alone(p), Touches(p), pc[p] # "embryo"
  PROVE  \A q \in Proc \ {p} : CallOf(q)' /\ (pc'[p] # "fork" => ForkOf(q)')
<1>1. ASSUME NEW q \in Proc \ {p} PROVE CallOf(q)'
  BY <1>1, OthersAlloc, SMT DEF RInv, CallOf, Alone
<1>2. ASSUME NEW q \in Proc \ {p}, pc'[p] # "fork" PROVE ForkOf(q)'
  <2>1. pc[q] = "fork" => np[q] \in Proc \ {p}
    BY <1>2 DEF RInv, ForkOf
  <2>2. QED
    BY <1>2, <2>1, SMT DEF RInv, ForkOf, Alone
<1>3. QED
  BY <1>1, <1>2

\* Where such a step can change what is held: outside, the places D of p.
LEMMA HeldElsewhere ==
  ASSUME NEW p \in Proc, Alone(p), NEW z \in Here,
         z[1] # p \/ (z[2] \in FD /\ ofile'[p][z[2]] = ofile[p][z[2]])
  PROVE  Held'[z] = Held[z]
<1>1. z = <<z[1], z[2]>> /\ z[1] \in Proc /\ z[2] \in FD \union {NOFILE, NOFILE + 1, NOFILE + 2}
  BY Constants, SMT DEF Here
<1>2. CASE z[1] # p
  BY <1>1, <1>2, Places, PlacesNext, SMT DEF PlaceFacts, Alone
<1>3. CASE z[1] = p
  BY <1>1, <1>3, Places, PlacesNext, Constants, SMT DEF PlaceFacts
<1>4. QED
  BY <1>2, <1>3

\* A step that leaves the others alone has to care for its own call.
LEMMA Keeps ==
  ASSUME Library, RInv, NEW p \in Proc, Alone(p), Touches(p), pc[p] # "embryo", pc'[p] # "fork",
         Types', Slots', RefsCounted', CallOf(p)'
  PROVE  RInv'
BY Others DEF RInv, ForkOf

\* Steps that hold what they held, and leave the files alone.
LEMMA QuietKeeps ==
  ASSUME Library, RInv, NEW p \in Proc, Alone(p), pc[p] \notin {"embryo", "pipealloc"},
         pc'[p] \notin {"fork", "pipealloc"},
         file' = file, ofile' = ofile, closing' = closing, Types', CallOf(p)'
  PROVE  RInv'
<1>1. \A z \in Here : Held'[z] = Held[z]
  <2>1. SUFFICES ASSUME NEW z \in Here, z[1] = p, z[2] \notin FD PROVE Held'[z] = Held[z]
    BY HeldElsewhere
  <2>2. z \in {<<p, NOFILE>>, <<p, NOFILE + 1>>, <<p, NOFILE + 2>>}
    BY <2>1, Constants, SMT DEF Here
  <2>3. QED
    BY <2>2, Places, PlacesNext, SMT DEF PlaceFacts
<1>2. \A v : {z \in DOMAIN Held : Held[z] = v}' = {z \in DOMAIN Held : Held[z] = v}
  BY <1>1, Places, PlacesNext, SMT DEF PlaceFacts
<1>3. RefsCounted'
  BY <1>2 DEF RInv, RefsCounted
<1>4. Slots' /\ Touches(p)
  BY DEF RInv, Slots, Touches
<1>5. QED
  BY <1>3, <1>4, Keeps

\* A file with another reference count.
SameFile(f, n) ==
  /\ file' \in [File -> FileRecord]
  /\ \A g \in File \ {f} : file'[g] = file[g]
  /\ file'[f].ref = n /\ file'[f].type = file[f].type
  /\ file'[f].pipe = file[f].pipe /\ file'[f].writable = file[f].writable

\* filealloc(), filedup() and fileclose() change one reference count.
LEMMA RefChanges ==
  ASSUME Types, NEW f \in File, NEW n \in Nat, file' = [file EXCEPT ![f].ref = n]
  PROVE  SameFile(f, n)
<1>1. file \in [File -> FileRecord] /\ file[f] \in FileRecord
  BY DEF Types
<1>2. [file[f] EXCEPT !.ref = n] =
        [type |-> file[f].type, ref |-> n, writable |-> file[f].writable, pipe |-> file[f].pipe]
  BY <1>1, SMT DEF FileRecord
<1>3. [file[f] EXCEPT !.ref = n] \in FileRecord
  BY <1>1 DEF FileRecord
<1>4. file' = [file EXCEPT ![f] = [file[f] EXCEPT !.ref = n]]
  BY <1>1
<1>5. file' \in [File -> FileRecord] /\ \A g \in File \ {f} : file'[g] = file[g]
  BY <1>1, <1>3, <1>4
<1>6. file'[f] =
        [type |-> file[f].type, ref |-> n, writable |-> file[f].writable, pipe |-> file[f].pipe]
  BY <1>1, <1>2, <1>4
<1>7. QED
  BY <1>5, <1>6 DEF SameFile

---------------------------------------------------------------------------
\* The counts still agree when the files held at one, two or three places change
\* and the counts of those files follow.
LEMMA Recount1 ==
  ASSUME Library, RInv, NEW x \in Here, \A z \in Here \ {x} : Held'[z] = Held[z],
         file' \in [File -> FileRecord],
         \A v \in File : file'[v].ref + One(Held[x] = v) = file[v].ref + One(Held'[x] = v)
  PROVE  RefsCounted'
<1>1. SUFFICES ASSUME NEW v \in File PROVE file'[v].ref = Count(Held, v)'
  BY DEF RefsCounted, Count
<1>2. Count(Held', v) + One(Held[x] = v) = Count(Held, v) + One(Held'[x] = v)
  BY Places, PlacesNext, Finite, Changes, SMT DEF PlaceFacts
<1>3. Count(Held, v) = file[v].ref /\ Count(Held, v)' = Count(Held', v)
  BY DEF RInv, RefsCounted, Count
<1>4. Count(Held, v) \in Nat /\ Count(Held', v) \in Nat /\ file'[v].ref \in Nat
  BY Places, PlacesNext, Finite, CountNat DEF PlaceFacts, FileRecord
<1>5. QED
  BY <1>2, <1>3, <1>4, SMT DEF One

\* Two places.
LEMMA Recount2 ==
  ASSUME Library, RInv, NEW x \in Here, NEW y \in Here, x # y,
         \A z \in Here \ {x, y} : Held'[z] = Held[z],
         file' \in [File -> FileRecord],
         \A v \in File : file'[v].ref + One(Held[x] = v) + One(Held[y] = v)
                           = file[v].ref + One(Held'[x] = v) + One(Held'[y] = v)
  PROVE  RefsCounted'
<1>1. SUFFICES ASSUME NEW v \in File PROVE file'[v].ref = Count(Held, v)'
  BY DEF RefsCounted, Count
<1>2. Count(Held', v) + One(Held[x] = v) + One(Held[y] = v)
        = Count(Held, v) + One(Held'[x] = v) + One(Held'[y] = v)
  BY Places, PlacesNext, Finite, Changes2, SMT DEF PlaceFacts
<1>3. Count(Held, v) = file[v].ref /\ Count(Held, v)' = Count(Held', v)
  BY DEF RInv, RefsCounted, Count
<1>4. Count(Held, v) \in Nat /\ Count(Held', v) \in Nat /\ file'[v].ref \in Nat
  BY Places, PlacesNext, Finite, CountNat, SMT DEF PlaceFacts, FileRecord
<1>5. QED
  BY <1>2, <1>3, <1>4, SMT DEF One

\* What the counts gain is what three places gain.
Balance3(x, y, w) ==
  \A v \in File : file'[v].ref + One(Held[x] = v) + One(Held[y] = v) + One(Held[w] = v)
                    = file[v].ref + One(Held'[x] = v) + One(Held'[y] = v) + One(Held'[w] = v)

\* Three places.
LEMMA Recount3 ==
  ASSUME Library, RInv, NEW x \in Here, NEW y \in Here, NEW w \in Here, x # y, x # w, y # w,
         \A z \in Here \ {x, y, w} : Held'[z] = Held[z],
         file' \in [File -> FileRecord], Balance3(x, y, w)
  PROVE  RefsCounted'
<1>1. SUFFICES ASSUME NEW v \in File PROVE file'[v].ref = Count(Held, v)'
  BY DEF RefsCounted, Count
<1>2. Count(Held', v) + One(Held[x] = v) + One(Held[y] = v) + One(Held[w] = v)
        = Count(Held, v) + One(Held'[x] = v) + One(Held'[y] = v) + One(Held'[w] = v)
  BY Places, PlacesNext, Finite, Changes3, SMT DEF PlaceFacts
<1>3. Count(Held, v) = file[v].ref /\ Count(Held, v)' = Count(Held', v)
  BY DEF RInv, RefsCounted, Count
<1>4. Count(Held, v) \in Nat /\ Count(Held', v) \in Nat /\ file'[v].ref \in Nat
  BY Places, PlacesNext, Finite, CountNat, SMT DEF PlaceFacts, FileRecord
<1>5. file'[v].ref + One(Held[x] = v) + One(Held[y] = v) + One(Held[w] = v)
        = file[v].ref + One(Held'[x] = v) + One(Held'[y] = v) + One(Held'[w] = v)
  BY Zenon DEF Balance3
<1>6. QED
  BY <1>2, <1>3, <1>4, <1>5, SMT DEF One

\* A step of p changes nothing outside the places X of p.
LEMMA HeldOutside ==
  ASSUME NEW p \in Proc, Alone(p), NEW X,
         \A d \in FD : <<p, d>> \in X \/ ofile'[p][d] = ofile[p][d],
         \A i \in {NOFILE, NOFILE + 1, NOFILE + 2} : <<p, i>> \in X \/ Held'[<<p, i>>] = Held[<<p, i>>]
  PROVE  \A z \in Here \ X : Held'[z] = Held[z]
<1>1. SUFFICES ASSUME NEW z \in Here \ X PROVE Held'[z] = Held[z]
  OBVIOUS
<1>2. z = <<z[1], z[2]>> /\ z[1] \in Proc /\ z[2] \in FD \union {NOFILE, NOFILE + 1, NOFILE + 2}
  BY Constants, SMT DEF Here
<1>3. QED
  BY <1>2, HeldElsewhere, SMT

\* What p has in hand besides its descriptors.
HandsFacts ==
  \A p \in Proc :
    /\ pc[p] # "pipealloc" => Held[<<p, NOFILE>>] = None
    /\ closing[p] = <<>> => Held[<<p, NOFILE + 1>>] = None /\ Held[<<p, NOFILE + 2>>] = None
    /\ \A f : closing[p] = <<f>> => Held[<<p, NOFILE + 1>>] = f /\ Held[<<p, NOFILE + 2>>] = None
    /\ \A f, g : closing[p] = <<f, g>> => Held[<<p, NOFILE + 1>>] = f /\ Held[<<p, NOFILE + 2>>] = g

\* It has, ...
LEMMA Hands == HandsFacts
<1>1. DOMAIN <<>> = {} /\ \A f, g : DOMAIN <<f>> = {1} /\ DOMAIN <<f, g>> = {1, 2}
  BY SMT
<1>2. QED
  BY <1>1, Places, SMT DEF PlaceFacts, HandsFacts

\* ... also in the next state.
LEMMA HandsNext == HandsFacts'
BY Hands, PTL

\* filealloc() for the read end.
LEMMA sys_pipeKeeps ==
  ASSUME Library, RInv, NEW p \in Proc, sys_pipe(p)
  PROVE  RInv'
<1>0. PICK f \in File : First(f, FreeFiles) /\ file' = [file EXCEPT ![f].ref = 1]
                          /\ arg' = [arg EXCEPT ![p] = f]
  BY Zenon DEF sys_pipe
<1> DEFINE x == <<p, NOFILE>>
<1>1. f \in File /\ file[f].ref = 0 /\ pc[p] = "user" /\ closing[p] = <<>>
  BY <1>0 DEF sys_pipe, First, FreeFiles, InUser, At, RInv, CallOf
<1>2. /\ file' = [file EXCEPT ![f].ref = 1] /\ arg' = [arg EXCEPT ![p] = f] /\ Goto(p, "pipealloc")
      /\ ofile' = ofile /\ closing' = closing /\ ff' = ff /\ np' = np /\ pipe' = pipe /\ sys' = sys
  BY <1>0 DEF sys_pipe, pipes
<1>5. SameFile(f, 1)
  BY <1>1, <1>2, RefChanges DEF RInv
<1>3. Types'
  BY <1>1, <1>2, <1>5 DEF RInv, Types, Goto, Labels, SameFile
<1>4. Alone(p) /\ pc'[p] = "pipealloc" /\ arg'[p] = f
  BY <1>2 DEF Alone, Goto, RInv, Types
<1>6. Touches(p)
  BY <1>1, <1>5 DEF Touches, SameFile
<1>7. Slots'
  BY <1>1, <1>5 DEF Slots, RInv, SameFile
<1>8. CallOf(p)'
  BY <1>1, <1>2, <1>4, <1>5 DEF CallOf, RInv, Slots, SameFile
<1>9. x \in Here /\ Held[x] = None /\ Held'[x] = f
  BY <1>1, <1>4, Places, PlacesNext DEF PlaceFacts
<1>10. \A z \in Here \ {x} : Held'[z] = Held[z]
  <2>1. SUFFICES ASSUME NEW z \in Here, z # x, z[1] = p, z[2] \notin FD PROVE Held'[z] = Held[z]
    BY <1>2, <1>4, HeldElsewhere
  <2>2. z \in {<<p, NOFILE + 1>>, <<p, NOFILE + 2>>}
    BY <2>1, Constants, SMT DEF Here
  <2>3. QED
    BY <1>2, <2>2, Places, PlacesNext, SMT DEF PlaceFacts
<1>11. RefsCounted'
  <2>1. ASSUME NEW v \in File PROVE file'[v].ref + One(None = v) = file[v].ref + One(f = v)
    <3>1. file[v].ref \in Nat /\ None # v
      BY Constants DEF RInv, Types, FileRecord
    <3>2. QED
      BY <1>1, <1>5, <3>1, SMT DEF SameFile, One
  <2>2. QED
    BY <1>5, <1>9, <1>10, <2>1, Recount1, SMT DEF SameFile
<1>12. QED
  BY <1>1, <1>3, <1>4, <1>6, <1>7, <1>8, <1>11, Keeps

\* dup(): a second descriptor.
LEMMA sys_dupKeeps ==
  ASSUME Library, RInv, NEW p \in Proc, NEW d \in FD, sys_dup(p, d)
  PROVE  RInv'
<1>0. PICK e \in FD :
        /\ First(e, FreeFDs(p))
        /\ IF file[ofile[p][d]].ref < 1
           THEN panic
           ELSE /\ ofile' = [ofile EXCEPT ![p][e] = ofile[p][d]]
                /\ file' = filedup(ofile[p][d])
                /\ UNCHANGED <<pipes, calls, todo, killed, asleep, sys>>
  BY Zenon DEF sys_dup
<1> DEFINE f == ofile[p][d]
           x == <<p, e>>
<1>1. e \in FD /\ ofile[p][e] = None /\ pc[p] = "user" /\ f \in File
  BY <1>0, SMT DEF sys_dup, First, FreeFDs, InUser, At, RInv, Types
<1>2. file[f].ref >= 1 /\ file[f].ref \in Nat
  <2>1. <<p, d>> \in Here /\ Held[<<p, d>>] = f
    BY Places DEF PlaceFacts
  <2>2. Types /\ RefsCounted
    BY DEF RInv
  <2>3. file[f].ref >= 1
    BY <1>1, <2>1, <2>2, HeldCounts, Zenon
  <2>4. QED
    BY <1>1, <2>2, <2>3 DEF Types, FileRecord
<1>3. /\ file' = filedup(f) /\ ofile' = [ofile EXCEPT ![p][e] = f]
      /\ pc' = pc /\ arg' = arg /\ closing' = closing /\ ff' = ff /\ np' = np /\ pipe' = pipe /\ sys' = sys
  BY <1>0, <1>2, SMT DEF pipes, calls
<1> HIDE DEF f
<1>4. SameFile(f, file[f].ref + 1)
  <2>1. file' = [file EXCEPT ![f].ref = file[f].ref + 1]
    BY <1>3 DEF filedup
  <2>2. file[f].ref + 1 \in Nat /\ Types
    BY <1>2, SMT DEF RInv
  <2>3. QED
    BY <1>1, <2>1, <2>2, RefChanges, Zenon
<1>5. /\ ofile' \in [Proc -> [FD -> File \union {None}]]
      /\ \A q \in Proc \ {p} : ofile'[q] = ofile[q]
      /\ \A c \in FD \ {e} : ofile'[p][c] = ofile[p][c]
      /\ ofile'[p][e] = f
  BY <1>1, <1>3 DEF RInv, Types
<1>6. Types' /\ Alone(p)
  BY <1>3, <1>4, <1>5 DEF RInv, Types, SameFile, Alone
<1>7. Slots' /\ Touches(p)
  <2>1. Slots'
    BY <1>1, <1>2, <1>4, SMT DEF RInv, Slots, SameFile
  <2>2. <<p, d>> \in Here /\ Held[<<p, d>>] = f
    BY Places DEF PlaceFacts, f
  <2>3. QED
    BY <1>4, <2>1, <2>2 DEF Touches, SameFile
<1>8. CallOf(p)'
  BY <1>1, <1>3 DEF CallOf, RInv
<1>9. x \in Here /\ Held[x] = None /\ Held'[x] = f
  BY <1>1, <1>5, Places, PlacesNext, SMT DEF PlaceFacts
<1>10. \A z \in Here \ {x} : Held'[z] = Held[z]
  <2>1. \A i \in {NOFILE, NOFILE + 1, NOFILE + 2} : Held'[<<p, i>>] = Held[<<p, i>>]
    BY <1>3, Places, PlacesNext, SMT DEF PlaceFacts
  <2>2. \A c \in FD : <<p, c>> \in {x} \/ ofile'[p][c] = ofile[p][c]
    BY <1>5
  <2>3. QED
    BY <1>6, <2>1, <2>2, HeldOutside, Zenon
<1>11. RefsCounted'
  <2>1. ASSUME NEW v \in File PROVE file'[v].ref + One(None = v) = file[v].ref + One(f = v)
    <3>1. file[v].ref \in Nat
      BY <2>1, SMT DEF RInv, Types, FileRecord
    <3>2. v # None
      BY <2>1, Constants, Zenon
    <3>3. CASE v = f
      <4>1. file'[v].ref = file[v].ref + 1
        BY <3>3, <1>4, <2>1, Zenon DEF SameFile
      <4>2. file[v].ref + 1 + One(None = v) = file[v].ref + 1
        BY <3>1, <3>2, OneMore, Zenon
      <4>3. One(f = v) = 1
        BY <3>3, Zenon DEF One
      <4>4. QED
        BY <4>1, <4>2, <4>3, Zenon
    <3>4. CASE v # f
      <4>1. file'[v].ref = file[v].ref
        BY <3>4, <1>4, <2>1, Zenon DEF SameFile
      <4>2. QED
        BY <3>1, <3>2, <3>4, <4>1, OneMore, Zenon
    <3>5. QED
      BY <3>3, <3>4, Zenon
  <2>2. file' \in [File -> FileRecord]
    BY <1>4, Zenon DEF SameFile
  <2>3. QED
    BY <1>9, <1>10, <2>1, <2>2, Recount1
<1>12. QED
  BY <1>1, <1>3, <1>6, <1>7, <1>8, <1>11, Keeps

\* close(), and a turn of exit()'s loop: the file goes from a descriptor to
\* fileclose().
LEMMA CloseKeeps ==
  ASSUME Library, RInv, NEW p \in Proc, NEW d \in FD, ofile[p][d] # None, pc[p] \in {"user", "exit"},
         ofile' = [ofile EXCEPT ![p][d] = None],
         closing' = [closing EXCEPT ![p] = <<ofile[p][d]>>],
         Goto(p, "fileclose"), UNCHANGED <<file, pipe, arg, np, ff, sys>>
  PROVE  RInv'
<1> DEFINE f == ofile[p][d]
           x == <<p, d>>
           y == <<p, NOFILE + 1>>
<1>1. f \in File /\ closing[p] = <<>>
  <2>1. CallOf(p) /\ Types
    BY DEF RInv
  <2>2. QED
    BY <2>1, SMT DEF Types, CallOf
<1> HIDE DEF f
<1>2. /\ ofile' \in [Proc -> [FD -> File \union {None}]]
      /\ \A q \in Proc \ {p} : ofile'[q] = ofile[q]
      /\ \A c \in FD \ {d} : ofile'[p][c] = ofile[p][c]
      /\ ofile'[p][d] = None
  BY DEF RInv, Types
<1>3. /\ closing' \in [Proc -> Seq(File)] /\ closing'[p] = <<f>>
      /\ \A q \in Proc \ {p} : closing'[q] = closing[q]
  BY <1>1, SMT DEF RInv, Types, f
<1>4. Types' /\ Alone(p) /\ pc'[p] = "fileclose"
  BY <1>2, <1>3 DEF RInv, Types, Alone, Goto, Labels
<1>5. Slots' /\ Touches(p)
  BY DEF RInv, Slots, Touches
<1>6. CallOf(p)'
  BY <1>3, <1>4, SMT DEF CallOf, RInv
<1>7. /\ x \in Here /\ Held[x] = f /\ Held'[x] = None
      /\ y \in Here /\ Held[y] = None /\ Held'[y] = f /\ x # y
  <2>1. x \in Here /\ Held[x] = f /\ Held'[x] = None /\ y \in Here
    BY <1>2, Places, PlacesNext, SMT DEF PlaceFacts, f
  <2>2. Held[y] = None
    BY <1>1, Hands DEF HandsFacts
  <2>3. Held'[y] = f
    BY <1>3, HandsNext DEF HandsFacts
  <2>4. x # y
    BY Constants
  <2>5. QED
    BY <2>1, <2>2, <2>3, <2>4
<1>8. \A z \in Here \ {x, y} : Held'[z] = Held[z]
  <2>1. Held'[<<p, NOFILE>>] = Held[<<p, NOFILE>>]
    BY <1>4, Hands, HandsNext DEF HandsFacts
  <2>2. Held'[<<p, NOFILE + 2>>] = Held[<<p, NOFILE + 2>>]
    BY <1>1, <1>3, Hands, HandsNext DEF HandsFacts
  <2>3. \A i \in {NOFILE, NOFILE + 1, NOFILE + 2} :
          <<p, i>> \in {x, y} \/ Held'[<<p, i>>] = Held[<<p, i>>]
    BY <2>1, <2>2
  <2>4. \A c \in FD : <<p, c>> \in {x, y} \/ ofile'[p][c] = ofile[p][c]
    BY <1>2
  <2>5. QED
    BY <1>4, <2>3, <2>4, HeldOutside, Zenon
<1>9. RefsCounted'
  <2>1. ASSUME NEW v \in File
        PROVE  file'[v].ref + One(f = v) + One(None = v) = file[v].ref + One(None = v) + One(f = v)
    BY SMT DEF One, RInv, Types, FileRecord
  <2>2. file' \in [File -> FileRecord]
    BY <1>4 DEF Types
  <2>3. QED
    <3> HIDE DEF x, y
    <3> QED BY <1>7, <1>8, <2>1, <2>2, Recount2, SMT
<1>10. QED
  BY <1>4, <1>5, <1>6, <1>9, Keeps

\* fileclose() gives up the first of the files in hand.
LEMMA filecloseKeeps ==
  ASSUME Library, RInv, NEW p \in Proc, fileclose(p)
  PROVE  RInv'
<1> DEFINE f == Head(closing[p])
           rest == Tail(closing[p])
           x == <<p, NOFILE + 1>>
           y == <<p, NOFILE + 2>>
<1>1. Types /\ Slots /\ RefsCounted /\ CallOf(p) /\ pc[p] = "fileclose"
  BY DEF RInv, fileclose, At
<1>2. /\ f \in File /\ rest \in Seq(File) /\ Len(rest) <= 1
      /\ \/ closing[p] = <<f>> /\ rest = <<>>
         \/ \E g \in File : closing[p] = <<f, g>> /\ rest = <<g>>
  <2>1. closing[p] \in Seq(File) /\ Len(closing[p]) <= 2 /\ closing[p] # <<>>
    BY <1>1 DEF Types, CallOf
  <2>2. QED
    BY <2>1, Short, Zenon DEF OneOrTwo
<1>3. x \in Here /\ y \in Here /\ x # y /\ Held[x] = f
  <2>1. x \in Here /\ y \in Here
    BY Places DEF PlaceFacts
  <2>2. x # y
    BY Constants, SMT
  <2>3. Held[x] = f
    <3>1. CASE closing[p] = <<f>>
      BY <3>1, Hands DEF HandsFacts
    <3>2. ASSUME NEW g, closing[p] = <<f, g>> PROVE Held[x] = f
      BY <3>2, Hands DEF HandsFacts
    <3>3. QED
      BY <1>2, <3>1, <3>2
  <2>4. QED
    BY <2>1, <2>2, <2>3
<1>4. file[f].ref >= 1 /\ file[f].ref \in Nat
  <2>1. file[f].ref >= 1
    BY <1>1, <1>2, <1>3, HeldCounts, Zenon
  <2>2. QED
    BY <1>1, <1>2, <2>1 DEF Types, FileRecord
<1>5. /\ file' = IF file[f].ref > 1 THEN [file EXCEPT ![f].ref = @ - 1] ELSE closed(f)
      /\ closing' = [closing EXCEPT ![p] = rest]
      /\ IF file[f].ref = 1 /\ file[f].type = "PIPE"
         THEN ff' = [ff EXCEPT ![p] = file[f]] /\ Goto(p, "pipeclose")
         ELSE UNCHANGED ff /\ Goto(p, AfterClose(p, rest))
      /\ ofile' = ofile /\ arg' = arg /\ np' = np /\ pipe' = pipe /\ sys' = sys
  BY <1>4, SMT DEF fileclose, pipes
<1> HIDE DEF f, rest
<1>6. /\ file' \in [File -> FileRecord]
      /\ \A g \in File \ {f} : file'[g] = file[g]
      /\ file'[f].ref = file[f].ref - 1
      /\ file'[f].ref > 0 => file'[f].type = file[f].type /\ file'[f].pipe = file[f].pipe
      /\ file'[f].ref = 0 => file'[f].type = "NONE"
  <2>1. CASE file[f].ref > 1
    <3>1. file' = [file EXCEPT ![f].ref = file[f].ref - 1]
      BY <1>5, <2>1
    <3>2. file[f].ref - 1 \in Nat /\ file[f].ref - 1 > 0
      BY <1>4, <2>1, SMT
    <3>3. SameFile(f, file[f].ref - 1)
      BY <1>1, <1>2, <3>1, <3>2, RefChanges, Zenon
    <3>4. QED
      BY <3>2, <3>3, SMT DEF SameFile
  <2>2. CASE file[f].ref = 1
    <3>1. file' = [file EXCEPT ![f] = NoFile]
      BY <1>5, <2>2, SMT DEF closed
    <3>2. NoFile \in FileRecord /\ NoFile.ref = 0 /\ NoFile.type = "NONE"
      BY DEF NoFile, FileRecord
    <3>3. QED
      BY <1>1, <1>2, <2>2, <3>1, <3>2, SMT DEF Types
  <2>3. QED
    BY <1>4, <2>1, <2>2, SMT
<1>7. /\ closing' \in [Proc -> Seq(File)] /\ closing'[p] = rest
      /\ \A q \in Proc \ {p} : closing'[q] = closing[q]
  BY <1>1, <1>2, <1>5 DEF Types
<1>8. /\ ff' \in [Proc -> FileRecord] /\ \A q \in Proc \ {p} : ff'[q] = ff[q]
      /\ pc'[p] = "pipeclose" => ff'[p] = file[f] /\ file[f].type = "PIPE"
      /\ pc' \in [Proc -> Labels] /\ \A q \in Proc \ {p} : pc'[q] = pc[q]
      /\ pc'[p] \in {"pipeclose", "fileclose", "exit", "user"}
      /\ pc'[p] \in {"fileclose", "exit", "user"} => pc'[p] = AfterClose(p, rest)
  <2>1. AfterClose(p, rest) \in {"fileclose", "exit", "user"}
    BY AtHome DEF AfterClose
  <2>2. file[f] \in FileRecord
    BY <1>1, <1>2 DEF Types
  <2>3. CASE file[f].ref = 1 /\ file[f].type = "PIPE"
    BY <1>1, <1>5, <2>2, <2>3 DEF Types, Goto, Labels
  <2>4. CASE ~(file[f].ref = 1 /\ file[f].type = "PIPE")
    BY <1>1, <1>5, <2>1, <2>4 DEF Types, Goto, Labels
  <2>5. QED
    BY <2>3, <2>4
<1>9. Types' /\ Alone(p)
  BY <1>1, <1>5, <1>6, <1>7, <1>8 DEF Types, Alone
<1>10. Slots' /\ Touches(p)
  <2>1. Slots'
    BY <1>1, <1>2, <1>4, <1>6, SMT DEF Slots
  <2>2. Touches(p)
    BY <1>3, <1>6 DEF Touches
  <2>3. QED
    BY <2>1, <2>2
<1>11. CallOf(p)'
  <2>1. pc'[p] = "pipeclose" => ff'[p].pipe \in Page
    BY <1>1, <1>2, <1>8 DEF Slots
  <2>2. pc'[p] = "fileclose" => rest # <<>>
    BY <1>8, AtHome DEF AfterClose
  <2>3. pc'[p] \notin {"fileclose", "pipeclose"} => rest = <<>>
    BY <1>8, AtHome DEF AfterClose
  <2>4. Len(rest) <= 2
    BY <1>2, SMT
  <2>5. QED
    BY <1>2, <1>7, <1>8, <2>1, <2>2, <2>3, <2>4 DEF CallOf
<1>12. Held'[x] = Held[y] /\ Held'[y] = None
  <2>1. CASE closing[p] = <<f>> /\ rest = <<>>
    BY <1>7, <2>1, Hands, HandsNext DEF HandsFacts
  <2>2. ASSUME NEW g \in File, closing[p] = <<f, g>>, rest = <<g>>
        PROVE  Held'[x] = Held[y] /\ Held'[y] = None
    <3>1. Held[y] = g
      BY <2>2, Hands DEF HandsFacts
    <3>2. Held'[x] = g /\ Held'[y] = None
      BY <1>7, <2>2, HandsNext DEF HandsFacts
    <3>3. QED
      BY <3>1, <3>2
  <2>3. QED
    BY <1>2, <2>1, <2>2
<1>13. \A z \in Here \ {x, y} : Held'[z] = Held[z]
  <2>1. Held'[<<p, NOFILE>>] = Held[<<p, NOFILE>>]
    BY <1>1, <1>8, Hands, HandsNext DEF HandsFacts
  <2>2. \A i \in {NOFILE, NOFILE + 1, NOFILE + 2} :
          <<p, i>> \in {x, y} \/ Held'[<<p, i>>] = Held[<<p, i>>]
    BY <2>1
  <2>3. \A c \in FD : <<p, c>> \in {x, y} \/ ofile'[p][c] = ofile[p][c]
    BY <1>5
  <2>4. QED
    BY <1>9, <2>2, <2>3, HeldOutside, Zenon
<1>14. RefsCounted'
  <2> HIDE DEF x, y
  <2>1. ASSUME NEW v \in File
        PROVE  file'[v].ref + One(Held[x] = v) + One(Held[y] = v)
                 = file[v].ref + One(Held'[x] = v) + One(Held'[y] = v)
    <3>1. file[v].ref \in Nat /\ None # v
      BY <1>1, Constants DEF Types, FileRecord
    <3>2. QED
      BY <1>2, <1>3, <1>4, <1>6, <1>12, <3>1, SMT DEF One
  <2>2. QED
    BY <1>3, <1>6, <1>13, <2>1, Recount2
<1>15. QED
  BY <1>1, <1>8, <1>9, <1>10, <1>11, <1>14, Keeps

\* pipealloc() and the rest of sys_pipe(): the files that it makes and what
\* becomes of them.
PipeMade(p, rf, wf, g) ==
  /\ file' = [file EXCEPT ![rf] = PipeFile(g, FALSE), ![wf] = PipeFile(g, TRUE)]
  /\ pipe' = [pipe EXCEPT ![g] = [NoPipe EXCEPT !.readopen = TRUE, !.writeopen = TRUE]]
  /\ \/ /\ closing' = [closing EXCEPT ![p] = <<rf, wf>>]
        /\ Goto(p, "fileclose") /\ ofile' = ofile
     \/ \E a, b \in FD :
          /\ a # b /\ ofile[p][a] = None /\ ofile[p][b] = None
          /\ ofile' = [ofile EXCEPT ![p][a] = rf, ![p][b] = wf]
          /\ Goto(p, Home(p)) /\ closing' = closing
  /\ arg' = [arg EXCEPT ![p] = None]
  /\ np' = np /\ ff' = ff /\ sys' = sys

\* pipealloc() found no second slot: the first is to be closed.
NoPipeMade(p, rf) ==
  /\ closing' = [closing EXCEPT ![p] = <<rf>>]
  /\ Goto(p, "fileclose")
  /\ file' = file /\ ofile' = ofile /\ pipe' = pipe
  /\ arg' = [arg EXCEPT ![p] = None]
  /\ np' = np /\ ff' = ff /\ sys' = sys

\* pipealloc() does one or the other.
LEMMA pipeallocDoes ==
  ASSUME Library, RInv, NEW p \in Proc, pipealloc(p)
  PROVE  \/ NoPipeMade(p, arg[p])
         \/ \E wf \in File, g \in FreePages : file[wf].ref = 0 /\ PipeMade(p, arg[p], wf, g)
<1>1. CASE FreeFiles = {}
  BY <1>1 DEF pipealloc, NoPipeMade, table
<1>2. CASE FreeFiles # {}
  <2>1. PICK wf \in File, g \in FreePages :
             /\ First(wf, FreeFiles)
             /\ file' = [file EXCEPT ![arg[p]] = PipeFile(g, FALSE), ![wf] = PipeFile(g, TRUE)]
             /\ pipe' = [pipe EXCEPT ![g] = [NoPipe EXCEPT !.readopen = TRUE, !.writeopen = TRUE]]
             /\ IF \A a, b \in FreeFDs(p) : a = b
                THEN /\ closing' = [closing EXCEPT ![p] = <<arg[p], wf>>]
                     /\ Goto(p, "fileclose")
                     /\ UNCHANGED ofile
                ELSE /\ \E a, b \in FD :
                          /\ First(a, FreeFDs(p)) /\ First(b, FreeFDs(p) \ {a})
                          /\ ofile' = [ofile EXCEPT ![p][a] = arg[p], ![p][b] = wf]
                     /\ Goto(p, Home(p))
                     /\ UNCHANGED closing
    BY <1>2, Zenon DEF pipealloc
  <2>2. arg' = [arg EXCEPT ![p] = None] /\ np' = np /\ ff' = ff /\ sys' = sys
    BY DEF pipealloc
  <2>3. \A a, b : First(a, FreeFDs(p)) /\ First(b, FreeFDs(p) \ {a})
                   => a # b /\ ofile[p][a] = None /\ ofile[p][b] = None
    BY DEF First, FreeFDs
  <2>4. PipeMade(p, arg[p], wf, g)
    BY <2>1, <2>2, <2>3, Zenon DEF PipeMade
  <2>5. file[wf].ref = 0
    BY <2>1 DEF First, FreeFiles
  <2>6. QED
    BY <2>4, <2>5
<1>3. QED
  BY <1>1, <1>2

\* The error path of pipealloc().
LEMMA NoPipeMadeKeeps ==
  ASSUME Library, RInv, NEW p \in Proc, pc[p] = "pipealloc", NoPipeMade(p, arg[p])
  PROVE  RInv'
<1> DEFINE f == arg[p]
           x == <<p, NOFILE>>
           y == <<p, NOFILE + 1>>
<1>1. Types /\ Slots /\ RefsCounted /\ f \in File /\ closing[p] = <<>>
  BY DEF RInv, CallOf
<1>2. /\ closing' \in [Proc -> Seq(File)] /\ closing'[p] = <<f>>
      /\ \A q \in Proc \ {p} : closing'[q] = closing[q]
  BY <1>1, SMT DEF Types, NoPipeMade
<1>3. Types' /\ Alone(p) /\ pc'[p] = "fileclose"
  BY <1>1, <1>2 DEF Types, Alone, NoPipeMade, Goto, Labels
<1>4. Slots' /\ Touches(p)
  BY <1>1 DEF Slots, Touches, NoPipeMade
<1>5. CallOf(p)'
  BY <1>2, <1>3, SMT DEF CallOf
<1>6. /\ x \in Here /\ Held[x] = f /\ Held'[x] = None
      /\ y \in Here /\ Held[y] = None /\ Held'[y] = f /\ x # y
  <2>1. x \in Here /\ Held[x] = f /\ y \in Here
    BY Places DEF PlaceFacts
  <2>2. Held[y] = None
    BY <1>1, Hands DEF HandsFacts
  <2>3. Held'[y] = f /\ Held'[x] = None
    BY <1>2, <1>3, HandsNext DEF HandsFacts
  <2>4. x # y
    BY Constants, SMT
  <2>5. QED
    BY <2>1, <2>2, <2>3, <2>4
<1>7. \A z \in Here \ {x, y} : Held'[z] = Held[z]
  <2>1. Held'[<<p, NOFILE + 2>>] = Held[<<p, NOFILE + 2>>]
    BY <1>1, <1>2, Hands, HandsNext DEF HandsFacts
  <2>2. \A i \in {NOFILE, NOFILE + 1, NOFILE + 2} :
          <<p, i>> \in {x, y} \/ Held'[<<p, i>>] = Held[<<p, i>>]
    BY <2>1
  <2>3. \A c \in FD : <<p, c>> \in {x, y} \/ ofile'[p][c] = ofile[p][c]
    BY DEF NoPipeMade
  <2>4. QED
    BY <1>3, <2>2, <2>3, HeldOutside, Zenon
<1>8. RefsCounted'
  <2> HIDE DEF x, y, f
  <2>1. ASSUME NEW v \in File
        PROVE  file'[v].ref + One(Held[x] = v) + One(Held[y] = v)
                 = file[v].ref + One(Held'[x] = v) + One(Held'[y] = v)
    BY <1>1, <1>6, SMT DEF One, Types, FileRecord, NoPipeMade
  <2>2. file' \in [File -> FileRecord]
    BY <1>3 DEF Types
  <2>3. QED
    BY <1>6, <1>7, <2>1, <2>2, Recount2
<1>9. QED
  BY <1>3, <1>4, <1>5, <1>8, Keeps

\* A pipe with its two files, installed or, without descriptors, to be closed.
LEMMA PipeMadeKeeps ==
  ASSUME Library, RInv, NEW p \in Proc, pc[p] = "pipealloc", NEW wf \in File, NEW g \in FreePages,
         file[wf].ref = 0, PipeMade(p, arg[p], wf, g)
  PROVE  RInv'
<1> DEFINE rf == arg[p]
           x == <<p, NOFILE>>
           y == <<p, NOFILE + 1>>
           w == <<p, NOFILE + 2>>
<1>1. Types /\ Slots /\ RefsCounted /\ rf \in File /\ closing[p] = <<>> /\ file[rf].ref = 1 /\ g \in Page
  BY DEF RInv, CallOf, FreePages
<1>2. rf # wf
  BY <1>1, SMT
<1> HIDE DEF rf
<1>3. /\ file' \in [File -> FileRecord]
      /\ file'[rf] = PipeFile(g, FALSE) /\ file'[wf] = PipeFile(g, TRUE)
      /\ \A h \in File \ {rf, wf} : file'[h] = file[h]
  <2>1. PipeFile(g, FALSE) \in FileRecord /\ PipeFile(g, TRUE) \in FileRecord
    BY <1>1 DEF PipeFile, FileRecord
  <2>2. file' = [file EXCEPT ![rf] = PipeFile(g, FALSE), ![wf] = PipeFile(g, TRUE)]
    BY DEF PipeMade, rf
  <2>3. QED
    BY <1>1, <1>2, <2>1, <2>2 DEF Types
<1>4. /\ file'[rf].ref = 1 /\ file'[rf].type = "PIPE" /\ file'[rf].pipe = g
      /\ file'[wf].ref = 1 /\ file'[wf].type = "PIPE" /\ file'[wf].pipe = g
  BY <1>3, SMT DEF PipeFile
<1>5. pipe' = [h \in Page |-> pipe'[h]] /\ \A h \in Page : DOMAIN pipe'[h] = Fields
  <2>1. pipe' = [pipe EXCEPT ![g] = [NoPipe EXCEPT !.readopen = TRUE, !.writeopen = TRUE]]
    BY DEF PipeMade
  <2>2. DOMAIN [NoPipe EXCEPT !.readopen = TRUE, !.writeopen = TRUE] = Fields
    BY DEF NoPipe, Fields
  <2>3. QED
    BY <1>1, <2>1, <2>2 DEF Types
<1>6. /\ arg' \in [Proc -> File \union {None}] /\ \A q \in Proc \ {p} : arg'[q] = arg[q]
      /\ np' = np /\ ff' = ff /\ sys' = sys
  BY <1>1 DEF Types, PipeMade
<1>7. Slots' /\ Touches(p)
  <2>1. Slots'
    <3>1. SUFFICES ASSUME NEW v \in File
                   PROVE  /\ file'[v].ref = 0 => file'[v].type = "NONE"
                          /\ file'[v].type = "PIPE" => file'[v].pipe \in Page
      BY DEF Slots
    <3>2. CASE v \in {rf, wf}
      BY <1>1, <1>4, <3>2, SMT
    <3>3. CASE v \notin {rf, wf}
      BY <1>1, <1>3, <3>3 DEF Slots
    <3>4. QED
      BY <3>2, <3>3
  <2>2. x \in Here /\ Held[x] = rf
    BY Places DEF PlaceFacts, rf
  <2>3. QED
    BY <1>3, <2>1, <2>2 DEF Touches
<1>8. ASSUME NEW v \in File PROVE file'[v].ref = file[v].ref + One(wf = v)
  <2>1. file[v].ref \in Nat
    BY <1>1 DEF Types, FileRecord
  <2>2. CASE v \in {rf, wf}
    BY <1>1, <1>2, <1>4, <2>2, SMT DEF One
  <2>3. CASE v \notin {rf, wf}
    BY <1>3, <2>1, <2>3, SMT DEF One
  <2>4. QED
    BY <2>2, <2>3
<1>9. x \in Here /\ y \in Here /\ w \in Here /\ x # y /\ x # w /\ y # w
  <2>1. x \in Here /\ y \in Here /\ w \in Here
    BY Places DEF PlaceFacts
  <2>2. QED
    BY <2>1, Constants, SMT
<1>10. Held[x] = rf /\ Held[y] = None /\ Held[w] = None
  <2>1. Held[x] = rf
    BY Places DEF PlaceFacts, rf
  <2>2. QED
    BY <1>1, <2>1, Hands DEF HandsFacts
<1>11. CASE closing' = [closing EXCEPT ![p] = <<rf, wf>>] /\ Goto(p, "fileclose") /\ ofile' = ofile
  <2>1. /\ closing' \in [Proc -> Seq(File)] /\ closing'[p] = <<rf, wf>>
        /\ \A q \in Proc \ {p} : closing'[q] = closing[q]
    BY <1>1, <1>11, SMT DEF Types
  <2>2. Types' /\ Alone(p) /\ pc'[p] = "fileclose"
    BY <1>1, <1>3, <1>5, <1>6, <1>11, <2>1 DEF Types, Alone, Goto, Labels
  <2>3. CallOf(p)'
    BY <2>1, <2>2, SMT DEF CallOf
  <2>4. Held'[x] = None /\ Held'[y] = rf /\ Held'[w] = wf
    <3>1. Held'[x] = None
      BY <2>2, HandsNext DEF HandsFacts
    <3>2. Held'[y] = rf /\ Held'[w] = wf
      <4>1. \A f, h : closing'[p] = <<f, h>> => Held'[y] = f /\ Held'[w] = h
        BY HandsNext DEF HandsFacts
      <4>2. QED
        BY <2>1, <4>1
    <3>3. QED
      BY <3>1, <3>2
  <2>5. \A z \in Here \ {x, y, w} : Held'[z] = Held[z]
    <3>1. \A i \in {NOFILE, NOFILE + 1, NOFILE + 2} :
            <<p, i>> \in {x, y, w} \/ Held'[<<p, i>>] = Held[<<p, i>>]
      OBVIOUS
    <3>2. \A c \in FD : <<p, c>> \in {x, y, w} \/ ofile'[p][c] = ofile[p][c]
      BY <1>11
    <3>3. QED
      BY <2>2, <3>1, <3>2, HeldOutside, Zenon
  <2>6. RefsCounted'
    <3> HIDE DEF x, y, w
    <3>1. ASSUME NEW v \in File
          PROVE  file'[v].ref + One(Held[x] = v) + One(Held[y] = v) + One(Held[w] = v)
                   = file[v].ref + One(Held'[x] = v) + One(Held'[y] = v) + One(Held'[w] = v)
      <4>1. file[v].ref \in Nat /\ None # v
        BY <1>1, Constants DEF Types, FileRecord
      <4>2. QED
        BY <1>8, <1>10, <2>4, <4>1, SMT DEF One
    <3>2. Balance3(x, y, w)
      BY <3>1, Zenon DEF Balance3
    <3>3. x \in Here /\ y \in Here /\ w \in Here /\ x # y /\ x # w /\ y # w /\ file' \in [File -> FileRecord]
      BY <1>3, <1>9, Zenon
    <3>4. QED
      BY <2>5, <3>2, <3>3, Recount3, Zenon
  <2>7. QED
    BY <1>7, <2>2, <2>3, <2>6, Keeps
<1>12. ASSUME NEW a \in FD, NEW b \in FD, a # b, ofile[p][a] = None, ofile[p][b] = None,
              ofile' = [ofile EXCEPT ![p][a] = rf, ![p][b] = wf],
              Goto(p, Home(p)), closing' = closing
       PROVE  RInv'
  <2> DEFINE s == <<p, a>>
             t == <<p, b>>
  <2>1. /\ ofile' \in [Proc -> [FD -> File \union {None}]]
        /\ \A q \in Proc \ {p} : ofile'[q] = ofile[q]
        /\ \A c \in FD \ {a, b} : ofile'[p][c] = ofile[p][c]
        /\ ofile'[p][a] = rf /\ ofile'[p][b] = wf
    BY <1>1, <1>12 DEF Types
  <2>2. Types' /\ Alone(p) /\ pc'[p] \in {"user", "exit"}
    BY <1>1, <1>3, <1>5, <1>6, <1>12, <2>1, AtHome DEF Types, Alone, Goto, Labels
  <2>3. CallOf(p)'
    BY <1>1, <1>12, <2>2, SMT DEF CallOf
  <2>4. /\ s \in Here /\ Held[s] = None /\ Held'[s] = rf
        /\ t \in Here /\ Held[t] = None /\ Held'[t] = wf
        /\ Held'[x] = None
    <3>1. /\ s \in Here /\ Held[s] = None /\ Held'[s] = rf
          /\ t \in Here /\ Held[t] = None /\ Held'[t] = wf
      BY <1>12, <2>1, Places, PlacesNext, SMT DEF PlaceFacts
    <3>2. Held'[x] = None
      BY <2>2, HandsNext DEF HandsFacts
    <3>3. QED
      BY <3>1, <3>2
  <2>5. x # s /\ x # t /\ s # t
    BY <1>12, Constants
  <2>6. \A z \in Here \ {x, s, t} : Held'[z] = Held[z]
    <3>1. Held'[y] = Held[y] /\ Held'[w] = Held[w]
      BY <1>1, <1>12, Hands, HandsNext DEF HandsFacts
    <3>2. \A i \in {NOFILE, NOFILE + 1, NOFILE + 2} :
            <<p, i>> \in {x, s, t} \/ Held'[<<p, i>>] = Held[<<p, i>>]
      BY <3>1
    <3>3. \A c \in FD : <<p, c>> \in {x, s, t} \/ ofile'[p][c] = ofile[p][c]
      BY <2>1
    <3>4. QED
      BY <2>2, <3>2, <3>3, HeldOutside, Zenon
  <2>7. RefsCounted'
    <3> HIDE DEF x, s, t
    <3>1. ASSUME NEW v \in File
          PROVE  file'[v].ref + One(Held[x] = v) + One(Held[s] = v) + One(Held[t] = v)
                   = file[v].ref + One(Held'[x] = v) + One(Held'[s] = v) + One(Held'[t] = v)
      <4>1. file[v].ref \in Nat /\ None # v
        BY <1>1, Constants DEF Types, FileRecord
      <4>2. QED
        BY <1>8, <1>10, <2>4, <4>1, SMT DEF One
    <3>2. x \in Here /\ s \in Here /\ t \in Here /\ file' \in [File -> FileRecord]
      BY <1>3, <1>9, <2>4
    <3>3. QED
      <4>1. Balance3(x, s, t)
        BY <3>1, Zenon DEF Balance3
      <4>2. QED
        BY <2>5, <2>6, <3>2, <4>1, Recount3, Zenon
  <2>8. QED
    BY <1>7, <2>2, <2>3, <2>7, Keeps
<1>13. QED
  BY <1>11, <1>12 DEF PipeMade, rf

\* pipealloc() and the rest of sys_pipe().
LEMMA pipeallocKeeps ==
  ASSUME Library, RInv, NEW p \in Proc, pipealloc(p)
  PROVE  RInv'
<1>1. pc[p] = "pipealloc"
  BY DEF pipealloc, At
<1>2. QED
  BY <1>1, pipeallocDoes, NoPipeMadeKeeps, PipeMadeKeeps

\* fork() takes a child that nobody else has.
LEMMA forkKeeps ==
  ASSUME Library, RInv, NEW p \in Proc, NEW c \in Proc, fork(p, c)
  PROVE  RInv'
<1>1. /\ Types /\ Slots /\ RefsCounted /\ \A q \in Proc : CallOf(q) /\ ForkOf(q)
      /\ pc[p] = "user" /\ pc[c] = "unused" /\ p # c
  BY DEF RInv, fork, InUser, At
<1>2. /\ np' = [np EXCEPT ![p] = c] /\ pc' = [pc EXCEPT ![p] = "fork", ![c] = "embryo"]
      /\ file' = file /\ ofile' = ofile /\ pipe' = pipe /\ arg' = arg /\ closing' = closing
      /\ ff' = ff /\ sys' = sys
  BY DEF fork, table, pipes
<1>3. /\ pc'[p] = "fork" /\ pc'[c] = "embryo" /\ \A q \in Proc \ {p, c} : pc'[q] = pc[q]
      /\ np'[p] = c /\ \A q \in Proc \ {p} : np'[q] = np[q]
      /\ pc' \in [Proc -> Labels] /\ np' \in [Proc -> Proc \union {None}]
  BY <1>1, <1>2 DEF Types, Labels
<1>4. Types' /\ Slots'
  BY <1>1, <1>2, <1>3 DEF Types, Slots
<1>5. Held' = Held
  <2>1. \A q \in Proc : pc'[q] = "pipealloc" <=> pc[q] = "pipealloc"
    BY <1>1, <1>3
  <2>2. QED
    BY <1>2, <2>1 DEF Held
<1>6. RefsCounted'
  BY <1>1, <1>2, <1>5 DEF RefsCounted
<1>7. ASSUME NEW q \in Proc PROVE CallOf(q)'
  <2>1. CallOf(q) /\ (q \in {p, c} => pc[q] \in {"user", "unused"} /\ pc'[q] \in {"fork", "embryo"})
    BY <1>1, <1>3, <1>7, Zenon
  <2>2. CASE q \in {p, c}
    <3>1. closing[q] = <<>> /\ Len(closing[q]) <= 2
      BY <2>1, <2>2, Zenon DEF CallOf
    <3>2. QED
      BY <1>2, <2>1, <2>2, <3>1, Zenon DEF CallOf
  <2>3. CASE q \notin {p, c}
    <3>1. pc'[q] = pc[q]
      BY <1>3, <1>7, <2>3, Zenon
    <3>2. QED
      BY <1>2, <2>1, <3>1, Zenon DEF CallOf
  <2>4. QED
    BY <2>2, <2>3
<1>8. ASSUME NEW q \in Proc \ {p}, pc'[q] = "fork" PROVE ForkOf(q)'
  <2>1. pc[q] = "fork" /\ q # c /\ np[q] \in Proc /\ pc[np[q]] = "embryo" /\ np[q] # c /\ np[q] # p
    BY <1>1, <1>3, <1>8 DEF ForkOf
  <2>2. QED
    BY <1>1, <1>2, <1>3, <2>1, SMT DEF ForkOf
<1>9. ForkOf(p)'
  <2>1. \A q \in Proc \ {p} : pc'[q] = "fork" => np'[q] # c
    BY <1>1, <1>3, SMT DEF ForkOf
  <2>2. \A d \in FD : ofile[c][d] = None
    BY <1>1 DEF CallOf
  <2>3. QED
    BY <1>2, <1>3, <2>1, <2>2 DEF ForkOf
<1>10. \A q \in Proc : ForkOf(q)'
  BY <1>8, <1>9 DEF ForkOf
<1>11. QED
  BY <1>4, <1>6, <1>7, <1>10 DEF RInv

\* A filedup() for the child, or the child starts.
LEMMA fork_dupKeeps ==
  ASSUME Library, RInv, NEW p \in Proc, fork_dup(p)
  PROVE  RInv'
<1> DEFINE c == np[p]
           left == {d \in FD : ofile[p][d] # ofile[c][d]}
<1>1. /\ Types /\ Slots /\ RefsCounted /\ \A q \in Proc : CallOf(q) /\ ForkOf(q)
      /\ pc[p] = "fork" /\ c \in Proc /\ pc[c] = "embryo" /\ p # c
      /\ \A q \in Proc \ {p} : pc[q] = "fork" => np[q] # c
      /\ \A d \in FD : ofile[c][d] \in {None, ofile[p][d]}
  BY DEF RInv, fork_dup, At, ForkOf
<1>2. CASE left = {}
  <2>1. /\ pc' = [pc EXCEPT ![p] = Home(p), ![c] = Home(c)] /\ np' = [np EXCEPT ![p] = None]
        /\ file' = file /\ ofile' = ofile /\ pipe' = pipe /\ arg' = arg /\ closing' = closing
        /\ ff' = ff /\ sys' = sys
    BY <1>2 DEF fork_dup, table, pipes
  <2> HIDE DEF c
  <2>2. /\ pc'[p] \in {"user", "exit"} /\ pc'[c] \in {"user", "exit"} /\ \A q \in Proc \ {p, c} : pc'[q] = pc[q]
        /\ \A q \in Proc \ {p} : np'[q] = np[q]
        /\ pc' \in [Proc -> Labels] /\ np' \in [Proc -> Proc \union {None}]
    BY <1>1, <2>1, AtHome DEF Types, Labels
  <2>3. Types' /\ Slots'
    BY <1>1, <2>1, <2>2 DEF Types, Slots
  <2>4. Held' = Held
    <3>1. \A q \in Proc : pc'[q] = "pipealloc" <=> pc[q] = "pipealloc"
      BY <1>1, <2>2
    <3>2. QED
      BY <2>1, <3>1 DEF Held
  <2>5. RefsCounted'
    BY <1>1, <2>1, <2>4 DEF RefsCounted
  <2>6. ASSUME NEW q \in Proc PROVE CallOf(q)'
    <3>1. CallOf(q) /\ (q \in {p, c} => pc[q] \in {"fork", "embryo"} /\ pc'[q] \in {"user", "exit"})
      BY <1>1, <2>2, <2>6, Zenon
    <3>2. CASE q \in {p, c}
      <4>1. closing[q] = <<>> /\ Len(closing[q]) <= 2
        BY <3>1, <3>2, Zenon DEF CallOf
      <4>2. QED
        BY <2>1, <3>1, <3>2, <4>1, Zenon DEF CallOf
    <3>3. CASE q \notin {p, c}
      <4>1. pc'[q] = pc[q]
        BY <2>2, <2>6, <3>3, Zenon
      <4>2. QED
        BY <2>1, <3>1, <4>1, Zenon DEF CallOf
    <3>4. QED
      BY <3>2, <3>3
  <2>7. ASSUME NEW q \in Proc, pc'[q] = "fork" PROVE ForkOf(q)'
    <3>1. pc[q] = "fork" /\ q # c /\ q # p /\ np[q] \in Proc /\ pc[np[q]] = "embryo" /\ np[q] # c /\ np[q] # p
      BY <1>1, <2>2, <2>7 DEF ForkOf
    <3>2. QED
      BY <1>1, <2>1, <2>2, <3>1, SMT DEF ForkOf
  <2>8. QED
    BY <2>3, <2>5, <2>6, <2>7 DEF RInv, ForkOf
<1>3. CASE left # {}
  <2>0. PICK d \in FD :
          /\ First(d, left)
          /\ IF file[ofile[p][d]].ref < 1
             THEN panic
             ELSE /\ ofile' = [ofile EXCEPT ![c][d] = ofile[p][d]]
                  /\ file' = filedup(ofile[p][d])
                  /\ UNCHANGED <<pipes, calls, todo, killed, asleep, sys>>
    BY <1>3, Zenon DEF fork_dup
  <2> DEFINE f == ofile[p][d]
             x == <<c, d>>
  <2>1. d \in FD /\ ofile[c][d] = None /\ f \in File
    <3>1. f # ofile[c][d]
      BY <2>0 DEF First
    <3>2. QED
      BY <1>1, <3>1, SMT DEF Types
  <2>2. /\ <<p, d>> \in Here /\ Held[<<p, d>>] = f /\ file[f].ref >= 1 /\ file[f].ref \in Nat
    <3>1. <<p, d>> \in Here /\ Held[<<p, d>>] = f
      BY <2>1, Places DEF PlaceFacts
    <3>2. file[f].ref >= 1
      BY <1>1, <2>1, <3>1, HeldCounts, Zenon
    <3>3. QED
      BY <1>1, <2>1, <3>1, <3>2 DEF Types, FileRecord
  <2>3. /\ file' = filedup(f) /\ ofile' = [ofile EXCEPT ![c][d] = f]
        /\ pc' = pc /\ arg' = arg /\ closing' = closing /\ ff' = ff /\ np' = np /\ pipe' = pipe /\ sys' = sys
    <3>1. ~(file[f].ref < 1)
      BY <2>2, SMT
    <3>2. QED
      BY <2>0, <3>1 DEF pipes, calls
  <2> HIDE DEF c, f
  <2>4. SameFile(f, file[f].ref + 1)
    <3>1. file' = [file EXCEPT ![f].ref = file[f].ref + 1]
      BY <2>3 DEF filedup
    <3>2. file[f].ref + 1 \in Nat
      BY <2>2, SMT
    <3>3. QED
      BY <1>1, <2>1, <3>1, <3>2, RefChanges, Zenon
  <2>5. /\ ofile' \in [Proc -> [FD -> File \union {None}]]
        /\ \A q \in Proc \ {c} : ofile'[q] = ofile[q]
        /\ \A e \in FD \ {d} : ofile'[c][e] = ofile[c][e]
        /\ ofile'[c][d] = f
    BY <1>1, <2>1, <2>3 DEF Types
  <2>6. Types' /\ Alone(c)
    BY <1>1, <2>3, <2>4, <2>5 DEF Types, SameFile, Alone
  <2>7. Slots'
    <3>1. file'[f].ref # 0 /\ file[f].ref # 0
      BY <2>2, <2>4, SMT DEF SameFile
    <3>2. ASSUME NEW h \in File
          PROVE  /\ file'[h].ref = 0 => file'[h].type = "NONE"
                 /\ file'[h].type = "PIPE" => file'[h].pipe \in Page
      <4>1. CASE h = f
        BY <1>1, <2>1, <2>4, <3>1, <4>1, Zenon DEF Slots, SameFile
      <4>2. CASE h # f
        BY <1>1, <2>4, <3>2, <4>2, Zenon DEF Slots, SameFile
      <4>3. QED
        BY <4>1, <4>2
    <3>3. QED
      BY <3>2, Zenon DEF Slots
  <2>8. x \in Here /\ Held[x] = None /\ Held'[x] = f
    BY <1>1, <2>1, <2>5, Places, PlacesNext, SMT DEF PlaceFacts
  <2>9. \A z \in Here \ {x} : Held'[z] = Held[z]
    <3>1. \A i \in {NOFILE, NOFILE + 1, NOFILE + 2} : Held'[<<c, i>>] = Held[<<c, i>>]
      <4>1. Held'[<<c, NOFILE>>] = Held[<<c, NOFILE>>]
        BY <1>1, <2>3, Places, PlacesNext DEF PlaceFacts
      <4>2. Held'[<<c, NOFILE + 1>>] = Held[<<c, NOFILE + 1>>]
        BY <1>1, <2>3, Places, PlacesNext, SMT DEF PlaceFacts
      <4>3. Held'[<<c, NOFILE + 2>>] = Held[<<c, NOFILE + 2>>]
        BY <1>1, <2>3, Places, PlacesNext, SMT DEF PlaceFacts
      <4>4. QED
        BY <4>1, <4>2, <4>3
    <3>2. \A i \in {NOFILE, NOFILE + 1, NOFILE + 2} :
            <<c, i>> \in {x} \/ Held'[<<c, i>>] = Held[<<c, i>>]
      BY <3>1
    <3>3. \A e \in FD : <<c, e>> \in {x} \/ ofile'[c][e] = ofile[c][e]
      BY <2>5
    <3>4. c \in Proc /\ Alone(c)
      BY <1>1, <2>6
    <3>5. QED
      BY <3>2, <3>3, <3>4, HeldOutside, Zenon
  <2>10. RefsCounted'
    <3>1. ASSUME NEW v \in File PROVE file'[v].ref + One(None = v) = file[v].ref + One(f = v)
      <4>1. file[v].ref \in Nat
        BY <1>1, <3>1, SMT DEF Types, FileRecord
      <4>2. v # None
        BY <3>1, Constants, Zenon
      <4>3. CASE v = f
        <5>1. file'[v].ref = file[v].ref + 1
          BY <4>3, <2>4, <3>1, Zenon DEF SameFile
        <5>2. file[v].ref + 1 + One(None = v) = file[v].ref + 1
          BY <4>1, <4>2, OneMore, Zenon
        <5>3. One(f = v) = 1
          BY <4>3, Zenon DEF One
        <5>4. QED
          BY <5>1, <5>2, <5>3, Zenon
      <4>4. CASE v # f
        <5>1. file'[v].ref = file[v].ref
          BY <4>4, <2>4, <3>1, Zenon DEF SameFile
        <5>2. QED
          BY <4>1, <4>2, <4>4, <5>1, OneMore, Zenon
      <4>5. QED
        BY <4>3, <4>4, Zenon
    <3>2. file' \in [File -> FileRecord]
      BY <2>6 DEF Types
    <3>3. QED
      BY <2>8, <2>9, <3>1, <3>2, Recount1
  <2>11. ASSUME NEW q \in Proc PROVE CallOf(q)'
    <3>1. Touches(p)
      BY <2>2, <2>4 DEF Touches, SameFile
    <3>2. pc[q] = "pipealloc" => file'[arg[q]] = file[arg[q]]
      BY <1>1, <3>1, OthersAlloc
    <3>3. pc[q] = "unused" => ofile'[q] = ofile[q]
      BY <1>1, <2>5
    <3>4. CallOf(q)
      BY <1>1
    <3>5. QED
      BY <2>3, <3>2, <3>3, <3>4 DEF CallOf
  <2>12. ASSUME NEW q \in Proc, pc'[q] = "fork" PROVE ForkOf(q)'
    <3>1. pc[q] = "fork" /\ q # c /\ ForkOf(q)
      BY <1>1, <2>3, <2>12
    <3>2. CASE q = p
      <4>1. \A e \in FD : ofile'[c][e] \in {None, ofile'[p][e]}
        BY <1>1, <2>1, <2>5 DEF f
      <4>2. QED
        BY <1>1, <2>3, <3>1, <3>2, <4>1 DEF ForkOf, c
    <3>3. CASE q # p
      <4>1. /\ np[q] \in Proc /\ pc[np[q]] = "embryo"
            /\ \A e \in FD : ofile[np[q]][e] \in {None, ofile[q][e]}
            /\ \A r \in Proc : pc[r] = "fork" /\ np[r] = np[q] => r = q
        BY <3>1, Zenon DEF ForkOf
      <4>2. np[q] # c
        BY <1>1, <3>1, <3>3, Zenon
      <4>3. ofile'[np[q]] = ofile[np[q]] /\ ofile'[q] = ofile[q]
        BY <2>5, <3>1, <4>1, <4>2, Zenon
      <4>4. QED
        BY <2>3, <4>1, <4>3, Zenon DEF ForkOf
    <3>4. QED
      BY <3>2, <3>3
  <2>13. QED
    BY <2>6, <2>7, <2>10, <2>11, <2>12 DEF RInv, ForkOf
<1>4. QED
  BY <1>2, <1>3

\* The first process has no files.
LEMMA startKeeps ==
  ASSUME Library, RInv, NEW p \in Proc, start(p)
  PROVE  RInv'
<1>1. Types /\ CallOf(p) /\ pc[p] = "unused"
  BY DEF RInv, start
<1>2. /\ Goto(p, "user") /\ file' = file /\ ofile' = ofile /\ pipe' = pipe /\ arg' = arg /\ np' = np
      /\ closing' = closing /\ ff' = ff /\ sys' = sys
  BY DEF start, table, pipes
<1>3. Types' /\ Alone(p) /\ pc'[p] = "user"
  BY <1>1, <1>2 DEF Types, Alone, Goto, Labels
<1>4. CallOf(p)'
  BY <1>1, <1>2, <1>3 DEF CallOf
<1>5. QED
  BY <1>1, <1>2, <1>3, <1>4, QuietKeeps

\* close() moves a reference from its descriptor to the list of files to close.
LEMMA sys_closeKeeps ==
  ASSUME Library, RInv, NEW p \in Proc, NEW d \in FD, sys_close(p, d)
  PROVE  RInv'
<1>1. pc[p] \in {"user", "exit"} /\ ofile[p][d] # None
  BY DEF sys_close, InUser, At
<1>2. /\ ofile' = [ofile EXCEPT ![p][d] = None] /\ closing' = [closing EXCEPT ![p] = <<ofile[p][d]>>]
      /\ Goto(p, "fileclose") /\ UNCHANGED <<file, pipe, arg, np, ff, sys>>
  BY DEF sys_close, pipes
<1>3. QED
  BY <1>1, <1>2, CloseKeeps, Zenon

\* So does each turn of the loop of exit().
LEMMA exitKeeps ==
  ASSUME Library, RInv, NEW p \in Proc, exit(p)
  PROVE  RInv'
<1> DEFINE open == {d \in FD : ofile[p][d] # None}
<1>1. Types /\ CallOf(p) /\ pc[p] \in {"user", "exit"} /\ UNCHANGED <<file, pipe, arg, np, ff, sys>>
  BY DEF RInv, exit, At, pipes
<1>2. CASE open = {}
  <2>1. Goto(p, "unused") /\ ofile' = ofile /\ closing' = closing
    BY <1>2 DEF exit
  <2>2. Types' /\ Alone(p) /\ pc'[p] = "unused"
    BY <1>1, <2>1 DEF Types, Alone, Goto, Labels
  <2>3. CallOf(p)'
    BY <1>1, <1>2, <2>1, <2>2 DEF CallOf
  <2>4. QED
    BY <1>1, <2>1, <2>2, <2>3, QuietKeeps
<1>3. CASE open # {}
  <2>1. PICK d \in FD :
          /\ First(d, open) /\ ofile' = [ofile EXCEPT ![p][d] = None]
          /\ closing' = [closing EXCEPT ![p] = <<ofile[p][d]>>]
    BY <1>3, Zenon DEF exit
  <2>2. ofile[p][d] # None
    BY <2>1 DEF First
  <2>3. Goto(p, "fileclose")
    BY <1>3 DEF exit
  <2>4. QED
    BY <1>1, <2>1, <2>2, <2>3, CloseKeeps, Zenon
<1>4. QED
  BY <1>2, <1>3

\* fileclose() after ftable.lock is released.
LEMMA pipecloseKeeps ==
  ASSUME Library, RInv, NEW p \in Proc, pipeclose(p)
  PROVE  RInv'
<1> DEFINE g == ff[p].pipe
<1>1. Types /\ CallOf(p) /\ pc[p] = "pipeclose"
  BY DEF RInv, pipeclose, At
<1>2. /\ pipe' = IF ff[p].writable THEN [pipe EXCEPT ![g].writeopen = FALSE]
                                   ELSE [pipe EXCEPT ![g].readopen = FALSE]
      /\ Goto(p, AfterClose(p, closing[p])) /\ ff' = [ff EXCEPT ![p] = NoFile]
      /\ file' = file /\ ofile' = ofile /\ arg' = arg /\ np' = np /\ closing' = closing /\ sys' = sys
  BY DEF pipeclose, table
<1> HIDE DEF g
<1>3. pipe' = [h \in Page |-> pipe'[h]] /\ \A h \in Page : DOMAIN pipe'[h] = Fields
  BY <1>1, <1>2 DEF Types
<1>4. NoFile \in FileRecord
  BY DEF NoFile, FileRecord
<1>5. AfterClose(p, closing[p]) \in {"fileclose", "exit", "user"}
  BY AtHome DEF AfterClose
<1>6. Types' /\ Alone(p) /\ pc'[p] = AfterClose(p, closing[p])
  BY <1>1, <1>2, <1>3, <1>4, <1>5 DEF Types, Alone, Goto, Labels
<1>7. CallOf(p)'
  <2>1. pc'[p] = "fileclose" <=> closing[p] # <<>>
    BY <1>6, AtHome DEF AfterClose
  <2>2. QED
    BY <1>1, <1>2, <1>5, <1>6, <2>1 DEF CallOf
<1>8. QED
  BY <1>1, <1>2, <1>5, <1>6, <1>7, QuietKeeps

\* What a pipe call leaves alone.
CallLabels == {"user", "exit", "piperead", "pipewrite"}
CallFrame ==
  /\ pipe' = [h \in Page |-> pipe'[h]] /\ \A h \in Page : DOMAIN pipe'[h] = Fields
  /\ file' = file /\ ofile' = ofile /\ np' = np /\ closing' = closing /\ ff' = ff /\ sys' = sys

\* That is all that reference counting looks at.
LEMMA PipeCallKeeps ==
  ASSUME Library, RInv, NEW p \in Proc, NEW f \in File \union {None}, NEW l \in CallLabels,
         pc[p] \in CallLabels, Goto(p, l), arg' = [arg EXCEPT ![p] = f], CallFrame
  PROVE  RInv'
<1>1. Types /\ CallOf(p)
  BY DEF RInv
<1>2. Types' /\ Alone(p) /\ pc'[p] = l
  BY <1>1 DEF Types, Alone, Goto, Labels, CallLabels, CallFrame
<1>3. CallOf(p)'
  <2>1. closing'[p] = <<>> /\ Len(closing[p]) <= 2 /\ closing' = closing
    BY <1>1 DEF CallOf, CallLabels, CallFrame
  <2>2. pc'[p] \notin {"fileclose", "pipeclose", "pipealloc", "unused"}
    BY <1>2 DEF CallLabels
  <2>3. QED
    BY <2>1, <2>2 DEF CallOf
<1>4. pc[p] \notin {"embryo", "pipealloc"} /\ pc'[p] \notin {"fork", "pipealloc"}
  BY <1>2 DEF CallLabels
<1>5. file' = file /\ ofile' = ofile /\ closing' = closing
  BY DEF CallFrame
<1>6. QED
  BY <1>2, <1>3, <1>4, <1>5, QuietKeeps, Zenon

\* It ends in sleep() or returns.
LEMMA PipeCallEnds ==
  ASSUME Library, RInv, NEW p \in Proc, NEW f \in File \union {None}, NEW l \in CallLabels,
         pc[p] \in CallLabels, CallFrame, GoSleep(p, f, l) \/ Return(p)
  PROVE  RInv'
<1>1. CASE GoSleep(p, f, l)
  <2>1. Goto(p, l) /\ arg' = [arg EXCEPT ![p] = f]
    BY <1>1 DEF GoSleep
  <2>2. QED
    BY <2>1, PipeCallKeeps, Zenon
<1>2. CASE Return(p)
  <2>1. Goto(p, Home(p)) /\ arg' = [arg EXCEPT ![p] = None]
    BY <1>2 DEF Return
  <2>2. Home(p) \in CallLabels /\ None \in File \union {None}
    BY AtHome DEF CallLabels
  <2>3. QED
    BY <2>1, <2>2, PipeCallKeeps, Zenon
<1>3. QED
  BY <1>1, <1>2

\* pipewrite() changes no reference, ...
LEMMA pipewriteKeeps ==
  ASSUME Library, RInv, NEW p \in Proc, NEW f \in File \union {None}, NEW s,
         pc[p] \in CallLabels, pipewrite(p, f, s)
  PROVE  RInv'
<1> DEFINE g == file[f].pipe
           k == AtMost(Len(s), PIPESIZE - count(pipe[g]))
<1>1. /\ pipe' = [pipe EXCEPT ![g] = stored(pipe[g], s, k)]
      /\ \/ GoSleep(p, f, "pipewrite")
         \/ Return(p)
      /\ file' = file /\ ofile' = ofile /\ np' = np /\ closing' = closing /\ ff' = ff /\ sys' = sys
  BY DEF pipewrite, table
<1> HIDE DEF g, k
<1>2. \A h \in Page : DOMAIN stored(pipe[h], s, k) = DOMAIN pipe[h]
  BY DEF stored
<1>3. pipe' = [h \in Page |-> pipe'[h]] /\ \A h \in Page : DOMAIN pipe'[h] = Fields
  BY <1>1, <1>2 DEF RInv, Types
<1>4. CallFrame
  BY <1>1, <1>3 DEF CallFrame
<1>5. "pipewrite" \in CallLabels
  BY DEF CallLabels
<1>6. QED
  BY <1>1, <1>4, <1>5, PipeCallEnds, Zenon

\* ... nor does piperead().
LEMMA pipereadKeeps ==
  ASSUME Library, RInv, NEW p \in Proc, NEW f \in File \union {None}, NEW n,
         pc[p] \in CallLabels, piperead(p, f, n)
  PROVE  RInv'
<1> DEFINE g == file[f].pipe
           k == AtMost(n, count(pipe[g]))
           taking == [pipe EXCEPT ![g].nread = (@ + k) % UINT,
                                  ![g].data = [i \in DOMAIN @ |-> IF i \in Cells(pipe[g], k) THEN None ELSE @[i]]]
<1>1. /\ pipe' = pipe \/ pipe' = taking
      /\ \/ GoSleep(p, f, "piperead")
         \/ Return(p)
      /\ file' = file /\ ofile' = ofile /\ np' = np /\ closing' = closing /\ ff' = ff /\ sys' = sys
  BY DEF piperead, table
<1>2. taking = [h \in Page |-> taking[h]] /\ \A h \in Page : DOMAIN taking[h] = Fields
  <2> HIDE DEF g, k
  <2> QED
  BY DEF RInv, Types
<1> HIDE DEF taking
<1>3. pipe' = [h \in Page |-> pipe'[h]] /\ \A h \in Page : DOMAIN pipe'[h] = Fields
  BY <1>1, <1>2 DEF RInv, Types
<1>4. CallFrame
  BY <1>1, <1>3 DEF CallFrame
<1>5. "piperead" \in CallLabels
  BY DEF CallLabels
<1>6. QED
  BY <1>1, <1>4, <1>5, PipeCallEnds, Zenon

\* sleep(), kill() and stuttering change nothing of this.
LEMMA IdleKeeps ==
  ASSUME Library, RInv, UNCHANGED <<file, ofile, pipe, calls, sys>>
  PROVE  RInv'
<1>1. /\ file' = file /\ ofile' = ofile /\ pipe' = pipe /\ sys' = sys
      /\ pc' = pc /\ arg' = arg /\ np' = np /\ closing' = closing /\ ff' = ff
  BY DEF calls
<1>2. Held' = Held
  BY <1>1 DEF Held
<1>3. Types' /\ Slots' /\ RefsCounted'
  BY <1>1, <1>2 DEF RInv, Types, Slots, RefsCounted
<1>4. ASSUME NEW p \in Proc PROVE CallOf(p)' /\ ForkOf(p)'
  <2>1. CallOf(p) /\ ForkOf(p)
    BY Zenon DEF RInv
  <2>2. CallOf(p)'
    BY <1>1, <2>1, Zenon DEF CallOf
  <2>3. ForkOf(p)'
    BY <1>1, <2>1, Zenon DEF ForkOf
  <2>4. QED
    BY <2>2, <2>3, Zenon
<1>5. QED
  BY <1>3, <1>4 DEF RInv

\* No panic, and every step keeps the counts.
LEMMA NextKeeps ==
  ASSUME Library, RInv, [Next]_vars
  PROVE  RInv'
<1>1. RInv /\ [Next]_vars
  OBVIOUS
<1>2. CASE UNCHANGED vars
  BY <1>1, <1>2, IdleKeeps DEF vars, table, pipes
<1>3. ASSUME NEW p \in Proc,
             \/ start(p) \/ sys_pipe(p) \/ pipealloc(p) \/ exit(p) \/ fork_dup(p) \/ kill(p)
             \/ fileclose(p) \/ pipeclose(p) \/ write_again(p) \/ sleep(p)
             \/ \E c \in Proc : fork(p, c)
             \/ \E d \in FD : sys_dup(p, d) \/ sys_close(p, d)
             \/ \E n \in Reads : read_again(p, n)
             \/ \E d \in FD, n \in Reads : sys_read(p, d, n)
             \/ \E d \in FD, s \in Writes : sys_write(p, d, s)
      PROVE  RInv'
  <2>1. arg[p] \in File \union {None} /\ \A d \in FD : ofile[p][d] \in File \union {None}
    BY <1>1 DEF RInv, Types
  <2>2. CASE start(p) \/ sys_pipe(p) \/ pipealloc(p) \/ exit(p) \/ fork_dup(p)
    BY <1>1, <2>2, startKeeps, sys_pipeKeeps, pipeallocKeeps, exitKeeps, fork_dupKeeps
  <2>3. CASE fileclose(p) \/ pipeclose(p) \/ (\E c \in Proc : fork(p, c))
             \/ (\E d \in FD : sys_dup(p, d) \/ sys_close(p, d))
    BY <1>1, <2>3, filecloseKeeps, pipecloseKeeps, forkKeeps, sys_dupKeeps, sys_closeKeeps
  <2>4. CASE kill(p) \/ sleep(p)
    BY <1>1, <2>4, IdleKeeps DEF kill, sleep, table, pipes
  <2>5. CASE write_again(p)
    BY <1>1, <2>1, <2>5, pipewriteKeeps, SMT DEF write_again, At, CallLabels
  <2>6. CASE \E n \in Reads : read_again(p, n)
    BY <1>1, <2>1, <2>6, pipereadKeeps, SMT DEF read_again, At, CallLabels
  <2>7. CASE \E d \in FD, n \in Reads : sys_read(p, d, n)
    BY <1>1, <2>1, <2>7, pipereadKeeps, SMT DEF sys_read, At, CallLabels
  <2>8. CASE \E d \in FD, s \in Writes : sys_write(p, d, s)
    BY <1>1, <2>1, <2>8, pipewriteKeeps, SMT DEF sys_write, At, CallLabels
  <2>9. QED
    BY <1>3, <2>2, <2>3, <2>4, <2>5, <2>6, <2>7, <2>8, Zenon
<1>4. QED
  BY <1>1, <1>2, <1>3, Zenon DEF Next

---------------------------------------------------------------------------
\* A reference count alone does not change what a file is.
LEMMA RefSameKind ==
  ASSUME Types, NEW f \in File, NEW n \in Nat, file' = [file EXCEPT ![f].ref = n]
  PROVE  \A h \in File : SameKind(h)
<1>1. SameFile(f, n)
  BY RefChanges, Zenon
<1>2. QED
  BY <1>1 DEF SameFile, SameKind

\* start() and fork().
LEMMA startIs == ASSUME RInv, NEW p \in Proc, start(p) PROVE TableStep
<1>1. /\ file' = file /\ ofile' = ofile /\ pipe' = pipe /\ lock' = lock /\ asleep' = asleep
      /\ todo' = todo /\ ff' = ff /\ arg' = arg /\ pc' = [pc EXCEPT ![p] = "user"] /\ pc[p] = "unused"
  BY DEF start, Goto, table, pipes
<1>2. \A q \in Proc : Stays(q) \/ Elsewhere(q)
  BY <1>1 DEF RInv, Types, Stays, Elsewhere, Busy, PipeCalls
<1>3. QED
  BY <1>1, <1>2 DEF TableStep, SameKind, Copied

\* fork().
LEMMA forkIs == ASSUME RInv, NEW p \in Proc, NEW c \in Proc, fork(p, c) PROVE TableStep
<1>1. /\ file' = file /\ ofile' = ofile /\ pipe' = pipe /\ lock' = lock /\ asleep' = asleep
      /\ todo' = todo /\ ff' = ff /\ arg' = arg /\ pc' = [pc EXCEPT ![p] = "fork", ![c] = "embryo"]
      /\ pc[p] = "user" /\ pc[c] = "unused"
  BY DEF fork, InUser, At, table, pipes
<1>2. \A q \in Proc : Stays(q) \/ Elsewhere(q)
  BY <1>1 DEF RInv, Types, Stays, Elsewhere, Busy, PipeCalls
<1>3. QED
  BY <1>1, <1>2 DEF TableStep, SameKind, Copied

\* fork()'s loop over the descriptors.
LEMMA fork_dupIs == ASSUME RInv, RInv', NEW p \in Proc, fork_dup(p) PROVE TableStep
<1> DEFINE c == np[p]
           left == {d \in FD : ofile[p][d] # ofile[c][d]}
<1>1. /\ Types /\ pc[p] = "fork" /\ c \in Proc /\ pc[c] = "embryo" /\ sys' # "panic"
      /\ \A d \in FD : ofile[c][d] \in {None, ofile[p][d]}
  BY DEF RInv, Types, fork_dup, At, ForkOf
<1>2. CASE left = {}
  <2>1. /\ file' = file /\ ofile' = ofile /\ pipe' = pipe /\ lock' = lock /\ asleep' = asleep
        /\ todo' = todo /\ ff' = ff /\ arg' = arg /\ pc' = [pc EXCEPT ![p] = Home(p), ![c] = Home(c)]
    BY <1>2 DEF fork_dup, table, pipes
  <2> HIDE DEF c
  <2>2. \A q \in Proc : Stays(q) \/ Elsewhere(q)
    BY <1>1, <2>1, AtHome DEF Types, Stays, Elsewhere, Busy, PipeCalls
  <2>3. QED
    BY <2>1, <2>2 DEF TableStep, SameKind, Copied
<1>3. CASE left # {}
  <2>0. PICK d \in FD :
          /\ First(d, left)
          /\ IF file[ofile[p][d]].ref < 1
             THEN panic
             ELSE /\ ofile' = [ofile EXCEPT ![c][d] = ofile[p][d]]
                  /\ file' = filedup(ofile[p][d])
                  /\ UNCHANGED <<pipes, calls, todo, killed, asleep, sys>>
    BY <1>3, Zenon DEF fork_dup
  <2>1. /\ ofile' = [ofile EXCEPT ![c][d] = ofile[p][d]] /\ file' = filedup(ofile[p][d])
        /\ pipe' = pipe /\ lock' = lock /\ asleep' = asleep /\ todo' = todo
        /\ ff' = ff /\ arg' = arg /\ pc' = pc
    BY <1>1, <2>0 DEF panic, pipes, calls
  <2>2. ofile[p][d] \in File
    <3>1. ofile[p][d] # ofile[c][d]
      BY <2>0 DEF First
    <3>2. QED
      BY <1>1, <3>1, SMT DEF Types
  <2> HIDE DEF c
  <2>3. \A f \in File : SameKind(f)
    <3>1. file' = [file EXCEPT ![ofile[p][d]].ref = file[ofile[p][d]].ref + 1]
      BY <1>1, <2>1, <2>2 DEF filedup, Types
    <3>2. file[ofile[p][d]].ref + 1 \in Nat
      BY <1>1, <2>2, SMT DEF Types, FileRecord
    <3>3. QED
      BY <1>1, <2>2, <3>1, <3>2, RefSameKind, Zenon
  <2>4. \A q \in Proc : Stays(q) \/ Elsewhere(q)
    BY <1>1, <2>1 DEF Types, Stays, Elsewhere, Busy, PipeCalls
  <2>5. Copied
    BY <1>1, <2>1 DEF Types, Copied
  <2>6. QED
    BY <2>1, <2>3, <2>4, <2>5 DEF TableStep
<1>4. QED
  BY <1>2, <1>3

\* dup().
LEMMA sys_dupIs == ASSUME RInv, RInv', NEW p \in Proc, NEW d \in FD, sys_dup(p, d) PROVE TableStep
<1>1. Types /\ pc[p] = "user" /\ sys' # "panic" /\ ofile[p][d] \in File
  BY SMT DEF RInv, Types, sys_dup, InUser, At
<1>2. PICK e \in FD :
        /\ First(e, FreeFDs(p))
        /\ IF file[ofile[p][d]].ref < 1
           THEN panic
           ELSE /\ ofile' = [ofile EXCEPT ![p][e] = ofile[p][d]]
                /\ file' = filedup(ofile[p][d])
                /\ UNCHANGED <<pipes, calls, todo, killed, asleep, sys>>
  BY Zenon DEF sys_dup
<1>3. /\ ofile' = [ofile EXCEPT ![p][e] = ofile[p][d]] /\ file' = filedup(ofile[p][d])
      /\ pipe' = pipe /\ lock' = lock /\ asleep' = asleep /\ todo' = todo
      /\ ff' = ff /\ arg' = arg /\ pc' = pc
  BY <1>1, <1>2 DEF panic, pipes, calls
<1>4. \A f \in File : SameKind(f)
  <2>1. file' = [file EXCEPT ![ofile[p][d]].ref = file[ofile[p][d]].ref + 1]
    BY <1>1, <1>3 DEF filedup, Types
  <2>2. file[ofile[p][d]].ref + 1 \in Nat
    BY <1>1, SMT DEF Types, FileRecord
  <2>3. QED
    BY <1>1, <2>1, <2>2, RefSameKind, Zenon
<1>5. \A q \in Proc : Stays(q) \/ Elsewhere(q)
  BY <1>1, <1>3 DEF Types, Stays, Elsewhere, Busy, PipeCalls
<1>6. Copied
  BY <1>1, <1>3 DEF Types, Copied
<1>7. QED
  BY <1>3, <1>4, <1>5, <1>6 DEF TableStep

\* filealloc() in pipe().
LEMMA sys_pipeIs == ASSUME RInv, NEW p \in Proc, sys_pipe(p) PROVE TableStep
<1>1. PICK f \in File : file' = [file EXCEPT ![f].ref = 1] /\ arg' = [arg EXCEPT ![p] = f]
  BY Zenon DEF sys_pipe
<1>2. /\ ofile' = ofile /\ pipe' = pipe /\ lock' = lock /\ asleep' = asleep
      /\ todo' = todo /\ ff' = ff /\ pc' = [pc EXCEPT ![p] = "pipealloc"] /\ pc[p] = "user" /\ Types
  BY DEF RInv, sys_pipe, InUser, At, Goto, pipes
<1>3. \A h \in File : SameKind(h)
  <2>1. 1 \in Nat
    BY SMT
  <2>2. QED
    BY <1>1, <1>2, <2>1, RefSameKind, Zenon
<1>4. \A q \in Proc : Stays(q) \/ Elsewhere(q)
  BY <1>1, <1>2 DEF Types, Stays, Elsewhere, Busy, PipeCalls
<1>5. QED
  BY <1>2, <1>3, <1>4 DEF TableStep, Copied

\* close() and exit() take a file out of a descriptor.
LEMMA CloseIs ==
  ASSUME RInv, NEW p \in Proc, NEW d \in FD, pc[p] \in {"user", "exit"},
         ofile' = [ofile EXCEPT ![p][d] = None], Goto(p, "fileclose"),
         UNCHANGED <<file, pipe, lock, arg, ff, todo, asleep>>
  PROVE  TableStep
<1>1. Types /\ pc' = [pc EXCEPT ![p] = "fileclose"]
  BY DEF RInv, Goto
<1>2. \A q \in Proc : Stays(q) \/ Elsewhere(q)
  BY <1>1 DEF Types, Stays, Elsewhere, Busy, PipeCalls
<1>3. Copied
  BY <1>1 DEF Types, Copied
<1>4. QED
  BY <1>2, <1>3 DEF TableStep, SameKind

\* close().
LEMMA sys_closeIs == ASSUME RInv, NEW p \in Proc, NEW d \in FD, sys_close(p, d) PROVE TableStep
<1>1. /\ pc[p] \in {"user", "exit"} /\ ofile' = [ofile EXCEPT ![p][d] = None] /\ Goto(p, "fileclose")
      /\ UNCHANGED <<file, pipe, lock, arg, ff, todo, asleep>>
  BY DEF sys_close, InUser, At, pipes
<1>2. QED
  BY <1>1, CloseIs, Zenon

\* exit().
LEMMA exitIs == ASSUME RInv, NEW p \in Proc, exit(p) PROVE TableStep
<1> DEFINE open == {d \in FD : ofile[p][d] # None}
<1>1. Types /\ pc[p] \in {"user", "exit"} /\ UNCHANGED <<file, pipe, lock, arg, ff, todo, asleep>>
  BY DEF RInv, exit, At, pipes
<1>2. CASE open = {}
  <2>1. pc' = [pc EXCEPT ![p] = "unused"] /\ ofile' = ofile
    BY <1>2 DEF exit, Goto
  <2>2. \A q \in Proc : Stays(q) \/ Elsewhere(q)
    BY <1>1, <2>1 DEF Types, Stays, Elsewhere, Busy, PipeCalls
  <2>3. QED
    BY <1>1, <2>1, <2>2 DEF TableStep, SameKind, Copied
<1>3. CASE open # {}
  <2>1. PICK d \in FD : ofile' = [ofile EXCEPT ![p][d] = None]
    BY <1>3, Zenon DEF exit
  <2>2. Goto(p, "fileclose")
    BY <1>3 DEF exit
  <2>3. QED
    BY <1>1, <2>1, <2>2, CloseIs, Zenon
<1>4. QED
  BY <1>2, <1>3

\* pipealloc() without a second slot.
LEMMA NoPipeMadeIs ==
  ASSUME RInv, NEW p \in Proc, pc[p] = "pipealloc", NoPipeMade(p, arg[p]),
         UNCHANGED <<lock, todo, asleep>>
  PROVE  TableStep
<1>1. /\ Types /\ file' = file /\ ofile' = ofile /\ pipe' = pipe /\ ff' = ff
      /\ arg' = [arg EXCEPT ![p] = None] /\ pc' = [pc EXCEPT ![p] = "fileclose"]
  BY DEF RInv, NoPipeMade, Goto
<1>2. \A q \in Proc : Stays(q) \/ Elsewhere(q)
  BY <1>1 DEF Types, Stays, Elsewhere, Busy, PipeCalls
<1>3. QED
  BY <1>1, <1>2 DEF TableStep, SameKind, Copied

\* It is that, or a step of the table.
LEMMA filecloseIs ==
  ASSUME Library, RInv, RInv', NEW p \in Proc, fileclose(p)
  PROVE  TableStep \/ \E f : LastClose(p, f)
<1> DEFINE f == Head(closing[p])
           rest == Tail(closing[p])
           x == <<p, NOFILE + 1>>
<1>1. Types /\ Slots /\ RefsCounted /\ CallOf(p) /\ pc[p] = "fileclose" /\ sys' # "panic"
  BY DEF RInv, Types, fileclose, At
<1>2. /\ f \in File /\ rest \in Seq(File) /\ Len(rest) <= 1
      /\ \/ closing[p] = <<f>> /\ rest = <<>>
         \/ \E g \in File : closing[p] = <<f, g>> /\ rest = <<g>>
  <2>1. closing[p] \in Seq(File) /\ Len(closing[p]) <= 2 /\ closing[p] # <<>>
    BY <1>1 DEF Types, CallOf
  <2>2. QED
    BY <2>1, Short, Zenon DEF OneOrTwo
<1>3. x \in Here /\ Held[x] = f
  <2>1. x \in Here
    BY Places DEF PlaceFacts
  <2>3. Held[x] = f
    <3>1. CASE closing[p] = <<f>>
      BY <3>1, Hands DEF HandsFacts
    <3>2. ASSUME NEW g, closing[p] = <<f, g>> PROVE Held[x] = f
      BY <3>2, Hands DEF HandsFacts
    <3>3. QED
      BY <1>2, <3>1, <3>2
  <2>4. QED
    BY <2>1, <2>3
<1>4. file[f].ref \in Nat /\ file[f].ref >= 1 /\ file[f] \in FileRecord
  <2>1. file[f] \in FileRecord /\ file[f].ref \in Nat
    BY <1>1, <1>2 DEF Types, FileRecord
  <2>2. file[f].ref >= 1
    BY <1>1, <1>2, <1>3, HeldCounts, Zenon
  <2>3. QED
    BY <2>1, <2>2
<1>5. /\ file' = IF file[f].ref > 1 THEN [file EXCEPT ![f].ref = @ - 1] ELSE closed(f)
      /\ IF file[f].ref = 1 /\ file[f].type = "PIPE"
         THEN ff' = [ff EXCEPT ![p] = file[f]] /\ Goto(p, "pipeclose")
         ELSE UNCHANGED ff /\ Goto(p, AfterClose(p, rest))
      /\ ofile' = ofile /\ arg' = arg /\ pipe' = pipe /\ lock' = lock /\ asleep' = asleep /\ todo' = todo
  BY <1>4, SMT DEF fileclose, pipes
<1> HIDE DEF f, rest
<1>6. CASE file[f].ref = 1 /\ file[f].type = "PIPE"
  <2>1. file' = [file EXCEPT ![f] = NoFile] /\ NoFile.type = "NONE"
    BY <1>5, <1>6, SMT DEF closed, NoFile
  <2>2. file'[f].type = "NONE" /\ \A h \in File \ {f} : SameKind(h)
    BY <1>1, <1>2, <2>1 DEF Types, SameKind
  <2>3. ASSUME NEW q \in Proc, NEW d \in FD, ofile[q][d] = f PROVE FALSE
    <3>1. <<q, d>> \in Here /\ Held[<<q, d>>] = f
      BY <2>3, Places DEF PlaceFacts
    <3>2. <<q, d>> # x
      BY Constants, SMT
    <3>3. file[f].ref >= 2
      BY <1>1, <1>2, <1>3, <3>1, <3>2, HeldCounts, Zenon
    <3>4. QED
      BY <1>6, <3>3, SMT
  <2>4. /\ pc'[p] = "pipeclose" /\ ff'[p] = file[f]
        /\ \A q \in Proc \ {p} : pc'[q] = pc[q] /\ ff'[q] = ff[q]
    BY <1>1, <1>5, <1>6 DEF Types, Goto
  <2>5. LastClose(p, f)
    BY <1>1, <1>2, <1>5, <1>6, <2>2, <2>3, <2>4 DEF LastClose
  <2>6. QED
    BY <2>5, Zenon
<1>7. CASE ~(file[f].ref = 1 /\ file[f].type = "PIPE")
  <2>1. ff' = ff /\ pc' = [pc EXCEPT ![p] = AfterClose(p, rest)]
        /\ AfterClose(p, rest) \in {"fileclose", "exit", "user"}
    BY <1>5, <1>7, AtHome DEF Goto, AfterClose
  <2>2. \A h \in File : SameKind(h)
    <3>1. CASE file[f].ref > 1
      <4>1. file' = [file EXCEPT ![f].ref = file[f].ref - 1] /\ file[f].ref - 1 \in Nat
        BY <1>4, <1>5, <3>1, SMT
      <4>2. QED
        BY <1>1, <1>2, <4>1, RefSameKind, Zenon
    <3>2. CASE file[f].ref = 1
      <4>1. file' = [file EXCEPT ![f] = NoFile] /\ NoFile.type = "NONE"
        BY <1>5, <3>2, SMT DEF closed, NoFile
      <4>2. file[f].type = "NONE"
        BY <1>4, <1>7, <3>2 DEF FileRecord
      <4>3. QED
        BY <1>1, <1>2, <4>1, <4>2 DEF Types, SameKind
    <3>3. QED
      BY <1>4, <3>1, <3>2, SMT
  <2>3. \A q \in Proc : Stays(q) \/ Elsewhere(q)
    BY <1>1, <1>5, <2>1 DEF Types, Stays, Elsewhere, Busy, PipeCalls
  <2>4. QED
    BY <1>5, <2>1, <2>2, <2>3 DEF TableStep, Copied
<1>8. QED
  BY <1>6, <1>7

\* It does that, or closes the one file it had.
LEMMA pipeallocIs ==
  ASSUME Library, RInv, NEW p \in Proc, pipealloc(p)
  PROVE  TableStep \/ \E rf, wf, g : Makes(p, rf, wf, g)
<1>1. /\ Types /\ Slots /\ RefsCounted /\ CallOf(p) /\ pc[p] = "pipealloc"
      /\ lock' = lock /\ todo' = todo /\ asleep' = asleep
  BY DEF RInv, pipealloc, At
<1>2. CASE NoPipeMade(p, arg[p])
  BY <1>1, <1>2, NoPipeMadeIs
<1>3. ASSUME NEW wf \in File, NEW g \in FreePages, file[wf].ref = 0, PipeMade(p, arg[p], wf, g)
      PROVE  Makes(p, arg[p], wf, g)
  <2> DEFINE rf == arg[p]
  <2>1. /\ rf \in File /\ file[rf].ref = 1 /\ file[rf].type = "NONE" /\ file[wf].type = "NONE"
        /\ g \in Page /\ ~pipe[g].readopen /\ ~pipe[g].writeopen
    BY <1>1, <1>3 DEF CallOf, Slots, FreePages
  <2>2. rf # wf
    BY <1>3, <2>1, SMT
  <2>3. ASSUME NEW q \in Proc, NEW d \in FD PROVE ofile[q][d] \notin {rf, wf}
    <3>1. <<q, d>> \in Here /\ Held[<<q, d>>] = ofile[q][d]
      BY <2>3, Places DEF PlaceFacts
    <3>2. <<p, NOFILE>> \in Here /\ Held[<<p, NOFILE>>] = rf /\ <<q, d>> # <<p, NOFILE>>
      BY <1>1, Places, Constants, SMT DEF PlaceFacts
    <3>3. CASE ofile[q][d] = rf
      <4>1. file[rf].ref >= 2
        BY <1>1, <2>1, <3>1, <3>2, <3>3, HeldCounts, Zenon
      <4>2. QED
        BY <2>1, <4>1, SMT
    <3>4. CASE ofile[q][d] = wf
      <4>1. file[wf].ref >= 1
        BY <1>1, <3>1, <3>4, HeldCounts, Zenon
      <4>2. QED
        BY <1>3, <4>1, SMT
    <3>5. QED
      BY <3>3, <3>4
  <2> HIDE DEF rf
  <2>4. /\ file'[rf] = PipeFile(g, FALSE) /\ file'[wf] = PipeFile(g, TRUE)
        /\ \A h \in File \ {rf, wf} : file'[h] = file[h]
    <3>1. file' = [file EXCEPT ![rf] = PipeFile(g, FALSE), ![wf] = PipeFile(g, TRUE)]
      BY <1>3 DEF PipeMade, rf
    <3>2. QED
      BY <1>1, <2>1, <2>2, <3>1 DEF Types
  <2>5. /\ pipe'[g] = [NoPipe EXCEPT !.readopen = TRUE, !.writeopen = TRUE]
        /\ \A h \in Page \ {g} : pipe'[h] = pipe[h]
    <3>1. pipe' = [pipe EXCEPT ![g] = [NoPipe EXCEPT !.readopen = TRUE, !.writeopen = TRUE]]
      BY <1>3 DEF PipeMade
    <3>2. QED
      BY <1>1, <2>1, <3>1 DEF Types
  <2>6. /\ pc'[p] \in {"fileclose", "user", "exit"} /\ \A d \in FD : ofile'[p][d] \in {ofile[p][d], rf, wf}
        /\ \A q \in Proc \ {p} : Stays(q)
    <3>1. arg' = [arg EXCEPT ![p] = None]
      BY <1>3 DEF PipeMade
    <3>2. CASE Goto(p, "fileclose") /\ ofile' = ofile
      BY <1>1, <3>1, <3>2 DEF Types, Goto, Stays
    <3>3. ASSUME NEW a \in FD, NEW b \in FD, ofile' = [ofile EXCEPT ![p][a] = rf, ![p][b] = wf],
                 Goto(p, Home(p))
          PROVE  /\ pc'[p] \in {"fileclose", "user", "exit"} /\ \A d \in FD : ofile'[p][d] \in {ofile[p][d], rf, wf}
                 /\ \A q \in Proc \ {p} : Stays(q)
      BY <1>1, <3>1, <3>3, AtHome DEF Types, Goto, Stays
    <3>4. QED
      BY <1>3, <3>2, <3>3, Zenon DEF PipeMade, rf
  <2>7. ff' = ff
    BY <1>3 DEF PipeMade
  <2>8. Makes(p, rf, wf, g)
    BY <1>1, <1>3, <2>1, <2>2, <2>3, <2>4, <2>5, <2>6, <2>7 DEF Makes
  <2>9. QED
    BY <2>8 DEF rf
<1>4. QED
  BY <1>2, <1>3, pipeallocDoes, Zenon

=============================================================================
