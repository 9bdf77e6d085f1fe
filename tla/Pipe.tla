-------------------------------- MODULE Pipe --------------------------------
(***************************************************************************)
(* File table, file descriptors and pipes (file.c, pipe.c, sysfile.c, and  *)
(* what fork() and exit() do with descriptors).                            *)
(*                                                                         *)
(* A critical section of ftable.lock or of a pipe's lock is one step.  Two *)
(* things happen outside: between the two halves of fileclose(), and       *)
(* between the test of p->killed in a pipe's sleep loop and sleep(), where *)
(* the pipe's lock is held but kill() does not take it.                    *)
(***************************************************************************)
EXTENDS Naturals, Sequences, FiniteSets

CONSTANTS
  Proc, NFILE, NOFILE,
  PIPESIZE,
  UINT,        \* nread and nwrite count modulo UINT, 2^32 in the code
  Page,        \* pages kalloc() has for pipes
  Byte,
  Writes,      \* byte sequences that processes write
  Reads        \* lengths that processes read

None == 0

ASSUME PipeConstants ==
  /\ {NFILE, NOFILE, PIPESIZE, UINT} \union Reads \subseteq Nat \ {0}
  /\ UINT % PIPESIZE = 0 /\ UINT > PIPESIZE
  /\ Writes \subseteq Seq(Byte)
  /\ IsFiniteSet(Proc) /\ "free" \notin Proc /\ None \notin Page

File == 1..NFILE
FD == 0..(NOFILE - 1)

VARIABLES
  file,        \* ftable.file
  ofile,       \* per process: its descriptors
  pipe,        \* per page: the struct pipe in it
  lock,        \* per page: the process that keeps p->lock from its test to its sleep(), or "free"
  pc,          \* per process
  arg,         \* per process: the file its call works on
  np,          \* per process: the child that its fork() is making
  closing,     \* per process: files it has yet to fileclose()
  ff,          \* per process: fileclose()'s copy of the file
  todo,        \* per process: bytes that pipewrite() has yet to copy
  killed, asleep, dying,
  sys

table == <<file, ofile>>
pipes == <<pipe, lock>>
calls == <<pc, arg, np, closing, ff, dying>>
vars == <<table, pipes, calls, todo, killed, asleep, sys>>

NoFile == [type |-> "NONE", ref |-> 0, writable |-> FALSE, pipe |-> None]
NoPipe == [nread |-> 0, nwrite |-> 0, readopen |-> FALSE, writeopen |-> FALSE,
           data |-> [i \in 0..(PIPESIZE - 1) |-> None]]

\* No process that uses pipes.
Init ==
  /\ file = [f \in File |-> NoFile]
  /\ ofile = [p \in Proc |-> [d \in FD |-> None]]
  /\ pipe = [g \in Page |-> NoPipe]
  /\ lock = [g \in Page |-> "free"]
  /\ pc = [p \in Proc |-> "unused"]
  /\ arg = [p \in Proc |-> None]
  /\ closing = [p \in Proc |-> <<>>]
  /\ ff = [p \in Proc |-> NoFile]
  /\ todo = [p \in Proc |-> <<>>]
  /\ np = [p \in Proc |-> None]
  /\ killed = {} /\ asleep = {} /\ dying = {}
  /\ sys = "up"

At(p, label) == sys = "up" /\ pc[p] = label /\ p \notin asleep
Goto(p, label) == pc' = [pc EXCEPT ![p] = label]

\* trap() tests proc->killed before and after a system call.  A killed process at
\* "user" is on its way to exit(), or in a call that it entered before: that
\* matters for a pipe call, which tests killed again.  In the others a kill is the
\* same as one right after.
Home(p) == IF p \in killed THEN "exit" ELSE "user"
InUser(p) == At(p, "user") /\ p \notin killed
panic == sys' = "panic" /\ UNCHANGED <<table, pipes, calls, todo, killed, asleep>>

---------------------------------------------------------------------------
(***************************************************************************)
(* Descriptors and the file table.                                         *)
(***************************************************************************)
FreeFiles == {f \in File : file[f].ref = 0}
FreeFDs(p) == {d \in FD : ofile[p][d] = None}

\* The loops over slots and descriptors stop at the first that qualifies.
First(i, T) == i \in T /\ \A j \in T : i <= j

\* filealloc() for the read end.
sys_pipe(p) ==
  /\ InUser(p)
  /\ \E f \in File :
       /\ First(f, FreeFiles)
       /\ file' = [file EXCEPT ![f].ref = 1]
       /\ arg' = [arg EXCEPT ![p] = f]
  /\ Goto(p, "pipealloc")
  /\ UNCHANGED <<ofile, pipes, np, closing, ff, dying, todo, killed, asleep, sys>>

\* filealloc() for the write end, kalloc(), and the two fdalloc(); or the error
\* paths of pipealloc() and sys_pipe().
PipeFile(g, w) == [type |-> "PIPE", ref |-> 1, writable |-> w, pipe |-> g]
FreePages == {g \in Page : ~pipe[g].readopen /\ ~pipe[g].writeopen}

pipealloc(p) ==
  /\ At(p, "pipealloc")
  /\ LET rf == arg[p]
         fds == FreeFDs(p)
     IN IF FreeFiles = {}
        THEN /\ closing' = [closing EXCEPT ![p] = <<rf>>]
             /\ Goto(p, "fileclose")
             /\ UNCHANGED <<table, pipe>>
        ELSE \E wf \in File, g \in FreePages :
             /\ First(wf, FreeFiles)
             /\ file' = [file EXCEPT ![rf] = PipeFile(g, FALSE), ![wf] = PipeFile(g, TRUE)]
             /\ pipe' = [pipe EXCEPT ![g] = [NoPipe EXCEPT !.readopen = TRUE, !.writeopen = TRUE]]
             /\ IF \A a, b \in fds : a = b
                THEN /\ closing' = [closing EXCEPT ![p] = <<rf, wf>>]
                     /\ Goto(p, "fileclose")
                     /\ UNCHANGED ofile
                ELSE /\ \E a, b \in FD :
                          /\ First(a, fds) /\ First(b, fds \ {a})
                          /\ ofile' = [ofile EXCEPT ![p][a] = rf, ![p][b] = wf]
                     /\ Goto(p, Home(p))
                     /\ UNCHANGED closing
  /\ arg' = [arg EXCEPT ![p] = None]
  /\ UNCHANGED <<lock, np, ff, dying, todo, killed, asleep, sys>>

\* Mutant: the reference is not counted.
filedup_Not(f) == file

filedup(f) == [file EXCEPT ![f].ref = @ + 1]

sys_dup(p, d) ==
  /\ InUser(p)
  /\ ofile[p][d] # None
  /\ \E e \in FD :
       /\ First(e, FreeFDs(p))
       /\ IF file[ofile[p][d]].ref < 1
          THEN panic
          ELSE /\ ofile' = [ofile EXCEPT ![p][e] = ofile[p][d]]
               /\ file' = filedup(ofile[p][d])
               /\ UNCHANGED <<pipes, calls, todo, killed, asleep, sys>>

sys_close(p, d) ==
  /\ InUser(p)
  /\ ofile[p][d] # None
  /\ ofile' = [ofile EXCEPT ![p][d] = None]
  /\ closing' = [closing EXCEPT ![p] = <<ofile[p][d]>>]
  /\ Goto(p, "fileclose")
  /\ UNCHANGED <<file, pipes, arg, np, ff, dying, todo, killed, asleep, sys>>

\* exit(), called by the process or on its way back to user space once killed:
\* one turn of its loop over the descriptors.
exit(p) ==
  /\ At(p, "user") \/ At(p, "exit")
  /\ LET open == {d \in FD : ofile[p][d] # None}
     IN IF open = {}
        THEN /\ Goto(p, "unused")
             /\ killed' = killed \ {p} /\ dying' = dying \ {p}
             /\ UNCHANGED <<ofile, closing>>
        ELSE /\ \E d \in FD :
                  /\ First(d, open)
                  /\ ofile' = [ofile EXCEPT ![p][d] = None]
                  /\ closing' = [closing EXCEPT ![p] = <<ofile[p][d]>>]
             /\ dying' = dying \union {p}
             /\ Goto(p, "fileclose")
             /\ UNCHANGED killed
  /\ UNCHANGED <<file, pipes, arg, np, ff, todo, asleep, sys>>

\* The first process of a program, without a pipe.
start(p) ==
  /\ sys = "up" /\ \A q \in Proc : pc[q] = "unused"
  /\ Goto(p, "user")
  /\ UNCHANGED <<table, pipes, arg, np, closing, ff, dying, todo, killed, asleep, sys>>

\* fork(): one filedup() per descriptor, then the child runs.
fork(p, c) ==
  /\ InUser(p)
  /\ pc[c] = "unused"
  /\ np' = [np EXCEPT ![p] = c]
  /\ pc' = [pc EXCEPT ![p] = "fork", ![c] = "embryo"]
  /\ UNCHANGED <<table, pipes, arg, closing, ff, dying, todo, killed, asleep, sys>>

fork_dup(p) ==
  /\ At(p, "fork")
  /\ LET c == np[p]
         left == {d \in FD : ofile[p][d] # ofile[c][d]}
     IN IF left = {}
        THEN /\ pc' = [pc EXCEPT ![p] = Home(p), ![c] = Home(c)]
             /\ np' = [np EXCEPT ![p] = None]
             /\ UNCHANGED <<table, pipes, arg, closing, ff, dying, todo, killed, asleep, sys>>
        ELSE \E d \in FD :
             /\ First(d, left)
             /\ IF file[ofile[p][d]].ref < 1
                THEN panic
                ELSE /\ ofile' = [ofile EXCEPT ![c][d] = ofile[p][d]]
                     /\ file' = filedup(ofile[p][d])
                     /\ UNCHANGED <<pipes, calls, todo, killed, asleep, sys>>

\* fileclose() under ftable.lock, for the first file to close.  The copy ff of
\* the last reference goes to pipeclose().  With type FD_NONE, the old values of
\* the other fields are out of use.
\* Mutant: the slot keeps its type.
closed_KeepsType(f) == [file EXCEPT ![f].ref = 0]

closed(f) == [file EXCEPT ![f] = NoFile]

\* On to the next of the files to close, or to exit(), or back to user space.
AfterClose(p, rest) == IF rest # <<>> THEN "fileclose" ELSE IF p \in dying THEN "exit" ELSE Home(p)

fileclose(p) ==
  /\ At(p, "fileclose")
  /\ LET f == Head(closing[p])
         rest == Tail(closing[p])
     IN IF file[f].ref < 1
        THEN panic
        ELSE /\ file' = IF file[f].ref > 1 THEN [file EXCEPT ![f].ref = @ - 1] ELSE closed(f)
             /\ closing' = [closing EXCEPT ![p] = rest]
             /\ IF file[f].ref = 1 /\ file[f].type = "PIPE"
                THEN ff' = [ff EXCEPT ![p] = file[f]] /\ Goto(p, "pipeclose")
                ELSE UNCHANGED ff /\ Goto(p, AfterClose(p, rest))
             /\ UNCHANGED <<ofile, pipes, arg, np, dying, todo, killed, asleep, sys>>

---------------------------------------------------------------------------
(***************************************************************************)
(* Pipes.  A process in a pipe call has the file in arg.                   *)
(***************************************************************************)
PageOf(p) == file[arg[p]].pipe
count(q) == (q.nwrite + UINT - q.nread) % UINT
AtMost(n, m) == IF n <= m THEN n ELSE m
Full(q) == q.nwrite = (q.nread + PIPESIZE) % UINT
Sleepers(g, label) == {p \in asleep : pc[p] = label /\ PageOf(p) = g}
Return(p) == Goto(p, Home(p)) /\ arg' = [arg EXCEPT ![p] = None] /\ UNCHANGED lock
GoSleep(p, f, label) ==
  Goto(p, label) /\ arg' = [arg EXCEPT ![p] = f] /\ lock' = [lock EXCEPT ![file[f].pipe] = p]

\* fileclose()'s second half.
\* Mutant: the wrong channel is woken.
chan_Other(w) == IF w THEN "pipewrite" ELSE "piperead"

chan(w) == IF w THEN "piperead" ELSE "pipewrite"

pipeclose(p) ==
  /\ At(p, "pipeclose")
  /\ LET g == ff[p].pipe
         w == ff[p].writable
     IN /\ lock[g] = "free"
        /\ pipe' = IF w THEN [pipe EXCEPT ![g].writeopen = FALSE]
                        ELSE [pipe EXCEPT ![g].readopen = FALSE]
        /\ asleep' = asleep \ Sleepers(g, chan(w))
  /\ ff' = [ff EXCEPT ![p] = NoFile]
  /\ Goto(p, AfterClose(p, closing[p]))
  /\ UNCHANGED <<table, lock, arg, np, closing, dying, todo, killed, sys>>

\* The first k bytes of the pipe, and the cells they are in.
Cells(q, k) == {(q.nread + i) % PIPESIZE : i \in 0..(k - 1)}
taken(q, k) == [i \in 1..k |-> q.data[(q.nread + i - 1) % PIPESIZE]]

\* Mutant: nwrite is incremented first.
stored_Late(q, s, k) ==
  [q EXCEPT !.nwrite = (@ + k) % UINT,
            !.data = [i \in DOMAIN @ |->
                        IF \E j \in 1..k : i = (q.nwrite + j) % PIPESIZE
                        THEN s[CHOOSE j \in 1..k : i = (q.nwrite + j) % PIPESIZE]
                        ELSE @[i]]]

stored(q, s, k) ==
  [q EXCEPT !.nwrite = (@ + k) % UINT,
            !.data = [i \in DOMAIN @ |->
                        IF \E j \in 1..k : i = (q.nwrite + j - 1) % PIPESIZE
                        THEN s[CHOOSE j \in 1..k : i = (q.nwrite + j - 1) % PIPESIZE]
                        ELSE @[i]]]

\* Copy what fits; when the pipe is full, wake the readers and go on to sleep(),
\* or give up.
pipewrite(p, f, bytes) ==
  LET g == file[f].pipe
      q == pipe[g]
      k == AtMost(Len(bytes), PIPESIZE - count(q))
      rest == SubSeq(bytes, k + 1, Len(bytes))
  IN /\ lock[g] = "free"
     /\ pipe' = [pipe EXCEPT ![g] = stored(q, bytes, k)]
     /\ IF rest # <<>> /\ q.readopen /\ p \notin killed
        THEN /\ todo' = [todo EXCEPT ![p] = rest]
             /\ asleep' = asleep \ Sleepers(g, "piperead")
             /\ GoSleep(p, f, "pipewrite")
        ELSE /\ todo' = [todo EXCEPT ![p] = <<>>]
             /\ asleep' = IF rest = <<>> THEN asleep \ Sleepers(g, "piperead") ELSE asleep
             /\ Return(p)
     /\ UNCHANGED <<table, np, closing, ff, dying, killed, sys>>

sys_write(p, d, s) ==
  /\ At(p, "user")
  /\ ofile[p][d] # None /\ file[ofile[p][d]].writable
  /\ pipewrite(p, ofile[p][d], s)

write_again(p) == At(p, "pipewrite") /\ pipewrite(p, arg[p], todo[p])

\* Nothing to read: go on to sleep(), or give up if killed.  Otherwise, copy the
\* bytes taken(q, k).  Their cells are marked None, a byte nobody wrote.

piperead(p, f, n) ==
  LET g == file[f].pipe
      q == pipe[g]
      k == AtMost(n, count(q))
  IN /\ lock[g] = "free"
     /\ IF q.nread = q.nwrite /\ q.writeopen
        THEN /\ IF p \in killed THEN Return(p) ELSE GoSleep(p, f, "piperead")
             /\ UNCHANGED <<pipe, asleep>>
        ELSE /\ pipe' = [pipe EXCEPT ![g].nread = (@ + k) % UINT,
                                    ![g].data = [i \in DOMAIN @ |-> IF i \in Cells(q, k) THEN None ELSE @[i]]]
             /\ asleep' = asleep \ Sleepers(g, "pipewrite")
             /\ Return(p)
     /\ UNCHANGED <<table, np, closing, ff, dying, todo, killed, sys>>

sys_read(p, d, n) ==
  /\ At(p, "user")
  /\ ofile[p][d] # None /\ ~file[ofile[p][d]].writable
  /\ piperead(p, ofile[p][d], n)

read_again(p, n) == At(p, "piperead") /\ piperead(p, arg[p], n)

\* sleep() gives up the pipe's lock.
sleep(p) ==
  /\ sys = "up" /\ pc[p] \in {"piperead", "pipewrite"} /\ lock[PageOf(p)] = p
  /\ asleep' = asleep \union {p}
  /\ lock' = [lock EXCEPT ![PageOf(p)] = "free"]
  /\ UNCHANGED <<table, pipe, calls, todo, killed, sys>>

\* kill() marks a process wherever it is, and ends its sleep.
kill(p) ==
  /\ sys = "up" /\ pc[p] # "unused" /\ p \notin killed
  /\ killed' = killed \union {p}
  /\ asleep' = asleep \ {p}
  /\ UNCHANGED <<table, pipes, calls, todo, sys>>

---------------------------------------------------------------------------
Next == \E p \in Proc :
  \/ start(p) \/ sys_pipe(p) \/ pipealloc(p) \/ exit(p) \/ fork_dup(p) \/ kill(p)
  \/ fileclose(p) \/ pipeclose(p) \/ write_again(p) \/ sleep(p)
  \/ \E c \in Proc : fork(p, c)
  \/ \E d \in FD : sys_dup(p, d) \/ sys_close(p, d)
  \/ \E n \in Reads : read_again(p, n)
  \/ \E d \in FD, n \in Reads : sys_read(p, d, n)
  \/ \E d \in FD, s \in Writes : sys_write(p, d, s)

Spec == Init /\ [][Next]_vars

---------------------------------------------------------------------------
\* The file that a process has in each of the places where it keeps one: its
\* descriptors, the read end in pipealloc(), and the files to close.
Held ==
  [r \in Proc \X (0..(NOFILE + 2)) |->
     LET p == r[1]
         i == r[2]
     IN IF i \in FD THEN ofile[p][i]
        ELSE IF i = NOFILE THEN IF pc[p] = "pipealloc" THEN arg[p] ELSE None
        ELSE IF i - NOFILE \in DOMAIN closing[p] THEN closing[p][i - NOFILE] ELSE None]

\* f->ref counts the descriptors of all processes and the references that a
\* system call has in hand: no file is closed under a process that has it open,
\* and no slot of the table is lost.
RefsCounted == \A f \in File : file[f].ref = Cardinality({r \in DOMAIN Held : Held[r] = f})

\* An end of a pipe is open exactly as long as an open file stands for it, or
\* the process that closed the last one is about to call pipeclose(): readers
\* get end-of-file when the last writer is gone and not before, and the page
\* is freed once, by the last of all.
PipeEnds ==
  \A g \in Page, w \in BOOLEAN :
    LET files == {f \in File : file[f].ref > 0 /\ file[f].type = "PIPE"
                               /\ file[f].pipe = g /\ file[f].writable = w}
        closers == {p \in Proc : pc[p] = "pipeclose" /\ ff[p].pipe = g /\ ff[p].writable = w}
    IN Cardinality(files) + Cardinality(closers)
         = IF (IF w THEN pipe[g].writeopen ELSE pipe[g].readopen) THEN 1 ELSE 0

\* A process asleep in a pipe has reason to be: nobody sleeps in pipewrite()
\* with room left or without a reader, nor in piperead() without a writer.  A
\* reader sleeps with bytes in the pipe only if a killed writer has filled it:
\* whether killed before the call looked or in its sleep, pipewrite() returns -1
\* from its loop and does not wake the readers, who sleep on until the next write
\* or close.
Bytes(g) == pipe[g].nread # pipe[g].nwrite
WritesTo(p, g) ==
  \/ write_again(p) /\ PageOf(p) = g
  \/ \E d \in FD, s \in Writes : sys_write(p, d, s) /\ file[ofile[p][d]].pipe = g
SleepersWait ==
  /\ [](\A p \in asleep :
          LET q == pipe[PageOf(p)]
          IN IF pc[p] = "piperead" THEN q.writeopen ELSE Full(q) /\ q.readopen)
  /\ [][\A p \in asleep' : pc'[p] = "piperead" /\ Bytes(PageOf(p))' =>
          /\ p \in asleep
          /\ \/ Bytes(PageOf(p))
             \/ Full(pipe'[PageOf(p)]) /\ \E w \in killed : WritesTo(w, PageOf(p))]_vars

\* The ring buffer is a queue: nothing is lost, repeated or reordered, also
\* when a write is cut in pieces, the indices wrap, or writers interleave.
S == INSTANCE Stream WITH
       Writer <- Proc, Channel <- Page, Capacity <- PIPESIZE, todo <- todo,
       queue <- [g \in Page |-> taken(pipe[g], count(pipe[g]))]
Streams == S!Spec
=============================================================================
