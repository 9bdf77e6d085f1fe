------------------------------ MODULE PipeDefs ------------------------------
(***************************************************************************)
(* The vocabulary of the proofs about Pipe: counting, the inductive        *)
(* invariant RInv of reference counting, and what the steps of the file    *)
(* table do to pipes.                                                      *)
(*                                                                         *)
(* PipeInv and PipeWaits each build on it and not on each other;           *)
(* PipeProofs joins them. Both take the facts they need about finite sets  *)
(* as the hypothesis Library, which PipeProofs discharges, so that their   *)
(* many steps are proved without the theorem libraries in scope.           *)
(***************************************************************************)
EXTENDS Pipe

\* How often h takes the value v.
Count(h, v) == Cardinality({x \in DOMAIN h : h[x] = v})

\* A condition that counts as one.
One(P) == IF P THEN 1 ELSE 0

\* How a count follows a change at x.
Shifts(h, k, x, v) == Count(k, v) + One(h[x] = v) = Count(h, v) + One(k[x] = v)

\* The places in a call where a process can be between two steps.
Labels == {"unused", "embryo", "user", "fork", "pipealloc", "exit", "fileclose", "pipeclose",
           "piperead", "pipewrite"}

\* struct file and struct pipe, as far as the model has them.
FileRecord == [type : {"NONE", "PIPE"}, ref : Nat, writable : BOOLEAN, pipe : Page \union {None}]
Fields == {"nread", "nwrite", "readopen", "writeopen", "data"}

\* The types of the variables that reference counting depends on; no panic yet.
Types ==
  /\ file \in [File -> FileRecord]
  /\ ofile \in [Proc -> [FD -> File \union {None}]]
  /\ pipe = [g \in Page |-> pipe[g]] /\ \A g \in Page : DOMAIN pipe[g] = Fields
  /\ pc \in [Proc -> Labels]
  /\ arg \in [Proc -> File \union {None}]
  /\ np \in [Proc -> Proc \union {None}]
  /\ closing \in [Proc -> Seq(File)]
  /\ ff \in [Proc -> FileRecord]
  /\ sys = "up"

\* A slot without references has no type, one with a type has its pipe.
Slots ==
  \A f \in File : /\ file[f].ref = 0 => file[f].type = "NONE"
                  /\ file[f].type = "PIPE" => file[f].pipe \in Page

\* Where processes are in their calls.
CallOf(p) ==
  /\ Len(closing[p]) <= 2
  /\ pc[p] = "fileclose" => closing[p] # <<>>
  /\ pc[p] \notin {"fileclose", "pipeclose"} => closing[p] = <<>>
  /\ pc[p] = "pipeclose" => ff[p].pipe \in Page /\ Len(closing[p]) <= 1
  /\ pc[p] = "pipealloc" => arg[p] \in File /\ file[arg[p]].ref = 1 /\ file[arg[p]].type = "NONE"
  /\ pc[p] \in {"unused"} => \A d \in FD : ofile[p][d] = None

\* fork() copies to a child of its own.
ForkOf(p) ==
  pc[p] = "fork" => /\ np[p] \in Proc /\ pc[np[p]] = "embryo"
                    /\ \A d \in FD : ofile[np[p]][d] \in {None, ofile[p][d]}
                    /\ \A q \in Proc : pc[q] = "fork" /\ np[q] = np[p] => q = p

\* The inductive invariant of reference counting.
RInv ==
  /\ Types /\ Slots /\ RefsCounted
  /\ \A p \in Proc : CallOf(p) /\ ForkOf(p)

\* The places where processes keep files.
Here == Proc \X (0..(NOFILE + 2))

(***************************************************************************)
(* What the proofs use of finite sets.                                     *)
(***************************************************************************)
\* PipeProofs proves it from the library's theorems.
Library ==
  /\ IsFiniteSet(Here) /\ IsFiniteSet(File)
  /\ \A h, v : IsFiniteSet(DOMAIN h) => Count(h, v) \in Nat
  /\ \A h, k, x, v : IsFiniteSet(DOMAIN h) /\ DOMAIN k = DOMAIN h /\ x \in DOMAIN h
                      /\ (\A y \in DOMAIN h \ {x} : k[y] = h[y])
                      => Shifts(h, k, x, v)
  /\ \A h, x : IsFiniteSet(DOMAIN h) /\ x \in DOMAIN h => Count(h, h[x]) >= 1
  /\ \A h, x, y : IsFiniteSet(DOMAIN h) /\ x \in DOMAIN h /\ y \in DOMAIN h /\ x # y /\ h[x] = h[y]
                  => Count(h, h[x]) >= 2

\* What a file is, apart from its references.
SameKind(f) ==
  /\ file'[f].type = file[f].type
  /\ file[f].type = "PIPE" => file'[f].pipe = file[f].pipe /\ file'[f].writable = file[f].writable

\* The pipe calls in which a process can sleep.
PipeCalls == {"piperead", "pipewrite"}

---------------------------------------------------------------------------
(***************************************************************************)
(* The steps that change neither the ends nor the pipes: the table's.      *)
(***************************************************************************)
\* The places in a pipe call or between the halves of fileclose().
Busy == PipeCalls \union {"pipeclose"}
Stays(q) == pc'[q] = pc[q] /\ arg'[q] = arg[q] /\ ofile'[q] = ofile[q]
Elsewhere(q) == pc[q] \notin Busy /\ pc'[q] \notin Busy

\* Descriptors are copied or cleared, never made up.
Copied == \A q \in Proc : \A d \in FD : ofile'[q][d] # None =>
            \E r \in Proc : \E e \in FD : ofile[r][e] = ofile'[q][d]

\* What such a step does.
TableStep ==
  /\ \A f \in File : SameKind(f)
  /\ pipe' = pipe /\ lock' = lock /\ asleep' = asleep /\ todo' = todo /\ ff' = ff
  /\ \A q \in Proc : Stays(q) \/ Elsewhere(q)
  /\ Copied

\* fileclose() of the last reference to a pipe's file.
LastClose(p, f) ==
  /\ f \in File /\ file[f].type = "PIPE" /\ file'[f].type = "NONE"
  /\ \A h \in File \ {f} : SameKind(h)
  /\ \A q \in Proc : \A d \in FD : ofile[q][d] # f
  /\ pc[p] = "fileclose" /\ pc'[p] = "pipeclose" /\ ff'[p] = file[f]
  /\ \A q \in Proc \ {p} : pc'[q] = pc[q] /\ ff'[q] = ff[q]
  /\ ofile' = ofile /\ arg' = arg /\ pipe' = pipe /\ lock' = lock /\ asleep' = asleep /\ todo' = todo

\* pipealloc() that makes a pipe in page g, of two files nobody has in a descriptor.
Makes(p, rf, wf, g) ==
  /\ rf \in File /\ wf \in File /\ rf # wf /\ g \in Page /\ ~pipe[g].readopen /\ ~pipe[g].writeopen
  /\ file[rf].type = "NONE" /\ file[wf].type = "NONE"
  /\ \A q \in Proc : \A d \in FD : ofile[q][d] \notin {rf, wf}
  /\ file'[rf] = PipeFile(g, FALSE) /\ file'[wf] = PipeFile(g, TRUE)
  /\ \A h \in File \ {rf, wf} : file'[h] = file[h]
  /\ pipe'[g] = [NoPipe EXCEPT !.readopen = TRUE, !.writeopen = TRUE]
  /\ \A h \in Page \ {g} : pipe'[h] = pipe[h]
  /\ pc[p] = "pipealloc" /\ pc'[p] \in {"fileclose", "user", "exit"}
  /\ \A d \in FD : ofile'[p][d] \in {ofile[p][d], rf, wf}
  /\ \A q \in Proc \ {p} : Stays(q)
  /\ ff' = ff /\ lock' = lock /\ asleep' = asleep /\ todo' = todo

=============================================================================
