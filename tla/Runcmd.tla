------------------------------- MODULE Runcmd -------------------------------
(***************************************************************************)
(* How the shell runs a command line: main(), runcmd() and fork1() of      *)
(* sh.c, as processes with descriptors, pipes and programs.                *)
(*                                                                         *)
(* A step is a system call that other processes can see, with the calls on *)
(* the process's own descriptors around it.  Of a pipe, the number of      *)
(* bytes in it is kept; its ends are the descriptors that lead to it.  The *)
(* system calls are those of Proc and Pipe, in short.                      *)
(***************************************************************************)
EXTENDS Parser, FiniteSets

CONSTANTS
  MaxProc,     \* free slots of the process table when the line is read
  NPIPE,       \* pipes, enough for the lines that are run
  PIPESIZE,
  MaxInput     \* bound on what a program reads from the console or a file

Pid == 0..MaxProc
sh == 0                  \* the shell itself
initproc == MaxProc + 1
FD == 0..6
PipeId == 1..NPIPE

Closed == [kind |-> "closed", id |-> 0]
Console == [kind |-> "console", id |-> 0]
PlainFile == [kind |-> "file", id |-> 0]
ReadEnd(k) == [kind |-> "read", id |-> k]
WriteEnd(k) == [kind |-> "write", id |-> k]

NoProc == [state |-> "free", parent |-> sh, pc |-> "break", cmd |-> execcmd(<<>>),
           fds |-> [n \in FD |-> Closed], p |-> <<0, 0>>, back |-> FALSE, got |-> 0]

VARIABLES
  line,        \* what getcmd() returned, as tokens, and
  tree,        \* what parsecmd() makes of it
  proc,        \* per process: state, parent, where it is, the command it runs,
               \* its descriptors, runcmd()'s p, whether it is in the
               \* background, and what it has read outside of pipes
  pipe,        \* bytes in each pipe
  failed       \* whether a fork1() has failed

runVars == <<line, tree, proc, pipe, failed>>

RunInit(lines) ==
  /\ line \in lines /\ tree = parsecmd(line)
  /\ proc = [q \in Pid |-> IF q # sh THEN NoProc ELSE
               [NoProc EXCEPT !.state = "live", !.parent = initproc, !.pc = "getcmd",
                              !.fds = [n \in FD |-> IF n \in 0..2 THEN Console ELSE Closed]]]
  /\ pipe = [k \in PipeId |-> 0]
  /\ failed = FALSE

-----------------------------------------------------------------------------
(* System calls *)

At(q, pc) == proc[q].state = "live" /\ proc[q].pc = pc

Lowest(f) == Min({n \in FD : f[n] = Closed})
open(f, x) == [f EXCEPT ![Lowest(f)] = x]
close(f, n) == [f EXCEPT ![n] = Closed]
dup(f, n) == open(f, f[n])

Ends(x) == {q \in Pid : proc[q].state = "live" /\ x \in Range(proc[q].fds)}

\* fork1(): the parent goes on as after, the child as child; or panic().
fork1(q, after, child) ==
  LET free == {r \in Pid : proc[r].state = "free"}
  IN  /\ proc' = IF free = {} THEN [proc EXCEPT ![q].pc = "break"]
                 ELSE [proc EXCEPT ![q] = after, ![Min(free)] = [child EXCEPT !.parent = q]]
      /\ failed' = (failed \/ free = {})
      /\ UNCHANGED <<line, tree>>

\* A wait() that has a child to return, then after
reap(q, after) == \E r \in Pid :
  /\ proc[r].state = "zombie" /\ proc[r].parent = q
  /\ proc' = [proc EXCEPT ![r] = NoProc, ![q] = after]
  /\ UNCHANGED <<line, tree, pipe, failed>>

\* exit() closes the descriptors and leaves the children to init.
exit(q) ==
  /\ At(q, "break")
  /\ proc' = [r \in Pid |->
       IF r = q THEN [NoProc EXCEPT !.state = "zombie", !.parent = proc[q].parent]
       ELSE IF proc[r].parent = q THEN [proc[r] EXCEPT !.parent = initproc] ELSE proc[r]]
  /\ UNCHANGED <<line, tree, pipe, failed>>

init_wait(q) ==
  /\ proc[q].state = "zombie" /\ proc[q].parent = initproc
  /\ proc' = [proc EXCEPT ![q] = NoProc]
  /\ UNCHANGED <<line, tree, pipe, failed>>

-----------------------------------------------------------------------------
(* main() and runcmd() *)

Goes(q, pc) == [proc[q] EXCEPT !.pc = pc]
Runs(q, cmd) == [proc[q] EXCEPT !.pc = "runcmd", !.cmd = cmd]
Running(q, type) == At(q, "runcmd") /\ proc[q].cmd.type = type

main_fork ==
  At(sh, "getcmd") /\ fork1(sh, Goes(sh, "main_wait"), Goes(sh, "parsecmd")) /\ UNCHANGED pipe
main_wait == At(sh, "main_wait") /\ reap(sh, Goes(sh, "log_command"))

parse(q) ==
  /\ At(q, "parsecmd")
  /\ proc' = [proc EXCEPT ![q] = IF tree.ok THEN Runs(q, tree.cmd) ELSE Goes(q, "break")]
  /\ UNCHANGED <<line, tree, pipe, failed>>

\* The programs; any other word is an unknown command.  Without arguments echo
\* has nothing to write.
Program == {"cat", "wc", "echo"}

run_exec(q) ==
  /\ Running(q, "EXEC")
  /\ LET argv == proc[q].cmd.argv
     IN  proc' = [proc EXCEPT ![q].pc = IF argv \in {<<>>, <<"echo">>} \/ Head(argv) \notin Program
                                        THEN "break" ELSE Head(argv)]
  /\ UNCHANGED <<line, tree, pipe, failed>>

\* The file can be opened, or not.
run_redir(q) ==
  /\ Running(q, "REDIR")
  /\ LET c == proc[q].cmd
         opened == [Runs(q, c.cmd) EXCEPT !.fds = open(close(@, c.fd), PlainFile)]
     IN  \E to \in {opened, Goes(q, "break")} : proc' = [proc EXCEPT ![q] = to]
  /\ UNCHANGED <<line, tree, pipe, failed>>

run_list(q) ==
  /\ Running(q, "LIST")
  /\ fork1(q, Goes(q, "list_wait"), Runs(q, proc[q].cmd.left)) /\ UNCHANGED pipe

list_wait(q) == At(q, "list_wait") /\ reap(q, Runs(q, proc[q].cmd.right))

run_back(q) ==
  /\ Running(q, "BACK")
  /\ fork1(q, Goes(q, "break"), [Runs(q, proc[q].cmd.cmd) EXCEPT !.back = TRUE])
  /\ UNCHANGED pipe

\* pipe() and the first fork1()
run_pipe(q) ==
  /\ Running(q, "PIPE")
  /\ LET k == Min({i \in PipeId : Ends(ReadEnd(i)) \union Ends(WriteEnd(i)) = {}})
         f == proc[q].fds
         p == <<Lowest(f), Lowest(open(f, ReadEnd(k)))>>
         piped == [proc[q] EXCEPT !.fds = open(open(f, ReadEnd(k)), WriteEnd(k)), !.p = p]
     IN  /\ pipe' = [pipe EXCEPT ![k] = 0]
         /\ fork1(q, [piped EXCEPT !.pc = "pipe_right"], [piped EXCEPT !.pc = "left"])

\* What becomes of descriptor n and of p in a child
plumbed(q, n, i) ==
  LET p == proc[q].p
      f == dup(close(proc[q].fds, n), p[i])
  IN  close(close(f, p[1]), p[2])

left(q) ==
  /\ At(q, "left")
  /\ proc' = [proc EXCEPT ![q] = [Runs(q, proc[q].cmd.left) EXCEPT !.fds = plumbed(q, 1, 2)]]
  /\ UNCHANGED <<line, tree, pipe, failed>>

pipe_right(q) ==
  At(q, "pipe_right") /\ fork1(q, Goes(q, "pipe_close"), Goes(q, "right")) /\ UNCHANGED pipe

right(q) ==
  /\ At(q, "right")
  /\ proc' = [proc EXCEPT ![q] = [Runs(q, proc[q].cmd.right) EXCEPT !.fds = plumbed(q, 0, 1)]]
  /\ UNCHANGED <<line, tree, pipe, failed>>

\* Mutant: the shell keeps its write end.
pipe_close_Keeps(q) ==
  /\ At(q, "pipe_close")
  /\ proc' = [proc EXCEPT ![q] = [Goes(q, "pipe_wait") EXCEPT !.fds = close(@, proc[q].p[1])]]
  /\ UNCHANGED <<line, tree, pipe, failed>>

pipe_close(q) ==
  /\ At(q, "pipe_close")
  /\ proc' = [proc EXCEPT ![q] = [Goes(q, "pipe_wait") EXCEPT
                                    !.fds = close(close(@, proc[q].p[1]), proc[q].p[2])]]
  /\ UNCHANGED <<line, tree, pipe, failed>>

\* Mutant: one wait() for both.
pipe_wait_Once(q) == At(q, "pipe_wait") /\ reap(q, Goes(q, "break"))

\* The two wait()s
pipe_wait(q) ==
  \/ At(q, "pipe_wait") /\ reap(q, Goes(q, "pipe_wait2"))
  \/ At(q, "pipe_wait2") /\ reap(q, Goes(q, "break"))

-----------------------------------------------------------------------------
(* The programs: cat without arguments copies 0 to 1 and adds a newline,   *)
(* wc reads all of 0 and writes its counts, echo only writes.  After a     *)
(* read() of data a program is at data, and at "echo" after one of none.   *)

read_pipe(q, pc, data) ==
  LET x == proc[q].fds[0]
  IN  /\ At(q, pc) /\ x.kind = "read"
      /\ \/ /\ pipe[x.id] > 0
            /\ pipe' = [pipe EXCEPT ![x.id] = @ - 1]
            /\ proc' = [proc EXCEPT ![q].pc = data]
         \/ /\ pipe[x.id] = 0 /\ Ends(WriteEnd(x.id)) = {}
            /\ proc' = [proc EXCEPT ![q].pc = "echo"]
            /\ UNCHANGED pipe
      /\ UNCHANGED <<line, tree, failed>>

\* From a file or the console data comes, or its end.
read_other(q, pc, data) ==
  /\ At(q, pc) /\ proc[q].fds[0].kind # "read"
  /\ \/ /\ proc[q].got < MaxInput
        /\ proc' = [proc EXCEPT ![q].pc = data, ![q].got = @ + 1]
     \/ proc' = [proc EXCEPT ![q].pc = "echo"]
  /\ UNCHANGED <<line, tree, pipe, failed>>

\* A write to a pipe with room succeeds, readers or not; one to a full pipe
\* waits, and fails when the last reader is gone, which ends cat.
write(q, pc, next) ==
  LET x == proc[q].fds[1]
      piped == x.kind = "write"
      full == piped /\ pipe[x.id] = PIPESIZE
  IN  /\ At(q, pc)
      /\ full => Ends(ReadEnd(x.id)) = {}
      /\ pipe' = IF piped /\ ~full THEN [pipe EXCEPT ![x.id] = @ + 1] ELSE pipe
      /\ proc' = [proc EXCEPT ![q].pc = IF full THEN "break" ELSE next]
      /\ UNCHANGED <<line, tree, failed>>

read(q, pc, data) == read_pipe(q, pc, data) \/ read_other(q, pc, data)

cat(q) == read(q, "cat", "cat_write") \/ write(q, "cat_write", "cat")
wc(q) == read(q, "wc", "wc")
echo(q) == write(q, "echo", "break")

RunStep(q) ==
  \/ exit(q) \/ init_wait(q) \/ parse(q) \/ run_exec(q) \/ run_redir(q) \/ run_back(q)
  \/ run_list(q) \/ list_wait(q)
  \/ run_pipe(q) \/ left(q) \/ pipe_right(q) \/ right(q) \/ pipe_close(q) \/ pipe_wait(q)
  \/ cat(q) \/ wc(q) \/ echo(q)
  \/ q = sh /\ (main_fork \/ main_wait)

RunNext == \E q \in Pid : RunStep(q)

-----------------------------------------------------------------------------

\* The parser accepts the lines of the grammar and no others, and builds the
\* one tree the grammar gives such a line: "&" binds a pipeline, ";" and "|"
\* group to the right, a redirection belongs to the command it stands in, and
\* a command has fewer than MAXARGS words.
ParsesGrammar ==
  At(sh, "getcmd") => Line(line) = IF tree.ok THEN {tree.cmd} ELSE {}

\* The prompt comes back only after the programs of the foreground have ended:
\* the wait()s of main() and runcmd() count the right children, whatever ran in
\* the background or failed.  (A fork1() that fails makes a shell leave a
\* pipeline or a list half started.)
Foreground ==
  At(sh, "log_command") /\ ~failed =>
    \A q \in Pid \ {sh} : proc[q].state = "live" => proc[q].back

\* A command line ends: every process it started exits, because each reader of
\* a pipe gets its end of file once the last writer is gone, and no writer is
\* left asleep at a full pipe once the last reader is; and the shell is back
\* for the next line, unless it could not fork.
LineEnds ==
  (proc[sh].pc = "main_wait") ~>
    (At(sh, "log_command") /\ \A q \in Pid \ {sh} : proc[q].state = "free")
=============================================================================
