---------------------------- MODULE MCProcLive ----------------------------
(***************************************************************************)
(* Progress of processes.  Fairness: every CPU keeps running scheduler();  *)
(* the timer keeps interrupting user programs and keeps calling            *)
(* wakeup(&ticks); a thread in the kernel, which nothing preempts, gets on *)
(* with its code; the files that exit() closes are closed at last; init    *)
(* keeps calling wait(), and what else it sleeps for comes true.           *)
(***************************************************************************)
EXTENDS Proc

KernelStep(p) ==
  \/ fork(p) \/ trap_return(p)
  \/ pc[p] = "wait" /\ wait(p)
  \/ pc[p] = "awake" /\ test_killed(p)
  \/ pc[p] = "sleep" /\ \E ch \in Chan : sleep(p, ch)

LiveSpec ==
  /\ Spec
  /\ \A c \in CPU : WF_vars(scheduler(c))
  /\ \A p \in Slot : WF_vars(yield(p)) /\ WF_vars(KernelStep(p)) /\ SF_vars(exit(p))
  /\ \A ch \in Chan : WF_vars(wakeup(ch))
  /\ SF_vars(wait(initproc)) /\ SF_vars(leave_loop(initproc))

\* The pass of scheduler() over the table starves nobody: a runnable process
\* gets a CPU.
RunnableRuns == \A p \in Slot : state[p] = "RUNNABLE" ~> state[p] = "RUNNING"

\* A killed process exits, wherever the kill caught it: in user space, in the
\* middle of fork(), asleep in wait() or, if its channel is woken now and then
\* as &ticks is, about to sleep.
KilledExits ==
  \A p \in Slot : killed[p] /\ state[p] \in Live ~> state[p] \in {"ZOMBIE", "UNUSED"}

\* A dead process whose parent died before it, or never waited for it and died,
\* is reaped by init.
OrphansReaped ==
  \A p \in Slot : state[p] = "ZOMBIE" /\ parent[p] = initproc ~> state[p] = "UNUSED"
===========================================================================
