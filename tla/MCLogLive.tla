----------------------------- MODULE MCLogLive -----------------------------
(***************************************************************************)
(* The log under crashes and under fair scheduling.                        *)
(*                                                                         *)
(* Between a boot and the next crash the threads make at most MaxCalls     *)
(* file-system calls.  Without the bound begin_op() promises nothing: new  *)
(* operations may keep outstanding above 0 and the log too full for a      *)
(* sleeper for ever.                                                       *)
(***************************************************************************)
EXTENDS Log

CONSTANT MaxCalls
ASSUME MaxCallsAssumption == MaxCalls \in Nat \ {0}

VARIABLE calls    \* file-system calls started since the boot

liveVars == <<vars, calls>>

Starts(p) ==
  /\ begin_op(p)
  /\ IF pc[p] = "user"
     THEN calls < MaxCalls /\ calls' = calls + 1
     ELSE UNCHANGED calls

Works(p) ==
  /\ \/ \E b \in Block, v \in Val : modify(p, b, v)
     \/ \E b \in Block : log_write(p, b)
     \/ CommitStep(p)
  /\ UNCHANGED calls

Ends(p) == end_op(p) /\ UNCHANGED calls

Boots == (read_head \/ recover_install \/ recover_done) /\ UNCHANGED calls

Crashes == crash /\ calls' = 0

LiveInit == Init /\ calls = 0
LiveNext == Boots \/ Crashes \/ \E p \in Proc : Starts(p) \/ Works(p) \/ Ends(p)

\* The scheduler runs every runnable process, and the disk answers.  An
\* operation may log its blocks again and again, but not for ever: it ends
\* (strong fairness of end_op(), which is not possible inside log_write()).
LiveSpec ==
  /\ LiveInit /\ [][LiveNext]_liveVars
  /\ WF_liveVars(Boots)
  /\ \A p \in Proc : /\ WF_liveVars(Starts(p) /\ pc[p] = "begin_op")
                     /\ WF_liveVars(Works(p)) /\ SF_liveVars(Ends(p))

\* A thread that has entered begin_op() gets its turn, works, and returns from
\* end_op(), the commit included, unless the machine crashes: the sleep loop of
\* begin_op() and the two wakeup(&log) calls of end_op() leave nobody behind.
CallsReturn == \A p \in Proc : pc[p] # "user" ~> pc[p] = "user"
============================================================================
