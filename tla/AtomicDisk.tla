---------------------------- MODULE AtomicDisk ----------------------------
(***************************************************************************)
(* What the logging layer promises the file system: a disk whose contents  *)
(* change only by whole groups of finished operations.                     *)
(*                                                                         *)
(*   stable   what the file system finds after a crash                     *)
(*   current  what the running operations read and write                   *)
(*   active   the operations between begin_op() and end_op()               *)
(*                                                                         *)
(* An operation is never half-way into "stable": Commit publishes          *)
(* "current" only when no operation is active, and Crash falls back to the *)
(* last published contents.                                                *)
(***************************************************************************)
CONSTANTS Proc, Block, Val

VARIABLES stable, current, active

vars == <<stable, current, active>>

Init ==
  /\ stable \in [Block -> Val]
  /\ current = stable
  /\ active = {}

Begin(p) ==
  /\ p \notin active
  /\ active' = active \union {p}
  /\ UNCHANGED <<stable, current>>

Write(p, b, v) ==
  /\ p \in active
  /\ current' = [current EXCEPT ![b] = v]
  /\ UNCHANGED <<stable, active>>

End(p) ==
  /\ p \in active
  /\ active' = active \ {p}
  /\ UNCHANGED <<stable, current>>

Commit ==
  /\ active = {}
  /\ stable' = current
  /\ UNCHANGED <<current, active>>

Crash ==
  /\ current' = stable
  /\ active' = {}
  /\ UNCHANGED stable

Next ==
  \/ \E p \in Proc : Begin(p) \/ End(p)
  \/ \E p \in Proc, b \in Block, v \in Val : Write(p, b, v)
  \/ Commit
  \/ Crash

Spec == Init /\ [][Next]_vars
===========================================================================
