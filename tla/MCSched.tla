------------------------------ MODULE MCSched ------------------------------
(***************************************************************************)
(* Sched for TLC.  CPUs run the same code; threads are told apart by their *)
(* place in the table.                                                     *)
(***************************************************************************)
EXTENDS Sched, TLC

Symmetry == Permutations(CPU)
============================================================================
