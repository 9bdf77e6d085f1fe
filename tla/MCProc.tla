------------------------------ MODULE MCProc ------------------------------
(* The process table on small instances. *)
EXTENDS Proc, TLC

Symmetry == Permutations(CPU)
===========================================================================
