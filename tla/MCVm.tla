-------------------------------- MODULE MCVm --------------------------------
(***************************************************************************)
(* Two CPUs and three processes, so that one with a heap can fork.         *)
(***************************************************************************)
EXTENDS Vm

MCChange == {3, -2, -9}
Symmetry == Permutations(CPU)
=============================================================================
