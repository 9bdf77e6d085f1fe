------------------------------- MODULE MCLog -------------------------------
(* The log on small instances. *)
EXTENDS Log, TLC

Symmetry == Permutations(Proc) \union Permutations(Block)
============================================================================
