----------------------------- MODULE MCBufCache -----------------------------
(* BufCache for TLC: n1 is a block of the log, n2 a home block. *)
EXTENDS BufCache, TLC

CONSTANTS n1, n2, n3, n4
LogThenHome == {<<n1, n2>>}
Symmetry == Permutations(Thread) \union Permutations(Val) \union Permutations({n3, n4})
=============================================================================
