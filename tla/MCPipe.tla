------------------------------- MODULE MCPipe -------------------------------
(* Pipe for TLC: writes shorter and longer than the pipe. *)
EXTENDS Pipe, TLC

CONSTANTS x, y
ShortAndLong == {<<x>>, <<y, x, x>>}
Symmetry == Permutations(Proc)
=============================================================================
