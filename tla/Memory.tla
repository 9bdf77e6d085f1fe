------------------------------- MODULE Memory -------------------------------
(***************************************************************************)
(* What virtual memory promises: each process has pages of its own.        *)
(* image[p] is what p finds at its pages; no pages, no process.            *)
(***************************************************************************)
EXTENDS Naturals, FiniteSets, Functions

CONSTANTS
  Proc, Page, Val,
  Zero,       \* contents of a fresh page
  Program     \* the images exec() may start

VARIABLE image

Nothing == [v \in {} |-> Zero]

Init == \E p \in Proc, f \in Program :
  image = [q \in Proc |-> IF q = p THEN f ELSE Nothing]

(***************************************************************************)
(* What may become of one process: its image f before, g after.            *)
(***************************************************************************)
Store(f, g) == \E v \in DOMAIN f, x \in Val : g = [f EXCEPT ![v] = x]

Fork(f, g) == f = Nothing /\ \E p \in Proc : g = image[p]

Exec(g) == g \in Program

\* Pages a to b come, zeroed.
Grow(f, g) == \E a, b \in Page :
  /\ (a..b) \intersect DOMAIN f = {}
  /\ g = [v \in DOMAIN f \union (a..b) |-> IF v \in a..b THEN Zero ELSE f[v]]

\* The pages from a on go.
Shrink(f, g) == \E a \in Page : g = Restrict(f, {v \in DOMAIN f : v < a})

\* The process has been waited for.
Reap(g) == g = Nothing

\* (Most steps of a system change no image: that comes first.)
Next == UNCHANGED image \/ \E p \in Proc : \E f \in {image[p]}, g \in {image'[p]} :
  /\ image' = [image EXCEPT ![p] = g]
  /\ Store(f, g) \/ Fork(f, g) \/ Exec(g) \/ Grow(f, g) \/ Shrink(f, g) \/ Reap(g)

Spec == Init /\ [][Next]_image
=============================================================================
