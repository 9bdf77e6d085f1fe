------------------------------- MODULE Stream -------------------------------
(***************************************************************************)
(* What pipes promise: bounded queues of bytes.  A writer's bytes enter in *)
(* the order written, each once, as many as fit; readers take them from    *)
(* the front; a new pipe is empty.                                         *)
(***************************************************************************)
EXTENDS Naturals, Sequences

CONSTANTS Writer, Channel, Capacity, Writes

VARIABLES
  queue,    \* per channel: the bytes in it
  todo      \* per writer: the bytes of its write that are not in the channel yet

Init == queue = [g \in Channel |-> <<>>] /\ todo = [p \in Writer |-> <<>>]

\* p, having s to write, puts k bytes and keeps the rest or gives up.
Put(p, g, s, k) ==
  /\ k <= Len(s) /\ Len(queue[g]) + k <= Capacity
  /\ queue' = [queue EXCEPT ![g] = @ \o SubSeq(s, 1, k)]
  /\ \E rest \in {<<>>, SubSeq(s, k + 1, Len(s))} : todo' = [todo EXCEPT ![p] = rest]

Write(p, g) ==
  \E s \in IF todo[p] = <<>> THEN Writes ELSE {todo[p]} : \E k \in 0..Capacity : Put(p, g, s, k)

Read(g) ==
  \E k \in 1..Len(queue[g]) :
    queue' = [queue EXCEPT ![g] = SubSeq(@, k + 1, Len(@))] /\ UNCHANGED todo

New(g) == queue' = [queue EXCEPT ![g] = <<>>] /\ UNCHANGED todo

Next == \E g \in Channel : New(g) \/ Read(g) \/ \E p \in Writer : Write(p, g)

Spec == Init /\ [][Next]_<<queue, todo>>
=============================================================================
