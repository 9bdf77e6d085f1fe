----------------------------- MODULE BlockStore -----------------------------
(***************************************************************************)
(* What the buffer cache promises its callers: "only one process at a time *)
(* can use a buffer", and a block that is read back has the contents it    *)
(* was last given, however few buffers there are.                          *)
(***************************************************************************)
CONSTANTS Thread, Block, Val

VARIABLES
  holder,     \* per block: the threads (one at most) between bread and brelse
  content     \* what the holder of the block finds in it

vars == <<holder, content>>

Init ==
  /\ holder = [b \in Block |-> {}]
  /\ content \in [Block -> Val]

Bread(t, b) ==
  /\ holder[b] = {}
  /\ holder' = [holder EXCEPT ![b] = {t}]
  /\ UNCHANGED content

Write(t, b, v) ==
  /\ holder[b] = {t}
  /\ content' = [content EXCEPT ![b] = v]
  /\ UNCHANGED holder

Brelse(t, b) ==
  /\ holder[b] = {t}
  /\ holder' = [holder EXCEPT ![b] = {}]
  /\ UNCHANGED content

Next == \E t \in Thread, b \in Block :
          Bread(t, b) \/ Brelse(t, b) \/ \E v \in Val : Write(t, b, v)

Spec == Init /\ [][Next]_vars
=============================================================================
