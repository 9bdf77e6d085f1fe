------------------------------ MODULE LineEdit ------------------------------
(***************************************************************************)
(* What the console promises: a line editor of bounded size in front of a  *)
(* FIFO.  Text before and after the cursor belongs to the person typing;   *)
(* ready belongs to the reader, who sees its bytes once and in order.      *)
(***************************************************************************)
EXTENDS Naturals, SequencesExt

CONSTANTS
  Size,       \* bytes the editor and the FIFO hold together
  Char,       \* bytes that are text
  Control     \* bytes that hand over what was typed

VARIABLES before, after, ready

vars == <<before, after, ready>>

held == Len(ready) + Len(before) + Len(after)

Init == before = <<>> /\ after = <<>> /\ ready = <<>>

GoLeft ==
  /\ before # <<>>
  /\ before' = Front(before) /\ after' = <<Last(before)>> \o after
  /\ UNCHANGED ready

GoRight ==
  /\ after # <<>>
  /\ before' = Append(before, Head(after)) /\ after' = Tail(after)
  /\ UNCHANGED ready

\* The byte that fills the buffer takes the line with it to the reader.
Insert(c) ==
  /\ held < Size
  /\ IF held + 1 < Size
     THEN before' = Append(before, c) /\ UNCHANGED <<after, ready>>
     ELSE ready' = ready \o Append(before, c) \o after /\ before' = <<>> /\ after' = <<>>

Erase ==
  /\ before # <<>>
  /\ before' = Front(before)
  /\ UNCHANGED <<after, ready>>

\* A new text instead of the line: nothing, a command of the history, a draft.
Replace(s) ==
  /\ s # <<>> => Len(ready) + Len(s) < Size
  /\ before' = s /\ after' = <<>>
  /\ UNCHANGED ready

Submit(c) ==
  /\ held < Size
  /\ ready' = ready \o before \o after \o <<c>>
  /\ before' = <<>> /\ after' = <<>>

\* The line is given up, and the reader is told by c.
Ask(c) ==
  /\ Len(ready) < Size
  /\ ready' = Append(ready, c)
  /\ before' = <<>> /\ after' = <<>>

Take ==
  /\ ready # <<>>
  /\ ready' = Tail(ready)
  /\ UNCHANGED <<before, after>>

Next ==
  \/ GoLeft \/ GoRight \/ Erase \/ Take
  \/ \E c \in Char : Insert(c)
  \/ \E c \in Control : Submit(c) \/ Ask(c)
  \/ \E s \in UNION {[1..n -> Char] : n \in 0..(Size - 1)} : Replace(s)

Spec == Init /\ [][Next]_vars
=============================================================================
