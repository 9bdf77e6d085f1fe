-------------------------------- MODULE Grep --------------------------------
(***************************************************************************)
(* grep.c: the loop that cuts what read() returns into lines, and the      *)
(* matcher, against what a pattern means.                                  *)
(***************************************************************************)
EXTENDS Naturals, SequencesExt, FiniteSetsExt

CONSTANTS BUFSIZE    \* sizeof(buf)

VARIABLES
  pattern,
  input,       \* what is still to be read from fd
  buf,         \* the bytes 0..m - 1 of buf
  output,      \* the lines written, in order
  seen,        \* what has been read, and
  cut          \* whether a read() has left the buffer without a newline

grepVars == <<pattern, input, buf, output, seen, cut>>

GrepInit(patterns, inputs) ==
  /\ pattern \in patterns /\ input \in inputs
  /\ buf = <<>> /\ output = <<>> /\ seen = <<>> /\ cut = FALSE

-----------------------------------------------------------------------------
(* The matcher                                                             *)

RECURSIVE matchhere(_, _), matchstar(_, _, _)

matchhere(re, text) ==
  IF re = <<>> THEN TRUE
  ELSE IF Len(re) > 1 /\ re[2] = "*" THEN matchstar(re[1], Tail(Tail(re)), text)
  ELSE IF re = <<"$">> THEN text = <<>>
  ELSE text # <<>> /\ re[1] \in {".", text[1]} /\ matchhere(Tail(re), Tail(text))

matchstar(c, re, text) ==
  \/ matchhere(re, text)
  \/ text # <<>> /\ c \in {".", text[1]} /\ matchstar(c, re, Tail(text))

\* Mutant: the empty rest of the text is not tried.
match_NotEmpty(re, text) ==
  IF re # <<>> /\ re[1] = "^" THEN matchhere(Tail(re), text)
  ELSE \E i \in 1..Len(text) : matchhere(re, SubSeq(text, i, Len(text)))

match(re, text) ==
  IF re # <<>> /\ re[1] = "^" THEN matchhere(Tail(re), text)
  ELSE \E i \in 1..(Len(text) + 1) : matchhere(re, SubSeq(text, i, Len(text)))

-----------------------------------------------------------------------------
(* grep()                                                                  *)

\* The lines that s has with their newlines, and what follows the last newline
Newlines(s) == {i \in DOMAIN s : s[i] = "\n"}
Ended(s) ==
  LET at == <<0>> \o SetToSortSeq(Newlines(s), <)
  IN  [k \in 1..(Len(at) - 1) |-> SubSeq(s, at[k] + 1, at[k + 1] - 1)]
Rest(s) == SubSeq(s, Max(Newlines(s) \union {0}) + 1, Len(s))

\* One turn of grep()'s loop.  read() returns what is there, up to the room.  A
\* buffer without a newline is dropped.
grep == \E n \in 1..(BUFSIZE - Len(buf) - 1) :
  LET b == buf \o SubSeq(input, 1, n)
  IN  /\ n <= Len(input)
      /\ input' = SubSeq(input, n + 1, Len(input))
      /\ output' = output \o SelectSeq(Ended(b), LAMBDA text : match(pattern, text))
      /\ buf' = IF Newlines(b) = {} THEN <<>> ELSE Rest(b)
      /\ seen' = seen \o SubSeq(input, 1, n)
      /\ cut' = (cut \/ Newlines(b) = {})
      /\ UNCHANGED pattern

GrepNext == grep

-----------------------------------------------------------------------------
(***************************************************************************)
(* What a pattern means.  A pattern is a sequence of items, each a char or *)
(* "." with or without "*", with "^" before and "$" behind; a text matches *)
(* if it can be cut so that each item matches its piece, between any       *)
(* pieces in front and behind that are not anchored.                       *)
(***************************************************************************)
RECURSIVE Items(_)
Items(re) ==
  IF re = <<>> THEN <<>>
  ELSE IF Len(re) > 1 /\ re[2] = "*"
  THEN <<[c |-> re[1], star |-> TRUE]>> \o Items(Tail(Tail(re)))
  ELSE <<[c |-> re[1], star |-> FALSE]>> \o Items(Tail(re))

Matches(re, text) ==
  LET front == re # <<>> /\ re[1] = "^"
      all == Items(IF front THEN Tail(re) ELSE re)
      back == all # <<>> /\ Last(all) = [c |-> "$", star |-> FALSE]
      items == IF back THEN Front(all) ELSE all
      n == Len(items)
      Piece(i, from, to) ==
        /\ ~items[i].star => to = from + 1
        /\ \A k \in (from + 1)..to : items[i].c \in {".", text[k]}
  IN  \E cuts \in [0..n -> 0..Len(text)] :
        /\ front => cuts[0] = 0
        /\ back => cuts[n] = Len(text)
        /\ \A i \in 1..n : cuts[i - 1] <= cuts[i] /\ Piece(i, cuts[i - 1], cuts[i])

\* grep writes the lines that match, in order, each once and no other, however
\* read() cuts the input, up to the first read() that leaves the buffer without
\* a newline.  (There grep() loses the start of a line.)
GrepFinds == ~cut => output = SelectSeq(Ended(seen), LAMBDA text : Matches(pattern, text))
=============================================================================
