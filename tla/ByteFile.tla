------------------------------ MODULE ByteFile ------------------------------
(***************************************************************************)
(* What reading, writing and seeking promise: a file is a sequence of      *)
(* bytes, and an open file a place in one.  A write may be carried out in  *)
(* parts.  At first there is only the making of the disk, which leaves in  *)
(* the files what it was given.                                            *)
(***************************************************************************)
EXTENDS Naturals, Sequences, FiniteSetsExt

CONSTANTS File, Written, Amount, MaxSize, NotOpen

VARIABLES
  ready,    \* whether the disk is made
  given,    \* per file name: what the disk was made with
  bytes,    \* per file name: the contents
  ip,       \* per open file: its name, or NotOpen
  off,      \* per open file: its place
  todo,     \* per open file: what a write has still to write
  got       \* what the last call returned, if it was a read

Over(b, o, s) ==
  [k \in 1..Max({Len(b), o + Len(s)}) |-> IF k \in (o + 1)..(o + Len(s)) THEN s[k - o] ELSE b[k]]

Init ==
  /\ ready = FALSE
  /\ bytes = given
  /\ ip = [f \in File |-> NotOpen]
  /\ off = [f \in File |-> 0]
  /\ todo = [f \in File |-> <<>>]
  /\ got = <<>>

Idle(f) == ip[f] # NotOpen /\ todo[f] = <<>>

Open(f, i) ==
  /\ todo[f] = <<>> /\ off' = [off EXCEPT ![f] = 0]
  /\ ip' = [ip EXCEPT ![f] = i]
  /\ UNCHANGED <<todo, bytes>>

Write(f, s) == todo' = [todo EXCEPT ![f] = s] /\ Idle(f) /\ UNCHANGED <<off, ip, bytes>>

\* The next n bytes of the write
Part(f, n) ==
  /\ n <= Len(todo[f]) /\ off[f] + n <= MaxSize
  /\ off' = [off EXCEPT ![f] = @ + n]
  /\ todo' = [todo EXCEPT ![f] = SubSeq(@, n + 1, Len(@))]
  /\ bytes' = [bytes EXCEPT ![ip[f]] = Over(@, off[f], SubSeq(todo[f], 1, n))]
  /\ UNCHANGED ip

\* The write would make the file too large.
Refused(f) ==
  /\ todo[f] # <<>> /\ off[f] + Len(todo[f]) > MaxSize
  /\ todo' = [todo EXCEPT ![f] = <<>>]
  /\ UNCHANGED <<off, ip, bytes>>

\* The bytes from off on, fewer at the end
Read(f, n) ==
  LET end == Min({off[f] + n, Len(bytes[ip[f]])})
  IN  /\ Idle(f)
      /\ got' = SubSeq(bytes[ip[f]], off[f] + 1, end)
      /\ off' = [off EXCEPT ![f] = end]
      /\ UNCHANGED <<bytes, ip, todo>>

Seek(f) ==
  /\ UNCHANGED <<todo, ip>> /\ Idle(f)
  /\ \E o \in 0..Len(bytes[ip[f]]) : off' = [off EXCEPT ![f] = o]
  /\ UNCHANGED bytes

Remove(i) ==
  /\ UNCHANGED <<off, todo, ip>>
  /\ \A f \in File : ip[f] # i
  /\ bytes' = [bytes EXCEPT ![i] = <<>>]

Step ==
  \/ UNCHANGED <<off, todo, ip, bytes>>
  \/ \E f \in File : \/ \E s \in Written : Write(f, s)
                     \/ \E n \in DOMAIN todo[f] : Part(f, n)
                     \/ Refused(f) \/ Seek(f)
                     \/ \E i \in DOMAIN given \union {NotOpen} : Open(f, i)
  \/ \E i \in DOMAIN given : Remove(i)

Made == ~ready /\ ready' /\ UNCHANGED <<off, todo, ip, bytes, got>>

Next ==
  /\ \/ Made
     \/ ready /\ ready' /\ got' = <<>> /\ Step
     \/ ready /\ ready' /\ \E f \in File, n \in Amount : Read(f, n)
  /\ UNCHANGED given

Spec == Init /\ [][Next]_<<ready, given, bytes, ip, off, todo, got>>
=============================================================================
