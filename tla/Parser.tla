------------------------------- MODULE Parser -------------------------------
(***************************************************************************)
(* The shell's parser: gettoken() to nulterminate() of sh.c.               *)
(*                                                                         *)
(* A line is the sequence of tokens that gettoken() cuts it into; a word   *)
(* (token 'a') stands for itself.  A parsing function takes the tokens     *)
(* that are left and returns its command with the tokens it leaves, or     *)
(* Error after a panic(), which ends the process that parses.              *)
(***************************************************************************)
EXTENDS Naturals, SequencesExt

CONSTANTS
  Words,       \* words on command lines
  MAXARGS      \* size of argv in struct execcmd

Symbols == {"<", ">", ">>", "|", "&", ";", "(", ")"}

-----------------------------------------------------------------------------
(* Constructors.  An execcmd starts without arguments, and parseexec()     *)
(* adds them after the redirections around it are made: a command with     *)
(* its redirections is built when both are known.                          *)

execcmd(argv) == [type |-> "EXEC", argv |-> argv]
redircmd(cmd, file, fd) == [type |-> "REDIR", cmd |-> cmd, file |-> file, fd |-> fd]
pipecmd(left, right) == [type |-> "PIPE", left |-> left, right |-> right]
listcmd(left, right) == [type |-> "LIST", left |-> left, right |-> right]
backcmd(cmd) == [type |-> "BACK", cmd |-> cmd]

Redirected(cmd, redirs) == FoldLeft(LAMBDA c, r : redircmd(c, r.file, r.fd), cmd, redirs)

-----------------------------------------------------------------------------

Error == [ok |-> FALSE]
Parsed(cmd, rest) == [ok |-> TRUE, cmd |-> cmd, rest |-> rest]

peek(s, toks) == s # <<>> /\ Head(s) \in toks

\* The redirections at the front of s, added to redirs.
RECURSIVE parseredirs(_, _)
parseredirs(redirs, s) ==
  IF ~peek(s, {"<", ">", ">>"}) THEN [ok |-> TRUE, redirs |-> redirs, rest |-> s]
  ELSE IF ~peek(Tail(s), Words) THEN Error
  ELSE parseredirs(Append(redirs, [file |-> s[2], fd |-> IF s[1] = "<" THEN 0 ELSE 1]),
                   SubSeq(s, 3, Len(s)))

\* The loop of parseexec(): r is what parseredirs() returned.
RECURSIVE parseargs(_, _)
parseargs(argv, r) ==
  IF ~r.ok THEN Error
  ELSE IF r.rest = <<>> \/ peek(r.rest, {"|", ")", "&", ";"})
  THEN Parsed(Redirected(execcmd(argv), r.redirs), r.rest)
  ELSE IF ~peek(r.rest, Words) \/ Len(argv) + 1 >= MAXARGS THEN Error
  ELSE parseargs(Append(argv, Head(r.rest)), parseredirs(r.redirs, Tail(r.rest)))

RECURSIVE backgrounded(_, _)
backgrounded(cmd, s) ==
  IF peek(s, {"&"}) THEN backgrounded(backcmd(cmd), Tail(s)) ELSE Parsed(cmd, s)

RECURSIVE parseline(_), parsepipe(_)

parseblock(s) ==
  LET line == parseline(Tail(s))
  IN  IF ~line.ok \/ ~peek(line.rest, {")"}) THEN Error
      ELSE LET r == parseredirs(<<>>, Tail(line.rest))
           IN  IF r.ok THEN Parsed(Redirected(line.cmd, r.redirs), r.rest) ELSE Error

parseexec(s) == IF peek(s, {"("}) THEN parseblock(s) ELSE parseargs(<<>>, parseredirs(<<>>, s))

\* Mutant: a pipeline groups to the left of a second "|" only.
parsepipe_NotAgain(s) ==
  LET left == parseexec(s)
  IN  IF ~left.ok \/ ~peek(left.rest, {"|"}) THEN left
      ELSE LET right == parseexec(Tail(left.rest))
           IN  IF right.ok THEN Parsed(pipecmd(left.cmd, right.cmd), right.rest) ELSE Error

parsepipe(s) ==
  LET left == parseexec(s)
  IN  IF ~left.ok \/ ~peek(left.rest, {"|"}) THEN left
      ELSE LET right == parsepipe(Tail(left.rest))
           IN  IF right.ok THEN Parsed(pipecmd(left.cmd, right.cmd), right.rest) ELSE Error

parseline(s) ==
  LET first == parsepipe(s)
  IN  IF ~first.ok THEN Error
      ELSE LET left == backgrounded(first.cmd, first.rest)
           IN  IF ~peek(left.rest, {";"}) THEN left
               ELSE LET right == parseline(Tail(left.rest))
                    IN  IF right.ok THEN Parsed(listcmd(left.cmd, right.cmd), right.rest)
                        ELSE Error

\* nulterminate() ends the words in place, which the tokens have ended already.
parsecmd(s) ==
  LET line == parseline(s)
  IN  IF line.ok /\ line.rest = <<>> THEN line ELSE Error

-----------------------------------------------------------------------------
(***************************************************************************)
(* The grammar, by the ways a whole line can be divided:                   *)
(*    line  =  pipe "&"*  |  pipe "&"* ";" line                            *)
(*    pipe  =  exec  |  exec "|" pipe                                      *)
(*    exec  =  "(" line ")" redir*  |  (word | redir)*                     *)
(*    redir =  ("<" | ">" | ">>") word                                     *)
(* Each operator is the set of trees of a sequence.                        *)
(***************************************************************************)
Before(s, i) == SubSeq(s, 1, i - 1)
After(s, i) == SubSeq(s, i + 1, Len(s))
Places(s, tok) == {i \in DOMAIN s : s[i] = tok}

Redirs == {"<", ">", ">>"}

\* Positions of the operators, of the files that follow them, of arguments
Ops(s) == {i \in DOMAIN s : s[i] \in Redirs}
Args(s) == {i \in DOMAIN s : s[i] \in Words /\ i - 1 \notin Ops(s)}

RedirsOf(s) ==
  LET at == SetToSortSeq(Ops(s), <)
  IN  [k \in DOMAIN at |-> [file |-> s[at[k] + 1], fd |-> IF s[at[k]] = "<" THEN 0 ELSE 1]]
ArgsOf(s) == LET at == SetToSortSeq(Args(s), <) IN [k \in DOMAIN at |-> s[at[k]]]

IsSimple(s) ==
  /\ \A i \in DOMAIN s : s[i] \in Words \union Redirs
  /\ \A i \in Ops(s) : i < Len(s) /\ s[i + 1] \in Words

Simple(s) ==
  IF IsSimple(s) /\ Len(ArgsOf(s)) < MAXARGS
  THEN {Redirected(execcmd(ArgsOf(s)), RedirsOf(s))} ELSE {}

RECURSIVE Line(_), Pipe(_)

Block(s) ==
  IF s = <<>> \/ s[1] # "(" THEN {}
  ELSE UNION {{Redirected(c, RedirsOf(After(s, i))) : c \in Line(SubSeq(s, 2, i - 1))} :
              i \in {j \in Places(s, ")") : IsSimple(After(s, j)) /\ Args(After(s, j)) = {}}}

Exec(s) == Simple(s) \union Block(s)

Pipe(s) ==
  Exec(s) \union
  UNION {{pipecmd(l, r) : l \in Exec(Before(s, i)), r \in Pipe(After(s, i))} : i \in Places(s, "|")}

\* A pipe and the "&"s behind it
RECURSIVE Back(_)
Back(s) == Pipe(s) \union (IF s # <<>> /\ Last(s) = "&" THEN {backcmd(c) : c \in Back(Front(s))} ELSE {})

Line(s) ==
  Back(s) \union
  UNION {{listcmd(l, r) : l \in Back(Before(s, i)), r \in Line(After(s, i))} : i \in Places(s, ";")}
=============================================================================
