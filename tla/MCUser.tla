------------------------------- MODULE MCUser -------------------------------
(***************************************************************************)
(* User programs and the files they use, for TLC: the shell's parser, the  *)
(* run of a command line, the heap, grep and the contents of files.  They  *)
(* share nothing; a behaviour is one of part, and the others rest.  Part   *)
(* "mkfs" has many disks, part "files" works on one.                       *)
(***************************************************************************)
EXTENDS Runcmd, Heap, Grep, FileData

VARIABLE part

vars == <<part, runVars, heapVars, grepVars, fileVars>>

Part == {"parse", "run", "heap", "grep", "mkfs", "files"}

MaxTokens == 5
AllLines == UNION {[1..n -> {"cat", "f", "|", "&", ";", "(", ")", "<", ">"}] : n \in 0..MaxTokens}

RunLines == {
  <<"cat", "|", "cat", "|", "wc">>,
  <<"cat", "|", "cat", "|", "cat", "|", "wc">>,         \* more than there is room for
  <<"echo", "f", "|", "cat", "&">>,
  <<"cat", "|", "echo", ";", "cat">>,
  <<"(", "cat", "&", ")", "|", "wc", ">", "f">>,
  <<"(", "echo", "f", ";", "cat", ")", "|", "wc">>,
  <<"(", "cat", "|", "cat", ")", "&", ";", "wc">>,
  <<"cat", "<", "f", ">", "f">>,
  <<"f", "|", "cat">>,                                  \* an unknown command
  <<"|", "wc">>, <<"cat", "|">>, <<")">> }

MaxPattern == 3
Patterns == UNION {[1..n -> {"a", ".", "*", "^", "$"}] : n \in 0..MaxPattern}
Inputs == {
  <<"a", "b", "\n", "b", "\n">>, <<"b", "a", "a", "\n">>, <<"\n", "a">>, <<"$", "*", "^", "\n">>,
  <<"a", "a", "b", "\n", "a", "\n">>, <<"b", "b", "\n", "\n", "b">> }

\* Arguments of mkfs, with the places where the Makefile's readers find them
Readme ==
  [path |-> <<"README">>, underscore |-> FALSE, at |-> <<"bin", "README">>, data |-> <<"r", "r">>]
Cat == [path |-> <<"cat">>, underscore |-> TRUE, at |-> <<"bin", "cat">>, data |-> <<>>]
Font ==
  [path |-> <<"omx", "etc", "fonts", "alt">>, underscore |-> FALSE,
   at |-> <<"etc", "omx", "fonts", "alt">>, data |-> <<"a", "b", "c">>]
Conf ==
  [path |-> <<"omx", "etc", "conf">>, underscore |-> FALSE,
   at |-> <<"etc", "omx", "conf">>, data |-> <<"e", "f", "g", "h", "i">>]
Doc == [path |-> <<"doc", "etc">>, underscore |-> FALSE, at |-> <<"doc", "etc">>, data |-> <<"d">>]
ArgLists ==
  {s \in UNION {[1..n -> {Readme, Cat, Font, Conf, Doc}] : n \in 0..2} : IsInjective(s)}

MCWritten == {<<"x">>, <<"y", "y", "y">>}
MCOffset == {-1, 2}

Init ==
  /\ part \in Part
  /\ RunInit(CASE part = "parse" -> AllLines [] part = "run" -> RunLines [] OTHER -> {<<>>})
  /\ HeapInit
  /\ IF part = "grep" THEN GrepInit(Patterns, Inputs) ELSE GrepInit({<<>>}, {<<>>})
  /\ CASE part = "mkfs" -> \E argv \in ArgLists : FileInit(argv)
       [] part = "files" -> FileInit(<<Font, Cat>>)
       [] OTHER -> FileInit(<<>>)

CommandStep(q) == part = "run" /\ RunStep(q) /\ UNCHANGED <<part, heapVars, grepVars, fileVars>>

Next ==
  \/ \E q \in Pid : CommandStep(q)
  \/ part = "heap" /\ HeapNext /\ UNCHANGED <<part, runVars, grepVars, fileVars>>
  \/ part = "grep" /\ GrepNext /\ UNCHANGED <<part, runVars, heapVars, fileVars>>
  \/ part \in {"mkfs", "files"} /\ MkfsNext /\ UNCHANGED <<part, runVars, heapVars, grepVars>>
  \/ part = "files" /\ FileNext /\ UNCHANGED <<part, runVars, heapVars, grepVars>>

\* Every process of the command line goes on when it can.
Spec == Init /\ [][Next]_vars /\ \A q \in Pid : WF_vars(CommandStep(q))
=============================================================================
