------------------------------- MODULE Shell -------------------------------
(***************************************************************************)
(* The shell's side of the console (sh.c): getcmd() reads the input a byte *)
(* at a time, walks the command history on ^P and ^N and has the kernel    *)
(* type what it found (kbddecoy), completes names on Tab, and main() logs  *)
(* each command it ran to .sh_history.                                     *)
(*                                                                         *)
(* Commands are sequences of bytes.  The history file is the sequence of   *)
(* its lines; a position in it, always at the start of a line, is the      *)
(* number of lines before it.  Running a command is left to Proc and Fs.   *)
(***************************************************************************)
EXTENDS Console, FiniteSetsExt

CONSTANTS
  NBUF,            \* size of main()'s buf
  DEFAULT_LOAD,    \* bytes load_history() reads at a time
  Name,            \* sequence of the names in the current directory
  Tool,            \* the commands check_tools() takes for itself
  Files,           \* the histories a shell may find
  MaxCmds          \* bound on the lines of the history

ASSUME ShellConstants ==
  /\ NBUF \in Nat \ {0}
  /\ DEFAULT_LOAD > NBUF + 1     \* a chunk holds a whole line
  \* load_history() runs an empty first line, which it looks for one byte too
  \* late, into the second: these histories, and with them the empty one, which
  \* may become one of them, are left out.
  /\ \A f \in Files : f # <<>> /\ f[1] # <<>>

VARIABLES
  line,       \* getcmd()'s buf[0..n)
  start,      \* autocomplete_state.prefix_start
  matches,    \* autocomplete_state's matches from the selected one on; <<>> if not active
  decoy,      \* the kbddecoy() calls to come, none or one
  file,       \* .sh_history
  hist        \* history: pos (topped when 0), prev, curr (none or one) and next

completion == <<start, matches>>
history == <<file, hist>>
shVars == <<line, completion, decoy, history>>
vars == <<conVars, shVars>>

---------------------------------------------------------------------------
(***************************************************************************)
(* load_history() of the n lines of f not loaded yet: from the last        *)
(* DEFAULT_LOAD bytes of them, the lines whose newline before is past the  *)
(* first of these bytes, or all when the bytes reach the top.              *)
(***************************************************************************)
offset(f, k) == MapThenSumSet(LAMBDA i : Len(f[i]) + 1, 1..(k - 1))

oldest(f, n) ==
  LET from == offset(f, n + 1) - DEFAULT_LOAD
  IN IF from <= 0 THEN 0
     ELSE Min({k \in 1..n : offset(f, k) >= from + 2} \union {n + 1}) - 1

load_history(f, n) == Reverse(SubSeq(f, oldest(f, n) + 1, n))

init_history(f) ==
  [pos |-> oldest(f, Len(f)), prev |-> load_history(f, Len(f)), curr |-> <<>>, next |-> <<>>]

\* The history with a chunk of the file loaded, if get_prev_command() needs one.
refilled ==
  IF hist.prev # <<>> THEN hist
  ELSE [hist EXCEPT !.pos = oldest(file, @), !.prev = load_history(file, hist.pos)]

get_prev_command ==
  LET h == refilled
  IN IF h.prev = <<>> THEN h
     ELSE [h EXCEPT !.prev = Tail(@), !.curr = <<Head(h.prev)>>, !.next = h.curr \o @]

get_next_command ==
  LET h == [hist EXCEPT !.prev = hist.curr \o @, !.curr = <<>>]
  IN IF h.next = <<>> THEN h ELSE [h EXCEPT !.curr = <<Head(h.next)>>, !.next = Tail(@)]

\* Mutant of reset_command_position: newer commands are put back in one piece.
reset_Unturned ==
  [hist EXCEPT !.prev = hist.next \o hist.curr \o @, !.curr = <<>>, !.next = <<>>]

reset_command_position ==
  [hist EXCEPT !.prev = Reverse(hist.next) \o hist.curr \o @, !.curr = <<>>, !.next = <<>>]

\* log_command() of buf: its last byte, a newline unless buf is full, is cut.
log_command(b) ==
  LET cmd == Front(b)
      h == reset_command_position
  IN IF h.prev # <<>> /\ Head(h.prev) = cmd THEN hist' = h /\ UNCHANGED file
     ELSE hist' = [h EXCEPT !.prev = <<cmd>> \o @] /\ file' = Append(file, cmd)

---------------------------------------------------------------------------
(***************************************************************************)
(* autocomplete() of the last word.  With several matches each further Tab *)
(* goes on to the next one.                                                *)
(***************************************************************************)
word == Max({0} \union {i \in DOMAIN line : line[i] = " "})

candidates == SelectSeq(Name, LAMBDA m : IsPrefix(SubSeq(line, word + 1, Len(line)), m))

replace_autocomplete(from, m) ==
  line' = IF from + Len(m) >= NBUF THEN line ELSE SubSeq(line, 1, from) \o m

autocomplete ==
  LET again == matches # <<>>
      found == IF again THEN Append(Tail(matches), Head(matches)) ELSE candidates
      from == IF again THEN start ELSE word
  IN IF found = <<>> THEN UNCHANGED <<line, completion>>
     ELSE /\ replace_autocomplete(from, Head(found))
          /\ IF Len(found) > 1 THEN matches' = found /\ start' = from
             ELSE matches' = <<>> /\ start' = 0

reset_autocomplete == start' = 0 /\ matches' = <<>>

---------------------------------------------------------------------------
(***************************************************************************)
(* getcmd(): read(0, &c, 1) and what follows from c.                       *)
(***************************************************************************)
reads(c) == decoy = <<>> /\ take /\ buf[at(r)] = c

sh_prev ==
  /\ reads("^P")
  /\ hist' = get_prev_command
  /\ decoy' = IF hist'.curr = <<>> THEN << <<>> >> ELSE hist'.curr
  /\ reset_autocomplete
  /\ UNCHANGED <<line, file>>

sh_next ==
  /\ reads("^N")
  /\ hist' = get_next_command
  /\ decoy' = IF hist'.curr = <<>> THEN << <<>> >> ELSE hist'.curr
  /\ reset_autocomplete
  /\ UNCHANGED <<line, file>>

sh_tab ==
  /\ reads("tab")
  /\ autocomplete
  /\ UNCHANGED <<decoy, history>>

sh_backspace ==
  /\ reads("bs")
  /\ line' = IF line = <<>> THEN line ELSE Front(line)
  /\ reset_autocomplete
  /\ UNCHANGED <<decoy, history>>

\* End of file ends the shell, and init starts another.
sh_eof ==
  /\ reads("^D")
  /\ line' = <<>>
  /\ reset_autocomplete
  /\ hist' = init_history(file)
  /\ UNCHANGED <<decoy, file>>

\* Any other byte; a newline, or a full buffer, ends the command.
sh_byte(c) ==
  /\ reads(c)
  /\ reset_autocomplete
  /\ LET b == Append(line, c)
     IN IF c # "nl" /\ Len(b) < NBUF THEN line' = b /\ UNCHANGED history
        ELSE /\ line' = <<>>
             /\ IF b \in Tool THEN UNCHANGED history
                ELSE Len(file) < MaxCmds /\ log_command(b)
  /\ UNCHANGED decoy

\* The kbddecoy() that follows a ^P or ^N, which keys may overtake.
kbddecoy ==
  /\ decoy # <<>>
  /\ replace_input(Head(decoy))
  /\ decoy' = <<>>
  /\ UNCHANGED <<line, completion, history>>

shell ==
  \/ sh_prev \/ sh_next \/ sh_tab \/ sh_backspace \/ sh_eof \/ kbddecoy
  \/ \E c \in Char \union {"nl"} : sh_byte(c)

consoleintr == \E c \in Key : handle_input(c) /\ UNCHANGED shVars

Init ==
  /\ ConInit
  /\ line = <<>> /\ start = 0 /\ matches = <<>> /\ decoy = <<>>
  /\ file \in Files
  /\ hist = init_history(file)

Next == consoleintr \/ shell

Spec == Init /\ [][Next]_vars

---------------------------------------------------------------------------
\* handle_input() and replace_input() on the ring, with its wrapping indices
\* and its three regions, are a line editor in front of a FIFO: text goes in at
\* the cursor, and the reader gets each byte handed over once, in order.
Editor == INSTANCE LineEdit WITH
  Size <- INPUT_BUF, Control <- {"nl", "^D", "tab", "^P", "^N", "bs"},
  before <- Bytes(w, cur), after <- Bytes(cur, e), ready <- Bytes(r, w)

EditsLines == Editor!Spec

\* Moving the position in the history, logging commands from the middle of it
\* and loading older chunks lose, repeat or reorder no command: what is not
\* loaded yet, prev, curr and next together are the lines of the file.
HistoryKept ==
  file = SubSeq(file, 1, hist.pos) \o Reverse(hist.prev) \o hist.curr \o hist.next
============================================================================
