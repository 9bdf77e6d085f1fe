------------------------------ MODULE Console ------------------------------
(***************************************************************************)
(* The input side of the console (console.c): keys edit a line in a ring   *)
(* buffer, from where consoleread() takes what has been handed over.       *)
(*                                                                         *)
(* input.lock makes handle_input() of a key, consoleinput() and the        *)
(* reading of a byte steps.  Indices only matter by their differences and  *)
(* modulo INPUT_BUF, so all of them drop by INPUT_BUF when r gets there.   *)
(* Cells out of r..e are never read; they are None.  Raw mode, which no    *)
(* program turns on, is left out, and so is what the screen shows.         *)
(***************************************************************************)
EXTENDS Integers, SequencesExt

CONSTANTS
  INPUT_BUF,
  Char,        \* bytes that stand for themselves
  Key          \* what the keyboard sends: bytes, control bytes and arrow keys

ASSUME ConsoleConstants ==
  /\ INPUT_BUF \in Nat \ {0}
  /\ Key \subseteq Char \union {"nl", "^D", "^U", "tab", "^P", "^N", "bs", "esc",
                                "left", "right", "up", "down"}

None == "none"

VARIABLES
  buf, r, w, e, cur,   \* input
  esc,                 \* input.esc_state
  draft,               \* history_draft, <<>> when it is not active
  drafted              \* history_draft_active

ring == <<buf, r, w, e, cur>>
conVars == <<ring, esc, draft, drafted>>

ConInit ==
  /\ buf = [i \in 0..(INPUT_BUF - 1) |-> None]
  /\ r = 0 /\ w = 0 /\ e = 0 /\ cur = 0
  /\ esc = 0 /\ draft = <<>> /\ drafted = FALSE

at(i) == i % INPUT_BUF
Bytes(i, j) == [k \in 1..(j - i) |-> buf[at(i + k - 1)]]

\* The ring with the bytes of s at index i, and nothing from there to e.
Stored(i, s) ==
  [c \in DOMAIN buf |->
     IF \E k \in 1..Len(s) : at(i + k - 1) = c THEN s[CHOOSE k \in 1..Len(s) : at(i + k - 1) = c]
     ELSE IF \E k \in i..(e - 1) : at(k) = c THEN None
     ELSE buf[c]]

\* Drop what is typed, put byte c where it began, and hand over all.
HandOver(from, c) ==
  /\ buf' = Stored(from, <<c>>)
  /\ e' = from + 1 /\ cur' = e' /\ w' = e'

---------------------------------------------------------------------------
(***************************************************************************)
(* Keys.  key(c) is what c means after the escape sequence before it.      *)
(***************************************************************************)
Arrow == [A |-> "^P", B |-> "^N", C |-> "right", D |-> "left"]

key(c) ==
  CASE c \in {"left", "right"} -> c
    [] c = "up" -> "^P"
    [] c = "down" -> "^N"
    [] OTHER -> IF esc = 2 /\ c \in DOMAIN Arrow THEN Arrow[c]
                ELSE IF esc > 0 \/ c = "esc" THEN None
                ELSE c

escaped(c) ==
  CASE c \in {"left", "right", "up", "down"} -> esc
    [] OTHER -> CASE esc = 1 -> IF c = "[" THEN 2 ELSE 0
                  [] esc = 2 -> 0
                  [] OTHER -> IF c = "esc" THEN 1 ELSE 0

left ==
  /\ cur' = IF cur > w THEN cur - 1 ELSE cur
  /\ UNCHANGED <<buf, r, w, e, draft, drafted>>

right ==
  /\ cur' = IF cur < e THEN cur + 1 ELSE cur
  /\ UNCHANGED <<buf, r, w, e, draft, drafted>>

\* clear()
kill_line ==
  /\ buf' = Stored(w, <<>>)
  /\ e' = w /\ cur' = w
  /\ drafted' = FALSE /\ draft' = <<>>
  /\ UNCHANGED <<r, w>>

\* Tab, or a backspace at the start of the line: the reader's business.
signal(c) ==
  /\ IF e - r < INPUT_BUF THEN HandOver(e, c) ELSE UNCHANGED <<buf, w, e, cur>>
  /\ UNCHANGED <<r, draft, drafted>>

\* save_history_draft(), clear(), and the reader is told.
history_key(c) ==
  /\ draft' = IF drafted THEN draft ELSE Bytes(w, e)
  /\ drafted' = TRUE
  /\ IF w - r < INPUT_BUF THEN HandOver(w, c)
     ELSE buf' = Stored(w, <<>>) /\ e' = w /\ cur' = w /\ UNCHANGED w
  /\ UNCHANGED r

backspace ==
  /\ cur' = cur - 1
  /\ buf' = Stored(cur - 1, Bytes(cur, e))
  /\ e' = e - 1
  /\ UNCHANGED <<r, w, draft, drafted>>

enter(c) ==
  /\ IF e - r < INPUT_BUF THEN HandOver(e, c) /\ drafted' = FALSE /\ draft' = <<>>
     ELSE UNCHANGED <<buf, w, e, cur, draft, drafted>>
  /\ UNCHANGED r

\* Mutant of insert: the cursor stays before the byte inserted.
insert_Stays(c) ==
  /\ IF e - r < INPUT_BUF
     THEN /\ buf' = Stored(cur, <<c>> \o Bytes(cur, e))
          /\ e' = e + 1
          /\ IF e + 1 = r + INPUT_BUF THEN w' = e + 1 /\ cur' = e + 1
             ELSE cur' = (IF cur = e THEN cur + 1 ELSE cur) /\ UNCHANGED w
     ELSE UNCHANGED <<buf, w, e, cur>>
  /\ UNCHANGED <<r, draft, drafted>>

\* Insert at the cursor; a full buffer is handed over.
insert(c) ==
  /\ IF e - r < INPUT_BUF
     THEN /\ buf' = Stored(cur, <<c>> \o Bytes(cur, e))
          /\ e' = e + 1
          /\ IF e + 1 = r + INPUT_BUF THEN w' = e + 1 /\ cur' = e + 1
             ELSE cur' = cur + 1 /\ UNCHANGED w
     ELSE UNCHANGED <<buf, w, e, cur>>
  /\ UNCHANGED <<r, draft, drafted>>

handle_input(c) ==
  /\ esc' = escaped(c)
  /\ CASE key(c) = "left" -> left
       [] key(c) = "right" -> right
       [] key(c) = "^U" -> kill_line
       [] key(c) = "tab" -> signal("tab")
       [] key(c) \in {"^P", "^N"} -> history_key(key(c))
       [] key(c) = "bs" -> IF cur = w THEN signal("bs") ELSE backspace
       [] key(c) \in {"nl", "^D"} -> enter(key(c))
       [] key(c) = None -> UNCHANGED <<ring, draft, drafted>>
       [] OTHER -> insert(key(c))

---------------------------------------------------------------------------
\* consoleread() of one byte, which is what a shell reads.
take ==
  /\ r # w
  /\ buf' = [buf EXCEPT ![at(r)] = None]
  /\ IF r + 1 = INPUT_BUF
     THEN r' = 0 /\ w' = w - INPUT_BUF /\ e' = e - INPUT_BUF /\ cur' = cur - INPUT_BUF
     ELSE r' = r + 1 /\ UNCHANGED <<w, e, cur>>
  /\ UNCHANGED <<esc, draft, drafted>>

\* replace_input(): the text, or for "" the draft, takes the place of the line.
replace_input(s) ==
  LET restoring == s = <<>> /\ drafted
      text == IF restoring THEN draft ELSE s
      room == IF w - r < INPUT_BUF - 1 THEN INPUT_BUF - 1 - (w - r) ELSE 0
      fits == IF Len(text) <= room THEN text ELSE SubSeq(text, 1, room)
  IN /\ buf' = Stored(w, fits)
     /\ e' = w + Len(fits) /\ cur' = e'
     /\ draft' = IF restoring THEN <<>> ELSE IF drafted THEN draft ELSE Bytes(w, e)
     /\ drafted' = ~restoring
     /\ UNCHANGED <<r, w, esc>>
============================================================================
