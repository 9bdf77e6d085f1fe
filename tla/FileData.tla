------------------------------ MODULE FileData ------------------------------
(***************************************************************************)
(* The contents of files: bmap(), itrunc(), readi() and writei() of fs.c,  *)
(* under fileread(), filewrite() and fileseek() of file.c, on a disk that  *)
(* mkfs has made.                                                          *)
(*                                                                         *)
(* A call works on an inode under its lock; a write of more than the log   *)
(* takes is cut into chunks, and other calls come between them.  A struct  *)
(* file is used by one call at a time.                                     *)
(***************************************************************************)
EXTENDS Mkfs

CONSTANTS
  File,
  MaxChunk,    \* what filewrite() gives writei() at most, in bytes
  Written,     \* what programs write, and
  Amount,      \* how much they read
  Offset,      \* arguments of fseek()
  MaxWrites,   \* bound on calls of write()
  NotOpen

VARIABLES
  given,       \* per path name: what mkfs was to put there
  ip, off,     \* struct file
  todo,        \* per file: what a filewrite() has still to write
  got,         \* what the last call returned, if it was a read
  writes,      \* calls of write() so far
  bytes,       \* what the files hold when mkfs is done, a function of d, and
  opened       \* what they were opened as: for the refinement

fileVars == <<given, d, m, ip, off, todo, got, writes, bytes, opened>>

-----------------------------------------------------------------------------
(* fs.c.  The disk e is passed through; block 0 stands in after a panic.   *)

spare(e) == Min((DiskBlock \ e.used) \union {FSSIZE}) % FSSIZE

\* Mutant: the block is not zeroed.
balloc_Dirty(e) ==
  IF e.used = DiskBlock THEN [e EXCEPT !.sys = "panic"]
  ELSE [e EXCEPT !.used = @ \union {spare(e)}]

balloc(e) ==
  IF e.used = DiskBlock THEN [e EXCEPT !.sys = "panic"]
  ELSE [e EXCEPT !.used = @ \union {spare(e)},
                 !.data[spare(e)] = ZeroData, !.ind[spare(e)] = ZeroInd]

bmap(e, i, bn) ==
  LET direct(x, k) ==
        IF x.addrs[i][k] # 0 THEN x ELSE [balloc(x) EXCEPT !.addrs[i][k] = spare(x)]
      table == direct(e, NDIRECT)
      t == table.addrs[i][NDIRECT]
  IN  IF bn < NDIRECT THEN direct(e, bn)
      ELSE IF table.ind[t][bn - NDIRECT] # 0 THEN table
      ELSE [balloc(table) EXCEPT !.ind[t][bn - NDIRECT] = spare(table)]

writei(e, i, o, s) ==
  LET piece(x, bn) ==
        LET y == bmap(x, i, bn)
        IN  [y EXCEPT !.data[addr(y, i, bn)] = copied(@, bn, o, s)]
      w == FoldLeft(piece, e, Blocks(o, Len(s)))
  IN  [w EXCEPT !.size[i] = Max({@, o + Len(s)})]

\* n is cut at the end of the file.  The disk after it, for bmap() allocates
\* blocks that are missing, and what was read
readi(e, i, o, n) ==
  LET tot == Min({n, e.size[i] - o})
      x == FoldLeft(LAMBDA y, bn : bmap(y, i, bn), e, Blocks(o, tot))
  IN  [disk |-> x, dst |-> [k \in 1..tot |-> byte(x, i, o + k - 1)]]

stati(e, i) == [size |-> e.size[i]]

itrunc(e, i) ==
  LET t == e.addrs[i][NDIRECT]
      freed == {e.addrs[i][k] : k \in 0..NDIRECT} \union
               (IF t = 0 THEN {} ELSE {e.ind[t][k] : k \in 0..(NINDIRECT - 1)})
  IN  [e EXCEPT !.used = @ \ (freed \ {0}), !.addrs[i] = [k \in 0..NDIRECT |-> 0], !.size[i] = 0]

\* The search ends at the first entry of the name.  (Names that are not there,
\* for which it goes on to blocks that a directory of mkfs may lack, are not
\* looked up here.)
dirlookup(e, dp, name) ==
  LET found == {k \in 0..(e.size[dp] - 1) : byte(e, dp, k) # Zero /\ byte(e, dp, k).name = name}
  IN  IF found = {} THEN 0 ELSE byte(e, dp, Min(found)).inum

\* The inode of an absolute path, or 0.  The walk is at one inode at a time.
namei(e, path) ==
  LET next(at, name) == {dirlookup(e, dp, name) : dp \in at}
  IN  CHOOSE i \in FoldLeft(next, {ROOTINO}, path) : TRUE

-----------------------------------------------------------------------------
(* What is in the file of each name                                        *)

\* A name that is not there has no contents.
Contents(e) ==
  [p \in DOMAIN given |->
     LET i == namei(e, p)
     IN  IF i = 0 THEN NotOpen ELSE [k \in 1..e.size[i] |-> byte(e, i, k - 1)]]

\* An argument has the path (at) under which programs look for the file.
FileInit(argv) ==
  /\ given = [p \in {argv[k].at : k \in DOMAIN argv} |->
                (CHOOSE x \in Range(argv) : x.at = p).data]
  /\ MkfsInit(argv)
  /\ ip = [f \in File |-> NotOpen]
  /\ off = [f \in File |-> 0]
  /\ todo = [f \in File |-> <<>>]
  /\ got = <<>>
  /\ writes = 0
  /\ bytes = given
  /\ opened = ip

-----------------------------------------------------------------------------
(* file.c *)

Idle(f) == d.sys = "up" /\ ip[f] # NotOpen /\ todo[f] = <<>>

file_open(f, path) ==
  /\ d.sys = "up" /\ ip[f] = NotOpen
  /\ ip' = [ip EXCEPT ![f] = namei(d, path)]
  /\ opened' = [opened EXCEPT ![f] = path]
  /\ off' = [off EXCEPT ![f] = 0]
  /\ got' = <<>>
  /\ UNCHANGED <<d, todo, writes>>

file_close(f) ==
  /\ Idle(f)
  /\ ip' = [ip EXCEPT ![f] = NotOpen]
  /\ opened' = [opened EXCEPT ![f] = NotOpen]
  /\ off' = [off EXCEPT ![f] = 0]
  /\ got' = <<>>
  /\ UNCHANGED <<d, todo, writes>>

\* It is not part of a transaction: log_write() panics when balloc() calls it.
fileread(f, n) ==
  LET r == readi(d, ip[f], off[f], n)
  IN  /\ Idle(f)
      /\ IF r.disk # d
         THEN d' = [d EXCEPT !.sys = "panic"] /\ got' = <<>> /\ UNCHANGED off
         ELSE /\ got' = r.dst
              /\ off' = [off EXCEPT ![f] = @ + Len(r.dst)]
              /\ UNCHANGED d
      /\ UNCHANGED <<opened, ip, todo, writes>>

filewrite(f, s) ==
  /\ Idle(f) /\ writes < MaxWrites
  /\ todo' = [todo EXCEPT ![f] = s]
  /\ writes' = writes + 1
  /\ got' = <<>>
  /\ UNCHANGED <<opened, d, ip, off>>

\* One turn of filewrite()'s loop.  What would make the file too large is not
\* written, and ends the call.
filewrite_chunk(f) ==
  LET n == Min({Len(todo[f]), MaxChunk})
      s == SubSeq(todo[f], 1, n)
      w == writei(d, ip[f], off[f], s)
      fails == off[f] > d.size[ip[f]] \/ off[f] + Len(s) > MAXFILE * BSIZE
  IN  /\ d.sys = "up" /\ todo[f] # <<>>
      /\ got' = <<>>
      /\ IF fails THEN todo' = [todo EXCEPT ![f] = <<>>] /\ UNCHANGED <<d, off>>
         ELSE IF w.sys = "panic" THEN d' = [d EXCEPT !.sys = "panic"] /\ UNCHANGED <<off, todo>>
         ELSE /\ d' = w
              /\ off' = [off EXCEPT ![f] = @ + Len(s)]
              /\ todo' = [todo EXCEPT ![f] = SubSeq(@, n + 1, Len(@))]
      /\ UNCHANGED <<opened, ip, writes>>

filestat(f) == stati(d, ip[f])

\* From the start, from off, or back from the end; within the file
fileseek(f, offset, position) ==
  LET end == filestat(f).size
      new == CASE position = 0 -> offset
               [] position = 1 -> off[f] + offset
               [] position = 2 -> end - offset
  IN  /\ Idle(f)
      /\ off' = [off EXCEPT ![f] = Max({0, Min({new, end})})]
      /\ got' = <<>>
      /\ UNCHANGED <<opened, d, ip, todo, writes>>

\* A file that nobody has open is removed and created again: dirlink() takes
\* the entry and ialloc() the inode that have just become free.
remove(path) ==
  LET i == namei(d, path)
  IN  /\ d.sys = "up" /\ \A f \in File : ip[f] # i
      /\ d' = itrunc(d, i)
      /\ got' = <<>>
      /\ UNCHANGED <<opened, ip, off, todo, writes>>

sys_read(f) == \E n \in Amount : fileread(f, n)
sys_write(f) == \E s \in Written : filewrite(f, s)
sys_fseek(f) == \E offset \in Offset, position \in 0..2 : fileseek(f, offset, position)

FileStep ==
  \/ \E f \in File :
       \/ \E path \in DOMAIN given : file_open(f, path)
       \/ file_close(f) \/ filewrite_chunk(f)
       \/ sys_read(f) \/ sys_write(f) \/ sys_fseek(f)
  \/ \E path \in DOMAIN given : remove(path)

MkfsNext ==
  /\ MkfsStep
  /\ bytes' = IF d'.sys = "mkfs" THEN bytes ELSE Contents(d')
  /\ UNCHANGED <<given, ip, off, todo, got, writes, opened>>

FileNext ==
  /\ FileStep
  /\ bytes' = IF d' = d THEN bytes ELSE Contents(d')
  /\ UNCHANGED <<given, m>>

-----------------------------------------------------------------------------

Bytes == INSTANCE ByteFile WITH MaxSize <- MAXFILE * BSIZE, ip <- opened, ready <- d.sys # "mkfs"

\* Files are sequences of bytes: programs find each file that mkfs was given in
\* its place and with its contents, a write changes the bytes it covers of its
\* own file and extends it, across direct and indirect blocks and in chunks, a
\* read returns what is there, an offset stays within the file, and the blocks
\* of a removed file bring nothing of it into another.
FilesAreBytes == Bytes!Spec
=============================================================================
