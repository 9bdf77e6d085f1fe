-------------------------------- MODULE Mkfs --------------------------------
(***************************************************************************)
(* The layout of the disk and the program that makes its first image       *)
(* (mkfs.c): files named on a command line, put into directories that are  *)
(* made as they are needed.                                                *)
(*                                                                         *)
(* Sizes are in units of a directory entry.  An argument is the sequence   *)
(* of its path's components, whether it begins with "_", and what is in    *)
(* the file.  mkfs gives up on names that are too long, and on files and   *)
(* directories that are too large or too many; such arguments are left     *)
(* out, and so are the type and link count of inodes, which module Fs has. *)
(* A step is one iappend(), or the choice of what to append next.          *)
(***************************************************************************)
EXTENDS Integers, Sequences, SequencesExt

CONSTANTS
  BSIZE, NDIRECT, NINDIRECT, IPB, BPB,
  FSSIZE, NINODES, LOGSIZE,
  Zero         \* a byte, or entry, of a block of zeroes

MAXFILE == NDIRECT + NINDIRECT
ROOTINO == 1
DiskBlock == 0..(FSSIZE - 1)
Inum == 0..(NINODES - 1)
ZeroData == [k \in 0..(BSIZE - 1) |-> Zero]
ZeroInd == [k \in 0..(NINDIRECT - 1) |-> 0]

\* [ boot block | sb block | log | inode blocks | free bit map | data blocks ]
nmeta == 2 + LOGSIZE + (NINODES \div IPB + 1) + (FSSIZE \div BPB + 1)

VARIABLES
  d,           \* the disk.  data, ind: what a block holds as bytes and as addresses;
               \* addrs, size: the inodes; used: the bitmap; sys: who uses it
  m            \* mkfs.  freeinode, freeblock, dirs; args: the arguments left;
               \* parent, depth: where mkdirp() is; out: calls of iappend() to make

-----------------------------------------------------------------------------

\* Where block bn of inode i is, or 0
addr(e, i, bn) ==
  IF bn < NDIRECT THEN e.addrs[i][bn] ELSE e.ind[e.addrs[i][NDIRECT]][bn - NDIRECT]

byte(e, i, k) == e.data[addr(e, i, k \div BSIZE)][k % BSIZE]

\* The numbers of the blocks of n bytes from o on
Blocks(o, n) ==
  IF n = 0 THEN <<>>
  ELSE [k \in 1..((o + n - 1) \div BSIZE - o \div BSIZE + 1) |-> o \div BSIZE + k - 1]

\* Block bn of a file, after s is copied to the file at o
copied(block, bn, o, s) ==
  [k \in DOMAIN block |->
     LET j == bn * BSIZE + k - o + 1 IN IF j \in DOMAIN s THEN s[j] ELSE block[k]]

-----------------------------------------------------------------------------

\* Block fbn of inode i gets its address.  x is the disk and freeblock.
mapped(x, i, fbn) ==
  LET direct(k) ==
        IF x.disk.addrs[i][k] # 0 THEN x
        ELSE [x EXCEPT !.disk.addrs[i][k] = x.freeblock, !.freeblock = @ + 1]
      table == direct(NDIRECT)
      t == table.disk.addrs[i][NDIRECT]
  IN  IF fbn < NDIRECT THEN direct(fbn)
      ELSE IF table.disk.ind[t][fbn - NDIRECT] # 0 THEN table
      ELSE [table EXCEPT !.disk.ind[t][fbn - NDIRECT] = table.freeblock, !.freeblock = @ + 1]

\* The first of the calls
iappend ==
  LET i == Head(m.out).inum
      s == Head(m.out).data
      o == d.size[i]
      piece(x, fbn) ==
        LET y == mapped(x, i, fbn)
        IN  [y EXCEPT !.disk.data[addr(y.disk, i, fbn)] = copied(@, fbn, o, s)]
      done == FoldLeft(piece, [disk |-> d, freeblock |-> m.freeblock], Blocks(o, Len(s)))
  IN  /\ m.out # <<>>
      /\ d' = [done.disk EXCEPT !.size[i] = o + Len(s)]
      /\ m' = [m EXCEPT !.freeblock = done.freeblock, !.out = Tail(@)]

dirlink(parent, name, child) == [inum |-> parent, data |-> <<[name |-> name, inum |-> child]>>]

\* A new directory, child, that parent calls name
made(parent, name, child) ==
  << dirlink(parent, name, child), dirlink(child, ".", child), dirlink(child, "..", parent) >>

\* The directory's inode, or 0
mkfs_dirlookup(path) ==
  LET found == {k \in DOMAIN m.dirs : m.dirs[k].path = path}
  IN  IF found = {} THEN 0 ELSE m.dirs[Min(found)].inum

\* Which directory an argument goes to: programs and plain names to bin, what
\* a package has in its etc/ to etc/package, anything else where it is.
dirpath(arg) ==
  LET n == Len(arg.path)
  IN  CASE arg.underscore \/ n = 1 -> <<"bin">>
        [] ~arg.underscore /\ n > 2 /\ arg.path[2] = "etc" ->
             <<"etc", arg.path[1]>> \o SubSeq(arg.path, 3, n - 1)
        [] OTHER -> SubSeq(arg.path, 1, n - 1)

\* One turn of mkdirp()'s loop
mkdirp ==
  LET path == dirpath(Head(m.args))
      partial == SubSeq(path, 1, m.depth + 1)
      found == mkfs_dirlookup(partial)
      child == m.freeinode
  IN  /\ m.out = <<>> /\ m.args # <<>> /\ m.depth < Len(path)
      /\ IF found # 0 THEN m' = [m EXCEPT !.depth = @ + 1, !.parent = found]
         ELSE m' = [m EXCEPT !.depth = @ + 1, !.parent = child, !.freeinode = child + 1,
                             !.dirs = Append(@, [path |-> partial, inum |-> child]),
                             !.out = made(m.parent, path[m.depth + 1], child)]
      /\ UNCHANGED d

\* The file of an argument: its name, and its contents a block at a time
mkfs_file ==
  LET arg == Head(m.args)
      size == Len(arg.data)
      chunk(k) == SubSeq(arg.data, k * BSIZE - BSIZE + 1, Min({k * BSIZE, size}))
  IN  /\ m.out = <<>> /\ m.args # <<>> /\ m.depth = Len(dirpath(arg))
      /\ m' = [m EXCEPT !.freeinode = @ + 1, !.args = Tail(@), !.depth = 0, !.parent = ROOTINO,
                        !.out = <<dirlink(m.parent, arg.path[Len(arg.path)], m.freeinode)>> \o
                                [k \in 1..((size + BSIZE - 1) \div BSIZE) |->
                                   [inum |-> m.freeinode, data |-> chunk(k)]]]
      /\ UNCHANGED d

mkfs_balloc(used) == 0..(used - 1)

\* The sizes of directories go up to the next block, and the disk is ready.
mkfs_end ==
  LET dirs == {m.dirs[k].inum : k \in DOMAIN m.dirs}
  IN  /\ m.out = <<>> /\ m.args = <<>> /\ d.sys = "mkfs"
      /\ d' = [d EXCEPT !.size = [i \in Inum |-> IF i \in dirs THEN (@[i] \div BSIZE + 1) * BSIZE
                                                 ELSE @[i]],
                        !.used = mkfs_balloc(m.freeblock), !.sys = "up"]
      /\ m' = [m EXCEPT !.freeinode = 0, !.freeblock = 0, !.dirs = <<>>]

\* A disk of zeroes; the root and /bin come first.
MkfsInit(argv) ==
  /\ d = [data |-> [b \in DiskBlock |-> ZeroData], ind |-> [b \in DiskBlock |-> ZeroInd],
          addrs |-> [i \in Inum |-> [k \in 0..NDIRECT |-> 0]], size |-> [i \in Inum |-> 0],
          used |-> {}, sys |-> "mkfs"]
  /\ m = [freeinode |-> ROOTINO + 2, freeblock |-> nmeta,
          dirs |-> <<[path |-> <<>>, inum |-> ROOTINO], [path |-> <<"bin">>, inum |-> ROOTINO + 1]>>,
          args |-> argv, parent |-> ROOTINO, depth |-> 0,
          out |-> <<dirlink(ROOTINO, ".", ROOTINO), dirlink(ROOTINO, "..", ROOTINO)>> \o
                  made(ROOTINO, "bin", ROOTINO + 1)]

MkfsStep == iappend \/ mkdirp \/ mkfs_file \/ mkfs_end
=============================================================================
