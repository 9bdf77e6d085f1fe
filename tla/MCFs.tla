-------------------------------- MODULE MCFs --------------------------------
(***************************************************************************)
(* Two processes that make a few calls each, at once, in small file        *)
(* systems that calls made before, one after the other, have left.         *)
(***************************************************************************)
EXTENDS Fs, TLC

CONSTANTS
  a, b,        \* two names
  MaxCalls     \* system calls that a process makes

ASSUME MCFsConstants == MaxCalls \in Nat

VARIABLES
  calls,       \* per process: calls made
  stale        \* whether a lookup has come to the ".." of a removed directory,
               \* or sys_getcwd() to a removed directory
mcVars == <<vars, calls, stale>>

Short == {<<a>>, <<b>>, <<a, b>>, <<"..">>}
OneName == {<<a>>}

dir(n, x) == [type |-> "dir", nlink |-> n, addr |-> x]
Dotted(i, parent) == [NoEnts EXCEPT !["."] = i, ![".."] = parent]

\* "/a/b" is a directory, or was one until it was removed with a process in it.
Nested ==
  \E i, j \in Inum \ {root}, gone \in BOOLEAN :
    /\ i # j
    /\ dinode = [x \in Inum |-> CASE x = root -> dir(2, 1)
                                  [] x = i -> dir(IF gone THEN 1 ELSE 2, 2)
                                  [] x = j -> dir(IF gone THEN 0 ELSE 1, 3)
                                  [] OTHER -> Free]
    /\ ents = [x \in Block |-> CASE x = 1 -> [Dotted(root, root) EXCEPT ![a] = i]
                                 [] x = 2 -> [Dotted(i, root) EXCEPT ![b] = IF gone THEN None ELSE j]
                                 [] x = 3 -> Dotted(j, i)
                                 [] OTHER -> NoEnts]
    /\ used = {1, 2, 3}
    /\ cwd \in [Proc -> {root, i, j}]
    /\ gone => \E p \in Proc : cwd[p] = j
    /\ ofile = [p \in Proc |-> None]

\* "/a" is a file, or was one until it was removed while open.
OneFile ==
  \E i \in Inum \ {root}, gone \in BOOLEAN :
    /\ dinode = [x \in Inum |-> CASE x = root -> dir(1, 1)
                                  [] x = i -> [type |-> "file", nlink |-> IF gone THEN 0 ELSE 1, addr |-> 2]
                                  [] OTHER -> Free]
    /\ ents = [x \in Block |-> IF x = 1 THEN [Dotted(root, root) EXCEPT ![a] = IF gone THEN None ELSE i]
                               ELSE NoEnts]
    /\ used = {1, 2}
    /\ cwd = [p \in Proc |-> root]
    /\ ofile \in [Proc -> {i, None}]
    /\ gone => \E p \in Proc : ofile[p] = i

MCInit ==
  /\ Nested \/ OneFile
  /\ cache = [i \in Inum |->
       LET n == Cardinality({p \in Proc : cwd[p] = i}) + Cardinality({p \in Proc : ofile[p] = i})
       IN IF n = 0 THEN NoEntry ELSE [ref |-> n, valid |-> TRUE] @@ dinode[i]]
  /\ lock = [i \in Inum |-> None]
  /\ th = [p \in Proc |-> User]
  /\ outstanding = 0
  /\ sys = "up"
  /\ calls = [p \in Proc |-> 0]
  /\ stale = FALSE

\* A link count does not tell: mkdir() in a removed directory makes it one again.
Strays(p) ==
  LET r == th[p]
      up == r.path # <<>> /\ Head(r.path) = ".."
  IN  (up \/ r.call = "getcwd") /\ ~ {r.cur, r.dp} \union Range(r.puts) \subseteq Reachable \union {None}

MCNext ==
  /\ \/ \E p \in Proc : calls[p] < MaxCalls /\ Enters(p) /\ calls' = [calls EXCEPT ![p] = @ + 1]
     \/ (crash \/ \E p \in Proc : Works(p)) /\ UNCHANGED calls
  /\ stale' = (stale \/ \E p \in Proc : Strays(p))

MCSpec == MCInit /\ [][MCNext]_mcVars

\* Inodes other than the root are alike to ialloc(), which may find any free one.
Symmetry == Permutations(Proc) \union Permutations(Inum \ {root})

---------------------------------------------------------------------------
(***************************************************************************)
(* Properties that the ".." of a removed directory breaks.  That entry is  *)
(* not counted as a link: it leads namex() and sys_getcwd() to an inode    *)
(* that may be freed meanwhile, or that sys_getcwd(), outside of any       *)
(* transaction, is the last to put.                                        *)
(***************************************************************************)
\* The code panics when it runs out of inodes, blocks or cache entries.  No
\* other assertion of fs.c and sysfile.c fails, unless some lookup was stale.
Exhausted == {"ialloc: no inodes", "balloc: out of blocks", "iget: no inodes"}
Strayed == {"ilock: no type", "log_write outside of trans", "dirlookup not DIR"}
NoPanic == sys \in {"up"} \union Exhausted \union (IF stale THEN Strayed ELSE {})

\* On the disk that a crash can leave, an entry of a directory in the tree
\* names an inode that is allocated and counts at least the links it has: the
\* last unlink of a name frees nothing that another name still leads to.  (By
\* the ".." of a removed directory sys_link() can get an inode that is being
\* freed.)
NoDangling ==
  outstanding = 0 /\ ~stale =>
    LET links == Links IN \A i \in Inum :
      LET n == Cardinality({e \in links : Entry(e[1], e[2]) = i})
      IN n > 0 => dinode[i].type # "free" /\ dinode[i].nlink >= n

\* No block of an inode is free in the map, and no two inodes share a block,
\* whoever writes, truncates or creates at the same time, but for an inode that
\* iput() is freeing: between bfree() and iupdate() it still names a block that
\* another may have by then.
BlocksSafe ==
  LET freed == {Head(th[p].puts) : p \in {q \in Proc : th[q].pc = "iupdate"}}
      owners == {i \in Inum \ freed : dinode[i].type # "free" /\ dinode[i].addr # 0}
  IN ~stale => \A x, y \in owners :
       dinode[x].addr \in used /\ (dinode[x].addr = dinode[y].addr => x = y)
=============================================================================
