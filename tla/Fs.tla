--------------------------------- MODULE Fs ---------------------------------
(***************************************************************************)
(* The inode layer, directories and the system calls on names (fs.c,       *)
(* sysfile.c), above the log, which Log shows to make a group of calls     *)
(* atomic: a crash takes the disk back to a moment when no call was in     *)
(* progress.                                                               *)
(*                                                                         *)
(* The sleep-lock of an inode protects it from ilock() to iunlock(), and a *)
(* stretch of code under one such lock is one step; a lock held while      *)
(* another is asked for stays in `lock' between steps.  iput() takes no    *)
(* such lock: it is split where it lets go of icache.lock and where it may *)
(* sleep while it frees the inode.                                         *)
(*                                                                         *)
(* The cache entry of an inode is found by its number, so the cache is     *)
(* indexed by inode, and an entry with ref = 0 is a free slot.  An inode   *)
(* has one block, which for a directory holds its entries: bmap() and      *)
(* itrunc() do the same for each of the 12 + 128.                          *)
(***************************************************************************)
EXTENDS Naturals, FiniteSets, FiniteSetsExt, SequencesExt

CONSTANTS
  Proc, Inum, Block,
  root,        \* ROOTINO
  Name,        \* names of files
  Path,        \* relative paths: sequences of Name \union {".", ".."}
  Call,        \* the system calls that processes make
  NINODE,      \* entries of the inode cache
  SMP          \* several CPUs, or one

ASSUME FsConstants ==
  /\ root \in Inum /\ NINODE \in Nat \ {0} /\ SMP \in BOOLEAN
  /\ Path \subseteq Seq(Name \union {".", ".."})
  /\ Call \subseteq {"open", "create", "mkdir", "link", "unlink", "chdir",
                     "write", "close", "getcwd"}

None == "none"
Dots == {".", ".."}

VARIABLES
  dinode,      \* the inodes on the disk, as bread() returns them
  used,        \* the free map: blocks in use
  ents,        \* per block: the directory entries in it
  cache,       \* icache
  lock,        \* per inode: the process that keeps its sleep-lock from one step to the next
  cwd, ofile,  \* per process: inodes of its current directory and its open file
  th,          \* per process: where it is in the kernel, and its local variables
  outstanding, \* calls in a transaction
  sys          \* "up", or the message of the panic

disk == <<dinode, used, ents>>
vars == <<disk, cache, lock, cwd, ofile, th, outstanding, sys>>

Free == [type |-> "free", nlink |-> 0, addr |-> 0]
NoEnts == [n \in Name \union Dots |-> None]
NoEntry == [ref |-> 0, valid |-> FALSE, type |-> "free", nlink |-> 0, addr |-> 0]
User == [pc |-> "user", call |-> None, path |-> <<>>, cur |-> None, dp |-> None,
         ip |-> None, puts |-> <<>>, next |-> None]

\* The empty file system that mkfs makes, and processes in "/".
Init ==
  /\ LET home == Min(Block) IN
       /\ dinode = [i \in Inum |-> IF i = root THEN [type |-> "dir", nlink |-> 1, addr |-> home] ELSE Free]
       /\ used = {home}
       /\ ents = [x \in Block |-> IF x = home THEN [NoEnts EXCEPT !["."] = root, ![".."] = root] ELSE NoEnts]
  /\ cache = [i \in Inum |-> IF i = root THEN [NoEntry EXCEPT !.ref = Cardinality(Proc)] ELSE NoEntry]
  /\ lock = [i \in Inum |-> None]
  /\ cwd = [p \in Proc |-> root]
  /\ ofile = [p \in Proc |-> None]
  /\ th = [p \in Proc |-> User]
  /\ outstanding = 0
  /\ sys = "up"

panic(why) == sys' = why /\ UNCHANGED <<disk, cache, lock, cwd, ofile, th, outstanding>>

---------------------------------------------------------------------------
(***************************************************************************)
(* The inode cache.  These operators give the new value of `cache' c.      *)
(***************************************************************************)
Room(c, i) == c[i].ref > 0 \/ Cardinality({j \in Inum : c[j].ref > 0}) < NINODE

\* Mutant: an inode that is in the cache gets no further reference.
iget_Not(c, i) == [c EXCEPT ![i] = IF @.ref > 0 THEN @ ELSE [NoEntry EXCEPT !.ref = 1]]

iget(c, i) ==
  [c EXCEPT ![i] = IF @.ref > 0 THEN [@ EXCEPT !.ref = @ + 1] ELSE [NoEntry EXCEPT !.ref = 1]]

idup(c, i) == [c EXCEPT ![i].ref = @ + 1]

\* What ilock() leaves in the cache: it reads the inode if it is not valid.
loaded(i) ==
  IF cache[i].valid THEN cache
  ELSE [cache EXCEPT ![i] = [ref |-> @.ref, valid |-> TRUE, type |-> dinode[i].type,
                             nlink |-> dinode[i].nlink, addr |-> dinode[i].addr]]

\* iupdate(): the inode as the disk gets it from entry e.
copied(e) == [type |-> e.type, nlink |-> e.nlink, addr |-> e.addr]

\* dirlookup(): the directory entries of i, none before it has a block.
entries(c, i) == IF c[i].addr = 0 THEN NoEnts ELSE ents[c[i].addr]

\* balloc() for each inode of `need': the first blocks that are free.
First(n) == {b \in Block \ used : Cardinality({c \in Block \ used : c < b}) < n}
balloc(need) == {f \in [need -> Block \ used] : {f[x] : x \in need} = First(Cardinality(need))}
Blockless(c, S) == {x \in S : c[x].addr = 0}

\* The cache and the blocks once bmap() has given the inodes of f their blocks.
bmap(c, f) == [i \in Inum |-> IF i \in DOMAIN f THEN [c[i] EXCEPT !.addr = f[i]] ELSE c[i]]
bzero(f) == [b \in Block |-> IF \E i \in DOMAIN f : f[i] = b THEN NoEnts ELSE ents[b]]
Blocks(f) == {f[i] : i \in DOMAIN f}

\* A new entry in directory dp, whose block is in the cache c.
dirlink(e, c, dp, name, i) == [e EXCEPT ![c[dp].addr][name] = i]

\* Inodes that ialloc() may take.
ialloc == {i \in Inum : dinode[i].type = "free"}

---------------------------------------------------------------------------
(***************************************************************************)
(* Threads.  cur is namex()'s inode, dp and ip are those of the calls;     *)
(* puts are inodes to iput() before going on at `next'.                    *)
(***************************************************************************)
\* On one CPU nothing runs between the last two steps of iput(), which do not sleep.
Runs(p) == sys = "up" /\ (SMP \/ \A q \in Proc \ {p} : th[q].pc # "iput_end")
At(p, l) == Runs(p) /\ th[p].pc = l

\* The inode that a thread locks in its next step.
wants(p) ==
  CASE th[p].pc \in {"walk", "getcwd"} -> th[p].cur
    [] th[p].pc \in {"create", "link_to", "unlink", "getcwd_up"} -> th[p].dp
    [] th[p].pc \in {"open", "chdir", "link", "link_bad", "create_old", "create_new", "unlink_ip"} -> th[p].ip
    [] th[p].pc = "write" -> ofile[p]
    [] OTHER -> None

NoType(i) == ~cache[i].valid /\ dinode[i].type = "free"

ilock(p, l) == At(p, l) /\ lock[wants(p)] = None /\ ~NoType(wants(p))

ilock_panic(p) ==
  /\ Runs(p) /\ wants(p) # None
  /\ lock[wants(p)] = None /\ NoType(wants(p))
  /\ panic("ilock: no type")

Becomes(p, r) == th' = [th EXCEPT ![p] = r]
\* iput() the inodes of s, no longer anyone's variables, then go to l.
Puts(r, s, l) == [r EXCEPT !.pc = "iput", !.puts = s, !.next = l]

\* A path lookup that fails: sys_link() has a link to take back.
fail(p) == IF th[p].ip # None THEN "link_bad" ELSE "end_op"

\* namex() starts at "/" or at the current directory.
nameiparent(r) == r.call \in {"create", "mkdir", "unlink"} \/ r.ip # None
found(r, i) ==
  IF nameiparent(r)
  THEN [r EXCEPT !.dp = i, !.cur = None,
                 !.pc = IF r.call = "mkdir" THEN "create" ELSE IF r.call = "link" THEN "link_to" ELSE r.call]
  ELSE [r EXCEPT !.ip = i, !.cur = None, !.pc = r.call]

namex(p, r, start, path) ==
  LET s == [r EXCEPT !.cur = start, !.path = path, !.pc = "walk"]
  IN Becomes(p, IF path # <<>> THEN s
                ELSE IF nameiparent(r) THEN Puts([s EXCEPT !.cur = None], <<start>>, fail(p))
                ELSE found(s, start))

Starts(p, c) == {<<root, iget(c, root)>>, <<cwd[p], idup(c, cwd[p])>>}

begin(p, call) ==
  /\ At(p, "user")
  /\ IF Room(cache, root)
     THEN /\ \E path \in Path, s \in Starts(p, cache) :
               /\ cache' = s[2]
               /\ namex(p, [User EXCEPT !.call = call], s[1], path)
          /\ outstanding' = outstanding + 1
          /\ UNCHANGED <<disk, lock, cwd, ofile, sys>>
     ELSE panic("iget: no inodes")

\* One turn of namex()'s loop.
walk(p) ==
  /\ ilock(p, "walk")
  /\ LET r == th[p]
         i == r.cur
         c == loaded(i)
         next == entries(c, i)[Head(r.path)]
     IN IF c[i].type # "dir"
        THEN cache' = c /\ Becomes(p, Puts([r EXCEPT !.cur = None], <<i>>, fail(p))) /\ UNCHANGED sys
        ELSE IF nameiparent(r) /\ Len(r.path) = 1
        THEN cache' = c /\ Becomes(p, found(r, i)) /\ UNCHANGED sys
        ELSE IF next = None
        THEN cache' = c /\ Becomes(p, Puts([r EXCEPT !.cur = None], <<i>>, fail(p))) /\ UNCHANGED sys
        ELSE IF ~Room(c, next)
        THEN sys' = "iget: no inodes" /\ UNCHANGED <<cache, th>>
        ELSE LET n == [r EXCEPT !.path = Tail(@), !.cur = next]
                 m == IF n.path = <<>> THEN found(n, next) ELSE n
             IN cache' = iget(c, next) /\ Becomes(p, Puts(m, <<i>>, m.pc)) /\ UNCHANGED sys
  /\ UNCHANGED <<disk, lock, cwd, ofile, outstanding>>

---------------------------------------------------------------------------
(***************************************************************************)
(* iput().                                                                 *)
(***************************************************************************)
Dropped(r) == IF Tail(r.puts) # <<>> THEN [r EXCEPT !.pc = "iput", !.puts = Tail(@)]
              ELSE IF r.next = "user" THEN User
              ELSE [r EXCEPT !.pc = r.next, !.puts = <<>>, !.next = None]

\* Mutant: other references are not looked at.
Unreferenced_Not(e) == e.valid /\ e.nlink = 0

Unreferenced(e) == e.ref = 1 /\ e.valid /\ e.nlink = 0

iput(p) ==
  /\ At(p, "iput")
  /\ LET i == Head(th[p].puts)
     IN IF Unreferenced(cache[i])
        THEN /\ Becomes(p, [th[p] EXCEPT !.pc = "itrunc"])
             /\ UNCHANGED cache
        ELSE /\ cache' = [cache EXCEPT ![i].ref = @ - 1]
             /\ Becomes(p, Dropped(th[p]))
  /\ UNCHANGED <<disk, lock, cwd, ofile, outstanding, sys>>

\* Mutant: the bit of the next block is cleared.
bfree_Next(u, b) == u \ {b + 1}

bfree(u, b) == u \ {b}

\* The step ends where iupdate() asks for the inode's block, and may sleep.
itrunc(p) ==
  /\ At(p, "itrunc")
  /\ LET i == Head(th[p].puts)
         x == cache[i].addr
     IN IF x # 0 /\ x \notin used
        THEN panic("freeing free block")
        ELSE IF x # 0 /\ outstanding = 0
        THEN panic("log_write outside of trans")
        ELSE /\ used' = IF x = 0 THEN used ELSE bfree(used, x)
             /\ cache' = [cache EXCEPT ![i].addr = 0]
             /\ Becomes(p, [th[p] EXCEPT !.pc = "iupdate"])
             /\ UNCHANGED <<dinode, ents, lock, cwd, ofile, outstanding, sys>>

\* The iupdate() of itrunc(), and type = 0 up to that of iput().
iupdate(p) ==
  /\ At(p, "iupdate")
  /\ LET i == Head(th[p].puts)
     IN IF outstanding = 0
        THEN panic("log_write outside of trans")
        ELSE /\ dinode' = [dinode EXCEPT ![i] = copied(cache[i])]
             /\ cache' = [cache EXCEPT ![i].type = "free"]
             /\ Becomes(p, [th[p] EXCEPT !.pc = "ifree"])
             /\ UNCHANGED <<used, ents, lock, cwd, ofile, outstanding, sys>>

ifree(p) ==
  /\ At(p, "ifree")
  /\ LET i == Head(th[p].puts)
     IN IF outstanding = 0
        THEN panic("log_write outside of trans")
        ELSE /\ dinode' = [dinode EXCEPT ![i] = copied(cache[i])]
             /\ Becomes(p, [th[p] EXCEPT !.pc = "iput_end"])
             /\ UNCHANGED <<used, ents, cache, lock, cwd, ofile, outstanding, sys>>

iput_end(p) ==
  /\ At(p, "iput_end")
  /\ LET i == Head(th[p].puts) IN cache' = [cache EXCEPT ![i].valid = FALSE, ![i].ref = @ - 1]
  /\ Becomes(p, Dropped(th[p]))
  /\ UNCHANGED <<disk, lock, cwd, ofile, outstanding, sys>>

end_op(p) ==
  /\ At(p, "end_op")
  /\ outstanding' = outstanding - 1
  /\ Becomes(p, User)
  /\ UNCHANGED <<disk, cache, lock, cwd, ofile, sys>>

---------------------------------------------------------------------------
(***************************************************************************)
(* System calls, from where namei() or nameiparent() has returned.         *)
(***************************************************************************)
\* The rest of sys_open(): a descriptor, or failure and iunlockput().
opened(p) ==
  /\ ofile[p] = None
  /\ ofile' = [ofile EXCEPT ![p] = th[p].ip]
  /\ Becomes(p, [th[p] EXCEPT !.ip = None, !.pc = "end_op"])
notOpened(p) ==
  /\ Becomes(p, Puts([th[p] EXCEPT !.ip = None], <<th[p].ip>>, "end_op"))
  /\ UNCHANGED ofile

open(p) ==
  /\ ilock(p, "open")
  /\ cache' = loaded(th[p].ip)
  /\ \/ opened(p)
     \/ (ofile[p] # None \/ cache'[th[p].ip].type = "dir") /\ notOpened(p)
  /\ UNCHANGED <<disk, lock, cwd, outstanding, sys>>

chdir(p) ==
  /\ ilock(p, "chdir")
  /\ LET i == th[p].ip
         c == loaded(i)
         r == [th[p] EXCEPT !.ip = None]
     IN /\ cache' = c
        /\ IF c[i].type = "dir"
           THEN /\ Becomes(p, Puts(r, <<cwd[p]>>, "end_op"))
                /\ cwd' = [cwd EXCEPT ![p] = i]
           ELSE /\ Becomes(p, Puts(r, <<i>>, "end_op"))
                /\ UNCHANGED cwd
  /\ UNCHANGED <<disk, lock, ofile, outstanding, sys>>

\* create(): the name is there, or ialloc().
create(p) ==
  /\ ilock(p, "create")
  /\ LET r == th[p]
         c == loaded(r.dp)
         i == entries(c, r.dp)[Head(r.path)]
         type == IF r.call = "mkdir" THEN "dir" ELSE "file"
     IN IF i # None
        THEN IF ~Room(c, i) THEN panic("iget: no inodes")
             ELSE /\ cache' = iget(c, i)
                  /\ Becomes(p, Puts([r EXCEPT !.dp = None, !.ip = i], <<r.dp>>, "create_old"))
                  /\ UNCHANGED <<disk, lock, cwd, ofile, outstanding, sys>>
        ELSE IF ialloc = {} THEN panic("ialloc: no inodes")
        ELSE \E x \in ialloc :
             /\ IF ~Room(c, x) THEN panic("iget: no inodes")
                ELSE /\ dinode' = [dinode EXCEPT ![x] = [Free EXCEPT !.type = type]]
                     /\ cache' = iget(c, x)
                     /\ lock' = [lock EXCEPT ![r.dp] = p]
                     /\ Becomes(p, [r EXCEPT !.ip = x, !.pc = "create_new"])
                     /\ UNCHANGED <<used, ents, cwd, ofile, outstanding, sys>>

create_old(p) ==
  /\ ilock(p, "create_old")
  /\ cache' = loaded(th[p].ip)
  /\ IF th[p].call = "create" /\ cache'[th[p].ip].type = "file" /\ ofile[p] = None
     THEN opened(p)
     ELSE notOpened(p)
  /\ UNCHANGED <<disk, lock, cwd, outstanding, sys>>

create_new(p) ==
  /\ ilock(p, "create_new")
  /\ LET r == th[p]
         dir == r.call = "mkdir"
         c == [loaded(r.ip) EXCEPT ![r.ip].nlink = 1, ![r.dp].nlink = IF dir THEN @ + 1 ELSE @]
         need == Blockless(c, {r.dp} \union IF dir THEN {r.ip} ELSE {})
     IN IF dir /\ c[r.ip].type # "dir" THEN panic("dirlookup not DIR")
        ELSE IF balloc(need) = {} THEN panic("balloc: out of blocks")
        ELSE \E f \in balloc(need) :
             LET d == bmap(c, f)
                 e == dirlink(bzero(f), d, r.dp, Head(r.path), r.ip)
                 changed == {r.ip} \union need \union IF dir THEN {r.dp} ELSE {}
             IN /\ cache' = d
                /\ used' = used \union Blocks(f)
                /\ ents' = IF dir THEN dirlink(dirlink(e, d, r.ip, ".", r.ip), d, r.ip, "..", r.dp) ELSE e
                /\ dinode' = [i \in Inum |-> IF i \in changed THEN copied(d[i]) ELSE dinode[i]]
                /\ lock' = [lock EXCEPT ![r.dp] = None, ![r.ip] = p]
                /\ Becomes(p, Puts([r EXCEPT !.dp = None], <<r.dp>>, "create_end"))
                /\ UNCHANGED <<cwd, ofile, outstanding, sys>>

\* The new inode, still locked, goes to sys_open() or sys_mkdir().
create_end(p) ==
  /\ At(p, "create_end")
  /\ lock' = [lock EXCEPT ![th[p].ip] = None]
  /\ IF th[p].call = "create" /\ ofile[p] = None THEN opened(p) ELSE notOpened(p)
  /\ UNCHANGED <<disk, cache, cwd, outstanding, sys>>

\* Mutant: the new link is not counted.
counted_Not(c, i) == c

counted(c, i) == [c EXCEPT ![i].nlink = @ + 1]

\* sys_link(): count the link first, then find the place for it.
link(p) ==
  /\ ilock(p, "link")
  /\ LET i == th[p].ip
         c == loaded(i)
         n == counted(c, i)
     IN IF c[i].type = "dir"
        THEN /\ cache' = c
             /\ Becomes(p, Puts([th[p] EXCEPT !.ip = None], <<i>>, "end_op"))
             /\ UNCHANGED dinode
        ELSE /\ dinode' = [dinode EXCEPT ![i] = copied(n[i])]
             /\ \E path \in Path, s \in Starts(p, n) :
                  cache' = s[2] /\ namex(p, th[p], s[1], path)
  /\ UNCHANGED <<used, ents, lock, cwd, ofile, outstanding, sys>>

\* dirlink(): a name that is taken is looked up and put again, which leaves its
\* inode, linked as it is, as it was.
link_to(p) ==
  /\ ilock(p, "link_to")
  /\ LET r == th[p]
         c == loaded(r.dp)
         need == Blockless(c, {r.dp})
     IN IF entries(c, r.dp)[Head(r.path)] # None
        THEN /\ cache' = c
             /\ Becomes(p, Puts([r EXCEPT !.dp = None], <<r.dp>>, "link_bad"))
             /\ UNCHANGED <<disk, lock, cwd, ofile, outstanding, sys>>
        ELSE IF balloc(need) = {} THEN panic("balloc: out of blocks")
        ELSE \E f \in balloc(need) :
             LET d == bmap(c, f)
             IN /\ cache' = d
                /\ used' = used \union Blocks(f)
                /\ ents' = dirlink(bzero(f), d, r.dp, Head(r.path), r.ip)
                /\ dinode' = [i \in Inum |-> IF i \in need THEN copied(d[i]) ELSE dinode[i]]
                /\ Becomes(p, Puts([r EXCEPT !.dp = None, !.ip = None], <<r.dp, r.ip>>, "end_op"))
                /\ UNCHANGED <<lock, cwd, ofile, outstanding, sys>>

link_bad(p) ==
  /\ ilock(p, "link_bad")
  /\ LET i == th[p].ip
         n == [loaded(i) EXCEPT ![i].nlink = @ - 1]
     IN /\ cache' = n
        /\ dinode' = [dinode EXCEPT ![i] = copied(n[i])]
        /\ Becomes(p, Puts([th[p] EXCEPT !.ip = None], <<i>>, "end_op"))
  /\ UNCHANGED <<used, ents, lock, cwd, ofile, outstanding, sys>>

\* Mutant: any entry may go.
Undeletable_Not(name) == FALSE

Undeletable(name) == name \in Dots

\* sys_unlink(): the directory stays locked while the inode is asked for.
unlink(p) ==
  /\ ilock(p, "unlink")
  /\ LET r == th[p]
         c == loaded(r.dp)
         name == Head(r.path)
         i == entries(c, r.dp)[name]
     IN IF Undeletable(name) \/ i = None
        THEN /\ cache' = c
             /\ Becomes(p, Puts([r EXCEPT !.dp = None], <<r.dp>>, "end_op"))
             /\ UNCHANGED <<lock, sys>>
        ELSE IF ~Room(c, i)
        THEN sys' = "iget: no inodes" /\ UNCHANGED <<cache, th, lock>>
        ELSE /\ cache' = iget(c, i)
             /\ lock' = [lock EXCEPT ![r.dp] = p]
             /\ Becomes(p, [r EXCEPT !.ip = i, !.pc = "unlink_ip"])
             /\ UNCHANGED sys
  /\ UNCHANGED <<disk, cwd, ofile, outstanding>>

isdirempty(c, i) == \A n \in Name : entries(c, i)[n] = None

\* The inode is locked too.  An iput() of an inode that has links only counts.
unlink_ip(p) ==
  /\ ilock(p, "unlink_ip")
  /\ LET r == th[p]
         c == loaded(r.ip)
         dir == c[r.ip].type = "dir"
         d == [c EXCEPT ![r.dp].nlink = IF dir THEN @ - 1 ELSE @]
     IN IF c[r.ip].nlink < 1
        THEN panic("unlink: nlink < 1")
        ELSE IF dir /\ ~isdirempty(c, r.ip)
        THEN /\ cache' = [c EXCEPT ![r.ip].ref = @ - 1]
             /\ lock' = [lock EXCEPT ![r.dp] = None]
             /\ Becomes(p, Puts([r EXCEPT !.dp = None, !.ip = None], <<r.dp>>, "end_op"))
             /\ UNCHANGED <<disk, cwd, ofile, outstanding, sys>>
        ELSE /\ cache' = d
             /\ dinode' = [dinode EXCEPT ![r.dp] = IF dir THEN copied(d[r.dp]) ELSE @]
             /\ ents' = [ents EXCEPT ![c[r.dp].addr][Head(r.path)] = None]
             /\ lock' = [lock EXCEPT ![r.dp] = None, ![r.ip] = p]
             /\ Becomes(p, Puts([r EXCEPT !.dp = None], <<r.dp>>, "unlink_end"))
             /\ UNCHANGED <<used, cwd, ofile, outstanding, sys>>

unlink_end(p) ==
  /\ At(p, "unlink_end")
  /\ LET i == th[p].ip
         n == [cache EXCEPT ![i].nlink = @ - 1]
     IN /\ cache' = n
        /\ dinode' = [dinode EXCEPT ![i] = copied(n[i])]
        /\ lock' = [lock EXCEPT ![i] = None]
        /\ Becomes(p, Puts([th[p] EXCEPT !.ip = None], <<i>>, "end_op"))
  /\ UNCHANGED <<used, ents, cwd, ofile, outstanding, sys>>

\* Calls on an open file: sys_close(), and sys_write() to a regular file.
sys_close(p) ==
  /\ At(p, "user") /\ ofile[p] # None
  /\ outstanding' = outstanding + 1
  /\ Becomes(p, Puts([User EXCEPT !.call = "close"], <<ofile[p]>>, "end_op"))
  /\ ofile' = [ofile EXCEPT ![p] = None]
  /\ UNCHANGED <<disk, cache, lock, cwd, sys>>

sys_write(p) ==
  /\ At(p, "user") /\ ofile[p] # None
  /\ outstanding' = outstanding + 1
  /\ Becomes(p, [User EXCEPT !.call = "write", !.pc = "write"])
  /\ UNCHANGED <<disk, cache, lock, cwd, ofile, sys>>

write(p) ==
  /\ ilock(p, "write")
  /\ LET i == ofile[p]
         c == loaded(i)
         need == IF c[i].type = "file" THEN Blockless(c, {i}) ELSE {}
     IN IF balloc(need) = {} THEN panic("balloc: out of blocks")
        ELSE \E f \in balloc(need) :
             /\ cache' = bmap(c, f)
             /\ used' = used \union Blocks(f)
             /\ ents' = bzero(f)
             /\ dinode' = [x \in Inum |-> IF x \in need THEN copied(cache'[x]) ELSE dinode[x]]
             /\ Becomes(p, [th[p] EXCEPT !.pc = "end_op"])
             /\ UNCHANGED <<lock, cwd, ofile, outstanding, sys>>

\* sys_getcwd(): no transaction.  The entry ".." of each directory in turn, then
\* the name of the one in the other.
sys_getcwd(p) ==
  /\ At(p, "user")
  /\ cache' = idup(cache, cwd[p])
  /\ Becomes(p, [User EXCEPT !.call = "getcwd", !.cur = cwd[p], !.pc = "getcwd"])
  /\ UNCHANGED <<disk, lock, cwd, ofile, outstanding, sys>>

getcwd(p) ==
  /\ ilock(p, "getcwd")
  /\ LET r == th[p]
         c == loaded(r.cur)
         i == entries(c, r.cur)[".."]
     IN IF c[r.cur].type # "dir" THEN panic("dirlookup not DIR")
        ELSE IF i # None /\ ~Room(c, i) THEN panic("iget: no inodes")
        ELSE /\ IF i = None
                THEN /\ cache' = c
                     /\ Becomes(p, Puts([r EXCEPT !.cur = None], <<r.cur>>, "user"))
                ELSE /\ cache' = iget(c, i)
                     /\ Becomes(p, [r EXCEPT !.dp = i, !.pc = "getcwd_up"])
             /\ UNCHANGED <<disk, lock, cwd, ofile, outstanding, sys>>

getcwd_up(p) ==
  /\ ilock(p, "getcwd_up")
  /\ LET r == th[p]
         c == loaded(r.dp)
         named == \E n \in Name : entries(c, r.dp)[n] = r.cur
     IN /\ cache' = c
        /\ Becomes(p, IF r.dp = r.cur \/ ~named
                      THEN Puts([r EXCEPT !.cur = None, !.dp = None], <<r.dp, r.cur>>, "user")
                      ELSE Puts([r EXCEPT !.cur = r.dp, !.dp = None], <<r.cur>>, "getcwd"))
  /\ UNCHANGED <<disk, lock, cwd, ofile, outstanding, sys>>

---------------------------------------------------------------------------
\* A crash, and a restart on the disk as of a moment with no call in progress.
crash ==
  /\ sys = "up" /\ outstanding = 0
  /\ cache' = [i \in Inum |-> IF i = root THEN [NoEntry EXCEPT !.ref = Cardinality(Proc)] ELSE NoEntry]
  /\ lock' = [i \in Inum |-> None]
  /\ cwd' = [p \in Proc |-> root]
  /\ ofile' = [p \in Proc |-> None]
  /\ th' = [p \in Proc |-> User]
  /\ UNCHANGED <<disk, outstanding, sys>>

Enters(p) ==
  \/ \E call \in Call \intersect {"open", "create", "mkdir", "link", "unlink", "chdir"} : begin(p, call)
  \/ "close" \in Call /\ sys_close(p)
  \/ "write" \in Call /\ sys_write(p)
  \/ "getcwd" \in Call /\ sys_getcwd(p)

Works(p) ==
  \/ walk(p) \/ iput(p) \/ itrunc(p) \/ iupdate(p) \/ ifree(p) \/ iput_end(p) \/ end_op(p)
  \/ open(p) \/ chdir(p) \/ create(p) \/ create_old(p) \/ create_new(p) \/ create_end(p)
  \/ link(p) \/ link_to(p) \/ link_bad(p) \/ unlink(p) \/ unlink_ip(p) \/ unlink_end(p)
  \/ write(p) \/ getcwd(p) \/ getcwd_up(p) \/ ilock_panic(p)

Next == crash \/ \E p \in Proc : Enters(p) \/ Works(p)

Spec == Init /\ [][Next]_vars

---------------------------------------------------------------------------
(***************************************************************************)
(* Properties.                                                             *)
(***************************************************************************)
Count(s, i) == Cardinality({k \in DOMAIN s : s[k] = i})
Pointers(i) ==
  LET of(p) == <<cwd[p], ofile[p], th[p].cur, th[p].dp, th[p].ip>> \o th[p].puts
  IN MapThenSumSet(LAMBDA p : Count(of(p), i), Proc)

\* "ip->ref tracks the number of in-memory pointers to the entry": on every
\* path of every call, the error paths too, what iget() and idup() took is put
\* once, so that no entry is recycled under a pointer or stays in the cache.
RefsCounted == \A i \in Inum : cache[i].ref = Pointers(i)

Dirs == {x \in Inum : dinode[x].type = "dir" /\ dinode[x].addr # 0}
Entry(x, n) == ents[dinode[x].addr][n]
Below(S) == {Entry(x, n) : x \in S \intersect Dirs, n \in Name} \ {None}
Reachable == FoldSet(LAMBDA i, S : S \union Below(S), {root}, Inum)
Links == ((Dirs \intersect Reachable) \X (Name \union {".."})) \ {<<root, "..">>}

\* Two threads never wait for each other's inode, nor one for its own:
\* sys_unlink() and create() lock a directory before what it holds, and drop
\* the lock of a directory before they follow any other entry of it.
holds(p) == {i \in Inum : lock[i] = p}
NoCircle == ~ \E p, q \in Proc : wants(p) \in holds(q) /\ wants(q) \in holds(p)

\* ilock() panics on an inode "no type": an inode that a name or a pointer
\* leads to is never free.
HasType == sys # "ilock: no type"
=============================================================================
