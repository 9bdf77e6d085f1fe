---------------------------- MODULE SchedProofs -----------------------------
(***************************************************************************)
(* Spin-locks, interrupts, sleep() and wakeup(), and the switch, for any   *)
(* number of threads and CPUs: the inductive invariant IInv, and the       *)
(* theorems that follow from it.                                           *)
(*                                                                         *)
(* The code relies on the invariant and states it nowhere. What a CPU may  *)
(* hold is read off the label of the context it executes: Holds names the  *)
(* locks, Depth is ncli. A context keeps its label when it is switched     *)
(* away from, so ptable.lock is handed over at the switch, and the CPU     *)
(* that comes back to the label finds it held.                             *)
(*                                                                         *)
(* The steps that stay on one CPU come first (system calls, traps, the     *)
(* sections under a spin-lock, acquire() and release()), then the ones     *)
(* that reach other threads: wakeup() and the switch.                      *)
(***************************************************************************)
EXTENDS Sched, TLAPS

\* The labels: in a system call, in a trap (ideintr() included), in yield() and
\* in wakeup(), which calls and traps both reach, on either side of the switch,
\* and in scheduler().
Calls == {"user", "sysret", "acquiresleep", "test", "test_done", "held",
          "releasesleep", "unlock", "unlock_done", "iderw", "queue", "wait", "wait_done",
          "sleep", "sleep_release", "sleeping", "woken", "sleep_again", "sleep_dev", "forkret"}
Traps == {"ideintr", "finish", "ideintr_done", "trap", "iret"}
Yields == {"yield", "yielding", "yielded"}
Wakes == {"wakeup", "wakeup1", "wakeup_done"}
Switches == {"sched", "resumed"}
Loop == {"sti", "scheduler", "scan", "scanned", "idle", "hlt"}
Places == Calls \union Traps \union Yields \union Wakes \union Switches \union Loop

\* The spin-locks that a context holds at each label, ...
Holds(x, l) ==
  \/ l = "ptable" /\ pc[x] \in {"sleep_release", "sleeping", "woken", "wakeup1", "wakeup_done", "yielding",
                                "yielded", "sched", "resumed", "forkret", "scan", "scanned"}
  \/ l = "lk" /\ \/ pc[x] \in {"test", "test_done", "unlock", "unlock_done"}
                 \/ pc[x] \in {"sleep", "sleep_release"} /\ lk[x] = "lk"
                 \/ pc[x] \in Wakes /\ tf[x] = "none"
  \/ l = "dev" /\ \/ pc[x] \in {"queue", "wait", "wait_done", "finish", "ideintr_done"}
                  \/ pc[x] \in {"sleep", "sleep_release"} /\ lk[x] = "dev"
                  \/ pc[x] \in Wakes /\ tf[x] # "none"

\* ... and how many they are.
Depth(x) ==
  IF pc[x] \in {"sleep_release", "wakeup1", "wakeup_done"} THEN 2
  ELSE IF pc[x] \in {"test", "test_done", "unlock", "unlock_done", "queue", "wait", "wait_done", "finish",
                     "ideintr_done", "sleep", "wakeup", "sleeping", "woken", "yielding", "yielded",
                     "sched", "resumed", "forkret", "scan", "scanned"} THEN 1
  ELSE 0

\* The type invariant, with the labels known and no panic.
Types ==
  /\ owner \in [Lock -> CPU \union {None}]
  /\ spins \subseteq CPU
  /\ ncli \in [CPU -> Nat]
  /\ intena \in [CPU -> BOOLEAN] /\ intr \in [CPU -> BOOLEAN]
  /\ cur \in [CPU -> Context]
  /\ scan \in [CPU -> 1..(NPROC + 1)]
  /\ skipped \in [CPU -> Nat]
  /\ pc \in [Context -> Places]
  /\ tf \in [Context -> Places \union {"none"}]
  /\ lk \in [Thread -> {"lk", "dev"}]
  /\ saved \in [Thread -> BOOLEAN]
  /\ state \in [Thread -> {"RUNNABLE", "RUNNING", "SLEEPING"}]
  /\ chan \in [Thread -> {"none", "lk", "dev"}]
  /\ locked \in Thread \union {None}
  /\ busy \subseteq Thread
  /\ sys = "up"

\* A CPU executes a thread or its own scheduler().
Own == \A c \in CPU : cur[c] \in Thread \union {c}

\* The CPU c while it executes x: it owns the locks that x holds, ncli counts
\* them and the one it spins for, interrupts are on only outside of them, and
\* cpu->intena is off wherever a thread could see it.  Only scheduler(), and
\* what it switches to until the thread has restored its own, may find it on.
Flags(c, x) ==
  /\ \A l \in Lock : owner[l] = c <=> Holds(x, l)
  /\ ncli[c] = Depth(x) + (IF c \in spins THEN 1 ELSE 0)
  /\ c \in spins => pc[x] \in DOMAIN Acquires
  /\ intr[c] => c \notin spins /\ pc[x] \in {"user", "sysret", "sti", "scheduler", "idle", "hlt"}
  /\ ncli[c] > 0 /\ pc[x] \notin {"forkret", "resumed", "scheduler", "scan", "scanned"} => ~intena[c]

\* Where x can be: traps and yield() have a place to return to, calls do not,
\* wakeup() may be called by either; tf is a place where interrupts are on.
Shape(x) ==
  /\ x \in Thread => pc[x] \notin Loop
  /\ x \in CPU => pc[x] \in Loop \union Traps \union Wakes
  /\ tf[x] # "none" => pc[x] \in Traps \union Yields \union Wakes \union Switches
  /\ pc[x] \in Traps \union Yields => tf[x] # "none"
  /\ x \in CPU /\ pc[x] \in Wakes => tf[x] # "none"
  /\ x \in Thread => tf[x] \in {"none", "user", "sysret"}
  /\ x \in CPU => tf[x] \in {"none", "sti", "scheduler", "idle"}

\* The scheduler() of c.  While c executes a thread it stands behind swtch() in
\* its scan; halting is decided by skipped, which is over NPROC only after a
\* whole pass without a thread, and such a pass has scheduler()'s own intena.
Runner(c) ==
  /\ cur[c] # c => pc[c] = "scan" /\ skipped[c] = 0 /\ scan[c] >= 2
  /\ cur[c] = c => /\ pc[c] = "scheduler" => IF c \in spins THEN intena[c] ELSE intr[c]
                   /\ pc[c] = "scan" => intena[c] \/ (skipped[c] = 0 /\ scan[c] >= 2)
                   /\ pc[c] = "scanned" => intena[c] \/ skipped[c] <= NPROC
                   /\ pc[c] = "idle" => intr[c] \/ skipped[c] <= NPROC
                   /\ pc[c] = "hlt" => intr[c]

\* A thread is RUNNING on the CPU that executes it until it gives that up in
\* sched(), and chan is set from there until sleep() has come back.
Status(t) ==
  /\ chan[t] # "none" => pc[t] \in Switches /\ chan[t] = lk[t] /\ tf[t] = "none"
  /\ pc[t] \in Switches /\ tf[t] = "none" => chan[t] # "none"
  /\ state[t] = "SLEEPING" => chan[t] # "none"
  /\ pc[t] = "resumed" => ~saved[t]
  /\ (\E c \in CPU : cur[c] = t) => (state[t] = "RUNNING" <=> pc[t] # "sched")
  /\ (\A c \in CPU : cur[c] # t) => state[t] # "RUNNING" /\ pc[t] \in {"resumed", "forkret"}

\* What a thread in sleep() waits for has not happened.
Needed(t) == (lk[t] = "lk" /\ locked # None) \/ (lk[t] = "dev" /\ t \in busy)

\* A CPU is on its way to wakeup1(ch).
Waker(ch) == \E c \in CPU : /\ pc[cur[c]] \in {"wakeup", "wakeup1"}
                            /\ (tf[cur[c]] = "none") = (ch = "lk")

\* With lk held the condition cannot change; once ptable.lock is held instead,
\* whoever changes it finds the sleeper.
Waits(t) ==
  /\ pc[t] \in {"sleep", "sleep_release"} => Needed(t)
  /\ pc[t] = "sleeping" \/ state[t] = "SLEEPING" => Needed(t) \/ Waker(lk[t])

\* The inductive invariant.
IInv ==
  /\ Types /\ Own /\ OneStack
  /\ \A c \in CPU, x \in Context : cur[c] = x => Flags(c, x)
  /\ \A c \in CPU : Runner(c)
  /\ \A x \in Context : Shape(x)
  /\ \A t \in Thread : Status(t) /\ Waits(t)

---------------------------------------------------------------------------
\* A step of c that changes what belongs to c and to the context it executes.
Mine(c) ==
  /\ cur' = cur
  /\ \A d \in CPU \ {c} :
       /\ ncli'[d] = ncli[d] /\ intena'[d] = intena[d] /\ intr'[d] = intr[d]
       /\ scan'[d] = scan[d] /\ skipped'[d] = skipped[d]
       /\ d \in spins' <=> d \in spins
       /\ \A l \in Lock : owner'[l] = d <=> owner[l] = d
  /\ \A y \in Context \ {cur[c]} : pc'[y] = pc[y] /\ tf'[y] = tf[y]
  /\ \A t \in Thread \ {cur[c]} :
       lk'[t] = lk[t] /\ saved'[t] = saved[t] /\ state'[t] = state[t] /\ chan'[t] = chan[t]

\* Most leaves are about labels and sets of locks: Zenon goes first, and leaves
\* the ones with arithmetic to SMT.
USE ZenonT(5), SMTT(30)
USE DEF At, Goto, flags, locals, table, objects,
        Calls, Traps, Yields, Wakes, Switches, Loop

\* SchedConstants keeps threads, CPUs and None apart.
LEMMA Apart == Thread \intersect CPU = {} /\ None \notin CPU /\ None \notin Thread
BY SchedConstants, SMT DEF Thread, None

\* A scheduler() is executed by its own CPU, and no context by two.
LEMMA Executes == ASSUME IInv, NEW c \in CPU
                  PROVE /\ cur[c] \in Context
                        /\ cur[c] \in CPU => cur[c] = c
                        /\ \A d \in CPU \ {c} : cur[d] # cur[c] /\ cur[c] # d
BY Apart, SMT DEF IInv, Types, Own, OneStack, Context

\* Flags(d, y) depends on nothing else than this.
LEMMA SameFlags ==
  ASSUME NEW d, NEW y, Flags(d, y), pc'[y] = pc[y], tf'[y] = tf[y],
         pc[y] \in {"sleep", "sleep_release"} => lk'[y] = lk[y],
         ncli'[d] = ncli[d], intena'[d] = intena[d], intr'[d] = intr[d],
         d \in spins' <=> d \in spins,
         \A l \in Lock : owner'[l] = d <=> owner[l] = d
  PROVE  Flags(d, y)'
<1>1. \A l \in Lock : Holds(y, l)' <=> Holds(y, l)
  BY DEF Holds
<1>2. Depth(y)' = Depth(y)
  BY DEF Depth
<1>3. QED
  BY <1>1, <1>2 DEF Flags

\* A step of c that is Mine(c) keeps the invariant of the other CPUs and of the
\* contexts that c does not execute.
LEMMA Others ==
  ASSUME IInv, NEW c \in CPU, Mine(c)
  PROVE  /\ Own' /\ OneStack'
         /\ \A d \in CPU \ {c}, y \in Context : cur'[d] = y => Flags(d, y)'
         /\ \A d \in CPU \ {c} : Runner(d)'
         /\ \A y \in Context \ {cur[c]} : Shape(y)'
         /\ \A t \in Thread \ {cur[c]} : Status(t)'
<1>1. Own' /\ OneStack'
  BY DEF IInv, Own, OneStack, Mine
<1>2. ASSUME NEW d \in CPU \ {c}, NEW y \in Context, cur'[d] = y
      PROVE Flags(d, y)' /\ Runner(d)'
  <2>1. cur[d] = y /\ y # cur[c] /\ d \in Context \ {cur[c]}
    BY <1>2, Executes DEF Mine, Context
  <2>2. pc'[y] = pc[y] /\ tf'[y] = tf[y] /\ pc'[d] = pc[d]
    BY <1>2, <2>1 DEF Mine
  <2>3. pc[y] \in {"sleep", "sleep_release"} => lk'[y] = lk[y]
    BY <1>2, <2>1 DEF IInv, Shape, Context, Mine
  <2>4. Flags(d, y) /\ Runner(d)
    BY <1>2, <2>1 DEF IInv
  <2>5. /\ ncli'[d] = ncli[d] /\ intena'[d] = intena[d] /\ intr'[d] = intr[d]
        /\ scan'[d] = scan[d] /\ skipped'[d] = skipped[d]
        /\ d \in spins' <=> d \in spins
        /\ \A l \in Lock : owner'[l] = d <=> owner[l] = d
    BY <1>2 DEF Mine
  <2>6. Flags(d, y)'
    BY <2>2, <2>3, <2>4, <2>5, SameFlags
  <2>7. Runner(d)'
    BY <1>2, <2>1, <2>2, <2>4, <2>5 DEF Runner
  <2>8. QED
    BY <2>6, <2>7
<1>3. ASSUME NEW y \in Context \ {cur[c]}
      PROVE Shape(y)'
  BY <1>3, SMT DEF IInv, Shape, Mine
<1>4. ASSUME NEW t \in Thread \ {cur[c]}
      PROVE Status(t)'
  BY <1>4, SMT DEF IInv, Status, Mine, Context
<1>5. \A d \in CPU \ {c} : cur'[d] \in Context
  BY Executes DEF Mine
<1>6. QED
  BY <1>1, <1>2, <1>3, <1>4, <1>5

\* What remains to be shown of such a step: c, the context it executes, and the
\* sleepers.
LEMMA Keeps ==
  ASSUME IInv, NEW c \in CPU, NEW x, x = cur[c], Mine(c),
         Types', Flags(c, x)', Runner(c)', Shape(x)', x \in Thread => Status(x)',
         \A t \in Thread : Waits(t)'
  PROVE  IInv'
<1>1. cur'[c] = x
  BY DEF Mine
<1>2. \A d \in CPU, y \in Context : cur'[d] = y => Flags(d, y)'
  BY <1>1, Others
<1>3. \A d \in CPU : Runner(d)'
  BY Others
<1>4. \A y \in Context : Shape(y)'
  BY Others
<1>5. \A t \in Thread : Status(t)'
  BY Others
<1>6. QED
  BY <1>2, <1>3, <1>4, <1>5, Others DEF IInv

\* Somebody on the way to wakeup1() stays there.
LEMMA StillWakes ==
  ASSUME IInv, NEW c \in CPU, NEW x, x = cur[c], Mine(c),
         pc[x] \in {"wakeup", "wakeup1"} => pc'[x] \in {"wakeup", "wakeup1"} /\ tf'[x] = tf[x],
         NEW ch, Waker(ch)
  PROVE  \E d \in CPU : /\ pc'[cur'[d]] \in {"wakeup", "wakeup1"}
                        /\ (tf'[cur'[d]] = "none") = (ch = "lk")
<1>1. PICK d \in CPU : pc[cur[d]] \in {"wakeup", "wakeup1"} /\ (tf[cur[d]] = "none") = (ch = "lk")
  BY DEF Waker
<1>2. cur'[d] = cur[d] /\ cur[d] \in Context
  BY Executes DEF Mine
<1>3. pc'[cur[d]] \in {"wakeup", "wakeup1"} /\ tf'[cur[d]] = tf[cur[d]]
  BY <1>1, <1>2 DEF Mine
<1>4. QED
  BY <1>1, <1>2, <1>3, SMT

\* A thread that waits is not let down by a step that leaves its condition and
\* the way to wakeup1() alone.
LEMMA StillWaits ==
  ASSUME IInv, NEW c \in CPU, NEW x, x = cur[c], Mine(c),
         locked # None => locked' # None, busy \subseteq busy',
         pc[x] \in {"wakeup", "wakeup1"} => pc'[x] \in {"wakeup", "wakeup1"} /\ tf'[x] = tf[x],
         NEW t \in Thread, t # x
  PROVE  Waits(t)'
<1>1. pc'[t] = pc[t] /\ state'[t] = state[t] /\ lk'[t] = lk[t]
  BY DEF Mine, Context
<1>2. Needed(t) => Needed(t)'
  BY <1>1 DEF Needed
<1>3. ASSUME Waker(lk[t]) PROVE Waker(lk[t])'
  <2>1. \E d \in CPU : /\ pc'[cur'[d]] \in {"wakeup", "wakeup1"}
                       /\ (tf'[cur'[d]] = "none") = (lk[t] = "lk")
    BY <1>3, StillWakes
  <2>2. QED
    BY <1>1, <2>1 DEF Waker
<1>4. Waits(t)
  BY DEF IInv
<1>5. QED
  BY <1>1, <1>2, <1>3, <1>4 DEF Waits

\* What the invariant says of the CPU that moves and of the context it executes.
LEMMA Here ==
  ASSUME IInv, NEW c \in CPU, NEW x, x = cur[c]
  PROVE  /\ x \in Context /\ (x \in CPU => x = c) /\ (x \in CPU => x \notin Thread)
         /\ Types /\ Flags(c, x) /\ Runner(c) /\ Shape(x)
         /\ x \in Thread => Status(x) /\ Waits(x)
BY Executes, Apart DEF IInv

\* The steps that hold no spin-lock: system calls, traps, and scheduler()
\* outside its pass.
Goes(c, x) ==
  /\ UNCHANGED <<owner, spins, ncli, intena, scan, lk, saved, state, chan, locked, busy>>
  /\ c \notin spins
  /\ \/ /\ \/ pc[x] = "user" /\ x \in Thread /\ pc'[x] \in {"acquiresleep", "iderw"} /\ ~intr'[c]
           \/ pc[x] = "sysret" /\ x \in Thread /\ pc'[x] = "user" /\ intr'[c]
           \/ pc[x] = "held" /\ x \in Thread /\ pc'[x] \in {"iderw", "releasesleep"} /\ (intr'[c] <=> intr[c])
           \/ pc[x] = "sti" /\ x = c /\ pc'[x] = "scheduler" /\ intr'[c]
           \/ /\ pc[x] = "idle" /\ x = c /\ (intr'[c] <=> intr[c])
              /\ pc'[x] = IF skipped[c] > NPROC THEN "hlt" ELSE "sti"
           \/ /\ pc[x] = "trap" /\ (intr'[c] <=> intr[c])
              /\ pc'[x] = "iret" \/ (x \in Thread /\ pc'[x] = "yield")
        /\ tf'[x] = tf[x] /\ skipped'[c] = skipped[c]
     \/ /\ pc[x] = "iret" /\ pc'[x] = tf[x] /\ tf'[x] = "none"
        /\ intr'[c] /\ skipped'[c] = skipped[c]
     \/ /\ pc[x] \in {"user", "sysret", "sti", "scheduler", "idle", "hlt"} /\ pc'[x] \in {"ideintr", "trap"}
        /\ tf'[x] = (IF pc[x] = "hlt" THEN "sti" ELSE pc[x]) /\ ~intr'[c]
        /\ skipped'[c] = IF pc[x] = "hlt" THEN 0 ELSE skipped[c]

\* They hold no lock before and after, and interrupts come on only on the way
\* back to where they may be.
LEMMA GoesKeeps ==
  ASSUME IInv, NEW c \in CPU, NEW x \in Context, x = cur[c], Goes(c, x), Types', Mine(c)
  PROVE  IInv'
<1> SUFFICES ASSUME x \in CPU => x = c /\ x \notin Thread, c \notin spins,
                    Types, Flags(c, x), Runner(c), Shape(x), x \in Thread => Status(x) /\ Waits(x)
             PROVE  IInv'
  BY Here DEF Goes
<1>1. Shape(x)'
  BY DEF Goes, Shape, Context
<1>2. Flags(c, x)'
  <2>1. pc[x] \in {"user", "sysret", "held", "sti", "scheduler", "idle", "hlt", "trap", "iret"}
    BY DEF Goes
  <2>2. pc'[x] \in {"user", "sysret", "acquiresleep", "iderw", "releasesleep", "sti", "scheduler",
                    "idle", "hlt", "trap", "iret", "ideintr", "yield"}
    BY DEF Goes, Shape, Context
  <2>3. \A l \in Lock : ~Holds(x, l) /\ ~Holds(x, l)'
    BY <2>1, <2>2 DEF Holds
  <2>4. Depth(x) = 0 /\ Depth(x)' = 0
    BY <2>1, <2>2 DEF Depth
  <2>5. intr'[c] => pc'[x] \in {"user", "sysret", "sti", "scheduler", "idle", "hlt"}
    BY DEF Goes, Flags, Shape, Context
  <2>6. QED
    BY <2>3, <2>4, <2>5, SMT DEF Goes, Flags
<1>3. Runner(c)'
  <2>1. CASE x # c
    BY <2>1 DEF Goes, Runner, Mine, Context
  <2>2. CASE x = c
    <3>1. cur'[c] = c /\ NPROC \in Nat /\ skipped[c] \in Nat
      BY <2>2, SchedConstants, SMT DEF Mine, Types
    <3>2. pc'[c] \notin {"scan", "scanned"}
      BY <2>2 DEF Goes, Shape
    <3>3. pc'[c] = "scheduler" => intr'[c]
      BY <2>2 DEF Goes
    <3>4. pc'[c] = "idle" => intr'[c]
      BY <2>2 DEF Goes
    <3>5. pc'[c] = "hlt" => intr'[c]
      BY <2>2, <3>1, SMT DEF Goes, Runner, Shape
    <3>6. QED
      BY <2>2, <3>1, <3>2, <3>3, <3>4, <3>5 DEF Goes, Runner
  <2>3. QED
    BY <2>1, <2>2
<1>4. x \in Thread => Status(x)'
  BY DEF Goes, Status, Shape, Mine
<1>5. ASSUME NEW t \in Thread PROVE Waits(t)'
  <2>1. CASE t = x
    BY <2>1 DEF Goes, Status, Waits, Shape
  <2>2. CASE t # x
    BY <2>2, StillWaits DEF Goes
  <2>3. QED
    BY <2>1, <2>2
<1>6. QED
  BY <1>1, <1>2, <1>3, <1>4, <1>5, Keeps

\* The steps of a thread that holds spin-locks and keeps them.
Works(c, x) ==
  /\ UNCHANGED <<owner, spins, ncli, intr, scan, skipped, saved, tf>>
  /\ c \notin spins /\ x \in Thread
  /\ \/ /\ pc[x] = "test" /\ locked # None /\ pc'[x] = "sleep" /\ lk'[x] = "lk"
        /\ UNCHANGED <<intena, state, chan, locked, busy>>
     \/ /\ pc[x] = "test" /\ locked' = x /\ pc'[x] = "test_done"
        /\ UNCHANGED <<intena, lk, state, chan, busy>>
     \/ /\ pc[x] = "queue" /\ busy' = busy \union {x} /\ pc'[x] = "wait"
        /\ UNCHANGED <<intena, lk, state, chan, locked>>
     \/ /\ pc[x] = "wait" /\ x \in busy /\ pc'[x] = "sleep" /\ lk'[x] = "dev"
        /\ UNCHANGED <<intena, state, chan, locked, busy>>
     \/ /\ pc[x] = "wait" /\ pc'[x] = "wait_done"
        /\ UNCHANGED <<intena, lk, state, chan, locked, busy>>
     \/ /\ pc[x] = "sleeping" /\ state'[x] = "SLEEPING" /\ chan'[x] = lk[x] /\ pc'[x] = "sched"
        /\ UNCHANGED <<intena, lk, locked, busy>>
     \/ /\ pc[x] = "yielding" /\ state'[x] = "RUNNABLE" /\ pc'[x] = "sched"
        /\ UNCHANGED <<intena, lk, chan, locked, busy>>
     \/ /\ pc[x] = "resumed" /\ ~intena'[c] /\ chan'[x] = "none"
        /\ pc'[x] = IF tf[x] # "none" THEN "yielded" ELSE "woken"
        /\ UNCHANGED <<lk, state, locked, busy>>

\* They keep their one lock; a thread goes to sleep only for what it has found
\* under that lock.
LEMMA WorksKeeps ==
  ASSUME IInv, NEW c \in CPU, NEW x \in Context, x = cur[c], Works(c, x), Types', Mine(c)
  PROVE  IInv'
<1> SUFFICES ASSUME x \in Thread, x # c, c \notin spins, lk[x] \in {"lk", "dev"},
                    Types, Flags(c, x), Runner(c), Shape(x), Status(x), Waits(x)
             PROVE  IInv'
  BY Here, Apart, SMT DEF Works, Types
<1>1. Shape(x)'
  BY DEF Works, Shape
<1>2. Flags(c, x)'
  <2>1. \A l \in Lock : Holds(x, l)' <=> Holds(x, l)
    BY DEF Works, Holds, Lock
  <2>2. Depth(x) = 1 /\ Depth(x)' = 1
    BY DEF Works, Depth
  <2>3. ~intr'[c] /\ ~intena'[c]
    BY <2>2, SMT DEF Works, Flags
  <2>4. QED
    BY <2>1, <2>2, <2>3 DEF Works, Flags
<1>3. Runner(c)'
  BY DEF Works, Runner, Mine, Context
<1>4. Status(x)'
  BY DEF Works, Status, Shape, Mine
<1>5. ASSUME NEW t \in Thread PROVE Waits(t)'
  <2>1. (locked # None => locked' # None) /\ busy \subseteq busy' /\ pc[x] \notin {"wakeup", "wakeup1"}
    BY Apart DEF Works
  <2>2. CASE t = x /\ pc[x] # "sleeping"
    BY <2>2 DEF Works, Status, Waits, Needed
  <2>3. CASE t = x /\ pc[x] = "sleeping"
    <3>1. Needed(x) \/ Waker(lk[x])
      BY <2>3 DEF Waits
    <3>2. lk' = lk /\ Needed(x)' = Needed(x) /\ pc'[x] = "sched"
      BY <2>3 DEF Works, Needed
    <3>3. ASSUME Waker(lk[x]) PROVE Waker(lk[x])'
      <4>1. \E d \in CPU : /\ pc'[cur'[d]] \in {"wakeup", "wakeup1"}
                           /\ (tf'[cur'[d]] = "none") = (lk[x] = "lk")
        BY <2>3, <3>3, StillWakes
      <4>2. QED
        BY <3>2, <4>1 DEF Waker
    <3>4. QED
      BY <2>3, <3>1, <3>2, <3>3 DEF Waits
  <2>4. CASE t # x
    BY <2>1, <2>4, StillWaits
  <2>5. QED
    BY <2>2, <2>3, <2>4
<1>6. QED
  BY <1>1, <1>2, <1>3, <1>4, <1>5, Keeps

\* System calls, trap() and the unlocked part of scheduler() are steps without a
\* lock.
LEMMA EntersKeeps ==
  ASSUME IInv, NEW c \in CPU,
         syscall(c) \/ sysret(c) \/ trap(c) \/ iret(c) \/ held(c) \/ sti(c) \/ idle(c) \/ interrupt(c)
  PROVE  IInv'
<1> SUFFICES ASSUME NEW x \in Context, x = cur[c], x \in CPU => x = c /\ x \notin Thread,
                    Types, Flags(c, x), Shape(x), x \in Thread => Status(x)
             PROVE  Types' /\ Mine(c) /\ Goes(c, x)
  BY Here, GoesKeeps
<1>1. CASE syscall(c)
  <2>1. PICK m \in {"acquiresleep", "iderw"} : pc' = [pc EXCEPT ![x] = m]
    BY <1>1 DEF syscall
  <2>2. /\ intr' = [intr EXCEPT ![c] = FALSE] /\ c \notin spins /\ pc[x] = "user"
        /\ UNCHANGED <<owner, spins, ncli, intena, cur, locals, tf, table, objects, sys>>
    BY <1>1 DEF syscall
  <2>3. x \in Thread
    BY <2>2 DEF Shape, Context
  <2>4. Types'
    BY <2>1, <2>2 DEF Types, Places
  <2>5. Mine(c)
    BY <2>1, <2>2 DEF Types, Mine
  <2>6. pc'[x] = m /\ ~intr'[c]
    BY <2>1, <2>2 DEF Types
  <2>7. Goes(c, x)
    BY <2>1, <2>2, <2>3, <2>6 DEF Goes
  <2>8. QED
    BY <2>4, <2>5, <2>7
<1>2. CASE sysret(c)
  <2>1. /\ pc' = [pc EXCEPT ![x] = "user"] /\ intr' = [intr EXCEPT ![c] = TRUE]
        /\ c \notin spins /\ pc[x] = "sysret"
        /\ UNCHANGED <<owner, spins, ncli, intena, cur, locals, tf, table, objects, sys>>
    BY <1>2 DEF sysret
  <2>2. x \in Thread
    BY <2>1 DEF Shape, Context
  <2>3. Types'
    BY <2>1 DEF Types, Places
  <2>4. Mine(c)
    BY <2>1 DEF Types, Mine
  <2>5. pc'[x] = "user" /\ intr'[c]
    BY <2>1 DEF Types
  <2>6. Goes(c, x)
    BY <2>1, <2>2, <2>5 DEF Goes
  <2>7. QED
    BY <2>3, <2>4, <2>6
<1>3. CASE trap(c)
  <2>1. PICK m \in {"yield", "iret"} : pc' = [pc EXCEPT ![x] = m] /\ (m = "yield" => x \in Thread)
    BY <1>3 DEF trap
  <2>2. UNCHANGED <<owner, spins, flags, cur, locals, tf, table, objects, sys>> /\ c \notin spins /\ pc[x] = "trap"
    BY <1>3 DEF trap
  <2>3. Types'
    BY <2>1, <2>2 DEF Types, Places
  <2>4. Mine(c)
    BY <2>1, <2>2 DEF Types, Mine
  <2>5. pc'[x] = m
    BY <2>1 DEF Types
  <2>6. Goes(c, x)
    BY <2>1, <2>2, <2>5 DEF Goes
  <2>7. QED
    BY <2>3, <2>4, <2>6
<1>4. CASE iret(c)
  <2>1. /\ pc' = [pc EXCEPT ![x] = tf[x]] /\ tf' = [tf EXCEPT ![x] = "none"]
        /\ intr' = [intr EXCEPT ![c] = TRUE] /\ c \notin spins /\ pc[x] = "iret"
        /\ UNCHANGED <<owner, spins, ncli, intena, cur, locals, table, objects, sys>>
    BY <1>4 DEF iret
  <2>2. tf[x] \in Places
    BY <2>1 DEF Types, Shape
  <2>3. Types'
    BY <2>1, <2>2 DEF Types
  <2>4. Mine(c)
    BY <2>1 DEF Types, Mine
  <2>5. pc'[x] = tf[x] /\ tf'[x] = "none" /\ intr'[c]
    BY <2>1 DEF Types
  <2>6. Goes(c, x)
    BY <2>1, <2>5 DEF Goes
  <2>7. QED
    BY <2>3, <2>4, <2>6
<1>5. CASE held(c)
  <2>1. PICK m \in {"iderw", "releasesleep"} : pc' = [pc EXCEPT ![x] = m]
    BY <1>5 DEF held
  <2>2. UNCHANGED <<owner, spins, flags, cur, locals, tf, table, objects, sys>> /\ c \notin spins /\ pc[x] = "held"
    BY <1>5 DEF held
  <2>3. x \in Thread
    BY <2>2 DEF Shape, Context
  <2>4. Types'
    BY <2>1, <2>2 DEF Types, Places
  <2>5. Mine(c)
    BY <2>1, <2>2 DEF Types, Mine
  <2>6. pc'[x] = m
    BY <2>1 DEF Types
  <2>7. Goes(c, x)
    BY <2>1, <2>2, <2>3, <2>6 DEF Goes
  <2>8. QED
    BY <2>4, <2>5, <2>7
<1>6. CASE sti(c)
  <2>1. /\ pc' = [pc EXCEPT ![x] = "scheduler"] /\ intr' = [intr EXCEPT ![c] = TRUE]
        /\ c \notin spins /\ pc[x] = "sti"
        /\ UNCHANGED <<owner, spins, ncli, intena, cur, locals, tf, table, objects, sys>>
    BY <1>6 DEF sti
  <2>2. x = c
    BY <2>1 DEF Shape, Context
  <2>3. Types'
    BY <2>1 DEF Types, Places
  <2>4. Mine(c)
    BY <2>1 DEF Types, Mine
  <2>5. pc'[x] = "scheduler" /\ intr'[c]
    BY <2>1 DEF Types
  <2>6. Goes(c, x)
    BY <2>1, <2>2, <2>5 DEF Goes
  <2>7. QED
    BY <2>3, <2>4, <2>6
<1>7. CASE idle(c)
  <2>1. PICK m \in {"hlt", "sti"} : pc' = [pc EXCEPT ![x] = m] /\ m = IF skipped[c] > NPROC THEN "hlt" ELSE "sti"
    BY <1>7 DEF idle
  <2>2. UNCHANGED <<owner, spins, flags, cur, locals, tf, table, objects, sys>> /\ c \notin spins /\ pc[x] = "idle"
    BY <1>7 DEF idle
  <2>3. x = c
    BY <2>2 DEF Shape, Context
  <2>4. Types'
    BY <2>1, <2>2 DEF Types, Places
  <2>5. Mine(c)
    BY <2>1, <2>2 DEF Types, Mine
  <2>6. pc'[x] = m
    BY <2>1 DEF Types
  <2>7. Goes(c, x)
    BY <2>1, <2>2, <2>3, <2>6 DEF Goes
  <2>8. QED
    BY <2>4, <2>5, <2>7
<1>8. CASE interrupt(c)
  <2>0. PICK l : l = IF pc[x] = "hlt" THEN "sti" ELSE pc[x]
    OBVIOUS
  <2>1. PICK m \in {"ideintr", "trap"} : pc' = [pc EXCEPT ![x] = m] /\ tf' = [tf EXCEPT ![x] = l]
    BY <1>8, <2>0 DEF interrupt
  <2>2. /\ skipped' = IF pc[x] = "hlt" THEN [skipped EXCEPT ![c] = 0] ELSE skipped
        /\ intr' = [intr EXCEPT ![c] = FALSE] /\ intr[c] /\ c \notin spins
        /\ UNCHANGED <<owner, spins, ncli, intena, cur, scan, lk, saved, table, objects, sys>>
    BY <1>8 DEF interrupt
  <2>3. pc[x] \in {"user", "sysret", "sti", "scheduler", "idle", "hlt"} /\ l \in Places
    <3>1. pc[x] \in {"user", "sysret", "sti", "scheduler", "idle", "hlt"}
      BY <2>2, Zenon DEF Flags
    <3>2. QED
      BY <2>0, <3>1 DEF Places
  <2>4. skipped' \in [CPU -> Nat] /\ (\A d \in CPU \ {c} : skipped'[d] = skipped[d])
        /\ skipped'[c] = IF pc[x] = "hlt" THEN 0 ELSE skipped[c]
    <3>1. 0 \in Nat /\ skipped \in [CPU -> Nat]
      BY SMT DEF Types
    <3>2. QED
      BY <2>2, <3>1, Zenon
  <2>5. Types'
    BY <2>1, <2>2, <2>3, <2>4, Zenon DEF Types, Places
  <2>6. Mine(c)
    BY <2>1, <2>2, <2>4 DEF Types, Mine
  <2>7. pc'[x] = m /\ tf'[x] = l /\ ~intr'[c]
    BY <2>1, <2>2 DEF Types
  <2>8. Goes(c, x)
    BY <2>0, <2>1, <2>2, <2>3, <2>4, <2>7, Zenon DEF Goes
  <2>9. QED
    BY <2>5, <2>6, <2>8
<1>9. QED
  BY <1>1, <1>2, <1>3, <1>4, <1>5, <1>6, <1>7, <1>8

\* acquiresleep(), iderw(), sleep(), yield() and the return from sched() are
\* steps under a lock.
LEMMA UnderLockKeeps ==
  ASSUME IInv, NEW c \in CPU,
         test(c) \/ queue(c) \/ wait(c) \/ sleep(c) \/ yield(c) \/ resumed(c)
  PROVE  IInv'
<1> SUFFICES ASSUME NEW x \in Context, x = cur[c], x \in CPU => x = c /\ x \notin Thread,
                    Types, Flags(c, x), Shape(x), x \in Thread => Status(x)
             PROVE  Types' /\ Mine(c) /\ Works(c, x)
  BY Here, WorksKeeps
<1>1. CASE test(c)
  <2>1. /\ UNCHANGED <<owner, spins, flags, cur, scan, skipped, saved, tf, table, busy, sys>>
        /\ c \notin spins /\ pc[x] = "test" /\ x \in Thread
    BY <1>1 DEF test, Shape, Context
  <2>2. CASE locked # None /\ pc' = [pc EXCEPT ![x] = "sleep"] /\ lk' = [lk EXCEPT ![x] = "lk"] /\ locked' = locked
    <3>1. Types'
      BY <2>1, <2>2 DEF Types, Places
    <3>2. Mine(c) /\ Works(c, x)
      BY <2>1, <2>2 DEF Types, Mine, Works
    <3>3. QED
      BY <3>1, <3>2
  <2>3. CASE pc' = [pc EXCEPT ![x] = "test_done"] /\ locked' = x /\ lk' = lk
    <3>1. Types'
      BY <2>1, <2>3 DEF Types, Places
    <3>2. Mine(c) /\ Works(c, x)
      BY <2>1, <2>3 DEF Types, Mine, Works
    <3>3. QED
      BY <3>1, <3>2
  <2>4. QED
    BY <1>1, <2>2, <2>3 DEF test
<1>2. CASE queue(c)
  BY <1>2 DEF queue, Types, Places, Mine, Works, Shape, Context
<1>3. CASE wait(c)
  <2>1. /\ UNCHANGED <<owner, spins, flags, cur, scan, skipped, saved, tf, table, objects, sys>>
        /\ c \notin spins /\ pc[x] = "wait" /\ x \in Thread
    BY <1>3 DEF wait, Shape, Context
  <2>2. CASE x \in busy /\ pc' = [pc EXCEPT ![x] = "sleep"] /\ lk' = [lk EXCEPT ![x] = "dev"]
    <3>1. Types'
      BY <2>1, <2>2 DEF Types, Places
    <3>2. Mine(c) /\ Works(c, x)
      BY <2>1, <2>2 DEF Types, Mine, Works
    <3>3. QED
      BY <3>1, <3>2
  <2>3. CASE pc' = [pc EXCEPT ![x] = "wait_done"] /\ lk' = lk
    <3>1. Types'
      BY <2>1, <2>3 DEF Types, Places
    <3>2. Mine(c) /\ Works(c, x)
      BY <2>1, <2>3 DEF Types, Mine, Works
    <3>3. QED
      BY <3>1, <3>2
  <2>4. QED
    BY <1>3, <2>2, <2>3 DEF wait
<1>4. CASE sleep(c)
  BY <1>4, SMT DEF sleep, Types, Places, Mine, Works, Shape, Context
<1>5. CASE yield(c)
  BY <1>5 DEF yield, Types, Places, Mine, Works, Shape, Context
<1>6. CASE resumed(c)
  <2>1. /\ UNCHANGED <<owner, spins, ncli, intr, cur, locals, tf, state, objects, sys>>
        /\ c \notin spins /\ pc[x] = "resumed" /\ x \in Thread
    BY <1>6 DEF resumed, Shape, Context
  <2>2. /\ intena' = [intena EXCEPT ![c] = saved[x]] /\ chan' = [chan EXCEPT ![x] = "none"]
        /\ pc' = [pc EXCEPT ![x] = IF chan[x] = "none" THEN "yielded" ELSE "woken"]
    BY <1>6 DEF resumed
  <2>3. Types'
    BY <2>1, <2>2 DEF Types, Places
  <2>4. Mine(c)
    BY <2>1, <2>2 DEF Types, Mine
  <2>5. ~saved[x] /\ (chan[x] = "none" <=> tf[x] # "none")
    BY <2>1 DEF Status
  <2>6. ~intena'[c] /\ chan'[x] = "none" /\ pc'[x] = IF tf[x] # "none" THEN "yielded" ELSE "woken"
    BY <2>1, <2>2, <2>5 DEF Types
  <2>7. Works(c, x)
    BY <2>1, <2>6 DEF Works
  <2>8. QED
    BY <2>3, <2>4, <2>7
<1>7. QED
  BY <1>1, <1>2, <1>3, <1>4, <1>5, <1>6

\* What Flags(c, x) comes to when c does not wait for a lock.
LEMMA Unspun ==
  ASSUME NEW c, NEW x, \A l \in Lock : owner'[l] = c <=> Holds(x, l)',
         ncli'[c] = Depth(x)', ncli'[c] \in Nat, c \notin spins',
         intr'[c] => pc'[x] \in {"user", "sysret", "sti", "scheduler", "idle", "hlt"},
         ncli'[c] > 0 /\ pc'[x] \notin {"forkret", "resumed", "scheduler", "scan", "scanned"} => ~intena'[c]
  PROVE  Flags(c, x)'
BY SMT DEF Flags

\* The rows of Releases(x).
Gives(x, l, m) ==
  \/ pc[x] = "test_done" /\ l = "lk" /\ m = "held"
  \/ pc[x] = "unlock_done" /\ l = "lk" /\ m = "sysret"
  \/ pc[x] = "wait_done" /\ l = "dev" /\ m \in {"releasesleep", "sysret"}
  \/ pc[x] = "sleep_release" /\ l = lk[x] /\ m = "sleeping"
  \/ pc[x] = "woken" /\ l = "ptable" /\ m \in {"sleep_dev", "sleep_again"}
  \/ pc[x] = "wakeup_done" /\ l = "ptable" /\ tf[x] = "none" /\ m = "unlock_done"
  \/ pc[x] = "wakeup_done" /\ l = "ptable" /\ tf[x] # "none" /\ m = "ideintr_done"
  \/ pc[x] = "yielded" /\ l = "ptable" /\ m = "iret"
  \/ pc[x] = "ideintr_done" /\ l = "dev" /\ m = "trap"
  \/ pc[x] = "forkret" /\ l = "ptable" /\ m = "sysret"
  \/ pc[x] = "scanned" /\ l = "ptable" /\ m = "idle"

\* release() finds one of them.
LEMMA ReleasesRows ==
  ASSUME NEW x, pc[x] \in DOMAIN Releases(x),
         pc[x] = "sleep_release" => x \in Thread /\ lk[x] \in {"lk", "dev"}
  PROVE  /\ Releases(x)[pc[x]][1] \in Lock /\ Releases(x)[pc[x]][2] \in Places
         /\ Gives(x, Releases(x)[pc[x]][1], Releases(x)[pc[x]][2])
<1> DEFINE waited == IF locked = x THEN "releasesleep" ELSE "sysret"
           given == IF x \in Thread THEN lk[x] ELSE "lk"
           again == IF x \in Thread /\ lk[x] = "dev" THEN "sleep_dev" ELSE "sleep_again"
           done == IF tf[x] = "none" THEN "unlock_done" ELSE "ideintr_done"
<1>1. Releases(x) = [test_done |-> <<"lk", "held">>, wait_done |-> <<"dev", waited>>,
                     sleep_release |-> <<given, "sleeping">>, woken |-> <<"ptable", again>>,
                     wakeup_done |-> <<"ptable", done>>, unlock_done |-> <<"lk", "sysret">>,
                     yielded |-> <<"ptable", "iret">>, ideintr_done |-> <<"dev", "trap">>,
                     forkret |-> <<"ptable", "sysret">>, scanned |-> <<"ptable", "idle">>]
  BY Zenon DEF Releases
<1>a. /\ waited \in {"releasesleep", "sysret"} /\ again \in {"sleep_dev", "sleep_again"}
      /\ (x \in Thread => given = lk[x])
      /\ done = IF tf[x] = "none" THEN "unlock_done" ELSE "ideintr_done"
  BY Zenon
<1> HIDE DEF waited, given, again, done
<1>b. PICK r : r = Releases(x)[pc[x]]
  OBVIOUS
<1>c. \/ pc[x] = "test_done" /\ r = <<"lk", "held">>
      \/ pc[x] = "wait_done" /\ r = <<"dev", waited>>
      \/ pc[x] = "sleep_release" /\ r = <<given, "sleeping">>
      \/ pc[x] = "woken" /\ r = <<"ptable", again>>
      \/ pc[x] = "wakeup_done" /\ r = <<"ptable", done>>
      \/ pc[x] = "unlock_done" /\ r = <<"lk", "sysret">>
      \/ pc[x] = "yielded" /\ r = <<"ptable", "iret">>
      \/ pc[x] = "ideintr_done" /\ r = <<"dev", "trap">>
      \/ pc[x] = "forkret" /\ r = <<"ptable", "sysret">>
      \/ pc[x] = "scanned" /\ r = <<"ptable", "idle">>
  BY <1>1, <1>b, SMT
<1>2. Gives(x, r[1], r[2])
  BY <1>a, <1>c, SMT DEF Gives
<1>3. ASSUME NEW l, NEW m, Gives(x, l, m) PROVE l \in Lock /\ m \in Places
  BY <1>3, Zenon DEF Gives, Lock, Places
<1>4. QED
  BY <1>b, <1>2, <1>3, Zenon

\* Where a context releases l it holds it.
LEMMA GivesHeld ==
  ASSUME NEW x, NEW l, NEW m, Gives(x, l, m), pc[x] = "sleep_release" => lk[x] \in {"lk", "dev"}
  PROVE  /\ Holds(x, l) /\ Depth(x) \in {1, 2}
         /\ pc[x] \notin {"user", "sysret", "sti", "scheduler", "idle", "hlt"}
<1>1. Holds(x, l)
  BY DEF Gives, Holds
<1>2. Depth(x) \in {1, 2} /\ pc[x] \notin {"user", "sysret", "sti", "scheduler", "idle", "hlt"}
  BY DEF Gives, Depth
<1>3. QED
  BY <1>1, <1>2

\* It has one lock less afterwards.
LEMMA GivesOne ==
  ASSUME NEW x, NEW l, NEW m, Gives(x, l, m), pc'[x] = m
  PROVE  IF pc[x] \in {"sleep_release", "wakeup1", "wakeup_done"}
         THEN Depth(x) = 2 /\ Depth(x)' = 1 ELSE Depth(x) = 1 /\ Depth(x)' = 0
BY Zenon DEF Gives, Depth

\* release() owns the lock, so it does not panic; popcli() turns interrupts on
\* only for forkret() and for scheduler() after a pass of its own.
LEMMA releaseKeeps == ASSUME IInv, NEW c \in CPU, release(c) PROVE IInv'
<1> SUFFICES ASSUME NEW x \in Context, x = cur[c], x \in CPU => x = c /\ x \notin Thread,
                    Types, Flags(c, x), Runner(c), Shape(x), x \in Thread => Status(x) /\ Waits(x)
             PROVE  IInv'
  BY Here
<1>1. pc[x] = "sleep_release" => x \in Thread /\ lk[x] \in {"lk", "dev"}
  BY DEF Shape, Context, Types
<1>2. PICK l \in Lock, m \in Places :
         Gives(x, l, m) /\ Releases(x)[pc[x]][1] = l /\ Releases(x)[pc[x]][2] = m
  BY <1>1, ReleasesRows DEF release
<1>3. Holds(x, l) /\ c \notin spins /\ ncli[c] = Depth(x) /\ Depth(x) \in {1, 2} /\ owner[l] = c /\ ~intr[c]
  <2>1. Holds(x, l) /\ Depth(x) \in {1, 2} /\ pc[x] \notin {"user", "sysret", "sti", "scheduler", "idle", "hlt"}
    BY <1>1, <1>2, GivesHeld
  <2>2. c \notin spins
    BY DEF release
  <2>3. QED
    BY <2>1, <2>2, SMT DEF Flags
<1>4. /\ owner' = [owner EXCEPT ![l] = None]
      /\ ncli' = [ncli EXCEPT ![c] = @ - 1]
      /\ intr' = [intr EXCEPT ![c] = ncli[c] = 1 /\ intena[c]]
      /\ pc' = [pc EXCEPT ![x] = m]
      /\ UNCHANGED <<intena, spins, cur, locals, tf, table, objects, sys>>
  BY <1>2, <1>3, SMT DEF release, holding, popcli
<1>5. Types'
  <2>1. ncli[c] - 1 \in Nat /\ (ncli[c] = 1 /\ intena[c]) \in BOOLEAN
    BY <1>3, SMT
  <2>2. QED
    BY <1>4, <2>1 DEF Types
<1>6. /\ pc'[x] = m /\ tf'[x] = tf[x] /\ lk' = lk
      /\ ncli'[c] = ncli[c] - 1 /\ (intr'[c] <=> ncli[c] = 1 /\ intena[c]) /\ intena' = intena
      /\ owner'[l] = None /\ \A k \in Lock \ {l} : owner'[k] = owner[k]
  <2>1. intr'[c] <=> ncli[c] = 1 /\ intena[c]
    BY <1>4, Zenon DEF Types
  <2>2. QED
    BY <1>4, <2>1 DEF Types
<1>7. Mine(c)
  BY <1>3, <1>4, Apart DEF Types, Mine
<1>8. Shape(x)'
  BY <1>2, <1>6 DEF Shape, Gives, Context
<1>9. Flags(c, x)'
  <2>1. \A k \in Lock : Holds(x, k)' <=> Holds(x, k) /\ k # l
    BY <1>1, <1>2, <1>6, SMT DEF Holds, Gives, Lock
  <2>2. \A k \in Lock : owner'[k] = c <=> Holds(x, k)'
    BY <1>6, <2>1, Apart DEF Flags
  <2>3. ncli'[c] = Depth(x)' /\ ncli'[c] \in {0, 1} /\ c \notin spins'
    <3>1. IF pc[x] \in {"sleep_release", "wakeup1", "wakeup_done"}
          THEN Depth(x) = 2 /\ Depth(x)' = 1 ELSE Depth(x) = 1 /\ Depth(x)' = 0
      BY <1>2, <1>6, GivesOne, Zenon
    <3>2. Depth(x)' = Depth(x) - 1 /\ Depth(x)' \in {0, 1}
      BY <3>1, SMT
    <3>3. ncli'[c] = Depth(x) - 1 /\ spins' = spins
      BY <1>3, <1>4, <1>6, Zenon
    <3>4. QED
      BY <1>3, <3>2, <3>3, Zenon
  <2>4. ncli[c] > 0 /\ (ncli'[c] > 0 => pc[x] \in {"sleep_release", "wakeup1", "wakeup_done"})
    <3>1. pc[x] \notin {"sleep_release", "wakeup1", "wakeup_done"} => Depth(x)' = 0
      BY <1>2, <1>6, GivesOne, Zenon
    <3>2. ncli[c] > 0
      BY <1>3, SMT
    <3>3. ~(0 > 0)
      BY SMT
    <3>4. QED
      BY <2>3, <3>1, <3>2, <3>3, Zenon
  <2>5. pc[x] \notin {"forkret", "resumed", "scheduler", "scan", "scanned"} => ~intena[c]
    BY <2>4, Zenon DEF Flags
  <2>6. intr'[c] => pc'[x] \in {"user", "sysret", "sti", "scheduler", "idle", "hlt"}
    <3>1. intr'[c] => pc[x] \in {"forkret", "resumed", "scheduler", "scan", "scanned"}
      BY <1>6, <2>5, Zenon
    <3>2. QED
      BY <1>2, <1>6, <3>1, Zenon DEF Gives
  <2>7. ncli'[c] > 0 => ~intena'[c]
    BY <1>6, <2>4, <2>5, Zenon
  <2>8. ncli'[c] \in Nat
    BY <2>3, SMT
  <2>9. QED
    BY <2>2, <2>3, <2>6, <2>7, <2>8, Unspun, Zenon
<1>10. Runner(c)'
  <2>1. CASE x # c
    <3>1. pc'[c] = pc[c]
      BY <1>4, <2>1 DEF Types, Context
    <3>2. QED
      BY <1>4, <2>1, <3>1 DEF Runner
  <2>2. CASE x = c
    <3>1. pc[c] = "scanned" => pc'[c] = "idle" /\ ncli[c] = 1
      BY <1>2, <1>3, <1>6, <2>2 DEF Gives, Depth
    <3>2. pc[c] # "scanned" => pc'[c] \in {"ideintr_done", "trap"}
      BY <1>2, <1>6, <2>2 DEF Gives, Shape
    <3>3. cur'[c] = c /\ skipped' = skipped /\ (pc[c] = "scanned" => intena[c] \/ skipped[c] <= NPROC)
      BY <1>4, <2>2 DEF Runner
    <3>4. QED
      BY <1>6, <3>1, <3>2, <3>3 DEF Runner
  <2>3. QED
    BY <2>1, <2>2
<1>11. x \in Thread => Status(x)'
  BY <1>2, <1>4, <1>6 DEF Status, Gives
<1>12. ASSUME NEW t \in Thread PROVE Waits(t)'
  <2>1. CASE t = x
    BY <2>1, <1>2, <1>4, <1>6 DEF Waits, Needed, Gives, Status
  <2>2. CASE t # x
    BY <1>2, <1>4, <1>7, <2>2, StillWaits DEF Gives
  <2>3. QED
    BY <2>1, <2>2
<1>13. QED
  BY <1>5, <1>7, <1>8, <1>9, <1>10, <1>11, <1>12, Keeps

\* The rows of Acquires.
Takes(p, l, m) ==
  \/ p \in {"acquiresleep", "sleep_again"} /\ l = "lk" /\ m = "test"
  \/ p = "releasesleep" /\ l = "lk" /\ m = "unlock"
  \/ p = "iderw" /\ l = "dev" /\ m = "queue"
  \/ p = "sleep_dev" /\ l = "dev" /\ m = "wait"
  \/ p = "ideintr" /\ l = "dev" /\ m = "finish"
  \/ p = "sleep" /\ l = "ptable" /\ m = "sleep_release"
  \/ p = "wakeup" /\ l = "ptable" /\ m = "wakeup1"
  \/ p = "yield" /\ l = "ptable" /\ m = "yielding"
  \/ p = "scheduler" /\ l = "ptable" /\ m = "scan"

\* acquire() finds one of them.
LEMMA AcquiresRows ==
  ASSUME NEW p \in DOMAIN Acquires
  PROVE  /\ Acquires[p][1] \in Lock /\ Acquires[p][2] \in Places
         /\ Takes(p, Acquires[p][1], Acquires[p][2])
<1>1. PICK r : r = Acquires[p]
  OBVIOUS
<1>2. Takes(p, r[1], r[2])
  BY <1>1, SMT DEF Acquires, Takes
<1>3. ASSUME NEW l, NEW m, Takes(p, l, m) PROVE l \in Lock /\ m \in Places
  BY <1>3, Zenon DEF Takes, Lock, Places
<1>4. QED
  BY <1>1, <1>2, <1>3, Zenon

\* The xchg of acquire() succeeds: the lock was free and the CPU owns it now.
LEMMA acquireKeeps == ASSUME IInv, NEW c \in CPU, acquire(c) PROVE IInv'
<1> SUFFICES ASSUME NEW x \in Context, x = cur[c], x \in CPU => x = c /\ x \notin Thread,
                    Types, Flags(c, x), Runner(c), Shape(x), x \in Thread => Status(x) /\ Waits(x)
             PROVE  IInv'
  BY Here
<1>1. PICK l \in Lock, m \in Places :
         /\ Takes(pc[x], l, m)
         /\ owner[l] = None
         /\ owner' = [owner EXCEPT ![l] = c]
         /\ pc' = [pc EXCEPT ![x] = m]
  <2>1. pc[x] \in DOMAIN Acquires
    BY DEF acquire, Flags
  <2>2. /\ Acquires[pc[x]][1] \in Lock /\ Acquires[pc[x]][2] \in Places
        /\ Takes(pc[x], Acquires[pc[x]][1], Acquires[pc[x]][2])
    BY <2>1, AcquiresRows
  <2>3. QED
    BY <2>2, Zenon DEF acquire
<1>2. /\ c \in spins /\ spins' = spins \ {c}
      /\ UNCHANGED <<flags, cur, locals, tf, table, objects, sys>>
  BY DEF acquire
<1>3. Types'
  BY <1>1, <1>2 DEF Types
<1>4. Mine(c)
  BY <1>1, <1>2, Apart DEF Types, Mine
<1>5. Shape(x)'
  BY <1>1, <1>2 DEF Types, Shape, Takes
<1>6. Flags(c, x)'
  <2>1. pc'[x] = m /\ tf'[x] = tf[x] /\ lk' = lk
    BY <1>1, <1>2 DEF Types
  <2>2. \A k \in Lock : Holds(x, k)' <=> Holds(x, k) \/ k = l
    BY <1>1, <2>1, SMT DEF Holds, Takes, Lock, Shape, Context
  <2>3. \A k \in Lock : owner'[k] = c <=> Holds(x, k)'
    BY <1>1, <2>2 DEF Types, Flags
  <2>4. Depth(x)' = Depth(x) + 1
    BY <1>1, <2>1, SMT DEF Depth, Takes
  <2>5. ncli'[c] = Depth(x)' /\ ncli'[c] \in Nat /\ c \notin spins'
    BY <1>2, <2>4 DEF Types, Flags, Depth
  <2>6. ~intr'[c]
    BY <1>2 DEF Flags
  <2>7. pc'[x] \notin {"forkret", "resumed", "scheduler", "scan", "scanned"} => ~intena'[c]
    BY <1>1, <1>2, <2>1, SMT DEF Flags, Depth, Takes
  <2>8. QED
    BY <2>3, <2>5, <2>6, <2>7, Unspun
<1>7. Runner(c)'
  BY <1>1, <1>2, Apart DEF Types, Runner, Takes, Context
<1>8. x \in Thread => Status(x)'
  BY <1>1, <1>2 DEF Types, Status, Takes
<1>9. ASSUME NEW t \in Thread PROVE Waits(t)'
  <2>1. CASE t = x
    BY <2>1, <1>1, <1>2 DEF Types, Waits, Needed, Takes, Status
  <2>2. CASE t # x
    <3>1. pc[x] \in {"wakeup", "wakeup1"} => pc'[x] \in {"wakeup", "wakeup1"} /\ tf'[x] = tf[x]
      BY <1>1, <1>2 DEF Types, Takes
    <3>2. QED
      BY <1>2, <1>4, <2>2, <3>1, StillWaits
  <2>3. QED
    BY <2>1, <2>2
<1>10. QED
  BY <1>3, <1>4, <1>5, <1>6, <1>7, <1>8, <1>9, Keeps

\* acquire() is entered without the lock, in an interrupt handler too, so it does
\* not panic; the outermost pushcli() saves that interrupts are off, except in
\* scheduler().
LEMMA pushcliKeeps == ASSUME IInv, NEW c \in CPU, pushcli(c) PROVE IInv'
<1> SUFFICES ASSUME NEW x \in Context, x = cur[c], x \in CPU => x = c /\ x \notin Thread,
                    Types, Flags(c, x), Runner(c), Shape(x), x \in Thread => Status(x) /\ Waits(x)
             PROVE  IInv'
  BY Here
<1>1. /\ pc[x] \in DOMAIN Acquires /\ c \notin spins
      /\ Acquires[pc[x]][1] \in Lock /\ ~Holds(x, Acquires[pc[x]][1])
  <2>1. pc[x] \in DOMAIN Acquires /\ c \notin spins
    BY DEF pushcli
  <2>2. Takes(pc[x], Acquires[pc[x]][1], Acquires[pc[x]][2]) /\ Acquires[pc[x]][1] \in Lock
    BY <2>1, AcquiresRows
  <2>3. QED
    BY <2>1, <2>2 DEF Takes, Holds, Types, Context, Shape
<1>2. /\ intena' = [intena EXCEPT ![c] = IF ncli[c] = 0 THEN intr[c] ELSE @]
      /\ ncli' = [ncli EXCEPT ![c] = @ + 1]
      /\ intr' = [intr EXCEPT ![c] = FALSE]
      /\ spins' = spins \union {c}
      /\ UNCHANGED <<owner, cur, locals, pc, tf, table, objects, sys>>
  BY <1>1 DEF pushcli, holding, Flags
<1>3. Types'
  BY <1>2, SMT DEF Types
<1>4. Mine(c)
  BY <1>2 DEF Types, Mine
<1>5. Shape(x)'
  BY <1>2 DEF Shape
<1>6. Flags(c, x)'
  <2>1. \A l \in Lock : owner'[l] = c <=> Holds(x, l)'
    BY <1>2 DEF Flags, Holds
  <2>2. ncli'[c] = Depth(x)' + (IF c \in spins' THEN 1 ELSE 0)
    BY <1>1, <1>2, SMT DEF Types, Flags, Depth
  <2>3. c \in spins' /\ pc'[x] \in DOMAIN Acquires /\ ~intr'[c]
    BY <1>1, <1>2 DEF Types
  <2>4. pc'[x] \notin {"forkret", "resumed", "scheduler", "scan", "scanned"} => ~intena'[c]
    BY <1>1, <1>2, SMT DEF Types, Flags, Acquires
  <2>5. QED
    BY <2>1, <2>2, <2>3, <2>4 DEF Flags
<1>7. Runner(c)'
  <2>1. x = c /\ pc[c] = "scheduler" => intena'[c]
    BY <1>1, <1>2, SMT DEF Types, Runner, Flags, Depth
  <2>2. x = c => pc[c] \notin {"scan", "scanned", "idle", "hlt"}
    BY <1>1 DEF Acquires
  <2>3. QED
    BY <1>2, <2>1, <2>2 DEF Runner
<1>8. x \in Thread => Status(x)'
  BY <1>2 DEF Status
<1>9. ASSUME NEW t \in Thread PROVE Waits(t)'
  BY <1>2 DEF IInv, Waits, Needed, Waker
<1>10. QED
  BY <1>3, <1>4, <1>5, <1>6, <1>7, <1>8, <1>9, Keeps

---------------------------------------------------------------------------
(***************************************************************************)
(* The steps that reach other threads: wakeup() and the switch.            *)
(***************************************************************************)
\* Only one CPU is inside the sections of a lock.
LEMMA OneHolder ==
  ASSUME IInv, NEW c \in CPU, NEW d \in CPU, NEW l \in Lock, Holds(cur[c], l), Holds(cur[d], l)
  PROVE  c = d
<1>1. Flags(c, cur[c]) /\ Flags(d, cur[d])
  BY Executes DEF IInv
<1>2. owner[l] = c /\ owner[l] = d
  BY <1>1 DEF Flags
<1>3. QED
  BY <1>2

\* A thread that is not at the start of a switch is executed.
LEMMA Executed ==
  ASSUME IInv, NEW t \in Thread, pc[t] \notin {"resumed", "forkret"}
  PROVE  \E d \in CPU : cur[d] = t
BY DEF IInv, Status

\* releasesleep() and ideintr() end what the sleepers on ch wait for, and go to
\* wakeup() with the spin-lock of ch held.
Frees(c, x, ch) ==
  /\ UNCHANGED <<owner, spins, ncli, intena, intr, scan, skipped, lk, saved, tf, state, chan>>
  /\ c \notin spins
  /\ \/ /\ pc[x] = "unlock" /\ x \in Thread /\ tf[x] = "none" /\ ch = "lk"
        /\ pc'[x] = "wakeup" /\ busy' = busy
     \/ /\ pc[x] = "finish" /\ tf[x] # "none" /\ ch = "dev"
        /\ pc'[x] = "wakeup" /\ locked' = locked
     \/ /\ pc[x] = "finish" /\ tf[x] # "none" /\ ch = "dev"
        /\ pc'[x] = "ideintr_done" /\ locked' = locked /\ busy' = busy

\* Every sleeper on ch has a waker now; the other channel is not touched.
LEMMA FreesKeeps ==
  ASSUME IInv, NEW c \in CPU, NEW x \in Context, x = cur[c], NEW ch \in {"lk", "dev"},
         Frees(c, x, ch), Types', Mine(c)
  PROVE  IInv'
<1> SUFFICES ASSUME x \in CPU => x = c /\ x \notin Thread, c \notin spins,
                    Types, Flags(c, x), Runner(c), Shape(x), x \in Thread => Status(x) /\ Waits(x)
             PROVE  IInv'
  BY Here DEF Frees
<1>1. Shape(x)'
  BY DEF Frees, Shape
<1>2. Holds(x, ch) /\ \A l \in Lock : Holds(x, l)' <=> Holds(x, l)
  BY DEF Frees, Holds, Lock
<1>3. Depth(x) = 1 /\ Depth(x)' = 1
  BY DEF Frees, Depth
<1>4. Flags(c, x)'
  BY <1>2, <1>3 DEF Frees, Flags
<1>5. Runner(c)'
  BY DEF Frees, Runner, Mine, Context
<1>6. x \in Thread => Status(x)'
  BY DEF Frees, Status, Mine
<1>7. ASSUME NEW t \in Thread PROVE Waits(t)'
  <2>1. CASE t = x
    BY <2>1 DEF Frees, Status, Waits
  <2>2. CASE pc'[x] # "wakeup" /\ t # x
    BY <2>2, StillWaits DEF Frees
  <2>3. CASE pc'[x] = "wakeup" /\ t # x
    <3>1. /\ pc'[t] = pc[t] /\ lk' = lk /\ state' = state /\ lk[t] \in {"lk", "dev"} /\ cur'[c] = x
          /\ pc[x] \in {"unlock", "finish"} /\ (tf'[x] = "none") = (ch = "lk")
      BY <2>3 DEF Frees, Types, Mine, Context
    <3>2. CASE lk[t] = ch
      <4>1. Waker(lk[t])'
        BY <2>3, <3>1, <3>2 DEF Waker
      <4>2. pc[t] \notin {"sleep", "sleep_release"}
        <5>1. SUFFICES ASSUME pc[t] \in {"sleep", "sleep_release"} PROVE FALSE
          OBVIOUS
        <5>2. PICK d \in CPU : cur[d] = t
          BY <5>1, Executed
        <5>3. Holds(cur[d], ch)
          BY <3>2, <5>1, <5>2 DEF Holds
        <5>4. QED
          BY <1>2, <2>3, <5>2, <5>3, OneHolder DEF Lock
      <4>3. QED
        BY <3>1, <4>1, <4>2 DEF Waits
    <3>3. CASE lk[t] # ch
      <4>1. Needed(t) => Needed(t)'
        BY <2>3, <3>1, <3>3 DEF Frees, Needed
      <4>2. ASSUME Waker(lk[t]) PROVE Waker(lk[t])'
        <5>1. \E d \in CPU : /\ pc'[cur'[d]] \in {"wakeup", "wakeup1"}
                             /\ (tf'[cur'[d]] = "none") = (lk[t] = "lk")
          BY <3>1, <4>2, StillWakes
        <5>2. QED
          BY <3>1, <5>1 DEF Waker
      <4>3. Waits(t)
        BY DEF IInv
      <4>4. QED
        BY <3>1, <4>1, <4>2, <4>3 DEF Waits
    <3>4. QED
      BY <3>2, <3>3
  <2>4. QED
    BY <2>1, <2>2, <2>3
<1>8. QED
  BY <1>1, <1>4, <1>5, <1>6, <1>7, Keeps

\* releasesleep() and ideintr() are such steps.
LEMMA SignalKeeps ==
  ASSUME IInv, NEW c \in CPU, unlock(c) \/ finish(c)
  PROVE  IInv'
<1> SUFFICES ASSUME NEW x \in Context, x = cur[c], x \in CPU => x = c /\ x \notin Thread,
                    Types, Flags(c, x), Shape(x)
             PROVE  Types' /\ Mine(c) /\ (Frees(c, x, "lk") \/ Frees(c, x, "dev"))
  BY Here, FreesKeeps
<1>1. CASE unlock(c)
  BY <1>1, Apart DEF unlock, Types, Places, Mine, Frees, Shape, Context
<1>2. CASE finish(c)
  BY <1>2, SMT DEF finish, Types, Places, Mine, Frees, Shape, Context
<1>3. QED
  BY <1>1, <1>2

\* wakeup1() changes the state of threads that c does not execute: only from
\* SLEEPING to RUNNABLE, and ptable.lock keeps all others out.
LEMMA wakeup1Keeps == ASSUME IInv, NEW c \in CPU, wakeup1(c) PROVE IInv'
<1> SUFFICES ASSUME NEW x \in Context, x = cur[c], x \in CPU => x = c /\ x \notin Thread,
                    Types, Flags(c, x), Runner(c), Shape(x), x \in Thread => Status(x) /\ Waits(x)
             PROVE  IInv'
  BY Here
<1>1. PICK ch : ch = IF tf[x] = "none" THEN "lk" ELSE "dev"
  OBVIOUS
<1>2. /\ pc[x] = "wakeup1" /\ c \notin spins
      /\ state' = [t \in Thread |-> IF state[t] = "SLEEPING" /\ chan[t] = ch THEN "RUNNABLE" ELSE state[t]]
      /\ pc' = [pc EXCEPT ![x] = "wakeup_done"]
      /\ UNCHANGED <<owner, spins, flags, cur, locals, tf, chan, objects, sys>>
  BY <1>1 DEF wakeup1
<1>3. Types'
  BY <1>2 DEF Types, Places
<1>4. Own' /\ OneStack'
  BY <1>2 DEF IInv, Own, OneStack
<1>5. \A y \in Context : Shape(y)'
  BY <1>2, SMT DEF IInv, Types, Shape
<1>6. ASSUME NEW d \in CPU, NEW y \in Context, cur'[d] = y PROVE Flags(d, y)' /\ Runner(d)'
  <2>1. cur[d] = y /\ Flags(d, y) /\ Runner(d)
    BY <1>2, <1>6 DEF IInv
  <2>2. CASE d = c
    <3>1. y = x /\ pc'[x] = "wakeup_done" /\ (x # c => pc'[c] = pc[c])
      BY <1>2, <2>1, <2>2 DEF Types, Context
    <3>2. \A l \in Lock : Holds(x, l)' <=> Holds(x, l)
      BY <1>2, <3>1 DEF Holds
    <3>3. Depth(x)' = Depth(x)
      BY <1>2, <3>1 DEF Depth
    <3>4. Flags(c, x)'
      BY <1>2, <3>1, <3>2, <3>3 DEF Flags
    <3>5. Runner(c)'
      BY <1>2, <3>1 DEF Runner
    <3>6. QED
      BY <2>2, <3>1, <3>4, <3>5
  <2>3. CASE d # c
    <3>1. y # x /\ d # x
      BY <2>1, <2>3, Executes
    <3>2. pc'[y] = pc[y] /\ pc'[d] = pc[d] /\ cur' = cur
      BY <1>2, <1>6, <3>1 DEF Types, Context
    <3>3. Flags(d, y)'
      BY <1>2, <2>1, <3>2, SameFlags
    <3>4. Runner(d)'
      BY <1>2, <2>1, <3>2 DEF Runner
    <3>5. QED
      BY <3>3, <3>4
  <2>4. QED
    BY <2>2, <2>3
<1>7. ASSUME NEW t \in Thread PROVE Status(t)' /\ Waits(t)'
  <2>1. /\ Status(t) /\ Waits(t) /\ lk[t] \in {"lk", "dev"}
        /\ pc'[t] = IF t = x THEN "wakeup_done" ELSE pc[t]
        /\ state'[t] = IF state[t] = "SLEEPING" /\ chan[t] = ch THEN "RUNNABLE" ELSE state[t]
    BY <1>2 DEF IInv, Types, Context
  <2>2. Status(t)'
    <3>1. /\ pc'[t] \in Switches <=> pc[t] \in Switches
          /\ pc'[t] = "resumed" <=> pc[t] = "resumed"
          /\ pc'[t] = "sched" <=> pc[t] = "sched"
          /\ pc'[t] \in {"resumed", "forkret"} <=> pc[t] \in {"resumed", "forkret"}
      <4>1. CASE t = x
        <5>1. pc'[t] = "wakeup_done" /\ pc[t] = "wakeup1"
          BY <1>2, <2>1, <4>1, Zenon
        <5>2. QED
          BY <5>1
      <4>2. CASE t # x
        BY <2>1, <4>2, Zenon
      <4>3. QED
        BY <4>1, <4>2, Zenon
    <3>2. /\ state'[t] = "RUNNING" <=> state[t] = "RUNNING"
          /\ state'[t] = "SLEEPING" => state[t] = "SLEEPING"
      BY <2>1, Zenon
    <3>3. chan' = chan /\ lk' = lk /\ tf' = tf /\ saved' = saved /\ cur' = cur
      BY <1>2, Zenon
    <3>4. QED
      BY <2>1, <3>1, <3>2, <3>3, Zenon DEF Status
  <2>3. pc'[t] # "sleeping"
    <3>1. SUFFICES ASSUME pc[t] = "sleeping" PROVE FALSE
      BY <2>1
    <3>2. PICK d \in CPU : cur[d] = t
      BY <3>1, Executed
    <3>3. Holds(cur[d], "ptable") /\ Holds(cur[c], "ptable")
      BY <1>2, <3>1, <3>2 DEF Holds
    <3>4. QED
      BY <1>2, <3>1, <3>2, <3>3, OneHolder DEF Lock
  <2>4. pc'[t] \in {"sleep", "sleep_release"} => Needed(t)'
    <3>1. pc'[t] \in {"sleep", "sleep_release"} => pc[t] \in {"sleep", "sleep_release"}
      BY <2>1, Zenon
    <3>2. lk' = lk /\ locked' = locked /\ busy' = busy
      BY <1>2, Zenon
    <3>3. QED
      BY <2>1, <3>1, <3>2, Zenon DEF Waits, Needed
  <2>5. ASSUME state'[t] = "SLEEPING", Waker(lk[t])
        PROVE Waker(lk[t])'
    <3>1. lk[t] # ch
      BY <2>1, <2>5 DEF Status
    <3>2. PICK d \in CPU : pc[cur[d]] \in {"wakeup", "wakeup1"} /\ (tf[cur[d]] = "none") = (lk[t] = "lk")
      BY <2>5 DEF Waker
    <3>3. d # c
      BY <1>1, <2>1, <3>1, <3>2
    <3>4. cur[d] # x /\ cur[d] \in Context
      BY <3>3, Executes
    <3>5. pc'[cur[d]] = pc[cur[d]] /\ tf'[cur[d]] = tf[cur[d]] /\ cur' = cur /\ lk' = lk
      BY <1>2, <3>4 DEF Types
    <3>6. QED
      BY <3>2, <3>5 DEF Waker
  <2>6. Needed(t)' <=> Needed(t)
    BY <1>2 DEF Needed
  <2>7. QED
    BY <2>1, <2>2, <2>3, <2>4, <2>5, <2>6 DEF Waits
<1>8. \A d \in CPU : cur'[d] \in Context
  BY <1>3 DEF Types
<1>9. QED
  BY <1>3, <1>4, <1>5, <1>6, <1>7, <1>8 DEF IInv

\* sched() leaves its thread for the scheduler() of its CPU, which finds
\* ptable.lock held and its scan where it left it.
LEMMA schedKeeps == ASSUME IInv, NEW c \in CPU, sched(c) PROVE IInv'
<1> SUFFICES ASSUME NEW x \in Context, x = cur[c], x \in CPU => x = c /\ x \notin Thread,
                    Types, Flags(c, x), Runner(c), Shape(x), x \in Thread => Status(x) /\ Waits(x)
             PROVE  IInv'
  BY Here
<1>1. pc[x] = "sched" /\ x \in Thread /\ x # c /\ c \notin spins
  BY Apart DEF sched, Shape, Context
<1>2. holding(c, "ptable") /\ ncli[c] = 1 /\ state[x] # "RUNNING" /\ ~intr[c] /\ ~intena[c]
  <2>1. Holds(x, "ptable") /\ "ptable" \in Lock
    BY <1>1, Zenon DEF Holds, Lock
  <2>2. Depth(x) = 1
    BY <1>1, Zenon DEF Depth
  <2>3. ncli[c] = 1 /\ ncli[c] > 0
    <3>1. ncli[c] = Depth(x) + (IF c \in spins THEN 1 ELSE 0)
      BY Zenon DEF Flags
    <3>2. ncli[c] = 1 + 0
      BY <1>1, <2>2, <3>1, Zenon
    <3>3. 1 + 0 = 1 /\ 1 > 0
      BY SMT
    <3>4. QED
      BY <3>2, <3>3, Zenon
  <2>4. owner["ptable"] = c /\ ~intr[c] /\ ~intena[c]
    BY <1>1, <2>1, <2>3, Zenon DEF Flags
  <2>5. state[x] # "RUNNING"
    BY <1>1, Zenon DEF Status
  <2>6. QED
    BY <2>3, <2>4, <2>5, Zenon DEF holding
<1>3. /\ saved' = [saved EXCEPT ![x] = intena[c]]
      /\ pc' = [pc EXCEPT ![x] = "resumed"]
      /\ cur' = [cur EXCEPT ![c] = c]
      /\ UNCHANGED <<owner, spins, flags, scan, skipped, lk, tf, table, objects, sys>>
  BY <1>2 DEF sched
<1>4. cur[c] # c /\ pc[c] = "scan" /\ pc'[c] = "scan" /\ cur'[c] = c /\ tf[c] = "none"
  <2>1. cur[c] # c /\ pc[c] = "scan" /\ c \in Context
    BY <1>1, Zenon DEF Runner, Context
  <2>2. pc'[c] = "scan" /\ cur'[c] = c
    BY <1>1, <1>3, <2>1, Zenon DEF Types
  <2>3. tf[c] = "none"
    BY <2>1, Zenon DEF IInv, Shape
  <2>4. QED
    BY <2>1, <2>2, <2>3
<1>5. \A d \in CPU \ {c} : cur'[d] = cur[d] /\ cur[d] # x /\ d # x /\ cur[d] \in Context
                          /\ pc'[cur[d]] = pc[cur[d]] /\ pc'[d] = pc[d]
  BY <1>3, Executes DEF Types, Context
<1>6. Types'
  BY <1>1, <1>3 DEF Types, Places, Context
<1>7. Own' /\ OneStack'
  <2>1. Own'
    BY <1>4, <1>5, Zenon DEF IInv, Own
  <2>2. ASSUME NEW d \in CPU, NEW e \in CPU, d # e PROVE cur'[d] # cur'[e]
    <3>1. cur[d] \in Thread \union {d} /\ cur[e] \in Thread \union {e} /\ cur[d] # cur[e]
      BY <2>2 DEF IInv, Own, OneStack
    <3>2. CASE d = c
      BY <1>4, <1>5, <2>2, <3>1, <3>2, Apart, SMT
    <3>3. CASE e = c
      BY <1>4, <1>5, <2>2, <3>1, <3>3, Apart, SMT
    <3>4. CASE d # c /\ e # c
      BY <1>5, <2>2, <3>1, <3>4
    <3>5. QED
      BY <3>2, <3>3, <3>4
  <2>3. QED
    BY <2>1, <2>2 DEF OneStack
<1>8. \A y \in Context : Shape(y)'
  BY <1>1, <1>3, SMT DEF IInv, Types, Shape
<1>9. ASSUME NEW d \in CPU, NEW y \in Context, cur'[d] = y PROVE Flags(d, y)' /\ Runner(d)'
  <2>1. CASE d = c
    <3>1. y = c /\ Runner(c)'
      BY <1>3, <1>4, <1>9, <2>1 DEF Runner
    <3>2. \A l \in Lock : Holds(x, l) <=> l = "ptable"
      BY <1>1 DEF Holds
    <3>3. \A l \in Lock : Holds(c, l)' <=> l = "ptable"
      BY <1>4 DEF Holds
    <3>4. Depth(c)' = 1
      BY <1>4 DEF Depth
    <3>5. Flags(c, c)'
      <4>1. owner' = owner /\ spins' = spins /\ ncli' = ncli /\ intena' = intena /\ intr' = intr
        BY <1>3, Zenon
      <4>2. \A l \in Lock : owner'[l] = c <=> Holds(c, l)'
        BY <3>2, <3>3, <4>1, Zenon DEF Flags
      <4>3. ncli'[c] = Depth(c)' /\ ncli'[c] \in Nat
        BY <1>2, <3>4, <4>1, SMT
      <4>4. QED
        BY <1>1, <1>2, <1>4, <4>1, <4>2, <4>3, Unspun, Zenon
    <3>6. QED
      BY <2>1, <3>1, <3>5
  <2>2. CASE d # c
    <3>1. cur[d] = y /\ pc'[y] = pc[y] /\ pc'[d] = pc[d]
      BY <1>5, <1>9, <2>2
    <3>2. Flags(d, y) /\ Runner(d)
      BY <3>1 DEF IInv
    <3>3. Flags(d, y)'
      BY <1>3, <3>1, <3>2, SameFlags
    <3>4. Runner(d)'
      BY <1>3, <1>9, <3>1, <3>2 DEF Runner
    <3>5. QED
      BY <3>3, <3>4
  <2>3. QED
    BY <2>1, <2>2
<1>10. ASSUME NEW t \in Thread PROVE Status(t)'
  <2>1. Status(t) /\ t \in Context /\ t # c
    BY Apart DEF IInv, Context
  <2>2. CASE t = x
    <3>1. pc'[x] = "resumed" /\ ~saved'[x]
      BY <1>1, <1>2, <1>3 DEF Types
    <3>2. \A d \in CPU : cur'[d] # x
      BY <1>1, <1>4, <1>5
    <3>3. QED
      BY <1>1, <1>2, <1>3, <2>1, <2>2, <3>1, <3>2 DEF Status
  <2>3. CASE t # x
    <3>1. pc'[t] = pc[t] /\ saved'[t] = saved[t]
      BY <1>3, <2>1, <2>3 DEF Types
    <3>2. (\E d \in CPU : cur'[d] = t) <=> (\E d \in CPU : cur[d] = t)
      BY <1>4, <1>5, <2>1, <2>3
    <3>3. QED
      BY <1>3, <2>1, <3>1, <3>2 DEF Status
  <2>4. QED
    BY <2>2, <2>3
<1>11. ASSUME NEW t \in Thread PROVE Waits(t)'
  <2>1. Waits(t) /\ pc'[t] = IF t = x THEN "resumed" ELSE pc[t]
    BY <1>3 DEF IInv, Types, Context
  <2>2. Needed(t)' <=> Needed(t)
    BY <1>3 DEF Needed
  <2>3. Waker(lk[t]) => Waker(lk[t])'
    <3>1. SUFFICES ASSUME Waker(lk[t]) PROVE Waker(lk[t])'
      OBVIOUS
    <3>2. PICK d \in CPU : pc[cur[d]] \in {"wakeup", "wakeup1"} /\ (tf[cur[d]] = "none") = (lk[t] = "lk")
      BY <3>1, Zenon DEF Waker
    <3>3. d # c
      BY <1>1, <3>2
    <3>4. cur'[d] = cur[d] /\ pc'[cur[d]] = pc[cur[d]] /\ tf' = tf /\ lk' = lk
      BY <1>3, <1>5, <3>3, Zenon
    <3>5. QED
      BY <3>2, <3>4, Zenon DEF Waker
  <2>4. lk' = lk /\ state' = state
    BY <1>3, Zenon
  <2>5. QED
    BY <2>1, <2>2, <2>3, <2>4, Zenon DEF Waits
<1>12. \A d \in CPU : cur'[d] \in Context
  BY <1>6 DEF Types
<1>13. QED
  BY <1>6, <1>7, <1>8, <1>9, <1>10, <1>11, <1>12 DEF IInv

\* scheduler() comes to the end of the table.
LEMMA PassEnds ==
  ASSUME IInv, NEW c \in CPU, At(c, "scan"), cur[c] = c,
         skipped' = [skipped EXCEPT ![c] = @ + NPROC + 1 - scan[c]],
         scan' = [scan EXCEPT ![c] = 1],
         Goto(c, "scanned"),
         UNCHANGED <<owner, spins, flags, cur, lk, saved, tf, table, objects, sys>>
  PROVE  IInv'
<1> SUFFICES ASSUME NEW x \in Context, x = cur[c], x \in CPU => x = c /\ x \notin Thread,
                    Types, Flags(c, x), Runner(c), Shape(x), x \in Thread => Status(x) /\ Waits(x)
             PROVE  IInv'
  BY Here
<1>1. pc[x] = "scan" /\ x = c /\ c \notin spins /\ x \notin Thread
  OBVIOUS
<1>2. scan[c] \in 1..(NPROC + 1) /\ skipped[c] \in Nat /\ NPROC \in Nat \ {0}
  BY SchedConstants DEF Types
<1>3. skipped'[c] = skipped[c] + NPROC + 1 - scan[c] /\ skipped'[c] \in Nat
  BY <1>2, SMT DEF Types
<1>4. Types'
  <2>1. skipped' \in [CPU -> Nat] /\ scan' \in [CPU -> 1..(NPROC + 1)]
    BY <1>2, <1>3, SMT DEF Types
  <2>2. QED
    BY <2>1 DEF Types, Places
<1>5. Mine(c)
  BY DEF Types, Mine
<1>6. Shape(x)'
  BY <1>1 DEF Types, Shape
<1>7. Flags(c, x)'
  BY <1>1 DEF Types, Flags, Holds, Depth, Lock, Acquires
<1>8. Runner(c)'
  <2>1. pc'[c] = "scanned" /\ cur'[c] = c /\ intena'[c] = intena[c]
    BY <1>1, SMT DEF Types
  <2>2. intena[c] \/ skipped'[c] <= NPROC
    BY <1>1, <1>2, <1>3, SMT DEF Runner
  <2>3. QED
    BY <2>1, <2>2 DEF Runner
<1>9. ASSUME NEW t \in Thread PROVE Waits(t)'
  BY <1>1, <1>5, StillWaits
<1>10. QED
  BY <1>1, <1>4, <1>5, <1>6, <1>7, <1>8, <1>9, Keeps

\* scheduler() switches to a RUNNABLE thread.  No CPU executes it: one that did
\* would be at its sched(), and hold ptable.lock.
LEMMA SwitchesTo ==
  ASSUME IInv, NEW c \in CPU, At(c, "scan"), cur[c] = c,
         NEW t \in Thread, state[t] = "RUNNABLE",
         skipped' = [skipped EXCEPT ![c] = 0],
         scan' = [scan EXCEPT ![c] = t + 1],
         state' = [state EXCEPT ![t] = "RUNNING"],
         cur' = [cur EXCEPT ![c] = t],
         UNCHANGED <<owner, spins, flags, lk, saved, pc, tf, chan, objects, sys>>
  PROVE  IInv'
<1>1. /\ Types /\ Flags(c, c) /\ pc[c] = "scan" /\ c \notin spins
      /\ t \in Context /\ c # t /\ Status(t) /\ Shape(t)
  BY Here, Apart DEF IInv, Context
<1>2. \A d \in CPU : cur[d] # t
  <2>1. SUFFICES ASSUME NEW d \in CPU, cur[d] = t PROVE FALSE
    OBVIOUS
  <2>2. pc[t] = "sched"
    BY <1>1, <2>1 DEF Status
  <2>3. Holds(cur[d], "ptable") /\ Holds(cur[c], "ptable")
    BY <1>1, <2>1, <2>2 DEF Holds
  <2>4. QED
    BY <1>1, <2>1, <2>3, OneHolder DEF Lock
<1>3. pc[t] \in {"resumed", "forkret"}
  BY <1>1, <1>2 DEF Status
<1>4. cur'[c] = t /\ \A d \in CPU \ {c} : cur'[d] = cur[d]
  BY <1>1 DEF Types
<1>5. Types'
  <2>1. t + 1 \in 1..(NPROC + 1)
    BY SchedConstants, SMT DEF Thread
  <2>2. QED
    BY <1>1, <2>1 DEF Types
<1>6. Own' /\ OneStack'
  BY <1>2, <1>4, SMT DEF IInv, Own, OneStack
<1>7. \A y \in Context : Shape(y)'
  BY DEF IInv, Shape
<1>8. ASSUME NEW d \in CPU, NEW y \in Context, cur'[d] = y PROVE Flags(d, y)' /\ Runner(d)'
  <2>1. CASE d = c
    <3>1. \A l \in Lock : Holds(c, l) <=> l = "ptable"
      BY <1>1 DEF Holds
    <3>2. \A l \in Lock : Holds(t, l)' <=> l = "ptable"
      BY <1>3 DEF Holds
    <3>3. ncli[c] = 1 /\ ~intr[c] /\ Depth(t)' = 1
      BY <1>1, <1>3, SMT DEF Flags, Depth
    <3>4. Flags(c, t)'
      BY <1>1, <1>3, <3>1, <3>2, <3>3, SMT DEF Flags
    <3>5. scan'[c] >= 2 /\ skipped'[c] = 0
      BY <1>1, SchedConstants, SMT DEF Types, Thread
    <3>6. Runner(c)'
      BY <1>1, <1>4, <3>5 DEF Runner
    <3>7. QED
      BY <1>4, <1>8, <2>1, <3>4, <3>6
  <2>2. CASE d # c
    <3>1. scan'[d] = scan[d] /\ skipped'[d] = skipped[d] /\ cur[d] = y
      BY <1>1, <1>4, <1>8, <2>2 DEF Types
    <3>2. Flags(d, y) /\ Runner(d)
      BY <3>1 DEF IInv
    <3>3. Flags(d, y)'
      BY <3>2, SameFlags
    <3>4. Runner(d)'
      BY <1>8, <3>1, <3>2 DEF Runner
    <3>5. QED
      BY <3>3, <3>4
  <2>3. QED
    BY <2>1, <2>2
<1>9. ASSUME NEW u \in Thread PROVE Status(u)'
  <2>1. Status(u) /\ u # c
    BY Apart DEF IInv
  <2>2. CASE u = t
    <3>1. state'[t] = "RUNNING"
      BY <1>1 DEF Types
    <3>2. QED
      BY <1>1, <1>3, <1>4, <2>1, <2>2, <3>1 DEF Status
  <2>3. CASE u # t
    <3>1. state'[u] = state[u]
      BY <1>1, <2>3 DEF Types
    <3>2. (\E d \in CPU : cur'[d] = u) <=> (\E d \in CPU : cur[d] = u)
      BY <1>4, <2>1, <2>3
    <3>3. QED
      BY <2>1, <3>1, <3>2 DEF Status
  <2>4. QED
    BY <2>2, <2>3
<1>10. ASSUME NEW u \in Thread PROVE Waits(u)'
  <2>1. Waits(u) /\ (state'[u] = "SLEEPING" => state[u] = "SLEEPING")
    BY <1>1 DEF IInv, Types
  <2>2. Needed(u)' <=> Needed(u)
    BY DEF Needed
  <2>3. Waker(lk[u]) => Waker(lk[u])'
    BY <1>1, <1>4 DEF Waker
  <2>4. QED
    BY <2>1, <2>2, <2>3 DEF Waits
<1>11. \A d \in CPU : cur'[d] \in Context
  BY <1>5 DEF Types
<1>12. QED
  BY <1>5, <1>6, <1>7, <1>8, <1>9, <1>10, <1>11 DEF IInv

\* scheduler() takes the first RUNNABLE thread from scan on, or ends its pass.
LEMMA swtchKeeps == ASSUME IInv, NEW c \in CPU, swtch(c) PROVE IInv'
<1>1. At(c, "scan")
  BY DEF swtch
<1>2. cur[c] = c
  BY <1>1, Here DEF Shape, Context
<1>3. CASE {t \in Thread : t >= scan[c] /\ state[t] = "RUNNABLE"} = {}
  BY <1>1, <1>2, <1>3, PassEnds DEF swtch
<1>4. CASE {t \in Thread : t >= scan[c] /\ state[t] = "RUNNABLE"} # {}
  <2>1. PICK t \in Thread :
           /\ state[t] = "RUNNABLE"
           /\ skipped' = [skipped EXCEPT ![c] = 0]
           /\ scan' = [scan EXCEPT ![c] = t + 1]
           /\ state' = [state EXCEPT ![t] = "RUNNING"]
           /\ cur' = [cur EXCEPT ![c] = t]
           /\ UNCHANGED pc
    BY <1>4 DEF swtch
  <2>2. UNCHANGED <<owner, spins, flags, lk, saved, tf, chan, objects, sys>>
    BY DEF swtch
  <2>3. QED
    BY <1>1, <1>2, <2>1, <2>2, SwitchesTo, Zenon
<1>5. QED
  BY <1>3, <1>4

---------------------------------------------------------------------------
\* Nothing is held when the CPUs start scheduler().
LEMMA Starts == Init => IInv
<1>1. SUFFICES ASSUME Init PROVE IInv
  OBVIOUS
<1>2. Types
  BY <1>1, SchedConstants, SMT DEF Init, Types, Places, Context
<1>3. Own /\ OneStack
  BY <1>1 DEF Init, Own, OneStack
<1>4. ASSUME NEW c \in CPU, NEW x \in Context, cur[c] = x PROVE Flags(c, x)
  <2>1. x = c /\ pc[x] = "sti"
    BY <1>1, <1>4 DEF Init
  <2>2. Depth(x) = 0 /\ \A l \in Lock : ~Holds(x, l)
    BY <2>1 DEF Depth, Holds
  <2>3. QED
    BY <1>1, <2>1, <2>2, Apart, SMT DEF Init, Flags
<1>5. \A x \in Context : Shape(x)
  BY <1>1, Apart DEF Init, Shape, Context
<1>6. \A t \in Thread : Status(t) /\ Waits(t)
  BY <1>1, Apart DEF Init, Status, Waits, Context
<1>7. \A c \in CPU : Runner(c)
  BY <1>1 DEF Init, Runner, Context
<1>8. QED
  BY <1>2, <1>3, <1>4, <1>5, <1>6, <1>7 DEF IInv

\* Every step of Next keeps the invariant.
LEMMA Steps == IInv /\ [Next]_vars => IInv'
<1>1. SUFFICES ASSUME IInv, [Next]_vars PROVE IInv'
  OBVIOUS
<1>2. CASE UNCHANGED vars
  <2>1. Types' /\ Own' /\ OneStack'
    BY <1>1, <1>2 DEF vars, IInv, Types, Own, OneStack
  <2>2. \A c \in CPU, x \in Context : cur'[c] = x => Flags(c, x)'
    BY <1>1, <1>2, SameFlags DEF vars, IInv
  <2>3. \A c \in CPU : Runner(c)'
    BY <1>1, <1>2 DEF vars, IInv, Runner
  <2>4. \A x \in Context : Shape(x)'
    BY <1>1, <1>2 DEF vars, IInv, Shape
  <2>5. \A t \in Thread : Status(t)'
    BY <1>1, <1>2 DEF vars, IInv, Status
  <2>6. \A t \in Thread : Waits(t)'
    BY <1>1, <1>2 DEF vars, IInv, Waits, Needed, Waker
  <2>7. QED
    BY <2>1, <2>2, <2>3, <2>4, <2>5, <2>6 DEF IInv
<1>3. ASSUME NEW c \in CPU, syscall(c) \/ interrupt(c) \/ Step(c) PROVE IInv'
  BY <1>1, <1>3, EntersKeeps, UnderLockKeeps, pushcliKeeps, acquireKeeps, releaseKeeps,
     SignalKeeps, wakeup1Keeps, schedKeeps, swtchKeeps, Zenon
     DEF Step
<1>4. QED
  BY <1>1, <1>2, <1>3 DEF Next

\* The invariant holds whatever the interleaving of CPUs and interrupts.
THEOREM SchedInvariant == Spec => []IInv
BY Starts, Steps, PTL DEF Spec

\* No panic of acquire(), release(), popcli() or sched() is reached.
THEOREM NeverPanics == Spec => []NoPanic
<1>1. IInv => NoPanic
  BY DEF IInv, Types, NoPanic
<1>2. QED
  BY <1>1, SchedInvariant, PTL

\* acquire() excludes: no two CPUs are in the sections of the same spin-lock, on
\* either side of a switch with ptable.lock held.
THEOREM LocksExclude ==
  Spec => [](\A c, d \in CPU : \A l \in Lock : Holds(cur[c], l) /\ Holds(cur[d], l) => c = d)
<1>1. IInv => \A c, d \in CPU : \A l \in Lock : Holds(cur[c], l) /\ Holds(cur[d], l) => c = d
  BY OneHolder
<1>2. QED
  BY <1>1, SchedInvariant, PTL

\* No two CPUs execute one thread: sched() and scheduler() keep ptable.lock over
\* the switch.
THEOREM OneCPUPerThread == Spec => []OneStack
<1>1. IInv => OneStack
  BY DEF IInv
<1>2. QED
  BY <1>1, SchedInvariant, PTL

\* sched() brings a system call back with the interrupt flag it left with.
THEOREM CallsUninterrupted == Spec => []SyscallsUninterrupted
<1>1. IInv => SyscallsUninterrupted
  BY SMT DEF IInv, Flags, Shape, Context, SyscallsUninterrupted
<1>2. QED
  BY <1>1, SchedInvariant, PTL

\* sleep() loses no wakeup(): who sleeps is waiting for something that has not
\* happened yet, or its waker is on the way.
THEOREM WakeupsArrive == Spec => []NoLostWakeup
<1>1. IInv => NoLostWakeup
  <2>1. SUFFICES ASSUME IInv, NEW t \in Thread, state[t] = "SLEEPING"
                 PROVE  \/ chan[t] = "lk" /\ locked # None
                        \/ chan[t] = "dev" /\ t \in busy
                        \/ \E c \in CPU : /\ pc[cur[c]] \in {"wakeup", "wakeup1"}
                                          /\ (tf[cur[c]] = "none") = (chan[t] = "lk")
    BY DEF NoLostWakeup
  <2>2. chan[t] = lk[t] /\ (Needed(t) \/ Waker(lk[t]))
    BY <2>1 DEF IInv, Status, Waits
  <2>3. QED
    BY <2>2 DEF Needed, Waker
<1>2. QED
  BY <1>1, SchedInvariant, PTL

\* scheduler() halts its CPU only where an interrupt can wake it.
THEOREM HaltsAwake == Spec => []HaltsInterruptible
<1>1. IInv => HaltsInterruptible
  BY DEF IInv, Runner, HaltsInterruptible
<1>2. QED
  BY <1>1, SchedInvariant, PTL

=============================================================================
