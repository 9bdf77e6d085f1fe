----------------------------- MODULE ProcProofs -----------------------------
(***************************************************************************)
(* The process table, for any number of slots, CPUs, channels and pages:   *)
(* the inductive invariant PInv, the theorems that follow from it, and     *)
(* that the pages of processes are conserved.                              *)
(***************************************************************************)
EXTENDS Proc, FiniteSetTheorems, WellFoundedInduction, TLAPS

USE ZenonT(5), SMTT(30)

\* The loops over the table stop at a slot that satisfies their test.
LEMMA MinOfSlots ==
  ASSUME NEW S, S \subseteq Slot, S # {}
  PROVE  Min(S) \in S
<1>1. S \subseteq Nat
  BY ProcConstants, SMT DEF Slot
<1> DEFINE R == {ss \in Nat \X Nat : ss[1] < ss[2]}
<1>2. IsWellFoundedOn(R, Nat)
  BY NatLessThanWellFounded, Zenon DEF OpToRel
<1>3. PICK x \in S : \A y \in S : ~(<<y, x>> \in R)
  BY <1>1, <1>2, WFMin, Zenon
<1>4. ASSUME NEW y \in S PROVE x <= y
  <2>1. x \in Nat /\ y \in Nat /\ <<y, x>> \in Nat \X Nat
    BY <1>1
  <2>2. ~(y < x)
    BY <1>3, <2>1
  <2> QED BY <2>1, <2>2, SMT
<1> QED BY <1>4 DEF Min

\* The inductive invariant.
PInv ==
  /\ TypeOK /\ OneCPU /\ ParentAlive /\ NoMissedExit /\ WaitSeesKill /\ PidsUnique
  /\ Rooted /\ EmbryoOwned

\* initproc is a slot of the table.
LEMMA SlotFacts == initproc \in Slot /\ None \notin Slot /\ Slot \subseteq Nat
BY ProcConstants, SMT DEF Slot, initproc, None

\* The table as userinit() leaves it.
LEMMA InitInv == Init => PInv
<1> SUFFICES ASSUME Init PROVE PInv
  OBVIOUS
<1> USE SlotFacts DEF Init
<1>1. TypeOK
  BY ProcConstants, SMT DEF TypeOK, ProcState, PC
<1>2. OneCPU /\ WaitSeesKill
  BY DEF OneCPU, WaitSeesKill
<1>3. ParentAlive /\ NoMissedExit /\ Rooted /\ EmbryoOwned
  BY DEF ParentAlive, NoMissedExit, Rooted, EmbryoOwned, Live
<1>4. PidsUnique
  BY SMT DEF PidsUnique, initproc
<1> QED BY <1>1, <1>2, <1>3, <1>4 DEF PInv

\* Steps that change only pc, and not to "fork".
LEMMA PcStep ==
  ASSUME PInv, NEW p \in Slot, NEW l \in PC \ {"fork"}, pc' = [pc EXCEPT ![p] = l],
         UNCHANGED <<state, pid, parent, chan, killed, np, nextpid, cpu, scan, pages, sys>>
  PROVE  PInv'
<1> USE DEF PInv
<1>1. TypeOK'
  BY DEF TypeOK
<1>2. OneCPU' /\ WaitSeesKill' /\ ParentAlive' /\ NoMissedExit' /\ Rooted' /\ PidsUnique'
  BY SMT DEF OneCPU, WaitSeesKill, ParentAlive, NoMissedExit, Rooted, PidsUnique
<1>3. EmbryoOwned'
  BY DEF EmbryoOwned, TypeOK
<1> QED BY <1>1, <1>2, <1>3

\* A panic stops the system where it is.
LEMMA PanicStep == ASSUME PInv, panic PROVE PInv'
BY SMT DEF PInv, panic, TypeOK, OneCPU, WaitSeesKill, ParentAlive, NoMissedExit, Rooted,
       PidsUnique, EmbryoOwned

\* Return(p) sends p to user space or to exit().
LEMMA ReturnIs ==
  ASSUME NEW p \in Slot
  PROVE  \E l \in PC \ {"fork"} : Return(p) = [pc EXCEPT ![p] = l]
BY SMT DEF Return, PC

\* allocproc(): a page for the kernel stack and a new pid.
LEMMA AllocprocStep == ASSUME PInv, NEW p \in Slot, allocproc(p) PROVE PInv'
<1> USE DEF PInv
<1> DEFINE free == {q \in Slot : state[q] = "UNUSED"}
<1>1. CASE free = {}
  BY <1>1, ReturnIs, PcStep DEF allocproc
<1>2. CASE free # {} /\ pages = 0
  BY <1>2, PanicStep DEF allocproc
<1>3. CASE free # {} /\ pages # 0
  <2> DEFINE c == Min(free)
  <2>1. c \in Slot /\ state[c] = "UNUSED"
    BY <1>3, MinOfSlots
  <2> HIDE DEF c
  <2>2. /\ Runs(p) /\ pc[p] = "user"
        /\ state' = [state EXCEPT ![c] = "EMBRYO"]
        /\ pid' = [pid EXCEPT ![c] = nextpid]
        /\ nextpid' = nextpid + 1
        /\ np' = [np EXCEPT ![p] = c]
        /\ pc' = [pc EXCEPT ![p] = "fork"]
        /\ pages' = pages - 1
        /\ UNCHANGED <<parent, chan, killed, cpu, scan, sys>>
    BY <1>3 DEF allocproc, c
  <2>3. p # c /\ c # initproc
    BY <2>1, <2>2 DEF Runs, Rooted, Live
  <2>4. TypeOK'
    BY <1>3, <2>1, <2>2, SMT DEF TypeOK, ProcState, PC
  <2>5. OneCPU'
    BY <2>1, <2>2 DEF OneCPU, TypeOK
  <2>6. WaitSeesKill'
    BY <2>1, <2>2 DEF WaitSeesKill, TypeOK
  <2>7. ParentAlive'
    BY <2>1, <2>2 DEF ParentAlive, TypeOK, Live
  <2>8. NoMissedExit'
    BY <2>1, <2>2 DEF NoMissedExit, TypeOK
  <2>9. Rooted'
    BY <2>1, <2>2, <2>3, SMT DEF Rooted, TypeOK
  <2>10. PidsUnique'
    BY <2>1, <2>2, SMT DEF PidsUnique, TypeOK
  <2>11. EmbryoOwned'
    BY <2>1, <2>2, <2>3, SlotFacts, SMT DEF EmbryoOwned, TypeOK, Runs, Live
  <2> QED BY <2>4, <2>5, <2>6, <2>7, <2>8, <2>9, <2>10, <2>11
<1> QED BY <1>1, <1>2, <1>3

\* The rest of fork().
LEMMA ForkStep == ASSUME PInv, NEW p \in Slot, fork(p) PROVE PInv'
<1> USE DEF PInv
<1>1. CASE pages = 0
  BY <1>1, PanicStep DEF fork
<1>2. CASE pages # 0
  <2> DEFINE c == np[p]
  <2>1. c \in Slot /\ state[c] = "EMBRYO" /\ Runs(p) /\ pc[p] = "fork" /\ p # c
    BY SlotFacts DEF fork, EmbryoOwned, TypeOK, Runs
  <2>0. PICK l \in PC \ {"fork"} : Return(p) = [pc EXCEPT ![p] = l]
    BY ReturnIs
  <2>2. /\ pages' = pages - 1
        /\ parent' = [parent EXCEPT ![c] = p]
        /\ state' = [state EXCEPT ![c] = "RUNNABLE"]
        /\ np' = [np EXCEPT ![p] = None]
        /\ pc' = [[pc EXCEPT ![p] = l] EXCEPT ![c] = "user"]
        /\ UNCHANGED <<pid, chan, killed, nextpid, cpu, scan, sys>>
    BY <1>2, <2>0 DEF fork
  <2> HIDE DEF c
  <2>3. TypeOK'
    BY <1>2, <2>1, <2>2, SMT DEF TypeOK, ProcState, PC
  <2>4. OneCPU'
    BY <2>1, <2>2 DEF OneCPU, TypeOK
  <2>5. WaitSeesKill'
    BY <2>1, <2>2 DEF WaitSeesKill, TypeOK
  <2>6. ParentAlive'
    BY <2>1, <2>2, SlotFacts, SMT DEF ParentAlive, EmbryoOwned, TypeOK, Live, Runs
  <2>7. NoMissedExit'
    BY <2>1, <2>2 DEF NoMissedExit, TypeOK, Runs
  <2>8. Rooted'
    BY <2>1, <2>2, SlotFacts DEF Rooted, TypeOK, Live
  <2>9. PidsUnique'
    BY <2>1, <2>2 DEF PidsUnique, TypeOK
  <2>10. EmbryoOwned'
    <3>1. \A q \in Slot : pc'[q] = "fork" => q # p /\ q # c /\ pc[q] = "fork" /\ np'[q] = np[q]
      BY <2>1, <2>2 DEF TypeOK
    <3>2. \A q \in Slot : pc'[q] = "fork" => np[q] # c
      BY <2>1, <3>1 DEF EmbryoOwned, c
    <3>3. \A q \in Slot : state'[q] \in {"UNUSED", "EMBRYO"} => parent'[q] = None
      BY <2>1, <2>2 DEF EmbryoOwned, TypeOK
    <3>4. \A q \in Slot : pc'[q] = "fork" =>
            state'[q] \in Live /\ np'[q] # None /\ state'[np'[q]] = "EMBRYO"
      BY <2>1, <2>2, <3>1, <3>2, SMT DEF EmbryoOwned, TypeOK
    <3>5. \A q, r \in Slot : pc'[q] = "fork" /\ pc'[r] = "fork" /\ np'[q] = np'[r] => q = r
      BY <3>1, SMT DEF EmbryoOwned
    <3> QED BY <3>3, <3>4, <3>5 DEF EmbryoOwned
  <2> QED BY <2>3, <2>4, <2>5, <2>6, <2>7, <2>8, <2>9, <2>10
<1> QED BY <1>1, <1>2

\* exit(): the parent and, for dead children, init are woken in time.
LEMMA ExitStep == ASSUME PInv, NEW p \in Slot, exit(p) PROVE PInv'
<1> USE DEF PInv
<1>1. CASE p = initproc
  BY <1>1, PanicStep DEF exit
<1>2. CASE p # initproc
  <2> DEFINE kids == {q \in Slot : parent[q] = p}
             handed == woken(p)
  <2>1. /\ Runs(p) /\ pc[p] = "exit"
        /\ state' = [handed EXCEPT ![p] = "ZOMBIE"]
        /\ parent' = [q \in Slot |-> IF q \in kids THEN initproc ELSE parent[q]]
        /\ cpu' = [c \in CPU |-> IF cpu[c] = p THEN None ELSE cpu[c]]
        /\ UNCHANGED <<pid, chan, killed, pc, np, nextpid, scan, pages, sys>>
    BY <1>2 DEF exit, sched, adopted
  <2>2. /\ handed \in [Slot -> ProcState]
        /\ \A q \in Slot : \/ handed[q] = state[q]
                           \/ state[q] = "SLEEPING" /\ handed[q] = "RUNNABLE"
    BY DEF woken, wakeup1, TypeOK, ProcState
  <2>3. \A q \in Slot : handed[q] = "SLEEPING" => state[q] = "SLEEPING" /\ chan[q] # parent[p]
    BY DEF woken, wakeup1
  <2>4. (\E q \in kids : state[q] = "ZOMBIE") => ~(handed[initproc] = "SLEEPING" /\ chan[initproc] = initproc)
    BY SlotFacts DEF woken, wakeup1
  <2> HIDE DEF handed
  <2>5. \A q \in Slot : q # p => state'[q] = handed[q]
    BY <2>1, <2>2
  <2>6. state'[p] = "ZOMBIE"
    BY <2>1, <2>2
  <2>7. TypeOK'
    <3>1. state' \in [Slot -> ProcState]
      BY <2>1, <2>2 DEF ProcState
    <3> QED BY <2>1, <3>1, SlotFacts DEF TypeOK
  <2>8. OneCPU'
    <3>1. \A q \in Slot : state'[q] = "RUNNING" <=> q # p /\ state[q] = "RUNNING"
      BY <2>2, <2>5, <2>6
    <3>2. \A c \in CPU : cpu'[c] # None => cpu'[c] = cpu[c] /\ cpu[c] # p /\ cpu[c] \in Slot
      BY <2>1 DEF TypeOK
    <3>3. \A c \in CPU : cpu'[c] # None => state'[cpu'[c]] = "RUNNING"
      BY <3>1, <3>2 DEF OneCPU
    <3>4. \A c, d \in CPU : cpu'[c] = cpu'[d] /\ cpu'[c] # None => c = d
      BY <3>2, SMT DEF OneCPU
    <3>5. \A q \in Slot : state'[q] = "RUNNING" => \E c \in CPU : cpu'[c] = q
      BY <2>1, <3>1 DEF OneCPU
    <3> QED BY <3>3, <3>4, <3>5 DEF OneCPU
  <2>9. WaitSeesKill'
    BY <2>1, <2>2, <2>5, <2>6, SMT DEF WaitSeesKill
  <2>10. PidsUnique'
    BY <2>1, <2>2, <2>5, <2>6 DEF PidsUnique, Runs
  <2>11. Rooted'
    BY <1>2, <2>1, <2>2, <2>5, SlotFacts, SMT DEF Rooted, Live
  <2>12. ParentAlive'
    <3> SUFFICES ASSUME NEW q \in Slot, q # initproc, state'[q] \in Live \union {"ZOMBIE"}
                 PROVE  parent'[q] # None /\ state'[parent'[q]] \in Live
      BY DEF ParentAlive
    <3>1. state[q] \in Live \union {"ZOMBIE"}
      BY <2>1, <2>2, <2>5 DEF Live, Runs
    <3>2. CASE q \in kids
      BY <2>1, <2>11, <3>2, SlotFacts DEF Rooted
    <3>3. CASE q \notin kids
      <4>1. parent'[q] = parent[q] /\ parent[q] # p /\ parent[q] \in Slot /\ state[parent[q]] \in Live
        BY <2>1, <3>1, <3>3 DEF ParentAlive, TypeOK
      <4> QED BY <2>2, <2>5, <4>1, SlotFacts, Zenon DEF Live
    <3> QED BY <3>2, <3>3
  <2>13. NoMissedExit'
    <3> SUFFICES ASSUME NEW r \in Slot, state'[r] = "SLEEPING", chan'[r] = r,
                        NEW q \in Slot, parent'[q] = r, state'[q] = "ZOMBIE"
                 PROVE  FALSE
      BY DEF NoMissedExit
    <3>1. r # p /\ handed[r] = "SLEEPING" /\ chan[r] = r /\ state[r] = "SLEEPING"
      BY <2>1, <2>2, <2>5, <2>6
    <3>2. CASE q \in kids
      <4>1. r = initproc
        BY <2>1, <3>2
      <4>2. CASE q = p
        BY <3>2, <4>2 DEF Rooted
      <4>3. CASE q # p
        BY <2>2, <2>4, <2>5, <3>1, <3>2, <4>1, <4>3
      <4> QED BY <4>2, <4>3
    <3>3. CASE q \notin kids
      <4>1. parent[q] = r
        BY <2>1, <3>3
      <4>2. CASE q = p
        BY <2>3, <3>1, <4>1, <4>2
      <4>3. CASE q # p
        BY <2>2, <2>5, <3>1, <4>1, <4>3 DEF NoMissedExit
      <4> QED BY <4>2, <4>3
    <3> QED BY <3>2, <3>3
  <2>14. EmbryoOwned'
    <3>1. \A q \in Slot : pc[q] = "fork" => q # p /\ np[q] \in Slot /\ np[q] # p
      BY <2>1 DEF EmbryoOwned, TypeOK, Runs
    <3>2. \A q \in Slot : pc'[q] = "fork" =>
            state'[q] \in Live /\ np'[q] # None /\ state'[np'[q]] = "EMBRYO"
      BY <2>1, <2>2, <2>5, <3>1, SMT DEF EmbryoOwned, Live
    <3>3. \A q \in Slot : state'[q] \in {"UNUSED", "EMBRYO"} => parent'[q] = None
      BY <2>1, <2>2, <2>5, <2>6, SlotFacts, SMT DEF EmbryoOwned
    <3> QED BY <2>1, <3>2, <3>3 DEF EmbryoOwned
  <2> QED BY <2>7, <2>8, <2>9, <2>10, <2>11, <2>12, <2>13, <2>14
<1> QED BY <1>1, <1>2

\* A running process gives up its CPU for another state.
LEMMA SchedOneCPU ==
  ASSUME TypeOK, OneCPU, NEW p \in Slot, NEW s, s # "RUNNING",
         state[p] = "RUNNING", state' = [state EXCEPT ![p] = s], sched(p)
  PROVE  OneCPU'
<1>1. \A q \in Slot : state'[q] = "RUNNING" <=> q # p /\ state[q] = "RUNNING"
  BY DEF TypeOK
<1>2. \A c \in CPU : cpu'[c] # None => cpu'[c] = cpu[c] /\ cpu[c] # p /\ cpu[c] \in Slot
  BY DEF sched, TypeOK
<1>3. \A c \in CPU : cpu'[c] # None => state'[cpu'[c]] = "RUNNING"
  BY <1>1, <1>2 DEF OneCPU
<1>4. \A c, d \in CPU : cpu'[c] = cpu'[d] /\ cpu'[c] # None => c = d
  BY <1>2, SMT DEF OneCPU
<1>5. \A q \in Slot : state'[q] = "RUNNING" => \E c \in CPU : cpu'[c] = q
  BY <1>1 DEF OneCPU, sched
<1> QED BY <1>3, <1>4, <1>5 DEF OneCPU

\* The type of the state after sched().
LEMMA SchedType ==
  ASSUME TypeOK, NEW p \in Slot, sched(p)
  PROVE  cpu' \in [CPU -> Slot \union {None}]
BY DEF sched, TypeOK

\* wait(): the slot it frees has no children, and it falls asleep only with no
\* dead child and not killed.
LEMMA WaitStep == ASSUME PInv, NEW p \in Slot, wait(p) PROVE PInv'
<1> USE DEF PInv
<1> DEFINE kids == {q \in Slot : parent[q] = p}
           dead == {q \in kids : state[q] = "ZOMBIE"}
<1>0. PICK l \in PC \ {"fork"} : Return(p) = [pc EXCEPT ![p] = l]
  BY ReturnIs
<1>r. Runs(p) /\ pc[p] \in {"user", "wait"}
  BY DEF wait
<1>1. CASE dead # {} /\ state' = [state EXCEPT ![Min(dead)] = "UNUSED"]
  <2> DEFINE c == Min(dead)
  <2>1. c \in Slot /\ parent[c] = p /\ state[c] = "ZOMBIE"
    BY <1>1, MinOfSlots
  <2>2. /\ state' = [state EXCEPT ![c] = "UNUSED"]
        /\ pid' = [pid EXCEPT ![c] = 0]
        /\ parent' = [parent EXCEPT ![c] = None]
        /\ killed' = [killed EXCEPT ![c] = FALSE]
        /\ pages' = pages + 2
        /\ pc' = [pc EXCEPT ![p] = l]
        /\ UNCHANGED <<chan, np, nextpid, cpu, scan, sys>>
    <3>1. state'[p] # "SLEEPING"
      BY <1>1, <1>r DEF Runs, TypeOK
    <3>2. state'[c] # state[c]
      BY <1>1, <2>1 DEF TypeOK
    <3> QED BY <1>0, <1>1, <3>1, <3>2 DEF wait, reap, TypeOK
  <2> HIDE DEF c
  <2>3. p # c /\ c # initproc
    BY <2>1, <1>r DEF Runs, Rooted, Live
  <2>4. TypeOK'
    <3>1. killed' \in [Slot -> BOOLEAN]
      BY <2>2, Zenon DEF TypeOK
    <3> QED BY <2>1, <2>2, <3>1, SMT DEF TypeOK, ProcState
  <2>5. OneCPU'
    BY <2>1, <2>2 DEF OneCPU, TypeOK
  <2>6. WaitSeesKill'
    BY <2>1, <2>2 DEF WaitSeesKill, TypeOK
  <2>7. ParentAlive'
    BY <2>1, <2>2, <2>3 DEF ParentAlive, TypeOK, Live
  <2>8. NoMissedExit'
    BY <2>1, <2>2 DEF NoMissedExit, TypeOK
  <2>9. Rooted'
    BY <2>1, <2>2, <2>3, SlotFacts DEF Rooted, TypeOK
  <2>10. PidsUnique'
    BY <2>1, <2>2, SMT DEF PidsUnique, TypeOK
  <2>11. EmbryoOwned'
    BY <2>1, <2>2, <2>3, <1>r, SMT DEF EmbryoOwned, TypeOK, Live
  <2> QED BY <2>4, <2>5, <2>6, <2>7, <2>8, <2>9, <2>10, <2>11
<1>2. CASE pc' = Return(p) /\ UNCHANGED <<state, pid, parent, chan, killed, np, nextpid, cpu, scan, pages, sys>>
  BY <1>0, <1>2, PcStep, Zenon
<1>3. CASE /\ dead = {} /\ ~killed[p]
           /\ chan' = [chan EXCEPT ![p] = p]
           /\ state' = [state EXCEPT ![p] = "SLEEPING"]
           /\ pc' = [pc EXCEPT ![p] = "wait"]
           /\ sched(p)
           /\ UNCHANGED <<pid, parent, killed, np, nextpid, scan, pages, sys>>
  <2> USE <1>3
  <2>4. TypeOK'
    BY SchedType DEF TypeOK, ProcState, PC
  <2>5. OneCPU'
    BY <1>r, SchedOneCPU, Zenon DEF Runs
  <2>6. WaitSeesKill'
    BY DEF WaitSeesKill, TypeOK
  <2>7. ParentAlive'
    BY <1>r DEF ParentAlive, TypeOK, Live, Runs
  <2>8. NoMissedExit'
    BY <1>r DEF NoMissedExit, TypeOK
  <2>9. Rooted'
    BY SlotFacts DEF Rooted, TypeOK, Live
  <2>10. PidsUnique'
    BY <1>r DEF PidsUnique, TypeOK, Runs
  <2>11. EmbryoOwned'
    BY <1>r, SMT DEF EmbryoOwned, TypeOK, Live, Runs
  <2> QED BY <2>4, <2>5, <2>6, <2>7, <2>8, <2>9, <2>10, <2>11
<1> QED BY <1>1, <1>2, <1>3 DEF wait, reap

\* A running process becomes RUNNABLE, or SLEEPING on a channel that is not a
\* process: yield() and sleep().
LEMMA LeaveCPU ==
  ASSUME PInv, NEW p \in Slot, Runs(p), sched(p),
         NEW s \in {"RUNNABLE", "SLEEPING"}, state' = [state EXCEPT ![p] = s],
         NEW ch \in Chan \union {chan[p]}, chan' = [chan EXCEPT ![p] = ch],
         s = "SLEEPING" => ch \in Chan,
         NEW l \in PC, pc' = [pc EXCEPT ![p] = l], l = "fork" => pc[p] = "fork",
         UNCHANGED <<pid, parent, killed, np, nextpid, scan, pages, sys>>
  PROVE  PInv'
<1> USE DEF PInv
<1>1. TypeOK'
  BY SchedType DEF TypeOK, ProcState
<1>2. OneCPU'
  BY SchedOneCPU, Zenon DEF Runs
<1>3. ch \in Chan => ch # p
  BY ProcConstants, SMT DEF Slot
<1>4. WaitSeesKill'
  BY <1>3 DEF WaitSeesKill, TypeOK
<1>5. ParentAlive'
  BY DEF ParentAlive, TypeOK, Live, Runs
<1>6. NoMissedExit'
  BY <1>3 DEF NoMissedExit, TypeOK
<1>7. Rooted'
  BY SlotFacts DEF Rooted, TypeOK, Live
<1>8. PidsUnique'
  BY DEF PidsUnique, TypeOK, Runs
<1>9. EmbryoOwned'
  BY SMT DEF EmbryoOwned, TypeOK, Live, Runs
<1> QED BY <1>1, <1>2, <1>4, <1>5, <1>6, <1>7, <1>8, <1>9

\* sleep().
LEMMA SleepStep == ASSUME PInv, NEW p \in Slot, NEW ch \in Chan, sleep(p, ch) PROVE PInv'
<1> DEFINE l == IF pc[p] = "sleep" THEN "awake" ELSE pc[p]
<1>1. l \in PC /\ l # "fork" /\ "SLEEPING" \in {"RUNNABLE", "SLEEPING"}
  BY DEF PC, sleep
<1>2. pc' = [pc EXCEPT ![p] = l]
  BY DEF sleep
<1> HIDE DEF l
<1> QED BY <1>1, <1>2, LeaveCPU, Zenon DEF sleep

\* yield().
LEMMA YieldStep == ASSUME PInv, NEW p \in Slot, yield(p) PROVE PInv'
<1>1. CASE killed[p]
  BY <1>1, PcStep DEF yield, PC
<1>2. CASE ~killed[p]
  <2>1. /\ chan = [chan EXCEPT ![p] = chan[p]]
        /\ "trap" \in PC /\ "RUNNABLE" \in {"RUNNABLE", "SLEEPING"}
    BY DEF PInv, TypeOK, PC
  <2>2. /\ Runs(p) /\ sched(p) /\ state' = [state EXCEPT ![p] = "RUNNABLE"]
        /\ chan' = [chan EXCEPT ![p] = chan[p]]
        /\ pc' = [pc EXCEPT ![p] = "trap"]
        /\ UNCHANGED <<pid, parent, killed, np, nextpid, scan, pages, sys>>
    BY <1>2, <2>1 DEF yield
  <2> QED BY <2>1, <2>2, LeaveCPU, Zenon
<1> QED BY <1>1, <1>2

\* wakeup(): sleepers on a channel become RUNNABLE and nothing else changes.
LEMMA WakeupStep == ASSUME PInv, NEW ch \in Chan, wakeup(ch) PROVE PInv'
<1> USE DEF PInv
<1>1. /\ state' \in [Slot -> ProcState]
      /\ \A q \in Slot : \/ state'[q] = state[q]
                         \/ state[q] = "SLEEPING" /\ state'[q] = "RUNNABLE"
      /\ UNCHANGED <<pid, parent, chan, killed, pc, np, nextpid, cpu, scan, pages, sys>>
  BY DEF wakeup, wakeup1, TypeOK, ProcState
<1>2. TypeOK'
  BY <1>1 DEF TypeOK
<1>3. OneCPU' /\ WaitSeesKill' /\ PidsUnique'
  BY <1>1, SMT DEF OneCPU, WaitSeesKill, PidsUnique, TypeOK
<1>4. ParentAlive'
  BY <1>1 DEF ParentAlive, TypeOK, Live
<1>5. NoMissedExit' /\ Rooted'
  BY <1>1, SlotFacts DEF NoMissedExit, Rooted, Live
<1>6. EmbryoOwned'
  BY <1>1, SMT DEF EmbryoOwned, TypeOK, Live
<1> QED BY <1>2, <1>3, <1>4, <1>5, <1>6

\* kill().
LEMMA KillStep == ASSUME PInv, NEW p \in Slot, NEW n \in KillPid, kill(p, n) PROVE PInv'
<1> USE DEF PInv
<1> DEFINE hit == {q \in Slot : pid[q] = n}
<1>0. PICK l \in PC \ {"fork"} : Return(p) = [pc EXCEPT ![p] = l]
  BY ReturnIs
<1>1. CASE hit = {}
  BY <1>0, <1>1, PcStep DEF kill
<1>2. CASE hit # {}
  <2> DEFINE c == Min(hit)
             m == IF c = p THEN "exit" ELSE l
  <2>1. c \in Slot
    BY <1>2, MinOfSlots
  <2>2. /\ killed' = [killed EXCEPT ![c] = TRUE]
        /\ state' = [state EXCEPT ![c] = IF @ = "SLEEPING" THEN "RUNNABLE" ELSE @]
        /\ pc' = [pc EXCEPT ![p] = m]
        /\ UNCHANGED <<pid, parent, chan, np, nextpid, cpu, scan, pages, sys>>
    BY <1>0, <1>2 DEF kill, roused
  <2>3. m \in PC \ {"fork"}
    BY DEF PC
  <2> HIDE DEF c, m
  <2>4. /\ state' \in [Slot -> ProcState]
        /\ \A q \in Slot : \/ state'[q] = state[q]
                           \/ state[q] = "SLEEPING" /\ state'[q] = "RUNNABLE"
        /\ state'[c] # "SLEEPING"
    BY <2>1, <2>2 DEF TypeOK, ProcState
  <2>5. TypeOK'
    <3>1. killed' \in [Slot -> BOOLEAN]
      BY <2>2, Zenon DEF TypeOK
    <3> QED BY <2>2, <2>3, <2>4, <3>1 DEF TypeOK
  <2>6. OneCPU' /\ PidsUnique'
    BY <2>2, <2>4, SMT DEF OneCPU, PidsUnique, TypeOK
  <2>7. WaitSeesKill'
    <3>1. \A q \in Slot : killed'[q] => q = c \/ killed[q]
      BY <2>1, <2>2, Zenon DEF TypeOK
    <3> QED BY <2>2, <2>4, <3>1 DEF WaitSeesKill
  <2>8. ParentAlive'
    BY <2>2, <2>4 DEF ParentAlive, TypeOK, Live
  <2>9. NoMissedExit' /\ Rooted'
    BY <2>2, <2>4, SlotFacts, SMT DEF NoMissedExit, Rooted, Live
  <2>10. EmbryoOwned'
    BY <2>2, <2>3, <2>4, SMT DEF EmbryoOwned, TypeOK, Live
  <2> QED BY <2>5, <2>6, <2>7, <2>8, <2>9, <2>10
<1> QED BY <1>1, <1>2

\* A turn of scheduler().
LEMMA SchedulerStep == ASSUME PInv, NEW c \in CPU, scheduler(c) PROVE PInv'
<1> USE DEF PInv
<1> DEFINE ready == {q \in Slot : q >= scan[c] /\ state[q] = "RUNNABLE"}
<1>1. CASE ready = {}
  <2>1. /\ scan' = [scan EXCEPT ![c] = 1]
        /\ UNCHANGED <<state, chan, cpu, pid, parent, killed, pc, np, nextpid, pages, sys>>
    BY <1>1 DEF scheduler
  <2>2. 1 \in 1..(NPROC + 1)
    BY ProcConstants, SMT
  <2>3. TypeOK'
    BY <2>1, <2>2 DEF TypeOK
  <2> QED BY <2>1, <2>3, SMT DEF OneCPU, WaitSeesKill, PidsUnique, ParentAlive, NoMissedExit,
                            Rooted, EmbryoOwned
<1>2. CASE ready # {}
  <2> DEFINE q == Min(ready)
  <2>1. q \in Slot /\ state[q] = "RUNNABLE"
    BY <1>2, MinOfSlots
  <2>2. /\ cpu[c] = None
        /\ cpu' = [cpu EXCEPT ![c] = q]
        /\ state' = [state EXCEPT ![q] = "RUNNING"]
        /\ chan' = [chan EXCEPT ![q] = None]
        /\ scan' = [scan EXCEPT ![c] = q + 1]
        /\ UNCHANGED <<pid, parent, killed, pc, np, nextpid, pages, sys>>
    BY <1>2 DEF scheduler, dispatched, after
  <2> HIDE DEF q
  <2>3. q + 1 \in 1..(NPROC + 1)
    BY <2>1, ProcConstants, SMT DEF Slot
  <2>4. TypeOK'
    BY <2>1, <2>2, <2>3 DEF TypeOK, ProcState
  <2>5. OneCPU'
    <3>1. \A d \in CPU : cpu[d] # q
      BY <2>1, SlotFacts DEF OneCPU
    <3>2. \A d \in CPU : cpu'[d] # None => state'[cpu'[d]] = "RUNNING"
      BY <2>1, <2>2, <3>1, SMT DEF OneCPU, TypeOK
    <3>3. \A d, e \in CPU : cpu'[d] = cpu'[e] /\ cpu'[d] # None => d = e
      BY <2>2, <3>1 DEF OneCPU, TypeOK
    <3>4. \A r \in Slot : state'[r] = "RUNNING" => \E d \in CPU : cpu'[d] = r
      BY <2>1, <2>2, SlotFacts, SMT DEF OneCPU, TypeOK
    <3> QED BY <3>2, <3>3, <3>4 DEF OneCPU
  <2>6. WaitSeesKill' /\ PidsUnique'
    BY <2>1, <2>2 DEF WaitSeesKill, PidsUnique, TypeOK
  <2>7. ParentAlive'
    BY <2>1, <2>2 DEF ParentAlive, TypeOK, Live
  <2>8. NoMissedExit' /\ Rooted'
    BY <2>1, <2>2, SlotFacts DEF NoMissedExit, Rooted, Live, TypeOK
  <2>9. EmbryoOwned'
    BY <2>1, <2>2, SMT DEF EmbryoOwned, TypeOK, Live
  <2> QED BY <2>4, <2>5, <2>6, <2>7, <2>8, <2>9
<1> QED BY <1>1, <1>2

\* Every step keeps the invariant.
LEMMA NextInv == PInv /\ [Next]_vars => PInv'
<1> SUFFICES ASSUME PInv, [Next]_vars PROVE PInv'
  OBVIOUS
<1>1. ASSUME NEW p \in Slot, Step(p) PROVE PInv'
  <2>1. CASE allocproc(p) \/ fork(p) \/ exit(p) \/ wait(p)
    BY <2>1, AllocprocStep, ForkStep, ExitStep, WaitStep
  <2>2. CASE call_exit(p)
    BY <2>2, PcStep, Zenon DEF call_exit, PC
  <2>3. CASE test_killed(p)
    <3>1. PICK l \in PC \ {"fork"} : Return(p) = [pc EXCEPT ![p] = l]
      BY ReturnIs
    <3>2. "sleep" \in PC \ {"fork"}
      BY DEF PC
    <3> QED BY <2>3, <3>1, <3>2, PcStep, Zenon DEF test_killed
  <2>4. CASE leave_loop(p) \/ trap_return(p)
    BY <2>4, ReturnIs, PcStep DEF leave_loop, trap_return
  <2>5. CASE (\E ch \in Chan : sleep(p, ch)) \/ (\E n \in KillPid : kill(p, n))
    BY <2>5, SleepStep, KillStep
  <2> QED BY <1>1, <2>1, <2>2, <2>3, <2>4, <2>5 DEF Step
<1>2. CASE UNCHANGED vars
  BY <1>2, SMT DEF vars, PInv, TypeOK, OneCPU, WaitSeesKill, PidsUnique, ParentAlive, NoMissedExit,
              Rooted, EmbryoOwned
<1> QED BY <1>1, <1>2, YieldStep, SchedulerStep, WakeupStep DEF Next

\* So it holds always.
LEMMA Invariance == Spec => []PInv
BY InitInv, NextInv, PTL DEF Spec

\* The variables keep their types: in particular every loop over the table
\* stays in it and scheduler()'s position is at most one past its end.
THEOREM TypeCorrect == Spec => []TypeOK
BY Invariance, PTL DEF PInv

\* A process is RUNNING exactly when one CPU runs it.
THEOREM RunsOnOneCPU == Spec => []OneCPU
BY Invariance, PTL DEF PInv

\* Every process but init has a living parent: exit() leaves no orphan.
THEOREM NoOrphans == Spec => []ParentAlive
BY Invariance, PTL DEF PInv

\* No process sleeps in wait() while it has a ZOMBIE child.
THEOREM ExitIsSeen == Spec => []NoMissedExit
BY Invariance, PTL DEF PInv

\* No killed process sleeps in wait().
THEOREM KillIsSeenByWait == Spec => []WaitSeesKill
BY Invariance, PTL DEF PInv

\* A pid names at most one process, and only slots in use have one.
THEOREM PidsAreUnique == Spec => []PidsUnique
BY Invariance, PTL DEF PInv

\* The table is finite.
LEMMA SlotsFinite ==
  /\ IsFiniteSet(Stacks) /\ IsFiniteSet(Spaces)
  /\ Cardinality(Stacks) \in Nat /\ Cardinality(Spaces) \in Nat
<1>1. IsFiniteSet(Slot)
  BY FS_Interval, ProcConstants, SMT DEF Slot
<1>2. Stacks \subseteq Slot /\ Spaces \subseteq Slot
  BY DEF Stacks, Spaces
<1>3. IsFiniteSet(Stacks) /\ IsFiniteSet(Spaces)
  BY <1>1, <1>2, FS_Subset
<1> QED BY <1>3, FS_CardinalityType

\* Steps that move slots only among the states of a process that exists.
LEMMA SameSlots ==
  ASSUME PagesConserved, pages' = pages,
         \A q \in Slot : \/ state'[q] = state[q]
                         \/ state[q] \in Live /\ state'[q] \in Live \union {"ZOMBIE"}
  PROVE  PagesConserved'
<1>1. Stacks' = Stacks /\ Spaces' = Spaces
  BY DEF Stacks, Spaces, Live
<1>2. Cardinality(Stacks') = Cardinality(Stacks) /\ Cardinality(Spaces') = Cardinality(Spaces)
  BY <1>1, Zenon
<1> QED BY <1>2, Zenon DEF PagesConserved

\* At the start the first process has its pages.
LEMMA PagesInit == Init => PagesConserved
<1> SUFFICES ASSUME Init PROVE PagesConserved
  OBVIOUS
<1>1. Stacks = {initproc} /\ Spaces = {initproc}
  BY SlotFacts DEF Init, Stacks, Spaces
<1>2. Cardinality(Stacks) = 1 /\ Cardinality(Spaces) = 1
  BY <1>1, FS_Singleton
<1> QED BY <1>2, ProcConstants, SMT DEF Init, PagesConserved

\* Every step keeps the pages accounted for.
LEMMA PagesStep == PInv /\ PagesConserved /\ [Next]_vars => PagesConserved'
<1> SUFFICES ASSUME PInv, PagesConserved, [Next]_vars PROVE PagesConserved'
  OBVIOUS
<1> USE DEF PInv
<1>n. pages \in Nat /\ Memory \in Nat
  BY ProcConstants DEF TypeOK
<1>1. ASSUME NEW p \in Slot, allocproc(p) PROVE PagesConserved'
  <2> DEFINE free == {q \in Slot : state[q] = "UNUSED"}
             c == Min(free)
  <2>1. CASE free = {} \/ pages = 0
    BY <1>1, <2>1, SameSlots DEF allocproc, panic
  <2>2. CASE free # {} /\ pages # 0
    <3>1. c \in Slot /\ state[c] = "UNUSED"
      BY <2>2, MinOfSlots
    <3>2. state' = [state EXCEPT ![c] = "EMBRYO"] /\ pages' = pages - 1
      BY <1>1, <2>2 DEF allocproc
    <3> HIDE DEF c
    <3>3. Stacks' = Stacks \union {c} /\ c \notin Stacks /\ Spaces' = Spaces
      BY <3>1, <3>2 DEF Stacks, Spaces, TypeOK
    <3>4. Cardinality(Stacks') = Cardinality(Stacks) + 1
      BY <3>3, SlotsFinite, FS_AddElement, Zenon
    <3>5. Cardinality(Spaces') = Cardinality(Spaces)
      BY <3>3, Zenon
    <3> QED BY <1>n, <3>2, <3>4, <3>5, SlotsFinite, SMT DEF PagesConserved
  <2> QED BY <2>1, <2>2
<1>2. ASSUME NEW p \in Slot, fork(p) PROVE PagesConserved'
  <2> DEFINE c == np[p]
  <2>1. CASE pages = 0
    BY <1>2, <2>1, SameSlots DEF fork, panic
  <2>2. CASE pages # 0
    <3>1. c \in Slot /\ state[c] = "EMBRYO"
      BY <1>2, SlotFacts DEF fork, EmbryoOwned, TypeOK
    <3>2. state' = [state EXCEPT ![c] = "RUNNABLE"] /\ pages' = pages - 1
      BY <1>2, <2>2 DEF fork
    <3> HIDE DEF c
    <3>3. Spaces' = Spaces \union {c} /\ c \notin Spaces /\ Stacks' = Stacks
      BY <3>1, <3>2 DEF Stacks, Spaces, TypeOK
    <3>4. Cardinality(Spaces') = Cardinality(Spaces) + 1
      BY <3>3, SlotsFinite, FS_AddElement, Zenon
    <3>5. Cardinality(Stacks') = Cardinality(Stacks)
      BY <3>3, Zenon
    <3> QED BY <1>n, <3>2, <3>4, <3>5, SlotsFinite, SMT DEF PagesConserved
  <2> QED BY <2>1, <2>2
<1>3. ASSUME NEW p \in Slot, wait(p) PROVE PagesConserved'
  <2> DEFINE kids == {q \in Slot : parent[q] = p}
             dead == {q \in kids : state[q] = "ZOMBIE"}
             c == Min(dead)
  <2>1. CASE dead # {} /\ state' = [state EXCEPT ![c] = "UNUSED"] /\ pages' = pages + 2
    <3>1. c \in Slot /\ state[c] = "ZOMBIE"
      BY <2>1, MinOfSlots
    <3> HIDE DEF c
    <3>2. /\ Spaces' = Spaces \ {c} /\ c \in Spaces
          /\ Stacks' = Stacks \ {c} /\ c \in Stacks
      BY <2>1, <3>1 DEF Stacks, Spaces, TypeOK
    <3>3. /\ Cardinality(Spaces') = Cardinality(Spaces) - 1
          /\ Cardinality(Stacks') = Cardinality(Stacks) - 1
      BY <3>2, SlotsFinite, FS_RemoveElement, Zenon
    <3> QED BY <1>n, <2>1, <3>3, SlotsFinite, SMT DEF PagesConserved
  <2>2. CASE pages' = pages /\ (state' = state \/ state' = [state EXCEPT ![p] = "SLEEPING"])
    BY <1>3, <2>2, SameSlots DEF wait, reap, Runs, Live, TypeOK
  <2> QED BY <1>3, <2>1, <2>2 DEF wait, reap
<1>4. ASSUME NEW p \in Slot, exit(p) PROVE PagesConserved'
  BY <1>4, SameSlots, Zenon DEF exit, panic, woken, wakeup1, Runs, Live, TypeOK
<1>5. ASSUME NEW p \in Slot, yield(p) \/ call_exit(p) \/ test_killed(p) \/ leave_loop(p) \/ trap_return(p)
             \/ (\E ch \in Chan : sleep(p, ch))
      PROVE  PagesConserved'
  BY <1>5, SameSlots DEF yield, call_exit, test_killed, leave_loop, trap_return, sleep, Runs, Live, TypeOK
<1>6. ASSUME NEW p \in Slot, NEW n \in KillPid, kill(p, n) PROVE PagesConserved'
  <2>1. pages' = pages /\ (state' = state \/ \E c : state' = [state EXCEPT ![c] = IF @ = "SLEEPING" THEN "RUNNABLE" ELSE @])
    BY <1>6 DEF kill, roused
  <2> QED BY <2>1, SameSlots DEF Live, TypeOK
<1>7. ASSUME NEW c \in CPU, scheduler(c) PROVE PagesConserved'
  <2> DEFINE ready == {q \in Slot : q >= scan[c] /\ state[q] = "RUNNABLE"}
  <2>1. CASE ready = {}
    BY <1>7, <2>1, SameSlots DEF scheduler
  <2>2. CASE ready # {}
    <3>1. Min(ready) \in Slot /\ state[Min(ready)] = "RUNNABLE"
      BY <2>2, MinOfSlots
    <3>2. state' = [state EXCEPT ![Min(ready)] = "RUNNING"] /\ pages' = pages
      BY <1>7, <2>2 DEF scheduler, dispatched
    <3> QED BY <3>1, <3>2, SameSlots DEF Live, TypeOK
  <2> QED BY <2>1, <2>2
<1>8. ASSUME NEW ch \in Chan, wakeup(ch) PROVE PagesConserved'
  BY <1>8, SameSlots DEF wakeup, wakeup1, Live
<1>9. CASE UNCHANGED vars
  BY <1>9, SameSlots DEF vars
<1> QED BY <1>1, <1>2, <1>3, <1>4, <1>5, <1>6, <1>7, <1>8, <1>9 DEF Next, Step

\* fork(), exit() and wait() neither leak a page nor free one twice.
THEOREM NoPageLeak == Spec => []PagesConserved
BY Invariance, PagesInit, PagesStep, PTL DEF Spec

=============================================================================
