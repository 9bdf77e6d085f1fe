----------------------------- MODULE LogProofs ------------------------------
(***************************************************************************)
(* The log, for every number of threads, blocks and values, in three       *)
(* layers: outstanding, committing and the threads agree (Inv1); the       *)
(* reservation of begin_op() is enough for every log that satisfies        *)
(* LogFits (Inv2); the disk in every phase of commit() and of recovery     *)
(* (Inv3), and crash atomicity.                                            *)
(***************************************************************************)
EXTENDS Log, FiniteSetTheorems, TLAPS

USE ZenonT(5), SMTT(30)

\* A thread joins, leaves or stays in the set of open operations.
LEMMA ActiveFinite == IsFiniteSet(Active)
BY LogConstants, FS_Subset DEF Active

\* The blocks that the open operations may still log are finitely many.
LEMMA TokensFinite == IsFiniteSet(Tokens)
<1>1. IsFiniteSet(1..OpBlocks)
  BY LogConstants, FS_Interval, SMT
<1>2. IsFiniteSet(Active \X (1..OpBlocks))
  BY <1>1, ActiveFinite, FS_Product, Zenon
<1> QED BY <1>2, FS_Subset DEF Tokens

\* The counts and the phases of the threads.
Inv1 == TypeOK /\ CountInv /\ ThreadInv /\ IdleInv

\* They agree at the start.
LEMMA Init1 == Init => Inv1
<1> SUFFICES ASSUME Init PROVE Inv1
  OBVIOUS
<1>1. Active = {} /\ Committers = {}
  BY DEF Init, Active, Committers, OpPC, CommitPC
<1>2. Cardinality(Active) = 0
  BY <1>1, FS_EmptySet
<1>3. TypeOK
  <2>1. <<>> \in Seq(Block)
    BY SMT
  <2>2. logd \in [Slots -> Val]
    BY DEF Init
  <2> QED
    BY <2>1, <2>2, Zenon DEF Init, TypeOK, PC
<1>4. CountInv /\ ThreadInv /\ IdleInv
  BY <1>1, <1>2 DEF Init, CountInv, ThreadInv, IdleInv, Booting
<1> QED
  BY <1>3, <1>4 DEF Inv1

\* Actions that move no thread between the phases leave the counts alone.
LEMMA CountFrame ==
  ASSUME CountInv, Active' = Active, Committers' = Committers,
         UNCHANGED <<outstanding, committing>>
  PROVE  CountInv'
BY DEF CountInv

\* They agree after every step.
LEMMA Next1 ==
  ASSUME Inv1, BudgetInv, [Next]_vars
  PROVE  Inv1'
<1> USE DEF Inv1, disk, memory, threads
<1>a. IsFiniteSet(Active) /\ Cardinality(Active) \in Nat
  BY ActiveFinite, FS_CardinalityType
<1>b. Len(lh) <= LOGSIZE
  <2>1. IsFiniteSet(Tokens)
    BY TokensFinite
  <2> QED BY <2>1, FS_CardinalityType, LogConstants, SMT DEF BudgetInv, TypeOK
<1>1. ASSUME NEW p \in Proc, begin_op(p) PROVE Inv1'
  <2> USE <1>1 DEF begin_op
  <2>t. TypeOK'
    BY SMT DEF TypeOK, PC, OpPC, CommitPC
  <2>1. CASE MayBegin
    <3>1. Active' = Active \union {p} /\ p \notin Active /\ Committers' = Committers
      BY <2>1 DEF Active, Committers, OpPC, CommitPC, TypeOK
    <3>2. Cardinality(Active') = Cardinality(Active) + 1
      BY <3>1, <1>a, FS_AddElement, Zenon
    <3>3. CountInv'
      BY <2>1, <3>1, <3>2 DEF CountInv, MayBegin
    <3>4. IdleInv'
      BY <2>1, <3>1 DEF IdleInv, TypeOK
    <3>5. ThreadInv'
      <4>1. /\ asleep' = asleep /\ held' = held /\ sys' = sys /\ p \notin asleep
            /\ pc' = [pc EXCEPT ![p] = "in_op"] /\ pc \in [Proc -> PC] /\ ~Booting
            /\ pc[p] # "log_write"
        BY <2>1 DEF TypeOK, Booting
      <4>2. \A q \in Proc : pc'[q] # "log_write" => held'[q] = {}
        BY <4>1 DEF ThreadInv
      <4>3. \A q \in Proc : q \in asleep' => pc'[q] = "begin_op"
        BY <4>1 DEF ThreadInv
      <4> QED BY <4>1, <4>2, <4>3 DEF ThreadInv, Booting
    <3> QED BY <2>t, <3>3, <3>4, <3>5
  <2>2. CASE ~MayBegin
    <3>1. Active' = Active /\ Committers' = Committers
      BY <2>2 DEF Active, Committers, OpPC, CommitPC, TypeOK
    <3>2. CountInv'
      BY <2>2, <3>1, CountFrame
    <3>3. ThreadInv'
      <4>1. asleep' = asleep \union {p} /\ held' = held /\ pc' = [pc EXCEPT ![p] = "begin_op"]
        BY <2>2
      <4>2. \A q \in Proc : pc'[q] # "log_write" => held'[q] = {}
        BY <4>1 DEF ThreadInv, TypeOK
      <4> QED BY <4>1, <4>2 DEF ThreadInv, Booting, TypeOK
    <3>4. IdleInv'
      BY <2>2, <3>1 DEF IdleInv, TypeOK
    <3> QED BY <2>t, <3>2, <3>3, <3>4
  <2> QED BY <2>1, <2>2
<1>2. ASSUME NEW p \in Proc, end_op(p) PROVE Inv1'
  <2> USE <1>2 DEF end_op
  <2>1. Active' = Active \ {p} /\ p \in Active /\ ~committing /\ Committers = {}
    BY DEF Active, CountInv, OpPC, CommitPC, TypeOK
  <2>2. Cardinality(Active') = outstanding' /\ outstanding' \in Nat /\ outstanding \in Nat
    BY <2>1, <1>a, FS_RemoveElement, FS_CardinalityType, FS_EmptySet, SMT DEF CountInv
  <2>t. TypeOK'
    <3>1. pc' \in [Proc -> PC] /\ wrote' \in [Proc -> SUBSET Block]
      BY <2>1 DEF TypeOK, PC, OpPC, CommitPC
    <3>2. tail' \in Nat /\ asleep' \subseteq Proc /\ sys' = sys
      BY <2>1, SMT DEF TypeOK
    <3>3. committing' \in BOOLEAN
      BY <2>1, Zenon DEF TypeOK
    <3> QED BY <2>2, <3>1, <3>2, <3>3 DEF TypeOK
  <2>3. CASE outstanding = 1
    <3>a. Active' \subseteq Active
      BY <2>1
    <3>b. IsFiniteSet(Active')
      BY <3>a, <1>a, FS_Subset
    <3>c. Cardinality(Active') = 0
      BY <2>2, <2>3, SMT
    <3>1. Active' = {}
      BY <3>b, <3>c, FS_EmptySet
    <3>2. Committers' = {p}
      BY <2>1, <2>3 DEF Committers, CommitPC, TypeOK
    <3> QED BY <2>1, <2>2, <2>3, <2>t, <3>1, <3>2, SMT DEF CountInv, ThreadInv, IdleInv, Booting, TypeOK
  <2>4. CASE outstanding # 1
    <3>1. Active' # {} /\ outstanding' # 0
      BY <2>1, <2>2, <2>4, FS_EmptySet, SMT
    <3>2. Committers' = {}
      BY <2>1, <2>4 DEF Committers, CommitPC, TypeOK
    <3> QED BY <2>1, <2>2, <2>4, <2>t, <3>1, <3>2, SMT DEF CountInv, ThreadInv, IdleInv, Booting, TypeOK
  <2> QED BY <2>3, <2>4
<1>3. ASSUME NEW p \in Proc, NEW b \in Block, NEW v \in Val, modify(p, b, v) PROVE Inv1'
  <2> USE <1>3 DEF modify, panic
  <2>1. Active' = Active /\ Committers' = Committers
    BY DEF Active, Committers, OpPC, CommitPC, TypeOK
  <2>t. TypeOK'
    <3>1. cache' \in [Block -> Val]
      BY DEF TypeOK
    <3>3. \/ pc' = pc /\ held' = held
          \/ pc' = [pc EXCEPT ![p] = "log_write"] /\ held' = [held EXCEPT ![p] = {b}]
      OBVIOUS
    <3>4. pc' \in [Proc -> PC]
      BY <3>3 DEF TypeOK, PC, OpPC
    <3>5. held' \in [Proc -> SUBSET Block]
      BY <3>3, SMT DEF TypeOK
    <3>2. sys' \in {"up", "panic"}
      OBVIOUS
    <3> QED BY <3>1, <3>2, <3>4, <3>5 DEF TypeOK
  <2>2. CountInv'
    BY <2>1, CountFrame
  <2>3. ThreadInv'
    <3>1. \/ pc' = pc /\ held' = held
          \/ pc' = [pc EXCEPT ![p] = "log_write"] /\ held' = [held EXCEPT ![p] = {b}]
      OBVIOUS
    <3>2. asleep' = asleep /\ p \notin asleep /\ ~Booting'
      BY DEF ThreadInv, Booting
    <3>3. CASE pc' = pc /\ held' = held
      BY <3>2, <3>3 DEF ThreadInv
    <3>4. CASE pc' = [pc EXCEPT ![p] = "log_write"] /\ held' = [held EXCEPT ![p] = {b}]
      <4>1. \A q \in Proc : held'[q] = (IF q = p THEN {b} ELSE held[q])
        BY <3>4 DEF TypeOK
      <4>2. \A q \in Proc : pc'[q] = (IF q = p THEN "log_write" ELSE pc[q])
        BY <3>4 DEF TypeOK
      <4> QED BY <3>2, <4>1, <4>2, SMT DEF ThreadInv
    <3> QED BY <3>1, <3>3, <3>4
  <2>4. IdleInv'
    <3>1. p \in Active
      BY DEF Active, OpPC
    <3> QED BY <2>1, <3>1 DEF IdleInv, TypeOK
  <2> QED BY <2>t, <2>2, <2>3, <2>4
<1>4. ASSUME NEW p \in Proc, NEW b \in Block, log_write(p, b) PROVE Inv1'
  <2> USE <1>4 DEF log_write, Absorb
  <2>1. Active' = Active /\ Committers' = Committers
    BY DEF Active, Committers, OpPC, CommitPC, TypeOK
  <2>t. TypeOK'
    BY SMT DEF TypeOK, PC, OpPC, CommitPC, Slots
  <2>2. CountInv'
    BY <2>1, CountFrame
  <2>3. ThreadInv'
    BY SMT DEF ThreadInv, Booting, TypeOK
  <2>4. IdleInv'
    <3>1. p \in Active
      BY DEF Active, OpPC
    <3>2. Committers' = {}
      BY <2>1, <3>1 DEF CountInv
    <3> QED BY <2>1, <3>1, <3>2 DEF IdleInv, Committers, CommitPC
  <2> QED BY <2>t, <2>2, <2>3, <2>4
<1>5. ASSUME NEW p \in Proc, write_log(p) PROVE Inv1'
  <2> USE <1>5 DEF write_log
  <2>1. Active' = Active /\ Committers' = Committers
    BY DEF Active, Committers, OpPC, CommitPC, TypeOK
  <2>t. TypeOK'
    <3>1. lh[tail + 1] \in Block
      BY SMT DEF TypeOK
    <3>2. logd' \in [Slots -> Val]
      BY <3>1, Zenon DEF TypeOK
    <3>3. tail' \in Nat
      BY SMT DEF TypeOK
    <3> QED BY <3>2, <3>3 DEF TypeOK
  <2>2. CountInv'
    BY <2>1, CountFrame
  <2>3. ThreadInv'
    BY DEF ThreadInv, Booting, TypeOK
  <2>4. IdleInv'
    BY <2>1 DEF IdleInv
  <2> QED BY <2>t, <2>2, <2>3, <2>4
<1>6. ASSUME NEW p \in Proc, write_head(p) PROVE Inv1'
  <2> USE <1>6 DEF write_head
  <2>1. Active' = Active /\ Committers' = Committers
    BY DEF Active, Committers, OpPC, CommitPC, TypeOK
  <2>t. TypeOK'
    BY DEF TypeOK, PC, OpPC, CommitPC, Slots
  <2>2. CountInv'
    BY <2>1, CountFrame
  <2>3. ThreadInv'
    BY DEF ThreadInv, Booting, TypeOK
  <2>4. IdleInv'
    BY <2>1, SMT DEF IdleInv
  <2> QED BY <2>t, <2>2, <2>3, <2>4
<1>7. ASSUME NEW p \in Proc, install_trans(p) PROVE Inv1'
  <2> USE <1>7 DEF install_trans, InstallStep
  <2>1. Active' = Active /\ Committers' = Committers
    BY DEF Active, Committers, OpPC, CommitPC, TypeOK
  <2>t. TypeOK'
    <3>1. tail + 1 \in Slots /\ lh[tail + 1] \in Block
      BY <1>b, LogConstants, SMT DEF TypeOK, Slots
    <3>2. tail + 1 \in Nat /\ logd[tail + 1] \in Val
      BY <3>1, SMT DEF TypeOK
    <3> QED BY <3>1, <3>2 DEF TypeOK
  <2>2. CountInv'
    BY <2>1, CountFrame
  <2>3. ThreadInv'
    BY DEF ThreadInv, Booting, TypeOK
  <2>4. IdleInv'
    BY <2>1 DEF IdleInv
  <2> QED BY <2>t, <2>2, <2>3, <2>4
<1>8. ASSUME NEW p \in Proc, erase_head(p) PROVE Inv1'
  <2> USE <1>8 DEF erase_head, EraseHead
  <2>1. Active' = Active /\ Committers' = Committers
    BY DEF Active, Committers, OpPC, CommitPC, TypeOK
  <2>t. TypeOK'
    BY SMT DEF TypeOK, PC, OpPC, CommitPC, Slots
  <2>2. CountInv'
    BY <2>1, CountFrame
  <2>3. ThreadInv'
    BY DEF ThreadInv, Booting, TypeOK
  <2>4. IdleInv'
    BY <2>1 DEF IdleInv
  <2> QED BY <2>t, <2>2, <2>3, <2>4
<1>9. ASSUME NEW p \in Proc, end_commit(p) PROVE Inv1'
  <2> USE <1>9 DEF end_commit
  <2>1. Active' = Active /\ p \in Committers /\ Committers' = Committers \ {p}
    BY DEF Active, Committers, OpPC, CommitPC, TypeOK
  <2>2. Committers' = {} /\ Active = {}
    BY <2>1 DEF CountInv
  <2>t. TypeOK'
    BY Zenon DEF TypeOK, PC, OpPC, CommitPC
  <2>3. CountInv'
    BY <2>1, <2>2 DEF CountInv
  <2>4. ThreadInv'
    BY DEF ThreadInv, Booting, TypeOK
  <2>5. IdleInv'
    BY DEF IdleInv
  <2> QED BY <2>t, <2>3, <2>4, <2>5
<1>10. ASSUME read_head PROVE Inv1'
  <2> USE <1>10 DEF read_head
  <2>1. Active' = Active /\ Committers' = Committers
    BY DEF Active, Committers, OpPC, CommitPC, TypeOK
  <2>t. TypeOK'
    BY DEF TypeOK, PC, OpPC, CommitPC, Slots
  <2>2. CountInv'
    BY <2>1, CountFrame
  <2>3. ThreadInv'
    BY DEF ThreadInv, Booting, TypeOK
  <2>4. IdleInv'
    BY DEF IdleInv, ThreadInv, Booting
  <2> QED BY <2>t, <2>2, <2>3, <2>4
<1>11. ASSUME recover_install PROVE Inv1'
  <2> USE <1>11 DEF recover_install, InstallStep
  <2>1. Active' = Active /\ Committers' = Committers
    BY DEF Active, Committers, OpPC, CommitPC, TypeOK
  <2>t. TypeOK'
    <3>1. tail + 1 \in Slots /\ lh[tail + 1] \in Block
      BY <1>b, LogConstants, SMT DEF TypeOK, Slots
    <3>2. tail + 1 \in Nat /\ logd[tail + 1] \in Val
      BY <3>1, SMT DEF TypeOK
    <3> QED BY <3>1, <3>2 DEF TypeOK
  <2>2. CountInv'
    BY <2>1, CountFrame
  <2>3. ThreadInv'
    BY DEF ThreadInv, Booting, TypeOK
  <2>4. IdleInv'
    BY <2>1 DEF IdleInv
  <2> QED BY <2>t, <2>2, <2>3, <2>4
<1>12. ASSUME recover_done PROVE Inv1'
  <2> USE <1>12 DEF recover_done, EraseHead
  <2>1. Active' = Active /\ Committers' = Committers
    BY DEF Active, Committers, OpPC, CommitPC, TypeOK
  <2>t. TypeOK'
    BY SMT DEF TypeOK, PC, OpPC, CommitPC, Slots
  <2>2. CountInv'
    BY <2>1, CountFrame
  <2>3. ThreadInv'
    BY DEF ThreadInv, Booting, TypeOK
  <2>4. IdleInv'
    BY <2>1 DEF IdleInv
  <2> QED BY <2>t, <2>2, <2>3, <2>4
<1>13. ASSUME crash PROVE Inv1'
  <2> USE <1>13 DEF crash
  <2>1. Active' = {} /\ Committers' = {}
    BY DEF Active, Committers, OpPC, CommitPC
  <2>t. TypeOK'
    <3>1. <<>> \in Seq(Block)
      BY SMT
    <3> QED BY <3>1, Zenon DEF TypeOK, PC
  <2>2. CountInv'
    BY <2>1, FS_EmptySet DEF CountInv
  <2>3. ThreadInv' /\ IdleInv'
    BY DEF ThreadInv, IdleInv, Booting
  <2> QED BY <2>t, <2>2, <2>3
<1>14. CASE UNCHANGED vars
  BY <1>14 DEF vars, TypeOK, CountInv, ThreadInv, IdleInv, Active, Committers, Booting
<1> QED
  BY <1>1, <1>2, <1>3, <1>4, <1>5, <1>6, <1>7, <1>8, <1>9, <1>10, <1>11, <1>12, <1>13, <1>14
     DEF Next, CommitStep

\* What log_write() does to the set of logged blocks.
LEMMA AbsorbEntries ==
  ASSUME NEW s \in Seq(Block), NEW b \in Block
  PROVE  /\ Absorb(s, b) \in Seq(Block)
         /\ Entries(Absorb(s, b)) = Entries(s) \union {b}
         /\ b \in Entries(s) => Absorb(s, b) = s
         /\ b \notin Entries(s) => Len(Absorb(s, b)) = Len(s) + 1
<1>1. CASE b \in Entries(s)
  BY <1>1 DEF Absorb
<1>2. CASE b \notin Entries(s)
  <2>1. Absorb(s, b) = Append(s, b)
    BY <1>2 DEF Absorb
  <2>2. DOMAIN Append(s, b) = 1..(Len(s) + 1) /\ DOMAIN s = 1..Len(s)
    BY SMT
  <2>3. \A i \in 1..Len(s) : Append(s, b)[i] = s[i]
    BY SMT
  <2>4. Append(s, b)[Len(s) + 1] = b
    BY SMT
  <2>5. Entries(Append(s, b)) = Entries(s) \union {b}
    BY <2>2, <2>3, <2>4, SMT DEF Entries
  <2> QED BY <1>2, <2>1, <2>5, SMT
<1> QED BY <1>1, <1>2

\* (out + 1) reservations leave two blocks over when operations write less
\* than they reserve.
LEMMA Reservation ==
  ASSUME NEW k \in Nat, NEW n \in Nat, LogFits, k >= 2,
         n + k * MAXOPBLOCKS <= LOGSIZE
  PROVE  n + k * OpBlocks <= LOGSIZE - 2
<1>1. MAXOPBLOCKS \in Nat /\ OpBlocks \in Nat /\ LOGSIZE \in Nat
  BY LogConstants
<1>2. PICK d \in Nat : MAXOPBLOCKS = OpBlocks + 1 + d
  <2>1. MAXOPBLOCKS - OpBlocks - 1 \in Nat
    BY <1>1, SMT DEF LogFits
  <2> QED BY <1>1, <2>1, SMT
<1>3. k * MAXOPBLOCKS = k * OpBlocks + k + k * d
  BY <1>1, <1>2, SMT
<1>4. k * d >= 0 /\ k * d \in Nat /\ k * OpBlocks \in Nat
  BY <1>1, SMT
<1> QED BY <1>1, <1>3, <1>4, SMT

\* Fewer tokens, no more blocks: the budget still holds.
LEMMA BudgetFrame ==
  ASSUME BudgetInv, TypeOK, Tokens' \subseteq Tokens, lh' = lh, hdr' = hdr, sys' # "panic"
  PROVE  BudgetInv'
<1>1. IsFiniteSet(Tokens) /\ IsFiniteSet(Tokens') /\ Cardinality(Tokens') <= Cardinality(Tokens)
  BY TokensFinite, FS_Subset
<1>2. Cardinality(Tokens) \in Nat /\ Cardinality(Tokens') \in Nat
  BY <1>1, FS_CardinalityType
<1> QED BY <1>1, <1>2, LogConstants, SMT DEF BudgetInv, TypeOK

\* With the blocks that each operation has logged and may still log.
Inv2 == Inv1 /\ WroteInv /\ BudgetInv

\* begin_op(): the tokens of the new operation fit.
LEMMA BeginBudget ==
  ASSUME LogFits, Inv2, NEW p \in Proc, begin_op(p)
  PROVE  WroteInv' /\ BudgetInv'
<1> USE DEF Inv2, Inv1, begin_op, disk
<1>1. lh' = lh /\ hdr' = hdr /\ sys' = sys /\ wrote' = wrote /\ held' = held
  OBVIOUS
<1>2. WroteInv'
  <2>1. \A q \in Proc : pc'[q] \notin OpPC => pc[q] \notin OpPC
    BY DEF OpPC, TypeOK
  <2> QED BY <1>1, <2>1 DEF WroteInv
<1>3. CASE ~MayBegin
  <2>1. Active' = Active
    BY <1>3 DEF Active, OpPC, TypeOK
  <2>2. Tokens' = Tokens
    BY <1>1, <2>1 DEF Tokens
  <2> QED BY <1>1, <1>2, <2>2, BudgetFrame DEF BudgetInv
<1>4. CASE MayBegin
  <2>1. Active' = Active \union {p} /\ p \notin Active
    BY <1>4 DEF Active, OpPC, TypeOK
  <2>2. IsFiniteSet(Active) /\ Cardinality(Active) = outstanding /\ outstanding \in Nat
    BY ActiveFinite DEF CountInv, TypeOK
  <2>3. IsFiniteSet(Active') /\ Cardinality(Active') = outstanding + 1
    BY <2>1, <2>2, FS_AddElement
  <2>4. IsFiniteSet(1..OpBlocks) /\ Cardinality(1..OpBlocks) = OpBlocks
    BY FS_Interval, LogConstants, SMT
  <2>5. /\ IsFiniteSet(Active' \X (1..OpBlocks))
        /\ Cardinality(Active' \X (1..OpBlocks)) = (outstanding + 1) * OpBlocks
    <3>1. /\ IsFiniteSet(Active' \X (1..OpBlocks))
          /\ Cardinality(Active' \X (1..OpBlocks)) = Cardinality(Active') * Cardinality(1..OpBlocks)
      BY <2>3, <2>4, FS_Product, Zenon
    <3> QED BY <2>3, <2>4, <3>1, Zenon
  <2>6. Tokens' \subseteq Active' \X (1..OpBlocks)
    BY DEF Tokens
  <2>7. IsFiniteSet(Tokens') /\ Cardinality(Tokens') <= (outstanding + 1) * OpBlocks
    BY <2>5, <2>6, FS_Subset, SMT
  <2>8. Cardinality(Tokens') \in Nat /\ Len(lh) \in Nat
    BY <2>7, FS_CardinalityType, SMT DEF TypeOK
  <2>9. Len(lh) + (outstanding + 1) * OpBlocks <= LOGSIZE - 2
    <3>1. CASE outstanding = 0
      <4>1. Active = {}
        BY <2>2, <3>1, FS_EmptySet
      <4>2. Len(lh) = 0
        BY <1>4, <4>1, SMT DEF IdleInv, MayBegin
      <4> QED BY <3>1, <4>2, LogConstants, SMT DEF LogFits
    <3>2. CASE outstanding # 0
      BY <1>4, <2>2, <2>8, <3>2, Reservation, SMT DEF MayBegin
    <3> QED BY <3>1, <3>2
  <2>10. (outstanding + 1) * OpBlocks \in Nat /\ LOGSIZE \in Nat
    BY <2>2, LogConstants, SMT
  <2>11. BudgetInv'
    BY <1>1, <2>7, <2>8, <2>9, <2>10, SMT DEF BudgetInv
  <2> QED BY <1>2, <2>11
<1> QED BY <1>3, <1>4

\* log_write(): a new entry uses up one token of the operation that adds it.
LEMMA LogWriteBudget ==
  ASSUME Inv2, NEW p \in Proc, NEW b \in Block, log_write(p, b)
  PROVE  WroteInv' /\ BudgetInv'
<1>t. TypeOK /\ WroteInv /\ BudgetInv
  BY DEF Inv2, Inv1
<1> DEFINE c == Cardinality(wrote[p])
           w == wrote[p] \union {b}
<1>1. /\ hdr' = hdr /\ sys' = sys /\ lh' = Absorb(lh, b)
      /\ wrote' = [wrote EXCEPT ![p] = w]
      /\ held' = [held EXCEPT ![p] = {}]
      /\ pc' = [pc EXCEPT ![p] = "in_op"] /\ pc[p] = "log_write" /\ b \in held[p]
  BY DEF log_write, disk
<1>2. IsFiniteSet(wrote[p]) /\ c \in Nat /\ c <= OpBlocks /\ (b \notin wrote[p] => c < OpBlocks)
  BY <1>t, <1>1, FS_CardinalityType DEF WroteInv
<1>3. /\ IsFiniteSet(w)
      /\ Cardinality(w) = (IF b \in wrote[p] THEN c ELSE c + 1)
      /\ Cardinality(w) <= OpBlocks
      /\ Cardinality(w) \in Nat
  <2>1. /\ IsFiniteSet(w)
        /\ Cardinality(w) = (IF b \in wrote[p] THEN c ELSE c + 1)
    BY <1>2, FS_AddElement, Zenon
  <2> QED BY <1>2, <2>1, LogConstants, SMT
<1>4. Active' = Active /\ p \in Active
  BY <1>t, <1>1 DEF Active, OpPC, TypeOK
<1>5. Entries(lh') = Entries(lh) \union {b} /\ lh' \in Seq(Block)
  BY <1>t, <1>1, AbsorbEntries DEF TypeOK
<1>6. WroteInv'
  <2>1. \A q \in Proc : pc'[q] \notin OpPC => pc[q] \notin OpPC
    BY <1>t, <1>1 DEF OpPC, TypeOK
  <2>2. ASSUME NEW q \in Proc PROVE /\ wrote'[q] \subseteq Entries(lh')
                                    /\ IsFiniteSet(wrote'[q])
                                    /\ Cardinality(wrote'[q]) <= OpBlocks
                                    /\ pc'[q] \notin OpPC => wrote'[q] = {}
    <3>1. CASE q = p
      <4>1. wrote'[q] = w
        BY <1>t, <1>1, <3>1 DEF TypeOK
      <4>2. pc'[q] \in OpPC
        BY <1>t, <1>1, <3>1 DEF TypeOK, OpPC
      <4> QED BY <1>t, <1>3, <1>5, <4>1, <4>2, <3>1, Zenon DEF WroteInv
    <3>2. CASE q # p
      <4>1. wrote'[q] = wrote[q]
        BY <1>t, <1>1, <3>2 DEF TypeOK
      <4> QED BY <1>t, <1>5, <2>1, <4>1 DEF WroteInv
    <3> QED BY <3>1, <3>2
  <2>3. ASSUME NEW q \in Proc, NEW e \in held'[q]
        PROVE  e \in wrote'[q] \/ Cardinality(wrote'[q]) < OpBlocks
    <3>1. q # p /\ wrote'[q] = wrote[q] /\ e \in held[q]
      BY <1>t, <1>1, <2>3 DEF TypeOK
    <3> QED BY <1>t, <3>1 DEF WroteInv
  <2> QED BY <2>2, <2>3, Zenon DEF WroteInv
<1>7. Tokens' \subseteq Tokens
  <2> SUFFICES ASSUME NEW t \in Active \X (1..OpBlocks), Cardinality(wrote'[t[1]]) < t[2]
               PROVE  Cardinality(wrote[t[1]]) < t[2]
    BY <1>4 DEF Tokens
  <2>0. t[1] \in Proc
    BY DEF Active
  <2>1. CASE t[1] = p
    <3>1. wrote'[t[1]] = w
      BY <1>t, <1>1, <2>1 DEF TypeOK
    <3>2. Cardinality(w) < t[2] /\ t[2] \in Nat
      <4>1. Cardinality(w) < t[2]
        BY <3>1, Zenon
      <4>2. t[2] \in Nat
        BY LogConstants, SMT
      <4> QED BY <4>1, <4>2
    <3>3. c < t[2]
      BY <1>2, <1>3, <3>2, SMT
    <3> QED BY <2>1, <3>3
  <2>2. CASE t[1] # p
    BY <1>t, <1>1, <2>0, <2>2 DEF TypeOK
  <2> QED BY <2>1, <2>2
<1>8. CASE b \in Entries(lh)
  BY <1>t, <1>1, <1>6, <1>7, <1>8, BudgetFrame, AbsorbEntries DEF BudgetInv, TypeOK
<1>9. CASE b \notin Entries(lh)
  <2>1. b \notin wrote[p] /\ c + 1 \in 1..OpBlocks /\ Cardinality(w) = c + 1
    BY <1>t, <1>2, <1>3, <1>9, LogConstants, SMT DEF WroteInv
  <2>2. <<p, c + 1>> \in Tokens
    BY <1>2, <1>4, <2>1, SMT DEF Tokens
  <2>3. wrote'[p] = w
    BY <1>t, <1>1 DEF TypeOK
  <2>4. <<p, c + 1>> \notin Tokens'
    <3>1. Cardinality(wrote'[p]) = c + 1
      BY <2>1, <2>3, Zenon
    <3>2. ~(Cardinality(wrote'[p]) < c + 1)
      BY <2>1, <3>1, SMT
    <3> QED BY <3>2, Zenon DEF Tokens
  <2>5. IsFiniteSet(Tokens) /\ Cardinality(Tokens) \in Nat
    BY TokensFinite, FS_CardinalityType
  <2>6. /\ IsFiniteSet(Tokens \ {<<p, c + 1>>})
        /\ Cardinality(Tokens \ {<<p, c + 1>>}) = Cardinality(Tokens) - 1
    BY <2>2, <2>5, FS_RemoveElement
  <2>7. Tokens' \subseteq Tokens \ {<<p, c + 1>>}
    BY <1>7, <2>4
  <2>8. IsFiniteSet(Tokens') /\ Cardinality(Tokens') <= Cardinality(Tokens) - 1
    BY <2>6, <2>7, FS_Subset, SMT
  <2>9. Cardinality(Tokens') \in Nat
    BY <2>8, FS_CardinalityType
  <2>10. Len(lh') = Len(lh) + 1 /\ Len(lh) \in Nat
    BY <1>t, <1>1, <1>9, AbsorbEntries, SMT DEF TypeOK
  <2>11. BudgetInv'
    BY <1>t, <1>1, <2>5, <2>8, <2>9, <2>10, LogConstants, SMT DEF BudgetInv
  <2> QED BY <1>6, <2>11
<1> QED BY <1>8, <1>9

\* Any step that changes no log entry and no operation's record.
LEMMA OpsFrame ==
  ASSUME Inv2, lh' = lh, hdr' \in {hdr, lh}, sys' # "panic",
         UNCHANGED <<wrote, held>>, Active' = Active
  PROVE  WroteInv' /\ BudgetInv'
<1>t. TypeOK /\ WroteInv /\ BudgetInv
  BY DEF Inv2, Inv1
<1>1. Tokens' = Tokens
  BY DEF Tokens
<1>2. \A q \in Proc : pc'[q] \notin OpPC => pc[q] \notin OpPC
  BY DEF Active
<1>3. WroteInv'
  BY <1>t, <1>2 DEF WroteInv
<1>4. Cardinality(Tokens) \in Nat /\ Len(lh) \in Nat
  BY <1>t, TokensFinite, FS_CardinalityType, SMT DEF TypeOK
<1>5. BudgetInv'
  BY <1>t, <1>1, <1>4, LogConstants, SMT DEF BudgetInv
<1> QED BY <1>3, <1>5

\* With no operation open there are no tokens and no records.
LEMMA NoOps ==
  ASSUME Inv2, Active' = {}, lh' \in {hdr, <<>>}, hdr' \in {hdr, <<>>}, sys' # "panic",
         LogFits, \A q \in Proc : wrote'[q] = {} /\ held'[q] = {}
  PROVE  WroteInv' /\ BudgetInv'
<1> USE DEF Inv2, Inv1
<1>1. Tokens' = {}
  BY DEF Tokens
<1>2. IsFiniteSet({}) /\ Cardinality({}) = 0
  BY FS_EmptySet
<1>3. WroteInv'
  <2>1. \A q \in Proc : IsFiniteSet(wrote'[q]) /\ Cardinality(wrote'[q]) = 0
    BY <1>2, Zenon
  <2> QED BY <2>1, LogConstants, SMT DEF WroteInv
<1>4. Len(<<>>) = 0 /\ Len(hdr) \in Nat /\ LOGSIZE - 2 >= 0
  BY LogConstants, SMT DEF TypeOK, LogFits
<1>5. BudgetInv'
  BY <1>1, <1>2, <1>4, LogConstants, SMT DEF BudgetInv
<1> QED BY <1>3, <1>5

\* end_op(): the tokens and the record of the operation go away.
LEMMA EndBudget ==
  ASSUME Inv2, NEW p \in Proc, end_op(p)
  PROVE  WroteInv' /\ BudgetInv'
<1>t. TypeOK /\ CountInv /\ ThreadInv /\ WroteInv /\ BudgetInv
  BY DEF Inv2, Inv1
<1>1. Active' = Active \ {p} /\ p \in Active /\ ~committing
  BY <1>t DEF end_op, Active, CountInv, OpPC, CommitPC, TypeOK
<1>2. /\ lh' = lh /\ hdr' = hdr /\ sys' = sys /\ held' = held
      /\ wrote' = [wrote EXCEPT ![p] = {}] /\ wrote \in [Proc -> SUBSET Block]
      /\ pc[p] = "in_op" /\ \A q \in Proc : q # p => pc'[q] = pc[q]
  BY <1>1, <1>t DEF end_op, disk, TypeOK
<1>3. Tokens' \subseteq Tokens
  <2> SUFFICES ASSUME NEW t \in Active \X (1..OpBlocks), t[1] # p,
                      Cardinality(wrote'[t[1]]) < t[2]
               PROVE  Cardinality(wrote[t[1]]) < t[2]
    BY <1>1 DEF Tokens
  <2>1. t[1] \in Proc
    BY DEF Active
  <2> QED BY <1>2, <2>1
<1>4. BudgetInv'
  BY <1>t, <1>2, <1>3, BudgetFrame DEF BudgetInv
<1>5. IsFiniteSet({}) /\ Cardinality({}) = 0 /\ held[p] = {}
  BY <1>t, <1>2, FS_EmptySet DEF ThreadInv
<1>6. ASSUME NEW q \in Proc
      PROVE  /\ wrote'[q] \subseteq Entries(lh') /\ IsFiniteSet(wrote'[q])
             /\ Cardinality(wrote'[q]) <= OpBlocks
             /\ pc'[q] \notin OpPC => wrote'[q] = {}
             /\ \A b \in held'[q] : b \in wrote'[q] \/ Cardinality(wrote'[q]) < OpBlocks
  <2>1. CASE q = p
    BY <1>2, <1>5, <2>1, LogConstants, SMT
  <2>2. CASE q # p
    <3>1. wrote'[q] = wrote[q] /\ held'[q] = held[q] /\ pc'[q] = pc[q]
      BY <1>2, <2>2
    <3> QED BY <1>2, <1>t, <3>1 DEF WroteInv
  <2> QED BY <2>1, <2>2
<1>7. WroteInv'
  BY <1>6 DEF WroteInv
<1> QED BY <1>4, <1>7

\* modify(): the tests of log_write() pass, and the block about to be logged is
\* one the operation has a token for.
LEMMA ModifyBudget ==
  ASSUME LogFits, Inv2, NEW p \in Proc, NEW b \in Block, NEW v \in Val, modify(p, b, v)
  PROVE  WroteInv' /\ BudgetInv'
<1>t. TypeOK /\ CountInv /\ WroteInv /\ BudgetInv
  BY DEF Inv2, Inv1
<1>s. sys # "panic" /\ Len(lh) <= LOGSIZE - 2 /\ Len(lh) \in Nat
  BY <1>t, TokensFinite, FS_CardinalityType, LogConstants, SMT DEF TypeOK, BudgetInv
<1>1. p \in Active
  BY DEF Active, OpPC, modify
<1>2. outstanding >= 1
  BY <1>1, <1>t, ActiveFinite, FS_EmptySet, FS_CardinalityType, SMT DEF CountInv
<1>3. ~TooBig
  BY <1>s, LogConstants, SMT DEF TooBig, LogFits
<1>4. /\ pc' = [pc EXCEPT ![p] = "log_write"] /\ held' = [held EXCEPT ![p] = {b}]
      /\ UNCHANGED <<lh, hdr, wrote, sys>> /\ pc[p] = "in_op"
      /\ b \in wrote[p] \/ Cardinality(wrote[p]) < OpBlocks
  BY <1>2, <1>3, <1>t, SMT DEF TypeOK, modify, disk
<1>a. pc \in [Proc -> PC] /\ held \in [Proc -> SUBSET Block]
  BY <1>t DEF TypeOK
<1>5. \A q \in Proc : pc'[q] \in OpPC <=> pc[q] \in OpPC
  BY <1>a, <1>4 DEF OpPC
<1>6. Active' = Active
  BY <1>5 DEF Active
<1>7. Tokens' = Tokens
  BY <1>4, <1>6 DEF Tokens
<1>8. BudgetInv'
  BY <1>s, <1>t, <1>4, <1>7, BudgetFrame
<1>9. \A q \in Proc : \A e \in held'[q] : e \in wrote[q] \/ Cardinality(wrote[q]) < OpBlocks
  BY <1>a, <1>4, <1>t DEF WroteInv
<1>10. WroteInv'
  BY <1>4, <1>5, <1>9, <1>t DEF WroteInv
<1> QED BY <1>8, <1>10

\* commit() empties the log or leaves it alone; no operation is open.
LEMMA CommitBudget ==
  ASSUME LogFits, Inv2, NEW p \in Proc, CommitStep(p)
  PROVE  WroteInv' /\ BudgetInv'
<1>t. TypeOK /\ CountInv /\ ThreadInv /\ WroteInv
  BY DEF Inv2, Inv1
<1>1. /\ p \in Committers /\ sys' # "panic" /\ UNCHANGED <<wrote, held>>
      /\ pc' = pc \/ \E x \in CommitPC \union {"user"} : pc' = [pc EXCEPT ![p] = x]
      /\ ~erase_head(p) => lh' = lh /\ hdr' \in {hdr, lh}
  <2> DEFINE Q == /\ p \in Committers /\ sys' # "panic" /\ UNCHANGED <<wrote, held>>
                  /\ pc' = pc \/ \E x \in CommitPC \union {"user"} : pc' = [pc EXCEPT ![p] = x]
                  /\ ~erase_head(p) => lh' = lh /\ hdr' \in {hdr, lh}
  <2>1. ASSUME write_log(p) \/ install_trans(p) PROVE Q
    BY <2>1 DEF write_log, install_trans, InstallStep, threads, Committers, CommitPC
  <2>2. ASSUME write_head(p) PROVE Q
    BY <2>2 DEF write_head, Committers, CommitPC
  <2>3. ASSUME erase_head(p) PROVE Q
    BY <2>3 DEF erase_head, Committers, CommitPC
  <2>4. ASSUME end_commit(p) PROVE Q
    BY <2>4 DEF end_commit, disk, Committers, CommitPC
  <2> QED BY <2>1, <2>2, <2>3, <2>4 DEF CommitStep
<1>2. Active = {}
  BY <1>t, <1>1 DEF CountInv
<1>3. \A q \in Proc : pc[q] \notin OpPC /\ pc'[q] \notin OpPC
  BY <1>t, <1>1, <1>2 DEF Active, TypeOK, CommitPC, OpPC
<1>4. Active' = {}
  BY <1>3 DEF Active
<1>5. CASE erase_head(p)
  <2>1. lh' = <<>> /\ hdr' = <<>>
    BY <1>5 DEF erase_head, EraseHead
  <2>2. \A q \in Proc : wrote[q] = {}
    BY <1>3, <1>t DEF WroteInv
  <2>3. \A q \in Proc : held[q] = {}
    BY <1>3, <1>t DEF ThreadInv, OpPC
  <2> QED BY <1>1, <1>4, <2>1, <2>2, <2>3, NoOps
<1>6. CASE ~erase_head(p)
  BY <1>1, <1>2, <1>4, <1>6, OpsFrame
<1> QED BY <1>5, <1>6

\* Every step keeps it.
LEMMA Next2 ==
  ASSUME LogFits, Inv2, [Next]_vars
  PROVE  Inv2'
<1> USE DEF disk, memory, threads
<1>0. Inv1'
  BY Next1 DEF Inv2
<1> SUFFICES WroteInv' /\ BudgetInv'
  BY <1>0 DEF Inv2
<1>s. sys # "panic" /\ Len(lh) <= LOGSIZE - 2 /\ Len(lh) \in Nat
  BY TokensFinite, FS_CardinalityType, LogConstants, SMT DEF Inv2, Inv1, TypeOK, BudgetInv
<1>1. ASSUME NEW p \in Proc, begin_op(p) PROVE WroteInv' /\ BudgetInv'
  BY <1>1, BeginBudget
<1>2. ASSUME NEW p \in Proc, end_op(p) PROVE WroteInv' /\ BudgetInv'
  BY <1>2, EndBudget
<1>3. ASSUME NEW p \in Proc, NEW b \in Block, NEW v \in Val, modify(p, b, v)
      PROVE  WroteInv' /\ BudgetInv'
  BY <1>3, ModifyBudget
<1>4. ASSUME NEW p \in Proc, NEW b \in Block, log_write(p, b)
      PROVE  WroteInv' /\ BudgetInv'
  BY <1>4, LogWriteBudget
<1>5. ASSUME NEW p \in Proc, CommitStep(p) PROVE WroteInv' /\ BudgetInv'
  BY <1>5, CommitBudget
<1>6. CASE read_head \/ recover_install \/ recover_done
  <2>1. \A q \in Proc : pc[q] = "user"
    BY <1>6 DEF read_head, recover_install, recover_done, Inv2, Inv1, ThreadInv, Booting
  <2>2. \A q \in Proc : wrote[q] = {} /\ held[q] = {}
    BY <2>1 DEF Inv2, Inv1, WroteInv, ThreadInv, OpPC
  <2>3. UNCHANGED threads /\ sys' # "panic" /\ Active' = Active /\ Active = {}
    BY <1>6, <1>s, <2>1 DEF read_head, recover_install, InstallStep, recover_done, EraseHead, Active, OpPC
  <2>4. \/ lh' = lh /\ hdr' = hdr
        \/ lh' \in {hdr, <<>>} /\ hdr' \in {hdr, <<>>}
    BY <1>6 DEF read_head, recover_install, InstallStep, recover_done, EraseHead
  <2>5. CASE lh' = lh /\ hdr' = hdr
    BY <2>3, <2>5, OpsFrame
  <2>6. CASE lh' \in {hdr, <<>>} /\ hdr' \in {hdr, <<>>}
    BY <2>2, <2>3, <2>6, NoOps
  <2> QED BY <2>4, <2>5, <2>6
<1>7. CASE crash
  <2>1. Active' = {}
    BY <1>7 DEF crash, Active, OpPC
  <2> QED BY <1>7, <2>1, NoOps DEF crash
<1>8. CASE UNCHANGED vars
  BY <1>8, <1>s, OpsFrame DEF vars, Active
<1> QED
  BY <1>1, <1>2, <1>3, <1>4, <1>5, <1>6, <1>7, <1>8 DEF Next

\* It holds at the start.
LEMMA Init2 == LogFits /\ Init => Inv2
<1> SUFFICES ASSUME LogFits, Init PROVE Inv2
  OBVIOUS
<1>1. Active = {}
  BY DEF Init, Active, OpPC
<1>2. Tokens = {}
  BY <1>1 DEF Tokens
<1>3. IsFiniteSet({}) /\ Cardinality({}) = 0
  BY FS_EmptySet
<1>4. WroteInv
  <2>1. \A q \in Proc : wrote[q] = {} /\ held[q] = {}
    BY DEF Init
  <2>2. \A q \in Proc : IsFiniteSet(wrote[q]) /\ Cardinality(wrote[q]) = 0
    BY <1>3, <2>1, Zenon
  <2> QED BY <2>1, <2>2, LogConstants, SMT DEF WroteInv
<1>5. Len(<<>>) = 0 /\ LOGSIZE - 2 >= 0
  BY LogConstants, SMT DEF LogFits
<1>6. BudgetInv
  BY <1>2, <1>3, <1>5, SMT DEF Init, BudgetInv
<1> QED BY Init1, <1>4, <1>6 DEF Inv2

\* So it holds always.
LEMMA Invariant2 == ASSUME LogFits PROVE Spec => []Inv2
<1>1. Init => Inv2
  BY Init2
<1>2. Inv2 /\ [Next]_vars => Inv2'
  BY Next2
<1> QED BY <1>1, <1>2, PTL DEF Spec

\* Every variable keeps its type; in particular log.outstanding never goes
\* negative.
THEOREM TypeCorrect == ASSUME LogFits PROVE Spec => []TypeOK
<1>1. Inv2 => TypeOK
  BY DEF Inv2, Inv1
<1> QED BY <1>1, Invariant2, PTL

\* If each operation writes fewer blocks than the MAXOPBLOCKS begin_op()
\* reserves for it and the log area is as large as LOGSIZE, log_write() and
\* end_op() never panic, however the operations interleave.
THEOREM ReservationSuffices == ASSUME LogFits PROVE Spec => []NoPanic
<1>1. Inv2 => NoPanic
  BY DEF Inv2, BudgetInv, NoPanic
<1> QED BY <1>1, Invariant2, PTL

\* Under the same sizes write_log() never leaves the log area, although
\* log_write() tests the size before it takes log.lock.
THEOREM StaysInLogArea == ASSUME LogFits PROVE Spec => []LogInBounds
<1>1. Inv2 => LogInBounds
  BY TokensFinite, FS_CardinalityType, LogConstants, SMT
     DEF Inv2, Inv1, TypeOK, BudgetInv, LogInBounds, LogFits
<1> QED BY <1>1, Invariant2, PTL

\* No thread sleeps in begin_op() with nobody left to wake it.
THEOREM NoLostWakeup == ASSUME LogFits PROVE Spec => []SleeperHasWaker
<1>1. Init => SleeperHasWaker
  BY DEF Init, SleeperHasWaker
<1>2. Inv2 /\ SleeperHasWaker /\ [Next]_vars => SleeperHasWaker'
  <2> SUFFICES ASSUME Inv2, SleeperHasWaker, [Next]_vars PROVE SleeperHasWaker'
    OBVIOUS
  <2>1. ASSUME NEW p \in Proc, begin_op(p) PROVE SleeperHasWaker'
    <3>1. CASE MayBegin
      BY <2>1, <3>1 DEF SleeperHasWaker, begin_op, OpPC, Inv2, Inv1, TypeOK
    <3>2. CASE ~MayBegin
      <4>1. Active # {} \/ Committers # {}
        <5> SUFFICES ASSUME Active = {}, Committers = {} PROVE FALSE
          OBVIOUS
        <5>1. ~committing /\ outstanding = 0
          BY FS_EmptySet DEF Inv2, Inv1, CountInv
        <5>2. Len(lh) = 0
          BY <2>1, <5>1, SMT DEF Inv2, Inv1, IdleInv, begin_op
        <5> QED BY <3>2, <5>1, <5>2, LogConstants, SMT DEF MayBegin
      <4>2. PICK q \in Proc : pc[q] \in OpPC \union CommitPC
        BY <4>1 DEF Active, Committers
      <4>3. pc'[q] = pc[q]
        BY <2>1, <3>2, <4>2 DEF begin_op, OpPC, CommitPC, Inv2, Inv1, TypeOK
      <4> QED BY <4>2, <4>3 DEF SleeperHasWaker
    <3> QED BY <3>1, <3>2
  <2>2. ASSUME NEW p \in Proc, end_op(p) PROVE SleeperHasWaker'
    <3>1. ~committing
      BY <2>2 DEF end_op, Inv2, Inv1, CountInv, Active, OpPC
    <3>2. asleep' # {} => pc'[p] \in CommitPC
      BY <2>2, <3>1 DEF end_op, CommitPC, Inv2, Inv1, TypeOK
    <3> QED BY <3>2 DEF SleeperHasWaker
  <2>3. ASSUME NEW p \in Proc, NEW b \in Block, NEW v \in Val, modify(p, b, v)
        PROVE  SleeperHasWaker'
    <3>1. asleep' = asleep /\ (pc' = pc \/ pc' = [pc EXCEPT ![p] = "log_write"])
      BY <2>3 DEF modify, panic, threads
    <3>2. pc'[p] \in OpPC
      BY <2>3, <3>1 DEF modify, OpPC, Inv2, Inv1, TypeOK
    <3> QED BY <3>2 DEF SleeperHasWaker
  <2>4. ASSUME NEW p \in Proc, NEW b \in Block, log_write(p, b) PROVE SleeperHasWaker'
    BY <2>4 DEF SleeperHasWaker, log_write, OpPC, Inv2, Inv1, TypeOK
  <2>5. ASSUME NEW p \in Proc, CommitStep(p) PROVE SleeperHasWaker'
    <3>1. asleep' # {} => pc'[p] \in CommitPC
      BY <2>5 DEF CommitStep, write_log, write_head, install_trans, InstallStep, erase_head,
         EraseHead, end_commit, threads, CommitPC, Inv2, Inv1, TypeOK
    <3> QED BY <3>1 DEF SleeperHasWaker
  <2>6. CASE read_head \/ recover_install \/ recover_done
    <3>1. Booting /\ asleep' = asleep
      BY <2>6 DEF read_head, recover_install, InstallStep, recover_done, threads, Booting
    <3>2. asleep = {}
      BY <3>1 DEF Inv2, Inv1, ThreadInv
    <3> QED BY <3>1, <3>2 DEF SleeperHasWaker
  <2>7. CASE crash
    BY <2>7 DEF crash, SleeperHasWaker
  <2>8. CASE UNCHANGED vars
    BY <2>8 DEF vars, memory, threads, SleeperHasWaker
  <2> QED BY <2>1, <2>2, <2>3, <2>4, <2>5, <2>6, <2>7, <2>8 DEF Next
<1> QED BY <1>1, <1>2, Invariant2, PTL DEF Spec

(***************************************************************************)
(* The disk.                                                               *)
(***************************************************************************)
\* Recovery reads slot i for the block of header entry i, and nothing for a
\* block the header does not name.
LEMMA RecoveredAt ==
  ASSUME TypeOK, Injective(hdr)
  PROVE  /\ \A i \in DOMAIN hdr : Recovered[hdr[i]] = logd[i]
         /\ \A b \in Block : b \notin Entries(hdr) => Recovered[b] = home[b]
<1>1. \A b \in Block : b \notin Entries(hdr) => Recovered[b] = home[b]
  BY DEF Recovered
<1>2. ASSUME NEW i \in DOMAIN hdr PROVE Recovered[hdr[i]] = logd[i]
  <2> DEFINE b == hdr[i]
             j == CHOOSE k \in DOMAIN hdr : hdr[k] = b
  <2>1. b \in Block /\ b \in Entries(hdr)
    BY SMT DEF TypeOK, Entries
  <2>2. j \in DOMAIN hdr /\ hdr[j] = b
    OBVIOUS
  <2>3. j = i
    BY <2>2 DEF Injective
  <2> QED BY <2>1, <2>3, Zenon DEF Recovered
<1> QED BY <1>1, <1>2

\* log_write() keeps the blocks of the header apart.
LEMMA AbsorbInjective ==
  ASSUME NEW s \in Seq(Block), NEW b \in Block, Injective(s)
  PROVE  Injective(Absorb(s, b))
<1>1. CASE b \in Entries(s)
  BY <1>1 DEF Absorb
<1>2. CASE b \notin Entries(s)
  <2>1. Absorb(s, b) = Append(s, b)
    BY <1>2 DEF Absorb
  <2>2. DOMAIN Append(s, b) = 1..(Len(s) + 1) /\ DOMAIN s = 1..Len(s)
    BY SMT
  <2>3. \A i \in 1..Len(s) : Append(s, b)[i] = s[i] /\ s[i] # b
    BY <1>2, <2>2, SMT DEF Entries
  <2>4. Append(s, b)[Len(s) + 1] = b
    BY SMT
  <2> QED BY <2>1, <2>2, <2>3, <2>4, SMT DEF Injective
<1> QED BY <1>1, <1>2

\* DiskInv, cut into the parts the actions touch one by one.
BootDisk ==
  /\ Booting => cache = home
  /\ sys = "read_head" => lh = <<>>
  /\ sys = "recover" => lh = hdr /\ tail <= Len(lh) /\ \A i \in 1..tail : home[lh[i]] = logd[i]

\* The disk while operations run.
UpDisk ==
  sys = "up" =>
    /\ (\A p \in Proc : pc[p] # "install_trans") => hdr = <<>>
    /\ \A b \in Block :
         b \in Entries(lh) \/ cache[b] = home[b] \/ \E p \in Proc : b \in held[p]

\* The disk in each phase of commit().
CommitDisk ==
  \A p \in Proc :
    /\ pc[p] = "write_log" => tail <= Len(lh) /\ \A i \in 1..tail : logd[i] = cache[lh[i]]
    /\ pc[p] = "install_trans" =>
         /\ hdr = lh
         /\ tail <= Len(lh)
         /\ \A i \in 1..Len(lh) : logd[i] = cache[lh[i]]
         /\ \A i \in 1..tail : home[lh[i]] = logd[i]

\* The three cases make up the disk invariant.
LEMMA DiskParts ==
  DiskInv <=> Injective(lh) /\ Injective(hdr) /\ BootDisk /\ UpDisk /\ CommitDisk
BY DEF DiskInv, BootDisk, UpDisk, CommitDisk

\* The whole inductive invariant.
Inv3 == Inv2 /\ Injective(lh) /\ Injective(hdr) /\ BootDisk /\ UpDisk /\ CommitDisk

\* One turn of install_trans() when slots hold what is to be installed.
LEMMA InstallDisk ==
  ASSUME Inv3, InstallStep, lh = hdr
  PROVE  /\ Recovered' = Recovered
         /\ \A i \in 1..tail' : tail <= Len(lh) /\ (\A k \in 1..tail : home[lh[k]] = logd[k])
                                  => home'[lh[i]] = logd[i]
<1> USE DEF Inv3, Inv2, Inv1, InstallStep
<1> DEFINE b == lh[tail + 1]
<1>1. tail \in Nat /\ tail + 1 \in 1..Len(lh) /\ b \in Block /\ DOMAIN lh = 1..Len(lh)
  BY SMT DEF TypeOK
<1>2. home' = [home EXCEPT ![b] = logd[tail + 1]] /\ hdr' = hdr /\ logd' = logd
  OBVIOUS
<1>3. b \in Entries(hdr)
  BY <1>1 DEF Entries
<1>4. Recovered' = Recovered
  BY <1>2, <1>3, SMT DEF Recovered, TypeOK, Entries
<1>5. ASSUME NEW i \in 1..tail', tail <= Len(lh), \A k \in 1..tail : home[lh[k]] = logd[k]
      PROVE  home'[lh[i]] = logd[i]
  <2>1. CASE i = tail + 1
    BY <1>1, <1>2, <2>1 DEF TypeOK
  <2>2. CASE i # tail + 1
    <3>1. i \in 1..tail
      BY <1>1, <2>2, SMT
    <3>2. i \in DOMAIN lh /\ tail + 1 \in DOMAIN lh
      BY <1>1, <3>1, SMT
    <3>3. lh[i] # b
      BY <2>2, <3>2, Zenon DEF Injective
    <3>4. lh[i] \in Block
      BY <3>2 DEF TypeOK
    <3> QED BY <1>2, <1>5, <3>1, <3>3, <3>4 DEF TypeOK
  <2> QED BY <2>1, <2>2
<1> QED BY <1>4, <1>5

\* What it says of the disk.
Disk3 == Injective(lh) /\ Injective(hdr) /\ BootDisk /\ UpDisk /\ CommitDisk

\* Before and between commits: steps that touch neither the disk nor the log's
\* loop, and start or end no commit phase except an empty write_log.
LEMMA OpDisk ==
  ASSUME LogFits, Inv3,
         NEW p \in Proc,
         \/ begin_op(p) \/ end_op(p)
         \/ \E b \in Block, v \in Val : modify(p, b, v)
         \/ \E b \in Block : log_write(p, b)
  PROVE  Disk3'
<1> USE DEF disk, memory, threads, Inv3, Inv2, Inv1, Disk3
<1>1. CASE begin_op(p)
  <2>1. UNCHANGED <<home, logd, hdr, sys, cache, lh, tail, held>> /\ sys = "up"
    BY <1>1 DEF begin_op
  <2>2. \A q \in Proc : pc'[q] = pc[q] \/ pc'[q] \in {"in_op", "begin_op"}
    BY <1>1 DEF begin_op, TypeOK
  <2>3. \A q \in Proc : pc[q] = "install_trans" => pc'[q] = "install_trans"
    BY <1>1 DEF begin_op, TypeOK
  <2> QED BY <2>1, <2>2, <2>3, SMT DEF BootDisk, UpDisk, CommitDisk, Booting
<1>2. CASE end_op(p)
  <2>1. p \in Active /\ ~committing /\ Committers = {}
    BY <1>2 DEF end_op, Active, OpPC, CountInv
  <2>2. UNCHANGED <<home, logd, hdr, sys, cache, lh, held>> /\ sys = "up"
    BY <1>2, <2>1 DEF end_op
  <2>3. \A q \in Proc : pc[q] \notin CommitPC
    BY <2>1 DEF Committers
  <2>4. \A q \in Proc : pc'[q] # "install_trans" /\ (pc'[q] = "write_log" => tail' = 0)
    BY <1>2, <2>1, <2>3 DEF end_op, TypeOK, CommitPC
  <2>5. CommitDisk'
    BY <2>2, <2>4, SMT DEF CommitDisk, TypeOK
  <2>6. UpDisk'
    BY <2>2, <2>3, <2>4 DEF UpDisk, CommitPC
  <2> QED BY <2>2, <2>5, <2>6 DEF BootDisk, Booting
<1>3. ASSUME NEW b \in Block, NEW v \in Val, modify(p, b, v) PROVE Disk3'
  <2>1. p \in Active /\ Committers = {}
    BY <1>3 DEF modify, Active, OpPC, CountInv
  <2>2. \A q \in Proc : pc[q] \notin CommitPC
    BY <2>1 DEF Committers
  <2>3. outstanding >= 1 /\ ~TooBig
    <3>1. outstanding >= 1
      BY <2>1, ActiveFinite, FS_EmptySet, FS_CardinalityType, SMT DEF CountInv
    <3>2. Len(lh) <= LOGSIZE - 2 /\ Len(lh) \in Nat
      BY TokensFinite, FS_CardinalityType, LogConstants, SMT DEF TypeOK, BudgetInv
    <3> QED BY <3>1, <3>2, LogConstants, SMT DEF TooBig, LogFits
  <2>4. /\ UNCHANGED <<home, logd, hdr, sys, lh, tail>> /\ sys = "up"
        /\ cache' = [cache EXCEPT ![b] = v]
        /\ held' = [held EXCEPT ![p] = {b}]
        /\ pc' = [pc EXCEPT ![p] = "log_write"]
        /\ pc[p] = "in_op"
    BY <1>3, <2>3, SMT DEF modify, TypeOK
  <2>5. \A q \in Proc : pc'[q] \notin CommitPC
    BY <2>2, <2>4 DEF TypeOK, CommitPC
  <2>6. CommitDisk' /\ BootDisk'
    BY <2>4, <2>5 DEF CommitDisk, CommitPC, BootDisk, Booting
  <2>7. held[p] = {}
    BY <2>4 DEF ThreadInv
  <2>8. ASSUME NEW e \in Block
        PROVE  e \in Entries(lh') \/ cache'[e] = home'[e] \/ \E q \in Proc : e \in held'[q]
    <3>1. CASE e = b
      BY <2>4, <3>1 DEF TypeOK
    <3>2. CASE e # b
      <4>1. cache'[e] = cache[e] /\ \A q \in Proc : e \in held[q] => e \in held'[q]
        BY <2>4, <2>7, <3>2 DEF TypeOK
      <4> QED BY <2>4, <4>1 DEF UpDisk
    <3> QED BY <3>1, <3>2
  <2>9. UpDisk'
    BY <2>2, <2>4, <2>8 DEF UpDisk, CommitPC
  <2> QED BY <2>4, <2>6, <2>9
<1>4. ASSUME NEW b \in Block, log_write(p, b) PROVE Disk3'
  <2>1. p \in Active /\ Committers = {}
    BY <1>4 DEF log_write, Active, OpPC, CountInv
  <2>2. \A q \in Proc : pc[q] \notin CommitPC
    BY <2>1 DEF Committers
  <2>4. /\ UNCHANGED <<home, logd, hdr, sys, cache, tail>> /\ sys = "up"
        /\ lh' = Absorb(lh, b)
        /\ held' = [held EXCEPT ![p] = {}]
        /\ pc' = [pc EXCEPT ![p] = "in_op"]
        /\ pc[p] = "log_write" /\ b \in held[p]
    BY <1>4 DEF log_write
  <2>5. \A q \in Proc : pc'[q] \notin CommitPC
    BY <2>2, <2>4 DEF TypeOK, CommitPC
  <2>6. CommitDisk' /\ BootDisk'
    BY <2>4, <2>5 DEF CommitDisk, CommitPC, BootDisk, Booting
  <2>7. Entries(lh') = Entries(lh) \union {b} /\ Injective(lh')
    BY <2>4, AbsorbEntries, AbsorbInjective, Zenon DEF TypeOK
  <2>8. \A e \in held[p] : e = b
    BY <2>4 DEF ThreadInv
  <2>9. UpDisk'
    BY <2>2, <2>4, <2>7, <2>8 DEF UpDisk, CommitPC, TypeOK
  <2> QED BY <2>4, <2>6, <2>7, <2>9
<1> QED BY <1>1, <1>2, <1>3, <1>4

\* The steps of commit().
LEMMA CommitDiskStep ==
  ASSUME LogFits, Inv3, NEW p \in Proc, CommitStep(p)
  PROVE  Disk3'
<1> USE DEF disk, memory, threads, Inv3, Inv2, Inv1, Disk3
<1>0. p \in Committers /\ (\A q \in Proc : q # p => pc[q] \notin CommitPC) /\ Active = {}
  <2>1. p \in Committers
    BY DEF CommitStep, write_log, write_head, install_trans, erase_head, end_commit, Committers, CommitPC
  <2> QED BY <2>1 DEF CountInv, Committers
<1>a. /\ tail \in Nat /\ Len(lh) \in Nat /\ DOMAIN lh = 1..Len(lh) /\ lh \in Seq(Block)
      /\ Len(lh) <= LOGSIZE /\ LOGSIZE \in Nat
  BY TokensFinite, FS_CardinalityType, LogConstants, SMT DEF TypeOK, BudgetInv
<1>b. \A q \in Proc : held[q] = {}
  BY <1>0 DEF Active, OpPC, ThreadInv
<1>1. CASE write_log(p)
  <2>1. /\ tail < Len(lh) /\ tail + 1 \in Slots
        /\ logd' = [logd EXCEPT ![tail + 1] = cache[lh[tail + 1]]]
        /\ tail' = tail + 1 /\ pc[p] = "write_log" /\ sys = "up"
        /\ UNCHANGED <<home, hdr, sys, cache, lh, pc, held>>
    BY <1>1, <1>a, SMT DEF write_log, Slots
  <2>2. \A i \in 1..tail' : logd'[i] = cache[lh[i]]
    BY <1>a, <2>1, SMT DEF CommitDisk, TypeOK, Slots
  <2>3. CommitDisk'
    BY <1>0, <1>a, <2>1, <2>2, SMT DEF CommitDisk, CommitPC
  <2> QED BY <2>1, <2>3 DEF UpDisk, BootDisk, Booting
<1>2. CASE write_head(p)
  <2>1. /\ tail = Len(lh) /\ hdr' = lh /\ tail' = 0 /\ pc' = [pc EXCEPT ![p] = "install_trans"]
        /\ pc[p] = "write_log" /\ sys = "up"
        /\ UNCHANGED <<home, logd, sys, cache, lh, held>>
    BY <1>2 DEF write_head
  <2>2. CommitDisk'
    BY <1>0, <1>a, <2>1, SMT DEF CommitDisk, CommitPC, TypeOK
  <2>3. UpDisk'
    BY <2>1 DEF UpDisk, TypeOK
  <2> QED BY <2>1, <2>2, <2>3 DEF BootDisk, Booting
<1>3. CASE install_trans(p)
  <2>1. /\ tail + 1 \in 1..Len(lh) /\ tail' = tail + 1 /\ pc[p] = "install_trans" /\ sys = "up"
        /\ UNCHANGED <<logd, hdr, sys, lh, pc, held>>
        /\ home' = [home EXCEPT ![lh[tail + 1]] = logd[tail + 1]]
        /\ cache' = [cache EXCEPT ![lh[tail + 1]] = logd[tail + 1]]
    BY <1>3, <1>a, SMT DEF install_trans, InstallStep
  <2>2. hdr = lh /\ cache' = cache
    BY <2>1, <1>a DEF CommitDisk, TypeOK
  <2>3. \A i \in 1..tail' : home'[lh[i]] = logd[i]
    BY <1>3, <2>1, <2>2, InstallDisk DEF install_trans, CommitDisk
  <2>4. CommitDisk'
    BY <1>0, <1>a, <2>1, <2>2, <2>3, SMT DEF CommitDisk, CommitPC
  <2>5. UpDisk'
    BY <1>a, <2>1, <2>2, SMT DEF UpDisk, Entries, TypeOK
  <2> QED BY <2>1, <2>4, <2>5 DEF BootDisk, Booting
<1>4. CASE erase_head(p)
  <2>1. /\ tail = Len(lh) /\ lh' = <<>> /\ hdr' = <<>> /\ pc' = [pc EXCEPT ![p] = "end_commit"]
        /\ pc[p] = "install_trans" /\ sys = "up"
        /\ UNCHANGED <<home, logd, cache, sys, held>>
    BY <1>4 DEF erase_head, EraseHead
  <2>2. CommitDisk'
    BY <1>0, <2>1 DEF CommitDisk, CommitPC, TypeOK
  <2>3. ASSUME NEW b \in Block PROVE cache[b] = home[b]
    <3>1. CASE b \in Entries(lh)
      BY <1>a, <2>1, <3>1, SMT DEF Entries, CommitDisk
    <3>2. CASE b \notin Entries(lh)
      BY <1>b, <2>1, <3>2 DEF UpDisk
    <3> QED BY <3>1, <3>2
  <2>4. Injective(<<>>)
    BY SMT DEF Injective
  <2>5. UpDisk'
    BY <2>1, <2>3 DEF UpDisk
  <2> QED BY <2>1, <2>2, <2>4, <2>5 DEF BootDisk, Booting
<1>5. CASE end_commit(p)
  <2>1. /\ pc' = [pc EXCEPT ![p] = "user"] /\ pc[p] = "end_commit" /\ sys = "up"
        /\ UNCHANGED <<home, logd, hdr, cache, lh, sys, tail, held>>
    BY <1>5 DEF end_commit
  <2>2. \A q \in Proc : pc[q] # "install_trans" /\ pc'[q] \notin {"install_trans", "write_log"}
    BY <1>0, <2>1 DEF TypeOK, CommitPC
  <2> QED BY <2>1, <2>2 DEF BootDisk, Booting, UpDisk, CommitDisk
<1> QED BY <1>1, <1>2, <1>3, <1>4, <1>5 DEF CommitStep

\* Boot and crash.
LEMMA BootDiskStep ==
  ASSUME LogFits, Inv3, read_head \/ recover_install \/ recover_done \/ crash
  PROVE  Disk3'
<1> USE DEF disk, memory, threads, Inv3, Inv2, Inv1, Disk3
<1>0. Injective(<<>>)
  BY SMT DEF Injective
<1>a. tail \in Nat /\ Len(lh) \in Nat /\ DOMAIN lh = 1..Len(lh)
  BY SMT DEF TypeOK
<1>b. read_head \/ recover_install \/ recover_done => \A p \in Proc : pc'[p] = "user"
  BY DEF read_head, recover_install, InstallStep, recover_done, ThreadInv, Booting
<1>1. CASE read_head
  <2>1. Len(hdr) \in Nat
    BY SMT DEF TypeOK
  <2> QED BY <1>1, <1>b, <2>1, SMT DEF read_head, BootDisk, Booting, UpDisk, CommitDisk
<1>2. CASE recover_install
  <2>1. /\ tail + 1 \in 1..Len(lh) /\ tail' = tail + 1 /\ sys = "recover"
        /\ UNCHANGED <<logd, hdr, sys, lh, pc, held>>
        /\ home' = [home EXCEPT ![lh[tail + 1]] = logd[tail + 1]]
        /\ cache' = [cache EXCEPT ![lh[tail + 1]] = logd[tail + 1]]
    BY <1>2, <1>a, SMT DEF recover_install, InstallStep
  <2>2. cache' = home' /\ lh = hdr
    BY <2>1 DEF BootDisk, Booting
  <2>3. \A i \in 1..tail' : home'[lh[i]] = logd[i]
    BY <1>2, <2>1, <2>2, InstallDisk DEF recover_install, BootDisk
  <2>4. BootDisk'
    BY <1>a, <2>1, <2>2, <2>3, SMT DEF BootDisk, Booting
  <2> QED BY <1>2, <1>b, <2>1, <2>4 DEF recover_install, UpDisk, CommitDisk
<1>3. CASE recover_done
  <2>1. lh' = <<>> /\ hdr' = <<>> /\ cache = home /\ UNCHANGED <<cache, home>> /\ sys' = "up"
    BY <1>3 DEF recover_done, EraseHead, BootDisk, Booting
  <2>2. UpDisk'
    BY <2>1 DEF UpDisk
  <2>3. CommitDisk'
    BY <1>3, <1>b DEF CommitDisk, recover_done
  <2> QED BY <1>0, <2>1, <2>2, <2>3 DEF BootDisk, Booting
<1>4. CASE crash
  BY <1>0, <1>4 DEF crash, BootDisk, Booting, UpDisk, CommitDisk
<1> QED BY <1>1, <1>2, <1>3, <1>4

\* It holds always.
LEMMA Invariant3 == ASSUME LogFits PROVE Spec => []Inv3
<1>1. Init => Inv3
  <2> SUFFICES ASSUME Init PROVE Inv3
    OBVIOUS
  <2>1. Injective(<<>>)
    BY SMT DEF Injective
  <2>2. BootDisk /\ UpDisk /\ CommitDisk
    BY DEF Init, BootDisk, UpDisk, CommitDisk, Booting
  <2> QED BY <2>1, <2>2, Init2 DEF Inv3, Init
<1>2. Inv3 /\ [Next]_vars => Inv3'
  <2> SUFFICES ASSUME Inv3, [Next]_vars PROVE Inv3'
    OBVIOUS
  <2>1. Inv2'
    BY Next2 DEF Inv3
  <2>2. Disk3'
    <3>1. CASE UNCHANGED vars
      BY <3>1 DEF vars, disk, memory, threads, Inv3, Disk3, BootDisk, UpDisk, CommitDisk, Booting
    <3> QED BY <3>1, OpDisk, CommitDiskStep, BootDiskStep DEF Next
  <2> QED BY <2>1, <2>2 DEF Inv3, Disk3
<1> QED BY <1>1, <1>2, PTL DEF Spec

\* The inductive invariant: outstanding and committing count the threads they
\* stand for, the reservation covers what open operations may still log, and
\* the disk in every phase of commit() and of recovery is as DiskInv says.
THEOREM LogInvariant == ASSUME LogFits PROVE Spec => []LogInv
<1>1. Inv3 => LogInv
  BY DiskParts DEF Inv3, Inv2, Inv1, LogInv
<1> QED BY <1>1, Invariant3, PTL

\* When no operation is open and none is committing, what operations have
\* written is what a crash would leave.
THEOREM DurableWhenQuiet == ASSUME LogFits PROVE Spec => []QuiescentIsDurable
<1>1. Inv3 => QuiescentIsDurable
  <2> SUFFICES ASSUME Inv3, sys = "up", outstanding = 0, ~committing
               PROVE  Recovered = cache /\ hdr = <<>>
    BY DEF QuiescentIsDurable
  <2>1. Active = {} /\ Committers = {}
    BY ActiveFinite, FS_EmptySet, Zenon DEF Inv3, Inv2, Inv1, CountInv
  <2>2. hdr = <<>> /\ lh = <<>>
    BY <2>1 DEF Inv3, Inv2, Inv1, UpDisk, IdleInv, Committers, CommitPC
  <2>3. \A p \in Proc : held[p] = {}
    BY <2>1 DEF Inv3, Inv2, Inv1, ThreadInv, Active, OpPC
  <2>4. \A b \in Block : cache[b] = home[b]
    BY <2>2, <2>3, SMT DEF Inv3, UpDisk, Entries
  <2>5. \A b \in Block : Recovered[b] = cache[b]
    BY <2>2, <2>4, SMT DEF Recovered, Entries
  <2>6. DOMAIN Recovered = Block /\ DOMAIN cache = Block
    BY DEF Recovered, Inv3, Inv2, Inv1, TypeOK
  <2>7. Recovered = cache
    BY <2>5, <2>6 DEF Inv3, Inv2, Inv1, TypeOK, Recovered
  <2> QED BY <2>2, <2>7
<1> QED BY <1>1, Invariant3, PTL

\* B_DIRTY pins exactly what may not be recycled.
LEMMA EvictionStep ==
  ASSUME Inv3, EvictionSafe, [Next]_vars
  PROVE  EvictionSafe'
<1>t. TypeOK /\ ThreadInv /\ BootDisk
  BY DEF Inv3, Inv2, Inv1
<1> SUFFICES ASSUME sys' = "up", NEW b \in Block
             PROVE  cache'[b] = home'[b] \/ b \in dirty' \/ \E p \in Proc : b \in held'[p]
  BY DEF EvictionSafe
<1>1. ASSUME NEW p \in Proc, begin_op(p) \/ end_op(p)
      PROVE  cache'[b] = home'[b] \/ b \in dirty' \/ \E q \in Proc : b \in held'[q]
  BY <1>1 DEF begin_op, end_op, disk, EvictionSafe
<1>2. ASSUME NEW p \in Proc, NEW c \in Block, NEW v \in Val, modify(p, c, v)
      PROVE  cache'[b] = home'[b] \/ b \in dirty' \/ \E q \in Proc : b \in held'[q]
  <2>1. /\ held' = [held EXCEPT ![p] = {c}] /\ held[p] = {} /\ sys = "up"
        /\ cache' = [cache EXCEPT ![c] = v] /\ UNCHANGED <<home, dirty>>
    BY <1>2, <1>t DEF modify, panic, ThreadInv, disk
  <2>2. CASE b = c
    BY <1>t, <2>1, <2>2 DEF TypeOK
  <2>3. CASE b # c
    BY <1>t, <2>1, <2>3 DEF TypeOK, EvictionSafe
  <2> QED BY <2>2, <2>3
<1>3. ASSUME NEW p \in Proc, NEW c \in Block, log_write(p, c)
      PROVE  cache'[b] = home'[b] \/ b \in dirty' \/ \E q \in Proc : b \in held'[q]
  <2>1. /\ held' = [held EXCEPT ![p] = {}] /\ c \in held[p] /\ sys = "up"
        /\ dirty' = dirty \union {c} /\ UNCHANGED <<home, cache>>
    BY <1>3 DEF log_write, disk
  <2>2. \A d \in held[p] : d = c
    BY <1>t, <2>1 DEF ThreadInv
  <2> QED BY <1>t, <2>1, <2>2 DEF TypeOK, EvictionSafe
<1>4. ASSUME NEW p \in Proc, CommitStep(p)
      PROVE  cache'[b] = home'[b] \/ b \in dirty' \/ \E q \in Proc : b \in held'[q]
  <2>1. CASE install_trans(p)
    <3>1. /\ home' = [home EXCEPT ![lh[tail + 1]] = logd[tail + 1]]
          /\ cache' = [cache EXCEPT ![lh[tail + 1]] = logd[tail + 1]]
          /\ dirty' = dirty \ {lh[tail + 1]} /\ held' = held /\ sys = "up"
      BY <2>1 DEF install_trans, InstallStep, threads
    <3> QED BY <1>t, <3>1 DEF TypeOK, EvictionSafe
  <2>2. CASE write_log(p) \/ write_head(p) \/ erase_head(p) \/ end_commit(p)
    BY <2>2 DEF write_log, write_head, erase_head, EraseHead, end_commit,
       disk, threads, EvictionSafe
  <2> QED BY <1>4, <2>1, <2>2 DEF CommitStep
<1>5. CASE read_head \/ recover_install \/ crash
  BY <1>5 DEF read_head, recover_install, crash
<1>6. CASE recover_done
  BY <1>6, <1>t DEF recover_done, EraseHead, BootDisk, Booting
<1>7. CASE UNCHANGED vars
  BY <1>7 DEF vars, disk, memory, threads, EvictionSafe
<1> QED BY <1>1, <1>2, <1>3, <1>4, <1>5, <1>6, <1>7 DEF Next

\* bget() may recycle any buffer that is not locked and not B_DIRTY: log_write()
\* sets the flag before the buffer is released and only install_trans() clears
\* it, so no update that is not on the disk is ever dropped from the cache.
THEOREM EvictionIsSafe == ASSUME LogFits PROVE Spec => []EvictionSafe
<1>1. Init => EvictionSafe
  BY DEF Init, EvictionSafe
<1>2. Inv3 /\ EvictionSafe /\ [Next]_vars => EvictionSafe'
  BY EvictionStep
<1> QED BY <1>1, <1>2, Invariant3, PTL DEF Spec

---------------------------------------------------------------------------
(***************************************************************************)
(* Crash atomicity: Log implements AtomicDisk.                             *)
(***************************************************************************)
\* Steps that leave the disk alone leave what recovery would find alone.
LEMMA SameDisk == ASSUME UNCHANGED disk PROVE Recovered' = Recovered
BY SMT DEF disk, Recovered, Entries

\* What recovery finds in each block, as a state predicate.
RecoveredIs ==
  /\ Recovered \in [Block -> Val]
  /\ \A i \in DOMAIN hdr : Recovered[hdr[i]] = logd[i]
  /\ \A b \in Block : b \notin Entries(hdr) => Recovered[b] = home[b]

\* What recovery would find, in this state ...
LEMMA RecoveredNow == Inv3 => RecoveredIs
<1> SUFFICES ASSUME Inv3 PROVE RecoveredIs
  OBVIOUS
<1> USE DEF Inv3, Inv2, Inv1
<1>0. ASSUME NEW i \in DOMAIN hdr PROVE i \in Slots
  BY LogConstants, SMT DEF TypeOK, BudgetInv, Slots
<1>1. ASSUME NEW b \in Block PROVE Recovered[b] \in Val
  <2>1. CASE b \in Entries(hdr)
    <3>1. PICK i \in DOMAIN hdr : hdr[i] = b
      BY <2>1 DEF Entries
    <3> QED BY <1>0, <3>1, RecoveredAt DEF TypeOK
  <2>2. CASE b \notin Entries(hdr)
    BY <2>2, RecoveredAt DEF TypeOK
  <2> QED BY <2>1, <2>2
<1>2. Recovered \in [Block -> Val]
  BY <1>1 DEF Recovered
<1> QED BY <1>2, RecoveredAt DEF RecoveredIs

\* ... and in the next.
LEMMA RecoveredNext == Inv3' => RecoveredIs'
BY RecoveredNow, PTL

\* The first state is one of AtomicDisk.
LEMMA InitRefines == ASSUME LogFits, Init, Inv3 PROVE AD!Init
<1>1. Active = {}
  BY DEF Init, Active, OpPC
<1>2. Visible = Recovered
  BY DEF Init, Visible
<1> QED BY <1>1, <1>2, RecoveredNow DEF AD!Init, RecoveredIs

\* The facts about a state that the refinement of its steps needs.
Facts ==
  /\ home \in [Block -> Val] /\ cache \in [Block -> Val] /\ pc \in [Proc -> PC]
  /\ tail \in Nat /\ Len(lh) \in Nat /\ DOMAIN lh = 1..Len(lh)
  /\ \A i \in 1..Len(lh) : lh[i] \in Block
  /\ sys # "panic"
  /\ RecoveredIs

\* The facts that the steps use hold in this state ...
LEMMA FactsNow == Inv3 => Facts
<1> SUFFICES ASSUME Inv3 PROVE Facts
  OBVIOUS
<1>1. TypeOK /\ sys # "panic"
  BY DEF Inv3, Inv2, Inv1, BudgetInv
<1>2. RecoveredIs
  BY RecoveredNow
<1> QED BY <1>1, <1>2, SMT DEF Facts, TypeOK

\* ... and in the next.
LEMMA FactsNext == Inv3' => Facts'
BY FactsNow, PTL

\* begin_op(): an operation opens, or nothing the disk shows changes.
LEMMA RefineBegin ==
  ASSUME Facts, Facts', NEW p \in Proc, begin_op(p)
  PROVE  [AD!Next]_(AD!vars)
<1>1. Recovered' = Recovered
  BY SameDisk DEF begin_op
<1>2. Visible' = Visible
  BY <1>1 DEF begin_op, Visible
<1>3. CASE MayBegin
  <2>1. Active' = Active \union {p} /\ p \notin Active
    BY <1>3 DEF begin_op, Active, OpPC, Facts
  <2> QED BY <1>1, <1>2, <2>1 DEF AD!Next, AD!Begin
<1>4. CASE ~MayBegin
  <2>1. Active' = Active
    BY <1>4 DEF begin_op, Active, OpPC, Facts
  <2> QED BY <1>1, <1>2, <2>1 DEF AD!vars
<1> QED BY <1>3, <1>4

\* end_op(): the operation is no longer open, and its writes stay visible.
LEMMA RefineEnd ==
  ASSUME Facts, Facts', NEW p \in Proc, end_op(p)
  PROVE  [AD!Next]_(AD!vars)
<1>1. Recovered' = Recovered
  BY SameDisk DEF end_op
<1>2. Visible' = Visible
  BY <1>1 DEF end_op, Visible, Facts
<1>3. Active' = Active \ {p} /\ p \in Active
  BY DEF end_op, Active, OpPC, Facts
<1> QED BY <1>1, <1>2, <1>3 DEF AD!Next, AD!End

\* A write to a buffer.
LEMMA RefineModify ==
  ASSUME Facts, Facts', NEW p \in Proc, NEW b \in Block, NEW v \in Val, modify(p, b, v)
  PROVE  [AD!Next]_(AD!vars)
<1>0. /\ UNCHANGED <<disk, sys>> /\ sys = "up" /\ pc[p] = "in_op"
      /\ pc' = [pc EXCEPT ![p] = "log_write"] /\ cache' = [cache EXCEPT ![b] = v]
  BY DEF modify, panic, Facts
<1>1. Recovered' = Recovered
  BY <1>0, SameDisk
<1>2. Visible' = [Visible EXCEPT ![b] = v]
  BY <1>0 DEF Visible
<1>3. Active' = Active /\ p \in Active
  BY <1>0 DEF Active, OpPC, Facts
<1> QED BY <1>1, <1>2, <1>3, Zenon DEF AD!Next, AD!Write

\* log_write().
LEMMA RefineLogWrite ==
  ASSUME Facts, Facts', NEW p \in Proc, NEW b \in Block, log_write(p, b)
  PROVE  [AD!Next]_(AD!vars)
<1>1. Recovered' = Recovered
  BY SameDisk DEF log_write
<1>2. Visible' = Visible
  BY <1>1 DEF log_write, Visible
<1>3. Active' = Active
  BY DEF log_write, Active, OpPC, Facts
<1> QED BY <1>1, <1>2, <1>3 DEF AD!vars

\* The first write_head() of commit(): what operations see becomes stable.
LEMMA HeadCommits ==
  ASSUME Facts, Facts', UpDisk, CommitDisk, sys = "up",
         \A q \in Proc : held[q] = {},
         NEW p \in Proc, write_head(p)
  PROVE  Recovered' = cache
<1>1. /\ hdr' = lh /\ UNCHANGED <<cache, home, logd, lh>> /\ tail = Len(lh)
      /\ pc[p] = "write_log"
  BY DEF write_head
<1>r. /\ \A i \in DOMAIN lh : Recovered'[lh[i]] = logd[i]
      /\ \A b \in Block : b \notin Entries(lh) => Recovered'[b] = home[b]
      /\ Recovered' \in [Block -> Val]
  BY <1>1 DEF Facts, RecoveredIs
<1>2. ASSUME NEW b \in Block PROVE Recovered'[b] = cache[b]
  <2>1. CASE b \in Entries(lh)
    <3>1. PICK i \in DOMAIN lh : lh[i] = b
      BY <2>1, Zenon DEF Entries
    <3>2. \A k \in 1..Len(lh) : logd[k] = cache[lh[k]]
      BY <1>1 DEF CommitDisk
    <3>3. i \in 1..Len(lh)
      BY <3>1 DEF Facts
    <3> QED BY <1>r, <3>1, <3>2, <3>3, Zenon
  <2>2. CASE b \notin Entries(lh)
    <3>1. cache[b] = home[b]
      BY <2>2 DEF UpDisk
    <3> QED BY <1>r, <2>2, <3>1, Zenon
  <2> QED BY <2>1, <2>2
<1> QED BY <1>r, <1>2, SMT DEF Facts

\* Erasing the header changes nothing once every block is installed.
LEMMA EraseKeeps ==
  ASSUME Facts, Facts', hdr = lh, tail = Len(lh), hdr' = <<>>, UNCHANGED home,
         \A i \in 1..tail : home[lh[i]] = logd[i]
  PROVE  Recovered' = Recovered /\ Recovered = home
<1>1. Entries(hdr') = {}
  BY SMT DEF Entries
<1>2. \A b \in Block : Recovered'[b] = home[b]
  BY <1>1 DEF Facts, RecoveredIs
<1>3. ASSUME NEW b \in Block PROVE Recovered[b] = home[b]
  <2>1. CASE b \in Entries(hdr)
    <3>1. PICK i \in DOMAIN hdr : hdr[i] = b
      BY <2>1, Zenon DEF Entries
    <3>2. Recovered[b] = logd[i] /\ i \in 1..tail
      BY <3>1 DEF Facts, RecoveredIs
    <3> QED BY <3>1, <3>2
  <2>2. CASE b \notin Entries(hdr)
    BY <2>2 DEF Facts, RecoveredIs
  <2> QED BY <2>1, <2>2
<1>4. Recovered \in [Block -> Val] /\ Recovered' \in [Block -> Val] /\ home \in [Block -> Val]
  BY DEF Facts, RecoveredIs
<1> QED BY <1>2, <1>3, <1>4, SMT

\* The steps of commit().
LEMMA RefineCommit ==
  ASSUME Inv3, Facts, Facts', NEW p \in Proc, CommitStep(p)
  PROVE  [AD!Next]_(AD!vars)
<1>a. CountInv /\ ThreadInv /\ UpDisk /\ CommitDisk
  BY DEF Inv3, Inv2, Inv1
<1>b. p \in Committers /\ Active' = Active /\ sys = "up" /\ sys' = "up"
  <2> DEFINE Q == p \in Committers /\ Active' = Active /\ sys = "up" /\ sys' = "up"
  <2>1. ASSUME write_log(p) \/ install_trans(p) PROVE Q
    BY <2>1 DEF write_log, install_trans, InstallStep, Active, Committers, CommitPC, threads
  <2>2. ASSUME write_head(p) PROVE Q
    BY <2>2 DEF write_head, Active, OpPC, Committers, CommitPC, Facts
  <2>3. ASSUME erase_head(p) PROVE Q
    BY <2>3 DEF erase_head, Active, OpPC, Committers, CommitPC, Facts
  <2>4. ASSUME end_commit(p) PROVE Q
    BY <2>4 DEF end_commit, Active, OpPC, Committers, CommitPC, Facts
  <2> QED BY <2>1, <2>2, <2>3, <2>4 DEF CommitStep
<1>0. Active' = Active /\ Active = {} /\ sys = "up" /\ sys' = "up"
  BY <1>a, <1>b DEF CountInv
<1>h. \A q \in Proc : held[q] = {}
  BY <1>0, <1>a DEF Active, OpPC, ThreadInv
<1>1. CASE write_log(p)
  <2>1. \A q \in Proc : pc[q] # "install_trans"
    BY <1>1, <1>a DEF write_log, CountInv, Committers, CommitPC
  <2>2. hdr = <<>> /\ hdr' = hdr /\ home' = home /\ cache' = cache
    BY <1>1, <1>0, <1>a, <2>1 DEF write_log, UpDisk
  <2>3. Recovered' = Recovered
    BY <2>2, SMT DEF Recovered, Entries
  <2> QED BY <1>0, <2>2, <2>3 DEF Visible, AD!vars
<1>2. CASE write_head(p)
  <2>1. Recovered' = cache
    BY <1>2, <1>0, <1>a, <1>h, HeadCommits
  <2>2. cache' = cache
    BY <1>2 DEF write_head
  <2> QED BY <1>0, <2>1, <2>2 DEF Visible, AD!Next, AD!Commit
<1>3. CASE install_trans(p)
  <2>1. hdr = lh /\ InstallStep /\ \A i \in 1..Len(lh) : logd[i] = cache[lh[i]]
    BY <1>3, <1>a DEF install_trans, CommitDisk
  <2>2. Recovered' = Recovered
    BY <2>1, InstallDisk
  <2>3. tail + 1 \in 1..Len(lh) /\ lh[tail + 1] \in Block
    BY <2>1, SMT DEF InstallStep, Facts
  <2>4. cache' = cache
    BY <2>1, <2>3 DEF InstallStep, Facts
  <2> QED BY <1>0, <2>2, <2>4 DEF Visible, AD!vars
<1>4. CASE erase_head(p)
  <2>1. /\ hdr' = <<>> /\ UNCHANGED <<cache, home>> /\ tail = Len(lh) /\ hdr = lh
        /\ \A i \in 1..tail : home[lh[i]] = logd[i]
    BY <1>4, <1>a DEF erase_head, EraseHead, CommitDisk
  <2>2. Recovered' = Recovered
    BY <2>1, EraseKeeps
  <2> QED BY <1>0, <2>1, <2>2 DEF Visible, AD!vars
<1>5. CASE end_commit(p)
  <2>1. Recovered' = Recovered /\ cache' = cache
    BY <1>5, SameDisk DEF end_commit
  <2> QED BY <1>0, <2>1 DEF Visible, AD!vars
<1> QED BY <1>1, <1>2, <1>3, <1>4, <1>5 DEF CommitStep

\* A crash and the recovery.
LEMMA RefineBoot ==
  ASSUME Inv3, Facts, Facts', read_head \/ recover_install \/ recover_done \/ crash
  PROVE  [AD!Next]_(AD!vars)
<1>a. BootDisk
  BY DEF Inv3
<1>1. CASE read_head
  <2>1. Recovered' = Recovered
    BY <1>1, SameDisk DEF read_head
  <2>2. Active' = Active /\ Visible' = Visible
    BY <1>1, <2>1 DEF read_head, threads, Active, Visible
  <2> QED BY <2>1, <2>2 DEF AD!vars
<1>2. CASE recover_install
  <2>1. lh = hdr /\ InstallStep /\ sys = "recover" /\ sys' = sys
    BY <1>2, <1>a DEF recover_install, BootDisk
  <2>2. Recovered' = Recovered
    BY <2>1, InstallDisk
  <2>3. Active' = Active /\ Visible' = Visible
    BY <2>1, <2>2 DEF InstallStep, threads, Active, Visible
  <2> QED BY <2>2, <2>3 DEF AD!vars
<1>3. CASE recover_done
  <2>1. /\ hdr' = <<>> /\ UNCHANGED <<cache, home, pc>> /\ tail = Len(lh) /\ hdr = lh
        /\ cache = home /\ sys = "recover" /\ sys' = "up"
        /\ \A i \in 1..tail : home[lh[i]] = logd[i]
    BY <1>3, <1>a DEF recover_done, EraseHead, BootDisk, Booting, threads
  <2>2. Recovered' = Recovered /\ Recovered = home
    BY <2>1, EraseKeeps
  <2>3. Active' = Active /\ Visible' = Visible
    BY <2>1, <2>2 DEF Active, Visible
  <2> QED BY <2>2, <2>3 DEF AD!vars
<1>4. CASE crash
  <2>1. Recovered' = Recovered
    BY <1>4, SameDisk DEF crash
  <2>2. Active' = {} /\ Visible' = Recovered
    BY <1>4, <2>1 DEF crash, Active, OpPC, Visible
  <2> QED BY <2>1, <2>2 DEF AD!Next, AD!Crash
<1> QED BY <1>1, <1>2, <1>3, <1>4

\* Every step is a step of AtomicDisk or changes nothing of it.
LEMMA StepRefines ==
  ASSUME LogFits, Inv3, Inv3', [Next]_vars
  PROVE  [AD!Next]_(AD!vars)
<1>f. Facts /\ Facts'
  BY FactsNow, FactsNext
<1>1. CASE UNCHANGED vars
  <2>1. UNCHANGED <<disk, sys, cache, pc>>
    BY <1>1 DEF vars, memory, threads
  <2>2. Recovered' = Recovered
    BY <2>1, SameDisk
  <2> QED BY <2>1, <2>2 DEF Visible, Active, AD!vars
<1>2. CASE Next
  BY <1>2, <1>f, RefineBegin, RefineEnd, RefineModify, RefineLogWrite, RefineCommit,
     RefineBoot DEF Next
<1> QED BY <1>1, <1>2

\* Whatever the interleaving of operations and wherever the machine crashes,
\* in an operation, in commit() or in recovery itself, the file system sees
\* whole groups of finished operations: the log implements the atomic disk.
THEOREM CrashAtomicity == ASSUME LogFits PROVE Spec => CrashAtomic
<1>1. Init /\ Inv3 => AD!Init
  BY InitRefines
<1>2. Inv3 /\ Inv3' /\ [Next]_vars => [AD!Next]_(AD!vars)
  BY StepRefines
<1> QED BY <1>1, <1>2, Invariant3, PTL DEF Spec, CrashAtomic, AD!Spec

=============================================================================
