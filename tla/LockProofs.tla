----------------------------- MODULE LockProofs -----------------------------
(***************************************************************************)
(* The spin locks exclude, and no handler runs over a held lock, for any    *)
(* number of CPUs and locks.                                                *)
(***************************************************************************)
EXTENDS Lock, FiniteSetTheorems, TLAPS

(***************************************************************************)
(* The inductive invariant.  Exclusion alone is not inductive: a holder     *)
(* must be visible in the lock word.  That no handler finds a lock follows  *)
(* from the interrupt flag being on only at depth 0, and the depth counting *)
(* the locks held.                                                          *)
(***************************************************************************)
HeldIsLocked == \A f \in Frame : \A l \in held[f] : locked[l]

WantsALock == \A f \in Frame : pc[f] \in {"spin", "try"} => want[f] \in Locks

FlagMeansDepthZero ==
  \A c \in Cpu : iflag[c] => /\ pc[HandlerOn(c)] = "absent"
                             /\ retain_depth[c] = 0

RetainEnabledOutsideHandlers ==
  \A c \in Cpu : retain_enable[c] <=> pc[HandlerOn(c)] = "absent"

TaskPresent == \A c \in Cpu : pc[TaskOn(c)] # "absent"

IInv ==
  /\ TypeOK
  /\ MutualExclusion
  /\ HeldIsLocked
  /\ WantsALock
  /\ DepthCountsLocks
  /\ HandlerFindsNoLock
  /\ FlagMeansDepthZero
  /\ RetainEnabledOutsideHandlers
  /\ TaskPresent

\* What a frame holds is finite, so taking and giving a lock counts by one.
LEMMA CountHeld ==
  ASSUME NEW S \in SUBSET Locks, NEW l \in Locks
  PROVE  /\ Cardinality(S) \in Nat
         /\ l \notin S => Cardinality(S \union {l}) = Cardinality(S) + 1
         /\ l \in S => Cardinality(S \ {l}) = Cardinality(S) - 1
         /\ Cardinality(S) = 0 <=> S = {}
<1>1. IsFiniteSet(S)
  BY LockAssumption, FS_Subset
<1>2. QED
  BY <1>1, FS_CardinalityType, FS_AddElement, FS_RemoveElement, FS_EmptySet

(***************************************************************************)
(* The two frames of a CPU, without the encoding of pairs.                  *)
(***************************************************************************)
LEMMA Frames ==
  /\ \A c \in Cpu : /\ TaskOn(c) \in Frame /\ CpuOf(TaskOn(c)) = c
                    /\ HandlerOn(c) \in Frame /\ CpuOf(HandlerOn(c)) = c
                    /\ TaskOn(c) # HandlerOn(c)
  /\ \A f \in Frame : /\ CpuOf(f) \in Cpu
                      /\ f = TaskOn(CpuOf(f)) \/ f = HandlerOn(CpuOf(f))
BY DEF Frame, TaskOn, HandlerOn, CpuOf

LEMMA InitIInv == Init => IInv
<1> SUFFICES ASSUME Init PROVE IInv
  OBVIOUS
<1>1. Cardinality({}) = 0
  BY FS_EmptySet
<1>2. QED
  BY <1>1, Frames DEF Init, IInv, TypeOK, MutualExclusion, HeldIsLocked, WantsALock, DepthCountsLocks,
         HandlerFindsNoLock, FlagMeansDepthZero, RetainEnabledOutsideHandlers, TaskPresent,
         Label, NoLock

\* The counts of what the frames hold.
LEMMA HeldCounts ==
  ASSUME TypeOK, NEW g \in Frame
  PROVE  /\ Cardinality(held[g]) \in Nat
         /\ Cardinality(held[g]) = 0 => held[g] = {}
         /\ held[g] = {} => Cardinality(held[g]) = 0
BY LockAssumption, FS_Subset, FS_CardinalityType, FS_EmptySet DEF TypeOK

\* lock_acquire and lock_try_acquire, up to the first exchange.
LEMMA EnterStep ==
  ASSUME IInv, NEW f \in Frame, NEW l \in Locks, NEW label \in {"spin", "try"},
         Active(f), pc[f] = "run", embed_sync_enter(f), Goto(f, label, l),
         UNCHANGED <<locked, held>>
  PROVE  IInv'
<1> DEFINE d == CpuOf(f)
<1> USE DEF IInv, Goto
<1>1. d \in Cpu /\ (f = TaskOn(d) \/ f = HandlerOn(d)) /\ retain_depth[d] \in Nat
  BY Frames DEF TypeOK
<1>2. /\ pc' \in [Frame -> Label] /\ want' \in [Frame -> Locks \union {NoLock}]
      /\ \A g \in Frame : pc'[g] = IF g = f THEN label ELSE pc[g]
      /\ \A g \in Frame : want'[g] = IF g = f THEN l ELSE want[g]
  BY DEF TypeOK, Label
<1>3. MutualExclusion' /\ HeldIsLocked' /\ WantsALock' /\ TaskPresent'
  BY <1>2, Frames DEF MutualExclusion, HeldIsLocked, WantsALock, TaskPresent
<1>4. CASE f = HandlerOn(d)
  <2>1. UNCHANGED <<iflag, retain_enable, retain_depth>>
    BY <1>1, <1>4 DEF embed_sync_enter, cpu_retain_interrupts, RetainEnabledOutsideHandlers
  <2>2. \A c \in Cpu : TaskOn(c) # f /\ (HandlerOn(c) = f => c = d)
    BY <1>1, <1>4, Frames
  <2>3. TypeOK' /\ DepthCountsLocks'
    BY <1>2, <2>1, <2>2, Frames DEF TypeOK, DepthCountsLocks
  <2>4. HandlerFindsNoLock' /\ FlagMeansDepthZero' /\ RetainEnabledOutsideHandlers'
    BY <1>2, <1>4, <2>1, <2>2, Frames
       DEF HandlerFindsNoLock, FlagMeansDepthZero, RetainEnabledOutsideHandlers
  <2>5. QED
    BY <1>3, <2>3, <2>4
<1>5. CASE f = TaskOn(d)
  <2>1. pc[HandlerOn(d)] = "absent" /\ retain_enable[d]
    BY <1>1, <1>5, Frames DEF Active, RetainEnabledOutsideHandlers
  <2>2. /\ iflag' = [iflag EXCEPT ![d] = FALSE] /\ UNCHANGED retain_enable
        /\ retain_depth' = [retain_depth EXCEPT ![d] = retain_depth[d] + 1]
    BY <2>1 DEF embed_sync_enter, cpu_retain_interrupts
  <2>3. \A c \in Cpu : HandlerOn(c) # f /\ (TaskOn(c) = f => c = d)
    BY <1>1, <1>5, Frames
  <2>4. TypeOK'
    BY <1>1, <1>2, <2>2 DEF TypeOK
  <2>5. DepthCountsLocks'
    BY <1>1, <1>2, <1>5, <2>2, <2>3, Frames, HeldCounts DEF DepthCountsLocks, TypeOK
  <2>6. HandlerFindsNoLock' /\ RetainEnabledOutsideHandlers'
    BY <1>1, <1>2, <2>1, <2>2, <2>3, Frames DEF HandlerFindsNoLock, RetainEnabledOutsideHandlers
  <2>7. FlagMeansDepthZero'
    BY <1>1, <1>2, <2>2, <2>3, Frames DEF FlagMeansDepthZero, TypeOK
  <2>8. QED
    BY <1>3, <2>4, <2>5, <2>6, <2>7
<1>6. QED
  BY <1>1, <1>4, <1>5

\* A successful exchange, in either loop.
LEMMA TakeStep ==
  ASSUME IInv, NEW f \in Frame, pc[f] \in {"spin", "try"}, Active(f),
         lock_try_acquire_impl(f), Goto(f, "run", NoLock),
         UNCHANGED <<iflag, retain_enable, retain_depth>>
  PROVE  IInv'
<1> DEFINE w == want[f]
<1> USE DEF IInv, Goto, lock_try_acquire_impl
<1>1. w \in Locks /\ ~locked[w]
  BY DEF WantsALock
<1>2. /\ pc' \in [Frame -> Label] /\ want' \in [Frame -> Locks \union {NoLock}]
      /\ held' \in [Frame -> SUBSET Locks] /\ locked' \in [Locks -> BOOLEAN]
      /\ \A g \in Frame : pc'[g] = IF g = f THEN "run" ELSE pc[g]
      /\ \A g \in Frame : want'[g] = IF g = f THEN NoLock ELSE want[g]
      /\ \A g \in Frame : held'[g] = IF g = f THEN held[g] \union {w} ELSE held[g]
      /\ \A l \in Locks : locked'[l] = IF l = w THEN TRUE ELSE locked[l]
  BY <1>1 DEF TypeOK, Label
<1>3. \A g \in Frame : w \notin held[g]
  BY <1>1 DEF HeldIsLocked
<1>4. TypeOK'
  BY <1>2 DEF TypeOK
<1>5. MutualExclusion'
  BY <1>2, <1>3 DEF MutualExclusion
<1>6. HeldIsLocked' /\ WantsALock' /\ TaskPresent'
  BY <1>2, Frames DEF HeldIsLocked, WantsALock, TaskPresent, TypeOK
<1>7. DepthCountsLocks'
  <2>1. Cardinality(held[f] \union {w}) = Cardinality(held[f]) + 1 /\ Cardinality(held[f]) \in Nat
    BY <1>1, <1>3, CountHeld DEF TypeOK
  <2>2. QED
    BY <1>2, <2>1, Frames DEF DepthCountsLocks, TypeOK
<1>8. HandlerFindsNoLock'
  <2>1. ASSUME NEW c \in Cpu, pc[HandlerOn(c)] # "absent" PROVE f # TaskOn(c)
    BY <2>1, Frames DEF Active
  <2>2. QED
    BY <1>2, <2>1, Frames DEF HandlerFindsNoLock
<1>9. FlagMeansDepthZero' /\ RetainEnabledOutsideHandlers'
  BY <1>2, Frames DEF FlagMeansDepthZero, RetainEnabledOutsideHandlers
<1>10. QED
  BY <1>4, <1>5, <1>6, <1>7, <1>8, <1>9

\* The end of lock_release and of a failed lock_try_acquire.
LEMMA LeaveStep ==
  ASSUME IInv, NEW f \in Frame, pc[f] \in {"try", "leave"}, Active(f),
         embed_sync_leave(f), Goto(f, "run", NoLock), UNCHANGED <<locked, held>>
  PROVE  IInv'
<1> DEFINE d == CpuOf(f)
<1> USE DEF IInv, Goto
<1>1. d \in Cpu /\ (f = TaskOn(d) \/ f = HandlerOn(d)) /\ retain_depth[d] \in Nat
  BY Frames DEF TypeOK
<1>2. /\ pc' \in [Frame -> Label] /\ want' \in [Frame -> Locks \union {NoLock}]
      /\ \A g \in Frame : pc'[g] = IF g = f THEN "run" ELSE pc[g]
      /\ \A g \in Frame : want'[g] = IF g = f THEN NoLock ELSE want[g]
  BY DEF TypeOK, Label
<1>3. MutualExclusion' /\ HeldIsLocked' /\ WantsALock' /\ TaskPresent'
  BY <1>2, Frames DEF MutualExclusion, HeldIsLocked, WantsALock, TaskPresent
<1>4. CASE f = HandlerOn(d)
  <2>1. UNCHANGED <<iflag, retain_enable, retain_depth>>
    BY <1>1, <1>4 DEF embed_sync_leave, cpu_release_interrupts, RetainEnabledOutsideHandlers
  <2>2. \A c \in Cpu : TaskOn(c) # f /\ (HandlerOn(c) = f => c = d)
    BY <1>1, <1>4, Frames
  <2>3. TypeOK' /\ DepthCountsLocks'
    BY <1>2, <2>1, <2>2, Frames DEF TypeOK, DepthCountsLocks
  <2>4. HandlerFindsNoLock' /\ FlagMeansDepthZero' /\ RetainEnabledOutsideHandlers'
    BY <1>2, <1>4, <2>1, <2>2, Frames
       DEF HandlerFindsNoLock, FlagMeansDepthZero, RetainEnabledOutsideHandlers
  <2>5. QED
    BY <1>3, <2>3, <2>4
<1>5. CASE f = TaskOn(d)
  <2>1. pc[HandlerOn(d)] = "absent" /\ retain_enable[d]
    BY <1>1, <1>5, Frames DEF Active, RetainEnabledOutsideHandlers
  <2>2. /\ iflag' = IF retain_depth[d] = 1 THEN [iflag EXCEPT ![d] = TRUE] ELSE iflag
        /\ UNCHANGED retain_enable
        /\ retain_depth' = [retain_depth EXCEPT ![d] = retain_depth[d] - 1]
    BY <2>1 DEF embed_sync_leave, cpu_release_interrupts
  <2>3. \A c \in Cpu : HandlerOn(c) # f /\ (TaskOn(c) = f => c = d)
    BY <1>1, <1>5, Frames
  <2>4. retain_depth[d] = Cardinality(held[f]) + 1 /\ Cardinality(held[f]) \in Nat
    BY <1>1, <1>5, HeldCounts DEF DepthCountsLocks
  <2>5. TypeOK'
    <3>1. retain_depth' \in [Cpu -> Nat]
      BY <1>1, <2>2, <2>4 DEF TypeOK
    <3>2. iflag' \in [Cpu -> BOOLEAN]
      BY <1>1, <2>2 DEF TypeOK
    <3>3. QED
      BY <1>2, <2>2, <3>1, <3>2 DEF TypeOK
  <2>6. DepthCountsLocks'
    BY <1>1, <1>2, <1>5, <2>2, <2>3, <2>4, Frames DEF DepthCountsLocks, TypeOK
  <2>7. HandlerFindsNoLock' /\ RetainEnabledOutsideHandlers'
    BY <1>1, <1>2, <2>1, <2>2, <2>3, Frames DEF HandlerFindsNoLock, RetainEnabledOutsideHandlers
  <2>8. FlagMeansDepthZero'
    BY <1>1, <1>2, <2>1, <2>2, <2>3, <2>4, Frames DEF FlagMeansDepthZero, TypeOK
  <2>9. QED
    BY <1>3, <2>5, <2>6, <2>7, <2>8
<1>6. QED
  BY <1>1, <1>4, <1>5

LEMMA ReleaseStep ==
  ASSUME IInv, NEW f \in Frame, NEW l \in Locks, lock_release(f, l)
  PROVE  IInv'
<1> USE DEF IInv, Goto, lock_release
<1>1. /\ pc' \in [Frame -> Label] /\ want' \in [Frame -> Locks \union {NoLock}]
      /\ held' \in [Frame -> SUBSET Locks] /\ locked' \in [Locks -> BOOLEAN]
      /\ \A g \in Frame : pc'[g] = IF g = f THEN "leave" ELSE pc[g]
      /\ \A g \in Frame : want'[g] = IF g = f THEN l ELSE want[g]
      /\ \A g \in Frame : held'[g] = IF g = f THEN held[g] \ {l} ELSE held[g]
      /\ \A k \in Locks : locked'[k] = IF k = l THEN FALSE ELSE locked[k]
  BY DEF TypeOK, Label
<1>2. TypeOK'
  BY <1>1 DEF TypeOK
<1>3. MutualExclusion' /\ WantsALock' /\ TaskPresent'
  BY <1>1, Frames DEF MutualExclusion, WantsALock, TaskPresent
<1>4. HeldIsLocked'
  BY <1>1 DEF HeldIsLocked, MutualExclusion, TypeOK
<1>5. DepthCountsLocks'
  <2>1. Cardinality(held[f] \ {l}) = Cardinality(held[f]) - 1 /\ Cardinality(held[f]) \in Nat
    BY CountHeld DEF TypeOK
  <2>2. QED
    BY <1>1, <2>1, Frames DEF DepthCountsLocks, TypeOK
<1>6. HandlerFindsNoLock'
  <2>1. ASSUME NEW c \in Cpu, pc[HandlerOn(c)] # "absent" PROVE f # TaskOn(c)
    BY <2>1, Frames DEF HandlerFindsNoLock
  <2>2. QED
    BY <1>1, <2>1, Frames DEF HandlerFindsNoLock
<1>7. FlagMeansDepthZero' /\ RetainEnabledOutsideHandlers'
  BY <1>1, Frames DEF FlagMeansDepthZero, RetainEnabledOutsideHandlers
<1>8. QED
  BY <1>2, <1>3, <1>4, <1>5, <1>6, <1>7

\* An interrupt is taken only at depth 0, where the task code holds nothing.
LEMMA BeginStep ==
  ASSUME IInv, NEW d \in Cpu, cpu_begin_interrupt(d)
  PROVE  IInv'
<1> USE DEF IInv, cpu_begin_interrupt
<1>1. /\ pc' \in [Frame -> Label]
      /\ \A g \in Frame : pc'[g] = IF g = HandlerOn(d) THEN "run" ELSE pc[g]
  BY Frames DEF TypeOK, Label
<1>2. \A c \in Cpu : TaskOn(c) # HandlerOn(d) /\ (HandlerOn(c) = HandlerOn(d) => c = d)
  BY Frames
<1>3. TypeOK'
  BY <1>1 DEF TypeOK
<1>4. MutualExclusion' /\ HeldIsLocked' /\ WantsALock' /\ TaskPresent'
  BY <1>1, <1>2, Frames DEF MutualExclusion, HeldIsLocked, WantsALock, TaskPresent
<1>5. DepthCountsLocks'
  BY <1>1, <1>2, Frames DEF DepthCountsLocks
<1>6. HandlerFindsNoLock'
  <2>1. pc[TaskOn(d)] = "run" /\ Cardinality(held[TaskOn(d)]) = 0
    BY Frames, HeldCounts DEF FlagMeansDepthZero, DepthCountsLocks
  <2>2. held[TaskOn(d)] = {}
    BY <2>1, Frames, HeldCounts
  <2>3. QED
    BY <1>1, <1>2, <2>1, <2>2, Frames DEF HandlerFindsNoLock
<1>7. FlagMeansDepthZero' /\ RetainEnabledOutsideHandlers'
  BY <1>1, <1>2, Frames DEF FlagMeansDepthZero, RetainEnabledOutsideHandlers, TypeOK
<1>8. QED
  BY <1>3, <1>4, <1>5, <1>6, <1>7

\* The handler returns to task code that holds nothing, so the flag may be on.
LEMMA EndStep ==
  ASSUME IInv, NEW d \in Cpu, cpu_end_interrupt(d)
  PROVE  IInv'
<1> USE DEF IInv, cpu_end_interrupt
<1>1. /\ pc' \in [Frame -> Label]
      /\ \A g \in Frame : pc'[g] = IF g = HandlerOn(d) THEN "absent" ELSE pc[g]
  BY Frames DEF TypeOK, Label
<1>2. \A c \in Cpu : TaskOn(c) # HandlerOn(d) /\ (HandlerOn(c) = HandlerOn(d) => c = d)
  BY Frames
<1>3. TypeOK'
  BY <1>1 DEF TypeOK
<1>4. MutualExclusion' /\ HeldIsLocked' /\ WantsALock' /\ TaskPresent'
  BY <1>1, <1>2, Frames DEF MutualExclusion, HeldIsLocked, WantsALock, TaskPresent
<1>5. DepthCountsLocks' /\ HandlerFindsNoLock'
  BY <1>1, <1>2, Frames DEF DepthCountsLocks, HandlerFindsNoLock
<1>6. retain_depth[d] = 0
  BY Frames, HeldCounts DEF HandlerFindsNoLock, DepthCountsLocks
<1>7. FlagMeansDepthZero' /\ RetainEnabledOutsideHandlers'
  BY <1>1, <1>2, <1>6, Frames DEF FlagMeansDepthZero, RetainEnabledOutsideHandlers, TypeOK
<1>8. QED
  BY <1>3, <1>4, <1>5, <1>7

\* Every action of Next preserves the invariant.
LEMMA NextIInv == IInv /\ [Next]_vars => IInv'
<1> SUFFICES ASSUME IInv, [Next]_vars PROVE IInv'
  OBVIOUS
<1>1. ASSUME NEW f \in Frame, NEW l \in Locks, lock_acquire(f, l) PROVE IInv'
  BY <1>1, EnterStep DEF lock_acquire
<1>2. ASSUME NEW f \in Frame, NEW l \in Locks, lock_try_acquire(f, l) PROVE IInv'
  BY <1>2, EnterStep DEF lock_try_acquire
<1>3. ASSUME NEW f \in Frame, lock_acquire_spin(f) PROVE IInv'
  BY <1>3, TakeStep DEF lock_acquire_spin
<1>4. ASSUME NEW f \in Frame, lock_try_acquire_taken(f) PROVE IInv'
  BY <1>4, TakeStep DEF lock_try_acquire_taken
<1>5. ASSUME NEW f \in Frame, lock_try_acquire_failed(f) PROVE IInv'
  BY <1>5, LeaveStep DEF lock_try_acquire_failed
<1>6. ASSUME NEW f \in Frame, lock_release_leave(f) PROVE IInv'
  BY <1>6, LeaveStep DEF lock_release_leave
<1>7. CASE UNCHANGED vars
  BY <1>7 DEF vars, IInv, TypeOK, MutualExclusion, HeldIsLocked, WantsALock, DepthCountsLocks,
              HandlerFindsNoLock, FlagMeansDepthZero, RetainEnabledOutsideHandlers, TaskPresent
<1>8. QED
  BY <1>1, <1>2, <1>3, <1>4, <1>5, <1>6, <1>7, ReleaseStep, BeginStep, EndStep DEF Next, Step

(***************************************************************************)
(* MutualExclusion, HandlerFindsNoLock, DepthCountsLocks and                *)
(* BeginInterruptAssert hold in every reachable state: lock.c excludes, and *)
(* cpu.c keeps the interrupts off for exactly as long as a lock is held.    *)
(***************************************************************************)
THEOREM LockSafe ==
  Spec => [](TypeOK /\ MutualExclusion /\ HandlerFindsNoLock
             /\ DepthCountsLocks /\ BeginInterruptAssert)
<1>1. IInv => MutualExclusion /\ HandlerFindsNoLock /\ DepthCountsLocks /\ TypeOK
  BY DEF IInv
<1>2. IInv => BeginInterruptAssert
  BY DEF IInv, FlagMeansDepthZero, RetainEnabledOutsideHandlers, BeginInterruptAssert
<1>3. QED
  BY InitIInv, NextIInv, <1>1, <1>2, PTL DEF Spec
=============================================================================
