---------------------------- MODULE RwLockProofs ----------------------------
(* Safety of the readers-writer lock for any finite set of CPUs, any number *)
(* of handlers and any number of pairs.                                     *)
EXTENDS RwLock, FiniteSetTheorems, TLAPS

\* The frames that positions p put into one of the places S.
In(p, S) == {g \in Frame : p[g] \in S}

RLabels == {"reading", "r_rel"}
WLabels == {"w_unpend", "writing", "w_rel"}
PLabels == {"w_try", "w_in", "w_unpend"}

Typed ==
  /\ lock \in BOOLEAN
  /\ readers \in Int /\ writers \in Int /\ pendings \in Int
  /\ pc \in [Frame -> Label]
  /\ iflag \in [Cpu -> BOOLEAN] /\ retain_enable \in [Cpu -> BOOLEAN]
  /\ retain_depth \in [Cpu -> Int] /\ pairs \in [Cpu -> Nat]

\* What keeps handlers away: retention is off exactly while a handler runs, and
\* the interrupt flag is set only where the code below holds and waits for
\* nothing.
FlagMeansRun ==
  \A c \in Cpu :
    /\ retain_enable[c] <=> pc[HandlerOn(c)] = "absent"
    /\ pc[TaskOn(c)] # "absent"
    /\ iflag[c] => pc[TaskOn(c)] = "run" /\ pc[HandlerOn(c)] = "absent"

Retention == Typed /\ FlagMeansRun /\ HandlerFindsNoRwLock /\ DepthCountsPairs

\* The counters are touched only under the spin lock, one step per section, so
\* that WriterExcludes needs no more than the types to be inductive.
IInv == Retention /\ WriterExcludes
-----------------------------------------------------------------------------
LEMMA FrameFacts ==
  /\ \A c \in Cpu : /\ TaskOn(c) \in Frame /\ HandlerOn(c) \in Frame
                    /\ CpuOf(TaskOn(c)) = c /\ CpuOf(HandlerOn(c)) = c
                    /\ TaskOn(c) # HandlerOn(c)
  /\ \A f \in Frame : /\ CpuOf(f) \in Cpu
                      /\ f = TaskOn(CpuOf(f)) \/ f = HandlerOn(CpuOf(f))
BY DEF Frame, TaskOn, HandlerOn, CpuOf

LEMMA FrameFinite == IsFiniteSet(Frame)
<1>1. IsFiniteSet(Cpu)
  BY RwLockAssumption
<1>2. IsFiniteSet({"task", "irq"})
  <2>1. IsFiniteSet({"task"})
    BY FS_Singleton
  <2>2. {"task", "irq"} = {"task"} \cup {"irq"}
    OBVIOUS
  <2> QED BY <2>1, <2>2, FS_AddElement
<1> QED BY <1>1, <1>2, FS_Product DEF Frame

LEMMA AreIn ==
  /\ Readers = In(pc, RLabels) /\ Writers = In(pc, WLabels)
  /\ At({"w_try", "w_in", "w_unpend"}) = In(pc, PLabels)
BY DEF Readers, Writers, At, In, RLabels, WLabels, PLabels

LEMMA AreInNext ==
  /\ Readers' = In(pc', RLabels) /\ Writers' = In(pc', WLabels)
  /\ At({"w_try", "w_in", "w_unpend"})' = In(pc', PLabels)
BY DEF Readers, Writers, At, In, RLabels, WLabels, PLabels

\* How the step of a frame changes the set of frames at the places S.
LEMMA Moved ==
  ASSUME Typed, NEW f \in Frame, NEW from \in Label, NEW to \in Label, Goto(f, from, to), NEW S
  PROVE  /\ IsFiniteSet(In(pc, S))
         /\ (from \in S <=> to \in S) => In(pc', S) = In(pc, S)
         /\ from \notin S /\ to \in S =>
              In(pc', S) = In(pc, S) \cup {f} /\ Cardinality(In(pc', S)) = Cardinality(In(pc, S)) + 1
         /\ from \in S /\ to \notin S =>
              In(pc', S) = In(pc, S) \ {f} /\ Cardinality(In(pc', S)) = Cardinality(In(pc, S)) - 1
<1>0. pc \in [Frame -> Label] /\ pc[f] = from /\ pc' = [pc EXCEPT ![f] = to]
  BY DEF Typed, Goto
<1>1. IsFiniteSet(In(pc, S))
  BY FrameFinite, FS_Subset DEF In
<1>2. (from \in S <=> to \in S) => In(pc', S) = In(pc, S)
  BY <1>0 DEF In
<1>3. from \notin S /\ to \in S => In(pc', S) = In(pc, S) \cup {f} /\ f \notin In(pc, S)
  BY <1>0 DEF In
<1>4. from \in S /\ to \notin S => In(pc', S) = In(pc, S) \ {f} /\ f \in In(pc, S)
  BY <1>0 DEF In
<1>5. from \notin S /\ to \in S => Cardinality(In(pc', S)) = Cardinality(In(pc, S)) + 1
  BY <1>1, <1>3, FS_AddElement
<1>6. from \in S /\ to \notin S => Cardinality(In(pc', S)) = Cardinality(In(pc, S)) - 1
  BY <1>1, <1>4, FS_RemoveElement
<1> QED BY <1>1, <1>2, <1>3, <1>4, <1>5, <1>6

\* WriterExcludes, as a relation between the three sets and the counters.
Excl(R, W, P, r, w, p) ==
  /\ \A f \in W : R \cup W = {f}
  /\ r = Cardinality(R) /\ w = Cardinality(W) /\ p = Cardinality(P)

LEMMA ExclIs ==
  WriterExcludes <=> Excl(In(pc, RLabels), In(pc, WLabels), In(pc, PLabels), readers, writers, pendings)
BY AreIn DEF WriterExcludes, Excl

LEMMA ExclIsNext ==
  WriterExcludes' <=>
    Excl(In(pc', RLabels), In(pc', WLabels), In(pc', PLabels), readers', writers', pendings')
BY AreInNext DEF WriterExcludes, Excl

\* A move that neither enters nor leaves one of the three sets.
LEMMA ExclQuiet ==
  ASSUME Typed, WriterExcludes, NEW f \in Frame, NEW from \in Label, NEW to \in Label,
         Goto(f, from, to), UNCHANGED counters,
         from \in RLabels <=> to \in RLabels,
         from \in WLabels <=> to \in WLabels,
         from \in PLabels <=> to \in PLabels
  PROVE  WriterExcludes'
<1>1. /\ In(pc', RLabels) = In(pc, RLabels) /\ In(pc', WLabels) = In(pc, WLabels)
      /\ In(pc', PLabels) = In(pc, PLabels)
  BY Moved
<1>2. readers' = readers /\ writers' = writers /\ pendings' = pendings
  BY DEF counters
<1> QED BY <1>1, <1>2, ExclIs, ExclIsNext

LEMMA NobodyIn ==
  ASSUME NEW R, IsFiniteSet(R), Cardinality(R) = 0
  PROVE  R = {}
BY FS_EmptySet

LEMMA ExclRead ==
  ASSUME Typed, WriterExcludes, NEW f \in Frame, Read(f)
  PROVE  WriterExcludes'
<1> USE DEF RLabels, WLabels, PLabels, Label
<1>1. CASE rwlock_acquire_read(f)
  <2>1. Goto(f, "run", "r_try") /\ UNCHANGED counters
    BY <1>1 DEF rwlock_acquire_read, counters
  <2> QED BY <2>1, ExclQuiet
<1>2. CASE rwlock_try_acquire_read(f)
  <2>1. Goto(f, "r_try", "r_in") /\ UNCHANGED counters
    BY <1>2 DEF rwlock_try_acquire_read, LockInner, counters
  <2> QED BY <2>1, ExclQuiet
<1>3. CASE rwlock_try_acquire_read_ok(f)
  <2>1. /\ Goto(f, "r_in", "reading") /\ writers = 0
        /\ readers' = readers + 1 /\ writers' = writers /\ pendings' = pendings
    BY <1>3 DEF rwlock_try_acquire_read_ok
  <2>2. /\ In(pc', RLabels) = In(pc, RLabels) \cup {f}
        /\ Cardinality(In(pc', RLabels)) = Cardinality(In(pc, RLabels)) + 1
    BY <2>1, Moved
  <2>3. /\ IsFiniteSet(In(pc, WLabels)) /\ In(pc', WLabels) = In(pc, WLabels)
        /\ In(pc', PLabels) = In(pc, PLabels)
    BY <2>1, Moved
  <2>4. Excl(In(pc, RLabels), In(pc, WLabels), In(pc, PLabels), readers, writers, pendings)
    BY ExclIs
  <2>5. In(pc, WLabels) = {}
    BY <2>1, <2>3, <2>4, NobodyIn DEF Excl
  <2>6. Excl(In(pc', RLabels), In(pc', WLabels), In(pc', PLabels), readers', writers', pendings')
    BY <2>1, <2>2, <2>3, <2>4, <2>5 DEF Excl
  <2> QED BY <2>6, ExclIsNext
<1>4. CASE rwlock_try_acquire_read_busy(f)
  <2>1. Goto(f, "r_in", "r_try") /\ UNCHANGED counters
    BY <1>4 DEF rwlock_try_acquire_read_busy, counters
  <2> QED BY <2>1, ExclQuiet
<1>5. CASE rwlock_release_read(f)
  <2>1. Goto(f, "reading", "r_rel") /\ UNCHANGED counters
    BY <1>5 DEF rwlock_release_read, LockInner, counters
  <2> QED BY <2>1, ExclQuiet
<1>6. CASE rwlock_release_read_end(f)
  <2>1. /\ Goto(f, "r_rel", "run")
        /\ readers' = readers - 1 /\ writers' = writers /\ pendings' = pendings
    BY <1>6 DEF rwlock_release_read_end
  <2>2. /\ In(pc', RLabels) = In(pc, RLabels) \ {f}
        /\ Cardinality(In(pc', RLabels)) = Cardinality(In(pc, RLabels)) - 1
    BY <2>1, Moved
  <2>3. /\ In(pc', WLabels) = In(pc, WLabels) /\ In(pc', PLabels) = In(pc, PLabels)
    BY <2>1, Moved
  <2>4. Excl(In(pc, RLabels), In(pc, WLabels), In(pc, PLabels), readers, writers, pendings)
    BY ExclIs
  <2>5. \A g \in In(pc', WLabels) : In(pc', RLabels) \cup In(pc', WLabels) = {g}
    BY <2>2, <2>3, <2>4 DEF Excl
  <2>6. Excl(In(pc', RLabels), In(pc', WLabels), In(pc', PLabels), readers', writers', pendings')
    BY <2>1, <2>2, <2>3, <2>4, <2>5 DEF Excl
  <2> QED BY <2>6, ExclIsNext
<1> QED BY <1>1, <1>2, <1>3, <1>4, <1>5, <1>6 DEF Read

LEMMA ExclWrite ==
  ASSUME Typed, WriterExcludes, NEW f \in Frame, Write(f)
  PROVE  WriterExcludes'
<1> USE DEF RLabels, WLabels, PLabels, Label
<1>0. Excl(In(pc, RLabels), In(pc, WLabels), In(pc, PLabels), readers, writers, pendings)
  BY ExclIs
<1>1. CASE rwlock_acquire_write(f)
  <2>1. Goto(f, "run", "w_pend") /\ UNCHANGED counters
    BY <1>1 DEF rwlock_acquire_write, counters
  <2> QED BY <2>1, ExclQuiet
<1>2. CASE rwlock_acquire_write_pending(f)
  <2>1. /\ Goto(f, "w_pend", "w_try")
        /\ readers' = readers /\ writers' = writers /\ pendings' = pendings + 1
    BY <1>2 DEF rwlock_acquire_write_pending
  <2>2. /\ Cardinality(In(pc', PLabels)) = Cardinality(In(pc, PLabels)) + 1
        /\ In(pc', RLabels) = In(pc, RLabels) /\ In(pc', WLabels) = In(pc, WLabels)
    BY <2>1, Moved
  <2>3. Excl(In(pc', RLabels), In(pc', WLabels), In(pc', PLabels), readers', writers', pendings')
    BY <1>0, <2>1, <2>2 DEF Excl
  <2> QED BY <2>3, ExclIsNext
<1>3. CASE rwlock_try_acquire_write(f)
  <2>1. Goto(f, "w_try", "w_in") /\ UNCHANGED counters
    BY <1>3 DEF rwlock_try_acquire_write, LockInner, counters
  <2> QED BY <2>1, ExclQuiet
<1>4. CASE rwlock_try_acquire_write_ok(f)
  <2>1. /\ Goto(f, "w_in", "w_unpend") /\ readers = 0 /\ writers = 0
        /\ readers' = readers /\ writers' = writers + 1 /\ pendings' = pendings
    BY <1>4 DEF rwlock_try_acquire_write_ok
  <2>2. /\ IsFiniteSet(In(pc, RLabels)) /\ IsFiniteSet(In(pc, WLabels))
        /\ In(pc', RLabels) = In(pc, RLabels) /\ In(pc', PLabels) = In(pc, PLabels)
    BY <2>1, Moved
  <2>3. /\ In(pc', WLabels) = In(pc, WLabels) \cup {f}
        /\ Cardinality(In(pc', WLabels)) = Cardinality(In(pc, WLabels)) + 1
    BY <2>1, Moved
  <2>4. In(pc, RLabels) = {} /\ In(pc, WLabels) = {}
    BY <1>0, <2>1, <2>2, NobodyIn DEF Excl
  <2>5. \A g \in In(pc', WLabels) : In(pc', RLabels) \cup In(pc', WLabels) = {g}
    BY <2>2, <2>3, <2>4
  <2>6. Excl(In(pc', RLabels), In(pc', WLabels), In(pc', PLabels), readers', writers', pendings')
    BY <1>0, <2>1, <2>2, <2>3, <2>5 DEF Excl
  <2> QED BY <2>6, ExclIsNext
<1>5. CASE rwlock_try_acquire_write_busy(f)
  <2>1. Goto(f, "w_in", "w_try") /\ UNCHANGED counters
    BY <1>5 DEF rwlock_try_acquire_write_busy, counters
  <2> QED BY <2>1, ExclQuiet
<1>6. CASE rwlock_acquire_write_end(f)
  <2>1. /\ Goto(f, "w_unpend", "writing")
        /\ readers' = readers /\ writers' = writers /\ pendings' = pendings - 1
    BY <1>6 DEF rwlock_acquire_write_end
  <2>2. /\ Cardinality(In(pc', PLabels)) = Cardinality(In(pc, PLabels)) - 1
        /\ In(pc', RLabels) = In(pc, RLabels) /\ In(pc', WLabels) = In(pc, WLabels)
    BY <2>1, Moved
  <2>3. Excl(In(pc', RLabels), In(pc', WLabels), In(pc', PLabels), readers', writers', pendings')
    BY <1>0, <2>1, <2>2 DEF Excl
  <2> QED BY <2>3, ExclIsNext
<1>7. CASE rwlock_release_write(f)
  <2>1. Goto(f, "writing", "w_rel") /\ UNCHANGED counters
    BY <1>7 DEF rwlock_release_write, LockInner, counters
  <2> QED BY <2>1, ExclQuiet
<1>8. CASE rwlock_release_write_end(f)
  <2>1. /\ Goto(f, "w_rel", "run")
        /\ readers' = readers /\ writers' = writers - 1 /\ pendings' = pendings
    BY <1>8 DEF rwlock_release_write_end
  <2>2. /\ In(pc', WLabels) = In(pc, WLabels) \ {f}
        /\ Cardinality(In(pc', WLabels)) = Cardinality(In(pc, WLabels)) - 1
    BY <2>1, Moved
  <2>3. In(pc', RLabels) = In(pc, RLabels) /\ In(pc', PLabels) = In(pc, PLabels)
    BY <2>1, Moved
  <2>4. \A g \in In(pc', WLabels) : In(pc', RLabels) \cup In(pc', WLabels) = {g}
    BY <1>0, <2>2, <2>3 DEF Excl
  <2>5. Excl(In(pc', RLabels), In(pc', WLabels), In(pc', PLabels), readers', writers', pendings')
    BY <1>0, <2>1, <2>2, <2>3, <2>4 DEF Excl
  <2> QED BY <2>5, ExclIsNext
<1> QED BY <1>1, <1>2, <1>3, <1>4, <1>5, <1>6, <1>7, <1>8 DEF Write
-----------------------------------------------------------------------------
\* What a step of frame f does to the retention of its CPU: e calls of
\* embed_sync_enter more than of embed_sync_leave, and k completed pairs.
Effect(f, from, to, e, k) ==
  /\ Goto(f, from, to)
  /\ retain_enable' = retain_enable
  /\ iflag' \in [Cpu -> BOOLEAN]
  /\ \A c \in Cpu : iflag'[c] => iflag[c]
  /\ from = "run" /\ Retained(f) => ~iflag'[CpuOf(f)]
  /\ IF Retained(f)
       THEN /\ retain_depth' = [retain_depth EXCEPT ![CpuOf(f)] = @ + e]
            /\ pairs' = [pairs EXCEPT ![CpuOf(f)] = @ + k]
       ELSE retain_depth' = retain_depth /\ pairs' = pairs

LEMMA NestingFacts ==
  /\ Nesting("absent") = 0 /\ Nesting("run") = 0
  /\ Nesting("r_try") = 1 /\ Nesting("w_pend") = 1 /\ Nesting("w_try") = 1
  /\ Nesting("r_in") = 2 /\ Nesting("reading") = 2 /\ Nesting("w_in") = 2
  /\ Nesting("w_unpend") = 2 /\ Nesting("writing") = 2
  /\ Nesting("r_rel") = 3 /\ Nesting("w_rel") = 3
BY DEF Nesting

LEMMA NestingNat == \A x \in Label : Nesting(x) \in Nat
BY NestingFacts DEF Label

\* Such a step preserves what is said of the retention.
LEMMA EffectKeeps ==
  ASSUME Retention, NEW f \in Frame, NEW from \in Label \ {"absent"}, NEW to \in Label \ {"absent"},
         NEW e \in Int, NEW k \in Nat, Effect(f, from, to, e, k),
         Nesting(to) = Nesting(from) + e - k
  PROVE  /\ FlagMeansRun' /\ HandlerFindsNoRwLock' /\ DepthCountsPairs'
         /\ pc' \in [Frame -> Label] /\ retain_depth' \in [Cpu -> Int] /\ pairs' \in [Cpu -> Nat]
<1> DEFINE d == CpuOf(f)
<1>1. /\ d \in Cpu /\ pc \in [Frame -> Label] /\ pc' = [pc EXCEPT ![f] = to] /\ pc[f] = from
      /\ retain_enable' = retain_enable /\ (f = HandlerOn(d) \/ pc[HandlerOn(d)] = "absent")
      /\ retain_depth \in [Cpu -> Int] /\ pairs \in [Cpu -> Nat]
      /\ Retained(f) <=> retain_enable[d]
  BY FrameFacts DEF Retention, Typed, Effect, Goto, Active, Retained
<1>2. /\ retain_enable[d] <=> pc[HandlerOn(d)] = "absent"
      /\ pc[HandlerOn(d)] # "absent" => pc[TaskOn(d)] = "run"
      /\ retain_depth[d] = pairs[d] + Nesting(pc[TaskOn(d)])
      /\ iflag[d] => pc[TaskOn(d)] = "run" /\ pc[HandlerOn(d)] = "absent"
      /\ pc[TaskOn(d)] # "absent"
  BY <1>1 DEF Retention, FlagMeansRun, HandlerFindsNoRwLock, DepthCountsPairs
<1>3. pc' \in [Frame -> Label]
  BY <1>1
<1>4. retain_depth' \in [Cpu -> Int] /\ pairs' \in [Cpu -> Nat]
  BY <1>1 DEF Effect
<1>5. \A c \in Cpu \ {d} :
         /\ pc'[TaskOn(c)] = pc[TaskOn(c)] /\ pc'[HandlerOn(c)] = pc[HandlerOn(c)]
         /\ retain_depth'[c] = retain_depth[c] /\ pairs'[c] = pairs[c]
         /\ iflag'[c] => iflag[c]
  BY <1>1, FrameFacts DEF Effect
<1>6. CASE f = HandlerOn(d)
  <2>1. /\ pc'[TaskOn(d)] = pc[TaskOn(d)] /\ pc[HandlerOn(d)] # "absent" /\ pc'[HandlerOn(d)] # "absent"
        /\ retain_depth'[d] = retain_depth[d] /\ pairs'[d] = pairs[d] /\ (iflag'[d] => iflag[d])
    BY <1>1, <1>2, <1>6, FrameFacts DEF Effect
  <2>2. FlagMeansRun'
    BY <1>1, <1>2, <1>5, <2>1 DEF Retention, FlagMeansRun
  <2>3. HandlerFindsNoRwLock'
    BY <1>1, <1>2, <1>5, <2>1 DEF Retention, HandlerFindsNoRwLock
  <2>4. DepthCountsPairs'
    BY <1>1, <1>2, <1>5, <2>1 DEF Retention, DepthCountsPairs
  <2> QED BY <1>3, <1>4, <2>2, <2>3, <2>4
<1>7. CASE f = TaskOn(d)
  <2>1. /\ pc[HandlerOn(d)] = "absent" /\ pc'[HandlerOn(d)] = "absent" /\ retain_enable[d]
        /\ pc[TaskOn(d)] = from /\ pc'[TaskOn(d)] = to
    BY <1>1, <1>2, <1>7, FrameFacts
  <2>2. retain_depth'[d] = retain_depth[d] + e /\ pairs'[d] = pairs[d] + k
    BY <1>1, <2>1 DEF Effect
  <2>3. ~iflag'[d]
    BY <1>1, <1>2, <2>1 DEF Effect
  <2>4. retain_depth'[d] = pairs'[d] + Nesting(to)
    BY <1>1, <1>2, <2>1, <2>2, NestingNat
  <2>5. FlagMeansRun'
    BY <1>1, <1>2, <1>5, <2>1, <2>3 DEF Retention, FlagMeansRun
  <2>6. HandlerFindsNoRwLock'
    BY <1>1, <1>5, <2>1 DEF Retention, HandlerFindsNoRwLock
  <2>7. DepthCountsPairs'
    BY <1>1, <1>5, <2>1, <2>4 DEF Retention, DepthCountsPairs
  <2> QED BY <1>3, <1>4, <2>5, <2>6, <2>7
<1> QED BY <1>6, <1>7, FrameFacts

\* The calls of embed_sync_enter and embed_sync_leave have such effects: one
\* that leaves never finds the depth so low that it sets the interrupt flag.
LEMMA EnterEffect ==
  ASSUME Retention, NEW f \in Frame, NEW from, NEW to,
         Goto(f, from, to), Enter(f, 1), pairs' = pairs
  PROVE  Effect(f, from, to, 1, 0)
<1>1. /\ CpuOf(f) \in Cpu /\ iflag \in [Cpu -> BOOLEAN] /\ pairs \in [Cpu -> Nat]
  BY FrameFacts DEF Retention, Typed
<1>2. pairs' = [pairs EXCEPT ![CpuOf(f)] = @ + 0]
  BY <1>1
<1> QED BY <1>1, <1>2 DEF Enter, Effect

LEMMA SameEffect ==
  ASSUME Retention, NEW f \in Frame, NEW from, NEW to, from # "run",
         Goto(f, from, to), UNCHANGED cpuState, pairs' = pairs
  PROVE  Effect(f, from, to, 0, 0)
<1>1. /\ CpuOf(f) \in Cpu /\ iflag \in [Cpu -> BOOLEAN] /\ pairs \in [Cpu -> Nat]
      /\ retain_depth \in [Cpu -> Int]
  BY FrameFacts DEF Retention, Typed
<1>2. /\ pairs' = [pairs EXCEPT ![CpuOf(f)] = @ + 0]
      /\ retain_depth' = [retain_depth EXCEPT ![CpuOf(f)] = @ + 0]
  BY <1>1 DEF cpuState
<1> QED BY <1>1, <1>2 DEF cpuState, Effect

LEMMA LeaveEffect ==
  ASSUME Retention, NEW f \in Frame, NEW from \in Label, NEW to, from # "run",
         NEW n \in Nat, Nesting(from) > n, NEW k \in Nat,
         Goto(f, from, to), Leave(f, n),
         pairs' = IF Retained(f) THEN [pairs EXCEPT ![CpuOf(f)] = @ + k] ELSE pairs
  PROVE  Effect(f, from, to, -n, k)
<1> DEFINE d == CpuOf(f)
<1>1. /\ d \in Cpu /\ iflag \in [Cpu -> BOOLEAN] /\ pairs \in [Cpu -> Nat]
      /\ retain_depth \in [Cpu -> Int] /\ pc[f] = from
      /\ f = TaskOn(d) \/ f = HandlerOn(d)
  BY FrameFacts DEF Retention, Typed, Goto
<1>2. from # "absent"
  BY NestingFacts
<1>3. Retained(f) => f = TaskOn(d)
  BY <1>1, <1>2 DEF Retention, FlagMeansRun, Retained
<1>4. Retained(f) => retain_depth[d] > n
  <2>1. retain_depth[d] = pairs[d] + Nesting(pc[TaskOn(d)])
    BY <1>1 DEF Retention, DepthCountsPairs
  <2>2. pairs[d] \in Nat /\ Nesting(from) \in Nat
    BY <1>1, NestingNat
  <2> QED BY <1>1, <1>3, <2>1, <2>2
<1>5. Retained(f) => iflag' = iflag
  BY <1>1, <1>4 DEF Leave
<1>6. iflag' = iflag
  BY <1>5 DEF Leave
<1>7. Retained(f) => retain_depth' = [retain_depth EXCEPT ![d] = @ + (-n)]
  BY <1>1 DEF Leave
<1> QED BY <1>1, <1>6, <1>7 DEF Leave, Effect

LEMMA RetentionRead ==
  ASSUME Retention, NEW f \in Frame, Read(f)
  PROVE  /\ FlagMeansRun' /\ HandlerFindsNoRwLock' /\ DepthCountsPairs'
         /\ pc' \in [Frame -> Label] /\ retain_depth' \in [Cpu -> Int] /\ pairs' \in [Cpu -> Nat]
<1>0. {"run", "r_try", "r_in", "reading", "r_rel", "w_pend", "w_try", "w_in", "w_unpend", "writing", "w_rel"}
        \subseteq Label \ {"absent"}
  BY DEF Label
<1>1. CASE rwlock_acquire_read(f)
  <2>1. Goto(f, "run", "r_try") /\ Enter(f, 1) /\ pairs' = pairs
    BY <1>1 DEF rwlock_acquire_read
  <2>2. Effect(f, "run", "r_try", 1, 0)
    BY <2>1, EnterEffect
  <2> QED BY <1>0, <2>2, EffectKeeps, NestingFacts
<1>2. CASE rwlock_try_acquire_read(f)
  <2>1. Goto(f, "r_try", "r_in") /\ Enter(f, 1) /\ pairs' = pairs
    BY <1>2 DEF rwlock_try_acquire_read, LockInner
  <2>2. Effect(f, "r_try", "r_in", 1, 0)
    BY <2>1, EnterEffect
  <2> QED BY <1>0, <2>2, EffectKeeps, NestingFacts
<1>3. CASE rwlock_try_acquire_read_ok(f)
  <2>1. Goto(f, "r_in", "reading") /\ UNCHANGED cpuState /\ pairs' = pairs
    BY <1>3 DEF rwlock_try_acquire_read_ok
  <2>2. Effect(f, "r_in", "reading", 0, 0)
    BY <2>1, SameEffect
  <2> QED BY <1>0, <2>2, EffectKeeps, NestingFacts
<1>4. CASE rwlock_try_acquire_read_busy(f)
  <2>1. Goto(f, "r_in", "r_try") /\ Leave(f, 1) /\ pairs' = pairs
    BY <1>4 DEF rwlock_try_acquire_read_busy
  <2>0. pairs' = IF Retained(f) THEN [pairs EXCEPT ![CpuOf(f)] = @ + 0] ELSE pairs
    BY <2>1, FrameFacts DEF Retention, Typed
  <2>2. Effect(f, "r_in", "r_try", -1, 0)
    BY <1>0, <2>0, <2>1, LeaveEffect, NestingFacts
  <2> QED BY <1>0, <2>2, EffectKeeps, NestingFacts
<1>5. CASE rwlock_release_read(f)
  <2>1. Goto(f, "reading", "r_rel") /\ Enter(f, 1) /\ pairs' = pairs
    BY <1>5 DEF rwlock_release_read, LockInner
  <2>2. Effect(f, "reading", "r_rel", 1, 0)
    BY <2>1, EnterEffect
  <2> QED BY <1>0, <2>2, EffectKeeps, NestingFacts
<1>6. CASE rwlock_release_read_end(f)
  <2>1. Goto(f, "r_rel", "run") /\ Leave(f, 2)
    BY <1>6 DEF rwlock_release_read_end
  <2>0. pairs' = IF Retained(f) THEN [pairs EXCEPT ![CpuOf(f)] = @ + 1] ELSE pairs
    BY <1>6 DEF rwlock_release_read_end, CountPair
  <2>2. Effect(f, "r_rel", "run", -2, 1)
    BY <1>0, <2>0, <2>1, LeaveEffect, NestingFacts
  <2> QED BY <1>0, <2>2, EffectKeeps, NestingFacts
<1> QED BY <1>1, <1>2, <1>3, <1>4, <1>5, <1>6 DEF Read

LEMMA RetentionWrite ==
  ASSUME Retention, NEW f \in Frame, Write(f)
  PROVE  /\ FlagMeansRun' /\ HandlerFindsNoRwLock' /\ DepthCountsPairs'
         /\ pc' \in [Frame -> Label] /\ retain_depth' \in [Cpu -> Int] /\ pairs' \in [Cpu -> Nat]
<1>0. {"run", "r_try", "r_in", "reading", "r_rel", "w_pend", "w_try", "w_in", "w_unpend", "writing", "w_rel"}
        \subseteq Label \ {"absent"}
  BY DEF Label
<1>1. CASE rwlock_acquire_write(f)
  <2>1. Goto(f, "run", "w_pend") /\ Enter(f, 1) /\ pairs' = pairs
    BY <1>1 DEF rwlock_acquire_write
  <2>2. Effect(f, "run", "w_pend", 1, 0)
    BY <2>1, EnterEffect
  <2> QED BY <1>0, <2>2, EffectKeeps, NestingFacts
<1>2. CASE rwlock_acquire_write_pending(f)
  <2>1. Goto(f, "w_pend", "w_try") /\ UNCHANGED cpuState /\ pairs' = pairs
    BY <1>2 DEF rwlock_acquire_write_pending
  <2>2. Effect(f, "w_pend", "w_try", 0, 0)
    BY <2>1, SameEffect
  <2> QED BY <1>0, <2>2, EffectKeeps, NestingFacts
<1>3. CASE rwlock_try_acquire_write(f)
  <2>1. Goto(f, "w_try", "w_in") /\ Enter(f, 1) /\ pairs' = pairs
    BY <1>3 DEF rwlock_try_acquire_write, LockInner
  <2>2. Effect(f, "w_try", "w_in", 1, 0)
    BY <2>1, EnterEffect
  <2> QED BY <1>0, <2>2, EffectKeeps, NestingFacts
<1>4. CASE rwlock_try_acquire_write_ok(f)
  <2>1. Goto(f, "w_in", "w_unpend") /\ UNCHANGED cpuState /\ pairs' = pairs
    BY <1>4 DEF rwlock_try_acquire_write_ok
  <2>2. Effect(f, "w_in", "w_unpend", 0, 0)
    BY <2>1, SameEffect
  <2> QED BY <1>0, <2>2, EffectKeeps, NestingFacts
<1>5. CASE rwlock_try_acquire_write_busy(f)
  <2>1. Goto(f, "w_in", "w_try") /\ Leave(f, 1) /\ pairs' = pairs
    BY <1>5 DEF rwlock_try_acquire_write_busy
  <2>0. pairs' = IF Retained(f) THEN [pairs EXCEPT ![CpuOf(f)] = @ + 0] ELSE pairs
    BY <2>1, FrameFacts DEF Retention, Typed
  <2>2. Effect(f, "w_in", "w_try", -1, 0)
    BY <1>0, <2>0, <2>1, LeaveEffect, NestingFacts
  <2> QED BY <1>0, <2>2, EffectKeeps, NestingFacts
<1>6. CASE rwlock_acquire_write_end(f)
  <2>1. Goto(f, "w_unpend", "writing") /\ UNCHANGED cpuState /\ pairs' = pairs
    BY <1>6 DEF rwlock_acquire_write_end
  <2>2. Effect(f, "w_unpend", "writing", 0, 0)
    BY <2>1, SameEffect
  <2> QED BY <1>0, <2>2, EffectKeeps, NestingFacts
<1>7. CASE rwlock_release_write(f)
  <2>1. Goto(f, "writing", "w_rel") /\ Enter(f, 1) /\ pairs' = pairs
    BY <1>7 DEF rwlock_release_write, LockInner
  <2>2. Effect(f, "writing", "w_rel", 1, 0)
    BY <2>1, EnterEffect
  <2> QED BY <1>0, <2>2, EffectKeeps, NestingFacts
<1>8. CASE rwlock_release_write_end(f)
  <2>1. Goto(f, "w_rel", "run") /\ Leave(f, 2)
    BY <1>8 DEF rwlock_release_write_end
  <2>0. pairs' = IF Retained(f) THEN [pairs EXCEPT ![CpuOf(f)] = @ + 1] ELSE pairs
    BY <1>8 DEF rwlock_release_write_end, CountPair
  <2>2. Effect(f, "w_rel", "run", -2, 1)
    BY <1>0, <2>0, <2>1, LeaveEffect, NestingFacts
  <2> QED BY <1>0, <2>2, EffectKeeps, NestingFacts
<1> QED BY <1>1, <1>2, <1>3, <1>4, <1>5, <1>6, <1>7, <1>8 DEF Write

-----------------------------------------------------------------------------
\* The counters, the spin lock and the flags keep their types.
LEMMA TypedFrame ==
  ASSUME Retention, NEW f \in Frame, Read(f) \/ Write(f)
  PROVE  /\ lock' \in BOOLEAN /\ readers' \in Int /\ writers' \in Int /\ pendings' \in Int
         /\ retain_enable' \in [Cpu -> BOOLEAN] /\ iflag' \in [Cpu -> BOOLEAN]
<1> USE DEF Retention, Typed, counters, cpuState, LockInner
<1>0. lock' = lock \/ lock' = TRUE \/ lock' = FALSE
  BY Zenon DEF Read, Write, rwlock_acquire_read, rwlock_try_acquire_read, rwlock_try_acquire_read_ok,
         rwlock_try_acquire_read_busy, rwlock_release_read, rwlock_release_read_end,
         rwlock_acquire_write, rwlock_acquire_write_pending, rwlock_try_acquire_write,
         rwlock_try_acquire_write_ok, rwlock_try_acquire_write_busy, rwlock_acquire_write_end,
         rwlock_release_write, rwlock_release_write_end
<1>1. readers' \in Int /\ writers' \in Int /\ pendings' \in Int
  BY DEF Read, Write, rwlock_acquire_read, rwlock_try_acquire_read, rwlock_try_acquire_read_ok,
         rwlock_try_acquire_read_busy, rwlock_release_read, rwlock_release_read_end,
         rwlock_acquire_write, rwlock_acquire_write_pending, rwlock_try_acquire_write,
         rwlock_try_acquire_write_ok, rwlock_try_acquire_write_busy, rwlock_acquire_write_end,
         rwlock_release_write, rwlock_release_write_end
<1>2. \/ Enter(f, 1) \/ Leave(f, 1) \/ Leave(f, 2) \/ UNCHANGED cpuState
  BY DEF Read, Write, rwlock_acquire_read, rwlock_try_acquire_read, rwlock_try_acquire_read_ok,
         rwlock_try_acquire_read_busy, rwlock_release_read, rwlock_release_read_end,
         rwlock_acquire_write, rwlock_acquire_write_pending, rwlock_try_acquire_write,
         rwlock_try_acquire_write_ok, rwlock_try_acquire_write_busy, rwlock_acquire_write_end,
         rwlock_release_write, rwlock_release_write_end
<1>3. retain_enable' = retain_enable /\ iflag' \in [Cpu -> BOOLEAN]
  BY <1>2, FrameFacts DEF Enter, Leave
<1>4. lock' \in BOOLEAN
  BY <1>0
<1> QED BY <1>1, <1>3, <1>4

\* The steps of a CPU that are not those of a frame: none of them enters or
\* leaves one of the sets that the counters stand for.
LEMMA CpuStep ==
  ASSUME IInv, NEW c \in Cpu, SyscallSti(c) \/ cpu_begin_interrupt(c) \/ cpu_end_interrupt(c)
  PROVE  IInv'
<1> USE DEF IInv, Retention
<1>1. /\ TaskOn(c) \in Frame /\ HandlerOn(c) \in Frame /\ TaskOn(c) # HandlerOn(c)
      /\ pc \in [Frame -> Label]
  BY FrameFacts DEF Typed
<1>2. /\ lock' = lock /\ readers' = readers /\ writers' = writers /\ pendings' = pendings
      /\ retain_depth' = retain_depth /\ pairs' = pairs
  BY DEF SyscallSti, cpu_begin_interrupt, cpu_end_interrupt, counters
<1>3. \/ pc' = pc
      \/ /\ pc[HandlerOn(c)] \in {"absent", "run"}
         /\ \E x \in {"absent", "run"} : pc' = [pc EXCEPT ![HandlerOn(c)] = x]
  BY DEF SyscallSti, cpu_begin_interrupt, cpu_end_interrupt
<1>4. /\ In(pc', RLabels) = In(pc, RLabels) /\ In(pc', WLabels) = In(pc, WLabels)
      /\ In(pc', PLabels) = In(pc, PLabels)
  BY <1>1, <1>3 DEF In, RLabels, WLabels, PLabels
<1>5. WriterExcludes'
  BY <1>2, <1>4, ExclIs, ExclIsNext
<1>6. Typed'
  BY <1>1, <1>2 DEF Typed, SyscallSti, cpu_begin_interrupt, cpu_end_interrupt, Label
<1>7. \A d \in Cpu : /\ TaskOn(d) \in Frame /\ HandlerOn(d) \in Frame /\ TaskOn(d) # HandlerOn(c)
                     /\ d # c => HandlerOn(d) # HandlerOn(c)
  BY FrameFacts DEF TaskOn, HandlerOn
<1>8. \A d \in Cpu : pc'[TaskOn(d)] = pc[TaskOn(d)]
  BY <1>1, <1>3, <1>7
<1>9. DepthCountsPairs'
  BY <1>2, <1>8 DEF DepthCountsPairs
<1>10. CASE SyscallSti(c)
  <2>1. /\ pc' = pc /\ retain_enable' = retain_enable
        /\ pc[TaskOn(c)] = "run" /\ pc[HandlerOn(c)] = "absent"
        /\ iflag' = [iflag EXCEPT ![c] = TRUE]
    BY <1>10 DEF SyscallSti
  <2>2. FlagMeansRun' /\ HandlerFindsNoRwLock'
    BY <2>1 DEF FlagMeansRun, HandlerFindsNoRwLock, Typed
  <2> QED BY <1>5, <1>6, <1>9, <2>2
<1>11. CASE cpu_begin_interrupt(c)
  <2>1. /\ pc' = [pc EXCEPT ![HandlerOn(c)] = "run"] /\ iflag[c]
        /\ iflag' = [iflag EXCEPT ![c] = FALSE]
        /\ retain_enable' = [retain_enable EXCEPT ![c] = FALSE]
    BY <1>11 DEF cpu_begin_interrupt
  <2>2. FlagMeansRun'
    BY <1>1, <1>7, <1>8, <2>1 DEF FlagMeansRun, Typed
  <2>3. HandlerFindsNoRwLock'
    BY <1>1, <1>7, <1>8, <2>1 DEF FlagMeansRun, HandlerFindsNoRwLock
  <2> QED BY <1>5, <1>6, <1>9, <2>2, <2>3
<1>12. CASE cpu_end_interrupt(c)
  <2>1. /\ pc' = [pc EXCEPT ![HandlerOn(c)] = "absent"] /\ pc[HandlerOn(c)] = "run"
        /\ iflag' = [iflag EXCEPT ![c] = TRUE]
        /\ retain_enable' = [retain_enable EXCEPT ![c] = TRUE]
    BY <1>12 DEF cpu_end_interrupt
  <2>2. pc[TaskOn(c)] = "run"
    BY <2>1 DEF HandlerFindsNoRwLock
  <2>3. FlagMeansRun'
    BY <1>1, <1>7, <1>8, <2>1, <2>2 DEF FlagMeansRun, Typed
  <2>4. HandlerFindsNoRwLock'
    BY <1>1, <1>7, <1>8, <2>1 DEF HandlerFindsNoRwLock
  <2> QED BY <1>5, <1>6, <1>9, <2>3, <2>4
<1> QED BY <1>10, <1>11, <1>12

LEMMA Initially == Init => IInv
<1> SUFFICES ASSUME Init PROVE IInv
  OBVIOUS
<1>1. /\ pc = [f \in Frame |-> IF f = TaskOn(CpuOf(f)) THEN "run" ELSE "absent"]
      /\ readers = 0 /\ writers = 0 /\ pendings = 0
      /\ retain_enable = [c \in Cpu |-> TRUE] /\ retain_depth = [c \in Cpu |-> 0]
      /\ pairs = [c \in Cpu |-> 0]
  BY DEF Init
<1>2. Typed
  <2>1. lock \in BOOLEAN
    BY DEF Init
  <2>2. pc \in [Frame -> Label]
    BY <1>1 DEF Label
  <2>3. iflag \in [Cpu -> BOOLEAN] /\ retain_enable \in [Cpu -> BOOLEAN]
    BY DEF Init
  <2> QED BY <1>1, <2>1, <2>2, <2>3 DEF Typed
<1>3. \A c \in Cpu : pc[TaskOn(c)] = "run" /\ pc[HandlerOn(c)] = "absent"
  BY <1>1, FrameFacts
<1>4. FlagMeansRun /\ HandlerFindsNoRwLock
  BY <1>1, <1>3 DEF FlagMeansRun, HandlerFindsNoRwLock
<1>5. DepthCountsPairs
  BY <1>1, <1>3, NestingFacts DEF DepthCountsPairs
<1>6. In(pc, RLabels) = {} /\ In(pc, WLabels) = {} /\ In(pc, PLabels) = {}
  BY <1>1 DEF In, RLabels, WLabels, PLabels
<1>7. Cardinality({}) = 0
  BY FS_EmptySet
<1>8. WriterExcludes
  BY <1>1, <1>6, <1>7, ExclIs DEF Excl
<1> QED BY <1>2, <1>4, <1>5, <1>8 DEF IInv, Retention

LEMMA Inductive == IInv /\ [Next]_vars => IInv'
<1> SUFFICES ASSUME IInv, [Next]_vars PROVE IInv'
  OBVIOUS
<1>1. Retention /\ Typed /\ WriterExcludes
  BY DEF IInv, Retention
<1>2. ASSUME NEW f \in Frame, Read(f) PROVE IInv'
  BY <1>1, <1>2, TypedFrame, RetentionRead, ExclRead DEF IInv, Retention, Typed
<1>3. ASSUME NEW f \in Frame, Write(f) PROVE IInv'
  BY <1>1, <1>3, TypedFrame, RetentionWrite, ExclWrite DEF IInv, Retention, Typed
<1>4. ASSUME NEW c \in Cpu, SyscallSti(c) \/ cpu_begin_interrupt(c) \/ cpu_end_interrupt(c)
      PROVE  IInv'
  BY <1>4, CpuStep
<1>5. CASE UNCHANGED vars
  BY <1>5 DEF vars, counters, cpuState, IInv, Retention, Typed, FlagMeansRun, HandlerFindsNoRwLock,
              DepthCountsPairs, WriterExcludes, Readers, Writers, At
<1> QED BY <1>2, <1>3, <1>4, <1>5 DEF Next

\* For any finite set of CPUs: a writer is alone and the counters are exactly
\* the frames inside and waiting, no handler runs on top of code that is in the
\* lock, and every completed pair leaves the retention depth one higher
\* (rwlock.c with cpu.c:26-46).
THEOREM RwLockSafe == Spec => [](WriterExcludes /\ HandlerFindsNoRwLock /\ DepthCountsPairs)
<1>1. IInv => WriterExcludes /\ HandlerFindsNoRwLock /\ DepthCountsPairs
  BY DEF IInv, Retention
<1> QED BY <1>1, Initially, Inductive, PTL DEF Spec
=============================================================================
