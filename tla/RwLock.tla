------------------------------- MODULE RwLock -------------------------------
(***************************************************************************)
(* The readers-writer lock of libs/brutal-sync/rwlock.c, as the kernel's    *)
(* object, domain and event tables use it: by the code of the current task  *)
(* of each CPU and, for reading, by the interrupt handler on top of it      *)
(* (event_trigger).  A frame is one of the two.                             *)
(*                                                                          *)
(* The lock is built from a spin lock that guards the counters, an atomic   *)
(* count of the writers that wait, and the interrupt retention of           *)
(* kernel/cpu.c.  In user programs the embed layer retains nothing, and     *)
(* only the counters are left of this.                                      *)
(***************************************************************************)
EXTENDS Integers, FiniteSets

CONSTANTS Cpu,       \* the processors
          MaxPairs   \* acquire/release pairs of the task code of one CPU

ASSUME RwLockAssumption == /\ IsFiniteSet(Cpu)
                           /\ MaxPairs \in Nat

VARIABLES lock,           \* RwLock.lock is taken
          pendings,       \* RwLock.pendings
          readers,        \* RwLock.readers
          writers,        \* RwLock.writers
          pc,             \* where each frame is
          iflag,          \* the interrupt flag of the CPU
          retain_enable,  \* Cpu.retain_enable
          retain_depth,   \* Cpu.retain_depth
          pairs           \* ghost: pairs completed by the task code, when they are counted

counters == <<pendings, readers, writers>>
cpuState == <<iflag, retain_enable, retain_depth>>
vars == <<lock, counters, pc, cpuState, pairs>>

Frame == Cpu \X {"task", "irq"}

TaskOn(c) == <<c, "task">>

HandlerOn(c) == <<c, "irq">>

CpuOf(f) == f[1]

(***************************************************************************)
(* "absent": no handler runs; "run": outside the lock.  "r_try", "w_try":   *)
(* before lock_acquire(&self->lock) in the try functions; "r_in", "w_in":   *)
(* inside it.  "w_pend", "w_unpend": before pendings++ and pendings--.      *)
(* "reading", "writing": the critical sections.  "r_rel", "w_rel": in the   *)
(* release functions, with the spin lock.                                   *)
(***************************************************************************)
Label == {"absent", "run", "r_try", "r_in", "reading", "r_rel",
          "w_pend", "w_try", "w_in", "w_unpend", "writing", "w_rel"}

At(S) == {f \in Frame : pc[f] \in S}

Init ==
  /\ lock = FALSE
  /\ pendings = 0
  /\ readers = 0
  /\ writers = 0
  /\ pc = [f \in Frame |-> IF f = TaskOn(CpuOf(f)) THEN "run" ELSE "absent"]
  /\ iflag = [c \in Cpu |-> TRUE]
  /\ retain_enable = [c \in Cpu |-> TRUE]
  /\ retain_depth = [c \in Cpu |-> 0]
  /\ pairs = [c \in Cpu |-> 0]

-----------------------------------------------------------------------------
\* The handler's frame runs as soon as there is one.
Active(f) == f = HandlerOn(CpuOf(f)) \/ pc[HandlerOn(CpuOf(f))] = "absent"

Retained(f) == retain_enable[CpuOf(f)]

\* n calls of embed_sync_enter.
Enter(f, n) ==
  /\ UNCHANGED retain_enable
  /\ IF Retained(f)
       THEN /\ iflag' = [iflag EXCEPT ![CpuOf(f)] = FALSE]
            /\ retain_depth' = [retain_depth EXCEPT ![CpuOf(f)] = @ + n]
       ELSE UNCHANGED <<iflag, retain_depth>>

\* A mutation: the first release gives the interrupts back.
Leave_eager(f, n) ==
  /\ UNCHANGED retain_enable
  /\ IF Retained(f)
       THEN /\ retain_depth' = [retain_depth EXCEPT ![CpuOf(f)] = @ - n]
            /\ iflag' = [iflag EXCEPT ![CpuOf(f)] = TRUE]
       ELSE UNCHANGED <<iflag, retain_depth>>

\* n calls of embed_sync_leave: one of them may find the depth at 0.
Leave(f, n) ==
  /\ UNCHANGED retain_enable
  /\ IF Retained(f)
       THEN /\ retain_depth' = [retain_depth EXCEPT ![CpuOf(f)] = @ - n]
            /\ iflag' = IF retain_depth[CpuOf(f)] \in 1 .. n
                          THEN [iflag EXCEPT ![CpuOf(f)] = TRUE]
                          ELSE iflag
       ELSE UNCHANGED <<iflag, retain_depth>>

Goto(f, from, to) ==
  /\ Active(f)
  /\ pc[f] = from
  /\ pc' = [pc EXCEPT ![f] = to]

\* LOCK_RETAINER(&self->lock), on the way into a try or a release function.
LockInner(f, from, to) ==
  /\ Goto(f, from, to)
  /\ ~lock
  /\ lock' = TRUE
  /\ Enter(f, 1)
  /\ UNCHANGED <<counters, pairs>>
-----------------------------------------------------------------------------
rwlock_acquire_read(f) ==
  /\ Goto(f, "run", "r_try")
  /\ (f = TaskOn(CpuOf(f)) => pairs[CpuOf(f)] < MaxPairs)
  /\ Enter(f, 1)
  /\ UNCHANGED <<lock, counters, pairs>>

rwlock_try_acquire_read(f) == LockInner(f, "r_try", "r_in")

\* A mutation: a reader does not wait for the writers that wait.
rwlock_try_acquire_read_ok_first(f) ==
  /\ Goto(f, "r_in", "reading")
  /\ writers = 0
  /\ readers' = readers + 1
  /\ lock' = FALSE
  /\ UNCHANGED <<pendings, writers, cpuState, pairs>>

\* The retention taken here and the one the spin lock gives back cancel out.
rwlock_try_acquire_read_ok(f) ==
  /\ Goto(f, "r_in", "reading")
  /\ pendings = 0
  /\ writers = 0
  /\ readers' = readers + 1
  /\ lock' = FALSE
  /\ UNCHANGED <<pendings, writers, cpuState, pairs>>

rwlock_try_acquire_read_busy(f) ==
  /\ Goto(f, "r_in", "r_try")
  /\ pendings # 0 \/ writers # 0
  /\ lock' = FALSE
  /\ Leave(f, 1)
  /\ UNCHANGED <<counters, pairs>>

rwlock_release_read(f) == LockInner(f, "reading", "r_rel")

\* The ghost counts the pairs that leave a retention behind.
CountPair(f) ==
  pairs' = IF Retained(f) THEN [pairs EXCEPT ![CpuOf(f)] = @ + 1] ELSE pairs

rwlock_release_read_end(f) ==
  /\ Goto(f, "r_rel", "run")
  /\ readers' = readers - 1
  /\ lock' = FALSE
  /\ Leave(f, 2)
  /\ CountPair(f)
  /\ UNCHANGED <<pendings, writers>>

\* The waiting writer shows in pendings after its interrupts are retained.
rwlock_acquire_write(f) ==
  /\ f = TaskOn(CpuOf(f))
  /\ Goto(f, "run", "w_pend")
  /\ pairs[CpuOf(f)] < MaxPairs
  /\ Enter(f, 1)
  /\ UNCHANGED <<lock, counters, pairs>>

rwlock_acquire_write_pending(f) ==
  /\ Goto(f, "w_pend", "w_try")
  /\ pendings' = pendings + 1
  /\ UNCHANGED <<lock, readers, writers, cpuState, pairs>>

rwlock_try_acquire_write(f) == LockInner(f, "w_try", "w_in")

\* A mutation: a writer does not wait for the readers.
rwlock_try_acquire_write_ok_over(f) ==
  /\ Goto(f, "w_in", "w_unpend")
  /\ writers = 0
  /\ writers' = writers + 1
  /\ lock' = FALSE
  /\ UNCHANGED <<pendings, readers, cpuState, pairs>>

rwlock_try_acquire_write_ok(f) ==
  /\ Goto(f, "w_in", "w_unpend")
  /\ readers = 0
  /\ writers = 0
  /\ writers' = writers + 1
  /\ lock' = FALSE
  /\ UNCHANGED <<pendings, readers, cpuState, pairs>>

rwlock_try_acquire_write_busy(f) ==
  /\ Goto(f, "w_in", "w_try")
  /\ readers # 0 \/ writers # 0
  /\ lock' = FALSE
  /\ Leave(f, 1)
  /\ UNCHANGED <<counters, pairs>>

rwlock_acquire_write_end(f) ==
  /\ Goto(f, "w_unpend", "writing")
  /\ pendings' = pendings - 1
  /\ UNCHANGED <<lock, readers, writers, cpuState, pairs>>

rwlock_release_write(f) == LockInner(f, "writing", "w_rel")

\* A mutation: the release gives back one retention too many.
rwlock_release_write_end_twice(f) ==
  /\ Goto(f, "w_rel", "run")
  /\ writers' = writers - 1
  /\ lock' = FALSE
  /\ Leave(f, 3)
  /\ CountPair(f)
  /\ UNCHANGED <<pendings, readers>>

rwlock_release_write_end(f) ==
  /\ Goto(f, "w_rel", "run")
  /\ writers' = writers - 1
  /\ lock' = FALSE
  /\ Leave(f, 2)
  /\ CountPair(f)
  /\ UNCHANGED <<pendings, readers>>

(***************************************************************************)
(* The retention that a pair leaves behind keeps the interrupt flag off;    *)
(* what sets it again is the sti of the next system call.                   *)
(***************************************************************************)
SyscallSti(c) ==
  /\ pc[HandlerOn(c)] = "absent"
  /\ pc[TaskOn(c)] = "run"
  /\ ~iflag[c]
  /\ iflag' = [iflag EXCEPT ![c] = TRUE]
  /\ UNCHANGED <<lock, counters, pc, retain_enable, retain_depth, pairs>>

cpu_begin_interrupt(c) ==
  /\ iflag[c]
  /\ pc[HandlerOn(c)] = "absent"
  /\ pc' = [pc EXCEPT ![HandlerOn(c)] = "run"]
  /\ iflag' = [iflag EXCEPT ![c] = FALSE]
  /\ retain_enable' = [retain_enable EXCEPT ![c] = FALSE]
  /\ UNCHANGED <<lock, counters, retain_depth, pairs>>

cpu_end_interrupt(c) ==
  /\ pc[HandlerOn(c)] = "run"
  /\ pc' = [pc EXCEPT ![HandlerOn(c)] = "absent"]
  /\ iflag' = [iflag EXCEPT ![c] = TRUE]
  /\ retain_enable' = [retain_enable EXCEPT ![c] = TRUE]
  /\ UNCHANGED <<lock, counters, retain_depth, pairs>>

Read(f) ==
  \/ rwlock_acquire_read(f)
  \/ rwlock_try_acquire_read(f)
  \/ rwlock_try_acquire_read_ok(f)
  \/ rwlock_try_acquire_read_busy(f)
  \/ rwlock_release_read(f)
  \/ rwlock_release_read_end(f)

Write(f) ==
  \/ rwlock_acquire_write(f)
  \/ rwlock_acquire_write_pending(f)
  \/ rwlock_try_acquire_write(f)
  \/ rwlock_try_acquire_write_ok(f)
  \/ rwlock_try_acquire_write_busy(f)
  \/ rwlock_acquire_write_end(f)
  \/ rwlock_release_write(f)
  \/ rwlock_release_write_end(f)

Next ==
  \/ \E f \in Frame : Read(f) \/ Write(f)
  \/ \E c \in Cpu : SyscallSti(c) \/ cpu_begin_interrupt(c) \/ cpu_end_interrupt(c)

Spec == Init /\ [][Next]_vars
-----------------------------------------------------------------------------
(***************************************************************************)
(* Properties                                                               *)
(***************************************************************************)

\* The frames that the two counters stand for.
Readers == At({"reading", "r_rel"})

Writers == At({"w_unpend", "writing", "w_rel"})

(***************************************************************************)
(* A frame that writes is alone (rwlock.c:19-38, 66-84): no other writer,   *)
(* no reader, not even a handler on a third CPU.  The counters are exactly  *)
(* the frames inside and those that wait, so the assertions of the two      *)
(* release functions (rwlock.c:44, 90) hold whenever they are evaluated.    *)
(***************************************************************************)
WriterExcludes ==
  /\ \A f \in Writers : Readers \union Writers = {f}
  /\ readers = Cardinality(Readers)
  /\ writers = Cardinality(Writers)
  /\ pendings = Cardinality(At({"w_try", "w_in", "w_unpend"}))

(***************************************************************************)
(* An interrupt handler never runs on top of code that is anywhere between  *)
(* the first line of an acquire and the last of its release: the reader in  *)
(* event_trigger (event.c:105) would wait for the code below it.            *)
(***************************************************************************)
HandlerFindsNoRwLock ==
  \A c \in Cpu : pc[HandlerOn(c)] # "absent" => pc[TaskOn(c)] = "run"

\* The retentions of a frame that are not yet given back.
Nesting(label) ==
  CASE label \in {"absent", "run"} -> 0
    [] label \in {"r_try", "w_pend", "w_try"} -> 1
    [] label \in {"r_in", "reading", "w_in", "w_unpend", "writing"} -> 2
    [] label \in {"r_rel", "w_rel"} -> 3

(***************************************************************************)
(* The retention depth of a CPU (cpu.c:26-46) is what the frame has open    *)
(* plus one for every pair it has completed: acquire enters twice           *)
(* (rwlock.c:8 and 35, 51 and 82), release leaves once.  The depth grows    *)
(* with the history and never returns to 0.                                 *)
(***************************************************************************)
DepthCountsPairs ==
  \A c \in Cpu :
    retain_depth[c] = pairs[c] + Nesting(pc[TaskOn(c)])
=============================================================================
