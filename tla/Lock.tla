-------------------------------- MODULE Lock --------------------------------
(***************************************************************************)
(* The spin locks of libs/brutal-sync/lock.c, used by the kernel, and the   *)
(* interrupt retention of kernel/cpu.c that embed/kernel/sync.c calls       *)
(* around them.                                                             *)
(*                                                                          *)
(* A frame is a call stack: every CPU has one for the code of its current   *)
(* task and one for the interrupt handler that may be running on top of it. *)
(* Both take the same locks (the timer handler runs the scheduler, every    *)
(* IRQ handler sends on a channel), so a lock held by the code below the    *)
(* handler would be waited for forever.                                     *)
(***************************************************************************)
EXTENDS Integers, FiniteSets

CONSTANTS Cpu,      \* the processors
          Locks,    \* the locks, numbered in the order the kernel nests them
          MaxDepth  \* how many locks one frame holds at most

ASSUME LockAssumption == /\ IsFiniteSet(Locks)
                         /\ Locks \subseteq Nat
                         /\ MaxDepth \in Nat

VARIABLES locked,         \* Lock.locked, for every lock
          pc,             \* where each frame is
          want,           \* the lock the frame is acquiring or releasing
          held,           \* ghost: the locks the frame has acquired
          iflag,          \* the interrupt flag of the CPU
          retain_enable,  \* Cpu.retain_enable
          retain_depth    \* Cpu.retain_depth

vars == <<locked, pc, want, held, iflag, retain_enable, retain_depth>>

Frame == Cpu \X {"task", "irq"}

TaskOn(c) == <<c, "task">>

HandlerOn(c) == <<c, "irq">>

CpuOf(f) == f[1]

NoLock == -1

(***************************************************************************)
(* "absent" is the handler frame of a CPU that is not in a handler, "run"   *)
(* is outside lock.c, "spin" the loop of lock_acquire, "try" the exchange   *)
(* of lock_try_acquire, "leave" the end of lock_release.                    *)
(***************************************************************************)
Label == {"absent", "run", "spin", "try", "leave"}

(***************************************************************************)
(* Every variable has its type: a frame is at one label of lock.c and the   *)
(* retention depth of kernel/cpu.c never goes below zero.                   *)
(***************************************************************************)
TypeOK ==
  /\ locked \in [Locks -> BOOLEAN]
  /\ pc \in [Frame -> Label]
  /\ want \in [Frame -> Locks \union {NoLock}]
  /\ held \in [Frame -> SUBSET Locks]
  /\ iflag \in [Cpu -> BOOLEAN]
  /\ retain_enable \in [Cpu -> BOOLEAN]
  /\ retain_depth \in [Cpu -> Nat]

Init ==
  /\ locked = [l \in Locks |-> FALSE]
  /\ pc = [f \in Frame |-> IF f = TaskOn(CpuOf(f)) THEN "run" ELSE "absent"]
  /\ want = [f \in Frame |-> NoLock]
  /\ held = [f \in Frame |-> {}]
  /\ iflag = [c \in Cpu |-> TRUE]
  /\ retain_enable = [c \in Cpu |-> TRUE]
  /\ retain_depth = [c \in Cpu |-> 0]

-----------------------------------------------------------------------------
\* The frame the CPU executes: the handler's, as soon as there is one.
Active(f) == f = HandlerOn(CpuOf(f)) \/ pc[HandlerOn(CpuOf(f))] = "absent"

cpu_retain_interrupts(c) ==
  /\ UNCHANGED retain_enable
  /\ IF retain_enable[c]
       THEN /\ iflag' = [iflag EXCEPT ![c] = FALSE]
            /\ retain_depth' = [retain_depth EXCEPT ![c] = @ + 1]
       ELSE UNCHANGED <<iflag, retain_depth>>

\* A mutation: the interrupts come back with the first lock released.
cpu_release_interrupts_eager(c) ==
  /\ UNCHANGED retain_enable
  /\ IF retain_enable[c]
       THEN /\ retain_depth' = [retain_depth EXCEPT ![c] = @ - 1]
            /\ iflag' = [iflag EXCEPT ![c] = TRUE]
       ELSE UNCHANGED <<iflag, retain_depth>>

cpu_release_interrupts(c) ==
  /\ UNCHANGED retain_enable
  /\ IF retain_enable[c]
       THEN /\ retain_depth' = [retain_depth EXCEPT ![c] = @ - 1]
            /\ iflag' = IF retain_depth[c] = 1 THEN [iflag EXCEPT ![c] = TRUE] ELSE iflag
       ELSE UNCHANGED <<iflag, retain_depth>>

embed_sync_enter(f) == cpu_retain_interrupts(CpuOf(f))

embed_sync_leave(f) == cpu_release_interrupts(CpuOf(f))

Goto(f, label, l) ==
  /\ pc' = [pc EXCEPT ![f] = label]
  /\ want' = [want EXCEPT ![f] = l]

(***************************************************************************)
(* lock_acquire: interrupts are retained first, then the exchange is tried  *)
(* until it succeeds.                                                       *)
(***************************************************************************)
lock_acquire(f, l) ==
  /\ Active(f)
  /\ pc[f] = "run"
  /\ Cardinality(held[f]) < MaxDepth
  /\ \A h \in held[f] : h < l
  /\ embed_sync_enter(f)
  /\ Goto(f, "spin", l)
  /\ UNCHANGED <<locked, held>>

\* A mutation: the lock word is written without looking at it.
lock_try_acquire_impl_blind(f) ==
  /\ locked' = [locked EXCEPT ![want[f]] = TRUE]
  /\ held' = [held EXCEPT ![f] = @ \union {want[f]}]

lock_try_acquire_impl(f) ==
  /\ ~locked[want[f]]
  /\ locked' = [locked EXCEPT ![want[f]] = TRUE]
  /\ held' = [held EXCEPT ![f] = @ \union {want[f]}]

lock_acquire_spin(f) ==
  /\ Active(f)
  /\ pc[f] = "spin"
  /\ lock_try_acquire_impl(f)
  /\ Goto(f, "run", NoLock)
  /\ UNCHANGED <<iflag, retain_enable, retain_depth>>

(***************************************************************************)
(* lock_try_acquire: one exchange; a failure gives the retention back.  A   *)
(* frame may try a lock in any order, even one that it holds itself.        *)
(***************************************************************************)
lock_try_acquire(f, l) ==
  /\ Active(f)
  /\ pc[f] = "run"
  /\ Cardinality(held[f]) < MaxDepth
  /\ embed_sync_enter(f)
  /\ Goto(f, "try", l)
  /\ UNCHANGED <<locked, held>>

lock_try_acquire_taken(f) ==
  /\ Active(f)
  /\ pc[f] = "try"
  /\ lock_try_acquire_impl(f)
  /\ Goto(f, "run", NoLock)
  /\ UNCHANGED <<iflag, retain_enable, retain_depth>>

lock_try_acquire_failed(f) ==
  /\ Active(f)
  /\ pc[f] = "try"
  /\ locked[want[f]]
  /\ embed_sync_leave(f)
  /\ Goto(f, "run", NoLock)
  /\ UNCHANGED <<locked, held>>

\* A mutation: the lock word is left set.
lock_release_unwritten(f, l) ==
  /\ Active(f)
  /\ pc[f] = "run"
  /\ l \in held[f]
  /\ held' = [held EXCEPT ![f] = @ \ {l}]
  /\ Goto(f, "leave", l)
  /\ UNCHANGED <<locked, iflag, retain_enable, retain_depth>>

\* lock_release writes the word, and only then gives the retention back.
lock_release(f, l) ==
  /\ Active(f)
  /\ pc[f] = "run"
  /\ l \in held[f]
  /\ locked' = [locked EXCEPT ![l] = FALSE]
  /\ held' = [held EXCEPT ![f] = @ \ {l}]
  /\ Goto(f, "leave", l)
  /\ UNCHANGED <<iflag, retain_enable, retain_depth>>

lock_release_leave(f) ==
  /\ Active(f)
  /\ pc[f] = "leave"
  /\ embed_sync_leave(f)
  /\ Goto(f, "run", NoLock)
  /\ UNCHANGED <<locked, held>>

(***************************************************************************)
(* interrupt_handler: the processor clears the interrupt flag when it       *)
(* enters the gate and iretq restores it; the handler brackets its work     *)
(* with cpu_begin_interrupt and cpu_end_interrupt, between which taking a   *)
(* lock changes neither the depth nor the flag.                             *)
(***************************************************************************)
cpu_begin_interrupt(c) ==
  /\ iflag[c]
  /\ pc[HandlerOn(c)] = "absent"
  /\ pc' = [pc EXCEPT ![HandlerOn(c)] = "run"]
  /\ iflag' = [iflag EXCEPT ![c] = FALSE]
  /\ retain_enable' = [retain_enable EXCEPT ![c] = FALSE]
  /\ UNCHANGED <<locked, want, held, retain_depth>>

cpu_end_interrupt(c) ==
  /\ pc[HandlerOn(c)] = "run"
  /\ held[HandlerOn(c)] = {}
  /\ pc' = [pc EXCEPT ![HandlerOn(c)] = "absent"]
  /\ iflag' = [iflag EXCEPT ![c] = TRUE]
  /\ retain_enable' = [retain_enable EXCEPT ![c] = TRUE]
  /\ UNCHANGED <<locked, want, held, retain_depth>>

Step(f) ==
  \/ \E l \in Locks : lock_acquire(f, l) \/ lock_try_acquire(f, l) \/ lock_release(f, l)
  \/ lock_acquire_spin(f)
  \/ lock_try_acquire_taken(f)
  \/ lock_try_acquire_failed(f)
  \/ lock_release_leave(f)

Next ==
  \/ \E f \in Frame : Step(f)
  \/ \E c \in Cpu : cpu_begin_interrupt(c) \/ cpu_end_interrupt(c)

Spec == Init /\ [][Next]_vars
-----------------------------------------------------------------------------
(***************************************************************************)
(* Properties                                                               *)
(***************************************************************************)

(***************************************************************************)
(* Two frames never hold the same lock (lock.c:5-13): neither two CPUs, nor *)
(* a handler and the code that it interrupted.                              *)
(***************************************************************************)
MutualExclusion ==
  \A f, g \in Frame : f # g => held[f] \intersect held[g] = {}

(***************************************************************************)
(* A handler never runs on top of code that holds or is taking a lock       *)
(* (cpu.c:26-46): spinning in the handler for a lock held by the frame      *)
(* below it would hang the CPU.                                             *)
(***************************************************************************)
HandlerFindsNoLock ==
  \A c \in Cpu :
    pc[HandlerOn(c)] # "absent" => pc[TaskOn(c)] = "run" /\ held[TaskOn(c)] = {}

(***************************************************************************)
(* The depth is the number of retentions not yet given back: one for each   *)
(* lock held and one for the call in progress, whichever of the paths of    *)
(* lock.c the frame took.                                                   *)
(***************************************************************************)
DepthCountsLocks ==
  \A c \in Cpu :
    retain_depth[c] = Cardinality(held[TaskOn(c)])
                      + IF pc[TaskOn(c)] = "run" THEN 0 ELSE 1

(***************************************************************************)
(* assert_truth(retain_enable) of cpu_begin_interrupt (cpu.c:6) holds       *)
(* whenever an interrupt can be taken.                                      *)
(***************************************************************************)
BeginInterruptAssert ==
  \A c \in Cpu : iflag[c] => retain_enable[c]
=============================================================================
