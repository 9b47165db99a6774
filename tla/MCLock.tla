------------------------------- MODULE MCLock -------------------------------
(***************************************************************************)
(* Two CPUs and two nested locks (sched.c's _lock around a channel's).      *)
(***************************************************************************)
EXTENDS Lock

Locks2 == 1 .. 2

(***************************************************************************)
(* Every CPU keeps executing, and the exchange of lock_acquire is retried   *)
(* for ever, so an acquisition that is possible again and again succeeds.   *)
(* Nothing obliges a frame to start an acquisition or an IRQ to arrive.     *)
(***************************************************************************)
Fairness ==
  /\ \A f \in Frame :
       /\ SF_vars(lock_acquire_spin(f))
       /\ WF_vars(lock_try_acquire_taken(f) \/ lock_try_acquire_failed(f))
       /\ WF_vars(lock_release_leave(f))
       /\ \A l \in Locks : SF_vars(lock_release(f, l))
  /\ \A c \in Cpu : SF_vars(cpu_end_interrupt(c))

LiveSpec == Spec /\ Fairness

(***************************************************************************)
(* A frame in the loop of lock_acquire (lock.c:33-39) gets its lock, also   *)
(* when the other CPU and the handlers contend for the same locks.          *)
(***************************************************************************)
AcquireReturns ==
  \A f \in Frame : pc[f] = "spin" ~> pc[f] = "run"
=============================================================================
