------------------------------ MODULE MCRwLock ------------------------------
(***************************************************************************)
(* The readers-writer lock on a few CPUs, whose handlers read without end.  *)
(***************************************************************************)
EXTENDS RwLock

\* The steps that wait for nobody.
Proceed(f) ==
  \/ rwlock_try_acquire_read_ok(f) \/ rwlock_try_acquire_read_busy(f)
  \/ rwlock_release_read_end(f)
  \/ rwlock_acquire_write_pending(f)
  \/ rwlock_try_acquire_write_ok(f) \/ rwlock_try_acquire_write_busy(f)
  \/ rwlock_acquire_write_end(f)
  \/ rwlock_release_write_end(f)

(***************************************************************************)
(* Every CPU keeps executing inside the lock, and the loop of               *)
(* rwlock_acquire_write retries for ever: an attempt that would succeed     *)
(* again and again is made.  On each CPU one frame is active at a time.     *)
(* Nothing obliges a frame to start, nor a waiting reader to get in.        *)
(***************************************************************************)
Fairness ==
  \A c \in Cpu :
    LET Some(A(_)) == A(TaskOn(c)) \/ A(HandlerOn(c)) IN
    /\ SF_vars(rwlock_try_acquire_write(TaskOn(c)) /\ readers = 0 /\ writers = 0)
    /\ SF_vars(Some(rwlock_release_read) \/ rwlock_release_write(TaskOn(c)))
    /\ WF_vars(Some(Proceed))

LiveSpec == Spec /\ Fairness

(***************************************************************************)
(* A writer gets in, however many readers come and go: the readers that     *)
(* arrive after it see pendings and wait (rwlock.c:23, 53).                 *)
(***************************************************************************)
WriterEnters ==
  \A c \in Cpu : pc[TaskOn(c)] = "w_pend" ~> pc[TaskOn(c)] = "writing"
=============================================================================
