------------------------------ MODULE MCSched -------------------------------
(***************************************************************************)
(* The scheduler with two user tasks, on one and on two CPUs.               *)
(***************************************************************************)
EXTENDS Sched

Tasks1 == {"idle0", "boot0", "fin", "a", "b"}

Tasks1a == {"idle0", "boot0", "fin", "a"}

Idle1 == [c \in {0} |-> "idle0"]

Boot1 == [c \in {0} |-> "boot0"]

Tasks2 == {"idle0", "boot0", "fin", "a", "idle1", "boot1"}

Idle2 == [c \in {0, 1} |-> IF c = 0 THEN "idle0" ELSE "idle1"]

Boot2 == [c \in {0, 1} |-> IF c = 0 THEN "boot0" ELSE "boot1"]
(***************************************************************************)
(* The state after booting: the boot tasks have stopped, every CPU is idle, *)
(* the first program and the finalizer wait for the next tick.              *)
(***************************************************************************)
Booted ==
  /\ lock = Free
  /\ tasks = [i \in 1 .. NCpu + 2 |-> IF i <= NCpu THEN boot[i - 1]
                                      ELSE IF i = NCpu + 1 THEN Finalizer ELSE InitTask]
  /\ started = Boots \union {Finalizer, InitTask}
  /\ stopped = Boots
  /\ blocked = {}
  /\ in_syscall = {}
  /\ time_start = [t \in Task |-> 0]
  /\ time_end = [t \in Task |-> 0]
  /\ deadline = [t \in Task |-> Never]
  /\ current = idle
  /\ next = idle
  /\ code = [c \in Cpu |-> At("idle")]
  /\ context = [t \in Task |-> At(IF t = Finalizer THEN "fin"
                                  ELSE IF t \in User THEN "user"
                                  ELSE IF t \in Boots THEN "panic" ELSE "idle")]
  /\ irq = [c \in Cpu |-> "none"]
  /\ ipi = {}

BootedSpec == Booted /\ [][Next]_vars
-----------------------------------------------------------------------------
(***************************************************************************)
(* The timer keeps firing, CPUs keep executing, and a system call's handler *)
(* ends.  Nothing obliges a program to make a system call.                  *)
(***************************************************************************)
Fairness ==
  \A c \in Cpu :
    /\ WF_vars(sched_schedule(c))
    /\ SF_vars(sched_schedule_lock(c))
    /\ WF_vars((\E t \in Task, d \in Cpu : sched_dispatch(c, t, d)) \/ sched_schedule_unlock(c)
               \/ sched_switch_other(c) \/ \E t \in Task : sched_yield_next(c, t))
    /\ SF_vars(sched_switch(c))
    /\ SF_vars(IpiResched(c))
    /\ SF_vars(sched_yield(c))
    /\ SF_vars(arch_yield(c) \/ task_begin_syscall_set(c) \/ task_end_syscall(c)
               \/ task_end_syscall_check(c))
    /\ WF_vars((\E i \in 1 .. Len(tasks) : sched_dequeue(c, i)) \/ sched_finalize_end(c))
    /\ SF_vars(init_start(c) \/ sched_stop(c) \/ sched_finalize(c) \/ finalizer(c))

\* The kernel has panicked.
Stopped == \E c \in Cpu : irq[c] = "halt"

LiveSpec == Spec /\ Fairness

(***************************************************************************)
(* A queued task that is blocked with a deadline, or that was stopped, is   *)
(* released (sched.c:273-291), unless it is finalized first.                *)
(***************************************************************************)
BlockedIsReleased ==
  \A t \in Task : t \in Queued \intersect blocked /\ (deadline[t] # Never \/ t \in stopped)
                   ~> t \notin Queued \intersect blocked \/ Stopped

(***************************************************************************)
(* An idle CPU is given a task that waits to run (sched.c:203-215), or the  *)
(* task is no longer there to run.                                          *)
(***************************************************************************)
IdleGivesWay ==
  \A c \in Cpu, t \in Task :
    current[c] = idle[c] /\ t \in Queued /\ task_runnable(t, blocked)
      ~> current[c] # idle[c] \/ ~task_runnable(t, blocked) \/ Stopped

(***************************************************************************)
(* A task that was stopped outside a system call, or has left it, is taken  *)
(* off its CPU (sched_stop, task_end_syscall, sched_updated_blocked).       *)
(***************************************************************************)
StoppedIsTakenOff ==
  \A c \in Cpu, t \in Task :
    current[c] = t /\ t \in stopped /\ t \notin in_syscall ~> current[c] # t \/ Stopped

(***************************************************************************)
(* A program that computes for ever does not keep its CPU while another     *)
(* task that can run waits for ever (meta/scheduling.md:100, on             *)
(* sched_dispatch_to_active, sched.c:222-242).                              *)
(***************************************************************************)
ComputingIsPreempted ==
  \A c \in Cpu, t \in Task :
    ~<>[](/\ code[c] = At("user")
          /\ current[c] # t
          /\ t \in Queued
          /\ task_runnable(t, blocked))
=============================================================================
