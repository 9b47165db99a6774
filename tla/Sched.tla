------------------------------- MODULE Sched --------------------------------
(***************************************************************************)
(* The scheduler: kernel/sched.c, the part of kernel/task.c and             *)
(* kernel/tasking.c that changes what it reads, and the interrupts of       *)
(* kernel/x86_64/interrupts.c that switch tasks.                            *)
(*                                                                          *)
(* Every CPU executes the code of its current task; the timer interrupts    *)
(* the boot CPU only, which reschedules all of them and sends the others    *)
(* an IPI.  A task that is not executed has the place where it resumes in   *)
(* its context.                                                             *)
(*                                                                          *)
(* Times are kept as the number of ticks since: time_start[t] = 0 says that *)
(* task t was attached in this tick.  They saturate at MaxAge.              *)
(***************************************************************************)
EXTENDS Integers, Sequences

CONSTANTS NCpu,        \* cpu_count()
          Task,        \* the tasks
          None,        \* nullptr
          Free,        \* the holder of a lock nobody holds
          User,        \* the tasks that programs create
          InitTask,    \* the one the boot CPU starts
          Finalizer,   \* the task of tasking_create_finalizer
          idle,        \* Cpu.idle
          boot,        \* the boot task of each CPU
          MaxAge,      \* bound on the ages of time_start and time_end
          MaxTimeout   \* bound on timeouts, and the finalizer's period

Cpu == 0 .. NCpu - 1

BootCpu == 0

Idles == {idle[c] : c \in Cpu}

Boots == {boot[c] : c \in Cpu}

ASSUME SchedAssumption ==
  /\ NCpu \in Nat \ {0}
  /\ MaxAge \in Nat \ {0}
  /\ MaxTimeout \in Nat
  /\ None \notin Task
  /\ Free \notin Cpu
  /\ User \subseteq Task
  /\ InitTask \in User
  /\ Finalizer \in Task
  /\ idle \in [Cpu -> Task]
  /\ boot \in [Cpu -> Task]
  /\ \A c, d \in Cpu : c # d => idle[c] # idle[d] /\ boot[c] # boot[d]
  /\ \A c, d \in Cpu : idle[c] # boot[d]
  /\ \A c \in Cpu : idle[c] \notin User /\ boot[c] \notin User
  /\ \A c \in Cpu : Finalizer # idle[c] /\ Finalizer # boot[c]
  /\ Finalizer \notin User

VARIABLES lock,        \* the CPU that holds _lock
          tasks,       \* _tasks
          started,     \* the tasks with the flag of Task set, for the next four
          stopped,
          blocked,
          in_syscall,
          time_start,  \* ticks since Task.time_start
          time_end,    \* ticks since Task.time_end
          deadline,    \* ticks until Task.blocker.deadline, while blocked
          current,     \* Cpu.current
          next,        \* Cpu.next
          code,        \* what each CPU executes
          context,     \* Task.context
          irq,         \* where the interrupt handler of each CPU is
          ipi          \* the CPUs with an IPI_RESCHED pending

flags == <<started, stopped, blocked, in_syscall>>
times == <<time_start, time_end>>
cpus == <<current, next, code, context, irq, ipi>>
vars == <<lock, tasks, flags, times, deadline, cpus>>

(***************************************************************************)
(* Where the code of a task is.  "user": outside the kernel, or before a    *)
(* system call's task_begin_syscall; "enter": before in_syscall is set;     *)
(* "sys": in the handler; "leave": in_syscall is cleared and stopped not    *)
(* yet read.  "boot", "stop", "panic": arch_entry_main, its sched_stop and  *)
(* the panic$ after it.  "fin", "fin_block": the finalizer.  "null": the    *)
(* address 0 that tasking_create_boot puts into a boot task's context.      *)
(***************************************************************************)
Place == {"user", "enter", "sys", "leave", "boot", "stop", "panic", "fin", "fin_block", "idle", "null"}

(***************************************************************************)
(* "code": at that place; the others are phases of a sched_yield that       *)
(* returns to it: before its lock, inside it, and before arch_yield;        *)
(* "dequeue" is inside sched_finalize.                                      *)
(***************************************************************************)
Phase == {"code", "yield", "locked", "int", "dequeue"}

Code == [at : Place, in : Phase]

At(place) == [at |-> place, in |-> "code"]

Yielding(place) == [at |-> place, in |-> "yield"]

Handler == {"none", "tick", "loop", "ipi", "switch", "halt"}

Never == MaxTimeout + 1

(***************************************************************************)
(* Every variable has its type: the queue of sched.c holds tasks, and both  *)
(* current and next of every CPU are tasks, never nullptr.                  *)
(***************************************************************************)
TypeOK ==
  /\ lock \in Cpu \union {Free}
  /\ tasks \in Seq(Task)
  /\ started \in SUBSET Task
  /\ stopped \in SUBSET Task
  /\ blocked \in SUBSET Task
  /\ in_syscall \in SUBSET Task
  /\ time_start \in [Task -> 0 .. MaxAge]
  /\ time_end \in [Task -> 0 .. MaxAge]
  /\ deadline \in [Task -> -1 .. Never]
  /\ current \in [Cpu -> Task]
  /\ next \in [Cpu -> Task]
  /\ code \in [Cpu -> Code]
  /\ context \in [Task -> Code]
  /\ irq \in [Cpu -> Handler]
  /\ ipi \in SUBSET Cpu

\* tasking_initialize, before interrupts are enabled; init_start comes first on the boot CPU.
Init ==
  /\ lock = Free
  /\ tasks = [i \in 1 .. NCpu + 1 |-> IF i <= NCpu THEN boot[i - 1] ELSE Finalizer]
  /\ started = Boots \union {Finalizer}
  /\ stopped = {}
  /\ blocked = {}
  /\ in_syscall = {}
  /\ time_start = [t \in Task |-> 0]
  /\ time_end = [t \in Task |-> 0]
  /\ deadline = [t \in Task |-> Never]
  /\ current = boot
  /\ next = boot
  /\ code = [c \in Cpu |-> At(IF c = BootCpu THEN "boot" ELSE "stop")]
  /\ context = [t \in Task |-> At(IF t = Finalizer THEN "fin"
                                  ELSE IF t \in User THEN "user"
                                  ELSE IF t \in Boots THEN "null" ELSE "idle")]
  /\ irq = [c \in Cpu |-> "none"]
  /\ ipi = {}
-----------------------------------------------------------------------------
(***************************************************************************)
(* Attach/Detach, Peek                                                      *)
(***************************************************************************)
Queued == {tasks[i] : i \in 1 .. Len(tasks)}

\* A mutation: a stopped task can run.
task_runnable_stopped(t, b) == t \in started /\ t \notin b

\* A mutation: a blocked task can run.
task_runnable_blocked(t, b) == t \in started /\ (t \in stopped => t \in in_syscall)

\* task_runnable, with the set of blocked tasks as an argument.
task_runnable(t, b) ==
  t \in started /\ t \notin b /\ (t \in stopped => t \in in_syscall)

sched_runnable(t) ==
  t \in started /\ (t \notin blocked \/ (t \in stopped /\ t \notin in_syscall))

sched_running(t) == \E c \in Cpu : next[c] = t

(***************************************************************************)
(* sched_next(onto[c], c) for every CPU c of a set, in the order of the     *)
(* CPUs: what was next there is detached, from wherever it is next, and the *)
(* new task is attached.                                                    *)
(***************************************************************************)
sched_next(S, onto) ==
  LET detached == {next[c] : c \in S}
      attached == {onto[c] : c \in S}
  IN  /\ next' = [c \in Cpu |-> IF c \in S THEN onto[c]
                               ELSE IF next[c] \in detached THEN None ELSE next[c]]
      /\ time_end' = [t \in Task |-> IF t \in detached THEN 0 ELSE time_end[t]]
      /\ time_start' = [t \in Task |-> IF t \in attached THEN 0 ELSE time_start[t]]

\* A mutation: a task that is next on another CPU is accepted.
Eligible_running(t) == time_start[t] # 0 /\ task_runnable(t, blocked)

\* A mutation: any task of the queue that waits is accepted.
Eligible_any(t) == time_start[t] # 0 /\ ~sched_running(t)

\* What sched_pick accepts: the task is not next on a CPU, and was not attached in this tick.
Eligible(t) ==
  /\ time_start[t] # 0
  /\ task_runnable(t, blocked)
  /\ ~sched_running(t)

\* sched_peek returns t: it waited the longest, and comes first among those that did.
sched_peek(t) ==
  \E i \in 1 .. Len(tasks) :
    /\ t = tasks[i]
    /\ Eligible(t)
    /\ \A j \in 1 .. Len(tasks) :
         Eligible(tasks[j]) =>
           \/ time_end[tasks[j]] < time_end[t]
           \/ time_end[tasks[j]] = time_end[t] /\ i <= j

\* sched_peek returns nullptr.
NothingToPeek == \A t \in Queued : ~Eligible(t)
-----------------------------------------------------------------------------
(***************************************************************************)
(* Dispatch                                                                 *)
(***************************************************************************)
\* c is the first CPU of the set S.
IsFirst(c, S) == c \in S /\ \A d \in S : c <= d

CurrentOn(t) == {c \in Cpu : current[c] = t}

IdleCpus == {c \in Cpu : next[c] = idle[c]}

\* The CPUs whose next task has been active for the longest.
MostActive == {c \in Cpu : \A d \in Cpu : time_start[next[d]] <= time_start[next[c]]}

sched_dispatch_to_current(t, c) == IsFirst(c, CurrentOn(t))

\* A mutation: a CPU counts as idle when it has no next task.
sched_dispatch_to_idle_null(t, c) ==
  CurrentOn(t) = {} /\ IsFirst(c, {d \in Cpu : next[d] = None})

sched_dispatch_to_idle(t, c) == CurrentOn(t) = {} /\ IsFirst(c, IdleCpus)

sched_dispatch_to_active(t, c) ==
  /\ CurrentOn(t) = {}
  /\ IdleCpus = {}
  /\ IsFirst(c, MostActive)
  /\ time_start[next[c]] # 0

DispatchTo(t, c) ==
  \/ sched_dispatch_to_current(t, c)
  \/ sched_dispatch_to_idle(t, c)
  \/ sched_dispatch_to_active(t, c)

\* A mutation: the deadline is not looked at.
sched_updated_blocked_late(reached) ==
  LET released == {t \in Queued \intersect blocked : t \in reached \/ t \in stopped}
      b == blocked \ released
  IN  /\ blocked' = b
      /\ deadline' = [t \in Task |-> IF t \in released THEN Never ELSE deadline[t]]
      /\ sched_next({c \in Cpu : ~task_runnable(current[c], b)}, idle)

(***************************************************************************)
(* sched_updated_blocked: the tasks of the queue whose function returned    *)
(* true (reached), whose deadline is over or that are stopped are no longer *)
(* blocked; every CPU whose current task cannot run gets its idle task.     *)
(***************************************************************************)
sched_updated_blocked(reached) ==
  LET released == {t \in Queued \intersect blocked :
                     t \in reached \/ deadline[t] = -1 \/ t \in stopped}
      b == blocked \ released
  IN  /\ blocked' = b
      /\ deadline' = [t \in Task |-> IF t \in released THEN Never ELSE deadline[t]]
      /\ sched_next({c \in Cpu : ~task_runnable(current[c], b)}, idle)

\* The blockers with a function: the system calls'; what it returns depends on the channels.
Reachable == SUBSET (blocked \intersect User)
-----------------------------------------------------------------------------
(***************************************************************************)
(* Interrupts                                                               *)
(***************************************************************************)
\* Interrupts are off in a handler and while the code holds the lock.
Interruptible(c) == irq[c] = "none" /\ code[c].in \notin {"locked", "dequeue"}

context_save(c, where) == context' = [context EXCEPT ![current[c]] = where]

Older(age) == IF age = MaxAge THEN MaxAge ELSE age + 1

\* Interrupt 32 on the boot CPU, up to the lock of sched_schedule: _tick++.
sched_schedule(c) ==
  /\ c = BootCpu
  /\ Interruptible(c)
  /\ context_save(c, code[c])
  /\ irq' = [irq EXCEPT ![c] = "tick"]
  /\ time_start' = [t \in Task |-> Older(time_start[t])]
  /\ time_end' = [t \in Task |-> Older(time_end[t])]
  /\ deadline' = [t \in Task |-> IF deadline[t] \in {-1, Never} THEN deadline[t]
                                 ELSE deadline[t] - 1]
  /\ UNCHANGED <<lock, tasks, flags, current, next, code, ipi>>

sched_schedule_lock(c) ==
  /\ irq[c] = "tick"
  /\ lock = Free
  /\ lock' = c
  /\ irq' = [irq EXCEPT ![c] = "loop"]
  /\ \E reached \in Reachable : sched_updated_blocked(reached)
  /\ UNCHANGED <<tasks, started, stopped, in_syscall, current, code, context, ipi>>

\* One turn of the loop of sched_schedule.
sched_dispatch(c, t, d) ==
  /\ irq[c] = "loop"
  /\ sched_peek(t)
  /\ DispatchTo(t, d)
  /\ sched_next({d}, [x \in {d} |-> t])
  /\ UNCHANGED <<lock, tasks, flags, deadline, current, code, context, irq, ipi>>

sched_schedule_unlock(c) ==
  /\ irq[c] = "loop"
  /\ NothingToPeek \/ \E t \in Queued : sched_peek(t) /\ \A d \in Cpu : ~DispatchTo(t, d)
  /\ lock' = Free
  /\ irq' = [irq EXCEPT ![c] = "ipi"]
  /\ UNCHANGED <<tasks, flags, times, deadline, current, next, code, context, ipi>>

sched_switch_other(c) ==
  /\ irq[c] = "ipi"
  /\ ipi' = ipi \union {d \in Cpu \ {c} : next[d] # current[d]}
  /\ irq' = [irq EXCEPT ![c] = "switch"]
  /\ UNCHANGED <<lock, tasks, flags, times, deadline, current, next, code, context>>

\* Interrupt 100, from the boot CPU.
IpiResched(c) ==
  /\ c \in ipi
  /\ Interruptible(c)
  /\ ipi' = ipi \ {c}
  /\ context_save(c, code[c])
  /\ irq' = [irq EXCEPT ![c] = "switch"]
  /\ UNCHANGED <<lock, tasks, flags, times, deadline, current, next, code>>

\* Interrupt 100, from the int instruction at the end of sched_yield.
arch_yield(c) ==
  /\ irq[c] = "none"
  /\ code[c].in = "int"
  /\ context_save(c, At(code[c].at))
  /\ irq' = [irq EXCEPT ![c] = "switch"]
  /\ UNCHANGED <<lock, tasks, flags, times, deadline, current, next, code, ipi>>

\* sched_switch and the context_load after it.
sched_switch(c) ==
  /\ irq[c] = "switch"
  /\ lock = Free
  /\ current' = [current EXCEPT ![c] = next[c]]
  /\ code' = [code EXCEPT ![c] = context[next[c]]]
  /\ irq' = [irq EXCEPT ![c] = "none"]
  /\ UNCHANGED <<lock, tasks, flags, times, deadline, next, context, ipi>>
-----------------------------------------------------------------------------
(***************************************************************************)
(* The code of tasks                                                        *)
(***************************************************************************)
Executes(c, place) == irq[c] = "none" /\ code[c] = At(place)

Goto(c, where) == code' = [code EXCEPT ![c] = where]

sched_yield(c) ==
  /\ irq[c] = "none"
  /\ code[c].in = "yield"
  /\ lock = Free
  /\ lock' = c
  /\ Goto(c, [at |-> code[c].at, in |-> "locked"])
  /\ \E reached \in Reachable : sched_updated_blocked(reached)
  /\ UNCHANGED <<tasks, started, stopped, in_syscall, current, context, irq, ipi>>

sched_yield_next(c, t) ==
  /\ irq[c] = "none"
  /\ code[c].in = "locked"
  /\ sched_peek(t) \/ (NothingToPeek /\ t = idle[c])
  /\ sched_next({c}, [x \in {c} |-> t])
  /\ lock' = Free
  /\ Goto(c, [at |-> code[c].at, in |-> "int"])
  /\ UNCHANGED <<tasks, flags, deadline, current, context, irq, ipi>>

\* A stopped task yields before it enters a system call.
task_begin_syscall(c) ==
  /\ Executes(c, "user")
  /\ Goto(c, IF current[c] \in stopped THEN Yielding("enter") ELSE At("enter"))
  /\ UNCHANGED <<lock, tasks, flags, times, deadline, current, next, context, irq, ipi>>

task_begin_syscall_set(c) ==
  /\ Executes(c, "enter")
  /\ in_syscall' = in_syscall \union {current[c]}
  /\ Goto(c, At("sys"))
  /\ UNCHANGED <<lock, tasks, started, stopped, blocked, times, deadline,
                 current, next, context, irq, ipi>>

task_end_syscall(c) ==
  /\ Executes(c, "sys")
  /\ in_syscall' = in_syscall \ {current[c]}
  /\ Goto(c, At("leave"))
  /\ UNCHANGED <<lock, tasks, started, stopped, blocked, times, deadline,
                 current, next, context, irq, ipi>>

task_end_syscall_check(c) ==
  /\ Executes(c, "leave")
  /\ Goto(c, IF current[c] \in stopped THEN Yielding("user") ELSE At("user"))
  /\ UNCHANGED <<lock, tasks, flags, times, deadline, current, next, context, irq, ipi>>

\* arch_stop, at the end of a panic$: every CPU is halted by an IPI_STOP.
arch_stop == irq' = [c \in Cpu |-> "halt"]

\* sched_start: its assertion, then the task is queued with a fresh context.
sched_start(t) ==
  /\ lock = Free
  /\ IF t \in started
       THEN /\ arch_stop
            /\ UNCHANGED <<started, tasks, context>>
       ELSE /\ started' = started \union {t}
            /\ tasks' = Append(tasks, t)
            /\ context' = [context EXCEPT ![t] = At("user")]
            /\ UNCHANGED irq
  /\ UNCHANGED <<lock, stopped, blocked, in_syscall, times, deadline, current, next, ipi>>

init_start(c) ==
  /\ Executes(c, "boot")
  /\ sched_start(InitTask)
  /\ Goto(c, At("stop"))

sys_start(c, t) ==
  /\ Executes(c, "sys")
  /\ sched_start(t)
  /\ UNCHANGED code

\* sched_stop by a system call: the caller is in_syscall, so that it does not yield.
sys_exit(c, t) ==
  /\ Executes(c, "sys")
  /\ lock = Free
  /\ stopped' = stopped \union {t}
  /\ UNCHANGED <<lock, tasks, started, blocked, in_syscall, times, deadline, cpus>>

\* sched_stop(task_self()) at the end of arch_entry_main and arch_entry_other.
sched_stop(c) ==
  /\ Executes(c, "stop")
  /\ lock = Free
  /\ stopped' = stopped \union {current[c]}
  /\ Goto(c, IF current[c] \in stopped THEN At("panic") ELSE Yielding("panic"))
  /\ UNCHANGED <<lock, tasks, started, blocked, in_syscall, times, deadline,
                 current, next, context, irq, ipi>>

\* The rest of sched_block when the blocker's function is not satisfied at once.
sched_block(c, timeout, place) ==
  /\ lock = Free
  /\ blocked' = blocked \union {current[c]}
  /\ deadline' = [deadline EXCEPT ![current[c]] = timeout]
  /\ Goto(c, Yielding(place))
  /\ UNCHANGED <<lock, tasks, started, stopped, in_syscall, times,
                 current, next, context, irq, ipi>>

sys_ipc(c, timeout) ==
  /\ Executes(c, "sys")
  /\ sched_block(c, timeout, "sys")

sched_finalize(c) ==
  /\ Executes(c, "fin")
  /\ lock = Free
  /\ lock' = c
  /\ Goto(c, [at |-> "fin_block", in |-> "dequeue"])
  /\ UNCHANGED <<tasks, flags, times, deadline, current, next, context, irq, ipi>>

Finalizable(t) == t \in stopped /\ ~sched_runnable(t) /\ ~sched_running(t)

\* sched_dequeue of the first task that the loop of sched_finalize comes to.
sched_dequeue(c, i) ==
  /\ irq[c] = "none"
  /\ code[c].in = "dequeue"
  /\ Finalizable(tasks[i])
  /\ \A j \in 1 .. i - 1 : ~Finalizable(tasks[j])
  /\ tasks' = SubSeq(tasks, 1, i - 1) \o SubSeq(tasks, i + 1, Len(tasks))
  /\ UNCHANGED <<lock, flags, times, deadline, cpus>>

sched_finalize_end(c) ==
  /\ irq[c] = "none"
  /\ code[c].in = "dequeue"
  /\ \A t \in Queued : ~Finalizable(t)
  /\ lock' = Free
  /\ Goto(c, At(code[c].at))
  /\ UNCHANGED <<tasks, flags, times, deadline, current, next, context, irq, ipi>>

finalizer(c) ==
  /\ Executes(c, "fin_block")
  /\ sched_block(c, MaxTimeout, "fin")

Halted(c) == irq[c] = "halt" /\ UNCHANGED vars

Interrupt(c) ==
  \/ sched_schedule(c)
  \/ sched_schedule_lock(c)
  \/ \E t \in Task, d \in Cpu : sched_dispatch(c, t, d)
  \/ sched_schedule_unlock(c)
  \/ sched_switch_other(c)
  \/ IpiResched(c)
  \/ arch_yield(c)
  \/ sched_switch(c)

Run(c) ==
  \/ sched_yield(c)
  \/ \E t \in Task : sched_yield_next(c, t)
  \/ task_begin_syscall(c)
  \/ task_begin_syscall_set(c)
  \/ task_end_syscall(c)
  \/ task_end_syscall_check(c)
  \/ init_start(c)
  \/ \E t \in User : sys_start(c, t) \/ sys_exit(c, t)
  \/ sched_stop(c)
  \/ \E timeout \in 0 .. Never : sys_ipc(c, timeout)
  \/ sched_finalize(c)
  \/ \E i \in 1 .. Len(tasks) : sched_dequeue(c, i)
  \/ sched_finalize_end(c)
  \/ finalizer(c)

Next == \E c \in Cpu : Interrupt(c) \/ Run(c) \/ Halted(c)

Spec == Init /\ [][Next]_vars
-----------------------------------------------------------------------------
(***************************************************************************)
(* Properties                                                               *)
(***************************************************************************)

(***************************************************************************)
(* Every CPU has a next task, no task is next on two CPUs and an idle task  *)
(* is next only on its own (sched_attach and sched_detach, sched.c:110-137).*)
(* sched_dispatch_to_active and sched_switch dereference it unchecked.      *)
(***************************************************************************)
NextDistinct ==
  /\ \A c \in Cpu : next[c] # None
  /\ \A c, d \in Cpu : next[c] = next[d] => c = d
  /\ \A c, d \in Cpu : next[c] = idle[d] => c = d

(***************************************************************************)
(* On one CPU, sched_stop(task_self()) does not return at the end of        *)
(* arch_entry_main (boot.c:63), whatever the timer does around its yield:   *)
(* the panic$ behind it is not reached.                                     *)
(***************************************************************************)
StopNeverReturns ==
  \A c \in Cpu : code[c] # At("panic")

(***************************************************************************)
(* On one CPU, code never runs past its sched_block (sched.c:66-83) while   *)
(* its task is marked blocked: it leaves the yield only after               *)
(* sched_updated_blocked has cleared the mark and set the result.           *)
(***************************************************************************)
BlockReturnsUnblocked ==
  \A c \in Cpu : irq[c] = "none" /\ code[c].in = "code" => current[c] \notin blocked

(***************************************************************************)
(* On one CPU, sched_switch never resumes a task that is blocked, or        *)
(* stopped outside a system call.  (With a second one, a stop between the   *)
(* choice of next, sched.c:320, and the switch, sched.c:347, breaks this.)  *)
(***************************************************************************)
ResumesRunnable ==
  [][\A c \in Cpu : current'[c] # current[c] =>
       current'[c] = idle[c] \/ task_runnable(current'[c], blocked)]_vars

(***************************************************************************)
(* On one CPU, a task that was stopped outside a system call starts no      *)
(* other one, although task_begin_syscall (task.c:59-67) reads stopped      *)
(* before it sets in_syscall: whoever stops it in between runs on the same  *)
(* CPU, and the task is not resumed.                                        *)
(***************************************************************************)
StoppedMakesNoCall ==
  [][\A t \in stopped \ in_syscall : t \notin in_syscall']_vars

(***************************************************************************)
(* A task is the current one of at most one CPU.                            *)
(***************************************************************************)
TaskOnOneCpu ==
  \A c, d \in Cpu : current[c] = current[d] => c = d

\* The assertion of sched_start (sched.c:38) never fails.
NeverPanics == \A c \in Cpu : irq[c] # "halt"
=============================================================================
