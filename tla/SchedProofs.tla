---------------------------- MODULE SchedProofs -----------------------------
(***************************************************************************)
(* The type invariant of the scheduler and the distinctness of the next     *)
(* tasks, for every number of CPUs and tasks.                               *)
(*                                                                          *)
(* NextDistinct is inductive together with the types and with the fact that *)
(* no idle task is ever started: sched_pick then never returns an idle      *)
(* task, and what it returns is next on no CPU.                             *)
(***************************************************************************)
EXTENDS Sched, SequenceTheorems, TLAPS

IdleNeverStarted == \A c \in Cpu : idle[c] \notin started

IInv == TypeOK /\ NextDistinct /\ IdleNeverStarted

NextTyped ==
  /\ next \in [Cpu -> Task]
  /\ time_start \in [Task -> 0 .. MaxAge]
  /\ time_end \in [Task -> 0 .. MaxAge]

\* sched_next keeps the next tasks distinct when the tasks it attaches are next nowhere else.
LEMMA Attach ==
  ASSUME NextTyped, NextDistinct,
         NEW S \in SUBSET Cpu, NEW onto,
         \A c \in S : onto[c] \in Task,
         \A c, d \in S : onto[c] = onto[d] => c = d,
         \A c \in S : \A d \in Cpu : onto[c] = idle[d] => c = d,
         \A c \in S : \A d \in Cpu \ S : onto[c] # next[d],
         sched_next(S, onto)
  PROVE  NextTyped' /\ NextDistinct'
<1> DEFINE detached == {next[c] : c \in S}
<1>1. \A c \in Cpu : next'[c] = IF c \in S THEN onto[c] ELSE next[c]
  <2> SUFFICES ASSUME NEW c \in Cpu, c \notin S
               PROVE  next'[c] = next[c]
    BY DEF sched_next
  <2>1. next[c] \notin detached
    BY DEF NextDistinct
  <2> QED
    BY <2>1 DEF sched_next
<1>2. next' \in [Cpu -> Task]
  <2>1. next' = [c \in Cpu |-> next'[c]]
    BY DEF sched_next
  <2> QED
    BY <1>1, <2>1 DEF NextTyped
<1>3. time_start' \in [Task -> 0 .. MaxAge] /\ time_end' \in [Task -> 0 .. MaxAge]
  BY SchedAssumption DEF sched_next, NextTyped
<1>4. NextDistinct'
  <2>1. \A c \in Cpu : next'[c] # None
    BY <1>2, SchedAssumption
  <2>2. \A c, d \in Cpu : next'[c] = next'[d] => c = d
    BY <1>1 DEF NextDistinct
  <2>3. \A c, d \in Cpu : next'[c] = idle[d] => c = d
    BY <1>1 DEF NextDistinct
  <2> QED
    BY <2>1, <2>2, <2>3 DEF NextDistinct
<1> QED
  BY <1>2, <1>3, <1>4 DEF NextTyped

\* What sched_updated_blocked does.
LEMMA UpdateBlocked ==
  ASSUME IInv, NEW reached, sched_updated_blocked(reached)
  PROVE  /\ blocked' \in SUBSET Task
         /\ deadline' \in [Task -> -1 .. Never]
         /\ NextTyped' /\ NextDistinct'
<1> DEFINE released == {t \in Queued \intersect blocked :
                          t \in reached \/ deadline[t] = -1 \/ t \in stopped}
           b == blocked \ released
           S == {c \in Cpu : ~task_runnable(current[c], b)}
<1>1. blocked' \in SUBSET Task
  BY DEF sched_updated_blocked, IInv, TypeOK
<1>2. deadline' \in [Task -> -1 .. Never]
  <2>1. Never \in -1 .. Never
    BY SchedAssumption DEF Never
  <2>2. deadline \in [Task -> -1 .. Never]
    BY DEF IInv, TypeOK
  <2>3. deadline' = [t \in Task |-> IF t \in released THEN Never ELSE deadline[t]]
    BY DEF sched_updated_blocked
  <2> HIDE DEF released
  <2> QED
    BY <2>1, <2>2, <2>3
<1>3. sched_next(S, idle)
  BY DEF sched_updated_blocked
<1>4. NextTyped /\ NextDistinct
  BY DEF IInv, TypeOK, NextTyped
<1>5. NextTyped' /\ NextDistinct'
  <2> HIDE DEF S
  <2>1. S \in SUBSET Cpu
    BY DEF S
  <2>2. \A c \in S : idle[c] \in Task
    BY <2>1, SchedAssumption
  <2>3. \A c, d \in S : idle[c] = idle[d] => c = d
    BY <2>1, SchedAssumption
  <2>4. \A c \in S : \A d \in Cpu : idle[c] = idle[d] => c = d
    BY <2>1, SchedAssumption
  <2>5. \A c \in S : \A d \in Cpu \ S : idle[c] # next[d]
    BY <2>1, <1>4 DEF NextDistinct
  <2> QED
    BY <1>3, <1>4, <2>1, <2>2, <2>3, <2>4, <2>5, Attach
<1> QED
  BY <1>1, <1>2, <1>5

\* Attaching one task that sched_peek returned, or the idle task of the CPU.
LEMMA AttachOne ==
  ASSUME IInv, NEW d \in Cpu, NEW t \in Task,
         Eligible(t) \/ t = idle[d],
         sched_next({d}, [x \in {d} |-> t])
  PROVE  NextTyped' /\ NextDistinct'
<1> DEFINE onto == [x \in {d} |-> t]
<1>1. NextTyped /\ NextDistinct
  BY DEF IInv, TypeOK, NextTyped
<1>2. onto[d] = t
  OBVIOUS
<1>3. \A e \in Cpu : t = idle[e] => d = e
  BY SchedAssumption DEF IInv, IdleNeverStarted, Eligible, task_runnable
<1>4. \A e \in Cpu \ {d} : t # next[e]
  BY <1>1 DEF Eligible, sched_running, NextDistinct
<1> HIDE DEF onto
<1>5. {d} \in SUBSET Cpu
  OBVIOUS
<1>6. sched_next({d}, onto)
  BY DEF onto
<1> QED
  BY <1>1, <1>2, <1>3, <1>4, <1>5, <1>6, Attach

\* The values that code and contexts take.
LEMMA CodeTyped ==
  ASSUME TypeOK, NEW c \in Cpu
  PROVE  /\ code[c] \in Code
         /\ \A p \in Place : At(p) \in Code /\ Yielding(p) \in Code
         /\ \A i \in Phase : [at |-> code[c].at, in |-> i] \in Code
         /\ At(code[c].at) \in Code
<1>1. code[c] \in Code
  BY DEF TypeOK
<1> QED
  BY <1>1 DEF Code, At, Yielding, Phase

LEMMA InitIInv == Init => IInv
<1> SUFFICES ASSUME Init
             PROVE  IInv
  OBVIOUS
<1>1. tasks \in Seq(Task)
  <2>1. NCpu + 1 \in Nat
    BY SchedAssumption
  <2>2. \A i \in 1 .. NCpu + 1 : (IF i <= NCpu THEN boot[i - 1] ELSE Finalizer) \in Task
    BY SchedAssumption DEF Cpu
  <2> QED
    BY <2>1, <2>2, IsASeq DEF Init
<1>2. /\ started \in SUBSET Task
      /\ current \in [Cpu -> Task]
      /\ next \in [Cpu -> Task]
  BY SchedAssumption DEF Init, Boots
<1>3. /\ code \in [Cpu -> Code]
      /\ context \in [Task -> Code]
      /\ irq \in [Cpu -> Handler]
  BY DEF Init, Code, At, Place, Phase, Handler
<1>4. /\ time_start \in [Task -> 0 .. MaxAge]
      /\ time_end \in [Task -> 0 .. MaxAge]
      /\ deadline \in [Task -> -1 .. Never]
  BY SchedAssumption DEF Init, Never
<1>5. TypeOK
  BY <1>1, <1>2, <1>3, <1>4 DEF Init, TypeOK
<1>6. NextDistinct
  BY SchedAssumption DEF Init, NextDistinct
<1>7. IdleNeverStarted
  BY SchedAssumption DEF Init, IdleNeverStarted, Boots
<1> QED
  BY <1>5, <1>6, <1>7 DEF IInv

\* The steps that take the lock and update the blocked tasks.
LEMMA UpdateStep ==
  ASSUME IInv, NEW c \in Cpu,
         sched_schedule_lock(c) \/ sched_yield(c)
  PROVE  IInv'
<1>1. PICK reached : sched_updated_blocked(reached)
  BY DEF sched_schedule_lock, sched_yield
<1>2. blocked' \in SUBSET Task /\ deadline' \in [Task -> -1 .. Never] /\ NextTyped' /\ NextDistinct'
  BY <1>1, UpdateBlocked
<1>3. UNCHANGED <<tasks, started, stopped, in_syscall, current, context, ipi>>
  BY DEF sched_schedule_lock, sched_yield
<1>4. lock' \in Cpu \union {Free}
  BY DEF sched_schedule_lock, sched_yield
<1>5. code' \in [Cpu -> Code] /\ irq' \in [Cpu -> Handler]
  <2>1. CASE sched_schedule_lock(c)
    BY <2>1 DEF sched_schedule_lock, IInv, TypeOK, Handler
  <2>2. CASE sched_yield(c)
    <3>1. [at |-> code[c].at, in |-> "locked"] \in Code
      BY CodeTyped DEF IInv, Phase
    <3> QED
      BY <2>2, <3>1 DEF sched_yield, Goto, IInv, TypeOK
  <2> QED
    BY <2>1, <2>2
<1> QED
  BY <1>2, <1>3, <1>4, <1>5 DEF IInv, TypeOK, NextTyped, IdleNeverStarted

\* The steps that attach one task.
LEMMA AttachStep ==
  ASSUME IInv, NEW c \in Cpu, NEW t \in Task, NEW d \in Cpu,
         sched_dispatch(c, t, d) \/ sched_yield_next(c, t)
  PROVE  IInv'
<1>1. NextTyped' /\ NextDistinct'
  <2>1. CASE sched_dispatch(c, t, d)
    BY <2>1, AttachOne DEF sched_dispatch, sched_peek
  <2>2. CASE sched_yield_next(c, t)
    BY <2>2, AttachOne DEF sched_yield_next, sched_peek
  <2> QED
    BY <2>1, <2>2
<1>2. UNCHANGED <<tasks, flags, deadline, current, context, irq, ipi>>
  BY DEF sched_dispatch, sched_yield_next
<1>3. lock' \in Cpu \union {Free} /\ code' \in [Cpu -> Code]
  <2>1. CASE sched_dispatch(c, t, d)
    BY <2>1 DEF sched_dispatch, IInv, TypeOK
  <2>2. CASE sched_yield_next(c, t)
    <3>1. [at |-> code[c].at, in |-> "int"] \in Code
      BY CodeTyped DEF IInv, Phase
    <3> QED
      BY <2>2, <3>1 DEF sched_yield_next, Goto, IInv, TypeOK
  <2> QED
    BY <2>1, <2>2
<1> QED
  BY <1>1, <1>2, <1>3 DEF IInv, TypeOK, NextTyped, IdleNeverStarted, flags

\* The steps of the interrupt handlers that attach nothing.
LEMMA InterruptStep ==
  ASSUME IInv, NEW c \in Cpu,
         \/ sched_schedule(c) \/ sched_schedule_unlock(c) \/ sched_switch_other(c)
         \/ IpiResched(c) \/ arch_yield(c) \/ sched_switch(c)
  PROVE  IInv'
<1>1. UNCHANGED <<tasks, flags, next>>
  BY DEF sched_schedule, sched_schedule_unlock, sched_switch_other, IpiResched, arch_yield, sched_switch
<1>2. NextDistinct' /\ IdleNeverStarted'
  BY <1>1 DEF IInv, NextDistinct, IdleNeverStarted, flags
<1>3. irq' \in [Cpu -> Handler] /\ lock' \in Cpu \union {Free} /\ ipi' \in SUBSET Cpu
  BY DEF sched_schedule, sched_schedule_unlock, sched_switch_other, IpiResched, arch_yield,
         sched_switch, IInv, TypeOK, Handler
<1>4. context' \in [Task -> Code]
  <2>1. code[c] \in Code /\ At(code[c].at) \in Code
    BY CodeTyped DEF IInv
  <2>2. context' = context \/ context' = [context EXCEPT ![current[c]] = code[c]]
          \/ context' = [context EXCEPT ![current[c]] = At(code[c].at)]
    BY DEF sched_schedule, sched_schedule_unlock, sched_switch_other, IpiResched, arch_yield,
           sched_switch, context_save
  <2>3. context \in [Task -> Code]
    BY DEF IInv, TypeOK
  <2> QED
    BY <2>1, <2>2, <2>3
<1>5. current' \in [Cpu -> Task] /\ code' \in [Cpu -> Code]
  BY DEF sched_schedule, sched_schedule_unlock, sched_switch_other, IpiResched, arch_yield,
         sched_switch, IInv, TypeOK
<1>6. /\ time_start' \in [Task -> 0 .. MaxAge]
      /\ time_end' \in [Task -> 0 .. MaxAge]
      /\ deadline' \in [Task -> -1 .. Never]
  <2>1. CASE sched_schedule(c)
    <3>1. \A age \in 0 .. MaxAge : Older(age) \in 0 .. MaxAge
      BY SchedAssumption DEF Older
    <3>2. \A x \in -1 .. Never : x \notin {-1, Never} => x - 1 \in -1 .. Never
      BY SchedAssumption DEF Never
    <3>3. /\ time_start \in [Task -> 0 .. MaxAge]
          /\ time_end \in [Task -> 0 .. MaxAge]
          /\ deadline \in [Task -> -1 .. Never]
      BY DEF IInv, TypeOK
    <3>4. /\ time_start' = [t \in Task |-> Older(time_start[t])]
          /\ time_end' = [t \in Task |-> Older(time_end[t])]
          /\ deadline' = [t \in Task |-> IF deadline[t] \in {-1, Never} THEN deadline[t]
                                         ELSE deadline[t] - 1]
      BY <2>1 DEF sched_schedule
    <3>5. time_start' \in [Task -> 0 .. MaxAge] /\ time_end' \in [Task -> 0 .. MaxAge]
      BY <3>1, <3>3, <3>4
    <3>6. deadline' \in [Task -> -1 .. Never]
      BY <3>2, <3>3, <3>4
    <3> QED
      BY <3>5, <3>6
  <2>2. CASE ~sched_schedule(c)
    BY <2>2 DEF sched_schedule_unlock, sched_switch_other, IpiResched, arch_yield, sched_switch,
                times, IInv, TypeOK
  <2> QED
    BY <2>1, <2>2
<1> QED
  BY <1>1, <1>2, <1>3, <1>4, <1>5, <1>6 DEF IInv, TypeOK, flags

\* A step of a CPU's code that moves it and leaves queue, next and contexts alone.
LEMMA CodeFrame ==
  ASSUME IInv, NEW c \in Cpu, NEW w \in Code,
         code' = code \/ code' = [code EXCEPT ![c] = w],
         lock' \in Cpu \union {Free},
         stopped' \in SUBSET Task, blocked' \in SUBSET Task, in_syscall' \in SUBSET Task,
         deadline' \in [Task -> -1 .. Never],
         UNCHANGED <<tasks, started, times, current, next, context, irq, ipi>>
  PROVE  IInv'
<1>1. code' \in [Cpu -> Code]
  <2>1. code \in [Cpu -> Code]
    BY DEF IInv, TypeOK
  <2> QED
    BY <2>1
<1>2. NextDistinct' /\ IdleNeverStarted'
  BY DEF IInv, NextDistinct, IdleNeverStarted
<1>3. TypeOK'
  BY <1>1 DEF IInv, TypeOK, times
<1> QED
  BY <1>2, <1>3 DEF IInv

\* The types that the steps below rely on.
LEMMA FlagsTyped ==
  ASSUME IInv
  PROVE  /\ lock \in Cpu \union {Free}
         /\ stopped \in SUBSET Task
         /\ blocked \in SUBSET Task
         /\ in_syscall \in SUBSET Task
         /\ deadline \in [Task -> -1 .. Never]
         /\ User \subseteq Task
         /\ \A c \in Cpu : current[c] \in Task
BY SchedAssumption DEF IInv, TypeOK

\* Entering and leaving a system call.
LEMMA SyscallStep ==
  ASSUME IInv, NEW c \in Cpu,
         \/ task_begin_syscall(c) \/ task_begin_syscall_set(c)
         \/ task_end_syscall(c) \/ task_end_syscall_check(c)
  PROVE  IInv'
<1>1. /\ UNCHANGED <<lock, tasks, started, stopped, blocked, times, deadline,
                    current, next, context, irq, ipi>>
      /\ \/ in_syscall' = in_syscall
         \/ in_syscall' = in_syscall \union {current[c]}
         \/ in_syscall' = in_syscall \ {current[c]}
  BY DEF task_begin_syscall, task_begin_syscall_set, task_end_syscall,
         task_end_syscall_check, flags
<1>2. in_syscall' \in SUBSET Task
  BY <1>1, FlagsTyped
<1>3. PICK w \in Code : code' = [code EXCEPT ![c] = w]
  <2>1. \A p \in Place : At(p) \in Code /\ Yielding(p) \in Code
    BY CodeTyped DEF IInv
  <2>2. {"enter", "sys", "leave", "user"} \subseteq Place
    BY DEF Place
  <2>3. CASE task_begin_syscall(c)
    BY <2>1, <2>2, <2>3 DEF task_begin_syscall, Goto
  <2>4. CASE task_begin_syscall_set(c)
    BY <2>1, <2>2, <2>4 DEF task_begin_syscall_set, Goto
  <2>5. CASE task_end_syscall(c)
    BY <2>1, <2>2, <2>5 DEF task_end_syscall, Goto
  <2>6. CASE task_end_syscall_check(c)
    BY <2>1, <2>2, <2>6 DEF task_end_syscall_check, Goto
  <2> QED
    BY <2>3, <2>4, <2>5, <2>6
<1> QED
  BY <1>1, <1>2, <1>3, FlagsTyped, CodeFrame

\* Stopping a task: sys_exit and the end of a boot task.
LEMMA StopStep ==
  ASSUME IInv, NEW c \in Cpu, sched_stop(c) \/ \E t \in User : sys_exit(c, t)
  PROVE  IInv'
<1>1. /\ UNCHANGED <<lock, tasks, started, blocked, in_syscall, times, deadline,
                    current, next, context, irq, ipi>>
      /\ \E t \in Task : stopped' = stopped \union {t}
  BY FlagsTyped DEF sched_stop, sys_exit, cpus
<1>2. stopped' \in SUBSET Task
  BY <1>1, FlagsTyped
<1>3. \E w \in Code : code' = code \/ code' = [code EXCEPT ![c] = w]
  <2>1. At("panic") \in Code /\ Yielding("panic") \in Code
    BY CodeTyped DEF IInv, Place
  <2> QED
    BY <2>1 DEF sched_stop, sys_exit, Goto, cpus
<1> QED
  BY <1>1, <1>2, <1>3, FlagsTyped, CodeFrame

\* Blocking: sys_ipc and the finalizer's wait.
LEMMA BlockStep ==
  ASSUME IInv, NEW c \in Cpu,
         finalizer(c) \/ \E timeout \in 0 .. Never : sys_ipc(c, timeout)
  PROVE  IInv'
<1>1. PICK timeout \in 0 .. Never, place \in Place : sched_block(c, timeout, place)
  <2>1. MaxTimeout \in 0 .. Never /\ "fin" \in Place /\ "sys" \in Place
    BY SchedAssumption DEF Never, Place
  <2> QED
    BY <2>1 DEF finalizer, sys_ipc
<1>2. timeout \in -1 .. Never
  BY SchedAssumption DEF Never
<1>3. /\ blocked' \in SUBSET Task
      /\ deadline' \in [Task -> -1 .. Never]
  BY <1>1, <1>2, FlagsTyped DEF sched_block
<1>4. Yielding(place) \in Code /\ code' = [code EXCEPT ![c] = Yielding(place)]
  BY <1>1, CodeTyped DEF IInv, sched_block, Goto
<1>5. UNCHANGED <<lock, tasks, started, stopped, in_syscall, times,
                  current, next, context, irq, ipi>>
  BY <1>1 DEF sched_block
<1> QED
  BY <1>3, <1>4, <1>5, FlagsTyped, CodeFrame

\* Locking and unlocking in sched_finalize.
LEMMA FinalizeStep ==
  ASSUME IInv, NEW c \in Cpu, sched_finalize(c) \/ sched_finalize_end(c)
  PROVE  IInv'
<1>1. /\ lock' \in Cpu \union {Free}
      /\ UNCHANGED <<tasks, flags, times, deadline, current, next, context, irq, ipi>>
  BY DEF sched_finalize, sched_finalize_end
<1>2. \E w \in Code : code' = [code EXCEPT ![c] = w]
  <2>1. At(code[c].at) \in Code
    BY CodeTyped DEF IInv
  <2>2. [at |-> "fin_block", in |-> "dequeue"] \in Code
    BY DEF Code, Place, Phase
  <2> QED
    BY <2>1, <2>2 DEF sched_finalize, sched_finalize_end, Goto
<1> QED
  BY <1>1, <1>2, FlagsTyped, CodeFrame DEF flags

\* sched_start queues a task that is not an idle task, or the machine stops.
LEMMA StartStep ==
  ASSUME IInv, NEW c \in Cpu,
         init_start(c) \/ \E t \in User : sys_start(c, t)
  PROVE  IInv'
<1>1. PICK t \in User : sched_start(t)
  BY SchedAssumption DEF init_start, sys_start
<1>2. t \in Task /\ \A d \in Cpu : idle[d] # t
  BY SchedAssumption
<1>3. UNCHANGED <<lock, stopped, blocked, in_syscall, times, deadline, current, next, ipi>>
  BY <1>1 DEF sched_start
<1>4. code' \in [Cpu -> Code]
  <2>1. At("stop") \in Code
    BY CodeTyped DEF IInv, Place
  <2> QED
    BY <2>1 DEF init_start, sys_start, Goto, IInv, TypeOK
<1>5. /\ started' \in SUBSET Task
      /\ irq' \in [Cpu -> Handler]
      /\ IdleNeverStarted'
  BY <1>1, <1>2 DEF sched_start, arch_stop, Handler, IInv, TypeOK, IdleNeverStarted
<1>6. tasks' \in Seq(Task)
  <2>1. tasks \in Seq(Task)
    BY DEF IInv, TypeOK
  <2>2. Append(tasks, t) \in Seq(Task)
    BY <1>2, <2>1, AppendProperties
  <2> QED
    BY <1>1, <2>1, <2>2 DEF sched_start
<1>7. context' \in [Task -> Code]
  <2>1. At("user") \in Code
    BY CodeTyped DEF IInv, Place
  <2> QED
    BY <1>1, <2>1 DEF sched_start, IInv, TypeOK
<1>8. NextDistinct'
  BY <1>3 DEF IInv, NextDistinct
<1> QED
  BY <1>3, <1>4, <1>5, <1>6, <1>7, <1>8 DEF IInv, TypeOK, times

\* sched_dequeue leaves a sequence of tasks.
LEMMA DequeueStep ==
  ASSUME IInv, NEW c \in Cpu, NEW i \in 1 .. Len(tasks), sched_dequeue(c, i)
  PROVE  IInv'
<1>1. tasks \in Seq(Task)
  BY DEF IInv, TypeOK
<1>2. SubSeq(tasks, 1, i - 1) \in Seq(Task)
  BY <1>1, SubSeqProperties
<1>3. SubSeq(tasks, i + 1, Len(tasks)) \in Seq(Task)
  BY <1>1, SubSeqProperties
<1>4. tasks' \in Seq(Task)
  BY <1>2, <1>3, ConcatProperties DEF sched_dequeue
<1>5. UNCHANGED <<lock, flags, times, deadline, cpus>>
  BY DEF sched_dequeue
<1> QED
  BY <1>4, <1>5 DEF IInv, TypeOK, NextDistinct, IdleNeverStarted, flags, times, cpus

LEMMA NextIInv == IInv /\ [Next]_vars => IInv'
<1> SUFFICES ASSUME IInv, [Next]_vars
             PROVE  IInv'
  OBVIOUS
<1>1. CASE UNCHANGED vars
  BY <1>1 DEF IInv, TypeOK, NextDistinct, IdleNeverStarted, vars, flags, times, cpus
<1>2. CASE Next
  <2> PICK c \in Cpu : Interrupt(c) \/ Run(c) \/ Halted(c)
    BY <1>2 DEF Next
  <2>1. CASE Interrupt(c)
    BY <2>1, InterruptStep, UpdateStep, AttachStep DEF Interrupt
  <2>2. CASE Run(c)
    <3>1. CASE sched_yield(c)
      BY <3>1, UpdateStep
    <3>2. CASE \E t \in Task : sched_yield_next(c, t)
      BY <3>2, AttachStep
    <3>3. CASE init_start(c) \/ \E t \in User : sys_start(c, t)
      BY <3>3, StartStep
    <3>4. CASE \E i \in 1 .. Len(tasks) : sched_dequeue(c, i)
      BY <3>4, DequeueStep
    <3> QED
      BY <2>2, <3>1, <3>2, <3>3, <3>4, SyscallStep, StopStep, BlockStep, FinalizeStep DEF Run
  <2>3. CASE Halted(c)
    BY <1>1, <2>3 DEF Halted
  <2> QED
    BY <2>1, <2>2, <2>3
<1> QED
  BY <1>1, <1>2

(***************************************************************************)
(* On any number of CPUs and for any set of tasks, whatever ticks, yields,  *)
(* IPIs, starts and stops are interleaved: the next task of a CPU is never  *)
(* null and never next on another CPU, and only its own idle task is ever   *)
(* attached to a CPU (sched_next and its callers, sched.c:110-348).         *)
(***************************************************************************)
THEOREM SchedSafe == Spec => [](TypeOK /\ NextDistinct)
<1>1. Init => IInv
  BY InitIInv
<1>2. IInv /\ [Next]_vars => IInv'
  BY NextIInv
<1>3. IInv => TypeOK /\ NextDistinct
  BY DEF IInv
<1> QED
  BY <1>1, <1>2, <1>3, PTL DEF Spec
=============================================================================
