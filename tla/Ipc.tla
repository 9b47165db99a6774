--------------------------------- MODULE Ipc ---------------------------------
(***************************************************************************)
(* Kernel objects and the system calls that pass references to them: the   *)
(* reference counts and the global table of object.c, the handles of a     *)
(* task's domain (domain.c, brutal-ds/slot.c), the parcels of a channel    *)
(* (parcel.c, channel.c), the mappings of a space (space.c), and the queue *)
(* of the scheduler, which also holds references.                          *)
(*                                                                         *)
(* A step is a section of code that no other task or CPU can interleave    *)
(* with, because of a lock or because it touches only what one task owns.  *)
(* A domain is such a thing: it has no handle, and only its task, or the   *)
(* blocker of its task while that is blocked, looks into it.  Every        *)
(* object_deref is a step of its own; the ones a task has still to execute *)
(* are its `derefs`, to which a destructor adds.                           *)
(*                                                                         *)
(* A ring is the bounded queue that module Ring shows it to be.  A full    *)
(* handle table grows in the code; here MaxHandle bounds it.               *)
(***************************************************************************)
EXTENDS Naturals, Sequences, FiniteSets, FiniteSetsExt, SequencesExt

CONSTANTS Task, Memory, Space,   \* the objects that may come to exist
          None,
          InitTask, InitSpace,   \* the task of init_start and its space
          Finalizer,             \* the task that runs sched_finalize
          Programs,              \* what the programs do: [calls, objects], the system calls they
                                 \* make and the objects they create,
          Messages,              \* the handles in the messages they send, [Args -> Handle or None],
          IpcFlags,              \* and the flags with which they call sys_ipc
          ArgCount,              \* BR_MSG_ARG_COUNT
          ChannelSize,           \* IPC_CHANNEL_SIZE
          MaxHandle,             \* bound on the handles of a domain
          MaxMmap,               \* bound on the mappings of a space
          MaxInspect             \* bound on the calls of sys_inspect per object

Obj == Task \union Memory \union Space

ASSUME IpcAssumption ==
  /\ InitTask \in Task
  /\ InitSpace \in Space
  /\ Finalizer \notin Obj
  /\ None \notin Obj
  /\ Task \cap Memory = {} /\ Task \cap Space = {} /\ Memory \cap Space = {}
  /\ {ArgCount, ChannelSize, MaxHandle, MaxMmap} \subseteq Nat \ {0}
  /\ MaxInspect \in Nat

Handle == 0 .. MaxHandle - 1
Self == MaxHandle                \* BR_HANDLE_SELF
Args == 1 .. ArgCount
Thread == Task \union {Finalizer}

VARIABLES ids,        \* the objects created so far; _id is never reused
          global,     \* _global: the objects not destroyed
          refs,       \* Object.refcount
          objects,    \* Task.domain->objects; None is an unused slot
          space,      \* Task.space
          mmaps,      \* Space.mmaps, the memory of each
          msgs,       \* Task.channel->msgs
          tasks,      \* _tasks of the scheduler
          started,
          stopped,
          frame,      \* the system call of each task
          derefs,     \* the object_deref each thread has still to execute
          lost,       \* ghost: references that nothing will ever release
          program     \* the element of Programs that is executed, which never changes

vars == <<ids, global, refs, objects, space, mmaps, msgs, tasks, started, stopped,
          frame, derefs, lost, program>>

Results == {"BR_SUCCESS", "BR_CHANNEL_FULL", "BR_CHANNEL_EMPTY", "BR_BAD_HANDLE",
            "BR_TIMEOUT", "BR_INTERRUPTED"}

Parcel == [Args -> Obj \union {None}]

(***************************************************************************)
(* frame.at: "user", or where sys_ipc is: before the call of channel_send   *)
(* or channel_recv, or blocked inside it.  frame.to is the referenced       *)
(* receiver, frame.args the handles to send, frame.result what the last     *)
(* channel call returned, frame.moved (a ghost) whether a parcel entered or *)
(* left a channel for it.                                                   *)
(***************************************************************************)
Frame == [at : {"user", "send", "send_wait", "recv", "recv_wait", "return"},
          to : Task \union {None},
          args : [Args -> Handle \union {None}],
          flags : IpcFlags \union {{}},
          result : Results,
          moved : BOOLEAN]

NoArgs == [i \in Args |-> None]

InUser == [at |-> "user", to |-> None, args |-> NoArgs, flags |-> {},
           result |-> "BR_SUCCESS", moved |-> TRUE]

\* init_start keeps one reference to the first task (its task_ref, init.c:98).
Init ==
  /\ ids = {InitTask, InitSpace}
  /\ global = ids
  /\ refs = [o \in Obj |-> IF o = InitTask THEN 2 ELSE IF o = InitSpace THEN 1 ELSE 0]
  /\ objects = [t \in Task |-> [h \in Handle |-> None]]
  /\ space = [t \in Task |-> IF t = InitTask THEN InitSpace ELSE None]
  /\ mmaps = [s \in Space |-> <<>>]
  /\ msgs = [t \in Task |-> <<>>]
  /\ tasks = {InitTask}
  /\ started = {InitTask}
  /\ stopped = {}
  /\ frame = [t \in Task |-> InUser]
  /\ derefs = [a \in Thread |-> <<>>]
  /\ lost = [o \in Obj |-> IF o = InitTask THEN 1 ELSE 0]
  /\ program \in Programs
-----------------------------------------------------------------------------
\* How often an object occurs in a sequence or parcel.
Occurs(s, o) == Cardinality({i \in DOMAIN s : s[i] = o})

\* refcount_ref of each object of a sequence.
object_ref(s) == refs' = [o \in Obj |-> refs[o] + Occurs(s, o)]

slot_alloc(slots) == Min({h \in Handle : slots[h] = None})

domain_add(slots, o) == IF o = None THEN slots ELSE [slots EXCEPT ![slot_alloc(slots)] = o]

Room(t, n) == Cardinality({h \in Handle : objects[t][h] = None}) >= n

\* The object of a handle if it is of the type asked for.
domain_lookup(t, h, type) == IF h \in Handle /\ objects[t][h] \in type THEN objects[t][h] ELSE None

\* The idiom of the system calls: BR_HANDLE_SELF, or a lookup.
lookup_or_self(t, h, type, self) == IF h = Self THEN self ELSE domain_lookup(t, h, type)

\* The references that destructors give up, in the order of their object_deref.
task_destroy_derefs(t) ==
  <<space[t]>> \o SelectSeq([i \in 1 .. MaxHandle |-> objects[t][i - 1]], LAMBDA o : o # None)

\* space_destroy steps over the mapping that vec_splice moves to the index it has just done.
space_destroy_derefs(s) == [i \in 1 .. (Len(mmaps[s]) + 1) \div 2 |-> mmaps[s][2 * i - 1]]

\* What they forget: the parcels of the channel and the receiver of a blocked send;
\* every second mapping.
Forgotten(o, x) ==
  IF o \in Task
    THEN MapThenSumSet(LAMBDA i : Occurs(msgs[o][i], x), DOMAIN msgs[o])
           + (IF frame[o].to = x THEN 1 ELSE 0)
    ELSE IF o \in Space
           THEN Occurs(mmaps[o], x) - Occurs(space_destroy_derefs(o), x)
           ELSE 0
-----------------------------------------------------------------------------
(* References.                                                              *)

\* object_deref, of the next object on the thread's list: the last reference
\* takes the object out of _global and runs its destructor.
object_deref(a) ==
  /\ derefs[a] # <<>>
  /\ LET o == Head(derefs[a])
         last == refs[o] = 1
         dtor == CASE ~last -> <<>>
                   [] last /\ o \in Task -> task_destroy_derefs(o)
                   [] last /\ o \in Space -> space_destroy_derefs(o)
                   [] OTHER -> <<>>
     IN /\ refs' = [refs EXCEPT ![o] = @ - 1]
        /\ derefs' = [derefs EXCEPT ![a] = dtor \o Tail(@)]
        /\ IF last
             THEN /\ global' = global \ {o}
                  /\ lost' = [x \in Obj |-> lost[x] + Forgotten(o, x)]
                  /\ objects' = [t \in Task |-> IF t = o THEN [h \in Handle |-> None] ELSE objects[t]]
                  /\ space' = [t \in Task |-> IF t = o THEN None ELSE space[t]]
                  /\ msgs' = [t \in Task |-> IF t = o THEN <<>> ELSE msgs[t]]
                  /\ frame' = [t \in Task |-> IF t = o THEN InUser ELSE frame[t]]
                  /\ mmaps' = [x \in Space |-> IF x = o THEN <<>> ELSE mmaps[x]]
             ELSE UNCHANGED <<global, lost, objects, space, msgs, frame, mmaps>>
  /\ UNCHANGED <<ids, tasks, started, stopped>>

\* A task that executes user code makes a system call.
Calls(t, syscall) ==
  /\ syscall \in program.calls
  /\ t \in tasks /\ t \notin stopped
  /\ frame[t].at = "user" /\ derefs[t] = <<>>

\* A task inside sys_ipc, at the given place and not blocked.
InIpc(t, place) == frame[t].at = place /\ derefs[t] = <<>>

Release(t, s) == derefs' = [derefs EXCEPT ![t] = s]

-----------------------------------------------------------------------------
(* System calls that create, copy, give up and use handles.                 *)

\* object_init with one reference, domain_add with another, memory_deref of the first.
sys_create_memory(t, m) ==
  /\ Calls(t, "sys_create_memory")
  /\ m \in Memory \ ids /\ Room(t, 1)
  /\ ids' = ids \union {m}
  /\ global' = global \union {m}
  /\ object_ref(<<m, m>>)
  /\ objects' = [objects EXCEPT ![t] = domain_add(@, m)]
  /\ Release(t, <<m>>)
  /\ UNCHANGED <<space, mmaps, msgs, tasks, started, stopped, frame, lost>>

sys_create_space(t, s) ==
  /\ Calls(t, "sys_create_space")
  /\ s \in Space \ ids /\ Room(t, 1)
  /\ ids' = ids \union {s}
  /\ global' = global \union {s}
  /\ object_ref(<<s, s>>)
  /\ objects' = [objects EXCEPT ![t] = domain_add(@, s)]
  /\ Release(t, <<s>>)
  /\ UNCHANGED <<space, mmaps, msgs, tasks, started, stopped, frame, lost>>

\* The lookup's reference to the space, and the one of task_create.
sys_create_task(t, h, new) ==
  /\ Calls(t, "sys_create_task")
  /\ new \in Task \ ids /\ Room(t, 1)
  /\ LET s == lookup_or_self(t, h, Space, space[t])
     IN /\ s # None
        /\ object_ref(<<s, s, new, new>>)
        /\ space' = [space EXCEPT ![new] = s]
        /\ Release(t, <<s, new>>)
  /\ ids' = ids \union {new}
  /\ global' = global \union {new}
  /\ objects' = [objects EXCEPT ![t] = domain_add(@, new)]
  /\ UNCHANGED <<mmaps, msgs, tasks, started, stopped, frame, lost>>

sys_dup(t, h) ==
  /\ Calls(t, "sys_dup")
  /\ Room(t, 1)
  /\ LET o == domain_lookup(t, h, Obj)
     IN /\ o # None
        /\ object_ref(<<o, o>>)
        /\ objects' = [objects EXCEPT ![t] = domain_add(@, o)]
        /\ Release(t, <<o>>)
  /\ UNCHANGED <<ids, global, space, mmaps, msgs, tasks, started, stopped, frame, lost>>

\* domain_remove
sys_close(t, h) ==
  /\ Calls(t, "sys_close")
  /\ objects[t][h] # None
  /\ objects' = [objects EXCEPT ![t][h] = None]
  /\ Release(t, <<objects[t][h]>>)
  /\ UNCHANGED <<ids, global, refs, space, mmaps, msgs, tasks, started, stopped, frame, lost>>

\* The reference of its lookup is never released.
sys_inspect(t, h) ==
  /\ Calls(t, "sys_inspect")
  /\ LET o == domain_lookup(t, h, Obj)
     IN /\ o # None
        /\ lost[o] < MaxInspect
        /\ object_ref(<<o>>)
        /\ lost' = [lost EXCEPT ![o] = @ + 1]
  /\ UNCHANGED <<ids, global, objects, space, mmaps, msgs, tasks, started, stopped, frame, derefs>>

\* A task that was started before fails the assertion of sched_start (module Sched).
sys_start(t, h) ==
  /\ Calls(t, "sys_start")
  /\ LET u == domain_lookup(t, h, Task)
     IN /\ u # None /\ u \notin started
        /\ object_ref(<<u, u>>)
        /\ started' = started \union {u}
        /\ tasks' = tasks \union {u}
        /\ Release(t, <<u>>)
  /\ UNCHANGED <<ids, global, objects, space, mmaps, msgs, stopped, frame, lost>>

sys_exit(t, h) ==
  /\ Calls(t, "sys_exit")
  /\ LET u == lookup_or_self(t, h, Task, t)
     IN /\ u # None
        /\ object_ref(<<u>>)
        /\ stopped' = stopped \union {u}
        /\ Release(t, <<u>>)
  /\ UNCHANGED <<ids, global, objects, space, mmaps, msgs, tasks, started, frame, lost>>

\* The lookups' references, then space_map fails or takes one for the mapping.
space_map(s, m) ==
  \/ /\ object_ref(<<s, m>>)
     /\ UNCHANGED mmaps
  \/ /\ Len(mmaps[s]) < MaxMmap
     /\ object_ref(<<s, m, m>>)
     /\ mmaps' = [mmaps EXCEPT ![s] = Append(@, m)]

sys_map(t, hs, hm) ==
  /\ Calls(t, "sys_map")
  /\ LET s == lookup_or_self(t, hs, Space, space[t])
         m == domain_lookup(t, hm, Memory)
     IN /\ s # None
        /\ \/ /\ m = None
              /\ object_ref(<<s>>)
              /\ Release(t, <<s>>)
              /\ UNCHANGED mmaps
           \/ /\ m # None
              /\ space_map(s, m)
              /\ Release(t, <<s, m>>)
  /\ UNCHANGED <<ids, global, objects, space, msgs, tasks, started, stopped, frame, lost>>

\* The i-th mapping is the one with the range asked for; 0: there is none.
sys_unmap(t, hs, i) ==
  /\ Calls(t, "sys_unmap")
  /\ LET s == lookup_or_self(t, hs, Space, space[t])
     IN /\ s # None /\ i <= Len(mmaps[s])
        /\ object_ref(<<s>>)
        /\ IF i = 0
             THEN Release(t, <<s>>) /\ UNCHANGED mmaps
             ELSE /\ mmaps' = [mmaps EXCEPT ![s] = RemoveAt(@, i)]
                  /\ Release(t, <<mmaps[s][i], s>>)
  /\ UNCHANGED <<ids, global, objects, space, msgs, tasks, started, stopped, frame, lost>>
-----------------------------------------------------------------------------
(* sys_ipc: BR_IPC_SEND, BR_IPC_RECV or both, with or without BR_IPC_BLOCK. *)

\* A mutation: no reference is taken.
global_lookup_unreferenced(to) == to \in global /\ UNCHANGED refs

\* An id that is not in _global is answered with BR_BAD_ID and changes nothing.
global_lookup(to) == to \in global /\ object_ref(<<to>>)

sys_ipc(t, to, args, flags) ==
  /\ Calls(t, "sys_ipc")
  /\ \/ /\ "BR_IPC_SEND" \in flags
        /\ global_lookup(to)
        /\ frame' = [frame EXCEPT ![t] = [InUser EXCEPT !.at = "send", !.to = to, !.args = args,
                                                       !.flags = flags]]
     \/ /\ "BR_IPC_SEND" \notin flags /\ "BR_IPC_RECV" \in flags
        /\ frame' = [frame EXCEPT ![t] = [InUser EXCEPT !.at = "recv", !.flags = flags]]
        /\ UNCHANGED refs
  /\ UNCHANGED <<ids, global, objects, space, mmaps, msgs, tasks, started, stopped, derefs, lost>>

\* parcel_pack: the objects of the handles sent, each with a reference.
parcel_pack(t) == [i \in Args |-> IF frame[t].args[i] = None THEN None
                                  ELSE domain_lookup(t, frame[t].args[i], Obj)]

BadHandle(t) == \E i \in Args : frame[t].args[i] # None /\ parcel_pack(t)[i] = None

\* A mutation: parcel_pack returns without parcel_deinit.
parcel_pack_failed_kept(t) == object_ref(parcel_pack(t))

\* After a bad handle, parcel_deinit undoes the lookups of parcel_pack.
parcel_pack_failed(t) == UNCHANGED refs

parcel_pack_ok(t) == object_ref(parcel_pack(t))

ring_full(to) == Len(msgs[to]) = ChannelSize

channel_send_unlock(t, result) ==
  LET to == frame[t].to
  IN \/ /\ ring_full(to)
        /\ result = "BR_CHANNEL_FULL"
        /\ UNCHANGED <<msgs, refs>>
     \/ /\ ~ring_full(to) /\ BadHandle(t)
        /\ result = "BR_BAD_HANDLE"
        /\ parcel_pack_failed(t)
        /\ UNCHANGED msgs
     \/ /\ ~ring_full(to) /\ ~BadHandle(t)
        /\ result = "BR_SUCCESS"
        /\ msgs' = [msgs EXCEPT ![to] = Append(@, parcel_pack(t))]
        /\ parcel_pack_ok(t)

\* A handle for each object; parcel_deinit then gives back the parcel's references,
\* which leaves every count as it was.
parcel_unpack(slots, parcel) == FoldLeft(domain_add, slots, parcel)

channel_recv_unlock(t, result) ==
  \/ /\ msgs[t] = <<>>
     /\ result = "BR_CHANNEL_EMPTY"
     /\ UNCHANGED <<msgs, objects>>
  \/ /\ msgs[t] # <<>> /\ Room(t, ArgCount)
     /\ result = "BR_SUCCESS"
     /\ msgs' = [msgs EXCEPT ![t] = Tail(@)]
     /\ objects' = [objects EXCEPT ![t] = parcel_unpack(@, Head(msgs[t]))]

\* The end of channel_send: task_deref of the receiver; sys_ipc goes on to receive
\* if the message was sent and that was asked for.
SendReturns(t, result, moved) ==
  LET goes_on == result = "BR_SUCCESS" /\ "BR_IPC_RECV" \in frame[t].flags
  IN /\ frame' = [frame EXCEPT ![t] = [InUser EXCEPT
                     !.at = IF goes_on THEN "recv" ELSE "return",
                     !.flags = IF goes_on THEN frame[t].flags ELSE {},
                     !.result = result, !.moved = moved]]
     /\ Release(t, <<frame[t].to>>)

RecvReturns(t, result, moved) ==
  frame' = [frame EXCEPT ![t] = [InUser EXCEPT !.at = "return", !.result = result, !.moved = moved]]

\* channel_send_non_blocking, or the first try of sched_block.
channel_send(t, result) ==
  /\ InIpc(t, "send")
  /\ channel_send_unlock(t, result)
  /\ "BR_IPC_BLOCK" \in frame[t].flags => result # "BR_CHANNEL_FULL"
  /\ SendReturns(t, result, result = "BR_SUCCESS")
  /\ UNCHANGED <<ids, global, objects, space, mmaps, tasks, started, stopped, lost>>

channel_recv(t, result) ==
  /\ InIpc(t, "recv")
  /\ channel_recv_unlock(t, result)
  /\ "BR_IPC_BLOCK" \in frame[t].flags => result # "BR_CHANNEL_EMPTY"
  /\ RecvReturns(t, result, result = "BR_SUCCESS")
  /\ UNCHANGED <<ids, global, refs, space, mmaps, tasks, started, stopped, derefs, lost>>

\* sched_block after a first try that found the channel full, empty or locked.
sched_block(t) ==
  /\ frame[t].at \in {"send", "recv"} /\ derefs[t] = <<>>
  /\ "BR_IPC_BLOCK" \in frame[t].flags
  /\ frame' = [frame EXCEPT ![t].at = IF @ = "send" THEN "send_wait" ELSE "recv_wait"]
  /\ UNCHANGED <<ids, global, refs, objects, space, mmaps, msgs, tasks, started, stopped,
                 derefs, lost>>

\* channel_wait_send and channel_wait_recv, which transfer the parcel themselves;
\* not reached: the channel is full, empty, or locked by another CPU.
channel_wait(t, reached, result) ==
  \/ /\ ~reached
     /\ result = "BR_CHANNEL_FULL"
     /\ UNCHANGED <<msgs, refs, objects>>
  \/ /\ reached /\ frame[t].at = "send_wait"
     /\ channel_send_unlock(t, result)
     /\ result # "BR_CHANNEL_FULL"
     /\ UNCHANGED objects
  \/ /\ reached /\ frame[t].at = "recv_wait"
     /\ channel_recv_unlock(t, result)
     /\ result # "BR_CHANNEL_EMPTY"
     /\ UNCHANGED refs

\* A mutation: the deadline is looked at before what the blocker did.
blocker_result_deadline_first(reached, expired, result) ==
  IF expired THEN "BR_TIMEOUT" ELSE IF reached THEN result ELSE "BR_INTERRUPTED"

blocker_result(reached, expired, result) ==
  IF reached THEN result ELSE IF expired THEN "BR_TIMEOUT" ELSE "BR_INTERRUPTED"

\* sched_updated_blocked, on any CPU, for one task whose wait it ends.
sched_updated_blocked(t, reached, expired, result) ==
  /\ t \in tasks
  /\ frame[t].at \in {"send_wait", "recv_wait"}
  /\ reached \/ expired \/ t \in stopped
  /\ channel_wait(t, reached, result)
  /\ LET returned == blocker_result(reached, expired, result)
         moved == reached /\ result = "BR_SUCCESS"
     IN \/ frame[t].at = "send_wait" /\ SendReturns(t, returned, moved)
        \/ frame[t].at = "recv_wait" /\ RecvReturns(t, returned, moved) /\ UNCHANGED derefs
  /\ UNCHANGED <<ids, global, space, mmaps, tasks, started, stopped, lost>>

\* The end of the system call.
sys_ipc_return(t) ==
  /\ InIpc(t, "return")
  /\ frame' = [frame EXCEPT ![t] = InUser]
  /\ UNCHANGED <<ids, global, refs, objects, space, mmaps, msgs, tasks, started, stopped,
                 derefs, lost>>

\* sched_finalize: a stopped task that is blocked in a system call leaves the queue.
sched_dequeue(t) ==
  /\ derefs[Finalizer] = <<>>
  /\ t \in tasks \cap stopped
  /\ frame[t].at \in {"send_wait", "recv_wait"}
  /\ tasks' = tasks \ {t}
  /\ Release(Finalizer, <<t>>)
  /\ UNCHANGED <<ids, global, refs, objects, space, mmaps, msgs, started, stopped, frame, lost>>

Syscall(t) ==
  \/ \E m \in Memory \cap program.objects : sys_create_memory(t, m)
  \/ \E s \in Space \cap program.objects : sys_create_space(t, s)
  \/ \E h \in Handle \union {Self}, new \in Task : sys_create_task(t, h, new)
  \/ \E h \in Handle : sys_dup(t, h) \/ sys_close(t, h) \/ sys_inspect(t, h) \/ sys_start(t, h)
  \/ \E h \in Handle \union {Self} : sys_exit(t, h)
  \/ \E hs \in Handle \union {Self}, hm \in Handle : sys_map(t, hs, hm)
  \/ \E hs \in Handle \union {Self}, i \in 0 .. MaxMmap : sys_unmap(t, hs, i)
  \/ \E to \in Task, args \in Messages, flags \in IpcFlags : sys_ipc(t, to, args, flags)

Next ==
  /\ UNCHANGED program
  /\ \/ \E a \in Thread : object_deref(a)
     \/ \E t \in Task :
          \/ Syscall(t)
          \/ \E result \in Results : channel_send(t, result) \/ channel_recv(t, result)
          \/ sched_block(t)
          \/ \E reached, expired \in BOOLEAN, result \in Results :
               sched_updated_blocked(t, reached, expired, result)
          \/ sys_ipc_return(t)
          \/ sched_dequeue(t)

Spec == Init /\ [][Next]_vars
-----------------------------------------------------------------------------
\* The pointers to an object: in domains, parcels, tasks, mappings, the scheduler's
\* queue, the frames of system calls and the object_deref to come.
Pointers(o) ==
  Cardinality({p \in Task \X Handle : objects[p[1]][p[2]] = o})
    + Cardinality({p \in Task \X (1 .. ChannelSize) \X Args :
                     p[2] <= Len(msgs[p[1]]) /\ msgs[p[1]][p[2]][p[3]] = o})
    + Cardinality({t \in Task : space[t] = o})
    + Cardinality({t \in Task : frame[t].to = o})
    + Cardinality({p \in Space \X (1 .. MaxMmap) : p[2] <= Len(mmaps[p[1]]) /\ mmaps[p[1]][p[2]] = o})
    + Cardinality(UNION {{<<a, i>> : i \in {j \in DOMAIN derefs[a] : derefs[a][j] = o}} : a \in Thread})
    + Cardinality({o} \cap tasks)

(***************************************************************************)
(* Whatever the system calls, the scheduler and the finalizer interleave,   *)
(* the count of an object (object.c:30-55) is the number of pointers to it, *)
(* plus the references that sys_inspect (syscalls.c:419), channel_destroy   *)
(* (channel.c:14), space_destroy (space.c:37), init_start (init.c:98) and a *)
(* finalized send have dropped without an object_deref; nothing else leaks  *)
(* a reference and nothing releases one twice.                              *)
(***************************************************************************)
RefsExact == \A o \in Obj : refs[o] = Pointers(o) + lost[o]

(***************************************************************************)
(* No handle, parcel, mapping, task, queue entry or system call in progress *)
(* points to an object whose destructor has run: object_deref destroys only *)
(* under the write lock and global_lookup takes its reference under the     *)
(* read lock (object.c:35-78).                                              *)
(***************************************************************************)
NoDanglingPointer == \A o \in Obj \ global : Pointers(o) = 0

(***************************************************************************)
(* A channel call returns BR_SUCCESS exactly when it moved a parcel, also   *)
(* when the parcel was moved by another CPU while a deadline passed or the  *)
(* task was stopped (sched.c:258-292, channel.c:61-137): no message is sent *)
(* by a call that reports a failure and none is taken out and dropped.      *)
(***************************************************************************)
ResultTellsTransfer ==
  \A t \in Task : frame[t].at \in {"recv", "return"}
                   => (frame[t].result = "BR_SUCCESS" <=> frame[t].moved)
=============================================================================
