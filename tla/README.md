# Brutal: a verification development

TLA+ models of the kernel of Brutal and of the library code it rests on, the TLC
runs that check them on small instances, and TLAPS proofs for every value of the
constants. Paths below are relative to `src/sources/` unless they start with `meta/`.
`PROJECT.json` holds the same information for tools: the components, the runs, the
mutated definitions each property is tried against, the lines each definition
translates, the hazards and the theorems.

## 1. The system

Brutal is a capability-based micro-kernel. The kernel owns processors, tasks, address
spaces, memory objects and channels. Everything else (drivers, the system server, the
window server, applications) is a user program that talks to the others by messages.

### Parts, their state and their operations

| Part | State | Operations | Module |
|---|---|---|---|
| Spin locks, `libs/brutal-sync/lock.c`, with the interrupt retention of `kernel/cpu.c` | lock word; per CPU `retain_enable`, `retain_depth`, interrupt flag | acquire, try, release; begin/end interrupt | `Lock` |
| Readers-writer lock, `libs/brutal-sync/rwlock.c` | `lock`, `readers`, `writers`, `pendings` | acquire, try, release for reading and writing | `RwLock` |
| Scheduler, `kernel/sched.c`, with `task.c`, `tasking.c`, `x86_64/interrupts.c` | queue `_tasks`; `current`, `next` of each CPU; flags, times and blocker of each task | start, stop, block, yield, the tick, the switch, finalization | `Sched` |
| Ring buffer, `libs/brutal-ds/ring.c` | `data`, `head`, `tail`, `used` | push, pop, clear | `Ring`, `Fifo` |
| Objects, `kernel/object.c`; domains, `domain.c`; parcels and channels, `parcel.c`, `channel.c`; the system calls of `syscalls.c` | reference counts, global table, handle tables, queues of parcels, mappings | the system calls, blocked sends and receives, destructors | `Ipc` |
| Events, `kernel/event.c` | table of bindings with their `ack` | bind, unbind, trigger, acknowledge | `Event` |
| Memory map of the loader, `libs/bal/boot/handover.c` | sorted entries | append with merging and splitting | `Handover`, `Ranges` |
| Physical memory, `kernel/pmm.c`, `x86_64/heap.c`, `libs/brutal-ds/bits.c` | bitmap, two best bets, used memory | boot from the map, alloc, used, unused | `Pmm`, `Frames` |
| Free addresses, `libs/brutal-ds/range.c` | list of free ranges | used, unused, alloc | `RangeAlloc` |
| Address spaces, `kernel/space.c`, `memory.c`, `x86_64/vmm.c` | mappings, page tables, memory objects | create, map, unmap, destroy | `Space` |
| Start of the other CPUs, `kernel/x86_64/smp.c`, `smp.s`, `boot.c` | mailbox, trampoline page, two `_ready` | boot one CPU at a time, the barrier | `Smp` |
| Heap, `libs/brutal-alloc/heap.c` | majors, minors, best bet | acquire, release, resize, deinit | `Heap` |
| Fibers, `libs/brutal-fibers` | ring of fibers, current fiber | start, yield, block, sleep, return | `Fibers` |
| Components, `libs/ipc` | pending requests, sequence number, providers | request, dispatch, respond | `Component` |
| Window server, PS/2 server and application as processes, `srvs/window`, `srvs/ps2`, `libs/embed/brutal/win.c` | clients, dirty flag, armed events | render, client requests, forwarding of input | `Window` |
| System server, `srvs/system` | units, capabilities | expose, provide, start | `Bus` |
| PS/2 drivers, `libs/hw/ps2` | output buffer, packet automata | the two interrupt handlers | `Ps2` |
| Views of a window, `libs/brutal-ui` | tree of views, view under the mouse, focus | mount, unmount, mouse and key events, buttons | `Ui` |
| Everything else | data of one program, device registers | pure, sequential or input and output | none, see section 7 |

### How they interact

* A lock of either kind retains interrupts, because the interrupt handlers take the
  same locks as the code they interrupt: the timer runs the scheduler, and every IRQ
  runs `event_trigger`, which takes the event table's lock and a channel's.
* The scheduler calls the blockers of blocked tasks under its own lock. The blocker of
  a channel call takes the channel's lock with `lock_try_acquire` and moves the parcel.
* A channel is a ring of parcels. A parcel owns one reference per object in it. Packing
  takes the references out of the sender's domain, unpacking puts handles into the
  receiver's.
* A system call looks a task up in the global table or an object up in its domain, and
  holds a reference until it returns. The last `object_deref` runs a destructor, which
  releases more objects.
* The nesting of locks in the paths read is: scheduler, channel (try only), domain,
  object table, then one of events, physical memory, heap or log; and in an interrupt
  handler events (reading), then channel. It has no cycle.

### What is hard here

Two CPUs inside the scheduler's data between the choice of `next` and the switch; a
tick at any instruction; a deadline, a message and a stop that race to release one
blocked task; a lookup that races the last release; an operation on several handles that
fails half-way; destructors that walk a vector while they shorten it; one interrupt
vector taken on two CPUs; a channel, a ring or a bitmap at its limit; processes that wait
for each other's answers; a byte that comes after the last look. `PROJECT.json` lists each
hazard at its line, with the property that covers it, what that property excludes, or why
there is none.

## 2. The modules

A step of a module is a section of code that no other actor can observe half-done: one
atomic access, a section under a lock, or code that touches only what one task owns.

### Lock

A *frame* is a call stack: each CPU has one for its current task and one for the
interrupt handler on top of it. `lock_acquire(f, l)` enters (`cpu_retain_interrupts`),
`lock_acquire_spin` is the successful exchange, `lock_try_acquire_taken` and `_failed`
are the two results of a try, `lock_release` clears the word and `lock_release_leave`
gives the retention back. `cpu_begin_interrupt` and `cpu_end_interrupt` bracket a
handler, which can start only while the interrupt flag is set. `held` is a ghost. Locks
are taken in the order of their numbers, as the kernel nests them.

The module has spin locks only. A CPU that also uses readers-writer locks starts each
spin lock at a higher depth (see `RwLock`), so `DepthCountsLocks` then holds up to that
offset. The two are not composed.

### RwLock

The same frames around `rwlock.c`. Between `w_pend` and `w_try` a writer has raised
`pendings` without the inner spin lock, and at `w_unpend` it writes and has not lowered
it. `SyscallSti` is the `sti` with which `syscall.s` enters the kernel, whatever the
retention depth. The ghost `pairs` counts the completed pairs of task code. User programs
run the same code with an empty embed layer, without handlers; what the module says of
the counters holds for them too.

### Sched

Each CPU executes the code of `current[c]`: `code[c]` says where it is and in which
phase of a `sched_yield`; a task that is not executed has that in `context[t]`. `irq[c]`
is the position in the interrupt handler. The timer interrupts the boot CPU only; its
`sched_schedule` updates the blocked tasks, dispatches to idle CPUs, to active CPUs and
to itself one task at a time under `_lock`, and sends IPIs. `sched_yield`, `arch_yield`
and `sched_switch` are separate steps, so a tick falls between them.

Abstractions: times are ages in ticks that saturate at `MaxAge`; what a blocker's
function returns is a free choice; `arch_stop` halts all CPUs at once; the switch and
the load of the context are one step; outside locks interrupts are enabled. The last one
allows more interleavings than the code: as `RwLock` shows, a CPU whose retention depth
does not return to 0 keeps interrupts off inside the kernel after its first
readers-writer pair, until the next system call's `sti`, the return to user code or the
flags of the next task it resumes.

### Ring and Fifo

`Ring` is `ring.c` with its array, which is never cleared. `Fifo` is what its users
rely on: a bounded queue, with what each operation returns. `IsFifo` is `Fifo`'s
specification under the mapping that reads the `used` slots from `tail` on.

### Ipc

Objects are tasks, memory objects and spaces. Each task has `objects` (its domain),
`msgs` (its channel), `space`, a `frame` for the system call in progress and `derefs`,
the `object_deref` calls still to be executed: a destructor adds to that list, and every
element is a step of its own. `tasks` is the scheduler's queue, which holds references
too. The blockers of blocked sends and receives, and the finalizer, are actions. `lost`
is a ghost that counts the references which the code drops without an `object_deref`.

Abstractions: deadlines pass at any time; a channel is the bounded queue that `Ring`
implements; rights and their tests are left out; a mapping is a position in the list and
not a range; the handle table is bounded by `MaxHandle` where the code grows it;
`sys_start` of a started task, which panics (see the run `sched_started`), is excluded
by a guard; a call that fails and changes nothing is a stuttering step. A domain is
touched only by its task, or by that task's blocker while it is blocked.

### Event

`event_trigger` on a CPU is split at its atomic accesses: the test and exchange of `ack`
(`compare_exchange`), the send (`event_dispatch`), the store after a failed send
(`event_drop`), the end. Several CPUs may be in it, since it holds the lock for reading,
as `event_ack` does. Operations under the write lock are single steps that wait for
readers, which is what `RwLock` shows. Tasks follow the drivers of `libs/hw`: they
acknowledge what they received. Binding twice, unbinding and dying are free. A send to
the freed channel of a destroyed task may find anything. The permission test of
`sys_bind` is left out.

### Handover and Ranges

`handover_mmap_append` is the recursive function of `handover.c` on a sorted sequence.
`firmware` is the boot path. The descriptors of EFI (`efi_reports`) overlap none of each
other and come in any order. A device tree (`fdt_reports`) reports its memory, then the
reserved nodes, then the kernel; these lie in the memory, do not overlap each other and may
touch. In both, entries start at a page and hold one. The ghost `overlaid` records that an
entry was merged with one of its own type although it overlaps another (`handover.c:87`).

### Pmm and Frames

The bitmap is the set of used pages; `bits_find_free` is its search in both directions.
The search downwards may start at the length of the bitmap and then reads the bit behind
it, which lies in a page that is given out like any other. The model lets that bit read
as either (`beyond`), in `Pmm` and in `Space`. `Frames` is what the callers rely on: a run
that nobody has, and "out of memory" only when there is none. `AllocatesFreeRuns` is its
specification, with only that panic mapped: see section 6 for the other one.

### RangeAlloc

The list of free ranges with its splitting and merging. `make_used` takes ranges inside one
free range; `range_alloc_used` leaves a free range in place that a larger used one covers.
`range_alloc_compress` is its two loops, one after the other, each over an index into a list
that the merges shorten.

### Space

System calls of one task over two spaces, memory objects, their page tables and `Pmm`.
A call is one step, as the locks make it. A program maps at an address of its own choice
only where it has mapped nothing before. Memory is asked for from the upper end only in
the run (`Lower`). Flags of entries and translation caches are left out.

The addresses of a space reach into entries of the root table that `vmm_space_destroy` does
not walk: on x86_64 it walks 0 to 254, entry 255 is the space's own, and 256 is shared with
the kernel, which has pages there. `OwnEntries` and `KernelPages` stand for these limits.
The ghost `lost` holds the tables that are left behind and counts, for each memory object,
the references of the mappings that `space_destroy` skips.

### Smp

One action per section of `smp_boot_other` on the boot processor, and of the path of
another processor from the trampoline to `arch_entry_other`. Stacks are numbers, the
mailbox holds one.

### Heap

Majors are sequences of minors in units of `ALLOC_HEAP_ALIGN`. The five cases of an
allocation, the release and the resize of `heap.c` are functions on that state; the system
may refuse pages. The magic numbers are left out, as the program passes its own blocks.

### Fibers, Component and Window

A process is a ring of fibers; a step runs one fiber from one `fiber_yield` to the next.
`Component` adds the channels, the dispatcher, requests with their sequence numbers and
handlers; a full channel loses a message (`lost`). `Window` composes three such processes:
the PS/2 server, the window server with its render fiber, and an application that opens a
window. Pixels, geometry and several clients are left out.

### Bus

The units of the system server, with the capabilities they want and have, and the services
that expose what they provide in any order, for all tables of three small manifests.

### Ps2

Both devices, the shared output buffer of one byte, the two events of the kernel and the
two handlers, which give way to each other in their callbacks. Bytes are encoded by the
devices and decoded by the drivers, sign bits, escapes and the order of the buttons
included. The commands of the initialisation are left out.

### Ui

The tree of views with its counts, the view under the mouse, the focus, grabbing, and
buttons. Views are unmounted and replaced only while they have no children.

## 3. The runs

`MC*.tla` give the instances and the fairness, `*.cfg` the constants. `MCStructures` and
`MCRuntime` hold several parts that do not interact: the variable `part` chooses one at
the start of a behaviour, and the others stand still.

| Run | Instance | Distinct states | What it checks |
|---|---|---|---|
| `lock` | 2 CPUs, 2 nested locks | 908 | exclusion; no handler over a lock; every acquisition returns |
| `rwlock` | 3 CPUs with handlers, 2 pairs each | 36,130 | exclusion and exact counters; no handler over the lock; depth = nesting + completed pairs; a waiting writer enters although handlers read without end |
| `sched_one` | 1 CPU from boot, 2 programs, finalizer | 2,497,057 | what a switch resumes, when a blocked call and a stop return, that a stopped task starts no call |
| `sched_two` | 2 CPUs after boot, 1 program, finalizer | 1,229,441 | `next` is distinct on all CPUs |
| `sched_live` | 1 CPU, 1 program, fair timer | 10,547 | blocked, waiting and stopped tasks get what they are due |
| `ipc` | 2 tasks with messages of 1 or 2 handles, or 2 spaces with 2 memory objects | 962,742 | exact counts, no dangling pointer, results that tell what happened |
| `runtime` | 2 CPUs, 1 driver, 2 events, 2 slots; or PS/2 server, window server and application, one packet of each device | 198,420 | one message per acknowledgement; a binding is armed again; handlers read their own request; nobody sleeps while there is work; one handler per device; what is marked is drawn; input is acknowledged |
| `structures` | ten parts, see below | 383,423 | one property or two for each part |

The parts of `structures`: `MapIsUnion` (memory map, six pages); `UsedMemoryExact` and
`AllocatesFreeRuns` (page allocator, eleven pages of which six are given out, sizes 1 to 3);
`RangesAreUnused` (six addresses); `PagesHaveOneOwner`, `ReachesOnlyMapped` and
`ChoosesFreshAddresses` (two spaces, one memory object, tables of two levels, three entries of the root);
`WindowAgrees` and `IsFifo` (ring of three slots); `BootsOneByOne` (four processors);
`BlocksApart` (three pages, requests of three sizes); `StartsWhenProvided` (all tables of
three services over three protocols); `DecodesInput` and `ByteIsAwaited` (two inputs of
each device, with and without a wheel); `ViewsFollowMouse` (four views, two of them
buttons).

Four more runs end in a violation, each a disagreement between the code and a statement in
the repository (section 5).

### Why these bounds

* `lock`: two CPUs, each with a handler, are every kind of contention between two frames
  and between a handler and the code below it; two locks give nesting. The theorem covers
  the safety of the rest. Three CPUs are out of TLC's reach for `AcquireReturns`.
* `rwlock`: three CPUs allow two readers against a writer, and two writers against a
  reader. `MaxPairs` = 2 shows the depth growing from a CPU that has already grown once.
* `sched_one` starts at boot and has two programs, so that one can stop, start or outwait
  the other while the finalizer and the boot task are still queued. `MaxAge` = 2
  distinguishes this tick, the last one and earlier. `sched_two` starts after the boot,
  with `MaxAge` = 1. `sched_live` has one program: the liveness properties on the instance
  of `sched_one` do not finish.
* `ipc`: two tasks, since an object has to be passed, destroyed and looked up at the same
  time; one slot per channel, so that full and empty channels are both common; two handles
  per message, so that the second can fail after the first. `Programs` names the system
  calls of a behaviour, messages or mappings.
* `runtime`: two CPUs for one vector; two events so that a channel can be filled by the
  other, and so that two neighbouring bindings of one driver occur; `MaxBind` = 2 allows to
  bind again after an unbind. Two slots per channel let a channel be full while a request
  is on the way; one packet of each device lets the two handlers overlap.
* `structures`: three slots are the least in which the window of the ring wraps with
  elements on both sides; runs of three pages among six make both searches fail first and
  succeed later; two levels of tables are enough for a table to be shared by two mappings
  and another not; three entries of the root are one that is walked, one that is not, and
  the kernel's. With `MaxLost` = 1 no space is created once a destroyed one has left a table
  behind; the space that lives beside it goes on. Four processors give one before and two
  behind the boot processor.

Deadlock is checked in `lock`, `rwlock` and the `sched` runs. In `ipc` every task may have
exited, in `runtime` the devices stop after their packets, and in `structures` the boot
ends, the kernel may have panicked, or there is no more input.

### Fairness

* `lock`, `rwlock`: a CPU that is inside the lock code keeps executing, holders
  release, handlers end, and an exchange that is retried for ever and is possible again
  and again succeeds (strong fairness: x86 gives no fixed loser). Nobody is obliged to
  start an acquisition, and in `rwlock` a handler may take and release the lock without
  end and no waiting reader is obliged to get in.
* `sched_live`: the timer fires again and again, CPUs execute, handlers of system calls
  end, IPIs arrive. No program is obliged to make a system call.
* `runtime`, events: a CPU finishes its handler, and a driver receives and acknowledges,
  each event in a fiber of its own that ends with `br_ack`. No interrupt has to arrive.
* `runtime`, processes: a process that has a fiber to run is run by the kernel, and the
  clock advances. Devices need not send anything.

## 4. What is proved

TLAPS checks every proof to the last leaf; the only assumptions are the named ASSUMEs
of the modules, which TLC evaluates on each instance.

**LockSafe** (`LockProofs`), for any set of CPUs and any finite set of locks: type
correctness, `MutualExclusion`, `HandlerFindsNoLock`, `DepthCountsLocks` and
`BeginInterruptAssert`. Exclusion needs `HeldIsLocked` (what a frame holds shows in the
lock word). That no handler runs over a lock is not inductive by itself: it needs that
the interrupt flag is set only at depth 0 (`FlagMeansDepthZero`), that the depth counts
what is held, that `retain_enable` is off exactly inside handlers, and that the task
frame always exists.

**RwLockSafe** (`RwLockProofs`), for any finite set of CPUs and any number of pairs:
`WriterExcludes`, `HandlerFindsNoRwLock` and `DepthCountsPairs`. The counters are the
cardinalities of sets of frames, and a step moves one frame (`Moved`); as each section
under the inner spin lock is one step, exclusion then needs only the types. Handlers are
kept away by `FlagMeansRun`: the interrupt flag is set only where the task code is outside
the lock and no handler runs. A release inside the lock does not set it, because the depth
is larger than what that release gives back.

**SchedSafe** (`SchedProofs`), for any number of CPUs and any tasks: type correctness and
`NextDistinct`. The strengthening is `IdleNeverStarted`: since an idle task never enters
the queue, `sched_pick` never returns one, and what it returns is next nowhere; then
`sched_attach` and `sched_detach` keep `next` injective, also through the updates of the
blocked tasks, which fall back to the CPU's own idle task.

**RingSafe** and **RingImplementsFifo** (`RingProofs`), for every capacity and element
set: `head`, `tail` and `used` describe one window (`WindowAgrees`), and each step of the
ring is a step of `Fifo` or leaves its state alone. The argument is that the slots of the
window are distinct (`SlotInjective`), so a push changes none of them and a pop shifts
them by one.

**SmpSafe** (`SmpProofs`), for any number of processors and any boot processor:
`BootsOneByOne`. `Handshake` says where every other processor is, from the loop variable,
the place of the boot processor and `_ready`, and that the stack in the mailbox belongs to
nobody until it is read. `Barrier` says that the second counter is the number of processors
that have passed.

**Ps2Safe** (`Ps2Proofs`), for all keys and movements and any number of them:
`ByteIsAwaited`. An event is armed exactly while its handler is idle, and a byte whose
handler has looked for the last time came after that look.

Only model-checked: `Ipc`, `Event`, the modules of memory, heap, processes, services and
views, `DecodesInput`, and every liveness property. Liveness under fairness and ENABLED are
beyond this prover; so are inductions over recursive definitions, which `Handover` and the
folds of `Space` would need.

## 5. Where the code and a statement of the repository disagree

* `sched_preemption`: with one more runnable task than CPUs, the loop of
  `sched_schedule` (`kernel/sched.c:335`) attaches the waiting task, then peeks the task
  it has just displaced and attaches it again. The waiting task never runs, while
  `meta/scheduling.md:100` says that the process that has run the longest is replaced by
  the one that waited the longest.
* `sched_twice`: `sched_pick` (`kernel/sched.c:167`) takes a task for waiting when it is
  `next` on no CPU, though a CPU that has not switched yet may still execute it. A
  yield elsewhere then makes it current on two CPUs; `meta/scheduling.md:72` gives a task
  one CPU.
* `sched_started`: a second `sys_start` of a task fails the assertion at
  `kernel/sched.c:38` and stops the kernel.
* `component_crossed`: `dispatch_to_pending` (`libs/ipc/component.c:40`) takes a request
  for the response to a pending one when sender and sequence number match. The window
  server and an application that ask each other at the same time with the same number fail
  the assertion at `libs/ipc/hooks.c:54`.

## 6. What the passing runs do not say, and what they say unexpectedly

* **The page allocator can stop the kernel while memory is free.** After a failed search
  downwards, `pmm_alloc` searches again from -1 (`kernel/pmm.c:133`), which
  `bits_find_free` cuts to the length of the bitmap; the loop reads the bit at that
  position, one behind the last (`libs/brutal-ds/bits.c:57`). If it is clear, a search for
  one page ends there, and so does one for more pages whose last ones are free. Then
  `assert_lower_equal(range_end(range), bits_len(bits))` (`bits.c:16`) fails. The model
  reaches this as `pmm.panic = "outside the bitmap"`; the invariant
  `pmm.panic # "outside the bitmap"`, defined in `MCStructures` and added to its cfg, is
  violated.
  `AllocatesFreeRuns`, `UsedMemoryExact` and the properties of `Space` hold up to this
  stop and do not exclude it.
* `DepthCountsPairs`: a readers-writer acquire enters twice and its release leaves once,
  the inner spin lock's own pair aside, so the depth never returns to 0.
* `sched_finalize` takes out only tasks that are blocked in a system call
  (`kernel/sched.c:360`); a task that exited in the ordinary way stays in the queue. The
  module has this test as it is, and no property is about what it leaves.
* **`StopNeverReturns`, `BlockReturnsUnblocked`, `ResumesRunnable` and `StoppedMakesNoCall`
  are for one CPU.** With two CPUs the last three are violated, the
  last two by a stop from another CPU: between the choice of `next` and the switch, or
  between the two accesses of `task_begin_syscall`. `StopNeverReturns` holds on two CPUs from boot with one program and
  `MaxAge` = 1 (12,509,944 states; too long to be a run here). It fails with more waiting
  tasks than CPUs. That was found from a state put together by hand, and not reached from
  boot: CPU 0 runs a program, CPU 1 is still before its `sched_stop`, and three other tasks
  wait. A tick displaces the boot task of CPU 1, a yield of CPU 0 picks it
  (`kernel/sched.c:167`), it stops itself, and CPU 0 resumes it behind its `sched_stop`, at
  the `panic$`. The cause is that of `sched_twice`.
* `RefsExact` is exact only together with `lost`: `sys_inspect`, `channel_destroy`,
  `space_destroy` (every second mapping), `init_start` and a finalized blocked send each
  keep references for ever.
* `Rearmed` excepts a message that met a full channel: that leaves a binding disarmed for
  good. `event_unbind_all` skips the neighbour of each binding it removes; no property is
  about what it leaves.
* `InputIsAcknowledged` excepts messages that were lost: sent to a full channel, to a
  window that does not listen yet, or taken for a response (`component_crossed`).
* `ByteIsAwaited` excepts a byte between the last look and `br_ack`. That byte stays in the
  buffer, and neither device is heard again.
* `StartsWhenProvided` says when a unit starts only while no protocol is exposed twice; a
  unit that consumes nothing is never started. With one exposed twice it says only that a
  unit starts once.
* `MapIsUnion` is exact until `overlaid`. Of two reserved nodes of a device tree that touch,
  the lower one first, the second is merged with the first and not cut out of the free
  memory (`libs/bal/boot/handover.c:87`): the map then calls those pages reserved and free.
  For such a map the property says only that no reported type is lost.
* `PagesHaveOneOwner` counts two losses and excludes others: the tables below the entries of
  the root that `vmm_space_destroy` does not walk (`kernel/x86_64/vmm.c:171`), and the
  references of the mappings that `space_destroy` skips (`kernel/space.c:43`).
* `ChoosesFreshAddresses` excepts the last pages of a space, which are the kernel's
  (`kernel/space.c:60`): mapping them panics.
* `RangesAreUnused` and `ChoosesFreshAddresses` are for the callers described in section 2.
* `StoppedIsTakenOff` has one program, which can only stop itself; stops by another program
  occur in `sched_one`.
* `WaitsOnlyWhenIdle` says that the other fibers are marked blocked, not that their blockers
  would still hold them.

## 7. What is not modelled

The definitions of the modules stand for some 4,000 lines of the repository, between five
and six percent of it: the concurrent and stateful core. The rest is:

* Register programming, descriptor tables, PCI, ACPI, UART, AHCI, device tree and firmware:
  sequences of accesses with no state of their own beyond the device.
* Codecs, hashes, graphics, layout, text, mathematics: bytes, pixels and floating point,
  out of TLC's reach.
* The compiler, the interface language, JSON and the virtual machine: sequential
  parsers and generators on the host.
* File systems, containers, input and output, formatting, logging, tests, the C library,
  the applications.
* In the modelled parts: rights (`sys_drop` and the tests), the memory of tasks, the
  release of a task that another CPU still executes, which `Ipc` has no CPUs to show,
  translation caches, and the riscv64 variants. `Lock` and `RwLock` are not composed over
  one retention depth, nor `Ipc` with the CPUs of `Sched`.

Hazards seen while reading and covered by no property: the flush that throws away bytes of
the devices (`srvs/ps2/main.c:34`); the size of the bitmap, one byte for eight pages
rounded down before it is aligned (`kernel/pmm.c:43`); base and size of a range rounded
apart (`libs/brutal-base/range.h:103`); `fire_and_forget` kept by fibers that are used again
(`libs/brutal-fibers/fibers.c:97`); `space_unmap`, which gives no range back
(`kernel/space.c:118`); the command tables of AHCI (`libs/hw/ahci/device.c:142`);
`ui_win_deref`, which attaches the window again (`libs/brutal-ui/win.c:44`).

## Running it

    tlc -config MCLock.cfg MCLock       # any pair of PROJECT.json's runs
    tlapm LockProofs.tla                # and RwLock-, Sched-, Ring-, Smp- and Ps2Proofs
