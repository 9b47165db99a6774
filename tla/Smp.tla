-------------------------------- MODULE Smp ---------------------------------
(* The boot of the other processors (kernel/x86_64/smp.c, smp.s, boot.c).    *)
(* The boot processor writes the stack of the next processor to a mailbox at *)
(* a fixed address, starts it, and waits for _ready before it goes on to the *)
(* one after it; the page with the mailbox and the trampoline code is mapped *)
(* for as long.  All of them meet at a second counter, also named _ready,    *)
(* before any of them lets the scheduler run.                                *)
EXTENDS Integers, FiniteSets

CONSTANTS
    N,          \* cpu_count()
    Self        \* the boot processor

ASSUME SmpAssumption == N \in Nat \ {0} /\ Self \in 0 .. (N - 1)

CPUs == 0 .. (N - 1)
Others == CPUs \ {Self}

VARIABLES
    pc,         \* where each processor is
    cpu,        \* the loop variable of smp_boot_other
    ready,      \* _ready of smp.c
    count,      \* _ready of boot.c
    stacks,     \* the stacks allocated so far, which are numbered from 1
    mailbox,    \* SMP_INIT_STACK
    stack,      \* the stack each of the others runs on, 0 before it has one
    mapped      \* whether the trampoline is mapped

smpVars == <<pc, cpu, ready, count, stacks, mailbox, stack, mapped>>

SmpInit ==
    /\ pc = [c \in CPUs |-> IF c = Self THEN "boot" ELSE "off"]
    /\ cpu = 0 /\ ready = FALSE /\ count = 0
    /\ stacks = 0 /\ mailbox = 0 /\ stack = [c \in CPUs |-> 0] /\ mapped = FALSE

goto(c, place) == pc' = [pc EXCEPT ![c] = place]

-----------------------------------------------------------------------------
(* The boot processor.                                                       *)

\* The end of arch_entry_main's initialization, and smp_trampoline_map.
smp_trampoline_map ==
    /\ pc[Self] = "boot" /\ goto(Self, "loop")
    /\ count' = count + 1 /\ mapped' = TRUE
    /\ UNCHANGED <<cpu, ready, stacks, mailbox, stack>>

\* Mutant: the answer of the processor before is still there.
next_cpu_stale ==
    /\ pc[Self] = "loop" /\ cpu < N
    /\ IF cpu = Self
       THEN cpu' = cpu + 1 /\ UNCHANGED <<pc, ready>>
       ELSE goto(Self, "context") /\ UNCHANGED <<ready, cpu>>
    /\ UNCHANGED <<count, stacks, mailbox, stack, mapped>>

next_cpu ==
    /\ pc[Self] = "loop" /\ cpu < N
    /\ IF cpu = Self
       THEN cpu' = cpu + 1 /\ UNCHANGED <<pc, ready>>
       ELSE goto(Self, "context") /\ ready' = FALSE /\ UNCHANGED cpu
    /\ UNCHANGED <<count, stacks, mailbox, stack, mapped>>

smp_initialize_cpu_context ==
    /\ pc[Self] = "context" /\ goto(Self, "init")
    /\ stacks' = stacks + 1 /\ mailbox' = stacks + 1
    /\ UNCHANGED <<cpu, ready, count, stack, mapped>>

lapic_send_init ==
    /\ pc[Self] = "init"
    /\ pc' = [pc EXCEPT ![Self] = "sipi", ![cpu] = "halted"]
    /\ UNCHANGED <<cpu, ready, count, stacks, mailbox, stack, mapped>>

lapic_send_sipi ==
    /\ pc[Self] = "sipi"
    /\ pc' = [pc EXCEPT ![Self] = "wait", ![cpu] = "trampoline"]
    /\ UNCHANGED <<cpu, ready, count, stacks, mailbox, stack, mapped>>

wait_for_ready ==
    /\ pc[Self] = "wait" /\ ready /\ goto(Self, "loop")
    /\ cpu' = cpu + 1
    /\ UNCHANGED <<ready, count, stacks, mailbox, stack, mapped>>

smp_trampoline_unmap ==
    /\ pc[Self] = "loop" /\ cpu = N /\ goto(Self, "barrier")
    /\ mapped' = FALSE
    /\ UNCHANGED <<cpu, ready, count, stacks, mailbox, stack>>

-----------------------------------------------------------------------------
(* The others.                                                               *)

\* trampoline64, once paging is on: it faults when the page is not mapped.
load_stack(c) ==
    /\ pc[c] = "trampoline"
    /\ IF mapped THEN goto(c, "entry") /\ stack' = [stack EXCEPT ![c] = mailbox]
       ELSE goto(c, "fault") /\ UNCHANGED stack
    /\ UNCHANGED <<cpu, ready, count, stacks, mailbox, mapped>>

smp_entry_other(c) ==
    /\ pc[c] = "entry" /\ goto(c, "arch")
    /\ ready' = TRUE
    /\ UNCHANGED <<cpu, count, stacks, mailbox, stack, mapped>>

arch_entry_other(c) ==
    /\ pc[c] = "arch" /\ goto(c, "barrier")
    /\ count' = count + 1
    /\ UNCHANGED <<cpu, ready, stacks, mailbox, stack, mapped>>

\* wait_for$(_ready == cpu_count()), in the two entries.
wait_for_all(c) ==
    /\ pc[c] = "barrier" /\ count = N /\ goto(c, "run")
    /\ UNCHANGED <<cpu, ready, count, stacks, mailbox, stack, mapped>>

SmpNext ==
    \/ smp_trampoline_map \/ next_cpu \/ smp_initialize_cpu_context \/ lapic_send_init
    \/ lapic_send_sipi \/ wait_for_ready \/ smp_trampoline_unmap
    \/ \E c \in Others : load_stack(c) \/ smp_entry_other(c) \/ arch_entry_other(c)
    \/ \E c \in CPUs : wait_for_all(c)

SmpSpec == SmpInit /\ [][SmpNext]_smpVars

-----------------------------------------------------------------------------

\* Every processor leaves the trampoline before it is unmapped and has a stack
\* of its own, though all of them read the same mailbox; and none lets the
\* scheduler run before the last one is ready (smp.c:67-122, boot.c:52-84).
\* The boot processor has counted itself before: the others may run while it
\* still waits for the last of them and unmaps the trampoline.
BootsOneByOne ==
    /\ \A c \in CPUs : pc[c] # "fault"
    /\ \A c, d \in Others : c # d /\ stack[c] # 0 => stack[c] # stack[d]
    /\ \A c \in CPUs, d \in Others : pc[c] = "run" => pc[d] \in {"barrier", "run"}
=============================================================================
