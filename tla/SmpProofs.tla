----------------------------- MODULE SmpProofs ------------------------------
(* For any number of processors and any boot processor, the others boot one  *)
(* by one: each from its own stack, out of the trampoline before it goes,    *)
(* and none past the barrier before the last one is there.                   *)
(*                                                                           *)
(* The handshake is the inductive part: which of the others is where follows *)
(* from the loop variable, from where the boot processor is, and from        *)
(* _ready.  The barrier is a count of those that have passed.                *)
EXTENDS Smp, FiniteSetTheorems, TLAPS

Places == {"boot", "loop", "context", "init", "sipi", "wait", "barrier", "run",
           "off", "halted", "trampoline", "entry", "arch", "fault"}

SmpTypeOK ==
    /\ pc \in [CPUs -> Places]
    /\ cpu \in 0 .. N /\ ready \in BOOLEAN /\ count \in Nat
    /\ stacks \in Nat /\ mailbox \in Nat /\ stack \in [CPUs -> Nat] /\ mapped \in BOOLEAN

Booted == {"arch", "barrier", "run"}

\* Where another processor is, by the boot processor and the loop variable.
Stage(c) ==
    /\ c < cpu => pc[c] \in Booted
    /\ c > cpu => pc[c] = "off"
    /\ c = cpu => /\ pc[Self] \in {"boot", "loop", "context", "init"} => pc[c] = "off"
                  /\ pc[Self] = "sipi" => pc[c] = "halted"
                  /\ pc[Self] = "wait" => pc[c] \in {"trampoline", "entry"} \union Booted
                  /\ pc[Self] = "wait" /\ ready => pc[c] \in Booted

\* The stack of another processor: only the one in the mailbox can be handed
\* out, and nobody has it until it is read.
Stacked(c) ==
    /\ stack[c] <= stacks
    /\ pc[c] \in {"off", "halted", "trampoline"} => stack[c] = 0
    /\ pc[Self] \in {"init", "sipi"} => stack[c] < mailbox
    /\ pc[Self] = "wait" /\ pc[cpu] = "trampoline" => stack[c] < mailbox

Handshake ==
    /\ pc[Self] \in {"boot", "loop", "context", "init", "sipi", "wait", "barrier", "run"}
    /\ pc[Self] \in {"context", "init", "sipi", "wait"} => cpu \in Others
    /\ pc[Self] \in {"barrier", "run"} => cpu = N
    /\ pc[Self] \in {"context", "init", "sipi"} => ~ready
    /\ mapped <=> pc[Self] \in {"loop", "context", "init", "sipi", "wait"}
    /\ mailbox = stacks
    /\ \A c \in Others : Stage(c) /\ Stacked(c)
    /\ \A c, d \in Others : c # d /\ stack[c] # 0 => stack[c] # stack[d]

Passed == {"barrier", "run"}

Counted == {c \in Others : pc[c] \in Passed} \union (IF pc[Self] = "boot" THEN {} ELSE {Self})

Barrier ==
    /\ count = Cardinality(Counted)
    /\ \A c \in CPUs, d \in Others : pc[c] = "run" => pc[d] \in Passed

IInv == SmpTypeOK /\ Handshake /\ Barrier

-----------------------------------------------------------------------------

LEMMA InitIInv == SmpInit => IInv
<1> SUFFICES ASSUME SmpInit PROVE IInv
    OBVIOUS
<1> USE SmpAssumption DEF SmpInit, CPUs, Others
<1>1. SmpTypeOK
  <2>1. pc \in [CPUs -> Places]
    BY DEF Places
  <2>2. stack \in [CPUs -> Nat]
    OBVIOUS
  <2>3. cpu \in 0 .. N /\ count \in Nat /\ stacks \in Nat /\ mailbox \in Nat
    OBVIOUS
  <2>4. ready \in BOOLEAN /\ mapped \in BOOLEAN
    OBVIOUS
  <2> QED
    BY <2>1, <2>2, <2>3, <2>4 DEF SmpTypeOK
<1>2. Handshake
    BY DEF Handshake, Stage, Stacked, Booted
<1>3. Barrier
  <2>1. Counted = {}
    BY DEF Counted, Passed
  <2> QED
    BY <2>1, FS_EmptySet DEF Barrier, Passed
<1> QED
    BY <1>1, <1>2, <1>3 DEF IInv

\* The boot processor moves and none of the others does.
LEMMA SelfCounts ==
    ASSUME SmpTypeOK, pc' \in [CPUs -> Places],
           \A c \in Others : pc'[c] = pc[c] \/ {pc[c], pc'[c]} \cap Passed = {},
           pc[Self] # "boot", pc'[Self] # "boot"
    PROVE  Counted' = Counted
BY SmpAssumption DEF SmpTypeOK, Counted, Passed, Others, CPUs

LEMMA SelfStep ==
    ASSUME IInv, smp_trampoline_map \/ next_cpu \/ smp_initialize_cpu_context \/ lapic_send_init
                 \/ lapic_send_sipi \/ wait_for_ready \/ smp_trampoline_unmap
    PROVE  SmpTypeOK' /\ Handshake'
<1> USE SmpAssumption DEF IInv, SmpTypeOK, Handshake, Stage, Stacked, Booted, CPUs, Others, goto
<1>1. CASE smp_trampoline_map
    BY <1>1 DEF smp_trampoline_map, Places
<1>2. CASE next_cpu
  <2>1. CASE cpu = Self
    <3>1. pc' = pc /\ cpu' = cpu + 1 /\ pc[Self] = "loop" /\ cpu < N
          /\ UNCHANGED <<ready, count, stacks, mailbox, stack, mapped>>
      BY <1>2, <2>1 DEF next_cpu
    <3>2. \A c \in Others : Stage(c)' /\ Stacked(c)'
      BY <2>1, <3>1
    <3> QED
      BY <2>1, <3>1, <3>2
  <2>2. CASE cpu # Self
    <3>1. pc' = [pc EXCEPT ![Self] = "context"] /\ pc[Self] = "loop" /\ cpu < N /\ ready' = FALSE
          /\ UNCHANGED <<cpu, count, stacks, mailbox, stack, mapped>>
      BY <1>2, <2>2 DEF next_cpu
    <3>2. cpu \in Others /\ pc'[Self] = "context"
      BY <2>2, <3>1
    <3>3. ~ready' /\ ready' \in BOOLEAN
      BY <3>1, Zenon
    <3>4. SmpTypeOK'
      BY <3>1, <3>3 DEF Places
    <3>5. \A c \in Others : Stage(c)' /\ Stacked(c)'
      BY <2>2, <3>1
    <3> QED
      BY <3>1, <3>2, <3>3, <3>4, <3>5
  <2> QED
    BY <2>1, <2>2
<1>3. CASE smp_initialize_cpu_context
    BY <1>3 DEF smp_initialize_cpu_context, Places
<1>4. CASE lapic_send_init
    BY <1>4 DEF lapic_send_init, Places
<1>5. CASE lapic_send_sipi
    BY <1>5 DEF lapic_send_sipi, Places
<1>6. CASE wait_for_ready
    BY <1>6 DEF wait_for_ready, Places
<1>7. CASE smp_trampoline_unmap
    BY <1>7 DEF smp_trampoline_unmap, Places
<1> QED
    BY <1>1, <1>2, <1>3, <1>4, <1>5, <1>6, <1>7

LEMMA OtherStep ==
    ASSUME IInv, NEW c \in Others, load_stack(c) \/ smp_entry_other(c) \/ arch_entry_other(c)
    PROVE  SmpTypeOK' /\ Handshake'
<1> USE SmpAssumption DEF IInv, SmpTypeOK, Handshake, Stage, Stacked, Booted, CPUs, Others, goto
<1>1. CASE load_stack(c)
  <2>1. c = cpu /\ pc[Self] = "wait" /\ ~ready /\ mapped
    BY <1>1 DEF load_stack
  <2>2. /\ pc' = [pc EXCEPT ![c] = "entry"] /\ stack' = [stack EXCEPT ![c] = mailbox]
        /\ UNCHANGED <<cpu, ready, count, stacks, mailbox, mapped>>
    BY <1>1, <2>1 DEF load_stack
  <2>3. SmpTypeOK'
    BY <2>2 DEF Places
  <2>4. \A d \in Others : stack[d] < mailbox
    BY <1>1, <2>1 DEF load_stack
  <2>5. \A d \in Others : Stage(d)' /\ Stacked(d)'
    BY <2>1, <2>2
  <2>6. \A d, e \in Others : d # e /\ stack'[d] # 0 => stack'[d] # stack'[e]
    BY <2>2, <2>4
  <2> QED
    BY <2>1, <2>2, <2>3, <2>5, <2>6
<1>2. CASE smp_entry_other(c)
    BY <1>2 DEF smp_entry_other, Places
<1>3. CASE arch_entry_other(c)
    BY <1>3 DEF arch_entry_other, Places
<1> QED
    BY <1>1, <1>2, <1>3

LEMMA WaitStep ==
    ASSUME IInv, NEW c \in CPUs, wait_for_all(c)
    PROVE  SmpTypeOK' /\ Handshake'
BY SmpAssumption DEF wait_for_all, IInv, SmpTypeOK, Handshake, Stage, Stacked, Booted, Places,
                     CPUs, Others, goto
-----------------------------------------------------------------------------

LEMMA CountedFinite ==
    ASSUME SmpTypeOK
    PROVE  IsFiniteSet(CPUs) /\ Cardinality(CPUs) = N /\ Counted \subseteq CPUs /\ IsFiniteSet(Counted)
<1>1. IsFiniteSet(CPUs) /\ Cardinality(CPUs) = N
    BY SmpAssumption, FS_Interval DEF CPUs
<1>2. Counted \subseteq CPUs
    BY SmpAssumption DEF Counted, Others, CPUs
<1> QED
    BY <1>1, <1>2, FS_Subset

\* A processor that passes is counted, whoever it is.
LEMMA OneMore ==
    ASSUME IInv, NEW c \in CPUs, c \notin Counted, count' = count + 1,
           Counted' = Counted \union {c}
    PROVE  count' = Cardinality(Counted')
BY CountedFinite, FS_AddElement DEF IInv, Barrier

LEMMA SelfBarrier ==
    ASSUME IInv, smp_trampoline_map \/ next_cpu \/ smp_initialize_cpu_context \/ lapic_send_init
                 \/ lapic_send_sipi \/ wait_for_ready \/ smp_trampoline_unmap
    PROVE  Barrier'
<1> USE SmpAssumption DEF IInv
<1>1. SmpTypeOK'
    BY SelfStep
<1>2. ASSUME NEW c \in Others PROVE pc'[c] = pc[c] \/ {pc[c], pc'[c]} \cap Passed = {}
    BY DEF SmpTypeOK, Handshake, Stage, Others, CPUs, goto, Passed, smp_trampoline_map, next_cpu,
           smp_initialize_cpu_context, lapic_send_init, lapic_send_sipi, wait_for_ready,
           smp_trampoline_unmap
<1>3. ASSUME NEW c \in CPUs, NEW d \in Others, pc'[c] = "run" PROVE pc'[d] \in Passed
  <2>1. pc[c] = "run"
    BY <1>2, <1>3 DEF SmpTypeOK, Others, CPUs, goto, Passed, smp_trampoline_map, next_cpu,
           smp_initialize_cpu_context, lapic_send_init, lapic_send_sipi, wait_for_ready,
           smp_trampoline_unmap
  <2> QED
    BY <2>1, <1>2, <1>3 DEF Barrier, Passed
<1>4. count' = Cardinality(Counted')
  <2>1. CASE smp_trampoline_map
    <3>1. Self \notin Counted /\ Counted' = Counted \union {Self}
      BY <2>1 DEF smp_trampoline_map, goto, SmpTypeOK, Counted, Others, CPUs
    <3> QED
      BY <2>1, <3>1, OneMore DEF smp_trampoline_map, CPUs
  <2>2. CASE ~smp_trampoline_map
    <3>1. pc[Self] # "boot" /\ pc'[Self] # "boot" /\ count' = count
      BY <2>2 DEF SmpTypeOK, Handshake, Others, CPUs, goto, next_cpu, smp_initialize_cpu_context,
                  lapic_send_init, lapic_send_sipi, wait_for_ready, smp_trampoline_unmap
    <3> QED
      BY <1>1, <1>2, <3>1, SelfCounts DEF Barrier, SmpTypeOK
  <2> QED
    BY <2>1, <2>2
<1> QED
    BY <1>3, <1>4 DEF Barrier

LEMMA OtherBarrier ==
    ASSUME IInv, NEW c \in Others, load_stack(c) \/ smp_entry_other(c) \/ arch_entry_other(c)
    PROVE  Barrier'
<1> USE SmpAssumption DEF IInv, SmpTypeOK, Others, CPUs, Passed, goto
<1>1. \A d \in CPUs : d # c => pc'[d] = pc[d]
    BY DEF load_stack, smp_entry_other, arch_entry_other
<1>2. pc'[c] # "run" /\ c \notin Counted
    BY DEF load_stack, smp_entry_other, arch_entry_other, Counted
<1>3. ASSUME NEW d \in CPUs, NEW e \in Others, pc'[d] = "run" PROVE pc'[e] \in Passed
    BY <1>1, <1>2, <1>3 DEF Barrier, load_stack, smp_entry_other, arch_entry_other
<1>4. count' = Cardinality(Counted')
  <2>1. CASE arch_entry_other(c)
    <3>1. Counted' = Counted \union {c}
      BY <2>1 DEF arch_entry_other, Counted
    <3> QED
      BY <1>2, <2>1, <3>1, OneMore DEF arch_entry_other
  <2>2. CASE load_stack(c) \/ smp_entry_other(c)
    <3>1. Counted' = Counted /\ count' = count
      BY <1>1, <2>2 DEF load_stack, smp_entry_other, Counted
    <3> QED
      BY <3>1 DEF Barrier
  <2> QED
    BY <2>1, <2>2
<1> QED
    BY <1>3, <1>4 DEF Barrier

\* The count is the number of processors only when every one of them passed.
LEMMA WaitBarrier ==
    ASSUME IInv, NEW c \in CPUs, wait_for_all(c)
    PROVE  Barrier'
<1> USE SmpAssumption DEF IInv
<1>1. Counted = CPUs
    BY CountedFinite, FS_Subset DEF Barrier, wait_for_all
<1>2. \A d \in Others : pc[d] \in Passed /\ pc'[d] \in Passed
    BY <1>1 DEF Counted, Others, CPUs, wait_for_all, goto, SmpTypeOK, Passed
<1>3. pc[Self] # "boot" /\ pc'[Self] # "boot"
    BY <1>1 DEF Counted, Others, CPUs, wait_for_all, goto, SmpTypeOK
<1>4. Counted' = Counted /\ count' = count
    BY <1>2, <1>3 DEF Counted, wait_for_all
<1> QED
    BY <1>2, <1>4 DEF Barrier

LEMMA NextIInv == IInv /\ [SmpNext]_smpVars => IInv'
<1> SUFFICES ASSUME IInv, [SmpNext]_smpVars PROVE IInv'
    OBVIOUS
<1>1. CASE UNCHANGED smpVars
    BY <1>1 DEF smpVars, IInv, SmpTypeOK, Handshake, Stage, Stacked, Barrier, Counted
<1>2. CASE \E c \in CPUs : wait_for_all(c)
    BY <1>2, WaitStep, WaitBarrier DEF IInv
<1>3. CASE \E c \in Others : load_stack(c) \/ smp_entry_other(c) \/ arch_entry_other(c)
    BY <1>3, OtherStep, OtherBarrier DEF IInv
<1>4. CASE smp_trampoline_map \/ next_cpu \/ smp_initialize_cpu_context \/ lapic_send_init
           \/ lapic_send_sipi \/ wait_for_ready \/ smp_trampoline_unmap
    BY <1>4, SelfStep, SelfBarrier DEF IInv
<1> QED
    BY <1>1, <1>2, <1>3, <1>4 DEF SmpNext

\* For every number of processors: each of the others has a stack of its own
\* and is out of the trampoline before it is unmapped, and none lets the
\* scheduler run before all of them are ready (smp_boot_other, smp_entry_other,
\* arch_entry_main and arch_entry_other).
THEOREM SmpSafe == SmpSpec => []BootsOneByOne
<1>1. IInv => BootsOneByOne
  <2> SUFFICES ASSUME IInv PROVE BootsOneByOne
    OBVIOUS
  <2>1. ASSUME NEW c \in Others PROVE pc[c] # "fault"
    <3> USE SmpAssumption DEF IInv, SmpTypeOK, Handshake, Stage, Booted, CPUs, Others
    <3>1. c < cpu \/ c > cpu \/ c = cpu
      OBVIOUS
    <3>2. CASE c = cpu
      BY <3>2
    <3> QED
      BY <3>1, <3>2
  <2>2. pc[Self] # "fault"
    BY DEF IInv, Handshake
  <2> QED
    BY <2>1, <2>2 DEF IInv, Handshake, Barrier, BootsOneByOne, Passed, Others
<1> QED
    BY <1>1, InitIInv, NextIInv, PTL DEF SmpSpec
=============================================================================
