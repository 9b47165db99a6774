------------------------------- MODULE Space --------------------------------
(* Address spaces (kernel/space.c), the memory objects mapped into them      *)
(* (kernel/memory.c) and their page tables (kernel/x86_64/vmm.c), over the   *)
(* page allocator of module Pmm and the free ranges of module RangeAlloc.    *)
(* Addresses and sizes are in pages.  The system calls are run by one task   *)
(* that has a handle to every object until it closes it; who else may refer  *)
(* to an object is the business of module Ipc.  Each call is one step: the   *)
(* lock of the space and those of vmm.c and pmm.c make it so.                *)
EXTENDS Pmm, RangeAlloc, Functions

CONSTANTS
    Memory,       \* memory objects
    Spaces,       \* address spaces
    ObjectSizes,  \* sizes of memory objects
    Levels,       \* depth of the page tables; 4 on x86_64
    Fanout,       \* entries of a table; 512 on x86_64
    OwnEntries,   \* the entries of the root that vmm_space_destroy walks; 255 on x86_64
    KernelPages,  \* pages that the kernel has mapped and every root shares, from entry 256 on
    UserRange,    \* the addresses of a space: 0x400000 + 0x800000000000, up to entry 256
    Lower,        \* whether programs ask for memory from the lower end (BR_MEM_LOWER)
    Parts,        \* the offsets and sizes that programs map; size 0 is the whole object
    Fixed,        \* the ranges that programs map at an address of their choice
    MaxMmap,      \* mappings of one space
    MaxRefs,      \* references to one memory object, lost ones included
    MaxLost       \* lost page tables up to which spaces are created

VARIABLES
    phys,         \* the statics of pmm.c, as in module Pmm
    memory,       \* [Memory -> [type, range, refs]]
    space,        \* [Spaces -> [live, alloc, mmaps, tables, entries]]
    open,         \* the objects the task has a handle to
    everMapped,   \* history: the pages ever mapped in each space
    lost          \* history: what destroyed spaces left behind, the frames of
                  \* page tables and the references of skipped mappings

spaceVars == <<phys, memory, space, open, everMapped, lost>>

NoMemory == [type |-> "none", range |-> [base |-> 0, size |-> 0], refs |-> 0]
NoSpace == [live |-> FALSE, alloc |-> <<>>, mmaps |-> <<>>, tables |-> <<>>, entries |-> <<>>]

Running == phys.panic = "no"

-----------------------------------------------------------------------------
(* Page tables.  st = [pmm, tables, entries, beyond] is the allocator with   *)
(* the tables of one space and what the bit behind the bitmap reads as.  A   *)
(* table is named by its level and by the number of its stretch of           *)
(* addresses; the entries are those of the last level.                       *)

panics(st, why) == [st EXCEPT !.pmm.panic = why]

\* The tables on the way to page v below the root, from the top.
path(v) == [k \in 1 .. (Levels - 1) |-> <<Levels - k, v \div (Fanout ^ (Levels - k))>>]

vmm_get_pml_or_alloc(st, table) ==
    LET found == pmm_found(st.pmm, 1, TRUE, st.beyond)
        p == pmm_alloc(st.pmm, 1, TRUE, st.beyond)
    IN  IF table \in DOMAIN st.tables \/ st.pmm.panic # "no" THEN st
        ELSE IF p.panic # "no" THEN [st EXCEPT !.pmm = p]
        ELSE [st EXCEPT !.pmm = p,
                        !.tables = (table :> pmm_alloc_at(found, 1, TRUE).base) @@ @]

\* The entry of the last level, with the tables on the way to it present.
set_entry(st, v, frame) ==
    IF st.pmm.panic # "no" THEN st
    ELSE IF v \in KernelPages THEN panics(st, "mapped by the kernel")
    ELSE IF v \in DOMAIN st.entries THEN panics(st, "already mapped")
    ELSE [st EXCEPT !.entries = (v :> frame) @@ @]

\* The pages of the kernel are present in every root, with their tables.
vmm_map_page(st, v, frame) ==
    set_entry(IF v \in KernelPages THEN st ELSE FoldLeft(vmm_get_pml_or_alloc, st, path(v)),
              v, frame)

vmm_map(st, virtual, physical) ==
    LET page(s, i) == vmm_map_page(s, virtual.base + i - 1, physical.base + i - 1)
    IN  FoldLeft(page, st, [i \in 1 .. virtual.size |-> i])

\* Mutant: the page tables keep the entries.
vmm_unmap_nothing(st, virtual) == st

\* The entries of the range must be present.
vmm_unmap(st, virtual) ==
    IF units(virtual) \subseteq DOMAIN st.entries
    THEN [st EXCEPT !.entries = Restrict(@, DOMAIN @ \ units(virtual))]
    ELSE panics(st, "assert")

vmm_space_create(p, beyond) ==
    LET found == pmm_found(p, 1, TRUE, beyond)
        q == pmm_alloc(p, 1, TRUE, beyond)
    IN  [pmm |-> q, entries |-> <<>>,
         tables |-> IF q.panic # "no" THEN <<>>
                    ELSE <<Levels, 0>> :> pmm_alloc_at(found, 1, TRUE).base]

\* The frames of the tables that hang below the entries of a set of the root.
below(tables, entries) ==
    {tables[t] : t \in {u \in DOMAIN tables :
        u[1] < Levels /\ u[2] \div (Fanout ^ (Levels - 1 - u[1])) \in entries}}

\* The entries of the root that the addresses of a space reach into.
UserEntries == 1 + (range_end(UserRange) - 1) \div (Fanout ^ (Levels - 1))

root(tables) == tables[<<Levels, 0>>]

\* Mutant: only the root table is given back.
vmm_space_destroy_root(st) == pmm_unused(st.pmm, [base |-> root(st.tables), size |-> 1])

\* The root and the tables below its first OwnEntries entries go back; the
\* order does not matter to the allocator.
vmm_space_destroy(st) ==
    FoldSet(LAMBDA frame, p : pmm_unused(p, [base |-> frame, size |-> 1]),
            st.pmm, below(st.tables, 0 .. (OwnEntries - 1)) \union {root(st.tables)})

-----------------------------------------------------------------------------
(* Memory objects                                                            *)

memory_destroy(p, m) == IF m.type = "dma" THEN p ELSE pmm_unused(p, m.range)

memory_ref(mem, m) == [mem EXCEPT ![m].refs = @ + 1]

\* w = [pmm, memory]
memory_deref(w, m) ==
    IF w.memory[m].refs > 1 THEN [w EXCEPT !.memory[m].refs = @ - 1]
    ELSE [pmm |-> memory_destroy(w.pmm, w.memory[m]), memory |-> [w.memory EXCEPT ![m] = NoMemory]]

sys_create_memory(m, size, lower, beyond) ==
    LET found == pmm_found(phys, size, ~lower, beyond) IN
    /\ Running /\ memory[m] = NoMemory
    /\ phys' = pmm_alloc(phys, size, ~lower, beyond)
    /\ IF phys'.panic # "no" THEN UNCHANGED <<memory, open>>
       ELSE /\ memory' = [memory EXCEPT ![m] =
                   [type |-> "pmm", range |-> pmm_alloc_at(found, size, ~lower), refs |-> 1]]
            /\ open' = open \union {m}
    /\ UNCHANGED <<space, everMapped, lost>>

\* Device memory, here the pages the memory map does not call free or used.
sys_create_dma(m, range) ==
    /\ Running /\ memory[m] = NoMemory
    /\ memory' = [memory EXCEPT ![m] = [type |-> "dma", range |-> range, refs |-> 1]]
    /\ open' = open \union {m}
    /\ UNCHANGED <<phys, space, everMapped, lost>>

sys_close_memory(m) ==
    /\ Running /\ m \in open
    /\ LET w == memory_deref([pmm |-> phys, memory |-> memory], m)
       IN  phys' = w.pmm /\ memory' = w.memory
    /\ open' = open \ {m}
    /\ UNCHANGED <<space, everMapped, lost>>

-----------------------------------------------------------------------------
(* Spaces                                                                    *)

tables_of(s, beyond) == [pmm |-> phys, tables |-> space[s].tables,
                         entries |-> space[s].entries, beyond |-> beyond]

space_create(s, beyond) ==
    LET st == vmm_space_create(phys, beyond) IN
    /\ Running /\ space[s] = NoSpace /\ Cardinality(lost.tables) < MaxLost
    /\ phys' = st.pmm
    /\ IF phys'.panic # "no" THEN UNCHANGED <<space, open>>
       ELSE /\ space' = [space EXCEPT ![s] =
                   [live |-> TRUE, alloc |-> range_alloc_unused(<<>>, UserRange), mmaps |-> <<>>,
                    tables |-> st.tables, entries |-> st.entries]]
            /\ open' = open \union {s}
    /\ UNCHANGED <<memory, everMapped, lost>>

\* One reading of the bit for all the tables of a mapping: a reading that
\* changes between them only stops the kernel at another of them.
space_mmap_create(s, m, offset, range, alloc) ==
    \E beyond \in BOOLEAN :
    LET st == vmm_map(tables_of(s, beyond), range,
                      [base |-> memory[m].range.base + offset, size |-> range.size])
    IN  /\ phys' = st.pmm
        /\ memory' = memory_ref(memory, m)
        /\ space' = [space EXCEPT
               ![s].alloc = alloc,
               ![s].mmaps = Append(@, [base |-> range.base, size |-> range.size, object |-> m]),
               ![s].tables = st.tables,
               ![s].entries = st.entries]
        /\ everMapped' = [everMapped EXCEPT ![s] = @ \union units(range)]

\* The addresses are chosen by the kernel (vaddr = 0).
space_map_anywhere(s, m, offset, size) ==
    LET a == range_alloc_alloc(space[s].alloc, size) IN
    /\ a.range.size # 0
    /\ space_mmap_create(s, m, offset, a.range, a.ranges)

\* Mutant: the list of free ranges is not told.
space_map_at_free(s, m, offset, size, vaddr) ==
    LET range == [base |-> vaddr, size |-> size] IN
    /\ range \in Fixed
    /\ units(range) \intersect everMapped[s] = {}
    /\ space_mmap_create(s, m, offset, range, space[s].alloc)

\* The addresses are chosen by the program, which has not used them before.
space_map_at(s, m, offset, size, vaddr) ==
    LET range == [base |-> vaddr, size |-> size] IN
    /\ range \in Fixed
    /\ units(range) \intersect everMapped[s] = {}
    /\ space_mmap_create(s, m, offset, range, range_alloc_used(space[s].alloc, range))

\* Size 0 stands for the whole object.
sys_map(s, m, offset, size) ==
    LET n == IF size = 0 THEN memory[m].range.size ELSE size IN
    /\ Running /\ s \in open /\ m \in open
    /\ offset + n <= memory[m].range.size
    /\ Len(space[s].mmaps) < MaxMmap /\ memory[m].refs < MaxRefs
    /\ \/ space_map_anywhere(s, m, offset, n)
       \/ \E range \in Fixed : space_map_at(s, m, offset, n, range.base)
    /\ UNCHANGED <<open, lost>>

\* w = [pmm, memory, mmaps, tables, entries]
space_mmap_destroy(w, i) ==
    LET mmap == w.mmaps[i]
        st == vmm_unmap([pmm |-> w.pmm, tables |-> w.tables, entries |-> w.entries], mmap)
        d == memory_deref([pmm |-> st.pmm, memory |-> w.memory], mmap.object)
    IN  [pmm |-> d.pmm, memory |-> d.memory, mmaps |-> RemoveAt(w.mmaps, i),
         tables |-> w.tables, entries |-> st.entries]

whole(s) == [pmm |-> phys, memory |-> memory, mmaps |-> space[s].mmaps,
             tables |-> space[s].tables, entries |-> space[s].entries]

\* The first mapping with exactly this range goes; the range is not given
\* back to the list of free ones.
sys_unmap(s, range) ==
    LET equal == {i \in DOMAIN space[s].mmaps : range_eq(space[s].mmaps[i], range)}
        w == space_mmap_destroy(whole(s), Min(equal))
    IN  /\ Running /\ s \in open /\ equal # {}
        /\ phys' = w.pmm
        /\ memory' = w.memory
        /\ space' = [space EXCEPT ![s].mmaps = w.mmaps, ![s].entries = w.entries]
        /\ UNCHANGED <<open, everMapped, lost>>

\* The number of mappings of object m in a list.
mappings(mmaps, m) == Cardinality({i \in DOMAIN mmaps : mmaps[i].object = m})

\* The loop of space_destroy goes on to index i + 1 after the mapping at i
\* was removed and the next one took its place.
space_destroy(s) ==
    LET step(w, i) == IF i <= Len(w.mmaps) THEN space_mmap_destroy(w, i) ELSE w
        w == FoldLeft(step, whole(s), [i \in 1 .. Len(space[s].mmaps) |-> i])
    IN  /\ Running /\ s \in open
        /\ memory' = w.memory
        /\ phys' = IF w.pmm.panic # "no" THEN w.pmm ELSE vmm_space_destroy(w)
        /\ space' = [space EXCEPT ![s] = NoSpace]
        /\ open' = open \ {s}
        /\ everMapped' = [everMapped EXCEPT ![s] = {}]
        /\ lost' = [tables |-> lost.tables \union below(w.tables, OwnEntries .. (UserEntries - 1)),
                    refs |-> [m \in Memory |-> lost.refs[m] + mappings(w.mmaps, m)]]

-----------------------------------------------------------------------------

SpaceInit ==
    /\ phys = pmm_initialize
    /\ memory = [m \in Memory |-> NoMemory]
    /\ space = [s \in Spaces |-> NoSpace]
    /\ open = {}
    /\ everMapped = [s \in Spaces |-> {}]
    /\ lost = [tables |-> {}, refs |-> [m \in Memory |-> 0]]

SpaceNext ==
    \/ \E m \in Memory :
          \/ \E size \in ObjectSizes, lower \in Lower, beyond \in BOOLEAN :
                sys_create_memory(m, size, lower, beyond)
          \/ \E i \in DOMAIN Mmap : /\ Mmap[i].type = HANDOVER_MMAP_RESERVED
                                    /\ sys_create_dma(m, addr2pages(Mmap[i]))
          \/ sys_close_memory(m)
    \/ \E s \in Spaces :
          \/ \E beyond \in BOOLEAN : space_create(s, beyond)
          \/ space_destroy(s)
          \/ \E m \in Memory, p \in Parts : sys_map(s, m, p[1], p[2])
          \/ \E i \in DOMAIN space[s].mmaps : sys_unmap(s, space[s].mmaps[i])

-----------------------------------------------------------------------------

live(m) == memory[m] # NoMemory
frames(m) == units(memory[m].range)
tableFrames(s) == Range(space[s].tables)

\* Every page that the bitmap calls used since boot has one owner (vmm.c,
\* memory.c, pmm.c): it is a page table of one live space, a page of one memory
\* object, or a table that vmm_space_destroy left behind (vmm.c:171), one below
\* the entries of the root that it does not walk.  An object is kept by the
\* handle, by the mappings of live spaces and by the mappings that
\* space_destroy skipped (space.c:39-42), and by nothing else: these two are
\* the ways in which memory is lost, however spaces and objects come and go.
PagesHaveOneOwner ==
    Running =>
    LET objects == {m \in Memory : live(m) /\ memory[m].type = "pmm"}
        tables == UNION {tableFrames(s) : s \in Spaces}
        handles(m) == IF m \in open THEN 1 ELSE 0
    IN  /\ phys.used \ pmm_initialize.used =
               tables \union UNION {frames(m) : m \in objects} \union lost.tables
        /\ \A m \in objects : frames(m) \intersect (tables \union lost.tables) = {}
        /\ \A m, n \in objects : m # n => frames(m) \intersect frames(n) = {}
        /\ lost.tables \intersect tables = {}
        /\ \A s \in Spaces : IsInjective(space[s].tables)
        /\ \A s, t \in Spaces : s # t => tableFrames(s) \intersect tableFrames(t) = {}
        /\ \A m \in Memory : memory[m].refs =
               handles(m) + lost.refs[m]
               + MapThenSumSet(LAMBDA s : mappings(space[s].mmaps, m), Spaces)

\* What a program can reach through the page tables of a space is memory of
\* an object that is mapped there and still exists (space.c:19-31): frames
\* that went back to the allocator are in no page table.
ReachesOnlyMapped ==
    Running =>
    \A s \in Spaces : \A v \in DOMAIN space[s].entries :
        \E i \in DOMAIN space[s].mmaps :
            LET mmap == space[s].mmaps[i] IN
            /\ v \in units(mmap) /\ live(mmap.object)
            /\ space[s].entries[v] \in frames(mmap.object)

\* The kernel never chooses an address that is mapped in the space, and so does
\* not reach the panic "is already mapped" of vmm_map_page or the assertion of
\* vmm_unmap_page, for programs that do not reuse an address of their own
\* choice (space.c:98-111).  The pages of the kernel at the end of the range of
\* a space (space.c:60) are excepted: they are handed out last, and mapping
\* them panics.
ChoosesFreshAddresses == phys.panic \notin {"already mapped", "assert"}
=============================================================================
